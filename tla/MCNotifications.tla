--------------------------- MODULE MCNotifications ---------------------------
(* Small instances of Notifications: an alert type and a threshold rule.   *)
EXTENDS Notifications

CONSTANTS tornado, heat

MCEngineOf == [e \in Event |-> IF e = tornado THEN "alert" ELSE "threshold"]

Holds(h, t) == [e \in Engine |-> IF e = "alert" THEN h ELSE t]
Everything(h) ==
  [channels |-> Channel, emailOnClear |-> TRUE,
   snapOnActivate |-> TRUE, snapOnClear |-> TRUE, hold |-> h]

AllOnEdits == {Everything(Holds(2, 1)), Everything(Holds(0, 3))}
=============================================================================
