----------------------------- MODULE PortMirror -----------------------------
(***************************************************************************)
(* What the rule engines promise about the virtual input ports: there is a *)
(* set of ports that the last fetched weather wants on, ports are driven   *)
(* one at a time, each straight to its target, and a new target is taken   *)
(* only when every port has reached the old one.  No memory, no tables.    *)
(***************************************************************************)
CONSTANT Port

VARIABLES
  wanted,   \* the ports that should be on
  port      \* the ports' states

vars == <<wanted, port>>

Init == wanted = {} /\ port = [p \in Port |-> FALSE]

Settled == \A p \in Port : port[p] <=> p \in wanted

Retarget ==
  /\ Settled
  /\ wanted' \in SUBSET Port
  /\ UNCHANGED port

Drive(p) ==
  /\ ~(port[p] <=> p \in wanted)
  /\ port' = [port EXCEPT ![p] = p \in wanted]
  /\ UNCHANGED wanted

Next == Retarget \/ \E p \in Port : Drive(p)

Safety == Init /\ [][Next]_vars

Spec == Safety /\ WF_vars(\E p \in Port : Drive(p))
=============================================================================
