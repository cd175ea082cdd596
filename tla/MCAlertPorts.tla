---------------------------- MODULE MCAlertPorts ----------------------------
(***************************************************************************)
(* Small instances of AlertPorts: two alert types and one threshold        *)
(* crossing, with tables that exercise one kind of edit each.              *)
(***************************************************************************)
EXTENDS AlertPorts

CONSTANTS tornado, flood, heat, p1, p2, p3

Row3(t, p, en) == [trigger |-> t, port |-> p, enabled |-> en]
TableOf(as, ts) == [e \in Engine |-> IF e = "alert" THEN as ELSE ts]

(* Two alert rules and one threshold rule, each enabled or not.            *)
ToggleTables ==
  {TableOf(<<Row3(tornado, p1, a), Row3(flood, p2, b)>>, <<Row3(heat, p3, c)>>) :
     a, b, c \in BOOLEAN}

(* One alert rule and one threshold rule, each enabled or not.             *)
PairTables ==
  {TableOf(<<Row3(tornado, p1, a)>>, <<Row3(heat, p2, c)>>) : a, c \in BOOLEAN}

(* The same table for good, with a disabled row.                           *)
FixedTables ==
  {TableOf(<<Row3(tornado, p1, TRUE), Row3(flood, p2, TRUE)>>,
           <<Row3(heat, p3, TRUE), Row3(flood, p3, FALSE)>>)}
=============================================================================
