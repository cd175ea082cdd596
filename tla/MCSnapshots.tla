----------------------------- MODULE MCSnapshots -----------------------------
(* Small instances of Snapshots: one alert type, and two settings: the     *)
(* camera and two others with labels that are written alike, and a limit;  *)
(* one other camera only, and no limit.  In the directory there may be a   *)
(* picture of the operator's own.                                          *)
EXTENDS Snapshots, TLC

CONSTANTS tornado, tornado_warning, lot_1, gate, garden

MCSafe == [e \in Event |-> tornado_warning]
MCLabelled ==
  [ce \in Camera \X Event |-> IF ce[1] = "Gate" THEN gate ELSE lot_1]

MCBefore ==
  {<< >>, <<[name |-> [at |-> 0, what |-> garden], mtime |-> 0, whole |-> TRUE]>>}

MCSettings ==
  {[enabled |-> TRUE, on |-> {"activated", "cleared"}, cams |-> <<"Lot 1", "Lot/1">>, max |-> 1],
   [enabled |-> FALSE, on |-> {"activated"}, cams |-> <<"Gate">>, max |-> 0]}

(* The two kinds of pictures taken by hand differ in their names only.     *)
ByHand == Permutations({Manual, Test_Snapshot})
=============================================================================
