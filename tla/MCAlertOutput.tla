---------------------------- MODULE MCAlertOutput ----------------------------
(***************************************************************************)
(* Small instances of AlertOutput: a warning and a heat watch whose name   *)
(* says "extreme", on a strobe that lists other colours after an update.   *)
(***************************************************************************)
EXTENDS AlertOutput

CONSTANTS tornado, watch, heat

MCWords ==
  [e \in Event |->
     IF e = tornado THEN {"warning"} ELSE IF e = watch THEN {"watch"} ELSE {"extreme", "watch"}]

On(e) == [event |-> e, enabled |-> TRUE]

(* Two rules and the strobe, with a duration that is no number; then the   *)
(* second rule alone, moved to the first slot, and the other channels,     *)
(* with a horn that has no profile for warnings; then one of the two rules *)
(* disabled.                                                               *)
MCSettings ==
  {[rules |-> <<On(watch), On(heat)>>, on |-> {"strobe"},
    displayFor |-> 0, strobeFor |-> 0, host |-> FALSE,
    profile |-> [warning |-> "emergency", watch |-> "caution"],
    clip |-> [warning |-> 3, watch |-> -1]],
   [rules |-> <<On(heat), NoRule>>, on |-> {"display", "d4200", "audio"},
    displayFor |-> 20, strobeFor |-> 20, host |-> TRUE,
    profile |-> [warning |-> "", watch |-> "caution"],
    clip |-> [warning |-> -1, watch |-> 2]],
   [rules |-> <<On(watch), [event |-> heat, enabled |-> FALSE]>>, on |-> {"d4200"},
    displayFor |-> 20, strobeFor |-> 20, host |-> TRUE,
    profile |-> [warning |-> "", watch |-> "caution"],
    clip |-> [warning |-> -1, watch |-> 2]]}

MCPalettes == {<<"magenta", "red", "chartreuse">>, <<"white", "amber", "green">>}
=============================================================================
