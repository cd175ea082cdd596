---------------------------- MODULE OverlayProofs ----------------------------
(***************************************************************************)
(* The safety properties of the text overlay for any texts, corners and    *)
(* handles, under any disturbances.                                        *)
(***************************************************************************)
EXTENDS Overlay, FiniteSetTheorems, TLAPS

(* While the overlay is tracked, the only one there can be is the one      *)
(* whose handle the daemon remembers, and a daemon that is down remembers  *)
(* none.                                                                   *)
OnlyTheRemembered ==
  Tracked => /\ accepts
             /\ DOMAIN shown \subseteq {g_overlay_id}
             /\ ~up => g_overlay_id = None

LEMMA PutType ==
  ASSUME TypeOK, NEW i \in Id, NEW shape \in Shape, Put(i, shape)
  PROVE  /\ DOMAIN shown' = DOMAIN shown \cup {i}
         /\ DOMAIN shown' \subseteq Id /\ shown' \in [DOMAIN shown' -> Shape]
BY DEF TypeOK, Put

LEMMA AddedType ==
  ASSUME TypeOK, NEW i, Added(i)
  PROVE  /\ i \in Id
         /\ DOMAIN shown' = DOMAIN shown \cup {i}
         /\ DOMAIN shown' \subseteq Id /\ shown' \in [DOMAIN shown' -> Shape]
<1>1. i \in Id /\ Put(i, [text |-> text, position |-> config.position])
  BY DEF Added
<1>2. [text |-> text, position |-> config.position] \in Shape
  BY DEF TypeOK, Config, Shape
<1> QED BY <1>1, <1>2, PutType

LEMMA SetTextType ==
  ASSUME TypeOK, SetText
  PROVE  /\ DOMAIN shown' = DOMAIN shown
         /\ DOMAIN shown' \subseteq Id /\ shown' \in [DOMAIN shown' -> Shape]
<1>1. /\ g_overlay_id \in DOMAIN shown
      /\ Put(g_overlay_id, [shown[g_overlay_id] EXCEPT !.text = text])
  BY DEF SetText
<1>2. g_overlay_id \in Id /\ shown[g_overlay_id] \in Shape
  BY <1>1 DEF TypeOK
<1>3. [shown[g_overlay_id] EXCEPT !.text = text] \in Shape
  BY <1>2 DEF TypeOK, Shape
<1> QED BY <1>1, <1>2, <1>3, PutType

-----------------------------------------------------------------------------
LEMMA InitInv == Init => TypeOK /\ OnlyTheRemembered
<1> SUFFICES ASSUME Init PROVE TypeOK /\ OnlyTheRemembered
  OBVIOUS
<1>1. shown = Nothing /\ DOMAIN shown = {} /\ shown \in [DOMAIN shown -> Shape]
  BY DEF Init, Nothing
<1>2. Tracked => accepts
  BY DEF Init, Tracked
<1> QED BY <1>1, <1>2 DEF Init, TypeOK, OnlyTheRemembered

LEMMA StepType == TypeOK /\ [Next]_vars => TypeOK'
<1> SUFFICES ASSUME TypeOK, [Next]_vars PROVE TypeOK'
  OBVIOUS
<1>1. ASSUME NEW has, Probe(has)
      PROVE  /\ UNCHANGED <<video, accepts, env, text, valid, config, up>>
             /\ g_has_video' \in {None, 0, 1}
  BY <1>1 DEF Probe, Probed, TypeOK
<1>2. CASE AddText \/ AddTextAnswerLost
  <2>1. PICK i : Added(i) /\ (g_overlay_id' = i \/ g_overlay_id' = g_overlay_id)
    BY <1>2 DEF AddText, AddTextAnswerLost
  <2>2. Probe(1)
    BY <1>2 DEF AddText, AddTextAnswerLost
  <2> QED BY <1>1, <2>1, <2>2, AddedType DEF TypeOK
<1>3. CASE SetText
  BY <1>1, <1>3, SetTextType DEF SetText, TypeOK
<1>4. CASE \/ NoVideo \/ AddTextRefused \/ SetTextStale
           \/ Refused \/ Unauthorized \/ RequestLost
  <2>1. PICK has : Probe(has)
    BY <1>4 DEF NoVideo, AddTextRefused, SetTextStale, Refused, Unauthorized, RequestLost
  <2>2. UNCHANGED shown /\ g_overlay_id' \in {g_overlay_id, None}
    BY <1>4 DEF NoVideo, AddTextRefused, SetTextStale, Refused, Unauthorized, RequestLost
  <2> QED BY <1>1, <2>1, <2>2 DEF TypeOK
<1>5. CASE Stop
  <2>1. DOMAIN shown' \subseteq Id /\ shown' \in [DOMAIN shown' -> Shape]
    BY <1>5 DEF Stop, TypeOK
  <2>2. /\ UNCHANGED <<video, accepts, env, text, valid, config, g_has_video>>
        /\ g_overlay_id' = None /\ up' = FALSE
    BY <1>5 DEF Stop
  <2> QED BY <2>1, <2>2 DEF TypeOK
<1>6. CASE Cleared
  <2>1. DOMAIN shown' = {} /\ shown' \in [DOMAIN shown' -> Shape]
    BY <1>6 DEF Cleared, Nothing
  <2> QED BY <1>6, <2>1 DEF Cleared, daemonVars, TypeOK
<1>7. CASE \/ Crash \/ Start \/ ApplySave \/ PasswordChanges \/ WeatherChanges
           \/ UNCHANGED vars
  BY <1>7 DEF Crash, Start, ApplySave, PasswordChanges, WeatherChanges,
              deviceVars, daemonVars, vars, TypeOK
<1>8. \/ AddText \/ AddTextAnswerLost \/ SetText
      \/ NoVideo \/ AddTextRefused \/ SetTextStale
      \/ Refused \/ Unauthorized \/ RequestLost
      \/ Stop \/ Cleared \/ Crash \/ Start \/ ApplySave \/ PasswordChanges
      \/ WeatherChanges \/ UNCHANGED vars
  BY DEF Next, overlay_update, NotDue
<1> QED BY <1>2, <1>3, <1>4, <1>5, <1>6, <1>7, <1>8

LEMMA StepRemembered == TypeOK /\ OnlyTheRemembered /\ [Next]_vars => OnlyTheRemembered'
<1> SUFFICES ASSUME TypeOK, OnlyTheRemembered, [Next]_vars, Tracked'
             PROVE  OnlyTheRemembered'
  BY DEF OnlyTheRemembered
<1> USE DEF OnlyTheRemembered
<1>1. env' = env
  BY DEF Next, overlay_update, NotDue, NoVideo, AddText, AddTextAnswerLost,
         AddTextRefused, SetText, SetTextStale, Refused, Unauthorized, RequestLost, Probe,
         Stop, Crash, Start, ApplySave, Cleared, PasswordChanges, WeatherChanges, vars
<1>2. Tracked /\ accepts /\ DOMAIN shown \subseteq {g_overlay_id}
  BY <1>1 DEF Tracked
<1>3. ~Lossy /\ "refuse" \notin env /\ "creds" \notin env /\ "crash" \notin env
  BY <1>2 DEF Tracked, Lossy
<1>4. \A i \in DOMAIN shown : i # None
  BY IdAssumption DEF TypeOK, None
<1>5. CASE AddText
  <2>1. PICK i \in Id : Added(i) /\ g_overlay_id' = i
    BY <1>5 DEF AddText
  <2>2. DOMAIN shown = {}
    BY <1>2, <1>4, <1>5 DEF AddText
  <2>3. DOMAIN shown' = {i}
    BY <2>1, <2>2, AddedType
  <2>4. up' /\ accepts'
    BY <1>2, <1>5 DEF AddText, Probe
  <2> QED BY <2>1, <2>3, <2>4
<1>6. CASE SetText
  <2>1. DOMAIN shown' = DOMAIN shown /\ g_overlay_id' = g_overlay_id
    BY <1>6, SetTextType DEF SetText
  <2> QED BY <1>2, <1>6, <2>1 DEF SetText, Probe
<1>7. CASE NoVideo \/ AddTextRefused \/ SetTextStale
  <2>1. /\ UNCHANGED <<shown, accepts, up>> /\ up
        /\ g_overlay_id' = g_overlay_id \/ g_overlay_id \notin DOMAIN shown
    BY <1>7 DEF NoVideo, AddTextRefused, SetTextStale, Probe
  <2> QED BY <1>2, <2>1
<1>8. CASE Stop
  <2>1. up' = FALSE /\ g_overlay_id' = None /\ accepts' = accepts
    BY <1>8 DEF Stop
  <2>2. DOMAIN shown' \subseteq DOMAIN shown \ {g_overlay_id}
    BY <1>2, <1>3, <1>4, <1>8 DEF Stop
  <2> QED BY <1>2, <2>1, <2>2
<1>9. CASE Start
  <2>1. g_overlay_id = None /\ g_overlay_id' = None /\ UNCHANGED deviceVars /\ up'
    BY <1>2, <1>9 DEF Start
  <2> QED BY <1>2, <2>1 DEF deviceVars
<1>10. CASE Cleared
  BY <1>2, <1>10 DEF Cleared, Nothing, daemonVars
<1>11. CASE NotDue \/ ApplySave \/ WeatherChanges \/ UNCHANGED vars
  BY <1>2, <1>11 DEF NotDue, ApplySave, WeatherChanges, vars, deviceVars, daemonVars
<1>12. ~(AddTextAnswerLost \/ RequestLost \/ Refused \/ Unauthorized \/ Crash \/ PasswordChanges)
  BY <1>2, <1>3 DEF AddTextAnswerLost, RequestLost, Refused, Unauthorized, Crash, PasswordChanges
<1> QED BY <1>5, <1>6, <1>7, <1>8, <1>9, <1>10, <1>11, <1>12 DEF Next, overlay_update

LEMMA InvHolds == Spec => [](TypeOK /\ OnlyTheRemembered)
BY InitInv, StepType, StepRemembered, PTL DEF Spec

-----------------------------------------------------------------------------
(* The type of every variable, for any texts, corners and handles.         *)
THEOREM TypeCorrect == Spec => []TypeOK
BY InvHolds, PTL

(* While no answer, password or process is lost and nothing is refused, no *)
(* second overlay is ever added, however often the operator or other       *)
(* applications remove the one.                                            *)
THEOREM AtMostOneOverlayHolds == Spec => []AtMostOneOverlay
<1>1. TypeOK /\ OnlyTheRemembered => AtMostOneOverlay
  <2> SUFFICES ASSUME DOMAIN shown \subseteq {g_overlay_id}
               PROVE  Cardinality(DOMAIN shown) <= 1
    BY DEF OnlyTheRemembered, AtMostOneOverlay
  <2>1. /\ IsFiniteSet({}) /\ Cardinality({}) = 0
        /\ Cardinality({g_overlay_id}) = 1
    BY FS_EmptySet, FS_Singleton
  <2>2. DOMAIN shown = {} \/ DOMAIN shown = {g_overlay_id}
    OBVIOUS
  <2> QED BY <2>1, <2>2
<1> QED BY <1>1, InvHolds, PTL

(* Under the same conditions an orderly stop leaves the video clean.       *)
THEOREM StopRemovesOverlayHolds == Spec => []StopRemovesOverlay
<1>1. TypeOK /\ OnlyTheRemembered => StopRemovesOverlay
  <2> SUFFICES ASSUME TypeOK, DOMAIN shown \subseteq {None}
               PROVE  shown = Nothing
    BY DEF OnlyTheRemembered, StopRemovesOverlay
  <2>1. DOMAIN shown = {}
    BY IdAssumption DEF TypeOK, None
  <2> QED BY <2>1 DEF TypeOK, Nothing
<1> QED BY <1>1, InvHolds, PTL

=============================================================================
