------------------------------- MODULE Overlay -------------------------------
(***************************************************************************)
(* The text overlay on the live video: overlay_update and overlay_delete   *)
(* of overlay.c, called once per poll and at shutdown by weather_acap.c,   *)
(* against the device's dynamic-overlay service, which outlives them.      *)
(* One call of the service is one step here: nothing else of this program  *)
(* talks to it meanwhile.                                                  *)
(***************************************************************************)
EXTENDS Integers, FiniteSets

CONSTANTS
  Text,      \* the rendered texts that are told apart
  Position,  \* corners
  Id         \* the handles the device gives out

Disturbance ==
  {"clear",   \* another app or the operator removes the overlays
   "creds",   \* the stored VAPIX password is wrong for a while
   "lost",    \* a request or its answer is lost, or the server cannot answer it
   "refuse",  \* the device refuses a request that it could do
   "stop",    \* the app is stopped in an orderly way, and started again
   "crash"}   \* the daemon dies and is respawned

ASSUME IdAssumption == Id \subseteq Nat /\ IsFiniteSet(Id)

VARIABLES
  env,  \* the disturbances of this behaviour, a subset of Disturbance
  \* the device: whether it has video, takes the stored password, and shows
  video, accepts, shown,
  \* the weather of the polls: the text it renders to, valid conditions or not
  text, valid,
  \* the daemon
  config, up, g_overlay_id, g_has_video

deviceVars == <<video, accepts, shown>>
daemonVars == <<config, up, g_overlay_id, g_has_video>>
vars == <<env, deviceVars, text, valid, daemonVars>>

None == -1
Config == [enabled : BOOLEAN, position : Position]
Shape == [text : Text, position : Position]

TypeOK ==
  /\ env \subseteq Disturbance
  /\ {video, accepts, valid, up} \subseteq BOOLEAN
  /\ DOMAIN shown \subseteq Id /\ shown \in [DOMAIN shown -> Shape]
  /\ text \in Text
  /\ config \in Config
  /\ g_overlay_id \in Id \cup {None}
  /\ g_has_video \in {None, 0, 1}

Nothing == [i \in {} |-> 0]

Init ==
  /\ env \in SUBSET Disturbance
  /\ video \in BOOLEAN
  /\ accepts \in (IF "creds" \in env THEN BOOLEAN ELSE {TRUE})
  /\ shown = Nothing
  /\ text \in Text /\ valid \in BOOLEAN
  /\ config \in Config
  /\ up = TRUE
  /\ g_overlay_id = None /\ g_has_video = None

-----------------------------------------------------------------------------
Lossy == "lost" \in env

Put(i, shape) ==
  shown' = [j \in DOMAIN shown \cup {i} |-> IF j = i THEN shape ELSE shown[j]]

(* vapix_has_video answers 0 for a device without video and for any        *)
(* failure of the request, and the first answer is kept.                   *)
Probed ==
  IF g_has_video # None THEN {g_has_video}
  ELSE {IF video /\ accepts THEN 1 ELSE 0} \cup (IF Lossy THEN {0} ELSE {})

Probe(has) ==
  /\ up /\ config.enabled /\ valid
  /\ has \in Probed
  /\ g_has_video' = has
  /\ UNCHANGED <<video, accepts, env, text, valid, config, up>>

NotDue ==
  /\ up /\ ~(config.enabled /\ valid)
  /\ UNCHANGED vars

NoVideo == Probe(0) /\ UNCHANGED <<shown, g_overlay_id>>

Added(i) == i \in Id \ DOMAIN shown /\ Put(i, [text |-> text, position |-> config.position])

(* Defective: the key that this firmware does not use is read as a number. *)
AddTextReadsZero ==
  /\ Probe(1) /\ g_overlay_id = None /\ accepts
  /\ \E i \in Id : Added(i)
  /\ g_overlay_id' = 0

(* addText: the device takes any handle that is free.                      *)
AddText ==
  /\ Probe(1) /\ g_overlay_id = None /\ accepts
  /\ \E i \in Id : Added(i) /\ g_overlay_id' = i

(* The overlay is there, its handle is not known.                          *)
AddTextAnswerLost ==
  /\ Lossy
  /\ Probe(1) /\ g_overlay_id = None /\ accepts
  /\ \E i \in Id : Added(i)
  /\ UNCHANGED g_overlay_id

(* No handle is left: HTTP 200 without one in the answer.                  *)
AddTextRefused ==
  /\ Probe(1) /\ g_overlay_id = None /\ accepts
  /\ Id \subseteq DOMAIN shown
  /\ UNCHANGED <<shown, g_overlay_id>>

(* Defective: a handle the device does not know is kept.                   *)
SetTextKeepsStale ==
  /\ Probe(1) /\ g_overlay_id # None /\ accepts
  /\ g_overlay_id \notin DOMAIN shown
  /\ UNCHANGED <<shown, g_overlay_id>>

(* Defective: the handle is forgotten after every update.                  *)
SetTextForgets ==
  /\ Probe(1) /\ g_overlay_id # None /\ accepts
  /\ g_overlay_id \in DOMAIN shown
  /\ Put(g_overlay_id, [shown[g_overlay_id] EXCEPT !.text = text])
  /\ g_overlay_id' = None

(* setText sends the handle and the text, not the position.                *)
SetText ==
  /\ Probe(1) /\ g_overlay_id # None /\ accepts
  /\ g_overlay_id \in DOMAIN shown
  /\ Put(g_overlay_id, [shown[g_overlay_id] EXCEPT !.text = text])
  /\ UNCHANGED g_overlay_id

(* HTTP 200 with an error: the handle is stale.                            *)
SetTextStale ==
  /\ Probe(1) /\ g_overlay_id # None /\ accepts
  /\ g_overlay_id \notin DOMAIN shown
  /\ g_overlay_id' = None
  /\ UNCHANGED shown

(* An error in the answer, HTTP 400 or 404, for either method and whatever *)
(* the device shows: the handle is dropped.                                *)
Refused ==
  /\ "refuse" \in env
  /\ Probe(1) /\ accepts
  /\ g_overlay_id' = None
  /\ UNCHANGED shown

(* HTTP 401, for either method: the handle is dropped.                     *)
Unauthorized ==
  /\ Probe(1) /\ ~accepts
  /\ g_overlay_id' = None
  /\ UNCHANGED shown

(* No answer, or any other code: the handle is kept.                       *)
RequestLost == Lossy /\ Probe(1) /\ UNCHANGED <<shown, g_overlay_id>>

overlay_update ==
  \/ NotDue \/ NoVideo
  \/ AddText \/ AddTextAnswerLost \/ AddTextRefused
  \/ SetText \/ SetTextStale
  \/ Refused \/ Unauthorized \/ RequestLost

(* Defective: the memory is dropped before the request is built.           *)
StopForgets ==
  /\ "stop" \in env /\ up
  /\ UNCHANGED shown
  /\ g_overlay_id' = None
  /\ up' = FALSE
  /\ UNCHANGED <<video, accepts, env, text, valid, config, g_has_video>>

(* Shutdown: overlay_delete, whose answer is not looked at.                *)
Stop ==
  /\ "stop" \in env /\ up
  /\ \/ g_overlay_id # None /\ accepts
        /\ shown' = [i \in DOMAIN shown \ {g_overlay_id} |-> shown[i]]
     \/ /\ g_overlay_id = None \/ ~accepts \/ Lossy \/ "refuse" \in env
        /\ UNCHANGED shown
  /\ g_overlay_id' = None
  /\ up' = FALSE
  /\ UNCHANGED <<video, accepts, env, text, valid, config, g_has_video>>

Crash ==
  /\ "crash" \in env /\ up
  /\ up' = FALSE
  /\ UNCHANGED <<deviceVars, env, text, valid, config, g_overlay_id, g_has_video>>

Start ==
  /\ ~up /\ up' = TRUE
  /\ g_overlay_id' = None /\ g_has_video' = None
  /\ UNCHANGED <<deviceVars, env, text, valid, config>>

ApplySave ==
  /\ up
  /\ config' \in Config
  /\ UNCHANGED <<deviceVars, env, text, valid, up, g_overlay_id, g_has_video>>

-----------------------------------------------------------------------------
Cleared ==
  /\ "clear" \in env
  /\ shown' = Nothing
  /\ UNCHANGED <<video, accepts, env, text, valid, daemonVars>>

PasswordChanges ==
  /\ "creds" \in env
  /\ accepts' = ~accepts
  /\ UNCHANGED <<video, shown, env, text, valid, daemonVars>>

WeatherChanges ==
  /\ text' \in Text /\ valid' \in BOOLEAN
  /\ UNCHANGED <<env, deviceVars, daemonVars>>

Next ==
  \/ overlay_update
  \/ Stop \/ Crash \/ Start \/ ApplySave
  \/ Cleared \/ PasswordChanges \/ WeatherChanges

Spec == Init /\ [][Next]_vars

(* Polls keep coming, and a daemon that is down is started again.          *)
FairSpec == Spec /\ WF_vars(overlay_update) /\ WF_vars(Start)

(* And, of the requests that can be lost or refused, some get through.     *)
AnsweredSpec == FairSpec /\ SF_vars(AddText \/ SetText \/ SetTextStale)

-----------------------------------------------------------------------------
(* The disturbances that the daemon keeps track of the overlay under.      *)
Tracked == env \subseteq {"clear", "stop"}

(* "A text overlay is rendered" (README): never two of them on top of each *)
(* other, whatever clears them, if no answer, password or process is lost  *)
(* and no request refused that could be done.                              *)
AtMostOneOverlay == Tracked => Cardinality(DOMAIN shown) <= 1

(* "Remove the overlay (shutdown cleanup)" (overlay.h): an orderly stop    *)
(* leaves no overlay of this process behind, under the same conditions.    *)
StopRemovesOverlay == Tracked /\ ~up => shown = Nothing

(* "Updated every poll cycle" (README): while the overlay is enabled and   *)
(* the weather stays what it is, the video shows it again and again; under *)
(* every disturbance, if the probe for video was not itself disturbed and  *)
(* the device has a handle left: whatever was cleared, refused, lost or    *)
(* forgotten, the text comes back.                                         *)
OverlayComesBack ==
  \A t \in Text :
    <>[](/\ up /\ video /\ accepts
         /\ g_has_video # 0 \/ env \cap {"creds", "lost"} = {}
         /\ DOMAIN shown # Id \/ Tracked
         /\ config.enabled /\ valid /\ text = t)
      => []<>(\E i \in DOMAIN shown : shown[i].text = t)
=============================================================================
