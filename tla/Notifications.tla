---------------------------- MODULE Notifications ----------------------------
(***************************************************************************)
(* on_alert_transition of weather_acap.c: what the transitions of the rule *)
(* engines turn into, through the cool-down of                             *)
(* cooldown_check_and_update, on the channels that have one: webhook,      *)
(* MQTT, e-mail, the camera's snapshot and the other cameras' snapshots.   *)
(* The table of the cool-down and the rules' states are in the memory of   *)
(* the process: a daemon that dies, even between two channels of one       *)
(* transition, leaves both empty to the next.                              *)
(***************************************************************************)
EXTENDS Integers, FiniteSets

CONSTANTS
  Event,       \* names of the rules: alert types and threshold rules
  EngineOf,    \* the engine that reports each, which has its own cool-down
  Settings,    \* the notification settings an operator may save
  MaxRecords,  \* NOTIF_HISTORY_MAX
  MaxTime      \* bound on the clock, in the unit of the cool-downs

Engine  == {"alert", "threshold"}
Order   == <<"snapshot", "webhook", "mqtt", "email", "multicam">>
Channel == {Order[n] : n \in 1..5}
Action  == {"activated", "cleared"}
Key     == Event \X Action

Setting ==
  [channels : SUBSET Channel,
   emailOnClear : BOOLEAN,
   snapOnActivate : BOOLEAN, snapOnClear : BOOLEAN,
   hold : [Engine -> Nat]]

ASSUME EngineOfAssumption == EngineOf \in [Event -> Engine]
ASSUME SettingsAssumption == Settings \subseteq Setting
ASSUME BoundAssumption == MaxRecords \in Nat /\ MaxTime \in Nat

VARIABLES
  now,
  settings,
  active,    \* the state of each rule, as its engine last reported it
  changed,   \* when this daemon last reported each key
  calm,      \* no rule repeated a transition within its cool-down or was forgotten
  records,   \* g_notif_history: the time kept for some keys
  sent,      \* when this daemon last used a channel for each key
  told       \* the action of each event each channel was last given

vars == <<now, settings, active, changed, calm, records, sent, told>>

Never == -1
Time == 0..MaxTime

TypeOK ==
  /\ now \in Time
  /\ settings \in Settings
  /\ active \in [Event -> BOOLEAN]
  /\ changed \in [Key -> Time \cup {Never}]
  /\ calm \in BOOLEAN
  /\ DOMAIN records \subseteq Key
  /\ records \in [DOMAIN records -> Time]
  /\ Cardinality(DOMAIN records) <= MaxRecords
  /\ sent \in [Key -> Time \cup {Never}]
  /\ told \in [Channel \X Event -> Action]

Init ==
  /\ now = 0
  /\ settings \in Settings
  /\ active = [e \in Event |-> FALSE]
  /\ changed = [k \in Key |-> Never]
  /\ calm = TRUE
  /\ records = [k \in {} |-> 0]
  /\ sent = [k \in Key |-> Never]
  /\ told = [c \in Channel \X Event |-> "cleared"]

-----------------------------------------------------------------------------
Hold(k) == settings.hold[EngineOf[k[1]]]

(* Defective: a cool-down that has just elapsed still holds.               *)
PassedStrictly(k) ==
  k \in DOMAIN records => Hold(k) = 0 \/ now - records[k] > Hold(k)

Passed(k) ==
  k \in DOMAIN records => Hold(k) = 0 \/ now - records[k] >= Hold(k)

Put(k) ==
  [j \in DOMAIN records \cup {k} |-> IF j = k THEN now ELSE records[j]]

(* Defective: the record is refreshed by what it suppresses.               *)
RecordedAlways(k) ==
  IF k \in DOMAIN records \/ Cardinality(DOMAIN records) < MaxRecords
    THEN Put(k) ELSE records

(* Defective: a record is never refreshed.                                 *)
RecordedOnce(k) ==
  IF k \notin DOMAIN records /\ Cardinality(DOMAIN records) < MaxRecords
    THEN Put(k) ELSE records

(* Defective: the end of the cool-down is kept, not its beginning.         *)
RecordedUntil(k) ==
  IF k \in DOMAIN records => Passed(k)
    THEN [j \in DOMAIN records \cup {k} |-> IF j = k THEN now + Hold(k) ELSE records[j]]
    ELSE records

(* What cooldown_check_and_update leaves in the table: a record is never   *)
(* given up, and a key that finds the table full is not recorded.          *)
Recorded(k) ==
  IF \/ k \in DOMAIN records /\ Passed(k)
     \/ k \notin DOMAIN records /\ Cardinality(DOMAIN records) < MaxRecords
    THEN Put(k) ELSE records

(* The channels a transition that passes goes to.                          *)
Wants(a) ==
  {c \in settings.channels :
     /\ (c = "email" /\ a = "cleared") => settings.emailOnClear
     /\ (c \in {"snapshot", "multicam"}) =>
          IF a = "activated" THEN settings.snapOnActivate ELSE settings.snapOnClear}

Due(k) == IF Passed(k) THEN Wants(k[2]) ELSE {}

Told(channels, e, a) ==
  [ce \in Channel \X Event |->
     IF ce[1] \in channels /\ ce[2] = e THEN a ELSE told[ce]]

on_alert_transition(e, a) ==
  LET k == <<e, a>>
  IN  /\ records' = Recorded(k)
      /\ sent' = IF Due(k) = {} THEN sent ELSE [sent EXCEPT ![k] = now]
      /\ told' = Told(Due(k), e, a)

(* A report of the rule engines.                                           *)
Transition(e, a) ==
  /\ active[e] = (a = "cleared")
  /\ active' = [active EXCEPT ![e] = ~@]
  /\ changed' = [changed EXCEPT ![<<e, a>>] = now]
  /\ calm' = (/\ calm
              /\ \/ changed[<<e, a>>] = Never
                 \/ now - changed[<<e, a>>] >= Hold(<<e, a>>))
  /\ on_alert_transition(e, a)
  /\ UNCHANGED <<now, settings>>

(* A rule that is disabled is forgotten without a report.                  *)
DisableRule(e) ==
  /\ active[e]
  /\ active' = [active EXCEPT ![e] = FALSE]
  /\ calm' = FALSE
  /\ UNCHANGED <<now, settings, changed, records, sent, told>>

(* The daemon is gone; the next begins with no rule active and no record.  *)
Forgotten ==
  /\ active' = [e \in Event |-> FALSE]
  /\ changed' = [k \in Key |-> Never]
  /\ records' = [k \in {} |-> 0]
  /\ sent' = [k \in Key |-> Never]
  /\ UNCHANGED <<now, settings>>

Restart ==
  /\ Forgotten
  /\ calm' = (calm /\ \A e \in Event : ~active[e])
  /\ UNCHANGED told

(* It dies in on_alert_transition, with the first n channels served.       *)
DiesSending(e, a) ==
  /\ active[e] = (a = "cleared")
  /\ \E n \in 0..5 :
       told' = Told(Due(<<e, a>>) \cap {Order[i] : i \in 1..n}, e, a)
  /\ Forgotten
  /\ calm' = FALSE

ApplySave ==
  /\ settings' \in Settings
  /\ UNCHANGED <<now, active, changed, calm, records, sent, told>>

Tick ==
  /\ now < MaxTime
  /\ now' = now + 1
  /\ UNCHANGED <<settings, active, changed, calm, records, sent, told>>

Next ==
  \/ \E e \in Event, a \in Action : Transition(e, a) \/ DiesSending(e, a)
  \/ Restart
  \/ \E e \in Event : DisableRule(e)
  \/ ApplySave
  \/ Tick

Spec == Init /\ [][Next]_vars

-----------------------------------------------------------------------------
(* "Minimum minutes between repeat notifications for the same NWS alert    *)
(* event" (README): a daemon uses no channel twice for a transition within *)
(* its cool-down, however the cool-down is edited in between; but for a    *)
(* key that finds the table full of the records of others.                 *)
Spaced ==
  [][\A e \in Event, a \in Action :
       LET k == <<e, a>>
       IN  (Transition(e, a) \/ DiesSending(e, a)) /\ Due(k) # {} =>
             \/ sent[k] = Never
             \/ Hold(k) = 0
             \/ now - sent[k] >= Hold(k)
             \/ k \notin DOMAIN records /\ Cardinality(DOMAIN records) = MaxRecords]_vars

(* "Track the last time a notification was sent for each (event, action)   *)
(* key": a transition is only suppressed when one was sent for the same    *)
(* key within the cool-down.                                               *)
SilenceIsRecent ==
  [][\A e \in Event, a \in Action : Transition(e, a) /\ ~Passed(<<e, a>>) =>
       sent[<<e, a>>] # Never /\ now - sent[<<e, a>>] < Hold(<<e, a>>)]_vars

(* As long as no rule has repeated a transition within its cool-down, was  *)
(* disabled while active or was active when the daemon died, and none died *)
(* in a transition, every channel was given the present state of every     *)
(* rule.  None of them resends: a transition that is suppressed is never   *)
(* made good.                                                              *)
ReceiversAgree ==
  calm => \A c \in Channel, e \in Event :
            told[<<c, e>>] = "activated" <=> active[e]
=============================================================================
