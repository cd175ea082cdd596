------------------------- MODULE NotificationsProofs -------------------------
(***************************************************************************)
(* The cool-down for any rules, settings, edits, deaths, times and sizes   *)
(* of the table: TypeOK, Spaced, SilenceIsRecent while every transition    *)
(* has a channel that wants it, and ReceiversAgree for every channel that  *)
(* is always wanted.                                                       *)
(***************************************************************************)
EXTENDS Notifications, FiniteSetTheorems, TLAPS

(* Each setting has a channel for activations and one for clears.          *)
NeverMute ==
  \A s \in Settings, a \in Action :
    \E c \in s.channels :
      /\ (c = "email" /\ a = "cleared") => s.emailOnClear
      /\ (c \in {"snapshot", "multicam"}) =>
           IF a = "activated" THEN s.snapOnActivate ELSE s.snapOnClear

(* Each setting has the channel on, for activations and for clears.        *)
AlwaysWanted(c) ==
  \A s \in Settings :
    /\ c \in s.channels
    /\ c = "email" => s.emailOnClear
    /\ c \in {"snapshot", "multicam"} => s.snapOnActivate /\ s.snapOnClear

RecordsFinite == IsFiniteSet(DOMAIN records)

TableFull == Cardinality(DOMAIN records) = MaxRecords

(* What was sent has a record, as late as it or later, or else the table   *)
(* is full; and nothing is of the time to come.                            *)
SentIsRecorded ==
  \A k \in Key : sent[k] # Never =>
    /\ sent[k] <= now
    /\ \/ k \in DOMAIN records /\ sent[k] <= records[k] /\ records[k] <= now
       \/ k \notin DOMAIN records /\ TableFull

(* A record is the time when its key was last sent.                        *)
RecordedIsSent == \A k \in DOMAIN records : sent[k] = records[k]

-----------------------------------------------------------------------------
(* The table after a transition: as before, or with the key recorded now,  *)
(* if there was a record or room for one.                                  *)
LEMMA RecordedTable ==
  ASSUME TypeOK, RecordsFinite, NEW k \in Key
  PROVE  /\ Recorded(k) = records \/ Recorded(k) = Put(k)
         /\ DOMAIN Recorded(k) \subseteq Key
         /\ Recorded(k) \in [DOMAIN Recorded(k) -> Time]
         /\ IsFiniteSet(DOMAIN Recorded(k))
         /\ Cardinality(DOMAIN Recorded(k)) <= MaxRecords
<1> USE DEF TypeOK, RecordsFinite
<1>1. CASE Recorded(k) = records
  BY <1>1
<1>2. CASE Recorded(k) = Put(k) /\ Recorded(k) # records
  <2>1. DOMAIN Put(k) = DOMAIN records \cup {k} /\ Put(k) \in [DOMAIN Put(k) -> Time]
    BY DEF Put
  <2>2. IsFiniteSet(DOMAIN records \cup {k})
    BY FS_AddElement
  <2>3. Cardinality(DOMAIN records \cup {k}) <= MaxRecords
    <3>1. CASE k \in DOMAIN records
      <4>1. DOMAIN records \cup {k} = DOMAIN records
        BY <3>1
      <4> QED BY <4>1
    <3>2. CASE k \notin DOMAIN records
      <4>1. Cardinality(DOMAIN records) < MaxRecords
        BY <1>2, <3>2 DEF Recorded
      <4>2. Cardinality(DOMAIN records \cup {k}) = Cardinality(DOMAIN records) + 1
        BY <3>2, FS_AddElement
      <4>3. Cardinality(DOMAIN records) \in Nat
        BY FS_CardinalityType
      <4> QED BY <4>1, <4>2, <4>3, BoundAssumption
    <3> QED BY <3>1, <3>2
  <2> QED BY <1>2, <2>1, <2>2, <2>3
<1> QED BY <1>1, <1>2 DEF Recorded

(* What a transition does to the three tables.                             *)
LEMMA TransitionEffect ==
  ASSUME TypeOK, NEW e \in Event, NEW a \in Action, Transition(e, a)
  PROVE  /\ <<e, a>> \in Key
         /\ records' = Recorded(<<e, a>>)
         /\ \A k \in Key : k # <<e, a>> => sent'[k] = sent[k]
         /\ \/ sent' = sent /\ Due(<<e, a>>) = {}
            \/ Passed(<<e, a>>) /\ sent' = [sent EXCEPT ![<<e, a>>] = now]
         /\ UNCHANGED <<now, settings>>
<1> DEFINE k == <<e, a>>
<1>1. k \in Key
  BY DEF Key
<1>2. /\ records' = Recorded(k)
      /\ sent' = IF Due(k) = {} THEN sent
                 ELSE [sent EXCEPT ![k] = now]
      /\ UNCHANGED <<now, settings>>
  BY DEF Transition, on_alert_transition
<1>3. \/ sent' = sent /\ Due(k) = {}
      \/ Passed(k) /\ sent' = [sent EXCEPT ![k] = now]
  BY <1>2 DEF Due
<1>4. \A j \in Key : j # k => sent'[j] = sent[j]
  BY <1>3 DEF TypeOK
<1> HIDE DEF k
<1> QED BY <1>1, <1>2, <1>3, <1>4 DEF k

(* What the death of the daemon leaves.                                    *)
Death == Restart \/ \E e \in Event, a \in Action : DiesSending(e, a)

LEMMA DeathEffect ==
  ASSUME TypeOK, Death
  PROVE  /\ active' = [e \in Event |-> FALSE]
         /\ changed' = [k \in Key |-> Never] /\ sent' = [k \in Key |-> Never]
         /\ DOMAIN records' = {} /\ records' \in [{} -> Time]
         /\ UNCHANGED <<now, settings>>
         /\ calm' \in BOOLEAN /\ told' \in [Channel \X Event -> Action]
         /\ calm' => told' = told /\ calm /\ \A e \in Event : ~active[e]
<1>1. Forgotten
  BY DEF Death, Restart, DiesSending
<1>2. CASE Restart
  BY <1>1, <1>2 DEF Restart, Forgotten, TypeOK
<1>3. ASSUME NEW e \in Event, NEW a \in Action, DiesSending(e, a)
      PROVE  told' \in [Channel \X Event -> Action] /\ calm' = FALSE
  BY <1>3 DEF DiesSending, Told, TypeOK
<1> QED BY <1>1, <1>2, <1>3 DEF Death, Forgotten

(* Every variable keeps its type.                                          *)
LEMMA StepType == TypeOK /\ RecordsFinite /\ [Next]_vars => (TypeOK /\ RecordsFinite)'
<1> SUFFICES ASSUME TypeOK, RecordsFinite, [Next]_vars PROVE (TypeOK /\ RecordsFinite)'
  OBVIOUS
<1>1. ASSUME NEW e \in Event, NEW a \in Action, Transition(e, a)
      PROVE  (TypeOK /\ RecordsFinite)'
  <2>1. /\ <<e, a>> \in Key /\ records' = Recorded(<<e, a>>)
        /\ sent' = sent \/ sent' = [sent EXCEPT ![<<e, a>>] = now]
        /\ UNCHANGED <<now, settings>>
    BY <1>1, TransitionEffect
  <2>2. /\ DOMAIN records' \subseteq Key /\ records' \in [DOMAIN records' -> Time]
        /\ IsFiniteSet(DOMAIN records') /\ Cardinality(DOMAIN records') <= MaxRecords
    BY <2>1, RecordedTable
  <2>3. sent' \in [Key -> Time \cup {Never}]
    BY <2>1 DEF TypeOK
  <2>4. /\ active' \in [Event -> BOOLEAN] /\ changed' \in [Key -> Time \cup {Never}]
        /\ calm' \in BOOLEAN
    BY <1>1, <2>1 DEF Transition, TypeOK
  <2>5. told' \in [Channel \X Event -> Action]
    BY <1>1 DEF Transition, on_alert_transition, Told, TypeOK
  <2> QED BY <2>1, <2>2, <2>3, <2>4, <2>5 DEF TypeOK, RecordsFinite
<1>2. ASSUME NEW e \in Event, DisableRule(e)
      PROVE  (TypeOK /\ RecordsFinite)'
  BY <1>2 DEF DisableRule, TypeOK, RecordsFinite
<1>3. CASE ApplySave \/ Tick \/ UNCHANGED vars
  <2>1. settings' \in Settings /\ now' \in Time
    BY <1>3, BoundAssumption DEF ApplySave, Tick, vars, TypeOK, Time
  <2>2. UNCHANGED <<active, changed, calm, records, sent, told>>
    BY <1>3 DEF ApplySave, Tick, vars
  <2> QED BY <2>1, <2>2 DEF TypeOK, RecordsFinite
<1>4. CASE Death
  <2>1. IsFiniteSet({}) /\ Cardinality({}) <= MaxRecords
    BY FS_EmptySet, BoundAssumption
  <2>2. /\ active' \in [Event -> BOOLEAN] /\ changed' \in [Key -> Time \cup {Never}]
        /\ sent' \in [Key -> Time \cup {Never}]
    BY <1>4, DeathEffect
  <2> QED BY <1>4, <2>1, <2>2, DeathEffect DEF TypeOK, RecordsFinite
<1> QED BY <1>1, <1>2, <1>3, <1>4 DEF Next, Death

LEMMA InitType == Init => TypeOK /\ RecordsFinite
<1> SUFFICES ASSUME Init PROVE TypeOK /\ RecordsFinite
  OBVIOUS
<1>1. DOMAIN records = {} /\ records \in [DOMAIN records -> Time]
  BY DEF Init
<1>2. IsFiniteSet(DOMAIN records) /\ Cardinality(DOMAIN records) <= MaxRecords
  BY <1>1, FS_EmptySet, BoundAssumption
<1> QED BY <1>1, <1>2, BoundAssumption DEF Init, TypeOK, RecordsFinite, Time, Action

LEMMA TypeInv == Spec => [](TypeOK /\ RecordsFinite)
BY InitType, StepType, PTL DEF Spec

(* The type of every variable, for any rules, settings and bounds; with it *)
(* the table of records never outgrows NOTIF_HISTORY_MAX.                  *)
THEOREM TypeCorrect == Spec => []TypeOK
BY TypeInv, PTL

-----------------------------------------------------------------------------
(* A transition that passes is recorded, unless the table is full.         *)
LEMMA RecordedOrFull ==
  ASSUME TypeOK, RecordsFinite, NEW k \in Key, Passed(k)
  PROVE  \/ Recorded(k) = Put(k)
         \/ Recorded(k) = records /\ k \notin DOMAIN records /\ TableFull
<1>1. Cardinality(DOMAIN records) \in Nat /\ Cardinality(DOMAIN records) <= MaxRecords
  BY FS_CardinalityType DEF RecordsFinite, TypeOK
<1> QED BY <1>1, BoundAssumption DEF Recorded, TableFull

(* A full table stays full, of the same keys.                              *)
LEMMA FullStays ==
  ASSUME TypeOK, RecordsFinite, TableFull, NEW k \in Key
  PROVE  DOMAIN Recorded(k) = DOMAIN records
<1>1. ~(Cardinality(DOMAIN records) < MaxRecords)
  BY BoundAssumption DEF TableFull
<1>2. Recorded(k) = records \/ (k \in DOMAIN records /\ Recorded(k) = Put(k))
  BY <1>1 DEF Recorded
<1>3. k \in DOMAIN records => DOMAIN Put(k) = DOMAIN records
  BY DEF Put
<1> QED BY <1>2, <1>3

LEMMA HoldType == ASSUME TypeOK, NEW k \in Key PROVE Hold(k) \in Nat
<1>1. settings \in Setting /\ k[1] \in Event
  BY SettingsAssumption DEF TypeOK, Key
<1>2. EngineOf[k[1]] \in Engine /\ settings.hold \in [Engine -> Nat]
  BY <1>1, EngineOfAssumption DEF Setting
<1> QED BY <1>2 DEF Hold

LEMMA SentIsRecordedStep ==
  TypeOK /\ RecordsFinite /\ SentIsRecorded /\ [Next]_vars => SentIsRecorded'
<1> SUFFICES ASSUME TypeOK, RecordsFinite, SentIsRecorded, [Next]_vars
             PROVE  SentIsRecorded'
  OBVIOUS
<1>1. ASSUME NEW e \in Event, NEW a \in Action, Transition(e, a), NEW j \in Key,
             sent'[j] # Never
      PROVE  /\ sent'[j] <= now'
             /\ \/ j \in DOMAIN records' /\ sent'[j] <= records'[j] /\ records'[j] <= now'
                \/ j \notin DOMAIN records' /\ TableFull'
  <2> DEFINE k == <<e, a>>
  <2>1. /\ k \in Key /\ records' = Recorded(k) /\ now' = now
        /\ \A i \in Key : i # k => sent'[i] = sent[i]
        /\ sent' = sent \/ (Passed(k) /\ sent' = [sent EXCEPT ![k] = now])
    BY <1>1, TransitionEffect
  <2> HIDE DEF k
  <2>a. sent'[j] <= now /\ now \in Int /\ sent[j] \in Int
    <3>1. sent'[j] = now \/ (sent[j] # Never /\ sent'[j] = sent[j])
      BY <1>1, <2>1 DEF TypeOK
    <3>2. now \in Int /\ sent[j] \in Int
      BY DEF TypeOK, Time, Never
    <3> QED BY <3>1, <3>2 DEF SentIsRecorded
  <2>2. CASE j # k
    <3>1. CASE j \in DOMAIN records /\ sent'[j] <= records[j] /\ records[j] <= now
      <4>1. records' = records \/ records' = Put(k)
        BY <2>1, RecordedTable
      <4> QED BY <2>1, <2>2, <2>a, <3>1, <4>1 DEF Put
    <3>2. CASE j \notin DOMAIN records /\ TableFull
      <4>1. DOMAIN records' = DOMAIN records
        BY <2>1, <3>2, FullStays
      <4> QED BY <2>1, <2>a, <3>2, <4>1 DEF TableFull
    <3> QED BY <1>1, <2>1, <2>2, <3>1, <3>2 DEF SentIsRecorded
  <2>3. CASE j = k /\ Passed(k)
    <3>1. CASE records' = Put(k)
      <4>1. k \in DOMAIN records' /\ records'[k] = now
        BY <3>1 DEF Put
      <4> QED BY <2>1, <2>3, <2>a, <4>1
    <3>2. CASE records' = records /\ k \notin DOMAIN records /\ TableFull
      BY <2>1, <2>3, <2>a, <3>2 DEF TableFull
    <3> QED BY <2>1, <2>3, <3>1, <3>2, RecordedOrFull
  <2>4. CASE j = k /\ ~Passed(k)
    <3>1. sent' = sent /\ records' = records
      BY <2>1, <2>4 DEF Recorded, Passed
    <3>2. k \in DOMAIN records
      BY <2>4 DEF Passed
    <3> QED BY <1>1, <2>1, <2>4, <2>a, <3>1, <3>2 DEF SentIsRecorded
  <2> QED BY <2>2, <2>3, <2>4
<1>2. CASE Tick
  <2>1. now' = now + 1 /\ now \in Nat /\ UNCHANGED <<records, sent>>
    BY <1>2 DEF Tick, TypeOK, Time
  <2>2. /\ \A k \in DOMAIN records : records[k] \in Nat
        /\ \A k \in Key : sent[k] \in Int
    BY DEF TypeOK, Time, Never
  <2> QED BY <2>1, <2>2 DEF SentIsRecorded, TableFull
<1>3. CASE UNCHANGED <<now, records, sent>>
  BY <1>3 DEF SentIsRecorded, TableFull
<1>4. CASE Death
  BY <1>4, DeathEffect DEF SentIsRecorded
<1>5. \/ \E e \in Event, a \in Action : Transition(e, a)
      \/ Tick \/ Death
      \/ UNCHANGED <<now, records, sent>>
  BY DEF Next, DisableRule, ApplySave, Death, vars
<1> QED BY <1>1, <1>2, <1>3, <1>4, <1>5 DEF SentIsRecorded

(* For a table of any size, a daemon uses no channel twice for a           *)
(* transition within its cool-down, but for a key that found it full.      *)
THEOREM SpacedHolds == Spec => Spaced
<1>1. Init => SentIsRecorded
  BY DEF Init, SentIsRecorded
<1>2. TypeOK /\ SentIsRecorded =>
        \A e \in Event, a \in Action :
          LET k == <<e, a>>
          IN  (Transition(e, a) \/ DiesSending(e, a)) /\ Due(k) # {} =>
                \/ sent[k] = Never
                \/ Hold(k) = 0
                \/ now - sent[k] >= Hold(k)
                \/ k \notin DOMAIN records /\ Cardinality(DOMAIN records) = MaxRecords
  <2> SUFFICES ASSUME TypeOK, SentIsRecorded, NEW e \in Event, NEW a \in Action,
                      Due(<<e, a>>) # {}, sent[<<e, a>>] # Never, Hold(<<e, a>>) # 0,
                      <<e, a>> \in DOMAIN records \/ ~TableFull
               PROVE  now - sent[<<e, a>>] >= Hold(<<e, a>>)
    BY DEF TableFull
  <2>1. PICK k \in Key : k = <<e, a>>
    BY DEF Key
  <2>2. Passed(k)
    BY <2>1 DEF Due
  <2>3. k \in DOMAIN records /\ sent[k] <= records[k]
    BY <2>1 DEF SentIsRecorded
  <2>4. now - records[k] >= Hold(k)
    BY <2>1, <2>2, <2>3 DEF Passed
  <2>5. now \in Int /\ sent[k] \in Int /\ records[k] \in Int /\ Hold(k) \in Int
    BY <2>3, HoldType DEF TypeOK, Time, Never
  <2> QED BY <2>1, <2>3, <2>4, <2>5
<1> QED BY <1>1, <1>2, SentIsRecordedStep, TypeInv, PTL DEF Spec, Spaced

-----------------------------------------------------------------------------
LEMMA RecordedIsSentStep ==
  TypeOK /\ RecordsFinite /\ NeverMute /\ RecordedIsSent /\ [Next]_vars => RecordedIsSent'
<1> SUFFICES ASSUME TypeOK, RecordsFinite, NeverMute, RecordedIsSent, [Next]_vars
             PROVE  RecordedIsSent'
  OBVIOUS
<1>1. ASSUME NEW e \in Event, NEW a \in Action, Transition(e, a),
             NEW j \in DOMAIN records'
      PROVE  sent'[j] = records'[j]
  <2> DEFINE k == <<e, a>>
  <2>1. /\ k \in Key /\ records' = Recorded(k)
        /\ \A i \in Key : i # k => sent'[i] = sent[i]
        /\ \/ sent' = sent /\ Due(k) = {}
           \/ Passed(k) /\ sent' = [sent EXCEPT ![k] = now]
        /\ Passed(k) => Due(k) = Wants(a)
    BY <1>1, TransitionEffect DEF Due
  <2>2. Wants(a) # {}
    <3>1. settings \in Settings
      BY DEF TypeOK
    <3>2. PICK c \in settings.channels :
            /\ (c = "email" /\ a = "cleared") => settings.emailOnClear
            /\ (c \in {"snapshot", "multicam"}) =>
                 IF a = "activated" THEN settings.snapOnActivate ELSE settings.snapOnClear
      BY <3>1 DEF NeverMute
    <3> QED BY <3>2 DEF Wants
  <2> HIDE DEF k
  <2>3. /\ records' = records \/ records' = Put(k)
        /\ DOMAIN records' \subseteq Key
    BY <2>1, RecordedTable
  <2>4. CASE j # k
    BY <1>1, <2>1, <2>3, <2>4 DEF Put, RecordedIsSent
  <2>5. CASE j = k /\ Passed(k)
    <3>1. sent'[k] = now
      BY <2>1, <2>2, <2>5 DEF TypeOK
    <3>2. records' = Put(k)
      BY <1>1, <2>1, <2>5 DEF Recorded
    <3> QED BY <2>5, <3>1, <3>2 DEF Put
  <2>6. CASE j = k /\ ~Passed(k)
    <3>1. sent' = sent /\ records' = records
      BY <2>1, <2>6 DEF Recorded, Passed
    <3> QED BY <1>1, <3>1 DEF RecordedIsSent
  <2> QED BY <2>4, <2>5, <2>6
<1>2. CASE UNCHANGED <<records, sent>>
  BY <1>2 DEF RecordedIsSent
<1>3. CASE Death
  BY <1>3, DeathEffect DEF RecordedIsSent
<1> QED BY <1>1, <1>2, <1>3 DEF Next, DisableRule, ApplySave, Tick, Death, vars, RecordedIsSent

(* While every transition has a channel that wants it, one is suppressed   *)
(* only when a channel was used for the same key within the cool-down.     *)
THEOREM SilenceIsRecentHolds == ASSUME NeverMute PROVE Spec => SilenceIsRecent
<1>1. Init => RecordedIsSent
  BY DEF Init, RecordedIsSent
<1>2. TypeOK /\ RecordedIsSent =>
        \A e \in Event, a \in Action : Transition(e, a) /\ ~Passed(<<e, a>>) =>
          sent[<<e, a>>] # Never /\ now - sent[<<e, a>>] < Hold(<<e, a>>)
  <2> SUFFICES ASSUME TypeOK, RecordedIsSent, NEW e \in Event, NEW a \in Action,
                      ~Passed(<<e, a>>)
               PROVE  sent[<<e, a>>] # Never /\ now - sent[<<e, a>>] < Hold(<<e, a>>)
    OBVIOUS
  <2> DEFINE k == <<e, a>>
  <2>1. k \in DOMAIN records /\ Hold(k) # 0 /\ ~(now - records[k] >= Hold(k))
    BY DEF Passed
  <2>2. sent[k] = records[k] /\ records[k] \in Time
    BY <2>1 DEF RecordedIsSent, TypeOK
  <2>3. Hold(k) \in Nat
    <3>1. settings \in Setting /\ EngineOf[e] \in Engine
      BY SettingsAssumption, EngineOfAssumption DEF TypeOK
    <3>2. settings.hold \in [Engine -> Nat]
      BY <3>1 DEF Setting
    <3> QED BY <3>1, <3>2 DEF Hold
  <2> HIDE DEF k
  <2>4. sent[k] # Never /\ now - sent[k] < Hold(k)
    BY <2>1, <2>2, <2>3 DEF Time, Never, TypeOK
  <2> QED BY <2>4 DEF k
<1> QED BY <1>1, <1>2, RecordedIsSentStep, TypeInv, PTL DEF Spec, SilenceIsRecent

-----------------------------------------------------------------------------
(* No record is later than the last report of its key.                     *)
RecordsFollowReports ==
  \A k \in DOMAIN records :
    changed[k] # Never /\ records[k] <= changed[k] /\ changed[k] <= now

(* While calm, the channel was given the present state of every rule.      *)
Agrees(c) == calm => \A e \in Event : told[<<c, e>>] = "activated" <=> active[e]

LEMMA RecordsFollowReportsStep ==
  TypeOK /\ RecordsFinite /\ RecordsFollowReports /\ [Next]_vars => RecordsFollowReports'
<1> SUFFICES ASSUME TypeOK, RecordsFinite, RecordsFollowReports, [Next]_vars
             PROVE  RecordsFollowReports'
  OBVIOUS
<1>1. ASSUME NEW e \in Event, NEW a \in Action, Transition(e, a),
             NEW j \in DOMAIN records'
      PROVE  changed'[j] # Never /\ records'[j] <= changed'[j] /\ changed'[j] <= now'
  <2> DEFINE k == <<e, a>>
  <2>1. k \in Key /\ records' = Recorded(k) /\ now' = now
    BY <1>1, TransitionEffect
  <2>2. changed' = [changed EXCEPT ![k] = now]
    BY <1>1 DEF Transition
  <2> HIDE DEF k
  <2>3. /\ records' = records \/ records' = Put(k)
        /\ DOMAIN records' \subseteq Key
    BY <2>1, RecordedTable
  <2>4. now \in Nat /\ \A i \in DOMAIN records : records[i] \in Nat
    BY DEF TypeOK, Time
  <2>5. CASE j # k
    <3>1. j \in DOMAIN records /\ records'[j] = records[j]
      BY <2>3, <2>5 DEF Put
    <3>2. changed'[j] = changed[j]
      BY <2>2, <2>3, <2>5 DEF TypeOK
    <3> QED BY <2>1, <3>1, <3>2 DEF RecordsFollowReports
  <2>6. CASE j = k
    <3>1. changed'[j] = now /\ now # Never
      BY <2>1, <2>2, <2>4, <2>6 DEF TypeOK, Never
    <3>2. records'[j] <= now
      <4>1. CASE records' = Put(k)
        BY <2>4, <2>6, <4>1 DEF Put
      <4>2. CASE records' = records
        <5>1. changed[j] \in Int /\ records[j] \in Int
          BY <2>4, <4>2, <2>3 DEF TypeOK, Time, Never
        <5> QED BY <2>4, <4>2, <5>1 DEF RecordsFollowReports
      <4> QED BY <2>3, <4>1, <4>2
    <3> QED BY <2>1, <2>4, <3>1, <3>2
  <2> QED BY <2>5, <2>6
<1>2. CASE Tick
  <2>1. /\ now' = now + 1 /\ UNCHANGED <<changed, records>>
        /\ now \in Nat /\ \A i \in DOMAIN records : changed[i] \in Int
    BY <1>2 DEF Tick, TypeOK, Time, Never
  <2> QED BY <2>1 DEF RecordsFollowReports
<1>3. CASE UNCHANGED <<now, changed, records>>
  BY <1>3 DEF RecordsFollowReports
<1>4. CASE Death
  BY <1>4, DeathEffect DEF RecordsFollowReports
<1>5. \/ \E e \in Event, a \in Action : Transition(e, a)
      \/ Tick \/ Death
      \/ UNCHANGED <<now, changed, records>>
  BY DEF Next, DisableRule, ApplySave, Death, vars
<1> QED BY <1>1, <1>2, <1>3, <1>4, <1>5 DEF RecordsFollowReports

(* A transition that leaves the rules calm is not suppressed.              *)
LEMMA CalmPasses ==
  ASSUME TypeOK, RecordsFollowReports, NEW k \in Key,
         changed[k] = Never \/ now - changed[k] >= Hold(k)
  PROVE  Passed(k)
<1> SUFFICES ASSUME k \in DOMAIN records PROVE now - records[k] >= Hold(k)
  BY DEF Passed
<1>1. changed[k] # Never /\ records[k] <= changed[k]
  BY DEF RecordsFollowReports
<1>2. now \in Nat /\ records[k] \in Nat /\ changed[k] \in Nat
  BY <1>1 DEF TypeOK, Time
<1>3. Hold(k) \in Nat /\ now - changed[k] >= Hold(k)
  BY <1>1, HoldType
<1> QED BY <1>1, <1>2, <1>3

LEMMA AgreesStep ==
  ASSUME NEW c \in Channel, AlwaysWanted(c)
  PROVE  TypeOK /\ RecordsFollowReports /\ Agrees(c) /\ [Next]_vars => Agrees(c)'
<1> SUFFICES ASSUME TypeOK, RecordsFollowReports, Agrees(c), [Next]_vars, calm',
                    NEW f \in Event
             PROVE  told'[<<c, f>>] = "activated" <=> active'[f]
  BY DEF Agrees
<1>1. ASSUME NEW e \in Event, NEW a \in Action, Transition(e, a)
      PROVE  told'[<<c, f>>] = "activated" <=> active'[f]
  <2>1. calm /\ (changed[<<e, a>>] = Never \/ now - changed[<<e, a>>] >= Hold(<<e, a>>))
    BY <1>1 DEF Transition
  <2>2. Passed(<<e, a>>)
    BY <2>1, CalmPasses DEF Key
  <2>3. c \in Due(<<e, a>>)
    BY <2>2 DEF AlwaysWanted, Due, Wants, TypeOK, Action
  <2>4. told'[<<c, f>>] = IF f = e THEN a ELSE told[<<c, f>>]
    BY <1>1, <2>3 DEF Transition, on_alert_transition, Told
  <2>5. active[e] = (a = "cleared") /\ active' = [active EXCEPT ![e] = ~@]
    BY <1>1 DEF Transition
  <2>6. CASE f = e
    <3>1. active'[f] = (a # "cleared")
      BY <2>5, <2>6 DEF TypeOK
    <3> QED BY <2>4, <2>6, <3>1 DEF Action
  <2>7. CASE f # e
    BY <2>1, <2>4, <2>5, <2>7 DEF TypeOK, Agrees
  <2> QED BY <2>6, <2>7
<1>2. CASE UNCHANGED <<active, calm, told>>
  BY <1>2 DEF Agrees
<1>3. CASE Death
  BY <1>3, DeathEffect DEF Agrees, TypeOK
<1>4. \/ \E e \in Event, a \in Action : Transition(e, a)
      \/ Death
      \/ UNCHANGED <<active, calm, told>>
  BY DEF Next, DisableRule, ApplySave, Tick, Death, vars
<1> QED BY <1>1, <1>2, <1>3, <1>4

(* A channel that every setting wants was given the present state of every *)
(* rule as long as they are calm, whatever the other channels are set to.  *)
THEOREM ChannelAgrees ==
  ASSUME NEW c \in Channel, AlwaysWanted(c) PROVE Spec => []Agrees(c)
<1>1. Init => RecordsFollowReports
  BY DEF Init, RecordsFollowReports
<1>2. Init => Agrees(c)
  BY DEF Init, Agrees
<1> QED BY <1>1, <1>2, RecordsFollowReportsStep, AgreesStep, TypeInv, PTL DEF Spec

(* With every channel always wanted, and a table of any size, the          *)
(* receivers agree with the rules while these are calm.                    *)
THEOREM ReceiversAgreeHolds ==
  ASSUME \A c \in Channel : AlwaysWanted(c) PROVE Spec => []ReceiversAgree
<1> DEFINE AllAgree == \A c \in Channel : Agrees(c)
<1>1. Init => RecordsFollowReports /\ AllAgree
  BY DEF Init, RecordsFollowReports, Agrees
<1>2. TypeOK /\ RecordsFollowReports /\ AllAgree /\ [Next]_vars => AllAgree'
  BY AgreesStep
<1>3. AllAgree => ReceiversAgree
  BY DEF Agrees, ReceiversAgree
<1> HIDE DEF AllAgree
<1> QED BY <1>1, <1>2, <1>3, RecordsFollowReportsStep, TypeInv, PTL DEF Spec

=============================================================================
