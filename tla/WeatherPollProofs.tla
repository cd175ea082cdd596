-------------------------- MODULE WeatherPollProofs --------------------------
(***************************************************************************)
(* The poll and its files for any readings, configurations, lengths of the *)
(* log and number of crashes: the types, what the status file says, that   *)
(* status, event and log agree, what the log holds, and what the dashboard *)
(* makes of it; that every poll ends, and what one that is served leaves.  *)
(***************************************************************************)
EXTENDS WeatherPoll, SequenceTheorems, FiniteSetTheorems, TLAPS

Kept == Reading \cup {Garbled}

(* Only the last line of the log may be cut, and none is at a prune.  The  *)
(* log has room at every point but where it is pruned, and what is written *)
(* back fits.                                                              *)
LogOK ==
  /\ \A i \in 1..Len(log) : log[i] = Cut => i = Len(log)
  /\ pc = "prune" => ~CutLine
  /\ pc = "rewrite" => /\ CutLine => rest # << >>
                       /\ Len(WholeLines) + Len(rest) <= LogMax
  /\ pc \notin {"prune", "rewrite"} => Len(log) <= LogMax + crashes

(* Every part of the snapshot was answered in this poll, and nothing else  *)
(* that would have been preferred.                                         *)
SnapshotAnswered ==
  /\ snap.by \in {"nws", "openmeteo"} => snap.by \in answered
  /\ snap.by \in {"none", "openmeteo"} => "nws" \notin answered
  /\ snap.by = "none" => answered \subseteq {"alerts"}
  /\ snap.alert => "alerts" \in answered \/ snap.by = "mock"
  /\ snap.sun => "openmeteo" \in answered
  /\ pc \in {"locate", "nws", "openmeteo"} =>
       snap.by = "none" /\ answered = {} /\ ~snap.alert /\ ~snap.sun
  /\ pc = "sun" => snap.by \in {"nws", "openmeteo"}

Record == [file |-> "whole", snap |-> snap, error |-> ~Ok(snap)]

StatusWritten ==
  pc \in {"append", "prune", "rewrite", "publish", "lightning", "heartbeat", "idle"} =>
    status = Record

(* The last line tells of the reading, or was spoilt by a cut one.         *)
Tells(lines) ==
  /\ lines # << >>
  /\ Last(lines) \in {snap.temp, Garbled}
  /\ crashes = 0 => Last(lines) # Garbled

Afterwards == {"lightning", "refill", "heartbeat", "idle"}

ReadingTold ==
  /\ crashes = 0 /\ pc # "rewrite" => ~CutLine
  /\ pc \in {"append", "prune", "rewrite", "publish"} => Valid(snap)
  /\ pc \in {"prune", "publish"} => Tells(log)
  /\ pc = "rewrite" => Tells(IF rest = << >> THEN log ELSE rest)
  /\ pc \in Afterwards /\ Valid(snap) => Tells(log)

(* Only a poll with conditions that is past its event has sent one.        *)
EventTold ==
  pc \notin {"off", "started"} =>
    event \subseteq (IF pc \in Afterwards /\ Valid(snap) THEN {snap.temp} ELSE {})

-----------------------------------------------------------------------------
(***************************************************************************)
(* Sequences.                                                              *)
(***************************************************************************)
LEMMA FrontProperties ==
  ASSUME NEW S, NEW s \in Seq(S), s # << >>
  PROVE  /\ Front(s) \in Seq(S) /\ Len(Front(s)) = Len(s) - 1
         /\ \A i \in 1..(Len(s) - 1) : Front(s)[i] = s[i]
         /\ Last(s) = s[Len(s)] /\ Last(s) \in S /\ Len(s) \in Nat \ {0}
<1>1. Len(s) \in Nat \ {0}
  BY EmptySeq
<1>2. \A i \in 1..Len(s) : s[i] \in S
  BY ElementOfSeq
<1>3. /\ SubSeq(s, 1, Len(s) - 1) \in Seq(S)
      /\ Len(SubSeq(s, 1, Len(s) - 1)) = IF 1 <= Len(s) - 1 THEN (Len(s) - 1) - 1 + 1 ELSE 0
      /\ \A i \in 1..((Len(s) - 1) - 1 + 1) : SubSeq(s, 1, Len(s) - 1)[i] = s[1 + i - 1]
  <2>1. \A i \in 1..(Len(s) - 1) : s[i] \in S
    BY <1>1, <1>2
  <2>2. 1 \in Int /\ Len(s) - 1 \in Int
    BY <1>1
  <2> QED BY <2>1, <2>2, SubSeqProperties
<1>4. Front(s) = SubSeq(s, 1, Len(s) - 1) /\ Last(s) = s[Len(s)]
  BY DEF Front, Last
<1>5. Front(s) \in Seq(S) /\ Len(Front(s)) = Len(s) - 1
  <2>1. (IF 1 <= Len(s) - 1 THEN (Len(s) - 1) - 1 + 1 ELSE 0) = Len(s) - 1
    <3> DEFINE n == Len(s)
    <3>1. n \in Nat /\ n >= 1
      BY <1>1
    <3> HIDE DEF n
    <3>2. (IF 1 <= n - 1 THEN (n - 1) - 1 + 1 ELSE 0) = n - 1
      BY <3>1
    <3> QED BY <3>2 DEF n
  <2>2. Len(Front(s)) = Len(s) - 1
    BY <1>3, <1>4, <2>1, Zenon
  <2>3. Front(s) \in Seq(S)
    BY <1>3, <1>4, Zenon
  <2> QED BY <2>2, <2>3
<1>6. ASSUME NEW i \in 1..(Len(s) - 1) PROVE Front(s)[i] = s[i]
  <2>1. i \in 1..((Len(s) - 1) - 1 + 1) /\ 1 + i - 1 = i
    BY <1>1
  <2> QED BY <1>3, <1>4, <2>1
<1>7. Last(s) \in S
  BY <1>1, <1>2, <1>4
<1> QED BY <1>1, <1>4, <1>5, <1>6, <1>7

LEMMA AppendLast ==
  ASSUME NEW S, NEW s \in Seq(S), NEW e \in S
  PROVE  /\ Append(s, e) \in Seq(S) /\ Append(s, e) # << >>
         /\ Len(Append(s, e)) = Len(s) + 1 /\ Last(Append(s, e)) = e
         /\ Front(Append(s, e)) = s
         /\ \A i \in 1..Len(s) : Append(s, e)[i] = s[i]
<1>1. /\ Append(s, e) \in Seq(S) /\ Append(s, e) # << >>
      /\ Len(Append(s, e)) = Len(s) + 1
      /\ \A i \in 1..Len(s) : Append(s, e)[i] = s[i]
      /\ Append(s, e)[Len(s) + 1] = e
  BY AppendProperties
<1>2. Front(Append(s, e)) = s
  <2> DEFINE t == Append(s, e)
  <2>1. /\ t \in Seq(S) /\ t # << >> /\ Len(t) = Len(s) + 1
        /\ \A i \in 1..Len(s) : t[i] = s[i]
    BY <1>1
  <2>2. Len(s) \in Nat
    BY LenProperties
  <2> HIDE DEF t
  <2>3. /\ Front(t) \in Seq(S) /\ Len(Front(t)) = Len(t) - 1
        /\ \A i \in 1..(Len(t) - 1) : Front(t)[i] = t[i]
    BY <2>1, FrontProperties
  <2>4. Len(Front(t)) = Len(s) /\ \A i \in 1..Len(s) : Front(t)[i] = s[i]
    BY <2>1, <2>2, <2>3
  <2>5. Front(t) = s
    BY <2>3, <2>4, SeqEqual
  <2> QED BY <2>5 DEF t
<1> QED BY <1>1, <1>2 DEF Last

LEMMA LastOfProperties ==
  ASSUME NEW S, NEW s \in Seq(S), NEW n \in Nat \ {0}
  PROVE  /\ LastOf(n, s) \in Seq(S) /\ Len(LastOf(n, s)) <= n
         /\ s # << >> => LastOf(n, s) # << >> /\ Last(LastOf(n, s)) = Last(s)
<1>1. Len(s) \in Nat /\ (s # << >> => Len(s) # 0) /\ \A i \in 1..Len(s) : s[i] \in S
  BY LenProperties, EmptySeq, ElementOfSeq
<1>2. CASE Len(s) <= n
  BY <1>1, <1>2 DEF LastOf
<1>3. CASE Len(s) > n
  <2> DEFINE m == Len(s) - n + 1
             t == SubSeq(s, m, Len(s))
  <2>1. m \in Int /\ Len(s) \in Int /\ m <= Len(s) /\ \A i \in m..Len(s) : s[i] \in S
    BY <1>1, <1>3
  <2>2. /\ t \in Seq(S)
        /\ Len(t) = Len(s) - m + 1
        /\ \A i \in 1..(Len(s) - m + 1) : t[i] = s[m + i - 1]
    <3> HIDE DEF m
    <3> QED BY <2>1, SubSeqProperties
  <2>3. Len(t) = n /\ t[n] = s[Len(s)]
    <3>1. Len(s) - m + 1 = n /\ m + n - 1 = Len(s) /\ n \in 1..n
      BY <1>1
    <3> HIDE DEF m, t
    <3> QED BY <2>2, <3>1
  <2>4. LastOf(n, s) = t
    BY <1>1, <1>3 DEF LastOf
  <2>5. t # << >>
    BY <2>3, EmptySeq
  <2> HIDE DEF m, t
  <2> QED BY <2>2, <2>3, <2>4, <2>5 DEF Last
<1> QED BY <1>1, <1>2, <1>3

-----------------------------------------------------------------------------
LEMMA Numbers ==
  /\ LogMax \in Nat /\ LogMax >= 1 /\ MaxCrash \in Nat
  /\ PollOK => crashes \in Nat
<1>1. LogMax \in Nat /\ LogMax >= 1 /\ MaxCrash \in Nat
  BY LogAssumption
<1>2. PollOK => crashes \in 0..MaxCrash
  BY DEF PollOK
<1> QED BY <1>1, <1>2

Fetching == {"started", "idle", "locate", "nws", "openmeteo", "sun", "alerts"}

Fetch == BeginPoll \/ MockPoll \/ weather_api_fetch

(* The fetch fills in the snapshot and does nothing else.                  *)
LEMMA FetchEffect ==
  ASSUME PollOK, Fetch
  PROVE  /\ pc \in Fetching
         /\ pc' \in {"locate", "nws", "openmeteo", "sun", "alerts", "status"}
         /\ snap' \in Snapshot /\ answered' \subseteq {"nws", "openmeteo", "alerts"}
         /\ event' = IF pc \in {"started", "idle"} THEN {} ELSE event
         /\ UNCHANGED <<om, config, rest, status, log, page, reader, recent, crashes>>
<1> USE DEF Idle, Goto, Fetching
<1>1. CASE BeginPoll \/ MockPoll
  <2>1. Empty \in Snapshot /\ \A t \in Temp :
          [Empty EXCEPT !.by = "mock", !.temp = t, !.alert = TRUE] \in Snapshot
    BY DEF Snapshot, Empty, Reading
  <2>2. snap' \in Snapshot
    BY <1>1, <2>1 DEF BeginPoll, MockPoll
  <2> QED BY <1>1, <2>2 DEF BeginPoll, MockPoll, NewPoll
<1>2. CASE ResolveCoords \/ CoordsFail
  BY <1>2 DEF ResolveCoords, CoordsFail, FetchStep, Snapshot, PollOK
<1>3. CASE NwsAnswers \/ NwsFails
  BY <1>3 DEF NwsAnswers, NwsFails, FetchStep, Snapshot, PollOK
<1>4. CASE OpenMeteoAnswers \/ OpenMeteoFails
  BY <1>4 DEF OpenMeteoAnswers, OpenMeteoFails, AfterConditions, FetchStep,
              Snapshot, PollOK
<1>5. CASE SunTimes \/ NwsAlerts
  BY <1>5 DEF SunTimes, NwsAlerts, AfterConditions, FetchStep, Snapshot, PollOK
<1> QED BY <1>1, <1>2, <1>3, <1>4, <1>5 DEF Fetch, weather_api_fetch

(* What the log is made of.                                                *)
LEMMA LogParts ==
  ASSUME PollOK, LogOK
  PROVE  /\ log \in Seq(Line) /\ Len(log) \in Nat /\ rest \in Seq(Line) /\ Len(rest) \in Nat
         /\ WholeLines \in Seq(Line)
         /\ CutLine => log # << >> /\ Len(WholeLines) = Len(log) - 1
         /\ ~CutLine => WholeLines = log
         /\ \A i \in 1..Len(WholeLines) : WholeLines[i] # Cut
<1>1. log \in Seq(Line) /\ Len(log) \in Nat /\ Len(rest) \in Nat
  BY LenProperties DEF PollOK
<1>2. rest \in Seq(Line)
  BY SeqMonotonic DEF PollOK, Line
<1>3. CASE CutLine
  <2>1. /\ log # << >> /\ WholeLines = Front(log)
        /\ Front(log) \in Seq(Line) /\ Len(Front(log)) = Len(log) - 1
        /\ \A i \in 1..(Len(log) - 1) : Front(log)[i] = log[i]
    BY <1>1, <1>3, FrontProperties DEF CutLine, WholeLines
  <2>2. \A i \in 1..(Len(log) - 1) : log[i] # Cut
    BY <1>1 DEF LogOK
  <2> QED BY <1>1, <1>2, <1>3, <2>1, <2>2
<1>4. CASE ~CutLine
  <2>1. WholeLines = log
    BY <1>4 DEF WholeLines
  <2>2. ASSUME NEW i \in 1..Len(log), log[i] = Cut PROVE FALSE
    <3>1. i = Len(log)
      BY <2>2 DEF LogOK
    <3>2. log # << >>
      BY <1>1, <2>2, EmptySeq
    <3> QED BY <1>1, <1>4, <2>2, <3>1, <3>2, FrontProperties DEF CutLine
  <2> QED BY <1>1, <1>2, <1>4, <2>1, <2>2
<1> QED BY <1>3, <1>4

(* One more line behind finished ones.                                     *)
LEMMA OneMoreLine ==
  ASSUME NEW s \in Seq(Line), NEW l \in Line, \A i \in 1..Len(s) : s[i] # Cut
  PROVE  /\ \A i \in 1..Len(Append(s, l)) : Append(s, l)[i] = Cut => i = Len(Append(s, l))
         /\ (Append(s, l) # << >> /\ Last(Append(s, l)) = Cut) <=> l = Cut
<1> DEFINE t == Append(s, l)
<1>1. /\ Len(t) = Len(s) + 1 /\ Last(t) = l /\ t # << >>
      /\ \A i \in 1..Len(s) : t[i] = s[i]
  BY AppendLast
<1>2. Len(s) \in Nat
  BY LenProperties
<1> HIDE DEF t
<1>3. \A i \in 1..Len(t) : t[i] = Cut => i = Len(t)
  BY <1>1, <1>2
<1> QED BY <1>1, <1>3 DEF t

LEMMA AppendReadingType ==
  ASSUME PollOK, LogOK, AppendReading
  PROVE  (PollOK /\ LogOK)'
<1>1. /\ pc = "append" /\ pc' = "prune"
      /\ recent' = LastOf(LogMax + 1, Append(recent, snap.temp))
      /\ UNCHANGED <<om, config, snap, rest, status, page, answered, event, crashes>>
      /\ log' = IF CutLine THEN Append(Front(log), Garbled) ELSE Append(log, snap.temp)
  BY DEF AppendReading, Goto, CutLine
<1> DEFINE l == IF CutLine THEN Garbled ELSE snap.temp
<1>2. snap.temp \in Reading
  BY DEF PollOK, Snapshot
<1>3. l \in Line /\ l # Cut
  BY <1>2, LineAssumption DEF Line
<1>4. log' = Append(WholeLines, l)
  BY <1>1 DEF WholeLines
<1> HIDE DEF l
<1>5. /\ WholeLines \in Seq(Line) /\ \A i \in 1..Len(WholeLines) : WholeLines[i] # Cut
      /\ Len(WholeLines) <= Len(log) /\ Len(log) \in Nat /\ Len(WholeLines) \in Nat
  BY LogParts, LenProperties
<1>6. /\ log' \in Seq(Line) /\ Len(log') = Len(WholeLines) + 1
      /\ \A i \in 1..Len(log') : log'[i] = Cut => i = Len(log')
      /\ ~(log' # << >> /\ Last(log') = Cut)
  BY <1>3, <1>4, <1>5, AppendLast, OneMoreLine
<1>7. Len(log) <= LogMax + crashes
  BY <1>1 DEF LogOK
<1>8. Len(log') <= LogMax + 1 + crashes'
  <2>1. crashes' = crashes
    BY <1>1
  <2> QED BY <1>5, <1>6, <1>7, <2>1, Numbers
<1>9. recent' \in Seq(Reading) /\ Len(recent') <= LogMax + 1
  <2>1. Append(recent, snap.temp) \in Seq(Reading)
    BY <1>2, AppendProperties DEF PollOK
  <2>2. LogMax + 1 \in Nat \ {0}
    BY LogAssumption
  <2> QED BY <1>1, <2>1, <2>2, LastOfProperties
<1>10. PollOK'
  BY <1>1, <1>6, <1>8, <1>9 DEF PollOK
<1> QED BY <1>1, <1>6, <1>10 DEF LogOK, CutLine

LEMMA PruneType ==
  ASSUME PollOK, LogOK, Prune
  PROVE  (PollOK /\ LogOK)'
<1>1. pc = "prune" /\ UNCHANGED <<om, config, snap, status, page, history>>
  BY DEF Prune
<1>2. /\ log \in Seq(Line) /\ Len(log) \in Nat /\ WholeLines = log
      /\ \A i \in 1..Len(log) : log[i] # Cut
  BY <1>1, LogParts DEF LogOK
<1>3. CASE Len(log) <= LogMax
  <2>1. pc' = "publish" /\ UNCHANGED <<rest, log>>
    BY <1>3 DEF Prune, Goto
  <2>2. Len(log') <= LogMax + crashes'
    <3>1. crashes' = crashes
      BY <1>1 DEF history
    <3> QED BY <1>2, <1>3, <2>1, <3>1, Numbers
  <2> QED BY <1>1, <1>2, <2>1, <2>2 DEF PollOK, LogOK, history, CutLine
<1>4. CASE ~(Len(log) <= LogMax)
  <2>1. pc' = "rewrite" /\ rest' = LastOf(LogMax, log) /\ log' = << >>
    BY <1>4 DEF Prune, Goto
  <2>2. log \in Seq(Kept)
    <3>1. \A i \in 1..Len(log) : log[i] \in Kept
      BY <1>2, ElementOfSeq DEF Line, Kept
    <3>2. log \in [1..Len(log) -> Kept]
      BY <1>2, <3>1, LenProperties
    <3> QED BY <1>2, <3>2, SeqDef
  <2>3. rest' \in Seq(Kept) /\ Len(rest') <= LogMax
    BY <2>1, <2>2, LogAssumption, LastOfProperties
  <2>4. log' \in Seq(Line) /\ Len(log') = 0
    BY <2>1, EmptySeq
  <2>5. Len(log') <= LogMax + 1 + crashes'
    <3>1. crashes' = crashes
      BY <1>1 DEF history
    <3> QED BY <2>4, <3>1, Numbers
  <2>6. PollOK'
    BY <1>1, <2>1, <2>3, <2>4, <2>5 DEF PollOK, Kept, history
  <2>7. WholeLines' = << >> /\ ~CutLine'
    BY <2>1 DEF WholeLines, CutLine
  <2>8. Len(WholeLines') + Len(rest') <= LogMax
    BY <2>3, <2>4, <2>7, <2>1, LenProperties
  <2> QED BY <2>1, <2>4, <2>6, <2>7, <2>8 DEF LogOK
<1> QED BY <1>3, <1>4

LEMMA RewriteEffect ==
  ASSUME PollOK, LogOK, RewriteLine
  PROVE  /\ UNCHANGED <<om, config, pc, snap, status, page, history>>
         /\ pc = "rewrite" /\ rest # << >>
         /\ Head(rest) \in Line /\ Head(rest) # Cut
         /\ rest' \in Seq(Kept) /\ Len(rest') <= Len(rest)
         /\ \/ /\ CutLine /\ rest' = Tail(rest) /\ Len(rest') = Len(rest) - 1
               /\ log' = Append(WholeLines, Head(rest))
            \/ ~CutLine /\ rest' = rest /\ log' = Append(WholeLines, Cut)
<1>1. rest \in Seq(Kept) /\ rest # << >>
  BY DEF RewriteLine, PollOK, Kept
<1>2. /\ Head(rest) \in Kept /\ Tail(rest) \in Seq(Kept) /\ Len(rest) \in Nat
      /\ Len(Tail(rest)) = Len(rest) - 1
  BY <1>1, HeadTailProperties, LenProperties
<1>3. Head(rest) \in Line /\ Head(rest) # Cut
  BY <1>2, LineAssumption DEF Kept, Line
<1>4. /\ UNCHANGED <<om, config, pc, snap, status, page, history>> /\ pc = "rewrite"
      /\ IF CutLine
           THEN log' = Append(WholeLines, Head(rest)) /\ rest' = Tail(rest)
           ELSE log' = Append(WholeLines, Cut) /\ UNCHANGED rest
  BY DEF RewriteLine, WholeLines
<1>5. \/ /\ CutLine /\ rest' = Tail(rest) /\ log' = Append(WholeLines, Head(rest))
      \/ ~CutLine /\ rest' = rest /\ log' = Append(WholeLines, Cut)
  BY <1>4
<1>6. /\ rest' \in Seq(Kept) /\ Len(rest') <= Len(rest)
      /\ CutLine => Len(rest') = Len(rest) - 1
  <2>1. CASE rest' = Tail(rest)
    BY <1>2, <2>1
  <2>2. CASE rest' = rest /\ ~CutLine
    <3>1. Len(rest') = Len(rest) /\ rest' \in Seq(Kept)
      BY <1>1, <2>2
    <3>2. Len(rest) \in Nat
      BY <1>2
    <3> QED BY <2>2, <3>1, <3>2
  <2> QED BY <1>5, <2>1, <2>2
<1> QED BY <1>1, <1>3, <1>4, <1>5, <1>6

LEMMA RewriteLineType ==
  ASSUME PollOK, LogOK, RewriteLine
  PROVE  (PollOK /\ LogOK)'
<1>1. /\ UNCHANGED <<om, config, pc, snap, status, page, history>> /\ pc = "rewrite"
      /\ rest' \in Seq(Kept) /\ Len(rest') <= Len(rest) /\ rest # << >>
      /\ crashes' = crashes
  BY RewriteEffect DEF history
<1> DEFINE l == IF CutLine THEN Head(rest) ELSE Cut
<1>2. /\ log' = Append(WholeLines, l) /\ l \in Line
      /\ l = Cut => ~CutLine /\ rest' = rest
      /\ l # Cut => CutLine /\ Len(rest') = Len(rest) - 1
  BY RewriteEffect DEF Line
<1> HIDE DEF l
<1>3. /\ WholeLines \in Seq(Line) /\ \A i \in 1..Len(WholeLines) : WholeLines[i] # Cut
      /\ Len(WholeLines) \in Nat /\ Len(rest) \in Nat
      /\ Len(WholeLines) + Len(rest) <= LogMax
  BY <1>1, LogParts, LenProperties DEF LogOK
<1>4. /\ log' \in Seq(Line) /\ log' # << >> /\ Len(log') = Len(WholeLines) + 1
      /\ Front(log') = WholeLines
      /\ \A i \in 1..Len(log') : log'[i] = Cut => i = Len(log')
      /\ CutLine' <=> l = Cut
  BY <1>2, <1>3, AppendLast, OneMoreLine DEF CutLine
<1>5. Len(rest') \in Nat
  BY <1>1, LenProperties
<1>6. Len(rest) >= 1
  <2>1. rest \in Seq(Kept)
    BY DEF PollOK, Kept
  <2>2. Len(rest) \in Nat \ {0}
    BY <1>1, <2>1, EmptySeq
  <2> QED BY <2>2
<1>7. Len(WholeLines') + Len(rest') <= LogMax /\ (CutLine' => rest' # << >>)
  <2>1. CASE l = Cut
    BY <1>1, <1>2, <1>3, <1>4, <2>1 DEF WholeLines
  <2>2. CASE l # Cut
    <3>1. WholeLines' = log' /\ ~CutLine'
      BY <1>4, <2>2 DEF WholeLines
    <3>2. Len(WholeLines') = Len(WholeLines) + 1 /\ Len(rest') = Len(rest) - 1
      BY <1>2, <1>4, <2>2, <3>1
    <3> QED BY <1>3, <3>1, <3>2, Numbers
  <2> QED BY <2>1, <2>2
<1>8. Len(log') <= LogMax + 1 + crashes' /\ Len(rest') <= LogMax
  BY <1>1, <1>3, <1>4, <1>5, <1>6, Numbers
<1>9. PollOK'
  BY <1>1, <1>4, <1>8 DEF PollOK, Kept, history
<1> QED BY <1>1, <1>4, <1>7, <1>9 DEF LogOK

(* The steps that leave the log alone, Prune aside.                        *)
LEMMA LogStays ==
  ASSUME PollOK, LogOK, UNCHANGED <<log, crashes>>, PollOK',
         pc' \notin {"prune", "rewrite"},
         pc # "prune", pc = "rewrite" => rest = << >>
  PROVE  LogOK'
<1>1. Len(log) <= LogMax + crashes
  <2>1. CASE pc = "rewrite"
    <3>1. Len(log) + Len(rest) <= LogMax /\ rest = << >>
      BY <2>1, LogParts DEF LogOK
    <3>2. Len(rest) = 0
      BY <3>1, EmptySeq
    <3> QED BY <3>1, <3>2, LogParts, Numbers
  <2> QED BY <2>1 DEF LogOK
<1> QED BY <1>1 DEF LogOK

Others ==
  \/ OpenStatus \/ CloseStatus \/ Rewritten \/ Publish
  \/ LightningChanges \/ NoLightning \/ Heartbeat
  \/ ApplySave \/ Start \/ OpenMeteoChanges

(* What the other steps of the daemon do to the poll and the files.        *)
LEMMA OthersEffect ==
  ASSUME PollOK, Others
  PROVE  /\ UNCHANGED <<log, page, crashes>>
         /\ \/ UNCHANGED <<pc, rest>>
            \/ /\ pc # "prune" /\ pc' \notin {"prune", "rewrite"}
               /\ pc = "rewrite" => rest = << >>
         /\ PollOK'
<1> USE DEF Goto, history, pollVars, PollOK
<1>1. CASE OpenStatus \/ LightningChanges
  BY <1>1 DEF OpenStatus, LightningChanges
<1>2. CASE CloseStatus
  <2>1. /\ pc' \in {"append", "lightning", "heartbeat"} /\ pc \in {"fill", "refill"}
        /\ UNCHANGED <<om, config, snap, rest, log, page, history>>
    BY <1>2 DEF CloseStatus
  <2>2. status' \in [file : {"absent", "cut", "whole"}, snap : Snapshot, error : BOOLEAN]
    BY <1>2 DEF CloseStatus, Ok, Valid
  <2> QED BY <2>1, <2>2
<1>3. CASE Publish
  <2>1. snap.temp \in Reading /\ Cardinality({snap.temp}) = 1
    BY FS_Singleton DEF Snapshot
  <2>2. event' \in SUBSET Reading /\ Cardinality(event') <= 1
    <3>1. event' = {snap.temp} \/ event' = {}
      BY <1>3 DEF Publish
    <3>2. Cardinality({}) = 0
      BY FS_EmptySet
    <3> HIDE DEF PollOK
    <3> QED BY <2>1, <3>1, <3>2
  <2> QED BY <1>3, <2>2 DEF Publish
<1>4. CASE Rewritten \/ NoLightning \/ Heartbeat \/ ApplySave \/ OpenMeteoChanges
  BY <1>4 DEF Rewritten, NoLightning, Heartbeat, ApplySave, Idle, OpenMeteoChanges
<1>5. CASE Start
  <2>1. Empty \in Snapshot
    BY DEF Empty, Snapshot, Reading
  <2>2. << >> \in Seq(Reading \cup {Garbled}) /\ Len(<< >>) = 0
    BY EmptySeq
  <2>3. Cardinality({}) = 0
    BY FS_EmptySet
  <2>4. rest' \in Seq(Reading \cup {Garbled}) /\ Len(rest') <= LogMax
    <3>1. rest' = << >>
      BY <1>5 DEF Start
    <3> HIDE DEF PollOK
    <3> QED BY <2>2, <3>1, Numbers
  <2>5. event' \in SUBSET Reading /\ Cardinality(event') <= 1
    <3>1. event' = {}
      BY <1>5 DEF Start
    <3> HIDE DEF PollOK
    <3> QED BY <2>3, <3>1
  <2> QED BY <1>5, <2>1, <2>4, <2>5 DEF Start
<1> QED BY <1>1, <1>2, <1>3, <1>4, <1>5 DEF Others

LEMMA CrashType == ASSUME PollOK, LogOK, Crash PROVE (PollOK /\ LogOK)'
<1>1. /\ pc' = "off" /\ crashes' = crashes + 1 /\ crashes < MaxCrash /\ recent' = << >>
      /\ UNCHANGED <<om, config, snap, rest, status, log, page, answered, event>>
  BY DEF Crash, Goto
<1>2. Len(log) \in Nat /\ Len(log) <= LogMax + 1 + crashes /\ crashes \in Nat
  BY LogParts, Numbers DEF PollOK
<1>3. Len(log') <= LogMax + crashes'
  BY <1>1, <1>2, Numbers
<1>4. crashes' \in 0..MaxCrash
  BY <1>1, <1>2, Numbers
<1>5. recent' \in Seq(Reading) /\ Len(recent') <= LogMax + 1
  BY <1>1, EmptySeq, Numbers
<1>6. Len(log') <= LogMax + 1 + crashes'
  BY <1>1, <1>2, Numbers
<1>7. PollOK'
  BY <1>1, <1>4, <1>5, <1>6 DEF PollOK
<1> QED BY <1>1, <1>3, <1>7 DEF LogOK

(* A read of the log disturbs nothing.                                     *)
ReadsOnly ==
  UNCHANGED <<om, config, pc, snap, rest, status, log, page, answered, event, recent, crashes>>

LEMMA ReadFrame == read_file \/ UNCHANGED vars => ReadsOnly
BY DEF read_file, ReadOpen, ReadLine, ReadSeam, ReadEnds, vars, pollVars, history, ReadsOnly

LEMMA NextCases ==
  ASSUME [Next]_vars
  PROVE  \/ Fetch \/ AppendReading \/ Prune \/ RewriteLine \/ Others
         \/ Crash \/ PollStatus \/ ReadsOnly
BY ReadFrame DEF Next, do_poll, Fetch, Others

LEMMA StepType == PollOK /\ LogOK /\ [Next]_vars => (PollOK /\ LogOK)'
<1> SUFFICES ASSUME PollOK, LogOK, [Next]_vars PROVE (PollOK /\ LogOK)'
  OBVIOUS
<1>1. CASE Fetch
  <2>1. PollOK'
    <3>1. event' \in SUBSET Reading /\ Cardinality(event') <= 1
      <4>1. event \in SUBSET Reading /\ Cardinality(event) <= 1
        BY DEF PollOK
      <4>2. event' = event \/ event' = {}
        BY <1>1, FetchEffect
      <4>3. Cardinality({}) = 0
        BY FS_EmptySet
      <4> QED BY <4>1, <4>2, <4>3
    <3> QED BY <1>1, <3>1, FetchEffect DEF PollOK
  <2>2. LogOK'
    BY <1>1, <2>1, FetchEffect, LogStays DEF Fetching
  <2> QED BY <2>1, <2>2
<1>2. CASE AppendReading
  BY <1>2, AppendReadingType
<1>3. CASE Prune
  BY <1>3, PruneType
<1>4. CASE RewriteLine
  BY <1>4, RewriteLineType
<1>5. CASE Others
  <2>1. PollOK' /\ UNCHANGED <<log, page, crashes>>
    BY <1>5, OthersEffect
  <2>2. CASE UNCHANGED <<pc, rest>>
    BY <2>1, <2>2 DEF LogOK, CutLine, WholeLines
  <2>3. CASE pc # "prune" /\ pc' \notin {"prune", "rewrite"} /\ (pc = "rewrite" => rest = << >>)
    BY <2>1, <2>3, LogStays
  <2> QED BY <1>5, <2>2, <2>3, OthersEffect
<1>6. CASE Crash
  BY <1>6, CrashType
<1>7. CASE PollStatus \/ ReadsOnly
  <2>1. UNCHANGED <<om, config, pc, snap, rest, status, log, answered, event, recent, crashes>>
    BY <1>7 DEF PollStatus, ReadsOnly, pollVars, history
  <2>2. page' \in {"no data", "weather"}
    BY <1>7 DEF PollStatus, ReadsOnly, PollOK
  <2> QED BY <2>1, <2>2 DEF PollOK, LogOK, CutLine, WholeLines
<1> QED BY <1>1, <1>2, <1>3, <1>4, <1>5, <1>6, <1>7, NextCases

LEMMA TypeInv == Spec => [](PollOK /\ LogOK)
<1>1. Init => PollOK /\ LogOK
  <2> SUFFICES ASSUME Init PROVE PollOK /\ LogOK
    OBVIOUS
  <2>1. Empty \in Snapshot
    BY DEF Empty, Snapshot, Reading
  <2>2. /\ log = << >> /\ rest = << >> /\ recent = << >>
        /\ event = {} /\ Cardinality({}) = 0 /\ Len(<< >>) = 0
    BY FS_EmptySet, EmptySeq DEF Init
  <2>3. /\ log \in Seq(Line) /\ Len(log) <= LogMax + 1 + crashes
        /\ rest \in Seq(Reading \cup {Garbled}) /\ Len(rest) <= LogMax
        /\ recent \in Seq(Reading) /\ Len(recent) <= LogMax + 1
        /\ Cardinality(event) <= 1 /\ crashes \in 0..MaxCrash
        /\ Len(log) <= LogMax + crashes
    <3>1. crashes = 0
      BY DEF Init
    <3> QED BY <2>2, <3>1, EmptySeq, Numbers
  <2>4. PollOK
    BY <2>1, <2>2, <2>3 DEF Init, PollOK
  <2>5. pc = "started"
    BY DEF Init
  <2> QED BY <2>2, <2>3, <2>4, <2>5 DEF LogOK
<1> QED BY <1>1, StepType, PTL DEF Spec

Reads == [at : Nat, size : Nat, got : Seq(Line \cup {Mixed}), torn : {"no", "now", "past"}]

(* A read of the log is under way only while the daemon is at it ...       *)
LEMMA ReadSteps ==
  ASSUME reader \in Reads, [Next]_vars
  PROVE  \/ reader' = reader
         \/ reader' = NotReading
         \/ reader.at > 0 /\ reader' = [reader EXCEPT !.torn = "now"] /\ Prune
         \/ read_file
<1>1. Fetch => reader' = reader
  BY DEF Fetch, weather_api_fetch, BeginPoll, MockPoll, NewPoll, FetchStep, ResolveCoords,
         CoordsFail, NwsAnswers, NwsFails, OpenMeteoAnswers, OpenMeteoFails, SunTimes, NwsAlerts
<1>2. AppendReading \/ RewriteLine \/ PollStatus \/ UNCHANGED vars => reader' = reader
  BY DEF AppendReading, RewriteLine, PollStatus, vars
<1>3. Others \/ Crash => reader' = reader \/ reader' = NotReading
  BY DEF Others, OpenStatus, CloseStatus, Rewritten, Publish, LightningChanges, NoLightning,
         Heartbeat, ApplySave, Crash, Start, OpenMeteoChanges
<1>4. /\ reader.at \in Nat
      /\ Prune => \/ reader' = reader
                  \/ reader.at > 0 /\ reader' = [reader EXCEPT !.torn = "now"]
  BY DEF Prune, Tear, Reads
<1> QED BY <1>1, <1>2, <1>3, <1>4 DEF Next, do_poll, Fetch, Others

(* ... and what it has read are lines of the log, or mixes of two.         *)
LEMMA ReaderStep == PollOK /\ LogOK /\ ReaderOK /\ [Next]_vars => ReaderOK'
<1> SUFFICES ASSUME PollOK, LogOK, reader \in Reads, [Next]_vars PROVE reader' \in Reads
  BY DEF ReaderOK, Reads
<1>1. /\ WholeLines \in Seq(Line) /\ Len(WholeLines) \in Nat
      /\ \A i \in 1..Len(WholeLines) : log[i] \in Line
  <2>1. /\ WholeLines \in Seq(Line) /\ Len(WholeLines) \in Nat /\ log \in Seq(Line)
        /\ Len(log) \in Nat /\ Len(WholeLines) <= Len(log)
    BY LogParts, LenProperties
  <2>2. \A i \in 1..Len(log) : log[i] \in Line
    BY <2>1, ElementOfSeq
  <2> QED BY <2>1, <2>2
<1>2. << >> \in Seq(Line \cup {Mixed})
  BY EmptySeq
<1>3. NotReading \in Reads
  BY <1>2 DEF NotReading, Reads
<1>4. reader.got \in Seq(Line \cup {Mixed}) /\ reader.at \in Nat
  BY DEF Reads
<1>5. \A l \in Line \cup {Mixed} : Append(reader.got, l) \in Seq(Line \cup {Mixed})
  BY <1>4, AppendProperties
<1>6. CASE ReadOpen
  BY <1>1, <1>2, <1>6 DEF ReadOpen, Reads
<1>7. CASE ReadLine
  <2>1. reader.at \in 1..Len(WholeLines)
    BY <1>7 DEF ReadLine, More
  <2>2. Append(reader.got, log[reader.at]) \in Seq(Line \cup {Mixed})
    BY <1>1, <1>5, <2>1
  <2>3. reader.at + 1 \in Nat
    BY <1>4
  <2>4. reader' = [reader EXCEPT !.at = reader.at + 1, !.got = Append(reader.got, log[reader.at]),
                               !.torn = IF reader.torn = "no" THEN "no" ELSE "past"]
    BY <1>7 DEF ReadLine
  <2> QED BY <2>2, <2>3, <2>4 DEF Reads
<1>8. CASE ReadSeam
  <2>1. PICK l \in {Mixed, Garbled}, next \in reader.at..(Len(WholeLines) + 1) :
          reader' = [reader EXCEPT !.at = next, !.got = Append(@, l), !.torn = "past"]
    BY <1>8 DEF ReadSeam
  <2>2. next \in Nat
    BY <1>1, <1>4
  <2>3. l \in Line \cup {Mixed}
    BY DEF Line
  <2>4. Append(reader.got, l) \in Seq(Line \cup {Mixed})
    BY <1>5, <2>3
  <2>5. /\ reader' = [at |-> next, size |-> reader.size, got |-> Append(reader.got, l), torn |-> "past"]
        /\ reader.size \in Nat
    <3> HIDE DEF WholeLines
    <3> QED BY <2>1 DEF Reads
  <2> QED BY <2>2, <2>4, <2>5 DEF Reads
<1>9. CASE ReadEnds
  BY <1>3, <1>9 DEF ReadEnds
<1>10. CASE reader' = [reader EXCEPT !.torn = "now"]
  BY <1>10 DEF Reads
<1> QED BY <1>3, <1>6, <1>7, <1>8, <1>9, <1>10, ReadSteps DEF read_file

LEMMA ReaderInv == Spec => []ReaderOK
<1>1. Init => ReaderOK
  <2>1. << >> \in Seq(Line \cup {Mixed})
    BY EmptySeq
  <2>2. NotReading \in Reads
    BY <2>1 DEF NotReading, Reads
  <2>3. ReaderOK <=> reader \in Reads
    BY DEF ReaderOK, Reads
  <2> QED BY <2>2, <2>3 DEF Init
<1> QED BY <1>1, ReaderStep, TypeInv, PTL DEF Spec

(* The type of every variable, for any readings, configurations, sizes and *)
(* number of crashes: with it the log never grows past its limit by more   *)
(* than one line and one for each daemon that died.                        *)
THEOREM TypeCorrect == Spec => []TypeOK
BY TypeInv, ReaderInv, PTL DEF TypeOK

-----------------------------------------------------------------------------
(* Each step of the fetch adds what has just answered.                     *)
LEMMA FetchAnswered ==
  ASSUME PollOK, SnapshotAnswered, Fetch PROVE SnapshotAnswered'
<1> USE DEF Goto, SnapshotAnswered
<1>1. snap \in Snapshot
  BY DEF PollOK
<1>2. CASE BeginPoll
  BY <1>2 DEF BeginPoll, NewPoll, Empty
<1>3. CASE MockPoll
  BY <1>3 DEF MockPoll, NewPoll, Empty
<1>4. CASE ResolveCoords
  BY <1>1, <1>4 DEF ResolveCoords, Snapshot
<1>5. CASE CoordsFail
  BY <1>5 DEF CoordsFail
<1>6. CASE NwsAnswers
  BY <1>1, <1>6 DEF NwsAnswers, Snapshot
<1>7. CASE NwsFails
  BY <1>7 DEF NwsFails
<1>8. CASE OpenMeteoAnswers
  BY <1>1, <1>8 DEF OpenMeteoAnswers, AfterConditions, Snapshot
<1>9. CASE OpenMeteoFails
  BY <1>9 DEF OpenMeteoFails, AfterConditions
<1>10. CASE SunTimes
  BY <1>1, <1>10 DEF SunTimes, AfterConditions, Snapshot
<1>11. CASE NwsAlerts
  BY <1>1, <1>11 DEF NwsAlerts, Snapshot
<1> QED BY <1>2, <1>3, <1>4, <1>5, <1>6, <1>7, <1>8, <1>9, <1>10, <1>11
        DEF Fetch, weather_api_fetch

LEMMA StepAnswered == PollOK /\ SnapshotAnswered /\ [Next]_vars => SnapshotAnswered'
<1> SUFFICES ASSUME PollOK, SnapshotAnswered, [Next]_vars PROVE SnapshotAnswered'
  OBVIOUS
<1>1. CASE Fetch
  BY <1>1, FetchAnswered
<1>2. CASE Start
  BY <1>2 DEF Start, Goto, Empty, SnapshotAnswered
<1>3. CASE /\ UNCHANGED <<snap, answered>>
           /\ pc' \in {pc, "idle"} \/ pc' \notin Fetching
  BY <1>3 DEF SnapshotAnswered, Fetching
<1>4. ASSUME ~Fetch, ~Start
      PROVE  /\ UNCHANGED <<snap, answered>>
             /\ pc' \in {pc, "idle"} \/ pc' \notin Fetching
  BY <1>4, NextCases DEF Others, OpenStatus, CloseStatus, AppendReading, Prune, RewriteLine,
     Rewritten, Publish, LightningChanges, NoLightning, Heartbeat, ApplySave, Crash,
     PollStatus, OpenMeteoChanges, Goto, Fetching, ReadsOnly, pollVars, history
<1> QED BY <1>1, <1>2, <1>3, <1>4

(* Once the status is written, file and snapshot stay the same until the   *)
(* next poll begins.                                                       *)
Recorded == {"append", "prune", "rewrite", "publish", "lightning", "heartbeat", "idle"}

LEMMA StepStatus == StatusWritten /\ [Next]_vars => StatusWritten'
<1> SUFFICES ASSUME StatusWritten, [Next]_vars PROVE StatusWritten'
  OBVIOUS
<1> USE DEF Goto, StatusWritten, Record, Recorded
<1>1. CASE CloseStatus
  BY <1>1 DEF CloseStatus, Ok, Valid
<1>2. CASE \/ Fetch \/ OpenStatus \/ LightningChanges \/ Crash \/ Start
  <2>1. pc' \notin Recorded
    BY <1>2 DEF Fetch, BeginPoll, MockPoll, weather_api_fetch, ResolveCoords, CoordsFail,
       NwsAnswers, NwsFails, OpenMeteoAnswers, OpenMeteoFails, SunTimes, NwsAlerts,
       AfterConditions, OpenStatus, LightningChanges, Crash, Start
  <2> QED BY <2>1
<1>3. ASSUME ~CloseStatus, ~(\/ Fetch \/ OpenStatus \/ LightningChanges \/ Crash \/ Start)
      PROVE  UNCHANGED <<snap, status>> /\ (pc' \in Recorded => pc \in Recorded)
  BY <1>3, NextCases DEF Others, AppendReading, Prune, RewriteLine, Rewritten, Publish,
     NoLightning, Heartbeat, ApplySave, PollStatus, OpenMeteoChanges, ReadsOnly, pollVars, history
<1>4. CASE UNCHANGED <<snap, status>> /\ (pc' \in Recorded => pc \in Recorded)
  BY <1>4 DEF Ok, Valid
<1> QED BY <1>1, <1>2, <1>3, <1>4

LEMMA StatusInv == Spec => [](SnapshotAnswered /\ StatusWritten)
<1>1. Init => SnapshotAnswered /\ StatusWritten
  <2> SUFFICES ASSUME Init PROVE SnapshotAnswered /\ StatusWritten
    OBVIOUS
  <2>1. pc = "started" /\ snap = Empty /\ answered = {}
    BY DEF Init
  <2>2. snap.by = "none" /\ ~snap.alert /\ ~snap.sun
    BY <2>1 DEF Empty
  <2> QED BY <2>1, <2>2 DEF SnapshotAnswered, StatusWritten
<1> QED BY <1>1, StepAnswered, StepStatus, TypeInv, PTL DEF Spec

(* After every poll, whatever failed in it and whatever was there before,  *)
(* the status file is whole and is about that poll alone.                  *)
THEOREM StatusIsOfLastPollHolds == Spec => []StatusIsOfLastPoll
<1>1. SnapshotAnswered /\ StatusWritten => StatusIsOfLastPoll
  <2> SUFFICES ASSUME SnapshotAnswered, status = Record
               PROVE  /\ status.file = "whole"
                      /\ LET s == status.snap
                         IN  /\ s.by \in {"nws", "openmeteo"} => s.by \in answered
                             /\ s.by \in {"none", "openmeteo"} => "nws" \notin answered
                             /\ s.by = "none" => answered \subseteq {"alerts"}
                             /\ s.alert => "alerts" \in answered \/ s.by = "mock"
                             /\ s.sun => "openmeteo" \in answered
                             /\ status.error <=> (s.by = "none" /\ ~s.alert)
    BY DEF StatusWritten, StatusIsOfLastPoll
  <2>1. /\ status.file = "whole" /\ status.snap = snap /\ status.error = ~Ok(snap)
    BY DEF Record
  <2> QED BY <2>1 DEF SnapshotAnswered, Ok, Valid
<1> QED BY <1>1, StatusInv, PTL

-----------------------------------------------------------------------------
LEMMA TellsAppend ==
  ASSUME PollOK, LogOK, AppendReading,
         crashes = 0 => ~CutLine
  PROVE  Tells(log)'
<1>1. UNCHANGED <<snap, crashes>>
  BY DEF AppendReading
<1>2. snap.temp \in Line /\ Garbled \in Line
  BY DEF PollOK, Snapshot, Line
<1>3. snap.temp # Garbled
  BY LineAssumption DEF PollOK, Snapshot
<1>4. WholeLines \in Seq(Line)
  BY LogParts
<1>5. CASE CutLine
  <2>1. log' = Append(WholeLines, Garbled)
    BY <1>5 DEF AppendReading, CutLine, WholeLines
  <2> QED BY <1>1, <1>2, <1>4, <1>5, <2>1, AppendLast DEF Tells
<1>6. CASE ~CutLine
  <2>1. log' = Append(WholeLines, snap.temp)
    BY <1>6 DEF AppendReading, CutLine, WholeLines
  <2> QED BY <1>1, <1>2, <1>3, <1>4, <2>1, AppendLast DEF Tells
<1> QED BY <1>5, <1>6

LEMMA TellsRewrite ==
  ASSUME PollOK, LogOK, RewriteLine, ReadingTold
  PROVE  ReadingTold'
<1>1. /\ pc = "rewrite" /\ pc' = "rewrite" /\ rest # << >>
      /\ UNCHANGED <<snap, crashes>>
  BY RewriteEffect DEF history
<1>2. Valid(snap) /\ Tells(rest)
  BY <1>1 DEF ReadingTold, Afterwards
<1>3. CASE rest' = rest
  BY <1>1, <1>2, <1>3 DEF ReadingTold, Afterwards, Valid, Tells
<1>4. CASE rest' # rest
  <2>1. rest' = Tail(rest) /\ log' = Append(WholeLines, Head(rest)) /\ Head(rest) \in Line
    BY <1>4, RewriteEffect
  <2>2. /\ rest \in Seq(Line) /\ Len(rest) \in Nat
    BY LogParts
  <2>3. /\ Last(rest) = rest[Len(rest)] /\ Len(rest) # 0
        /\ Tail(rest) \in Seq(Line) /\ Len(Tail(rest)) = Len(rest) - 1
        /\ \A i \in 1..Len(Tail(rest)) : Tail(rest)[i] = rest[i + 1]
    BY <1>1, <2>2, FrontProperties, HeadTailProperties
  <2>4. CASE Tail(rest) = << >>
    <3>1. Len(rest) = 1
      <4>1. Len(Tail(rest)) = 0
        BY <2>4, EmptySeq
      <4> DEFINE n == Len(rest)
      <4>2. n \in Nat /\ 0 = n - 1
        BY <2>2, <2>3, <4>1
      <4> HIDE DEF n
      <4>3. n = 1
        BY <4>2
      <4> QED BY <4>3 DEF n
    <3>2. Head(rest) = Last(rest)
      BY <2>2, <2>3, <3>1, SeqDef
    <3>3. log' # << >> /\ Last(log') = Last(rest)
      <4>1. WholeLines \in Seq(Line)
        BY LogParts
      <4> QED BY <2>1, <3>2, <4>1, AppendLast
    <3> QED BY <1>1, <1>2, <2>1, <2>4, <3>3 DEF ReadingTold, Afterwards, Tells, Valid
  <2>5. CASE Tail(rest) # << >>
    <3>1. Last(Tail(rest)) = Tail(rest)[Len(Tail(rest))] /\ Len(Tail(rest)) \in Nat \ {0}
      BY <2>3, <2>5, FrontProperties
    <3>2. Tail(rest)[Len(Tail(rest))] = rest[Len(Tail(rest)) + 1]
      BY <2>3, <3>1
    <3>3. Last(Tail(rest)) = Last(rest)
      BY <2>2, <2>3, <3>1, <3>2
    <3> QED BY <1>1, <1>2, <2>1, <2>5, <3>3 DEF ReadingTold, Afterwards, Tells, Valid
  <2> QED BY <2>4, <2>5
<1> QED BY <1>3, <1>4

LEMMA TellsPrune ==
  ASSUME PollOK, LogOK, Prune, ReadingTold
  PROVE  ReadingTold'
<1>1. pc = "prune" /\ UNCHANGED <<snap, crashes, event>>
  BY DEF Prune, history
<1>2. Valid(snap) /\ Tells(log) /\ (crashes = 0 => ~CutLine)
  BY <1>1 DEF ReadingTold, Afterwards
<1>3. CASE Len(log) <= LogMax
  <2>1. pc' = "publish" /\ UNCHANGED <<rest, log>>
    BY <1>3 DEF Prune, Goto
  <2> QED BY <1>1, <1>2, <2>1 DEF ReadingTold, Afterwards, Tells, Valid, CutLine
<1>4. CASE ~(Len(log) <= LogMax)
  <2>1. pc' = "rewrite" /\ rest' = LastOf(LogMax, log) /\ log' = << >>
    BY <1>4 DEF Prune, Goto
  <2>2. rest' # << >> /\ Last(rest') = Last(log)
    BY <1>2, <2>1, LogParts, LogAssumption, LastOfProperties DEF Tells
  <2>3. Tells(rest)'
    BY <1>1, <1>2, <2>2 DEF Tells
  <2> QED BY <1>1, <1>2, <2>1, <2>2, <2>3 DEF ReadingTold, Afterwards, Valid
<1> QED BY <1>3, <1>4

LEMMA StepTold == PollOK /\ LogOK /\ ReadingTold /\ [Next]_vars => ReadingTold'
<1> SUFFICES ASSUME PollOK, LogOK, ReadingTold, [Next]_vars PROVE ReadingTold'
  OBVIOUS
<1> USE DEF Goto
<1>1. CASE Fetch
  <2>1. /\ pc' \notin {"append", "prune", "rewrite", "publish", "lightning", "refill",
                       "heartbeat", "idle"}
        /\ pc # "rewrite" /\ UNCHANGED <<log, crashes>>
    BY <1>1, FetchEffect DEF Fetching
  <2> QED BY <2>1 DEF ReadingTold, Afterwards, CutLine
<1>2. CASE AppendReading
  <2>1. /\ pc = "append" /\ pc' = "prune" /\ UNCHANGED <<snap, crashes>>
    BY <1>2 DEF AppendReading
  <2>2. (crashes = 0 => ~CutLine) /\ Valid(snap)
    BY <2>1 DEF ReadingTold, Afterwards
  <2>3. Tells(log)'
    BY <1>2, <2>2, TellsAppend
  <2>4. ~CutLine'
    <3>1. LogOK'
      BY <1>2, AppendReadingType
    <3> QED BY <2>1, <3>1 DEF LogOK
  <2> QED BY <2>1, <2>2, <2>3, <2>4 DEF ReadingTold, Afterwards, Valid
<1>3. CASE Prune
  BY <1>3, TellsPrune
<1>4. CASE RewriteLine
  BY <1>4, TellsRewrite
<1>5. CASE Rewritten
  <2>1. /\ pc = "rewrite" /\ rest = << >> /\ pc' = "publish"
        /\ UNCHANGED <<snap, log, crashes>>
    BY <1>5 DEF Rewritten, history
  <2>2. Tells(log) /\ Valid(snap) /\ ~CutLine
    BY <2>1 DEF ReadingTold, Afterwards, LogOK
  <2> QED BY <2>1, <2>2 DEF ReadingTold, Afterwards, Tells, Valid, CutLine
<1>6. CASE Publish
  <2>1. /\ pc = "publish" /\ pc' = "lightning"
        /\ UNCHANGED <<snap, log, crashes>>
    BY <1>6 DEF Publish
  <2> QED BY <2>1 DEF ReadingTold, Afterwards, Tells, Valid, CutLine
<1>7. CASE Crash \/ Start
  <2>1. pc' \in {"off", "started"} /\ log' = log
    BY <1>7 DEF Crash, Start
  <2>2. crashes' = 0 => crashes = 0 /\ pc # "rewrite"
    BY <1>7, Numbers DEF Crash, Start
  <2> QED BY <2>1, <2>2 DEF ReadingTold, Afterwards, CutLine
<1>8. CASE CloseStatus
  <2>1. /\ \/ pc = "fill" /\ pc' = "append" /\ Valid(snap)
           \/ pc = "fill" /\ pc' = "lightning" /\ ~Valid(snap)
           \/ pc = "refill" /\ pc' = "heartbeat"
        /\ UNCHANGED <<snap, log, crashes>>
    BY <1>8 DEF CloseStatus, history, Ok
  <2> QED BY <2>1 DEF ReadingTold, Afterwards, Tells, Valid, CutLine
<1>9. CASE \/ OpenStatus \/ LightningChanges \/ NoLightning \/ Heartbeat \/ ApplySave
           \/ OpenMeteoChanges \/ PollStatus \/ ReadsOnly
  <2>1. /\ \/ pc' = pc /\ rest' = rest
           \/ pc' = "fill" /\ pc = "status"
           \/ pc = "lightning" /\ pc' \in {"refill", "heartbeat"}
           \/ pc = "heartbeat" /\ pc' = "idle"
        /\ UNCHANGED <<snap, log, crashes>>
    BY <1>9 DEF OpenStatus, LightningChanges, NoLightning, Heartbeat, ApplySave,
                OpenMeteoChanges, PollStatus, ReadsOnly, pollVars, history
  <2> QED BY <2>1 DEF ReadingTold, Afterwards, Tells, Valid, CutLine
<1> QED BY <1>1, <1>2, <1>3, <1>4, <1>5, <1>6, <1>7, <1>8, <1>9, NextCases DEF Others

LEMMA StepEvent == PollOK /\ ReadingTold /\ EventTold /\ [Next]_vars => EventTold'
<1> SUFFICES ASSUME PollOK, ReadingTold, EventTold, [Next]_vars PROVE EventTold'
  OBVIOUS
<1> USE DEF Goto, Afterwards
<1>1. CASE Fetch
  <2>1. event' = {}
    BY <1>1, FetchEffect DEF Fetching, EventTold
  <2> QED BY <2>1 DEF EventTold
<1>2. CASE Publish
  <2>1. /\ pc = "publish" /\ pc' = "lightning" /\ snap' = snap
        /\ event' = {snap.temp} \/ event' = {}
    BY <1>2 DEF Publish
  <2> QED BY <2>1 DEF EventTold, ReadingTold, Valid
<1>3. CASE Crash \/ Start
  BY <1>3 DEF Crash, Start, EventTold
<1>4. CASE CloseStatus
  <2>1. /\ \/ pc = "fill" /\ pc' = "append"
           \/ pc = "fill" /\ pc' = "lightning" /\ ~Valid(snap)
           \/ pc = "refill" /\ pc' = "heartbeat"
        /\ UNCHANGED <<snap, event>>
    BY <1>4 DEF CloseStatus, history, Ok
  <2> QED BY <2>1 DEF EventTold, Valid
<1>5. CASE \/ AppendReading \/ Prune \/ RewriteLine \/ Rewritten
           \/ OpenStatus \/ LightningChanges \/ NoLightning \/ Heartbeat \/ ApplySave
           \/ OpenMeteoChanges \/ PollStatus \/ ReadsOnly
  <2>1. /\ \/ pc' = pc
           \/ pc \notin Afterwards \cup {"off", "started"} /\ pc' \notin Afterwards
           \/ pc \in Afterwards /\ pc' \in Afterwards
        /\ UNCHANGED <<snap, event>>
    BY <1>5 DEF AppendReading, Prune, RewriteLine, Rewritten, OpenStatus, LightningChanges,
                NoLightning, Heartbeat, ApplySave, OpenMeteoChanges, PollStatus, ReadsOnly,
                pollVars, history
  <2> QED BY <2>1 DEF EventTold, Valid
<1> QED BY <1>1, <1>2, <1>3, <1>4, <1>5, NextCases DEF Others

(* After every poll, through crashes at any step and events that are not   *)
(* sent, status file, last line of the log and event tell of the same      *)
(* reading, or the poll had none and sent no event.                        *)
THEOREM AccountsAgreeHolds == Spec => []AccountsAgree
<1>1. Init => ReadingTold /\ EventTold
  BY DEF Init, ReadingTold, Afterwards, CutLine, EventTold
<1>2. StatusWritten /\ ReadingTold /\ EventTold => AccountsAgree
  <2> SUFFICES ASSUME StatusWritten, ReadingTold, EventTold, pc = "idle"
               PROVE  AccountsAgree
    BY DEF AccountsAgree
  <2>1. status.snap = snap
    BY DEF StatusWritten, Record
  <2>2. CASE Valid(snap)
    BY <2>1, <2>2 DEF ReadingTold, Afterwards, EventTold, Tells, AccountsAgree
  <2>3. CASE ~Valid(snap)
    BY <2>1, <2>3 DEF Afterwards, EventTold, AccountsAgree
  <2> QED BY <2>2, <2>3
<1> QED BY <1>1, <1>2, TypeInv, StepTold, StepEvent, StatusInv, PTL DEF Spec

-----------------------------------------------------------------------------
(***************************************************************************)
(* The log and the latest readings.                                        *)
(***************************************************************************)

(* The log as it will be when what prune_file holds is written back.       *)
Whole == IF pc = "rewrite" THEN WholeLines \o rest ELSE WholeLines

(* The line that is j from the end of a sequence.                          *)
FromEnd(s, j) == s[Len(s) + 1 - j]

(* After a death the first line of the next daemon may be spoilt.          *)
Spoilt == IF crashes > 0 THEN 1 ELSE 0

(* The log ends in the latest readings, as many as it keeps; if no daemon  *)
(* died it holds nothing else.                                             *)
EndsInRecent ==
  /\ \A j \in 1..LogMax : j + Spoilt <= Len(recent) =>
       j <= Len(Whole) /\ FromEnd(Whole, j) = FromEnd(recent, j)
  /\ crashes = 0 => \A j \in 1..Len(Whole) :
       j <= Len(recent) /\ FromEnd(Whole, j) = FromEnd(recent, j)
  /\ recent # << >> /\ pc # "prune" => Len(Whole) <= LogMax
  /\ recent # << >> /\ pc # "rewrite" => ~CutLine

LEMMA LastOfEnd ==
  ASSUME NEW S, NEW s \in Seq(S), NEW n \in Nat, n >= 1
  PROVE  /\ LastOf(n, s) \in Seq(S)
         /\ Len(LastOf(n, s)) = IF Len(s) <= n THEN Len(s) ELSE n
         /\ \A j \in 1..Len(LastOf(n, s)) : FromEnd(LastOf(n, s), j) = FromEnd(s, j)
<1>1. Len(s) \in Nat /\ \A i \in 1..Len(s) : s[i] \in S
  BY LenProperties, ElementOfSeq
<1>2. CASE Len(s) <= n
  BY <1>1, <1>2 DEF LastOf
<1>3. CASE Len(s) > n
  <2> DEFINE m == Len(s) - n + 1
             t == SubSeq(s, m, Len(s))
  <2>1. m \in Int /\ Len(s) \in Int /\ m <= Len(s) /\ \A i \in m..Len(s) : s[i] \in S
    BY <1>1, <1>3
  <2>2. /\ t \in Seq(S)
        /\ Len(t) = Len(s) - m + 1
        /\ \A i \in 1..(Len(s) - m + 1) : t[i] = s[m + i - 1]
    <3> HIDE DEF m
    <3> QED BY <2>1, SubSeqProperties
  <2>3. Len(s) - m + 1 = n
    BY <1>1
  <2>4. Len(t) = n
    <3> HIDE DEF m, t
    <3> QED BY <2>2, <2>3
  <2>5. ASSUME NEW j \in 1..n PROVE FromEnd(t, j) = FromEnd(s, j)
    <3>1. n + 1 - j \in 1..n /\ m + (n + 1 - j) - 1 = Len(s) + 1 - j
      BY <1>1
    <3> HIDE DEF m, t
    <3>2. t[n + 1 - j] = s[m + (n + 1 - j) - 1]
      BY <2>2, <2>3, <3>1
    <3> QED BY <2>4, <3>1, <3>2 DEF FromEnd
  <2>6. LastOf(n, s) = t
    BY <1>1, <1>3 DEF LastOf
  <2> HIDE DEF m, t
  <2> QED BY <1>1, <1>3, <2>2, <2>4, <2>5, <2>6
<1> QED BY <1>1, <1>2, <1>3

LEMMA AppendEnd ==
  ASSUME NEW S, NEW s \in Seq(S), NEW e \in S
  PROVE  /\ FromEnd(Append(s, e), 1) = e
         /\ \A j \in 1..Len(s) : FromEnd(Append(s, e), j + 1) = FromEnd(s, j)
<1> DEFINE t == Append(s, e)
<1>1. /\ Len(t) = Len(s) + 1
      /\ \A i \in 1..Len(s) : t[i] = s[i]
      /\ t[Len(s) + 1] = e
  BY AppendProperties
<1>2. Len(s) \in Nat
  BY LenProperties
<1> HIDE DEF t
<1>3. FromEnd(t, 1) = e
  BY <1>1, <1>2 DEF FromEnd
<1>4. ASSUME NEW j \in 1..Len(s) PROVE FromEnd(t, j + 1) = FromEnd(s, j)
  <2>1. Len(t) + 1 - (j + 1) = Len(s) + 1 - j /\ Len(s) + 1 - j \in 1..Len(s)
    BY <1>1, <1>2
  <2> QED BY <1>1, <2>1 DEF FromEnd
<1> QED BY <1>3, <1>4 DEF t

LEMMA WholeParts ==
  ASSUME PollOK, LogOK
  PROVE  /\ Whole \in Seq(Line) /\ Len(Whole) \in Nat
         /\ pc # "rewrite" => Whole = WholeLines
         /\ pc = "rewrite" => Whole = WholeLines \o rest /\ Len(Whole) <= LogMax
<1>1. WholeLines \in Seq(Line) /\ rest \in Seq(Line)
  BY LogParts
<1>2. /\ WholeLines \o rest \in Seq(Line)
      /\ Len(WholeLines \o rest) = Len(WholeLines) + Len(rest)
  BY <1>1, ConcatProperties
<1>3. Whole \in Seq(Line)
  BY <1>1, <1>2 DEF Whole
<1> QED BY <1>2, <1>3, LenProperties DEF Whole, LogOK

(* One more reading, in the log and among the recent ones.                 *)
LEMMA AppendEnds ==
  ASSUME PollOK, LogOK, ReadingTold, EndsInRecent, AppendReading
  PROVE  EndsInRecent'
<1>1. /\ pc = "append" /\ pc' = "prune" /\ UNCHANGED <<snap, rest, crashes>>
      /\ recent' = LastOf(LogMax + 1, Append(recent, snap.temp))
      /\ log' = Append(WholeLines, IF CutLine THEN Garbled ELSE snap.temp)
  BY DEF AppendReading, Goto, CutLine, WholeLines
<1> DEFINE l == IF CutLine THEN Garbled ELSE snap.temp
           longer == Append(recent, snap.temp)
<1>2. snap.temp \in Reading /\ l \in Line /\ recent \in Seq(Reading)
  BY DEF PollOK, Snapshot, Line
<1>3. /\ longer \in Seq(Reading) /\ Len(longer) = Len(recent) + 1
      /\ FromEnd(longer, 1) = snap.temp
      /\ \A j \in 1..Len(recent) : FromEnd(longer, j + 1) = FromEnd(recent, j)
      /\ Len(recent) \in Nat
  BY <1>2, AppendProperties, AppendEnd, LenProperties
<1>4. LogMax \in Nat /\ LogMax >= 1 /\ crashes \in Nat
  BY Numbers
<1>5. /\ recent' \in Seq(Reading)
      /\ Len(recent') = IF Len(longer) <= LogMax + 1 THEN Len(longer) ELSE LogMax + 1
      /\ \A j \in 1..Len(recent') : FromEnd(recent', j) = FromEnd(longer, j)
  <2>1. LogMax + 1 \in Nat /\ LogMax + 1 >= 1
    BY <1>4
  <2> HIDE DEF longer
  <2> QED BY <1>1, <1>3, <2>1, LastOfEnd DEF longer
<1>6. Whole = WholeLines /\ WholeLines \in Seq(Line) /\ Len(Whole) \in Nat
  BY <1>1, LogParts, WholeParts
<1>7. /\ log' \in Seq(Line) /\ Len(log') = Len(Whole) + 1
      /\ FromEnd(log', 1) = l
      /\ \A j \in 1..Len(Whole) : FromEnd(log', j + 1) = FromEnd(Whole, j)
  <2> HIDE DEF l
  <2> QED BY <1>1, <1>2, <1>6, AppendLast, AppendEnd DEF l
<1>8. ~CutLine' /\ Whole' = log'
  <2>1. LogOK'
    BY AppendReadingType
  <2> QED BY <1>1, <2>1 DEF LogOK, Whole, WholeLines
<1>9. CutLine => recent = << >> /\ crashes > 0
  BY <1>1, <1>4 DEF EndsInRecent, ReadingTold, Afterwards
<1>10. Len(recent) = 0 <=> recent = << >>
  BY <1>2, EmptySeq
<1>11. Spoilt' = Spoilt /\ Spoilt \in {0, 1} /\ (crashes > 0 => Spoilt = 1)
  BY <1>1 DEF Spoilt
<1> DEFINE m == Len(recent)  n == Len(recent')  w == Len(Whole)
<1>12. /\ m \in Nat /\ w \in Nat /\ Len(log') = w + 1
       /\ n = IF m + 1 <= LogMax + 1 THEN m + 1 ELSE LogMax + 1
  BY <1>3, <1>5, <1>6, <1>7
<1>13. crashes = 0 => w <= LogMax
  <2>1. crashes = 0 => ~CutLine
    BY <1>1 DEF ReadingTold, Afterwards
  <2>2. Len(log) <= LogMax + crashes
    BY <1>1 DEF LogOK
  <2>3. ~CutLine => WholeLines = log
    BY LogParts
  <2> QED BY <1>4, <1>6, <2>1, <2>2, <2>3
<1>14. ASSUME NEW j \in 1..LogMax, j + Spoilt <= n
       PROVE  j <= w + 1 /\ FromEnd(log', j) = FromEnd(recent', j)
  <2>1. CASE j = 1
    <3>1. ~CutLine
      <4>1. CASE CutLine
        <5>1. m = 0 /\ Spoilt = 1
          BY <1>9, <1>10, <1>11, <4>1
        <5> HIDE DEF m, n
        <5> QED BY <1>12, <1>14, <2>1, <5>1, <1>4
      <4> QED BY <4>1
    <3>2. 1 \in 1..n
      <4> HIDE DEF m, n
      <4> QED BY <1>4, <1>12
    <3>3. FromEnd(recent', 1) = snap.temp
      BY <1>3, <1>5, <3>2
    <3>4. FromEnd(log', 1) = snap.temp
      BY <1>7, <3>1
    <3>5. 1 <= w + 1
      <4> HIDE DEF w
      <4> QED BY <1>12
    <3> QED BY <2>1, <3>3, <3>4, <3>5
  <2>2. CASE j # 1
    <3> DEFINE i == j - 1
    <3>1. i \in 1..LogMax /\ i + Spoilt <= m /\ i \in 1..m /\ j \in 1..n /\ j = i + 1
      <4> HIDE DEF m, n, w
      <4> QED BY <1>4, <1>11, <1>12, <1>14, <2>2
    <3> HIDE DEF i
    <3>2. i <= w /\ FromEnd(Whole, i) = FromEnd(recent, i)
      BY <3>1 DEF EndsInRecent
    <3>3. i \in 1..w /\ j <= w + 1
      <4> HIDE DEF m, n, w
      <4> QED BY <1>12, <3>1, <3>2
    <3>4. FromEnd(log', j) = FromEnd(Whole, i)
      BY <1>7, <3>1, <3>3
    <3>5. FromEnd(recent', j) = FromEnd(recent, i)
      BY <1>3, <1>5, <3>1
    <3> QED BY <3>2, <3>3, <3>4, <3>5
  <2> QED BY <2>1, <2>2
<1>15. ASSUME crashes = 0, NEW j \in 1..(w + 1)
       PROVE  j <= n /\ FromEnd(log', j) = FromEnd(recent', j)
  <2>1. w <= LogMax /\ Spoilt = 0
    BY <1>13, <1>15 DEF Spoilt
  <2>2. \A i \in 1..w : i <= m /\ FromEnd(Whole, i) = FromEnd(recent, i)
    BY <1>15 DEF EndsInRecent
  <2>3. CASE j = 1
    <3>1. 1 <= n /\ 1 \in 1..LogMax /\ 1 + Spoilt <= n
      <4> HIDE DEF m, n, w
      <4> QED BY <1>4, <1>12, <2>1
    <3> QED BY <1>14, <2>3, <3>1
  <2>4. CASE j # 1
    <3> DEFINE i == j - 1
    <3>1. i \in 1..w /\ j = i + 1
      <4> HIDE DEF m, n, w
      <4> QED BY <1>12, <1>15, <2>4
    <3> HIDE DEF i
    <3>2. i <= m /\ FromEnd(Whole, i) = FromEnd(recent, i)
      BY <2>2, <3>1
    <3>3. j <= n /\ j \in 1..n /\ i \in 1..m
      <4> HIDE DEF m, n, w
      <4> QED BY <1>4, <1>12, <2>1, <3>1, <3>2
    <3>4. FromEnd(log', j) = FromEnd(Whole, i)
      BY <1>7, <3>1
    <3>5. FromEnd(recent', j) = FromEnd(recent, i)
      BY <1>3, <1>5, <3>1, <3>3
    <3> QED BY <3>2, <3>3, <3>4, <3>5
  <2> QED BY <2>3, <2>4
<1> HIDE DEF l, longer
<1> QED BY <1>1, <1>7, <1>8, <1>11, <1>14, <1>15 DEF EndsInRecent

(* The step leaves the log as it will be, and the recent readings.         *)
LEMMA EndStays ==
  ASSUME EndsInRecent, Whole' = Whole, UNCHANGED <<recent, crashes>>,
         recent # << >> /\ pc' # "prune" => Len(Whole) <= LogMax,
         recent # << >> /\ pc' # "rewrite" => ~CutLine'
  PROVE  EndsInRecent'
BY DEF EndsInRecent, Spoilt, FromEnd

LEMMA RewriteWhole == ASSUME PollOK, LogOK, RewriteLine PROVE Whole' = Whole
<1>1. /\ pc = "rewrite" /\ pc' = pc /\ rest # << >> /\ UNCHANGED <<recent, crashes>>
      /\ Head(rest) \in Line /\ Head(rest) # Cut
      /\ \/ CutLine /\ rest' = Tail(rest) /\ log' = Append(WholeLines, Head(rest))
         \/ ~CutLine /\ rest' = rest /\ log' = Append(WholeLines, Cut)
  BY RewriteEffect DEF history
<1>2. /\ WholeLines \in Seq(Line) /\ rest \in Seq(Line)
      /\ \A i \in 1..Len(WholeLines) : WholeLines[i] # Cut
  BY LogParts
<1>3. Whole' = Whole
  <2>1. CASE CutLine /\ rest' = Tail(rest) /\ log' = Append(WholeLines, Head(rest))
    <3>1. WholeLines' = log'
      BY <1>1, <1>2, <2>1, OneMoreLine DEF WholeLines, CutLine
    <3>2. Append(WholeLines, Head(rest)) \o Tail(rest) = WholeLines \o rest
      <4>1. /\ <<Head(rest)>> \in Seq(Line) /\ Tail(rest) \in Seq(Line)
            /\ <<Head(rest)>> \o Tail(rest) = rest
            /\ Append(WholeLines, Head(rest)) = WholeLines \o <<Head(rest)>>
        BY <1>1, <1>2, HeadTailProperties, AppendIsConcat
      <4> QED BY <1>2, <4>1, ConcatAssociative
    <3> QED BY <1>1, <2>1, <3>1, <3>2 DEF Whole
  <2>2. CASE ~CutLine /\ rest' = rest /\ log' = Append(WholeLines, Cut)
    <3>1. Cut \in Line
      BY DEF Line
    <3>2. CutLine' /\ Front(log') = WholeLines
      BY <1>2, <2>2, <3>1, AppendLast DEF CutLine
    <3> QED BY <1>1, <2>2, <3>2 DEF Whole, WholeLines
  <2> QED BY <1>1, <2>1, <2>2
<1> QED BY <1>3

LEMMA RewriteEnds ==
  ASSUME PollOK, LogOK, EndsInRecent, RewriteLine
  PROVE  EndsInRecent'
<1>1. pc = "rewrite" /\ pc' = pc /\ UNCHANGED <<recent, crashes>>
  BY RewriteEffect DEF history
<1> QED BY <1>1, RewriteWhole, EndStays, WholeParts

LEMMA PruneEnds ==
  ASSUME PollOK, LogOK, EndsInRecent, Prune
  PROVE  EndsInRecent'
<1>1. pc = "prune" /\ UNCHANGED <<recent, crashes>>
  BY DEF Prune, history
<1>2. /\ ~CutLine /\ Whole = log /\ log \in Seq(Line) /\ Len(log) \in Nat
  BY <1>1, LogParts, WholeParts DEF LogOK
<1>3. CASE Len(log) <= LogMax
  <2>1. pc' = "publish" /\ UNCHANGED <<rest, log>>
    BY <1>3 DEF Prune, Goto
  <2>2. Whole' = Whole /\ ~CutLine'
    BY <1>1, <1>2, <2>1 DEF Whole, WholeLines, CutLine
  <2> QED BY <1>1, <1>2, <1>3, <2>1, <2>2, EndStays
<1>4. CASE ~(Len(log) <= LogMax)
  <2>1. pc' = "rewrite" /\ rest' = LastOf(LogMax, log) /\ log' = << >>
    BY <1>4 DEF Prune, Goto
  <2>2. LogMax \in Nat /\ LogMax >= 1 /\ crashes \in Nat
    BY Numbers
  <2>3. /\ LastOf(LogMax, log) \in Seq(Line) /\ Len(LastOf(LogMax, log)) = LogMax
        /\ \A j \in 1..LogMax : FromEnd(LastOf(LogMax, log), j) = FromEnd(log, j)
    BY <1>2, <1>4, <2>2, LastOfEnd
  <2>4. Whole' = LastOf(LogMax, log)
    <3>1. WholeLines' = << >>
      BY <2>1 DEF WholeLines, CutLine
    <3>2. << >> \o LastOf(LogMax, log) = LastOf(LogMax, log)
      BY <2>3, ConcatEmptySeq
    <3> QED BY <2>1, <3>1, <3>2 DEF Whole
  <2>5. ASSUME NEW j \in 1..LogMax
        PROVE  /\ j + Spoilt <= Len(recent) => FromEnd(Whole', j) = FromEnd(recent, j)
               /\ crashes = 0 => j <= Len(recent) /\ FromEnd(Whole', j) = FromEnd(recent, j)
    <3>1. FromEnd(Whole', j) = FromEnd(log, j) /\ j \in 1..Len(log)
      BY <1>2, <1>4, <2>2, <2>3, <2>4
    <3> QED BY <1>2, <3>1 DEF EndsInRecent
  <2>6. Spoilt' = Spoilt
    BY <1>1 DEF Spoilt
  <2> QED BY <1>1, <2>1, <2>2, <2>3, <2>4, <2>5, <2>6 DEF EndsInRecent
<1> QED BY <1>3, <1>4

LEMMA StepEnds ==
  PollOK /\ LogOK /\ ReadingTold /\ EndsInRecent /\ [Next]_vars => EndsInRecent'
<1> SUFFICES ASSUME PollOK, LogOK, ReadingTold, EndsInRecent, [Next]_vars
             PROVE  EndsInRecent'
  OBVIOUS
<1> USE DEF Goto
<1>1. CASE AppendReading
  BY <1>1, AppendEnds
<1>2. CASE Prune
  BY <1>2, PruneEnds
<1>3. CASE RewriteLine
  BY <1>3, RewriteEnds
<1>4. CASE Crash
  <2>1. recent' = << >> /\ crashes' = crashes + 1
    BY <1>4 DEF Crash
  <2>2. Len(recent') = 0 /\ crashes' > 0 /\ Spoilt' = 1 /\ LogMax \in Nat
    BY <2>1, Numbers, EmptySeq DEF Spoilt
  <2> QED BY <2>1, <2>2, Numbers DEF EndsInRecent
<1>5. CASE Rewritten
  <2>1. /\ pc = "rewrite" /\ rest = << >> /\ pc' = "publish"
        /\ UNCHANGED <<log, recent, crashes>>
    BY <1>5 DEF Rewritten, history
  <2>2. Whole' = Whole
    <3>1. WholeLines \in Seq(Line) /\ WholeLines' = WholeLines
      BY <2>1, LogParts DEF WholeLines, CutLine
    <3>2. WholeLines \o << >> = WholeLines
      BY <3>1, ConcatEmptySeq
    <3> QED BY <2>1, <3>1, <3>2 DEF Whole
  <2>3. ~CutLine'
    BY <2>1 DEF LogOK, CutLine
  <2> QED BY <2>1, <2>2, <2>3, EndStays DEF EndsInRecent
<1>6. ASSUME UNCHANGED <<log, recent, crashes>>,
             \/ pc' = pc /\ rest' = rest
             \/ pc \notin {"rewrite", "prune"} /\ pc' \notin {"rewrite", "prune"}
      PROVE  EndsInRecent'
  <2>1. Whole' = Whole /\ CutLine' = CutLine
    BY <1>6 DEF Whole, WholeLines, CutLine
  <2> QED BY <1>6, <2>1, EndStays DEF EndsInRecent
<1>7. CASE Fetch
  <2>1. /\ UNCHANGED <<log, recent, crashes>>
        /\ pc \notin {"rewrite", "prune"} /\ pc' \notin {"rewrite", "prune"}
    BY <1>7, FetchEffect DEF Fetching
  <2> QED BY <1>6, <2>1
<1>8. CASE \/ OpenStatus \/ CloseStatus \/ Publish \/ LightningChanges \/ NoLightning
           \/ Heartbeat \/ Start
  <2>1. /\ UNCHANGED <<log, recent, crashes>>
        /\ pc \notin {"rewrite", "prune"} /\ pc' \notin {"rewrite", "prune"}
    BY <1>8 DEF OpenStatus, CloseStatus, Publish, LightningChanges, NoLightning, Heartbeat,
                Start, history
  <2> QED BY <1>6, <2>1
<1>9. CASE ApplySave \/ OpenMeteoChanges \/ PollStatus \/ ReadsOnly
  <2>1. UNCHANGED <<log, recent, crashes>> /\ pc' = pc /\ rest' = rest
    BY <1>9 DEF ApplySave, OpenMeteoChanges, PollStatus, ReadsOnly, pollVars, history
  <2> QED BY <1>6, <2>1
<1> QED BY <1>1, <1>2, <1>3, <1>4, <1>5, <1>7, <1>8, <1>9, NextCases DEF Others

LEMMA EndsInv == Spec => [](PollOK /\ LogOK /\ ReadingTold /\ EndsInRecent)
<1>1. Init => ReadingTold
  BY DEF Init, ReadingTold, Afterwards, CutLine
<1>2. Init => EndsInRecent
  <2> SUFFICES ASSUME Init PROVE EndsInRecent
    OBVIOUS
  <2>1. recent = << >> /\ Len(recent) = 0 /\ log = << >> /\ Len(log) = 0 /\ pc = "started"
    BY EmptySeq DEF Init
  <2>2. Whole = log /\ Spoilt \in {0, 1}
    BY <2>1 DEF Whole, WholeLines, CutLine, Spoilt
  <2> QED BY <2>1, <2>2, Numbers DEF EndsInRecent
<1> QED BY <1>1, <1>2, StepTold, StepEnds, TypeInv, PTL DEF Spec

LEMMA SuffixByEnd ==
  ASSUME NEW S, NEW s \in Seq(S), NEW t \in Seq(S), Len(s) <= Len(t),
         \A j \in 1..Len(s) : FromEnd(s, j) = FromEnd(t, j)
  PROVE  IsSuffix(s, t)
<1>1. Len(s) \in Nat /\ Len(t) \in Nat
  BY LenProperties
<1>2. ASSUME NEW u \in Seq(S), Len(s) <= Len(u), \A j \in 1..Len(s) : FromEnd(s, j) = FromEnd(u, j)
      PROVE  /\ Len(Reverse(u)) = Len(u)
             /\ SubSeq(Reverse(u), 1, Len(s)) \in Seq(S)
             /\ Len(SubSeq(Reverse(u), 1, Len(s))) = Len(s)
             /\ \A j \in 1..Len(s) : SubSeq(Reverse(u), 1, Len(s))[j] = FromEnd(s, j)
  <2> DEFINE r == Reverse(u)
  <2>1. Len(u) \in Nat /\ \A i \in 1..Len(u) : u[i] \in S
    BY <1>2, LenProperties, ElementOfSeq
  <2>2. ASSUME NEW i \in 1..Len(u) PROVE r[i] \in S /\ r[i] = FromEnd(u, i)
    <3>1. (Len(u) - i) + 1 \in 1..Len(u) /\ (Len(u) - i) + 1 = Len(u) + 1 - i
      BY <2>1
    <3> QED BY <2>1, <3>1 DEF Reverse, FromEnd
  <2>3. Len(r) = Len(u)
    <3>1. r = [i \in 1..Len(u) |-> r[i]]
      BY DEF Reverse
    <3>2. r \in [1..Len(u) -> S]
      <4> HIDE DEF r
      <4> QED BY <2>2, <3>1
    <3> HIDE DEF r
    <3>3. r \in Seq(S)
      BY <2>1, <3>2, SeqDef
    <3> QED BY <2>1, <3>2, <3>3, LenProperties
  <2> HIDE DEF r
  <2>4. \A i \in 1..Len(s) : r[i] \in S /\ r[i] = FromEnd(s, i)
    BY <1>1, <1>2, <2>1, <2>2
  <2>5. /\ SubSeq(r, 1, Len(s)) \in Seq(S)
        /\ Len(SubSeq(r, 1, Len(s))) = IF 1 <= Len(s) THEN Len(s) - 1 + 1 ELSE 0
        /\ \A i \in 1..(Len(s) - 1 + 1) : SubSeq(r, 1, Len(s))[i] = r[1 + i - 1]
    <3>1. 1 \in Int /\ Len(s) \in Int
      BY <1>1
    <3> QED BY <2>4, <3>1, SubSeqProperties
  <2>6. (IF 1 <= Len(s) THEN Len(s) - 1 + 1 ELSE 0) = Len(s) /\ Len(s) - 1 + 1 = Len(s)
    <3> DEFINE n == Len(s)
    <3>1. n \in Nat
      BY <1>1
    <3> HIDE DEF n
    <3>2. (IF 1 <= n THEN n - 1 + 1 ELSE 0) = n /\ n - 1 + 1 = n
      BY <3>1
    <3> QED BY <3>2 DEF n
  <2>7. Len(SubSeq(r, 1, Len(s))) = Len(s)
    BY <2>5, <2>6, Zenon
  <2>8. ASSUME NEW j \in 1..Len(s) PROVE SubSeq(r, 1, Len(s))[j] = FromEnd(s, j)
    <3>1. j \in 1..(Len(s) - 1 + 1) /\ 1 + j - 1 = j
      BY <1>1
    <3> QED BY <2>4, <2>5, <3>1
  <2> QED BY <2>3, <2>5, <2>7, <2>8 DEF r
<1>3. SubSeq(Reverse(s), 1, Len(s)) = SubSeq(Reverse(t), 1, Len(s))
  <2> DEFINE a == SubSeq(Reverse(s), 1, Len(s))
             b == SubSeq(Reverse(t), 1, Len(s))
  <2>1. /\ a \in Seq(S) /\ b \in Seq(S) /\ Len(a) = Len(s) /\ Len(b) = Len(s)
        /\ \A j \in 1..Len(s) : a[j] = b[j]
    BY <1>1, <1>2
  <2> HIDE DEF a, b
  <2>2. a = b
    BY <2>1, SeqEqual
  <2> QED BY <2>2 DEF a, b
<1>4. Len(Reverse(s)) = Len(s) /\ Len(Reverse(t)) = Len(t)
  BY <1>1, <1>2
<1> QED BY <1>3, <1>4 DEF IsSuffix, IsPrefix

(* After every poll the log ends in this daemon's latest readings and is   *)
(* no longer than it may be: for any length of the log, any readings, and  *)
(* deaths at any step, also halfway through a line.                        *)
THEOREM LogHoldsRecentHolds == Spec => []LogHoldsRecent
<1>1. PollOK /\ LogOK /\ EndsInRecent => LogHoldsRecent
  <2> SUFFICES ASSUME PollOK, LogOK, EndsInRecent, pc = "idle" PROVE LogHoldsRecent
    BY DEF LogHoldsRecent
  <2> DEFINE r == IF crashes > 0 /\ recent # << >> THEN Tail(recent) ELSE recent
             e == LastOf(LogMax, r)
  <2>1. /\ recent \in Seq(Reading) /\ Len(recent) \in Nat /\ (recent = << >> <=> Len(recent) = 0)
        /\ LogMax \in Nat /\ LogMax >= 1 /\ crashes \in Nat
        /\ log \in Seq(Line) /\ Len(log) \in Nat
    BY Numbers, LenProperties, EmptySeq DEF PollOK
  <2>2. recent # << >> => Whole = log
    BY LogParts, WholeParts DEF EndsInRecent
  <2>3. /\ r \in Seq(Reading) /\ Len(r) \in Nat
        /\ \A j \in 1..Len(r) : /\ j + Spoilt <= Len(recent)
                                /\ FromEnd(r, j) = FromEnd(recent, j)
    <3>1. CASE crashes > 0 /\ recent # << >>
      <4>1. /\ Tail(recent) \in Seq(Reading) /\ Len(Tail(recent)) = Len(recent) - 1
            /\ \A i \in 1..Len(Tail(recent)) : Tail(recent)[i] = recent[i + 1]
        BY <2>1, <3>1, HeadTailProperties
      <4>2. Len(Tail(recent)) \in Nat
        BY <4>1, LenProperties
      <4>3. ASSUME NEW j \in 1..Len(Tail(recent))
            PROVE  j + 1 <= Len(recent) /\ FromEnd(Tail(recent), j) = FromEnd(recent, j)
        <5>1. /\ Len(Tail(recent)) + 1 - j \in 1..Len(Tail(recent))
              /\ (Len(Tail(recent)) + 1 - j) + 1 = Len(recent) + 1 - j
          BY <2>1, <4>1, <4>2
        <5> QED BY <2>1, <4>1, <4>2, <5>1 DEF FromEnd
      <4> QED BY <3>1, <4>1, <4>2, <4>3 DEF Spoilt
    <3>2. CASE crashes = 0
      BY <2>1, <3>2 DEF Spoilt
    <3>3. CASE recent = << >>
      BY <2>1, <3>3
    <3> QED BY <2>1, <3>1, <3>2, <3>3
  <2> HIDE DEF r
  <2>4. /\ e \in Seq(Reading)
        /\ Len(e) = IF Len(r) <= LogMax THEN Len(r) ELSE LogMax
        /\ \A j \in 1..Len(e) : FromEnd(e, j) = FromEnd(r, j)
    BY <2>1, <2>3, LastOfEnd
  <2>5. e \in Seq(Line)
    BY <2>4, SeqMonotonic DEF Line
  <2> HIDE DEF e
  <2>6. ASSUME NEW j \in 1..Len(e)
        PROVE  j <= Len(log) /\ FromEnd(e, j) = FromEnd(log, j)
    <3>1. j \in 1..LogMax /\ j \in 1..Len(r)
      BY <2>1, <2>3, <2>4
    <3>2. j + Spoilt <= Len(recent) /\ FromEnd(r, j) = FromEnd(recent, j)
      BY <2>3, <3>1
    <3>3. recent # << >>
      <4>1. Spoilt \in {0, 1}
        BY DEF Spoilt
      <4> QED BY <2>1, <3>1, <3>2, <4>1
    <3> QED BY <2>2, <2>4, <3>1, <3>2, <3>3 DEF EndsInRecent
  <2>7. Len(e) <= Len(log)
    <3>1. Len(e) \in Nat
      BY <2>1, <2>3, <2>4
    <3>2. Len(e) > 0 => Len(e) \in 1..Len(e)
      BY <3>1
    <3> QED BY <2>1, <2>6, <3>1, <3>2
  <2>8. IsSuffix(e, log)
    BY <2>1, <2>5, <2>6, <2>7, SuffixByEnd
  <2>9. recent # << >> => Len(log) <= LogMax
    BY <2>2 DEF EndsInRecent
  <2> QED BY <2>8, <2>9 DEF LogHoldsRecent, e, r
<1> QED BY <1>1, EndsInv, PTL

-----------------------------------------------------------------------------
(***************************************************************************)
(* What the dashboard reads.                                               *)
(***************************************************************************)

(* Induction over the naturals, from the well-foundedness of inclusion     *)
(* among finite sets: the number that would be missing from S first.       *)
LEMMA Induction ==
  ASSUME NEW S, 0 \in S, \A n \in Nat : n \in S => n + 1 \in S
  PROVE  Nat \subseteq S
<1> SUFFICES ASSUME NEW k \in Nat, k \notin S PROVE FALSE
  OBVIOUS
<1> DEFINE T == {0..n : n \in Nat \ S}
<1>1. IsWellFoundedOn(StrictSubsetOrdering(Nat), FiniteSubsetsOf(Nat))
  BY FS_StrictSubsetOrderingWellFounded
<1>2. \A n \in Nat : 0..n \in FiniteSubsetsOf(Nat)
  BY FS_Interval DEF FiniteSubsetsOf
<1>3. T \subseteq FiniteSubsetsOf(Nat) /\ T # {}
  BY <1>2
<1>4. PICK x \in T : \A y \in T : <<y, x>> \notin StrictSubsetOrdering(Nat)
  <2> HIDE DEF T
  <2> QED BY <1>1, <1>3, WFMin
<1>5. PICK n \in Nat \ S : x = 0..n
  BY <1>4
<1>6. n - 1 \in Nat /\ n - 1 \notin S /\ 0..(n - 1) \in T
  BY <1>5
<1>7. 0..(n - 1) \subseteq 0..n /\ n \in 0..n /\ n \notin 0..(n - 1)
  BY <1>5
<1>8. <<0..(n - 1), 0..n>> \in StrictSubsetOrdering(Nat)
  BY <1>7 DEF StrictSubsetOrdering
<1> QED BY <1>4, <1>5, <1>6, <1>8

LEMMA AppendIs ==
  ASSUME NEW S, NEW s \in Seq(S), NEW t \in Seq(S), NEW e \in S,
         Len(t) = Len(s) + 1, t[Len(s) + 1] = e, \A i \in 1..Len(s) : t[i] = s[i]
  PROVE  t = Append(s, e)
<1> DEFINE u == Append(s, e)
<1>1. /\ u \in Seq(S) /\ Len(u) = Len(s) + 1 /\ u[Len(s) + 1] = e
      /\ \A i \in 1..Len(s) : u[i] = s[i]
  BY AppendProperties
<1>2. Len(s) \in Nat
  BY LenProperties
<1> HIDE DEF u
<1>3. \A i \in 1..Len(t) : t[i] = u[i]
  BY <1>1, <1>2
<1>4. t = u
  BY <1>1, <1>3, SeqEqual
<1> QED BY <1>4 DEF u

Parses == Reading \cup {Mixed}

(* Of lines all but one of which parse, that one is dropped.               *)
LEMMA ParsedWithout ==
  ASSUME NEW lines \in Seq(Line \cup {Mixed}), NEW g \in 1..(Len(lines) + 1),
         \A x \in 1..Len(lines) : x # g <=> lines[x] \in Parses
  PROVE  /\ Parsed(lines) \in Seq(Parses)
         /\ Len(Parsed(lines)) = IF g <= Len(lines) THEN Len(lines) - 1 ELSE Len(lines)
         /\ \A x \in 1..Len(Parsed(lines)) :
              Parsed(lines)[x] = IF x < g THEN lines[x] ELSE lines[x + 1]
<1> DEFINE L == Len(lines)
           size(n) == IF g <= n THEN n - 1 ELSE n
           kept(x) == IF x < g THEN lines[x] ELSE lines[x + 1]
           first == [n \in 0..L |-> [x \in 1..size(n) |-> kept(x)]]
           IsFirst(s, n) == /\ s \in Seq(Parses) /\ Len(s) = size(n)
                            /\ \A x \in 1..size(n) : s[x] = kept(x)
           Loop(b) == b = [i \in 0..L |->
                             IF i = 0 THEN << >>
                             ELSE IF lines[i] \in Parses THEN Append(b[i - 1], lines[i])
                             ELSE b[i - 1]]
<1>1. L \in Nat /\ g \in Nat /\ g >= 1 /\ g <= L + 1
  BY LenProperties
<1>2. \A n \in 0..L : size(n) \in Nat /\ \A x \in 1..size(n) : kept(x) \in Parses
  <2> SUFFICES ASSUME NEW n \in 0..L
               PROVE  size(n) \in Nat /\ \A x \in 1..size(n) : kept(x) \in Parses
    OBVIOUS
  <2>1. size(n) \in Nat
    BY <1>1
  <2>2. ASSUME NEW x \in 1..size(n) PROVE kept(x) \in Parses
    <3>1. /\ x < g => x \in 1..L /\ x # g
          /\ ~(x < g) => x + 1 \in 1..L /\ x + 1 # g
      <4> HIDE DEF L
      <4> QED BY <1>1
    <3> QED BY <3>1
  <2> QED BY <2>1, <2>2
<1>3. \A n \in 0..L : IsFirst(first[n], n)
  <2> SUFFICES ASSUME NEW n \in 0..L PROVE IsFirst(first[n], n)
    OBVIOUS
  <2> DEFINE s == [x \in 1..size(n) |-> kept(x)]
  <2>1. first[n] = s
    OBVIOUS
  <2>2. size(n) \in Nat /\ s \in [1..size(n) -> Parses] /\ \A x \in 1..size(n) : s[x] = kept(x)
    <3>1. size(n) \in Nat /\ \A x \in 1..size(n) : kept(x) \in Parses
      BY <1>2
    <3> HIDE DEF size, kept
    <3> QED BY <3>1
  <2> HIDE DEF s, size
  <2>3. s \in Seq(Parses) /\ Len(s) = size(n)
    BY <2>2, SeqDef, LenProperties
  <2> HIDE DEF first
  <2> QED BY <2>1, <2>2, <2>3
<1>4. ASSUME NEW n \in 0..L, NEW s, NEW t, IsFirst(s, n), IsFirst(t, n) PROVE s = t
  <2> HIDE DEF size, kept
  <2>1. /\ s \in Seq(Parses) /\ t \in Seq(Parses) /\ Len(s) = Len(t)
        /\ \A x \in 1..Len(s) : s[x] = t[x]
    BY <1>4
  <2> QED BY <2>1, SeqEqual
(* A line more.                                                            *)
<1>5. ASSUME NEW n \in 1..L, NEW s, IsFirst(s, n - 1)
      PROVE  IsFirst(IF lines[n] \in Parses THEN Append(s, lines[n]) ELSE s, n)
  <2>1. n - 1 \in 0..L /\ n \in 0..L /\ n \in Nat /\ n >= 1
    BY <1>1
  <2>2. CASE n = g
    <3>1. lines[n] \notin Parses /\ size(n) = size(n - 1)
      BY <1>1, <2>1, <2>2
    <3> HIDE DEF size, kept
    <3> QED BY <1>5, <3>1
  <2>3. CASE n # g
    <3>1. lines[n] \in Parses
      BY <2>3
    <3>2. /\ size(n) = size(n - 1) + 1 /\ size(n - 1) \in Nat /\ kept(size(n)) = lines[n]
      <4> HIDE DEF L
      <4> QED BY <1>1, <2>1, <2>3
    <3> HIDE DEF size, kept
    <3> DEFINE t == Append(s, lines[n])
    <3>3. /\ t \in Seq(Parses) /\ Len(t) = size(n)
          /\ \A x \in 1..size(n - 1) : t[x] = kept(x)
          /\ t[size(n)] = kept(size(n))
      <4>1. /\ s \in Seq(Parses) /\ Len(s) = size(n - 1)
            /\ \A x \in 1..size(n - 1) : s[x] = kept(x)
        BY <1>5
      <4> QED BY <3>1, <3>2, <4>1, AppendProperties
    <3> HIDE DEF t
    <3>4. \A x \in 1..size(n) : x \in 1..size(n - 1) \/ x = size(n)
      BY <3>2
    <3>5. IsFirst(t, n)
      BY <3>3, <3>4
    <3> QED BY <3>1, <3>5 DEF t
  <2> QED BY <2>2, <2>3
<1>6. IsFirst(<< >>, 0)
  <2>1. size(0) = 0 /\ << >> \in Seq(Parses) /\ Len(<< >>) = 0
    BY <1>1, EmptySeq
  <2> HIDE DEF size, kept
  <2> QED BY <2>1
<1> HIDE DEF IsFirst
<1>7. Loop(first)
  <2>1. ASSUME NEW i \in 0..L
        PROVE  first[i] = IF i = 0 THEN << >>
                          ELSE IF lines[i] \in Parses THEN Append(first[i - 1], lines[i])
                          ELSE first[i - 1]
    <3> HIDE DEF first
    <3>1. CASE i = 0
      BY <1>3, <1>4, <1>6, <3>1
    <3>2. CASE i # 0
      <4>1. i \in 1..L /\ i - 1 \in 0..L
        BY <1>1, <3>2
      <4>2. IsFirst(IF lines[i] \in Parses THEN Append(first[i - 1], lines[i]) ELSE first[i - 1], i)
        BY <1>3, <1>5, <4>1
      <4>3. IsFirst(first[i], i)
        BY <1>3
      <4>4. first[i] = IF lines[i] \in Parses THEN Append(first[i - 1], lines[i]) ELSE first[i - 1]
        BY <1>4, <4>2, <4>3
      <4> QED BY <3>2, <4>4
    <3> QED BY <3>1, <3>2
  <2>2. first = [i \in 0..L |-> first[i]]
    OBVIOUS
  <2> HIDE DEF first
  <2> QED BY <2>1, <2>2
<1>8. ASSUME NEW b, Loop(b) PROVE IsFirst(b[L], L)
  <2> DEFINE S == {n \in Nat : n <= L => IsFirst(b[n], n)}
  <2>1. 0 \in S
    <3>1. b[0] = << >>
      BY <1>1, <1>8
    <3> QED BY <1>6, <3>1
  <2>2. ASSUME NEW n \in Nat, n \in S PROVE n + 1 \in S
    <3> SUFFICES ASSUME n + 1 <= L PROVE IsFirst(b[n + 1], n + 1)
      OBVIOUS
    <3> DEFINE m == n + 1
    <3>1. m \in 0..L /\ m \in 1..L /\ m # 0 /\ m - 1 = n /\ n <= L
      BY <1>1
    <3> HIDE DEF m
    <3>2. b[m] = IF lines[m] \in Parses THEN Append(b[n], lines[m]) ELSE b[n]
      BY <1>8, <3>1
    <3>3. IsFirst(b[n], m - 1)
      BY <2>2, <3>1
    <3>4. IsFirst(b[m], m)
      BY <1>5, <3>1, <3>2, <3>3
    <3> QED BY <3>4 DEF m
  <2> HIDE DEF S
  <2>3. Nat \subseteq S
    BY <2>1, <2>2, Induction
  <2>4. L \in S
    BY <1>1, <2>3
  <2> QED BY <1>1, <2>4 DEF S
<1> DEFINE points == CHOOSE b : Loop(b)
<1>9. Loop(points)
  <2> HIDE DEF Loop
  <2> QED BY <1>7
<1>10. Parsed(lines) = points[L]
  BY DEF Parsed, Parses
<1> HIDE DEF points, Loop
<1>11. IsFirst(Parsed(lines), L)
  BY <1>8, <1>9, <1>10
<1> QED BY <1>11 DEF IsFirst

(* What a read has got: as long as no rewrite overtook it the first lines  *)
(* of the log, as it was; and after one, which drops a single line, the    *)
(* first readings, the seam, and readings that lie further on.             *)
Seamed(a) ==
  \A x \in 1..Len(reader.got) :
    IF x <= a THEN x \in 1..Len(recent) /\ reader.got[x] = recent[x]
    ELSE \/ x = a + 1 /\ reader.got[x] \in {Mixed, Garbled}
         \/ /\ reader.at - Len(reader.got) + x \in 1..Len(recent)
            /\ reader.got[x] = recent[reader.at - Len(reader.got) + x]

ReadOK ==
  /\ reader.at = 0 => reader = NotReading
  /\ crashes = 0 /\ reader.at > 0 =>
       /\ AtLog
       /\ reader.torn # "past" => Len(reader.got) = reader.at - 1
       /\ reader.torn = "no" =>
            \A x \in 1..Len(reader.got) :
              x <= Len(WholeLines) /\ reader.got[x] = WholeLines[x]
       /\ reader.torn # "no" =>
            pc \in {"rewrite", "publish"} /\ Len(recent) = Len(Whole) + 1
       /\ reader.torn = "now" =>
            \A x \in 1..Len(reader.got) :
              x \in 1..Len(recent) /\ reader.got[x] = recent[x]
       /\ reader.torn = "past" =>
            /\ Len(reader.got) <= reader.at /\ reader.at <= Len(recent)
            /\ \E a \in 0..Len(reader.got) : Seamed(a)

(* While no daemon has died, a line of the log is the reading that stands  *)
(* as far from the end.                                                    *)
LEMMA LinesAreRecent ==
  ASSUME PollOK, LogOK, EndsInRecent, crashes = 0
  PROVE  /\ recent \in Seq(Reading) /\ Len(recent) \in Nat
         /\ Len(WholeLines) \in Nat /\ Len(Whole) \in Nat
         /\ Len(WholeLines) <= Len(Whole) /\ Len(Whole) <= Len(recent)
         /\ \A i \in 1..Len(WholeLines) :
              /\ Len(recent) - Len(Whole) + i \in 1..Len(recent)
              /\ WholeLines[i] = recent[Len(recent) - Len(Whole) + i]
<1> DEFINE R == Len(recent)  W == Len(Whole)  F == Len(WholeLines)
<1>1. recent \in Seq(Reading) /\ R \in Nat
  BY LenProperties DEF PollOK
<1>2. /\ WholeLines \in Seq(Line) /\ Whole \in Seq(Line) /\ W \in Nat /\ F \in Nat /\ F <= W
      /\ \A i \in 1..F : Whole[i] = WholeLines[i]
  <2>1. WholeLines \in Seq(Line) /\ rest \in Seq(Line) /\ Whole \in Seq(Line)
    BY LogParts, WholeParts
  <2>2. F \in Nat /\ Len(rest) \in Nat /\ W \in Nat
    BY <2>1, LenProperties
  <2>3. CASE pc = "rewrite"
    <3>1. Whole = WholeLines \o rest
      BY <2>3, WholeParts
    <3>2. /\ Len(WholeLines \o rest) = Len(WholeLines) + Len(rest)
          /\ \A i \in 1..(Len(WholeLines) + Len(rest)) :
               (WholeLines \o rest)[i] = IF i <= Len(WholeLines) THEN WholeLines[i]
                                       ELSE rest[i - Len(WholeLines)]
      BY <2>1, ConcatProperties
    <3> QED BY <2>1, <2>2, <3>1, <3>2
  <2>4. CASE pc # "rewrite"
    BY <2>1, <2>2, <2>4, WholeParts
  <2> QED BY <2>3, <2>4
<1>3. W <= R
  <2>1. CASE W = 0
    BY <1>1, <2>1
  <2>2. CASE W # 0
    <3>1. W \in 1..W
      BY <1>2, <2>2
    <3> QED BY <3>1 DEF EndsInRecent
  <2> QED BY <2>1, <2>2
<1>4. ASSUME NEW i \in 1..F
      PROVE  R - W + i \in 1..R /\ WholeLines[i] = recent[R - W + i]
  <2> DEFINE j == W + 1 - i
  <2>1. j \in 1..W /\ W + 1 - j = i /\ R + 1 - j = R - W + i /\ i <= W /\ i >= 1
    BY <1>1, <1>2
  <2> HIDE DEF j
  <2>2. j <= R /\ FromEnd(Whole, j) = FromEnd(recent, j)
    BY <2>1 DEF EndsInRecent
  <2>3. R - W + i \in 1..R
    <3> HIDE DEF R, W
    <3> QED BY <1>1, <1>2, <1>3, <2>1
  <2> QED BY <1>2, <2>1, <2>2, <2>3 DEF FromEnd
<1> QED BY <1>1, <1>2, <1>3, <1>4

(* The log goes on behind the lines that were read.                        *)
LEMMA ReadStays ==
  ASSUME ReadOK, reader' = reader, crashes' = crashes,
         crashes = 0 /\ reader.at > 0 =>
           /\ pc' \in {"append", "prune", "rewrite", "publish"}
           /\ reader.torn = "no" =>
                \A x \in Nat : x <= Len(WholeLines) =>
                  /\ x <= Len(WholeLines')
                  /\ x \in 1..Len(WholeLines) => WholeLines'[x] = WholeLines[x]
           /\ reader.torn # "no" =>
                pc' \in {"rewrite", "publish"} /\ recent' = recent /\ Len(Whole') = Len(Whole),
         Len(reader.got) \in Nat, Len(WholeLines) \in Nat
  PROVE  ReadOK'
<1>1. reader'.at = 0 => reader' = NotReading
  BY DEF ReadOK
<1>2. ASSUME crashes = 0, reader.at > 0, reader.torn = "no"
      PROVE  \A x \in 1..Len(reader.got) :
               x <= Len(WholeLines') /\ reader.got[x] = WholeLines'[x]
  <2>1. \A x \in 1..Len(reader.got) : x <= Len(WholeLines) /\ reader.got[x] = WholeLines[x]
    BY <1>2 DEF ReadOK
  <2>2. \A x \in 1..Len(reader.got) : x \in Nat /\ x >= 1
    OBVIOUS
  <2>3. \A x \in 1..Len(reader.got) : x \in 1..Len(WholeLines)
    BY <2>1, <2>2
  <2> QED BY <1>2, <2>1, <2>2, <2>3
<1>3. CASE ~(crashes = 0 /\ reader.at > 0)
  BY <1>1, <1>3 DEF ReadOK
<1>4. CASE crashes = 0 /\ reader.at > 0 /\ reader.torn = "no"
  BY <1>1, <1>2, <1>4 DEF ReadOK, AtLog
<1>5. CASE crashes = 0 /\ reader.at > 0 /\ reader.torn # "no"
  BY <1>1, <1>5 DEF ReadOK, AtLog, Seamed
<1> QED BY <1>3, <1>4, <1>5

LEMMA AppendRead ==
  ASSUME PollOK, LogOK, ReaderOK, ReadOK, AppendReading
  PROVE  ReadOK'
<1>1. /\ pc = "append" /\ pc' = "prune" /\ reader' = reader /\ crashes' = crashes
      /\ log' = Append(WholeLines, IF CutLine THEN Garbled ELSE snap.temp)
  BY DEF AppendReading, Goto, CutLine, WholeLines
<1> DEFINE l == IF CutLine THEN Garbled ELSE snap.temp
<1>2. l \in Line /\ WholeLines \in Seq(Line)
  BY LogParts DEF PollOK, Snapshot, Line
<1>3. WholeLines' = log'
  <2>1. LogOK'
    BY AppendReadingType
  <2> QED BY <1>1, <2>1 DEF LogOK, WholeLines
<1> HIDE DEF l
<1>4. \A x \in Nat : x <= Len(WholeLines) =>
        x <= Len(WholeLines') /\ (x \in 1..Len(WholeLines) => WholeLines'[x] = WholeLines[x])
  <2>1. /\ Len(log') = Len(WholeLines) + 1
        /\ \A x \in 1..Len(WholeLines) : log'[x] = WholeLines[x]
    BY <1>1, <1>2, AppendLast DEF l
  <2>2. Len(WholeLines) \in Nat
    BY <1>2, LenProperties
  <2> QED BY <1>3, <2>1, <2>2
<1>5. Len(reader.got) \in Nat
  BY LenProperties DEF ReaderOK
<1>6. reader.at > 0 /\ crashes = 0 => reader.torn = "no"
  BY <1>1 DEF ReadOK
<1> QED BY <1>1, <1>4, <1>5, <1>6, ReadStays

LEMMA PruneRead ==
  ASSUME PollOK, LogOK, ReaderOK, EndsInRecent, ReadOK, Prune
  PROVE  ReadOK'
<1>1. /\ pc = "prune" /\ UNCHANGED <<recent, crashes>>
      /\ reader.at > 0 /\ crashes = 0 => reader.torn = "no"
  BY DEF Prune, history, ReadOK
<1>2. /\ ~CutLine /\ Whole = log /\ WholeLines = log /\ log \in Seq(Line) /\ Len(log) \in Nat
  BY <1>1, LogParts, WholeParts DEF LogOK
<1>3. Len(reader.got) \in Nat
  BY LenProperties DEF ReaderOK
<1>4. CASE Len(log) <= LogMax
  <2>1. pc' = "publish" /\ UNCHANGED <<rest, log, reader>>
    BY <1>4 DEF Prune, Goto
  <2>2. WholeLines' = WholeLines
    BY <2>1 DEF WholeLines, CutLine
  <2> QED BY <1>1, <1>3, <2>1, <2>2, ReadStays
<1>5. CASE ~(Len(log) <= LogMax)
  <2>1. /\ pc' = "rewrite" /\ rest' = LastOf(LogMax, log) /\ log' = << >>
        /\ reader' = IF reader.at = 0 THEN reader ELSE [reader EXCEPT !.torn = "now"]
    BY <1>5 DEF Prune, Goto, Tear
  <2>2. CASE reader.at = 0
    BY <2>1, <2>2 DEF ReadOK
  <2>3. CASE reader.at # 0 /\ crashes # 0
    <3>1. reader'.at = reader.at
      BY <2>1 DEF ReaderOK
    <3> QED BY <1>1, <2>3, <3>1 DEF ReadOK
  <2>4. CASE reader.at # 0 /\ crashes = 0
    <3>1. reader.at > 0 /\ LogMax \in Nat /\ LogMax >= 1
      BY <2>4, Numbers DEF ReaderOK
    <3>2. /\ reader'.at = reader.at /\ reader'.got = reader.got /\ reader'.torn = "now"
      BY <2>1, <2>4 DEF ReaderOK
    <3>3. /\ Len(log) <= Len(recent) /\ Len(recent) \in Nat
          /\ \A i \in 1..Len(log) : /\ Len(recent) - Len(log) + i \in 1..Len(recent)
                                    /\ log[i] = recent[Len(recent) - Len(log) + i]
      BY <1>2, <2>4, LinesAreRecent
    <3>4. Len(recent) = LogMax + 1 /\ Len(log) = LogMax + 1
      <4>1. Len(recent) <= LogMax + 1
        BY DEF PollOK
      <4> QED BY <1>2, <1>5, <3>1, <3>3, <4>1
    <3>5. \A i \in 1..Len(log) : i \in 1..Len(recent) /\ log[i] = recent[i]
      <4>1. \A i \in 1..Len(log) : Len(recent) - Len(log) + i = i
        BY <3>1, <3>4
      <4> QED BY <3>3, <4>1
    <3>6. /\ Len(reader.got) = reader.at - 1
          /\ \A x \in 1..Len(reader.got) : x <= Len(log) /\ reader.got[x] = log[x]
      BY <1>1, <1>2, <2>4, <3>1 DEF ReadOK
    <3>7. \A x \in 1..Len(reader.got) : x \in 1..Len(recent) /\ reader.got[x] = recent[x]
      <4>1. \A x \in 1..Len(reader.got) : x \in 1..Len(log)
        BY <1>2, <1>3, <3>6
      <4> QED BY <3>5, <3>6, <4>1
    <3>8. Len(Whole') = LogMax
      <4>1. WholeLines' = << >>
        BY <2>1 DEF WholeLines, CutLine
      <4>2. /\ LastOf(LogMax, log) \in Seq(Line) /\ Len(LastOf(LogMax, log)) = LogMax
        BY <1>2, <1>5, <3>1, LastOfEnd
      <4>3. << >> \o LastOf(LogMax, log) = LastOf(LogMax, log)
        BY <4>2, ConcatEmptySeq
      <4> QED BY <2>1, <4>1, <4>2, <4>3 DEF Whole
    <3> QED BY <1>1, <2>1, <3>1, <3>2, <3>4, <3>6, <3>7, <3>8 DEF ReadOK, AtLog
  <2> QED BY <2>2, <2>3, <2>4
<1> QED BY <1>4, <1>5

LEMMA RewriteRead ==
  ASSUME PollOK, LogOK, ReaderOK, ReadOK, RewriteLine
  PROVE  ReadOK'
<1>1. /\ pc = "rewrite" /\ pc' = pc /\ rest # << >> /\ reader' = reader /\ UNCHANGED <<recent, crashes>>
      /\ Head(rest) \in Line /\ Head(rest) # Cut
      /\ \/ CutLine /\ rest' = Tail(rest) /\ log' = Append(WholeLines, Head(rest))
         \/ ~CutLine /\ rest' = rest /\ log' = Append(WholeLines, Cut)
  <2>1. reader' = reader
    BY DEF RewriteLine
  <2> QED BY <2>1, RewriteEffect DEF history
<1>2. /\ WholeLines \in Seq(Line) /\ rest \in Seq(Line)
      /\ \A i \in 1..Len(WholeLines) : WholeLines[i] # Cut
  BY LogParts
<1>3. \/ WholeLines' = WholeLines
      \/ WholeLines' = Append(WholeLines, Head(rest))
  <2>1. CASE CutLine /\ log' = Append(WholeLines, Head(rest))
    BY <1>1, <1>2, <2>1, OneMoreLine DEF WholeLines, CutLine
  <2>2. CASE ~CutLine /\ log' = Append(WholeLines, Cut)
    <3>1. Cut \in Line
      BY DEF Line
    <3>2. CutLine' /\ Front(log') = WholeLines
      BY <1>2, <2>2, <3>1, AppendLast DEF CutLine
    <3> QED BY <3>2 DEF WholeLines
  <2> QED BY <1>1, <2>1, <2>2
<1>4. Len(WholeLines) \in Nat /\ Len(reader.got) \in Nat
  BY <1>2, LenProperties DEF ReaderOK
<1>5. \A x \in Nat : x <= Len(WholeLines) =>
        x <= Len(WholeLines') /\ (x \in 1..Len(WholeLines) => WholeLines'[x] = WholeLines[x])
  <2>1. /\ Len(Append(WholeLines, Head(rest))) = Len(WholeLines) + 1
        /\ \A x \in 1..Len(WholeLines) : Append(WholeLines, Head(rest))[x] = WholeLines[x]
    BY <1>1, <1>2, AppendLast
  <2> QED BY <1>3, <1>4, <2>1
<1>6. Whole' = Whole
  BY RewriteWhole
<1> QED BY <1>1, <1>4, <1>5, <1>6, ReadStays

(* A line more is read.                                                    *)
LEMMA LineRead ==
  ASSUME PollOK, LogOK, ReaderOK, EndsInRecent, ReadOK, ReadLine
  PROVE  ReadOK'
<1>1. /\ UNCHANGED <<pc, recent, crashes>> /\ Whole' = Whole /\ WholeLines' = WholeLines
      /\ reader.at \in 1..Len(WholeLines)
  BY DEF ReadLine, More, pollVars, history, Whole, WholeLines, CutLine
<1> DEFINE got == reader.got  l == log[reader.at]
<1>2. /\ got \in Seq(Line \cup {Mixed}) /\ Len(got) \in Nat /\ reader.at \in Nat
  BY LenProperties DEF ReaderOK
<1>3. /\ reader'.at = reader.at + 1 /\ reader'.got = Append(got, l)
      /\ reader'.torn = IF reader.torn = "no" THEN "no" ELSE "past"
  BY DEF ReadLine, ReaderOK
<1>4. CASE crashes # 0
  <2>1. reader'.at # 0
    BY <1>2, <1>3
  <2> QED BY <1>1, <1>4, <2>1 DEF ReadOK
<1>5. CASE crashes = 0
  <2>1. reader.at > 0 /\ reader'.at > 0 /\ reader'.at # 0
    BY <1>1, <1>2, <1>3
  <2>2. /\ WholeLines \in Seq(Line) /\ l = WholeLines[reader.at] /\ l \in Line
    <3>1. WholeLines \in Seq(Line) /\ log \in Seq(Line) /\ Len(log) \in Nat
      BY LogParts
    <3>2. reader.at \in 1..Len(log) /\ log[reader.at] = WholeLines[reader.at]
      <4>1. CASE CutLine
        <5>1. log # << >> /\ Len(WholeLines) = Len(log) - 1 /\ WholeLines = Front(log)
          BY <4>1, LogParts DEF WholeLines
        <5>2. \A i \in 1..(Len(log) - 1) : Front(log)[i] = log[i]
          BY <3>1, <5>1, FrontProperties
        <5>3. reader.at \in 1..(Len(log) - 1)
          BY <1>1, <5>1
        <5> QED BY <3>1, <5>1, <5>2, <5>3
      <4>2. CASE ~CutLine
        BY <1>1, <4>2, LogParts
      <4> QED BY <4>1, <4>2
    <3>3. log[reader.at] \in Line
      BY <3>1, <3>2, ElementOfSeq
    <3> QED BY <3>1, <3>2, <3>3
  <2> HIDE DEF l, got
  <2>3. /\ Len(reader'.got) = Len(got) + 1
        /\ \A x \in 1..Len(got) : reader'.got[x] = got[x]
        /\ reader'.got[Len(got) + 1] = l
        /\ \A x \in 1..(Len(got) + 1) : x \in 1..Len(got) \/ x = Len(got) + 1
    <3>1. /\ Len(Append(got, l)) = Len(got) + 1
          /\ \A x \in 1..Len(got) : Append(got, l)[x] = got[x]
          /\ Append(got, l)[Len(got) + 1] = l
      BY <1>2, <2>2, AppendProperties
    <3> QED BY <1>2, <1>3, <3>1
  <2>4. /\ AtLog'
        /\ reader.torn # "past" => Len(got) = reader.at - 1
        /\ reader.torn = "no" => \A x \in 1..Len(got) : x <= Len(WholeLines) /\ got[x] = WholeLines[x]
        /\ reader.torn # "no" => pc \in {"rewrite", "publish"} /\ Len(recent) = Len(Whole) + 1
        /\ reader.torn = "now" => \A x \in 1..Len(got) : x \in 1..Len(recent) /\ got[x] = recent[x]
        /\ reader.torn = "past" => Len(got) <= reader.at /\ \E a \in 0..Len(got) : Seamed(a)
    BY <1>1, <1>5, <2>1 DEF ReadOK, AtLog, got
  <2>5. CASE reader.torn = "no"
    <3>1. Len(got) + 1 = reader.at /\ Len(reader'.got) = reader'.at - 1
      BY <1>2, <1>3, <2>3, <2>4, <2>5
    <3>2. \A x \in 1..Len(reader'.got) : x <= Len(WholeLines) /\ reader'.got[x] = WholeLines[x]
      <4>1. reader.at <= Len(WholeLines)
        BY <1>1
      <4> QED BY <2>2, <2>3, <2>4, <2>5, <3>1, <4>1
    <3> QED BY <1>1, <1>3, <2>1, <2>4, <2>5, <3>1, <3>2 DEF ReadOK
  <2>6. CASE reader.torn # "no"
    <3> DEFINE d == reader.at - Len(got)
    <3>1. reader.at + 1 \in 1..Len(recent) /\ l = recent[reader.at + 1] /\ Len(recent) \in Nat
      <4>1. /\ Len(recent) - Len(Whole) + reader.at \in 1..Len(recent)
            /\ WholeLines[reader.at] = recent[Len(recent) - Len(Whole) + reader.at]
            /\ Len(recent) \in Nat /\ Len(Whole) \in Nat
        BY <1>1, <1>5, LinesAreRecent
      <4>2. Len(recent) - Len(Whole) + reader.at = reader.at + 1
        BY <1>2, <2>4, <2>6, <4>1
      <4> QED BY <2>2, <4>1, <4>2
    <3>2. Len(got) <= reader.at
      BY <1>2, <2>4, <2>6
    <3>3. /\ reader'.at - Len(reader'.got) = d /\ d + (Len(got) + 1) = reader.at + 1
          /\ Len(reader'.got) <= reader'.at /\ reader'.at <= Len(recent)
      BY <1>2, <1>3, <2>3, <3>1, <3>2
    <3>4. PICK a \in 0..Len(got) :
            \A x \in 1..Len(got) :
              IF x <= a THEN x \in 1..Len(recent) /\ got[x] = recent[x]
              ELSE \/ x = a + 1 /\ got[x] \in {Mixed, Garbled}
                   \/ d + x \in 1..Len(recent) /\ got[x] = recent[d + x]
      <4>1. CASE reader.torn = "now"
        <5>1. \A x \in 1..Len(got) :
                x <= Len(got) /\ x \in 1..Len(recent) /\ got[x] = recent[x]
          BY <1>2, <2>4, <4>1
        <5>2. Len(got) \in 0..Len(got)
          BY <1>2
        <5> QED BY <5>1, <5>2
      <4>2. CASE reader.torn = "past"
        BY <2>4, <4>2 DEF Seamed, got
      <4>3. reader.torn \in {"no", "now", "past"}
        BY DEF ReaderOK
      <4> QED BY <2>6, <4>1, <4>2, <4>3
    <3>5. /\ a \in 0..(Len(got) + 1) /\ ~(Len(got) + 1 <= a)
      BY <1>2
    <3> HIDE DEF d
    <3>6. Seamed(a)'
      <4>1. ASSUME NEW x \in 1..(Len(got) + 1)
            PROVE  IF x <= a THEN x \in 1..Len(recent) /\ reader'.got[x] = recent[x]
                   ELSE \/ x = a + 1 /\ reader'.got[x] \in {Mixed, Garbled}
                        \/ d + x \in 1..Len(recent) /\ reader'.got[x] = recent[d + x]
        <5>1. CASE x \in 1..Len(got)
          BY <2>3, <3>4, <5>1
        <5>2. CASE x = Len(got) + 1
          BY <2>3, <3>1, <3>3, <3>5, <5>2
        <5> QED BY <2>3, <5>1, <5>2
      <4> QED BY <1>1, <2>3, <3>3, <4>1 DEF Seamed
    <3>7. \E b \in 0..Len(reader'.got) : Seamed(b)'
      BY <2>3, <3>5, <3>6
    <3> QED BY <1>1, <1>3, <2>1, <2>4, <2>6, <3>3, <3>7 DEF ReadOK
  <2> QED BY <2>5, <2>6
<1> QED BY <1>4, <1>5

(* The seam.                                                               *)
LEMMA SeamRead ==
  ASSUME PollOK, LogOK, ReaderOK, EndsInRecent, ReadOK, ReadSeam
  PROVE  ReadOK'
<1>1. /\ UNCHANGED <<pc, recent, crashes>> /\ Whole' = Whole
      /\ reader.at \in 1..Len(WholeLines) /\ reader.torn = "now"
  BY DEF ReadSeam, More, pollVars, history, Whole, WholeLines, CutLine
<1> DEFINE got == reader.got
<1>2. PICK l \in {Mixed, Garbled}, next \in reader.at..(Len(WholeLines) + 1) :
        reader' = [reader EXCEPT !.at = next, !.got = Append(@, l), !.torn = "past"]
  BY DEF ReadSeam
<1>3. /\ got \in Seq(Line \cup {Mixed}) /\ Len(got) \in Nat /\ reader.at \in Nat
  BY LenProperties DEF ReaderOK
<1>4. /\ reader'.at = next /\ reader'.got = Append(got, l) /\ reader'.torn = "past"
  <2> HIDE DEF WholeLines
  <2> QED BY <1>2 DEF ReaderOK
<1>5. Len(WholeLines) \in Nat
  BY LogParts, LenProperties
<1>6. next > 0 /\ next # 0 /\ next >= reader.at /\ next <= Len(WholeLines) + 1 /\ next \in Nat
  BY <1>1, <1>3, <1>5
<1>7. CASE crashes # 0
  BY <1>1, <1>4, <1>6, <1>7 DEF ReadOK
<1>8. CASE crashes = 0
  <2>1. reader.at > 0
    BY <1>1, <1>3
  <2> HIDE DEF got
  <2>2. /\ AtLog' /\ Len(got) = reader.at - 1
        /\ pc \in {"rewrite", "publish"} /\ Len(recent) = Len(Whole) + 1
        /\ \A x \in 1..Len(got) : x \in 1..Len(recent) /\ got[x] = recent[x]
    BY <1>1, <1>8, <2>1 DEF ReadOK, AtLog, got
  <2>3. /\ Len(recent) \in Nat /\ Len(Whole) \in Nat /\ Len(WholeLines) <= Len(Whole)
    BY <1>8, LinesAreRecent
  <2>4. l \in Line \cup {Mixed}
    BY DEF Line
  <2>5. /\ Len(reader'.got) = Len(got) + 1
        /\ \A x \in 1..Len(got) : reader'.got[x] = got[x]
        /\ reader'.got[Len(got) + 1] = l
        /\ \A x \in 1..(Len(got) + 1) : x \in 1..Len(got) \/ x = Len(got) + 1
    <3>1. /\ Len(Append(got, l)) = Len(got) + 1
          /\ \A x \in 1..Len(got) : Append(got, l)[x] = got[x]
          /\ Append(got, l)[Len(got) + 1] = l
      BY <1>3, <2>4, AppendProperties
    <3> QED BY <1>3, <1>4, <3>1
  <2>6. Len(reader'.got) <= reader'.at /\ reader'.at <= Len(recent)
    BY <1>3, <1>4, <1>5, <1>6, <2>2, <2>3, <2>5
  <2>7. PICK a \in Nat : a = Len(got)
    BY <1>3
  <2>8. a \in 0..(Len(got) + 1) /\ ~(Len(got) + 1 <= a) /\ \A x \in 1..Len(got) : x <= a
    BY <1>3, <2>7
  <2>9. \A x \in 1..(Len(got) + 1) :
          IF x <= a THEN x \in 1..Len(recent) /\ reader'.got[x] = recent[x]
          ELSE x = a + 1 /\ reader'.got[x] \in {Mixed, Garbled}
    <3>1. ASSUME NEW x \in 1..(Len(got) + 1)
          PROVE  IF x <= a THEN x \in 1..Len(recent) /\ reader'.got[x] = recent[x]
                 ELSE x = a + 1 /\ reader'.got[x] \in {Mixed, Garbled}
      <4>1. CASE x \in 1..Len(got)
        BY <2>2, <2>5, <2>8, <4>1
      <4>2. CASE x = Len(got) + 1
        BY <2>5, <2>8, <2>7, <4>2
      <4> QED BY <2>5, <4>1, <4>2
    <3> QED BY <3>1
  <2>10. \E b \in 0..Len(reader'.got) : Seamed(b)'
    <3>1. Seamed(a)'
      BY <1>1, <2>5, <2>9 DEF Seamed
    <3> QED BY <2>5, <2>8, <3>1
  <2> QED BY <1>1, <1>4, <1>6, <2>2, <2>6, <2>10 DEF ReadOK
<1> QED BY <1>7, <1>8

LEMMA StepRead ==
  PollOK /\ LogOK /\ ReaderOK /\ EndsInRecent /\ ReadOK /\ [Next]_vars => ReadOK'
<1> SUFFICES ASSUME PollOK, LogOK, ReaderOK, EndsInRecent, ReadOK, [Next]_vars
             PROVE  ReadOK'
  OBVIOUS
<1> USE DEF Goto
<1>1. /\ Len(reader.got) \in Nat /\ reader.at \in Nat
      /\ Len(WholeLines) \in Nat /\ LogMax \in Nat
  BY LenProperties, LogParts, Numbers DEF ReaderOK
<1>2. ASSUME reader' = reader, crashes' = crashes, pc \notin {"append", "prune", "rewrite", "publish"}
      PROVE  ReadOK'
  BY <1>1, <1>2 DEF ReadOK, AtLog
<1>3. ASSUME reader' = NotReading PROVE ReadOK'
  BY <1>3 DEF ReadOK, NotReading
<1>4. ASSUME reader' = reader, crashes' = crashes, recent' = recent,
             WholeLines' = WholeLines, Whole' = Whole,
             pc' = pc \/ (pc = "rewrite" /\ pc' = "publish")
      PROVE  ReadOK'
  <2>1. crashes = 0 /\ reader.at > 0 =>
          /\ pc \in {"append", "prune", "rewrite", "publish"}
          /\ reader.torn # "no" => pc \in {"rewrite", "publish"}
    BY DEF ReadOK, AtLog
  <2> QED BY <1>1, <1>4, <2>1, ReadStays
<1>5. CASE Fetch
  <2>1. pc \in Fetching /\ reader' = reader /\ crashes' = crashes
    BY <1>5, FetchEffect
  <2> QED BY <1>2, <2>1 DEF Fetching
<1>6. CASE \/ OpenStatus \/ CloseStatus \/ LightningChanges \/ NoLightning
           \/ Heartbeat \/ Start \/ ApplySave
  <2>1. /\ reader' = reader /\ crashes' = crashes
        /\ pc \notin {"append", "prune", "rewrite", "publish"}
    BY <1>6 DEF OpenStatus, CloseStatus, LightningChanges, NoLightning, Heartbeat,
                Start, ApplySave, Idle, history
  <2> QED BY <1>2, <2>1
<1>7. CASE Publish \/ Crash \/ ReadEnds
  BY <1>3, <1>7 DEF Publish, Crash, ReadEnds
<1>8. CASE OpenMeteoChanges \/ PollStatus \/ UNCHANGED vars
  <2>1. UNCHANGED <<reader, crashes, recent, log, rest, pc>>
    BY <1>8 DEF OpenMeteoChanges, PollStatus, vars, pollVars, history
  <2>2. WholeLines' = WholeLines /\ Whole' = Whole
    BY <2>1 DEF Whole, WholeLines, CutLine
  <2>3. reader' = reader /\ crashes' = crashes /\ recent' = recent /\ pc' = pc
    BY <2>1
  <2> QED BY <1>4, <2>2, <2>3
<1>9. CASE Rewritten
  <2>1. /\ pc = "rewrite" /\ rest = << >> /\ pc' = "publish"
        /\ UNCHANGED <<log, recent, crashes, reader>>
    BY <1>9 DEF Rewritten, history
  <2>2. WholeLines' = WholeLines
    BY <2>1 DEF WholeLines, CutLine
  <2>3. Whole' = Whole
    <3>1. WholeLines \in Seq(Line)
      BY LogParts
    <3>2. WholeLines \o << >> = WholeLines
      BY <3>1, ConcatEmptySeq
    <3> QED BY <2>1, <2>2, <3>2 DEF Whole
  <2> QED BY <1>4, <2>1, <2>2, <2>3
<1>10. CASE ReadOpen
  <2>1. /\ AtLog' /\ reader'.at = 1 /\ reader'.got = << >> /\ reader'.torn = "no"
    BY <1>10 DEF ReadOpen, AtLog, pollVars
  <2>2. Len(<< >>) = 0
    BY EmptySeq
  <2> QED BY <2>1, <2>2 DEF ReadOK
<1>11. CASE AppendReading
  BY <1>11, AppendRead
<1>12. CASE Prune
  BY <1>12, PruneRead
<1>13. CASE RewriteLine
  BY <1>13, RewriteRead
<1>14. CASE ReadLine
  BY <1>14, LineRead
<1>15. CASE ReadSeam
  BY <1>15, SeamRead
<1> QED BY <1>5, <1>6, <1>7, <1>8, <1>9, <1>10, <1>11, <1>12, <1>13, <1>14, <1>15
        DEF Next, do_poll, Fetch, read_file

LEMMA ReadInv == Spec => []ReadOK
<1>1. Init => ReadOK
  <2>1. Init => reader = NotReading
    BY DEF Init
  <2>2. NotReading.at = 0
    BY DEF NotReading
  <2> QED BY <2>1, <2>2 DEF ReadOK
<1> QED BY <1>1, StepRead, TypeInv, ReaderInv, EndsInv, PTL DEF Spec

(* The lines the dashboard asks for are the last ones read.                *)
LEMMA TailRead ==
  ASSUME ReaderOK, NEW e, e = LastOf(TailMax, reader.got)
  PROVE  /\ e \in Seq(Line \cup {Mixed}) /\ Len(e) \in Nat /\ Len(reader.got) \in Nat
         /\ Len(e) <= Len(reader.got)
         /\ \A x \in 1..Len(e) : /\ e[x] = reader.got[Len(reader.got) - Len(e) + x]
                                 /\ Len(reader.got) - Len(e) + x \in 1..Len(reader.got)
<1> DEFINE got == reader.got  G == Len(got)  E == Len(e)
<1>1. /\ got \in Seq(Line \cup {Mixed}) /\ G \in Nat /\ TailMax \in Nat /\ TailMax >= 1
  <2>1. got \in Seq(Line \cup {Mixed})
    BY DEF ReaderOK
  <2> QED BY <2>1, LenProperties, LogAssumption
<1> HIDE DEF got
<1>2. /\ e \in Seq(Line \cup {Mixed}) /\ E = IF G <= TailMax THEN G ELSE TailMax
      /\ \A j \in 1..E : FromEnd(e, j) = FromEnd(got, j)
  <2>1. e = LastOf(TailMax, got)
    BY DEF got
  <2> QED BY <1>1, <2>1, LastOfEnd
<1>3. E \in Nat /\ E <= G
  BY <1>1, <1>2
<1>4. ASSUME NEW x \in 1..E PROVE e[x] = got[G - E + x] /\ G - E + x \in 1..G
  <2> DEFINE j == E + 1 - x
  <2>1. j \in 1..E /\ E + 1 - j = x /\ G + 1 - j = G - E + x /\ G - E + x \in 1..G
    <3> HIDE DEF G, E
    <3> QED BY <1>1, <1>3
  <2> HIDE DEF j
  <2>2. FromEnd(e, j) = FromEnd(got, j)
    BY <1>2, <2>1
  <2> QED BY <2>1, <2>2 DEF FromEnd
<1> QED BY <1>1, <1>2, <1>3, <1>4 DEF got

(* The trend in one piece.                                                 *)
LEMMA OneRun ==
  ASSUME PollOK, ReaderOK,
         NEW c \in Int, \A x \in 1..Len(reader.got) :
           c + x \in 1..Len(recent) /\ reader.got[x] = recent[c + x]
  PROVE  \E i \in 0..Len(recent) : \A x \in 1..Len(Points) : Follows(x, i)
<1> DEFINE G == Len(reader.got)  R == Len(recent)
<1>1. recent \in Seq(Reading) /\ R \in Nat /\ \A i \in 1..R : recent[i] \in Reading
  <2>1. recent \in Seq(Reading)
    BY DEF PollOK
  <2> QED BY <2>1, LenProperties, ElementOfSeq
<1>2. PICK e : e = LastOf(TailMax, reader.got)
  OBVIOUS
<1> DEFINE E == Len(e)
<1>3. /\ e \in Seq(Line \cup {Mixed}) /\ E \in Nat /\ G \in Nat /\ E <= G
      /\ \A x \in 1..E : e[x] = reader.got[G - E + x] /\ G - E + x \in 1..G
  BY <1>2, TailRead
<1>4. /\ Len(Points) = E /\ \A x \in 1..E : Points[x] = e[x]
  <2>1. \A x \in 1..E : e[x] \in Parses
    BY <1>1, <1>3 DEF Parses
  <2>2. E + 1 \in 1..(E + 1) /\ ~(E + 1 <= E) /\ \A x \in 1..E : x # E + 1 /\ x < E + 1
    BY <1>3
  <2>3. /\ Len(Parsed(e)) = E /\ \A x \in 1..E : Parsed(e)[x] = e[x]
    BY <1>3, <2>1, <2>2, ParsedWithout
  <2> QED BY <1>2, <2>3 DEF Points
<1>5. CASE E = 0
  BY <1>1, <1>4, <1>5 DEF Follows
<1>6. CASE E # 0
  <2>1. PICK i \in Int : i = c + (G - E)
    <3>1. c + (G - E) \in Int
      BY <1>3
    <3> QED BY <3>1
  <2>2. ASSUME NEW x \in 1..E PROVE i + x \in 1..R /\ Points[x] = recent[i + x]
    <3>1. G - E + x \in 1..G /\ i + x = c + (G - E + x)
      BY <1>3, <2>1
    <3> QED BY <1>3, <1>4, <3>1
  <2>3. i + 1 \in 1..R /\ i + E \in 1..R
    BY <1>3, <1>6, <2>2
  <2>4. i \in 0..R
    BY <1>1, <2>1, <2>3
  <2> QED BY <1>4, <2>2, <2>4 DEF Follows
<1> QED BY <1>5, <1>6

(* The trend in two pieces.                                                *)
LEMMA TwoRuns ==
  ASSUME PollOK, ReaderOK, reader.at <= Len(recent), Len(reader.got) <= reader.at,
         NEW a \in 0..Len(reader.got), Seamed(a)
  PROVE  \E i \in 0..Len(recent) :
           \E n \in 0..Len(Points), k \in i..Len(recent) :
              /\ \A x \in 1..n : Follows(x, i)
              /\ \A x \in (n + 1)..Len(Points) :
                   (x = n + 1 /\ Points[x] = Mixed) \/ Follows(x, k)
<1>1. PICK G \in Nat, R \in Nat, at \in Nat :
        G = Len(reader.got) /\ R = Len(recent) /\ at = reader.at
  <2>1. /\ reader.got \in Seq(Line \cup {Mixed}) /\ recent \in Seq(Reading) /\ reader.at \in Nat
    BY DEF PollOK, ReaderOK
  <2> QED BY <2>1, LenProperties
<1>2. \A i \in 1..R : recent[i] \in Reading
  <2>1. recent \in Seq(Reading)
    BY DEF PollOK
  <2> QED BY <1>1, <2>1, ElementOfSeq
<1>3. PICK e : e = LastOf(TailMax, reader.got)
  OBVIOUS
<1>4. PICK E \in Nat, o \in Nat :
        /\ E = Len(e) /\ o + E = G /\ e \in Seq(Line \cup {Mixed})
        /\ \A x \in 1..E : e[x] = reader.got[o + x] /\ o + x \in 1..G
  <2>1. /\ e \in Seq(Line \cup {Mixed}) /\ Len(e) \in Nat /\ Len(e) <= G
        /\ \A x \in 1..Len(e) : e[x] = reader.got[G - Len(e) + x] /\ G - Len(e) + x \in 1..G
    BY <1>1, <1>3, TailRead
  <2>2. G - Len(e) \in Nat /\ (G - Len(e)) + Len(e) = G
    BY <2>1
  <2> QED BY <2>1, <2>2
<1>5. PICK d \in Nat : d = at - G
  BY <1>1
<1>6. \A y \in 1..G :
        IF y <= a THEN y \in 1..R /\ reader.got[y] = recent[y]
        ELSE \/ y = a + 1 /\ reader.got[y] \in {Mixed, Garbled}
             \/ d + y \in 1..R /\ reader.got[y] = recent[d + y]
  BY <1>1, <1>5 DEF Seamed
<1>7. a \in Nat /\ a <= G /\ at <= R /\ G <= at /\ d + G = at
  BY <1>1, <1>5
<1>8. Garbled \notin Parses /\ Mixed \in Parses /\ Reading \subseteq Parses /\ Mixed # Garbled
  BY LineAssumption DEF Parses, Line
<1> DEFINE Dropped == a + 1 > o /\ a + 1 <= G /\ reader.got[a + 1] = Garbled
<1>9. PICK n \in Nat : n = IF a > o THEN a - o ELSE 0
  <2>1. (IF a > o THEN a - o ELSE 0) \in Nat
    BY <1>4, <1>7
  <2> QED BY <2>1
<1>10. PICK i \in Nat : i = IF a > o THEN o ELSE 0
  OBVIOUS
<1>11. i \in 0..R
  <2>1. CASE a > o
    <3>1. a \in 1..G /\ a <= a
      BY <1>7, <2>1
    <3>2. a \in 1..R
      BY <1>6, <3>1
    <3> QED BY <1>10, <2>1, <3>2
  <2> QED BY <1>10, <2>1
<1>12. CASE Dropped
  <2>1. PICK g \in Nat : g = a + 1 - o
    BY <1>7, <1>12
  <2>2. /\ g \in 1..(E + 1) /\ g <= E /\ n = g - 1 /\ o + g = a + 1
    BY <1>4, <1>7, <1>9, <1>12, <2>1
  <2>3. ASSUME NEW x \in 1..E PROVE x # g <=> e[x] \in Parses
    <3>1. o + x \in 1..G /\ e[x] = reader.got[o + x] /\ (o + x = a + 1 <=> x = g)
      BY <1>4, <2>2
    <3>2. x # g => reader.got[o + x] \in Parses
      BY <1>2, <1>6, <1>8, <3>1
    <3> QED BY <1>8, <1>12, <3>1, <3>2
  <2>4. /\ Len(Points) = E - 1
        /\ \A x \in 1..Len(Points) : Points[x] = IF x < g THEN e[x] ELSE e[x + 1]
    <3>1. Points = Parsed(e)
      BY <1>3 DEF Points
    <3> QED BY <1>4, <2>2, <2>3, <3>1, ParsedWithout
  <2>5. PICK k \in Nat : k = d + o + 1
    OBVIOUS
  <2>6. k \in i..R /\ n \in 0..Len(Points)
    BY <1>4, <1>7, <1>10, <2>2, <2>4, <2>5
  <2>7. ASSUME NEW x \in 1..n PROVE Follows(x, i)
    <3>1. x \in 1..Len(Points) /\ x < g /\ x \in 1..E /\ a > o
      BY <1>4, <2>2, <2>4, <1>9
    <3>2. o + x <= a /\ i = o
      BY <1>4, <1>9, <1>10, <2>2, <3>1
    <3> QED BY <1>1, <1>4, <1>6, <2>4, <3>1, <3>2 DEF Follows
  <2>8. ASSUME NEW x \in (n + 1)..Len(Points) PROVE Follows(x, k)
    <3>1. x \in 1..Len(Points) /\ ~(x < g) /\ x + 1 \in 1..E
      BY <1>4, <2>2, <2>4
    <3>2. PICK y \in Nat : y = o + (x + 1)
      BY <3>1
    <3>3. ~(y <= a) /\ y # a + 1 /\ d + y = k + x
      BY <1>4, <2>2, <2>5, <3>1, <3>2
    <3>4. Points[x] = e[x + 1]
      BY <2>4, <3>1
    <3>5. e[x + 1] = reader.got[y] /\ y \in 1..G
      BY <1>4, <3>1, <3>2
    <3>6. d + y \in 1..R /\ reader.got[y] = recent[d + y]
      BY <1>6, <3>3, <3>5
    <3> QED BY <1>1, <3>3, <3>4, <3>5, <3>6 DEF Follows
  <2> QED BY <1>1, <1>11, <2>6, <2>7, <2>8
<1>13. CASE ~Dropped
  <2>1. /\ E + 1 \in 1..(E + 1) /\ ~(E + 1 <= E) /\ \A x \in 1..E : x # E + 1 /\ x < E + 1
    OBVIOUS
  <2>2. ASSUME NEW x \in 1..E PROVE e[x] \in Parses
    <3>1. o + x \in 1..G /\ e[x] = reader.got[o + x] /\ o + x > o
      BY <1>4
    <3> QED BY <1>2, <1>6, <1>8, <1>13, <3>1
  <2>3. /\ Len(Points) = E /\ \A x \in 1..E : Points[x] = e[x]
    <3>1. Points = Parsed(e)
      BY <1>3 DEF Points
    <3> QED BY <1>4, <2>1, <2>2, <3>1, ParsedWithout
  <2>4. PICK k \in Nat : k = d + o
    OBVIOUS
  <2>5. k \in i..R /\ n \in 0..Len(Points)
    BY <1>4, <1>7, <1>9, <1>10, <2>3, <2>4
  <2>6. ASSUME NEW x \in 1..n PROVE Follows(x, i)
    <3>1. x \in 1..E /\ a > o
      BY <1>4, <1>7, <1>9
    <3>2. o + x <= a /\ i = o
      BY <1>4, <1>9, <1>10, <3>1
    <3> QED BY <1>1, <1>4, <1>6, <2>3, <3>1, <3>2 DEF Follows
  <2>7. ASSUME NEW x \in (n + 1)..Len(Points)
        PROVE  (x = n + 1 /\ Points[x] = Mixed) \/ Follows(x, k)
    <3>1. x \in 1..E
      BY <1>4, <1>9, <2>3
    <3>2. PICK y \in Nat : y = o + x
      BY <3>1
    <3>3. ~(y <= a) /\ d + y = k + x /\ (y = a + 1 => x = n + 1)
      BY <1>4, <1>7, <1>9, <2>4, <3>1, <3>2
    <3>4. Points[x] = reader.got[y] /\ y \in 1..G /\ y > o
      BY <1>4, <2>3, <3>1, <3>2
    <3>5. reader.got[y] \in Parses
      BY <1>4, <2>2, <3>1, <3>2
    <3>6. \/ y = a + 1 /\ reader.got[y] = Mixed
          \/ d + y \in 1..R /\ reader.got[y] = recent[d + y]
      BY <1>6, <1>8, <3>3, <3>4, <3>5
    <3> QED BY <1>1, <3>3, <3>4, <3>6 DEF Follows
  <2> QED BY <1>1, <1>11, <2>5, <2>6, <2>7
<1> QED BY <1>12, <1>13

(* The dashboard's trend is at every moment an uninterrupted run of the    *)
(* latest readings, or two with at most one point of two lines between     *)
(* them if the log was rewritten while it was read: for logs and trends of *)
(* any length, and however the read is cut up, as long as no daemon dies.  *)
THEOREM TrendIsRunHolds == Spec => []TrendIsRun
<1>1. PollOK /\ LogOK /\ ReaderOK /\ EndsInRecent /\ ReadOK => TrendIsRun
  <2> SUFFICES ASSUME PollOK, LogOK, ReaderOK, EndsInRecent, ReadOK, crashes = 0
               PROVE  TrendIsRun
    BY DEF TrendIsRun
  <2>1. reader.at \in Nat /\ reader.torn \in {"no", "now", "past"}
    BY DEF ReaderOK
  <2>2. CASE reader.at = 0
    <3>1. Len(reader.got) = 0
      BY <2>2, EmptySeq DEF ReadOK, NotReading
    <3>2. \A x \in 1..Len(reader.got) :
            0 + x \in 1..Len(recent) /\ reader.got[x] = recent[0 + x]
      BY <3>1
    <3>3. 0 \in Int
      OBVIOUS
    <3>4. \E i \in 0..Len(recent) : \A x \in 1..Len(Points) : Follows(x, i)
      BY <3>2, <3>3, OneRun
    <3> QED BY <3>4 DEF TrendIsRun
  <2>3. CASE reader.at > 0 /\ reader.torn = "no"
    <3>1. /\ \A x \in 1..Len(reader.got) : x <= Len(WholeLines) /\ reader.got[x] = WholeLines[x]
      BY <2>3 DEF ReadOK
    <3>2. /\ Len(recent) \in Nat /\ Len(Whole) \in Nat /\ Len(WholeLines) \in Nat
          /\ \A x \in 1..Len(WholeLines) :
               /\ Len(recent) - Len(Whole) + x \in 1..Len(recent)
               /\ WholeLines[x] = recent[Len(recent) - Len(Whole) + x]
      BY LinesAreRecent
    <3>3. PICK c \in Int : c = Len(recent) - Len(Whole)
      <4>1. Len(recent) - Len(Whole) \in Int
        BY <3>2
      <4> QED BY <4>1
    <3>4. ASSUME NEW x \in 1..Len(reader.got)
          PROVE  c + x \in 1..Len(recent) /\ reader.got[x] = recent[c + x]
      <4>1. x \in 1..Len(WholeLines)
        <5>1. Len(reader.got) \in Nat
          BY LenProperties DEF ReaderOK
        <5> QED BY <3>1, <3>2, <5>1
      <4> QED BY <3>1, <3>2, <3>3, <4>1
    <3> QED BY <3>4, OneRun DEF TrendIsRun
  <2>4. CASE reader.at > 0 /\ reader.torn = "now"
    <3>1. \A x \in 1..Len(reader.got) : x \in 1..Len(recent) /\ reader.got[x] = recent[x]
      BY <2>4 DEF ReadOK
    <3>2. \A x \in 1..Len(reader.got) :
            0 + x \in 1..Len(recent) /\ reader.got[x] = recent[0 + x]
      <4>1. \A x \in 1..Len(reader.got) : 0 + x = x
        OBVIOUS
      <4> QED BY <3>1, <4>1
    <3>3. 0 \in Int
      OBVIOUS
    <3>4. \E i \in 0..Len(recent) : \A x \in 1..Len(Points) : Follows(x, i)
      BY <3>2, <3>3, OneRun
    <3> QED BY <3>4 DEF TrendIsRun
  <2>5. CASE reader.at > 0 /\ reader.torn = "past"
    <3>1. /\ Len(reader.got) <= reader.at /\ reader.at <= Len(recent)
          /\ \E a \in 0..Len(reader.got) : Seamed(a)
      BY <2>5 DEF ReadOK
    <3>2. \E i \in 0..Len(recent) :
           \E n \in 0..Len(Points), k \in i..Len(recent) :
              /\ \A x \in 1..n : Follows(x, i)
              /\ \A x \in (n + 1)..Len(Points) :
                   (x = n + 1 /\ Points[x] = Mixed) \/ Follows(x, k)
      BY <3>1, TwoRuns
    <3> QED BY <2>5, <3>2 DEF TrendIsRun
  <2> QED BY <2>1, <2>2, <2>3, <2>4, <2>5
<1> QED BY <1>1, TypeInv, ReaderInv, EndsInv, ReadInv, PTL

-----------------------------------------------------------------------------
(***************************************************************************)
(* The way to OutageSurvived.  That the daemon and the page go on at all   *)
(* is their fairness; what each of their steps achieves is proved here.    *)
(***************************************************************************)

(* The steps that a poll may still take, when nothing but the place of its *)
(* next step is known, and two for each line to write back: the one that   *)
(* cuts it and the one that ends it.                                       *)
StepsTo ==
  [started |-> 0, idle |-> 0, off |-> 0, heartbeat |-> 1, refill |-> 2, lightning |-> 3,
   publish |-> 4, rewrite |-> 5, prune |-> 6, append |-> 7, fill |-> 8, status |-> 9,
   alerts |-> 10, sun |-> 11, openmeteo |-> 12, nws |-> 13, locate |-> 14]

LinesLeft ==
  IF pc = "rewrite" THEN 2 * Len(rest) - (IF CutLine THEN 1 ELSE 0)
  ELSE IF StepsTo[pc] > 5 THEN 2 * LogMax
  ELSE 0

StepsLeft == StepsTo[pc] + LinesLeft

LEMMA StepsLeftBound ==
  PollOK /\ LogOK =>
    /\ LinesLeft \in 0..(2 * LogMax) /\ StepsTo[pc] \in 0..14
    /\ StepsLeft \in 0..(2 * LogMax + 14)
<1> SUFFICES ASSUME PollOK, LogOK
             PROVE  /\ LinesLeft \in 0..(2 * LogMax) /\ StepsTo[pc] \in 0..14
                    /\ StepsLeft \in 0..(2 * LogMax + 14)
  OBVIOUS
<1>1. StepsTo[pc] \in 0..14
  <2>1. pc \in {"started", "idle", "locate", "nws", "openmeteo", "sun", "alerts",
               "status", "fill", "append", "prune", "rewrite", "publish",
               "lightning", "refill", "heartbeat", "off"}
    BY DEF PollOK
  <2> QED BY <2>1 DEF StepsTo
<1>2. LinesLeft \in 0..(2 * LogMax)
  <2>1. Len(rest) \in Nat /\ Len(rest) <= LogMax
    BY LogParts DEF PollOK
  <2>2. CASE pc = "rewrite"
    <3>1. CutLine => Len(rest) >= 1
      BY <2>1, <2>2, LogParts, EmptySeq DEF LogOK
    <3>2. LinesLeft = 2 * Len(rest) - (IF CutLine THEN 1 ELSE 0)
      BY <2>2 DEF LinesLeft
    <3> QED BY <2>1, <3>1, <3>2, Numbers
  <2>3. CASE pc # "rewrite"
    <3>1. LinesLeft \in {0, 2 * LogMax}
      BY <2>3 DEF LinesLeft
    <3> QED BY <3>1, Numbers
  <2> QED BY <2>2, <2>3
<1>3. StepsLeft = StepsTo[pc] + LinesLeft
  BY DEF StepsLeft
<1> HIDE DEF StepsTo
<1> QED BY <1>1, <1>2, <1>3, Numbers

LEMMA StepsLeftOf ==
  /\ pc \in {"heartbeat", "refill", "lightning", "publish", "idle", "started", "off"} =>
       LinesLeft = 0
  /\ pc \in {"prune", "append", "fill", "status", "alerts", "sun", "openmeteo", "nws", "locate"} =>
       LinesLeft = 2 * LogMax
  /\ pc = "rewrite" => LinesLeft = 2 * Len(rest) - (IF CutLine THEN 1 ELSE 0)
<1>1. CASE pc \in {"heartbeat", "refill", "lightning", "publish", "idle", "started", "off"}
  BY <1>1 DEF LinesLeft, StepsTo
<1>2. CASE pc \in {"prune", "append", "fill", "status", "alerts", "sun", "openmeteo", "nws", "locate"}
  BY <1>2 DEF LinesLeft, StepsTo
<1>3. CASE pc = "rewrite"
  BY <1>3 DEF LinesLeft
<1> QED BY <1>1, <1>2, <1>3

InPoll == pc \notin {"started", "idle", "off"}

(* A step to a later place of a poll, or at the same place with fewer lines. *)
LEMMA StepForward ==
  ASSUME PollOK, LogOK, PollOK', LogOK',
         \/ StepsTo[pc'] < StepsTo[pc] /\ LinesLeft' <= LinesLeft
         \/ StepsTo[pc'] = StepsTo[pc] /\ LinesLeft' < LinesLeft
  PROVE  StepsLeft' < StepsLeft
<1>1. /\ LinesLeft \in Nat /\ StepsTo[pc] \in Nat
      /\ LinesLeft' \in Nat /\ (StepsTo[pc])' \in Nat
  <2>1. (PollOK /\ LogOK =>
           /\ LinesLeft \in 0..(2 * LogMax) /\ StepsTo[pc] \in 0..14
           /\ StepsLeft \in 0..(2 * LogMax + 14))'
    BY StepsLeftBound, PTL
  <2> QED BY <2>1, StepsLeftBound, Numbers
<1>2. StepsLeft = StepsTo[pc] + LinesLeft /\ StepsLeft' = StepsTo[pc'] + LinesLeft'
  BY DEF StepsLeft
<1> QED BY <1>1, <1>2

Early == {"prune", "append", "fill", "status", "alerts", "sun", "openmeteo", "nws", "locate"}
Late  == {"heartbeat", "refill", "lightning", "publish", "idle", "started", "off"}

LEMMA LinesLeftOf ==
  /\ pc \in Early => LinesLeft = 2 * LogMax
  /\ pc \in Late => LinesLeft = 0
BY StepsLeftOf DEF Early, Late

LEMMA LinesLeftBound == PollOK /\ LogOK => LinesLeft <= 2 * LogMax
BY StepsLeftBound, Numbers

LEMMA PollStepsLeft ==
  ASSUME PollOK, LogOK, PollOK', LogOK', do_poll, InPoll
  PROVE  StepsLeft' < StepsLeft
<1> USE DEF Goto, InPoll
<1>1. /\ (pc \in Early => LinesLeft = 2 * LogMax)'
      /\ (pc \in Late => LinesLeft = 0)'
  BY LinesLeftOf, PTL
<1>2. 0 <= LinesLeft /\ LinesLeft <= 2 * LogMax /\ 0 <= 2 * LogMax
  BY StepsLeftBound, Numbers
<1>3. LinesLeft' <= 2 * LogMax
  <2>1. (PollOK /\ LogOK => LinesLeft <= 2 * LogMax)'
    BY LinesLeftBound, PTL
  <2> QED BY <2>1
<1>4. CASE weather_api_fetch
  <2>1. \/ pc = "locate" /\ pc' \in {"nws", "openmeteo", "status"}
        \/ pc = "nws" /\ pc' \in {"openmeteo", "sun", "alerts"}
        \/ pc = "openmeteo" /\ pc' \in {"sun", "alerts", "status"}
        \/ pc = "sun" /\ pc' \in {"alerts", "status"}
        \/ pc = "alerts" /\ pc' = "status"
    BY <1>4 DEF weather_api_fetch, ResolveCoords, CoordsFail, NwsAnswers, NwsFails,
       OpenMeteoAnswers, OpenMeteoFails, SunTimes, NwsAlerts, AfterConditions
  <2>2. pc \in Early /\ pc' \in Early /\ StepsTo[pc'] < StepsTo[pc]
    BY <2>1 DEF Early, StepsTo
  <2>3. LinesLeft' <= LinesLeft
    BY <1>1, <1>3, <2>2, LinesLeftOf
  <2> QED BY <2>2, <2>3, StepForward
<1>5. CASE OpenStatus \/ AppendReading
  <2>1. pc \in Early /\ pc' \in Early /\ StepsTo[pc'] < StepsTo[pc]
    BY <1>5 DEF OpenStatus, AppendReading, Early, StepsTo
  <2> QED BY <1>1, <1>2, <2>1, LinesLeftOf, StepForward
<1>6. CASE CloseStatus
  <2>1. /\ StepsTo[pc'] < StepsTo[pc]
        /\ pc \in Early \/ pc' \in Late
    BY <1>6 DEF CloseStatus, Early, Late, StepsTo
  <2>2. CASE pc \in Early
    BY <1>3, <2>1, <2>2, LinesLeftOf, StepForward
  <2>3. CASE pc' \in Late
    BY <1>1, <1>2, <2>1, <2>3, StepForward
  <2> QED BY <2>1, <2>2, <2>3
<1>7. CASE Prune
  <2>1. pc \in Early /\ StepsTo[pc'] < StepsTo[pc]
    BY <1>7 DEF Prune, Early, StepsTo
  <2> QED BY <1>3, <2>1, LinesLeftOf, StepForward
<1>8. CASE \/ Rewritten \/ Publish \/ LightningChanges \/ NoLightning \/ Heartbeat
  <2>1. pc' \in Late /\ StepsTo[pc'] < StepsTo[pc]
    BY <1>8 DEF Rewritten, Publish, LightningChanges, NoLightning, Heartbeat, Late, StepsTo
  <2> QED BY <1>1, <1>2, <2>1, StepForward
<1>9. CASE RewriteLine
  <2> DEFINE cut == IF CutLine THEN 1 ELSE 0
  <2>1. pc = "rewrite" /\ pc' = "rewrite"
    BY <1>9, RewriteEffect
  <2>2. LinesLeft = 2 * Len(rest) - cut
    BY <2>1, StepsLeftOf
  <2>3. LinesLeft' = 2 * Len(rest') - cut'
    <3>1. (pc = "rewrite" => LinesLeft = 2 * Len(rest) - (IF CutLine THEN 1 ELSE 0))'
      BY StepsLeftOf, PTL
    <3> QED BY <2>1, <3>1
  <2>4. /\ Len(rest) \in Nat /\ Len(rest') \in Nat
        /\ \/ CutLine /\ ~CutLine' /\ Len(rest') = Len(rest) - 1
           \/ ~CutLine /\ CutLine' /\ Len(rest') = Len(rest)
    <3>1. WholeLines \in Seq(Line) /\ Len(rest) \in Nat /\ Len(rest') \in Nat
      <4>1. rest' \in Seq(Kept)
        BY <1>9, RewriteEffect
      <4> QED BY <4>1, LogParts, LenProperties
    <3>2. CASE CutLine
      <4>1. /\ Head(rest) \in Line /\ Head(rest) # Cut /\ log' = Append(WholeLines, Head(rest))
            /\ Len(rest') = Len(rest) - 1
        BY <1>9, <3>2, RewriteEffect
      <4>2. Last(log') # Cut
        BY <3>1, <4>1, AppendLast
      <4> QED BY <3>1, <3>2, <4>1, <4>2 DEF CutLine
    <3>3. CASE ~CutLine
      <4>1. log' = Append(WholeLines, Cut) /\ rest' = rest
        BY <1>9, <3>3, RewriteEffect
      <4>2. Last(log') = Cut /\ log' # << >>
        BY <3>1, <4>1, AppendLast DEF Line
      <4> QED BY <3>1, <3>3, <4>1, <4>2 DEF CutLine
    <3> QED BY <3>2, <3>3
  <2>5. LinesLeft' < LinesLeft
    <3> HIDE DEF cut
    <3>1. \/ cut = 1 /\ cut' = 0 /\ Len(rest') = Len(rest) - 1
          \/ cut = 0 /\ cut' = 1 /\ Len(rest') = Len(rest)
      BY <2>4 DEF cut
    <3> QED BY <2>2, <2>3, <2>4, <3>1
  <2>6. StepsTo[pc'] = StepsTo[pc]
    BY <2>1
  <2> QED BY <2>5, <2>6, StepForward
<1>10. ~BeginPoll /\ ~MockPoll
  BY DEF BeginPoll, MockPoll, Idle
<1> QED BY <1>4, <1>5, <1>6, <1>7, <1>8, <1>9, <1>10 DEF do_poll

(* Within a poll, only a step of the poll or a death changes how much is   *)
(* left of it.                                                             *)
PollGoesOn ==
  InPoll => /\ do_poll => StepsLeft' < StepsLeft
            /\ do_poll \/ Crash \/ StepsLeft' = StepsLeft

(* Every poll ends, whatever answers and whatever the dashboard and the    *)
(* services do meanwhile: each of its steps leaves fewer for it to take,   *)
(* of 2 * LogMax + 14 at most, and nobody but a death adds any.            *)
THEOREM PollsEnd ==
  Spec => /\ [](StepsLeft \in 0..(2 * LogMax + 14))
          /\ [][PollGoesOn]_vars
<1>1. PollOK /\ LogOK => StepsLeft \in 0..(2 * LogMax + 14)
  BY StepsLeftBound
<1>2. PollOK /\ LogOK /\ PollOK' /\ LogOK' /\ [Next]_vars => [PollGoesOn]_vars
  <2> SUFFICES ASSUME PollOK, LogOK, PollOK', LogOK', Next, InPoll
               PROVE  /\ do_poll => StepsLeft' < StepsLeft
                      /\ do_poll \/ Crash \/ StepsLeft' = StepsLeft
    BY DEF PollGoesOn
  <2>1. do_poll => StepsLeft' < StepsLeft
    BY PollStepsLeft
  <2>2. ASSUME ~do_poll, ~Crash PROVE StepsLeft' = StepsLeft
    <3>1. UNCHANGED <<pc, rest, log>>
      BY <2>2, ReadFrame
        DEF Next, ApplySave, Idle, InPoll, Start, PollStatus, OpenMeteoChanges, ReadsOnly,
            pollVars
    <3> QED BY <3>1 DEF StepsLeft, LinesLeft, CutLine
  <2> QED BY <2>1, <2>2
<1> QED BY <1>1, <1>2, TypeInv, PTL DEF Spec

-----------------------------------------------------------------------------
(* What OutageSurvived asks for.                                           *)
Served ==
  /\ pc # "off" /\ om
  /\ config.on /\ ~config.mock
  /\ config.located = "override" /\ UseOpenMeteo

(* Behind the conditions, the snapshot of a poll that was served holds     *)
(* some.                                                                   *)
ConditionsIn ==
  pc \notin {"started", "off", "locate", "nws", "openmeteo"} => Valid(snap)

(* The status file, where it can be read, shows weather.                   *)
StatusShows ==
  /\ status.file # "absent"
  /\ status.file = "whole" => Valid(status.snap)

LEMMA ServedStep == PollOK /\ Served /\ ConditionsIn /\ [Next]_vars => ConditionsIn'
<1> SUFFICES ASSUME PollOK, Served, ConditionsIn, [Next]_vars,
                    pc' \notin {"off", "started", "locate", "nws", "openmeteo"}
             PROVE  Valid(snap')
  BY DEF ConditionsIn
<1> USE DEF Goto, Served, Valid
<1>1. snap \in Snapshot
  BY DEF PollOK
<1>2. CASE Fetch
  <2>1. CASE BeginPoll \/ MockPoll
    BY <1>2, <2>1 DEF BeginPoll, MockPoll
  <2>2. CASE ResolveCoords \/ CoordsFail
    BY <2>2 DEF ResolveCoords, CoordsFail
  <2>3. CASE NwsAnswers \/ NwsFails
    BY <1>1, <2>3 DEF NwsAnswers, NwsFails, Snapshot
  <2>4. CASE OpenMeteoAnswers \/ OpenMeteoFails
    BY <1>1, <2>4 DEF OpenMeteoAnswers, OpenMeteoFails, Snapshot
  <2>5. CASE SunTimes \/ NwsAlerts
    BY <1>1, <2>5 DEF SunTimes, NwsAlerts, ConditionsIn, Snapshot
  <2> QED BY <1>2, <2>1, <2>2, <2>3, <2>4, <2>5 DEF Fetch, weather_api_fetch
<1>3. CASE ~Fetch
  <2>1. UNCHANGED snap /\ pc \notin {"locate", "nws", "openmeteo"} /\ (pc = "started" => pc' = "started")
    BY <1>3, NextCases DEF Others, OpenStatus, CloseStatus, AppendReading, Prune, RewriteLine,
       Rewritten, Publish, LightningChanges, NoLightning, Heartbeat, ApplySave, Crash, Start,
       PollStatus, OpenMeteoChanges, ReadsOnly, pollVars, history
  <2> QED BY <2>1 DEF ConditionsIn
<1> QED BY <1>2, <1>3

LEMMA ShowsStep == StatusShows /\ ConditionsIn /\ [Next]_vars => StatusShows'
<1> SUFFICES ASSUME StatusShows, ConditionsIn, [Next]_vars PROVE StatusShows'
  OBVIOUS
<1> USE DEF StatusShows, Valid
<1>1. CASE CloseStatus
  BY <1>1 DEF CloseStatus, ConditionsIn
<1>2. CASE OpenStatus \/ LightningChanges
  <2>1. status' = [status EXCEPT !.file = "cut"]
    BY <1>2 DEF OpenStatus, LightningChanges
  <2> QED BY <2>1
<1>3. CASE ~CloseStatus /\ ~OpenStatus /\ ~LightningChanges
  <2>1. UNCHANGED status
    BY <1>3, NextCases DEF Fetch, BeginPoll, MockPoll, weather_api_fetch, ResolveCoords,
       CoordsFail, NwsAnswers, NwsFails, OpenMeteoAnswers, OpenMeteoFails, SunTimes, NwsAlerts,
       FetchStep, NewPoll, Others, AppendReading, Prune, RewriteLine, Rewritten, Publish, NoLightning,
       Heartbeat, ApplySave, Crash, Start, PollStatus, OpenMeteoChanges, ReadsOnly, pollVars, history
  <2> QED BY <2>1
<1> QED BY <1>1, <1>2, <1>3

(* "Auto-falls back to Open-Meteo" (TROUBLESHOOTING.md): from a poll on in *)
(* which Open-Meteo answers, the coordinates need nobody and the daemon    *)
(* stays up, every poll ends with a whole status file that shows weather,  *)
(* whatever the NWS services do, for as long as that lasts.                *)
THEOREM ServedPollsShowWeather ==
  Spec => []((pc = "locate" /\ []Served) =>
               [](pc = "idle" => status.file = "whole" /\ Valid(status.snap)))
<1>1. pc = "locate" => ConditionsIn
  BY DEF ConditionsIn
<1>2. ConditionsIn /\ StatusWritten /\ pc = "idle" =>
        status.file = "whole" /\ Valid(status.snap)
  <2> SUFFICES ASSUME ConditionsIn, StatusWritten, pc = "idle"
               PROVE  status.file = "whole" /\ Valid(status.snap)
    OBVIOUS
  <2>1. status = Record /\ Valid(snap)
    BY DEF ConditionsIn, StatusWritten
  <2> QED BY <2>1 DEF Record
<1> QED BY <1>1, <1>2, ServedStep, TypeInv, StatusInv, PTL DEF Spec

(* Behind such a poll, the page changes to the weather and never back to   *)
(* "no data": not while the file is rewritten, not when a service drops    *)
(* out, and not when the settings change to others that are served.        *)
THEOREM ServedPageKeepsWeather ==
  Spec => []((pc = "idle" /\ Valid(status.snap) /\ []Served) => [][page' = "weather"]_page)
<1>1. pc = "idle" /\ Valid(status.snap) /\ StatusWritten => ConditionsIn /\ StatusShows
  <2> SUFFICES ASSUME pc = "idle", Valid(status.snap), status = Record
               PROVE  ConditionsIn /\ StatusShows
    BY DEF StatusWritten
  <2> QED BY DEF Record, ConditionsIn, StatusShows
<1>2. PollOK /\ StatusShows /\ [Next]_vars => [page' = "weather"]_page
  <2> SUFFICES ASSUME PollOK, StatusShows, [Next]_vars, page' # page PROVE page' = "weather"
    OBVIOUS
  <2>1. PollStatus
    BY NextCases DEF Fetch, BeginPoll, MockPoll, weather_api_fetch, ResolveCoords,
       CoordsFail, NwsAnswers, NwsFails, OpenMeteoAnswers, OpenMeteoFails, SunTimes, NwsAlerts,
       FetchStep, NewPoll, Others, AppendReading, Prune, RewriteLine, Rewritten, Publish, NoLightning,
       Heartbeat, ApplySave, Crash, Start, OpenMeteoChanges, OpenStatus, CloseStatus,
       LightningChanges, ReadsOnly, pollVars, history
  <2>2. status.file \in {"absent", "cut", "whole"}
    BY DEF PollOK
  <2> QED BY <2>1, <2>2 DEF PollStatus, StatusShows
<1> QED BY <1>1, <1>2, ServedStep, ShowsStep, TypeInv, StatusInv, PTL DEF Spec
=============================================================================
