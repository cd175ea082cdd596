-------------------------- MODULE AlertOutputProofs --------------------------
(***************************************************************************)
(* TypeOK, StrobeShowsDeviceColour, FiresOnTransitions and TestsStayInLane *)
(* for any rule table, any settings and palettes, and any number of tests, *)
(* saves, updates and restarts; and that the colour probe finds a nearest  *)
(* colour in any list.                                                     *)
(***************************************************************************)
EXTENDS AlertOutput, FiniteSetTheorems, TLAPS

(* What the actions rely on of the types.                                  *)
Shapes ==
  /\ settings \in Settings /\ cfg \in Settings
  /\ out = [c \in Channel |-> out[c]]
  /\ job = [p \in Proc |-> job[p]]
  /\ \A p \in Proc :
       /\ job[p] = [todo |-> job[p].todo, event |-> job[p].event, cfg |-> job[p].cfg]
       /\ job[p] # NoJob => job[p].todo # {}
  /\ row \in 0..(Slots + 1)

(* A slot that this poll has passed, or that the last one did, remembers   *)
(* what the poll found of its rule; the others, and a slot without a rule, *)
(* what they remembered before.                                            *)
Passed(i) == row = 0 \/ i < row

Remembers(i) ==
  IF Passed(i) /\ cfg.rules[i] # NoRule THEN Matches(i) ELSE i \in before

MemoryOK == \A i \in 1..Slots : i \in active <=> Remembers(i)

(* What the daemon is ringing for is new; between polls it rings not.      *)
DaemonJobOK ==
  /\ row = 0 => job["daemon"] = NoJob
  /\ job["daemon"] # NoJob =>
       \E i \in 1..Slots \ before : Matches(i) /\ cfg.rules[i].event = job["daemon"].event

(* What the CGI is doing is a test of one channel.                         *)
CgiJobOK ==
  job["cgi"] # NoJob =>
    \E c \in Channel : job["cgi"].cfg.on = {c} /\ job["cgi"].todo \cap Channel \subseteq {c}

IInv == Shapes /\ MemoryOK /\ DaemonJobOK /\ CgiJobOK

-----------------------------------------------------------------------------
(* A step of an activation removes one of its steps, the last of them ends *)
(* it; nothing else about it changes.                                      *)
LEMMA AdvanceEffect ==
  ASSUME Shapes, NEW p \in Proc, NEW step \in Step, At(p, step), Advance(p, step)
  PROVE  /\ job' = [q \in Proc |-> job'[q]]
         /\ \A q \in Proc \ {p} : job'[q] = job[q]
         /\ job[p] # NoJob /\ job'[p] # job[p]
         /\ \/ job'[p] = NoJob
            \/ /\ job'[p] = [todo |-> job'[p].todo, event |-> job[p].event,
                             cfg |-> job[p].cfg]
               /\ job'[p].todo = job[p].todo \ {step}
               /\ job'[p].todo # {}
<1>1. step \in job[p].todo
  BY DEF At
<1>2. job[p] # NoJob
  BY <1>1 DEF NoJob
<1> DEFINE new == IF job[p].todo = {step} THEN NoJob
                  ELSE [job[p] EXCEPT !.todo = @ \ {step}]
<1>3. job' = [job EXCEPT ![p] = new]
  BY DEF Advance
<1>4. /\ job = [q \in Proc |-> job[q]]
      /\ job[p] = [todo |-> job[p].todo, event |-> job[p].event, cfg |-> job[p].cfg]
  BY DEF Shapes
<1> HIDE DEF new
<1>5. job' = [q \in Proc |-> job'[q]] /\ \A q \in Proc \ {p} : job'[q] = job[q]
  BY <1>3, <1>4
<1>6. job'[p] = new
  BY <1>3, <1>4
<1> USE DEF new
<1>7. CASE job[p].todo = {step}
  BY <1>2, <1>5, <1>6, <1>7
<1>8. CASE job[p].todo # {step}
  <2>1. job'[p] = [todo |-> job[p].todo \ {step}, event |-> job[p].event, cfg |-> job[p].cfg]
    BY <1>4, <1>6, <1>8
  <2>2. job[p].todo \ {step} # {} /\ job[p].todo \ {step} # job[p].todo
    BY <1>1, <1>8
  <2>3. job'[p].todo = job[p].todo \ {step} /\ job'[p].event = job[p].event
        /\ job'[p].cfg = job[p].cfg
    BY <2>1
  <2>4. job'[p] # job[p]
    BY <2>2, <2>3
  <2> QED
    BY <1>2, <1>5, <2>1, <2>2, <2>3, <2>4
<1> QED
  BY <1>7, <1>8

(* What an event's activation starts with.                                 *)
LEMMA JobEffect ==
  ASSUME NEW e, NEW c
  PROVE  \/ Job(e, c) = NoJob
         \/ /\ Job(e, c) = [todo |-> Job(e, c).todo, event |-> e, cfg |-> c]
            /\ Job(e, c).todo # {}
            /\ Job(e, c).todo \cap Channel \subseteq c.on
<1> DEFINE todo == {step \in Step :
                      (IF step \in Channel THEN step ELSE "strobe") \in c.on}
<1>1. Job(e, c) = IF todo = {} THEN NoJob ELSE [todo |-> todo, event |-> e, cfg |-> c]
  BY DEF Job
<1>2. todo \cap Channel \subseteq c.on
  OBVIOUS
<1> HIDE DEF todo
<1>3. CASE todo = {}
  BY <1>1, <1>3
<1>4. CASE todo # {}
  <2>1. Job(e, c) = [todo |-> todo, event |-> e, cfg |-> c]
    BY <1>1, <1>4
  <2>2. Job(e, c).todo = todo
    BY <2>1
  <2> QED
    BY <1>2, <1>4, <2>1, <2>2
<1> QED
  BY <1>3, <1>4

-----------------------------------------------------------------------------
LEMMA InitInv == Init => IInv
<1> SUFFICES ASSUME Init PROVE IInv
  OBVIOUS
<1>1. Shapes
  <2>1. \A p \in Proc : job[p] = NoJob
    BY DEF Init
  <2>2. NoJob = [todo |-> NoJob.todo, event |-> NoJob.event, cfg |-> NoJob.cfg]
    BY DEF NoJob
  <2>3. out = [c \in Channel |-> out[c]] /\ job = [p \in Proc |-> job[p]]
    BY DEF Init
  <2>4. row \in 0..(Slots + 1) /\ settings \in Settings /\ cfg \in Settings
    BY SlotsAssumption DEF Init
  <2> QED BY <2>1, <2>2, <2>3, <2>4 DEF Shapes
<1>2. MemoryOK
  BY DEF Init, MemoryOK, Remembers, Passed, Matches, IsOn
<1>3. DaemonJobOK /\ CgiJobOK
  BY DEF Init, DaemonJobOK, CgiJobOK, Proc
<1> QED BY <1>1, <1>2, <1>3 DEF IInv

(* A step of an activation, by either process.                             *)
LEMMA WorkStep ==
  ASSUME IInv, NEW p \in Proc, NEW step \in Step, At(p, step), Advance(p, step),
         UNCHANGED <<settings, pollVars>>, out' = [c \in Channel |-> out'[c]]
  PROVE  IInv'
<1>1. Shapes /\ MemoryOK /\ DaemonJobOK /\ CgiJobOK
  BY DEF IInv
<1>2. /\ job' = [q \in Proc |-> job'[q]]
      /\ \A q \in Proc \ {p} : job'[q] = job[q]
      /\ job[p] # NoJob
      /\ \/ job'[p] = NoJob
         \/ /\ job'[p] = [todo |-> job'[p].todo, event |-> job[p].event, cfg |-> job[p].cfg]
            /\ job'[p].todo = job[p].todo \ {step}
            /\ job'[p].todo # {}
  BY <1>1, AdvanceEffect
<1>3. \/ job'[p] = NoJob
      \/ /\ job'[p].event = job[p].event /\ job'[p].cfg = job[p].cfg
         /\ job'[p] = [todo |-> job'[p].todo, event |-> job'[p].event, cfg |-> job'[p].cfg]
         /\ job'[p].todo \subseteq job[p].todo /\ job'[p].todo # {}
  <2>1. CASE job'[p] = NoJob
    BY <2>1
  <2>2. CASE /\ job'[p] = [todo |-> job'[p].todo, event |-> job[p].event, cfg |-> job[p].cfg]
             /\ job'[p].todo = job[p].todo \ {step}
             /\ job'[p].todo # {}
    <3>1. job'[p].event = job[p].event /\ job'[p].cfg = job[p].cfg
      BY <2>2
    <3> QED BY <2>2, <3>1
  <2> QED BY <1>2, <2>1, <2>2
<1>4. UNCHANGED <<settings, row, cfg, snap, active, before>>
  BY DEF pollVars
<1>5. Shapes'
  <2>1. ASSUME NEW q \in Proc
        PROVE  /\ job'[q] = [todo |-> job'[q].todo, event |-> job'[q].event, cfg |-> job'[q].cfg]
               /\ job'[q] # NoJob => job'[q].todo # {}
    <3>1. CASE q # p
      BY <1>1, <1>2, <3>1 DEF Shapes
    <3>2. CASE q = p
      <4>1. NoJob = [todo |-> NoJob.todo, event |-> NoJob.event, cfg |-> NoJob.cfg]
        BY DEF NoJob
      <4> QED BY <1>3, <3>2, <4>1
    <3> QED BY <3>1, <3>2
  <2> QED BY <1>1, <1>2, <1>4, <2>1 DEF Shapes
<1>6. MemoryOK'
  BY <1>1, <1>4 DEF MemoryOK, Remembers, Passed, Matches, IsOn
<1>7. DaemonJobOK'
  <2>1. CASE p = "daemon"
    BY <1>1, <1>2, <1>3, <1>4, <2>1 DEF DaemonJobOK, Matches, IsOn
  <2>2. CASE p # "daemon"
    BY <1>1, <1>2, <1>4, <2>2 DEF DaemonJobOK, Matches, IsOn, Proc
  <2> QED BY <2>1, <2>2
<1>8. CgiJobOK'
  <2>1. CASE p = "cgi"
    BY <1>1, <1>2, <1>3, <2>1 DEF CgiJobOK
  <2>2. CASE p # "cgi"
    BY <1>1, <1>2, <2>2 DEF CgiJobOK, Proc
  <2> QED BY <2>1, <2>2
<1> QED BY <1>5, <1>6, <1>7, <1>8 DEF IInv

LEMMA ActivateStep ==
  ASSUME IInv, NEW p \in Proc, alertoutput_on_activate(p)
  PROVE  IInv'
<1>1. out = [c \in Channel |-> out[c]]
  BY DEF IInv, Shapes
<1>2. ASSUME NEW c \in Channel, NEW made, NEW look, Ask(p, c, made, look)
      PROVE  IInv'
  <2>1. c \in Step
    BY DEF Channel, Step, Place
  <2>2. out' = [d \in Channel |-> out'[d]]
    BY <1>1, <1>2 DEF Ask
  <2> QED BY <1>2, <2>1, <2>2, WorkStep DEF Ask
<1>3. ASSUME NEW tier, NEW step \in Step, Fill(p, tier, step)
      PROVE  IInv'
  BY <1>1, <1>3, WorkStep DEF Fill
<1>4. CASE display_show(p)
  BY <1>2, <1>4 DEF display_show, Channel
<1>5. CASE strobe_start(p)
  BY <1>2, <1>5 DEF strobe_start, Channel
<1>6. CASE d4200_start_profile(p)
  <2> DEFINE name == job[p].cfg.profile[TierOf(p)]
             made == job[p].cfg.host /\ name # ""
  <2>1. Ask(p, "d4200", made, [profile |-> name])
    BY <1>6 DEF d4200_start_profile
  <2> HIDE DEF made, name
  <2> QED BY <1>2, <2>1 DEF Channel
<1>7. CASE audio_play_clip(p)
  BY <1>2, <1>7 DEF audio_play_clip, Channel
<1>8. CASE ao_ensure_colors(p)
  <2>1. "warnColour" \in Step /\ "watchColour" \in Step
    BY DEF Step, Place
  <2> QED BY <1>3, <1>8, <2>1 DEF ao_ensure_colors
<1> QED BY <1>4, <1>5, <1>6, <1>7, <1>8 DEF alertoutput_on_activate

(* One slot of the daemon's tables.                                        *)
ProcessRow == RowAbsent \/ RowDisabled \/ RowActivates \/ RowClears \/ RowKeeps

LEMMA RowStep ==
  ASSUME IInv, ProcessRow
  PROVE  IInv'
<1> USE DEF ProcessRow, RowAbsent, RowDisabled, RowActivates, RowClears, RowKeeps
<1> DEFINE e == cfg.rules[row].event
<1>1. Shapes /\ MemoryOK /\ DaemonJobOK /\ CgiJobOK
  BY DEF IInv
<1>2. /\ row \in 1..Slots /\ job["daemon"] = NoJob
      /\ row' = row + 1
      /\ UNCHANGED <<settings, out, cfg, snap, before>>
  BY DEF AtRow, NextRow, Idle
<1>3. /\ cfg.rules[row] = NoRule => active' = active
      /\ cfg.rules[row] # NoRule => (row \in active' <=> Matches(row))
  BY DEF IsOn, Matches
<1>4. \A i : i # row => (i \in active' <=> i \in active)
  OBVIOUS
<1>5. \/ job' = job
      \/ /\ job' = [job EXCEPT !["daemon"] = Job(e, cfg)]
         /\ Matches(row) /\ row \notin active
  OBVIOUS
<1>6. MemoryOK'
  <2> SUFFICES ASSUME NEW i \in 1..Slots
               PROVE  i \in active' <=> Remembers(i)'
    BY DEF MemoryOK
  <2>1. Matches(i)' <=> Matches(i)
    BY <1>2 DEF Matches, IsOn
  <2>2. i \in active <=> Remembers(i)
    BY <1>1 DEF MemoryOK
  <2>3. CASE i = row
    <3>1. ~Passed(i) /\ Passed(i)'
      BY <1>2, <2>3, SlotsAssumption DEF Passed
    <3> QED BY <1>2, <1>3, <2>1, <2>2, <2>3, <3>1 DEF Remembers
  <2>4. CASE i # row
    <3>1. Passed(i)' <=> Passed(i)
      BY <1>2, <2>4, SlotsAssumption DEF Passed
    <3> QED BY <1>2, <1>4, <2>1, <2>2, <2>4, <3>1 DEF Remembers
  <2> QED BY <2>3, <2>4
<1>7. row \in 0..(Slots + 1) /\ row' \in 0..(Slots + 1) /\ row' # 0
  BY <1>2, SlotsAssumption
<1>8. CASE job' = job
  <2>1. Shapes'
    BY <1>1, <1>2, <1>7, <1>8 DEF Shapes
  <2>2. DaemonJobOK' /\ CgiJobOK'
    BY <1>1, <1>2, <1>7, <1>8 DEF DaemonJobOK, CgiJobOK, Matches, IsOn
  <2> QED BY <1>6, <2>1, <2>2 DEF IInv
<1>9. CASE /\ job' = [job EXCEPT !["daemon"] = Job(e, cfg)]
           /\ Matches(row) /\ row \notin active
  <2>1. /\ job' = [p \in Proc |-> job'[p]] /\ job'["cgi"] = job["cgi"]
        /\ job'["daemon"] = Job(e, cfg)
    BY <1>1, <1>9 DEF Shapes, Proc
  <2> DEFINE new == Job(e, cfg)
  <2>2. /\ new = [todo |-> new.todo, event |-> new.event, cfg |-> new.cfg]
        /\ new # NoJob => new.todo # {} /\ new.event = e
    <3>1. NoJob = [todo |-> NoJob.todo, event |-> NoJob.event, cfg |-> NoJob.cfg]
      BY DEF NoJob
    <3>2. CASE new = NoJob
      BY <3>1, <3>2
    <3>3. CASE new = [todo |-> new.todo, event |-> e, cfg |-> cfg] /\ new.todo # {}
      <4>1. new.event = e /\ new.cfg = cfg
        BY <3>3
      <4> QED BY <3>3, <4>1
    <3> QED BY <3>2, <3>3, JobEffect
  <2> HIDE DEF new
  <2>3. \A p \in Proc : p = "cgi" \/ p = "daemon"
    BY DEF Proc
  <2>4. Shapes'
    <3>1. job'["daemon"] = new
      BY <2>1 DEF new
    <3>2. ASSUME NEW p \in Proc
          PROVE  /\ job'[p] = [todo |-> job'[p].todo, event |-> job'[p].event, cfg |-> job'[p].cfg]
                 /\ job'[p] # NoJob => job'[p].todo # {}
      <4>1. CASE p = "daemon"
        BY <2>2, <3>1, <4>1
      <4>2. CASE p = "cgi"
        BY <1>1, <2>1, <4>2 DEF Shapes
      <4> QED BY <2>3, <4>1, <4>2
    <3> QED BY <1>1, <1>2, <1>7, <2>1, <3>2 DEF Shapes
  <2>5. row \notin before
    <3>1. ~Passed(row)
      BY <1>2, SlotsAssumption DEF Passed
    <3> QED BY <1>1, <1>2, <1>9, <3>1 DEF MemoryOK, Remembers
  <2>6. DaemonJobOK'
    <3>1. /\ row \in 1..Slots \ before' /\ cfg'.rules[row] # NoRule
          /\ cfg'.rules[row].enabled /\ e \in snap' /\ cfg'.rules[row].event = e
      BY <1>2, <1>9, <2>5 DEF Matches, IsOn
    <3>2. job'["daemon"] = new
      BY <2>1 DEF new
    <3>3. job'["daemon"] # NoJob => job'["daemon"].event = e
      BY <2>2, <3>2
    <3> HIDE DEF e
    <3> QED BY <1>7, <3>1, <3>3 DEF DaemonJobOK, Matches, IsOn
  <2>7. CgiJobOK'
    BY <1>1, <2>1 DEF CgiJobOK
  <2> QED BY <1>6, <2>4, <2>6, <2>7 DEF IInv
<1> QED BY <1>5, <1>8, <1>9

LEMMA TestStep ==
  ASSUME IInv, NEW c \in Channel, NEW e, Test(c, e)
  PROVE  IInv'
<1>1. Shapes /\ MemoryOK /\ DaemonJobOK /\ CgiJobOK
  BY DEF IInv
<1> DEFINE new == Job(e, Only(c))
<1>2. /\ job' = [job EXCEPT !["cgi"] = new]
      /\ UNCHANGED <<settings, out, row, cfg, snap, active, before>>
  BY DEF Test
<1>3. Only(c).on = {c}
  BY <1>1, SettingsAssumption DEF Shapes, Setting, Only
<1>4. /\ new = [todo |-> new.todo, event |-> new.event, cfg |-> new.cfg]
      /\ new # NoJob =>
           new.todo # {} /\ new.cfg.on = {c} /\ new.todo \cap Channel \subseteq {c}
  <2>1. NoJob = [todo |-> NoJob.todo, event |-> NoJob.event, cfg |-> NoJob.cfg]
    BY DEF NoJob
  <2>2. CASE new = NoJob
    BY <2>1, <2>2
  <2>3. CASE /\ new = [todo |-> new.todo, event |-> e, cfg |-> Only(c)]
             /\ new.todo # {} /\ new.todo \cap Channel \subseteq Only(c).on
    <3>1. new.event = e /\ new.cfg = Only(c)
      BY <2>3
    <3> QED BY <1>3, <2>3, <3>1
  <2> QED BY <2>2, <2>3, JobEffect
<1> HIDE DEF new
<1>5. /\ job' = [p \in Proc |-> job'[p]] /\ job'["daemon"] = job["daemon"]
      /\ job'["cgi"] = new
  BY <1>1, <1>2 DEF Shapes, Proc
<1>6. Shapes'
  <2>1. ASSUME NEW p \in Proc
        PROVE  /\ job'[p] = [todo |-> job'[p].todo, event |-> job'[p].event, cfg |-> job'[p].cfg]
               /\ job'[p] # NoJob => job'[p].todo # {}
    <3>1. CASE p = "cgi"
      BY <1>4, <1>5, <3>1
    <3>2. CASE p = "daemon"
      BY <1>1, <1>5, <3>2 DEF Shapes
    <3> QED BY <3>1, <3>2 DEF Proc
  <2> QED BY <1>1, <1>2, <1>5, <2>1 DEF Shapes
<1>7. MemoryOK' /\ DaemonJobOK'
  BY <1>1, <1>2, <1>5 DEF MemoryOK, Remembers, Matches, IsOn, Passed, DaemonJobOK
<1>8. CgiJobOK'
  BY <1>4, <1>5 DEF CgiJobOK
<1> QED BY <1>6, <1>7, <1>8 DEF IInv

LEMMA RestartStep ==
  ASSUME IInv, NEW p \in Proc, Restart(p)
  PROVE  IInv'
<1>1. Shapes /\ MemoryOK /\ DaemonJobOK /\ CgiJobOK
  BY DEF IInv
<1>2. job' = [job EXCEPT ![p] = NoJob] /\ UNCHANGED <<settings, out, cfg>>
  BY DEF Restart, pollVars
<1>3. /\ job' = [q \in Proc |-> job'[q]] /\ job'[p] = NoJob
      /\ \A q \in Proc \ {p} : job'[q] = job[q]
  BY <1>1, <1>2 DEF Shapes
<1>4. NoJob = [todo |-> NoJob.todo, event |-> NoJob.event, cfg |-> NoJob.cfg]
  BY DEF NoJob
<1>5. row' = 0 \/ row' = row
  BY DEF Restart, pollVars
<1>6. Shapes'
  <2>1. ASSUME NEW q \in Proc
        PROVE  /\ job'[q] = [todo |-> job'[q].todo, event |-> job'[q].event, cfg |-> job'[q].cfg]
               /\ job'[q] # NoJob => job'[q].todo # {}
    <3>1. CASE q = p
      BY <1>3, <1>4, <3>1
    <3>2. CASE q # p
      BY <1>1, <1>3, <3>2 DEF Shapes
    <3> QED BY <3>1, <3>2
  <2>2. row' \in 0..(Slots + 1)
    BY <1>1, <1>5, SlotsAssumption DEF Shapes
  <2>3. settings' \in Settings /\ cfg' \in Settings /\ out' = [c \in Channel |-> out'[c]]
    BY <1>1, <1>2 DEF Shapes
  <2>4. job' = [q \in Proc |-> job'[q]]
    BY <1>3
  <2> QED BY <2>1, <2>2, <2>3, <2>4 DEF Shapes
<1>7. MemoryOK' /\ DaemonJobOK'
  <2>1. CASE p = "daemon"
    BY <1>3, <2>1 DEF Restart, MemoryOK, Remembers, Matches, IsOn, Passed, DaemonJobOK
  <2>2. CASE p = "cgi"
    <3>1. UNCHANGED <<row, cfg, snap, active, before>> /\ job'["daemon"] = job["daemon"]
      BY <1>3, <2>2 DEF Restart, pollVars, Proc
    <3> QED BY <1>1, <3>1 DEF MemoryOK, Remembers, Passed, DaemonJobOK, Matches, IsOn
  <2> QED BY <2>1, <2>2 DEF Proc
<1>8. CgiJobOK'
  <2>1. job'["cgi"] = NoJob \/ job'["cgi"] = job["cgi"]
    BY <1>3 DEF Proc
  <2> QED BY <1>1, <2>1 DEF CgiJobOK
<1> QED BY <1>6, <1>7, <1>8 DEF IInv

LEMMA StepInv == IInv /\ [Next]_vars => IInv'
<1> SUFFICES ASSUME IInv, [Next]_vars PROVE IInv'
  OBVIOUS
<1>1. Shapes /\ MemoryOK /\ DaemonJobOK /\ CgiJobOK
  BY DEF IInv
<1>2. CASE do_poll
  <2>1. /\ row = 0 /\ row' = 1 /\ cfg' = settings
        /\ before' = {i \in 1..Slots :
                        IF cfg.rules[i] = NoRule THEN i \in before ELSE Matches(i)}
        /\ UNCHANGED <<settings, out, job, active>>
    BY <1>2 DEF do_poll
  <2>2. Shapes'
    BY <1>1, <2>1, SlotsAssumption DEF Shapes
  <2>3. MemoryOK'
    <3> SUFFICES ASSUME NEW i \in 1..Slots PROVE i \in active' <=> Remembers(i)'
      BY DEF MemoryOK
    <3>1. ~Passed(i)'
      BY <2>1 DEF Passed
    <3>2. i \in active <=> i \in before'
      BY <1>1, <2>1 DEF MemoryOK, Remembers, Passed
    <3> QED BY <2>1, <3>1, <3>2 DEF Remembers
  <2>4. DaemonJobOK' /\ CgiJobOK'
    BY <1>1, <2>1 DEF DaemonJobOK, CgiJobOK
  <2> QED BY <2>2, <2>3, <2>4 DEF IInv
<1>3. CASE PollDone
  <2>1. /\ row = Slots + 1 /\ row' = 0 /\ job["daemon"] = NoJob
        /\ UNCHANGED <<settings, out, cfg, job, snap, active, before>>
    BY <1>3 DEF PollDone, Idle
  <2>2. Shapes'
    BY <1>1, <2>1, SlotsAssumption DEF Shapes
  <2>3. \A i \in 1..Slots : Passed(i) /\ Passed(i)'
    BY <2>1, SlotsAssumption DEF Passed
  <2>4. MemoryOK'
    BY <1>1, <2>1, <2>3 DEF MemoryOK, Remembers, Matches, IsOn
  <2>5. DaemonJobOK' /\ CgiJobOK'
    BY <1>1, <2>1 DEF DaemonJobOK, CgiJobOK
  <2> QED BY <2>2, <2>4, <2>5 DEF IInv
<1>4. CASE RowAbsent \/ RowDisabled \/ RowActivates \/ RowClears \/ RowKeeps
  BY <1>4, RowStep DEF ProcessRow
<1>5. ASSUME NEW p \in Proc, alertoutput_on_activate(p) \/ Restart(p)
      PROVE  IInv'
  BY <1>5, ActivateStep, RestartStep
<1>6. CASE endpoint_test_display \/ endpoint_test_strobe \/ endpoint_test_d4200
           \/ endpoint_test_audio
  BY <1>6, TestStep
    DEF endpoint_test_display, endpoint_test_strobe, endpoint_test_d4200,
        endpoint_test_audio, Channel
<1>7. CASE Save \/ Repaint \/ (\E c \in Channel : Expire(c)) \/ UNCHANGED vars
  <2>1. UNCHANGED <<job, row, cfg, snap, active, before>> /\ settings' \in Settings
    BY <1>1, <1>7 DEF Shapes, Save, Repaint, Expire, vars, pollVars
  <2>2. out' = [c \in Channel |-> out'[c]]
    <3>1. out' = out \/ \E c \in Channel : out' = [out EXCEPT ![c] = Off]
      BY <1>7 DEF Save, Repaint, Expire, vars
    <3> QED BY <1>1, <3>1 DEF Shapes
  <2>3. Shapes'
    BY <1>1, <2>1, <2>2 DEF Shapes
  <2>4. MemoryOK' /\ DaemonJobOK' /\ CgiJobOK'
    BY <1>1, <2>1 DEF MemoryOK, Remembers, Passed, DaemonJobOK, Matches, IsOn, CgiJobOK
  <2> QED BY <2>3, <2>4 DEF IInv
<1> QED BY <1>2, <1>3, <1>4, <1>5, <1>6, <1>7 DEF Next, Daemon

-----------------------------------------------------------------------------
(* Only a request for a device can start it.                               *)
LEMMA StartedBy ==
  ASSUME IInv, [Next]_vars, NEW c \in Channel, Started(c)
  PROVE  \E p \in Proc : alertoutput_on_activate(p) /\ At(p, c) /\ Advance(p, c)
<1>1. out = [d \in Channel |-> out[d]]
  BY DEF IInv, Shapes
<1>2. ASSUME NEW p \in Proc, NEW d \in Channel, NEW made, NEW look, Ask(p, d, made, look)
      PROVE  At(p, c) /\ Advance(p, c)
  <2>1. out' = out \/ out' = [out EXCEPT ![d] = look]
    BY <1>2 DEF Ask
  <2>2. d = c
    BY <1>1, <2>1 DEF Started
  <2> QED BY <1>2, <2>2 DEF Ask
<1>3. ASSUME NEW p \in Proc, alertoutput_on_activate(p)
      PROVE  At(p, c) /\ Advance(p, c)
  <2>1. CASE display_show(p)
    BY <1>2, <2>1 DEF display_show, Channel
  <2>2. CASE strobe_start(p)
    BY <1>2, <2>2 DEF strobe_start, Channel
  <2>3. CASE d4200_start_profile(p)
    <3> DEFINE name == job[p].cfg.profile[TierOf(p)]
               made == job[p].cfg.host /\ name # ""
    <3>1. Ask(p, "d4200", made, [profile |-> name])
      BY <2>3 DEF d4200_start_profile
    <3> HIDE DEF made, name
    <3> QED BY <1>2, <3>1 DEF Channel
  <2>4. CASE audio_play_clip(p)
    BY <1>2, <2>4 DEF audio_play_clip, Channel
  <2>5. ~ao_ensure_colors(p)
    BY DEF ao_ensure_colors, Fill, Started
  <2> QED BY <1>3, <2>1, <2>2, <2>3, <2>4, <2>5 DEF alertoutput_on_activate
<1>4. ~(\E d \in Channel : Expire(d))
  BY <1>1 DEF Expire, Started
<1>5. out' # out
  BY DEF Started
<1>6. ~Daemon
  BY <1>5 DEF Daemon, do_poll, PollDone, RowAbsent, RowDisabled, RowActivates, RowClears, RowKeeps,
                  NextRow
<1>7. ~(endpoint_test_display \/ endpoint_test_strobe \/ endpoint_test_d4200
        \/ endpoint_test_audio)
  BY <1>5 DEF endpoint_test_display, endpoint_test_strobe, endpoint_test_d4200,
              endpoint_test_audio, Test
<1>8. ~(Save \/ Repaint \/ (\E p \in Proc : Restart(p)) \/ UNCHANGED vars)
  BY <1>5 DEF Save, Repaint, Restart, vars
<1> QED BY <1>3, <1>4, <1>6, <1>7, <1>8 DEF Next

(* The process that starts a device moves on in its activation.            *)
LEMMA StarterMoves ==
  ASSUME IInv, NEW p \in Proc, NEW c \in Channel, At(p, c), Advance(p, c)
  PROVE  job[p] # NoJob /\ job'[p] # job[p] /\ c \in job[p].todo
<1>1. c \in Step
  BY DEF Channel, Step, Place
<1> QED BY <1>1, AdvanceEffect DEF IInv, At

LEMMA InvHolds == Spec => []IInv
BY InitInv, StepInv, PTL DEF Spec

-----------------------------------------------------------------------------
(* The daemon starts hardware only for an alert that the poll under way    *)
(* has fetched, of an enabled row, that the poll before had not: through   *)
(* restarts, edits and tests, and for tables of any length.                *)
THEOREM FiresOnTransitionsHolds == Spec => FiresOnTransitions
<1> DEFINE Fires == \A c \in Channel :
                      (Started(c) /\ job["cgi"]' = job["cgi"]) =>
                        \E i \in 1..Slots \ before :
                          Matches(i) /\ cfg.rules[i].event = job["daemon"].event
<1>1. IInv /\ [Next]_vars => Fires
  <2> SUFFICES ASSUME IInv, [Next]_vars, NEW c \in Channel, Started(c),
                      job["cgi"]' = job["cgi"]
               PROVE  \E i \in 1..Slots \ before :
                        Matches(i) /\ cfg.rules[i].event = job["daemon"].event
    OBVIOUS
  <2>1. PICK p \in Proc : At(p, c) /\ Advance(p, c)
    BY StartedBy
  <2>2. job[p] # NoJob /\ job'[p] # job[p]
    BY <2>1, StarterMoves
  <2>3. p = "daemon"
    BY <2>2 DEF Proc
  <2> QED BY <2>2, <2>3 DEF IInv, DaemonJobOK
<1>2. []IInv /\ [][Next]_vars => [][Fires]_vars
  BY <1>1, PTL
<1> QED BY <1>2, InvHolds, PTL DEF Spec, FiresOnTransitions

(* A test starts nothing but the device it is for, whatever the daemon     *)
(* does at the same time and whatever is saved meanwhile.                  *)
THEOREM TestsStayInLaneHolds == Spec => TestsStayInLane
<1> DEFINE Stays == \A c \in Channel :
                      (Started(c) /\ job["daemon"]' = job["daemon"]) =>
                        job["cgi"].cfg.on = {c}
<1>1. IInv /\ [Next]_vars => Stays
  <2> SUFFICES ASSUME IInv, [Next]_vars, NEW c \in Channel, Started(c),
                      job["daemon"]' = job["daemon"]
               PROVE  job["cgi"].cfg.on = {c}
    OBVIOUS
  <2>1. PICK p \in Proc : At(p, c) /\ Advance(p, c)
    BY StartedBy
  <2>2. job[p] # NoJob /\ job'[p] # job[p] /\ c \in job[p].todo
    BY <2>1, StarterMoves
  <2>3. p = "cgi"
    BY <2>2 DEF Proc
  <2> QED BY <2>2, <2>3 DEF IInv, CgiJobOK
<1>2. []IInv /\ [][Next]_vars => [][Stays]_vars
  BY <1>1, PTL
<1> QED BY <1>2, InvHolds, PTL DEF Spec, TestsStayInLane

-----------------------------------------------------------------------------
(* Induction over the naturals, from the well-foundedness of inclusion     *)
(* among finite sets: the number that would be missing from S first.       *)
LEMMA Induction ==
  ASSUME NEW S, 0 \in S, \A n \in Nat : n \in S => n + 1 \in S
  PROVE  Nat \subseteq S
<1> SUFFICES ASSUME NEW k \in Nat, k \notin S PROVE FALSE
  OBVIOUS
<1> DEFINE T == {0..n : n \in Nat \ S}
<1>1. IsWellFoundedOn(StrictSubsetOrdering(Nat), FiniteSubsetsOf(Nat))
  BY FS_StrictSubsetOrderingWellFounded
<1>2. \A n \in Nat : 0..n \in FiniteSubsetsOf(Nat)
  BY FS_Interval DEF FiniteSubsetsOf
<1>3. T \subseteq FiniteSubsetsOf(Nat) /\ T # {}
  BY <1>2
<1>4. PICK x \in T : \A y \in T : <<y, x>> \notin StrictSubsetOrdering(Nat)
  <2> HIDE DEF T
  <2> QED BY <1>1, <1>3, WFMin
<1>5. PICK n \in Nat \ S : x = 0..n
  BY <1>4
<1>6. n - 1 \in Nat /\ n - 1 \notin S /\ 0..(n - 1) \in T
  BY <1>5
<1>7. 0..(n - 1) \subseteq 0..n /\ n \in 0..n /\ n \notin 0..(n - 1)
  BY <1>5
<1>8. <<0..(n - 1), 0..n>> \in StrictSubsetOrdering(Nat)
  BY <1>7 DEF StrictSubsetOrdering
<1> QED BY <1>4, <1>5, <1>6, <1>8

(* The scan of a list of names as a function exists.                       *)
IsScan(b, p, tier, n) ==
  b = [i \in 0..n |-> IF i = 0 THEN Nothing ELSE Closer(b[i - 1], p[i], tier)]

LEMMA ScanExists ==
  ASSUME NEW p, NEW tier
  PROVE  \A n \in Nat : \E b : IsScan(b, p, tier, n)
<1> DEFINE S == {n \in Nat : \E b : IsScan(b, p, tier, n)}
<1>1. 0 \in S
  <2>1. IsScan([i \in 0..0 |-> Nothing], p, tier, 0)
    BY DEF IsScan
  <2> QED BY <2>1
<1>2. ASSUME NEW n \in Nat, n \in S PROVE n + 1 \in S
  <2>1. PICK b : IsScan(b, p, tier, n)
    BY <1>2
  <2> DEFINE next == Closer(b[n], p[n + 1], tier)
             longer == [i \in 0..(n + 1) |-> IF i = n + 1 THEN next ELSE b[i]]
  <2>2. ASSUME NEW i \in 0..(n + 1)
        PROVE  longer[i] = IF i = 0 THEN Nothing ELSE Closer(longer[i - 1], p[i], tier)
    <3>1. CASE i = n + 1
      <4>1. longer[i] = next /\ longer[i - 1] = b[n]
        BY <3>1
      <4> QED BY <3>1, <4>1
    <3>2. CASE i \in 0..n
      <4>1. longer[i] = b[i] /\ (i # 0 => longer[i - 1] = b[i - 1])
        BY <3>2
      <4>2. b[i] = IF i = 0 THEN Nothing ELSE Closer(b[i - 1], p[i], tier)
        BY <2>1, <3>2 DEF IsScan
      <4> QED BY <4>1, <4>2
    <3> QED BY <3>1, <3>2
  <2>3. IsScan(longer, p, tier, n + 1)
    <3>1. longer = [i \in 0..(n + 1) |-> longer[i]]
      OBVIOUS
    <3> HIDE DEF longer
    <3> QED BY <2>2, <3>1 DEF IsScan
  <2> QED BY <2>3
<1> HIDE DEF S
<1>3. Nat \subseteq S
  BY <1>1, <1>2, Induction
<1> QED BY <1>3 DEF S

LEMMA ClosestScans ==
  ASSUME NEW p, NEW tier, Len(p) \in Nat
  PROVE  \E b : IsScan(b, p, tier, Len(p)) /\ Closest(p, tier) = b[Len(p)]
<1> DEFINE b == CHOOSE c : c = [i \in 0..Len(p) |-> IF i = 0 THEN Nothing ELSE Closer(c[i - 1], p[i], tier)]
<1>1. \E c : c = [i \in 0..Len(p) |-> IF i = 0 THEN Nothing ELSE Closer(c[i - 1], p[i], tier)]
  <2>1. PICK c : IsScan(c, p, tier, Len(p))
    BY ScanExists
  <2>2. c = [i \in 0..Len(p) |-> IF i = 0 THEN Nothing ELSE Closer(c[i - 1], p[i], tier)]
    BY <2>1 DEF IsScan
  <2> QED BY <2>2
<1>2. b = [i \in 0..Len(p) |-> IF i = 0 THEN Nothing ELSE Closer(b[i - 1], p[i], tier)]
  BY <1>1
<1>3. Closest(p, tier) = b[Len(p)]
  BY DEF Closest
<1> HIDE DEF b
<1> QED BY <1>2, <1>3 DEF IsScan

(* The distances the table's colours can have.                             *)
LEMMA Square == \A x \in Int : -255 <= x /\ x <= 255 => 0 <= x * x /\ x * x <= 65025
<1>1. \A x \in Int : 0 <= x * x
  OBVIOUS
<1>2. \A x \in Int : -255 <= x /\ x <= 255 => x * x <= 65025
  OBVIOUS
<1> QED BY <1>1, <1>2

LEMMA SumOfSquares ==
  ASSUME NEW x \in Int, NEW y \in Int, NEW z \in Int,
         -255 <= x, x <= 255, -255 <= y, y <= 255, -255 <= z, z <= 255
  PROVE  x * x + y * y + z * z \in Nat /\ x * x + y * y + z * z < 2147483647
<1>1. /\ 0 <= x * x /\ x * x <= 65025 /\ 0 <= y * y /\ y * y <= 65025
      /\ 0 <= z * z /\ z * z <= 65025
  BY Square
<1>2. \A a, b, c \in Int :
        0 <= a /\ a <= 65025 /\ 0 <= b /\ b <= 65025 /\ 0 <= c /\ c <= 65025 =>
          a + b + c \in Nat /\ a + b + c < 2147483647
  OBVIOUS
<1>3. x * x \in Int /\ y * y \in Int /\ z * z \in Int
  OBVIOUS
<1> QED BY <1>1, <1>2, <1>3

LEMMA DistanceBound ==
  ASSUME NEW name \in DOMAIN ao_palette_table, NEW tier \in Tier
  PROVE  Distance(name, tier) \in Nat /\ Distance(name, tier) < 2147483647
<1> DEFINE d(i) == ao_palette_table[name][i] - Target[tier][i]
<1>1. \A i \in 1..3 : ao_palette_table[name][i] \in 0..255
  BY DEF ao_palette_table
<1>2. \A i \in 1..3 : Target[tier][i] \in 0..255
  BY DEF Target, Tier, ao_palette_table
<1>3. \A i \in 1..3 : d(i) \in Int /\ -255 <= d(i) /\ d(i) <= 255
  <2>1. \A x, y \in 0..255 : x - y \in Int /\ -255 <= x - y /\ x - y <= 255
    OBVIOUS
  <2> QED BY <1>1, <1>2, <2>1
<1>4. Distance(name, tier) = d(1) * d(1) + d(2) * d(2) + d(3) * d(3)
  BY DEF Distance
<1>5. /\ d(1) \in Int /\ -255 <= d(1) /\ d(1) <= 255
      /\ d(2) \in Int /\ -255 <= d(2) /\ d(2) <= 255
      /\ d(3) \in Int /\ -255 <= d(3) /\ d(3) <= 255
  BY <1>3
<1> HIDE DEF d
<1> QED BY <1>4, <1>5, SumOfSquares

(* What the scan of a list has found after n names.                        *)
Known(p, n) == {p[i] : i \in 1..n} \cap DOMAIN ao_palette_table

FoundNearest(best, p, tier, n) ==
  IF Known(p, n) = {} THEN best = Nothing
  ELSE /\ best = [name |-> best.name, dist |-> Distance(best.name, tier)]
       /\ best.name \in Known(p, n)
       /\ \A m \in Known(p, n) : Distance(best.name, tier) <= Distance(m, tier)

LEMMA CloserFinds ==
  ASSUME NEW p, NEW tier \in Tier, NEW n \in Nat, NEW best, FoundNearest(best, p, tier, n)
  PROVE  FoundNearest(Closer(best, p[n + 1], tier), p, tier, n + 1)
<1> DEFINE name == p[n + 1]
           found == [name |-> name, dist |-> Distance(name, tier)]
<1>1. Known(p, n + 1) = Known(p, n) \cup ({name} \cap DOMAIN ao_palette_table)
  BY DEF Known
<1>2. \A m \in DOMAIN ao_palette_table :
        Distance(m, tier) \in Nat /\ Distance(m, tier) < 2147483647
  BY DistanceBound
<1>3. Known(p, n) \subseteq DOMAIN ao_palette_table
  BY DEF Known
<1>4. Closer(best, name, tier) =
        IF name \in DOMAIN ao_palette_table /\ Distance(name, tier) < best.dist
          THEN found ELSE best
  BY DEF Closer
<1>5. found.name = name /\ found.dist = Distance(name, tier)
  OBVIOUS
<1> DEFINE D(m) == Distance(m, tier)
<1>6. Nothing.dist = 2147483647
  BY DEF Nothing
<1>7. CASE name \notin DOMAIN ao_palette_table
  <2>1. Known(p, n + 1) = Known(p, n) /\ Closer(best, name, tier) = best
    BY <1>1, <1>4, <1>7
  <2> QED BY <2>1 DEF FoundNearest
<1>8. CASE name \in DOMAIN ao_palette_table /\ Known(p, n) = {}
  <2>1. best.dist = 2147483647
    BY <1>6, <1>8 DEF FoundNearest
  <2>2. Closer(best, name, tier) = found
    BY <1>2, <1>4, <1>8, <2>1
  <2>3. Known(p, n + 1) = {name}
    BY <1>1, <1>8
  <2>4. D(name) <= D(name)
    BY <1>2, <1>8
  <2> HIDE DEF found
  <2> QED BY <1>5, <2>2, <2>3, <2>4 DEF FoundNearest, found
<1>9. CASE name \in DOMAIN ao_palette_table /\ Known(p, n) # {}
  <2>1. /\ best = [name |-> best.name, dist |-> D(best.name)]
        /\ best.name \in Known(p, n)
        /\ \A m \in Known(p, n) : D(best.name) <= D(m)
    BY <1>9 DEF FoundNearest
  <2>2. best.dist = D(best.name)
    BY <2>1
  <2>3. Known(p, n + 1) = Known(p, n) \cup {name}
    BY <1>1, <1>9
  <2>4. \A m \in Known(p, n + 1) : D(m) \in Nat
    BY <1>2, <1>3, <1>9, <2>3
  <2>5. CASE D(name) < D(best.name)
    <3>1. Closer(best, name, tier) = found
      BY <1>4, <1>9, <2>2, <2>5
    <3>2. \A m \in Known(p, n + 1) : D(name) <= D(m)
      <4> HIDE DEF D, name
      <4> QED BY <2>1, <2>3, <2>4, <2>5
    <3> HIDE DEF name
    <3> QED BY <1>5, <2>3, <3>1, <3>2 DEF FoundNearest, name
  <2>6. CASE ~(D(name) < D(best.name))
    <3>1. Closer(best, name, tier) = best
      BY <1>4, <2>2, <2>6
    <3>2. \A m \in Known(p, n + 1) : D(best.name) <= D(m)
      <4> HIDE DEF D, name
      <4> QED BY <2>1, <2>3, <2>4, <2>6
    <3>3. best.name \in Known(p, n + 1)
      BY <2>1, <2>3
    <3> QED BY <2>1, <3>1, <3>2, <3>3 DEF FoundNearest
  <2> QED BY <2>5, <2>6
<1> QED BY <1>7, <1>8, <1>9

LEMMA ClosestFinds ==
  ASSUME NEW p, NEW tier \in Tier, Len(p) \in Nat
  PROVE  FoundNearest(Closest(p, tier), p, tier, Len(p))
<1>1. PICK b : IsScan(b, p, tier, Len(p)) /\ Closest(p, tier) = b[Len(p)]
  BY ClosestScans
<1> DEFINE S == {n \in Nat : n <= Len(p) => FoundNearest(b[n], p, tier, n)}
<1>2. 0 \in S
  <2>1. b[0] = Nothing
    BY <1>1 DEF IsScan
  <2>2. Known(p, 0) = {}
    BY DEF Known
  <2> QED BY <2>1, <2>2 DEF FoundNearest
<1>3. ASSUME NEW n \in Nat, n \in S PROVE n + 1 \in S
  <2> SUFFICES ASSUME n + 1 <= Len(p) PROVE FoundNearest(b[n + 1], p, tier, n + 1)
    OBVIOUS
  <2>1. FoundNearest(b[n], p, tier, n)
    BY <1>3
  <2>2. b[n + 1] = Closer(b[n], p[n + 1], tier)
    <3>1. n + 1 \in 0..Len(p) /\ n + 1 # 0 /\ (n + 1) - 1 = n
      OBVIOUS
    <3> QED BY <1>1, <3>1 DEF IsScan
  <2> QED BY <2>1, <2>2, CloserFinds
<1> HIDE DEF S
<1>4. Nat \subseteq S
  BY <1>2, <1>3, Induction
<1>5. Len(p) \in S
  BY <1>4
<1> QED BY <1>1, <1>5 DEF S

(* The probe names a listed colour than which none is nearer to the tier's,*)
(* or the fall-back if it knows none, for lists of any length and order.   *)
THEOREM ProbeIsNearest ==
  ASSUME NEW p \in Seq(STRING), NEW tier \in Tier
  PROVE  ao_probe_best_color(p, tier) \in Nearest(p, tier)
<1> DEFINE found == Closest(p, tier)
<1>1. FoundNearest(found, p, tier, Len(p))
  BY ClosestFinds
<1>2. CASE Known(p, Len(p)) = {}
  BY <1>1, <1>2 DEF FoundNearest, ao_probe_best_color, Nearest, Known
<1>3. CASE Known(p, Len(p)) # {}
  <2>1. found.name \in Known(p, Len(p))
        /\ \A m \in Known(p, Len(p)) : Distance(found.name, tier) <= Distance(m, tier)
    BY <1>1, <1>3 DEF FoundNearest
  <2>2. found # Nothing
    <3>1. found.name # None
      BY <2>1 DEF Known, ao_palette_table, None
    <3> QED BY <3>1 DEF Nothing
  <2>3. ao_probe_best_color(p, tier) = found.name
    BY <2>2 DEF ao_probe_best_color
  <2>4. Nearest(p, tier) = {n \in Known(p, Len(p)) : \A m \in Known(p, Len(p)) :
                              Distance(n, tier) <= Distance(m, tier)}
    BY <1>3 DEF Nearest, Known
  <2> HIDE DEF found
  <2> QED BY <2>1, <2>3, <2>4
<1> QED BY <1>2, <1>3

-----------------------------------------------------------------------------
(* Types, and what the strobe's colours come from.                         *)

(* The palette of the moment is among those seen; a cached colour is the   *)
(* nearest of one that was seen, or stands in for a failed probe.          *)
CacheOK ==
  \A p \in Proc :
    /\ palette \in seen[p]
    /\ \A t \in Tier :
         cache[p][t] # None =>
           (\E q \in seen[p] : cache[p][t] \in Nearest(q, t)) \/ t \in blind[p]

(* A strobe is not started before each tier has a colour or will get one.  *)
ColourStep == [warning |-> "warnColour", watch |-> "watchColour"]

ColoursFirst ==
  \A p \in Proc : "strobe" \in job[p].todo =>
    \A t \in Tier : ColourStep[t] \in job[p].todo \/ cache[p][t] # None

ColourInv == TypeOK /\ CacheOK /\ ColoursFirst

LEMMA JobParts ==
  ASSUME NEW e, NEW c
  PROVE  \/ Job(e, c) = NoJob
         \/ /\ Job(e, c).event = e /\ Job(e, c).cfg = c
            /\ Job(e, c).todo \subseteq Step
            /\ "strobe" \in Job(e, c).todo =>
                 \A t \in Tier : ColourStep[t] \in Job(e, c).todo
<1> DEFINE todo == {step \in Step :
                      (IF step \in Channel THEN step ELSE "strobe") \in c.on}
<1>1. Job(e, c) = IF todo = {} THEN NoJob ELSE [todo |-> todo, event |-> e, cfg |-> c]
  BY DEF Job
<1>2. todo \subseteq Step
  OBVIOUS
<1>3. "strobe" \in todo => \A t \in Tier : ColourStep[t] \in todo
  BY DEF Tier, ColourStep, Step, Place, Channel
<1> HIDE DEF todo
<1>4. CASE todo # {}
  <2>1. Job(e, c) = [todo |-> todo, event |-> e, cfg |-> c]
    BY <1>1, <1>4
  <2> QED BY <1>2, <1>3, <2>1
<1> QED BY <1>1, <1>4

LEMMA NoJobParts ==
  ASSUME TypeOK
  PROVE  NoJob.event \in Event /\ NoJob.cfg \in Setting /\ NoJob.todo = {}
<1>1. (CHOOSE s \in Settings : TRUE) \in Settings
  BY DEF TypeOK
<1> QED BY <1>1, SettingsAssumption, EventAssumption DEF NoJob

LEMMA ProbeType ==
  ASSUME NEW p \in Palettes, NEW t \in Tier
  PROVE  /\ ao_probe_best_color(p, t) \in Nearest(p, t)
         /\ ao_probe_best_color(p, t) \in DOMAIN ao_palette_table
<1>1. p \in Seq(STRING)
  BY PalettesAssumption
<1>2. ao_probe_best_color(p, t) \in Nearest(p, t)
  BY <1>1, ProbeIsNearest
<1>3. Nearest(p, t) \subseteq DOMAIN ao_palette_table
  <2>1. Fallback[t] \in DOMAIN ao_palette_table
    BY DEF Fallback, Tier, ao_palette_table
  <2> QED BY <2>1 DEF Nearest
<1> QED BY <1>2, <1>3

LEMMA TierType == \A p \in Proc : TierOf(p) \in Tier
BY DEF TierOf, alertoutput_classify, Tier

LEMMA NoneIsNoColour == None \notin DOMAIN ao_palette_table
BY DEF None, ao_palette_table

LEMMA InitColours == Init => ColourInv
<1> SUFFICES ASSUME Init PROVE ColourInv
  OBVIOUS
<1>1. (CHOOSE s \in Settings : TRUE) \in Settings
  BY DEF Init
<1>2. \A p \in Proc : /\ job[p].event \in Event /\ job[p].cfg \in Setting
                      /\ job[p].todo = {}
  BY <1>1, SettingsAssumption, EventAssumption DEF Init, NoJob
<1>3. cache \in [Proc -> [Tier -> DOMAIN ao_palette_table \cup {None}]]
  BY DEF Init, NoColours
<1>4. row \in 0..(Slots + 1) /\ incidents \in 0..MaxIncidents
  BY SlotsAssumption, MaxIncidentsAssumption DEF Init
<1>5. TypeOK
  BY <1>2, <1>3, <1>4 DEF Init, TypeOK
<1>6. CacheOK
  BY DEF Init, CacheOK, NoColours
<1>7. ColoursFirst
  BY <1>2 DEF ColoursFirst
<1> QED BY <1>5, <1>6, <1>7 DEF ColourInv

(* What a step of an activation leaves of it, as to types and order.       *)
LEMMA AdvanceType ==
  ASSUME IInv, ColourInv, NEW p \in Proc, NEW step \in Step, At(p, step), Advance(p, step)
  PROVE  /\ \A q \in Proc : /\ job'[q].event \in Event /\ job'[q].cfg \in Setting
                            /\ job'[q].todo \subseteq Step
         /\ \A q \in Proc \ {p} : job'[q] = job[q]
         /\ \A other \in Step \ {step} : other \in job[p].todo =>
              other \in job'[p].todo \/ job'[p].todo = {}
         /\ job'[p].todo \subseteq job[p].todo
<1>1. /\ \A q \in Proc \ {p} : job'[q] = job[q]
      /\ \/ job'[p] = NoJob
         \/ /\ job'[p] = [todo |-> job'[p].todo, event |-> job[p].event,
                           cfg |-> job[p].cfg]
            /\ job'[p].todo = job[p].todo \ {step}
  BY AdvanceEffect DEF IInv
<1>2. NoJob.event \in Event /\ NoJob.cfg \in Setting /\ NoJob.todo = {}
  BY NoJobParts DEF ColourInv
<1>3. CASE job'[p] = NoJob
  BY <1>1, <1>2, <1>3 DEF ColourInv, TypeOK
<1>4. CASE /\ job'[p] = [todo |-> job'[p].todo, event |-> job[p].event, cfg |-> job[p].cfg]
           /\ job'[p].todo = job[p].todo \ {step}
  <2>1. job'[p].event = job[p].event /\ job'[p].cfg = job[p].cfg
    BY <1>4
  <2> QED BY <1>1, <1>4, <2>1 DEF ColourInv, TypeOK
<1> QED BY <1>1, <1>3, <1>4

LEMMA AskColours ==
  ASSUME IInv, ColourInv, NEW p \in Proc, NEW c \in Channel, NEW made, NEW look,
         Ask(p, c, made, look), made => look \in Look(c)
  PROVE  ColourInv'
<1>1. c \in Step /\ \A t \in Tier : ColourStep[t] # c
  BY DEF Channel, Step, Place, Tier, ColourStep
<1>2. /\ At(p, c) /\ Advance(p, c)
      /\ out' = out \/ (made /\ out' = [out EXCEPT ![c] = look])
      /\ UNCHANGED <<settings, palette, cache, row, cfg, snap, active, before, seen, blind, incidents>>
  BY DEF Ask, pollVars
<1>3. \A d \in Channel : out'[d] = Off \/ out'[d] \in Look(d)
  BY <1>2 DEF ColourInv, TypeOK, IInv, Shapes
<1>4. TypeOK'
  BY <1>1, <1>2, <1>3, AdvanceType DEF ColourInv, TypeOK
<1>5. CacheOK'
  BY <1>2 DEF ColourInv, CacheOK
<1>6. ColoursFirst'
  <2> SUFFICES ASSUME NEW q \in Proc, "strobe" \in job'[q].todo, NEW t \in Tier
               PROVE  ColourStep[t] \in job'[q].todo \/ cache'[q][t] # None
    BY DEF ColoursFirst
  <2>1. ColourStep[t] \in Step /\ ColourStep[t] # c
    BY <1>1 DEF ColourStep, Tier, Step, Place
  <2>2. CASE q # p
    BY <1>1, <1>2, <2>2, AdvanceType DEF ColourInv, ColoursFirst
  <2>3. CASE q = p
    <3>1. "strobe" \in job[p].todo
      BY <1>1, <1>2, <2>3, AdvanceType
    <3>2. ColourStep[t] \in job[p].todo \/ cache[p][t] # None
      BY <3>1 DEF ColourInv, ColoursFirst
    <3> QED BY <1>1, <1>2, <2>1, <2>3, <3>2, AdvanceType
  <2> QED BY <2>2, <2>3
<1> QED BY <1>4, <1>5, <1>6 DEF ColourInv

LEMMA FillColours ==
  ASSUME IInv, ColourInv, NEW p \in Proc, NEW tier \in Tier, Fill(p, tier, ColourStep[tier])
  PROVE  ColourInv'
<1> DEFINE step == ColourStep[tier]
<1>1. step \in Step /\ step # "strobe"
  BY DEF ColourStep, Tier, Step, Place
<1>2. /\ At(p, step) /\ Advance(p, step)
      /\ UNCHANGED <<settings, palette, out, row, cfg, snap, active, before, seen, incidents>>
  BY DEF Fill, pollVars
<1>3. /\ palette \in Palettes
      /\ cache \in [Proc -> [Tier -> DOMAIN ao_palette_table \cup {None}]]
      /\ blind \in [Proc -> SUBSET Tier]
  BY DEF ColourInv, TypeOK
<1>4. PICK colour \in DOMAIN ao_palette_table \cup {None} :
        /\ colour # None
        /\ cache' = [cache EXCEPT ![p][tier] = colour]
        /\ \/ cache' = cache /\ blind' = blind
           \/ colour \in Nearest(palette, tier) /\ blind' = blind
           \/ blind' = [blind EXCEPT ![p] = @ \cup {tier}]
  <2>1. CASE cache[p][tier] # None
    <3>1. cache' = cache /\ blind' = blind
      BY <2>1 DEF Fill
    <3>2. cache' = [cache EXCEPT ![p][tier] = cache[p][tier]]
      BY <1>3, <3>1
    <3>3. cache[p][tier] \in DOMAIN ao_palette_table \cup {None}
      BY <1>3
    <3> QED BY <2>1, <3>1, <3>2, <3>3
  <2>2. CASE cache[p][tier] = None
    <3>1. \/ cache' = [cache EXCEPT ![p][tier] = ao_probe_best_color(palette, tier)]
             /\ blind' = blind
          \/ /\ cache' = [cache EXCEPT ![p][tier] = Fallback[tier]]
             /\ blind' = [blind EXCEPT ![p] = @ \cup {tier}]
      BY <2>2 DEF Fill
    <3>2. Fallback[tier] \in DOMAIN ao_palette_table
      BY DEF Fallback, Tier, ao_palette_table
    <3>3. /\ ao_probe_best_color(palette, tier) \in DOMAIN ao_palette_table
          /\ ao_probe_best_color(palette, tier) \in Nearest(palette, tier)
      BY <1>3, ProbeType
    <3> QED BY <3>1, <3>2, <3>3, NoneIsNoColour
  <2> QED BY <2>1, <2>2
<1>5. /\ cache' \in [Proc -> [Tier -> DOMAIN ao_palette_table \cup {None}]]
      /\ blind' \in [Proc -> SUBSET Tier]
  BY <1>3, <1>4
<1>6. cache'[p][tier] = colour
  BY <1>3, <1>4
<1>7. \A q \in Proc, t \in Tier : q # p \/ t # tier => cache'[q][t] = cache[q][t]
  BY <1>3, <1>4
<1>8. \A q \in Proc : blind[q] \subseteq blind'[q]
  BY <1>3, <1>4
<1> HIDE DEF step
<1>9. TypeOK'
  BY <1>1, <1>2, <1>5, AdvanceType DEF ColourInv, TypeOK
<1>10. CacheOK'
  <2> SUFFICES ASSUME NEW q \in Proc, NEW t \in Tier, cache'[q][t] # None
               PROVE  (\E r \in seen[q] : cache'[q][t] \in Nearest(r, t)) \/ t \in blind'[q]
    BY <1>2 DEF ColourInv, CacheOK
  <2>1. cache'[q][t] = cache[q][t] =>
          (\E r \in seen[q] : cache'[q][t] \in Nearest(r, t)) \/ t \in blind'[q]
    BY <1>8 DEF ColourInv, CacheOK
  <2>2. CASE q = p /\ t = tier
    <3>1. CASE cache' = cache
      BY <2>1, <3>1
    <3>2. CASE colour \in Nearest(palette, tier)
      BY <1>6, <2>2, <3>2 DEF ColourInv, CacheOK
    <3>3. CASE blind' = [blind EXCEPT ![p] = @ \cup {tier}]
      BY <1>3, <2>2, <3>3
    <3> QED BY <1>4, <3>1, <3>2, <3>3
  <2>3. CASE ~(q = p /\ t = tier)
    BY <1>7, <2>1, <2>3
  <2> QED BY <2>2, <2>3
<1>11. ColoursFirst'
  <2> SUFFICES ASSUME NEW q \in Proc, "strobe" \in job'[q].todo, NEW t \in Tier
               PROVE  ColourStep[t] \in job'[q].todo \/ cache'[q][t] # None
    BY DEF ColoursFirst
  <2>1. CASE q # p
    BY <1>1, <1>2, <1>7, <2>1, AdvanceType DEF ColourInv, ColoursFirst
  <2>2. CASE q = p /\ t = tier
    BY <1>4, <1>6, <2>2
  <2>3. CASE q = p /\ t # tier
    <3>1. "strobe" \in job[p].todo
      BY <1>1, <1>2, <2>3, AdvanceType
    <3>2. ColourStep[t] \in job[p].todo \/ cache[p][t] # None
      BY <3>1 DEF ColourInv, ColoursFirst
    <3>3. ColourStep[t] \in Step \ {step}
      BY <2>3 DEF ColourStep, Tier, Step, Place, step
    <3>4. job'[p].todo # {}
      BY <2>3
    <3> QED BY <1>1, <1>2, <1>7, <2>3, <3>2, <3>3, <3>4, AdvanceType
  <2> QED BY <2>1, <2>2, <2>3
<1> QED BY <1>9, <1>10, <1>11 DEF ColourInv

LEMMA ActivateColours ==
  ASSUME IInv, ColourInv, NEW p \in Proc, alertoutput_on_activate(p)
  PROVE  ColourInv'
<1>1. /\ TierOf(p) \in Tier /\ job[p].event \in Event /\ job[p].cfg \in Setting
      /\ cache[p][TierOf(p)] \in DOMAIN ao_palette_table \cup {None}
  BY TierType DEF ColourInv, TypeOK
<1>2. /\ Lasting(job[p].cfg.displayFor) \in Nat \ {0}
      /\ Lasting(job[p].cfg.strobeFor) \in Nat \ {0}
  <2>1. \A i \in Int : Lasting(i) \in Nat \ {0}
    BY DEF Lasting
  <2> QED BY <1>1, <2>1 DEF Setting
<1>3. CASE display_show(p)
  BY <1>1, <1>2, <1>3, AskColours DEF display_show, Channel, Look
<1>4. CASE strobe_start(p)
  <2>1. At(p, "strobe")
    BY <1>4 DEF strobe_start, Ask
  <2>2. \A t \in Tier : ColourStep[t] \notin job[p].todo
    BY <2>1 DEF At, ColourStep, Tier, Place
  <2>3. cache[p][TierOf(p)] \in DOMAIN ao_palette_table
    BY <1>1, <2>1, <2>2 DEF At, ColourInv, ColoursFirst
  <2> QED BY <1>1, <1>2, <1>4, <2>3, AskColours DEF strobe_start, Channel, Look
<1>5. CASE d4200_start_profile(p)
  <2> DEFINE name == job[p].cfg.profile[TierOf(p)]
             made == job[p].cfg.host /\ name # ""
  <2>1. Ask(p, "d4200", made, [profile |-> name])
    BY <1>5 DEF d4200_start_profile
  <2>2. made => [profile |-> name] \in Look("d4200")
    BY <1>1 DEF Setting, Look
  <2> HIDE DEF made, name
  <2> QED BY <2>1, <2>2, AskColours DEF Channel
<1>6. CASE audio_play_clip(p)
  <2> DEFINE clip == job[p].cfg.clip[TierOf(p)]
             made == clip >= 0
  <2>1. Ask(p, "audio", made, [clip |-> clip])
    BY <1>6 DEF audio_play_clip
  <2>2. clip \in Int
    BY <1>1 DEF Setting
  <2>3. made => [clip |-> clip] \in Look("audio")
    <3>1. made => clip \in Nat
      <4> HIDE DEF clip
      <4> QED BY <2>2
    <3> HIDE DEF clip, made
    <3> QED BY <3>1 DEF Look
  <2> HIDE DEF made, clip
  <2> QED BY <2>1, <2>3, AskColours DEF Channel
<1>7. CASE ao_ensure_colors(p)
  BY <1>7, FillColours DEF ao_ensure_colors, ColourStep, Tier
<1> QED BY <1>3, <1>4, <1>5, <1>6, <1>7 DEF alertoutput_on_activate

(* A new activation, by the daemon for a row or by the CGI for a test.     *)
LEMMA NewJob ==
  ASSUME IInv, ColourInv, NEW p \in Proc, NEW e \in Event, NEW c \in Setting,
         job' = [job EXCEPT ![p] = Job(e, c)]
  PROVE  /\ \A q \in Proc : /\ job'[q].event \in Event /\ job'[q].cfg \in Setting
                            /\ job'[q].todo \subseteq Step
         /\ \A q \in Proc \ {p} : job'[q] = job[q]
         /\ "strobe" \in job'[p].todo => \A t \in Tier : ColourStep[t] \in job'[p].todo
<1>1. job'[p] = Job(e, c) /\ \A q \in Proc \ {p} : job'[q] = job[q]
  BY DEF IInv, Shapes
<1>2. /\ Job(e, c).event \in Event /\ Job(e, c).cfg \in Setting
      /\ Job(e, c).todo \subseteq Step
      /\ "strobe" \in Job(e, c).todo => \A t \in Tier : ColourStep[t] \in Job(e, c).todo
  <2>1. NoJob.event \in Event /\ NoJob.cfg \in Setting /\ NoJob.todo = {}
    BY NoJobParts DEF ColourInv
  <2>2. CASE Job(e, c) = NoJob
    BY <2>1, <2>2
  <2>3. CASE Job(e, c) # NoJob
    BY <2>3, JobParts
  <2> QED BY <2>2, <2>3
<1> QED BY <1>1, <1>2 DEF ColourInv, TypeOK

(* The caches after a process has dropped its own.                         *)
LEMMA ForgetColours ==
  ASSUME ColourInv, NEW p \in Proc, Forget(p), UNCHANGED palette
  PROVE  /\ cache' \in [Proc -> [Tier -> DOMAIN ao_palette_table \cup {None}]]
         /\ seen' \in [Proc -> SUBSET Palettes] /\ blind' \in [Proc -> SUBSET Tier]
         /\ CacheOK'
         /\ \A q \in Proc \ {p} : cache'[q] = cache[q]
<1>1. /\ palette \in Palettes
      /\ cache \in [Proc -> [Tier -> DOMAIN ao_palette_table \cup {None}]]
      /\ seen \in [Proc -> SUBSET Palettes] /\ blind \in [Proc -> SUBSET Tier]
      /\ CacheOK
  BY DEF ColourInv, TypeOK
<1>2. NoColours \in [Tier -> DOMAIN ao_palette_table \cup {None}]
      /\ \A t \in Tier : NoColours[t] = None
  BY DEF NoColours
<1>3. /\ cache' = [cache EXCEPT ![p] = NoColours]
      /\ seen' = [seen EXCEPT ![p] = {palette}]
      /\ blind' = [blind EXCEPT ![p] = {}]
  BY DEF Forget
<1>4. /\ cache' \in [Proc -> [Tier -> DOMAIN ao_palette_table \cup {None}]]
      /\ seen' \in [Proc -> SUBSET Palettes] /\ blind' \in [Proc -> SUBSET Tier]
  BY <1>1, <1>2, <1>3
<1>5. /\ cache'[p] = NoColours /\ seen'[p] = {palette}
      /\ \A q \in Proc \ {p} : cache'[q] = cache[q] /\ seen'[q] = seen[q] /\ blind'[q] = blind[q]
  BY <1>1, <1>3
<1>6. CacheOK'
  <2> SUFFICES ASSUME NEW q \in Proc
               PROVE  /\ palette \in seen'[q]
                      /\ \A t \in Tier :
                           cache'[q][t] # None =>
                             \/ \E r \in seen'[q] : cache'[q][t] \in Nearest(r, t)
                             \/ t \in blind'[q]
    BY DEF CacheOK
  <2>1. CASE q = p
    BY <1>2, <1>5, <2>1
  <2>2. CASE q # p
    BY <1>1, <1>5, <2>2 DEF CacheOK
  <2> QED BY <2>1, <2>2
<1> QED BY <1>4, <1>5, <1>6

LEMMA RowColours ==
  ASSUME IInv, ColourInv, ProcessRow
  PROVE  ColourInv'
<1> USE DEF ProcessRow, RowAbsent, RowDisabled, RowActivates, RowClears, RowKeeps
<1> DEFINE e == cfg.rules[row].event
<1>1. /\ row \in 1..Slots /\ job["daemon"] = NoJob /\ row' = row + 1
      /\ UNCHANGED <<settings, palette, out, cfg, snap, before, incidents>>
      /\ active' \subseteq active \cup {row}
  BY DEF AtRow, NextRow, Idle
<1>2. row' \in 0..(Slots + 1)
  BY <1>1, SlotsAssumption
<1>3. /\ cfg \in Setting /\ active' \subseteq 1..Slots
      /\ RowActivates => e \in Event
  <2>1. cfg \in Setting /\ active' \subseteq 1..Slots
    BY <1>1, SettingsAssumption DEF ColourInv, TypeOK
  <2>2. ASSUME RowActivates PROVE e \in Event
    <3>1. cfg.rules[row] # NoRule
      BY <2>2 DEF Matches, IsOn
    <3>2. cfg.rules[row] \in Rule
      BY <1>1, <2>1, <3>1 DEF Setting
    <3> QED BY <3>2 DEF Rule
  <2> QED BY <2>1, <2>2
<1>4. job["daemon"].todo = {}
  BY <1>1, NoJobParts DEF ColourInv
<1>5. CASE RowClears
  <2>1. job' = job /\ Forget("daemon")
    BY <1>5
  <2>2. /\ cache' \in [Proc -> [Tier -> DOMAIN ao_palette_table \cup {None}]]
        /\ seen' \in [Proc -> SUBSET Palettes] /\ blind' \in [Proc -> SUBSET Tier]
        /\ CacheOK' /\ \A q \in Proc \ {"daemon"} : cache'[q] = cache[q]
    BY <1>1, <2>1, ForgetColours DEF Proc
  <2>3. TypeOK'
    BY <1>1, <1>2, <1>3, <2>1, <2>2 DEF ColourInv, TypeOK
  <2>4. ColoursFirst'
    BY <1>4, <2>1, <2>2 DEF ColourInv, ColoursFirst
  <2> QED BY <2>2, <2>3, <2>4 DEF ColourInv
<1>6. CASE RowAbsent \/ RowDisabled \/ RowActivates \/ RowKeeps
  <2>1. /\ UNCHANGED <<cache, seen, blind>>
        /\ \/ job' = job
           \/ RowActivates /\ job' = [job EXCEPT !["daemon"] = Job(e, cfg)]
    BY <1>6 DEF Forgetless
  <2>2. /\ \A q \in Proc : /\ job'[q].event \in Event /\ job'[q].cfg \in Setting
                           /\ job'[q].todo \subseteq Step
        /\ \A q \in Proc \ {"daemon"} : job'[q] = job[q]
        /\ "strobe" \in job'["daemon"].todo =>
             \A t \in Tier : ColourStep[t] \in job'["daemon"].todo
    <3>1. CASE job' = job
      BY <1>4, <3>1 DEF ColourInv, TypeOK
    <3>2. CASE RowActivates /\ job' = [job EXCEPT !["daemon"] = Job(e, cfg)]
      <4> HIDE DEF e
      <4> QED BY <1>3, <3>2, NewJob DEF Proc
    <3> QED BY <2>1, <3>1, <3>2
  <2>3. TypeOK'
    BY <1>1, <1>2, <1>3, <2>1, <2>2 DEF ColourInv, TypeOK
  <2>4. CacheOK'
    BY <1>1, <2>1 DEF ColourInv, CacheOK
  <2>5. ColoursFirst'
    BY <2>1, <2>2 DEF ColourInv, ColoursFirst
  <2> QED BY <2>3, <2>4, <2>5 DEF ColourInv
<1> QED BY <1>5, <1>6

LEMMA IncidentCount ==
  ASSUME TypeOK, Incident
  PROVE  incidents' \in 0..MaxIncidents
BY MaxIncidentsAssumption DEF TypeOK, Incident

LEMMA TestColours ==
  ASSUME IInv, ColourInv, NEW c \in Channel, NEW e \in Event, Test(c, e)
  PROVE  ColourInv'
<1>1. Only(c) \in Setting
  <2>1. settings \in Setting
    BY SettingsAssumption DEF ColourInv, TypeOK
  <2>2. {c} \in SUBSET Channel /\ 5 \in Int
    OBVIOUS
  <2> QED BY <2>1, <2>2 DEF Only, Setting
<1>2. /\ job' = [job EXCEPT !["cgi"] = Job(e, Only(c))]
      /\ UNCHANGED <<settings, palette, out, cache, row, cfg, snap, active, before, seen, blind>>
      /\ incidents' \in 0..MaxIncidents
  BY IncidentCount DEF Test, ColourInv
<1>3. /\ \A q \in Proc : /\ job'[q].event \in Event /\ job'[q].cfg \in Setting
                         /\ job'[q].todo \subseteq Step
      /\ \A q \in Proc \ {"cgi"} : job'[q] = job[q]
      /\ "strobe" \in job'["cgi"].todo => \A t \in Tier : ColourStep[t] \in job'["cgi"].todo
  BY <1>1, <1>2, NewJob DEF Proc
<1>4. TypeOK'
  BY <1>2, <1>3 DEF ColourInv, TypeOK
<1>5. CacheOK'
  BY <1>2 DEF ColourInv, CacheOK
<1>6. ColoursFirst'
  BY <1>2, <1>3 DEF ColourInv, ColoursFirst
<1> QED BY <1>4, <1>5, <1>6 DEF ColourInv

LEMMA RestartColours ==
  ASSUME IInv, ColourInv, NEW p \in Proc, Restart(p)
  PROVE  ColourInv'
<1>1. /\ job' = [job EXCEPT ![p] = NoJob] /\ Forget(p)
      /\ UNCHANGED <<settings, palette, out, cfg>>
      /\ incidents' \in 0..MaxIncidents
  BY IncidentCount DEF Restart, pollVars, ColourInv
<1>2. /\ row' = 0 \/ row' = row
      /\ snap' \subseteq snap /\ active' \subseteq active /\ before' \subseteq before
  BY DEF Restart, pollVars
<1>3. /\ row' \in 0..(Slots + 1)
      /\ snap' \subseteq Event /\ active' \subseteq 1..Slots /\ before' \subseteq 1..Slots
  BY <1>2, SlotsAssumption DEF ColourInv, TypeOK
<1>4. job'[p] = NoJob /\ \A q \in Proc \ {p} : job'[q] = job[q]
  BY <1>1 DEF IInv, Shapes
<1>5. NoJob.event \in Event /\ NoJob.cfg \in Setting /\ NoJob.todo = {}
  BY NoJobParts DEF ColourInv
<1>6. /\ cache' \in [Proc -> [Tier -> DOMAIN ao_palette_table \cup {None}]]
      /\ seen' \in [Proc -> SUBSET Palettes] /\ blind' \in [Proc -> SUBSET Tier]
      /\ CacheOK' /\ \A q \in Proc \ {p} : cache'[q] = cache[q]
  BY <1>1, ForgetColours
<1>7. \A q \in Proc : /\ job'[q].event \in Event /\ job'[q].cfg \in Setting
                     /\ job'[q].todo \subseteq Step
  BY <1>4, <1>5 DEF ColourInv, TypeOK
<1>8. TypeOK'
  BY <1>1, <1>3, <1>6, <1>7 DEF ColourInv, TypeOK
<1>9. ColoursFirst'
  BY <1>4, <1>5, <1>6 DEF ColourInv, ColoursFirst
<1> QED BY <1>6, <1>8, <1>9 DEF ColourInv

LEMMA StepColours == IInv /\ ColourInv /\ [Next]_vars => ColourInv'
<1> SUFFICES ASSUME IInv, ColourInv, [Next]_vars PROVE ColourInv'
  OBVIOUS
<1>1. CASE do_poll
  <2>1. /\ row' = 1 /\ cfg' = settings /\ before' \subseteq 1..Slots
        /\ snap' \subseteq Event
        /\ UNCHANGED <<settings, palette, out, cache, job, active, seen, blind, incidents>>
    BY <1>1 DEF do_poll
  <2>2. row' \in 0..(Slots + 1)
    BY <2>1, SlotsAssumption
  <2>4. TypeOK'
    BY <2>1, <2>2 DEF ColourInv, TypeOK
  <2> QED BY <2>1, <2>4 DEF ColourInv, CacheOK, ColoursFirst
<1>2. CASE PollDone
  <2>1. /\ row' = 0
        /\ UNCHANGED <<settings, palette, out, cache, job, cfg, snap, active, before, seen,
                       blind, incidents>>
    BY <1>2 DEF PollDone
  <2>2. row' \in 0..(Slots + 1)
    BY <2>1, SlotsAssumption
  <2> QED BY <2>1, <2>2 DEF ColourInv, TypeOK, CacheOK, ColoursFirst
<1>3. CASE RowAbsent \/ RowDisabled \/ RowActivates \/ RowClears \/ RowKeeps
  BY <1>3, RowColours DEF ProcessRow
<1>4. ASSUME NEW p \in Proc, alertoutput_on_activate(p) \/ Restart(p)
      PROVE  ColourInv'
  BY <1>4, ActivateColours, RestartColours
<1>5. CASE endpoint_test_display \/ endpoint_test_strobe \/ endpoint_test_d4200
           \/ endpoint_test_audio
  BY <1>5, TestColours, EventAssumption
    DEF endpoint_test_display, endpoint_test_strobe, endpoint_test_d4200,
        endpoint_test_audio, Channel
<1>6. CASE Save
  <2>1. /\ settings' \in Settings /\ incidents' \in 0..MaxIncidents
        /\ UNCHANGED <<palette, out, cache, job, row, cfg, snap, active, before, seen, blind>>
    BY <1>6, IncidentCount DEF Save, pollVars, ColourInv
  <2> QED BY <2>1 DEF ColourInv, TypeOK, CacheOK, ColoursFirst
<1>7. CASE Repaint
  <2>1. /\ palette' \in Palettes /\ incidents' \in 0..MaxIncidents
        /\ seen' = [p \in Proc |-> seen[p] \cup {palette'}]
        /\ UNCHANGED <<settings, out, cache, job, row, cfg, snap, active, before, blind>>
    BY <1>7, IncidentCount DEF Repaint, pollVars, ColourInv
  <2>2. seen' \in [Proc -> SUBSET Palettes]
    BY <2>1 DEF ColourInv, TypeOK
  <2>3. TypeOK'
    BY <2>1, <2>2 DEF ColourInv, TypeOK
  <2>4. CacheOK'
    <3>1. \A p \in Proc : seen[p] \subseteq seen'[p] /\ palette' \in seen'[p]
      BY <2>1
    <3> QED BY <2>1, <3>1 DEF ColourInv, CacheOK
  <2> QED BY <2>1, <2>3, <2>4 DEF ColourInv, ColoursFirst
<1>8. ASSUME NEW c \in Channel, Expire(c) PROVE ColourInv'
  <2>1. /\ out' = [out EXCEPT ![c] = Off]
        /\ UNCHANGED <<settings, palette, cache, job, row, cfg, snap, active, before, seen,
                       blind, incidents>>
    BY <1>8 DEF Expire, pollVars
  <2>2. \A d \in Channel : out'[d] = Off \/ out'[d] \in Look(d)
    BY <2>1 DEF ColourInv, TypeOK, IInv, Shapes
  <2> QED BY <2>1, <2>2 DEF ColourInv, TypeOK, CacheOK, ColoursFirst
<1>9. CASE UNCHANGED vars
  BY <1>9 DEF vars, ColourInv, TypeOK, CacheOK, ColoursFirst
<1> QED BY <1>1, <1>2, <1>3, <1>4, <1>5, <1>6, <1>7, <1>8, <1>9 DEF Next, Daemon

LEMMA ColoursHold == Spec => [](IInv /\ ColourInv)
BY InitInv, StepInv, InitColours, StepColours, PTL DEF Spec

(* The type of every variable, for any rows, settings and palettes: a      *)
(* device is asked for a positive time, a listed colour, a named profile.  *)
THEOREM TypeCorrect == Spec => []TypeOK
BY ColoursHold, PTL DEF ColourInv

(* A lit strobe shows the nearest colour of a palette its device had since *)
(* the cache was last dropped, unless a probe failed since: for any        *)
(* palettes, updates, lost requests, restarts and interleavings.           *)
THEOREM StrobeShowsDeviceColourHolds == Spec => StrobeShowsDeviceColour
<1> DEFINE Shows ==
             Started("strobe") =>
               \E p \in Proc :
                 /\ At(p, "strobe") /\ job'[p] # job[p]
                 /\ LET tier == out'["strobe"].pulse
                    IN  \/ \E q \in seen[p] : out'["strobe"].colour \in Nearest(q, tier)
                        \/ tier \in blind[p]
<1>1. IInv /\ ColourInv /\ [Next]_vars => Shows
  <2> SUFFICES ASSUME IInv, ColourInv, [Next]_vars, Started("strobe") PROVE Shows
    OBVIOUS
  <2>1. "strobe" \in Channel
    BY DEF Channel
  <2>2. PICK p \in Proc : /\ alertoutput_on_activate(p)
                         /\ At(p, "strobe") /\ Advance(p, "strobe")
    BY <2>1, StartedBy
  <2>3. job[p] # NoJob /\ job'[p] # job[p]
    BY <2>1, <2>2, StarterMoves
  <2>4. strobe_start(p)
    <3>1. \A step \in {"display", "d4200", "audio", "warnColour", "watchColour"} : ~At(p, step)
      BY <2>2 DEF At, Place
    <3> QED
      BY <2>2, <3>1
        DEF alertoutput_on_activate, display_show, ao_ensure_colors, d4200_start_profile,
            audio_play_clip, Ask, Fill
  <2>5. /\ out'["strobe"].colour = cache[p][TierOf(p)]
        /\ out'["strobe"].pulse = TierOf(p)
    <3> DEFINE look == [colour |-> cache[p][TierOf(p)], pulse |-> TierOf(p),
                        seconds |-> Lasting(job[p].cfg.strobeFor)]
    <3>1. look.colour = cache[p][TierOf(p)] /\ look.pulse = TierOf(p)
      OBVIOUS
    <3>2. out' = out \/ out' = [out EXCEPT !["strobe"] = look]
      BY <2>4 DEF strobe_start, Ask
    <3> HIDE DEF look
    <3>3. out'["strobe"] = look
      BY <2>1, <3>2 DEF Started, IInv, Shapes
    <3> QED BY <3>1, <3>3
  <2>6. cache[p][TierOf(p)] # None /\ TierOf(p) \in Tier
    <3>1. TierOf(p) \in Tier
      BY TierType
    <3>2. \A t \in Tier : ColourStep[t] \notin job[p].todo
      BY <2>2 DEF At, ColourStep, Tier, Place
    <3> QED BY <2>2, <3>1, <3>2 DEF At, ColourInv, ColoursFirst
  <2> QED BY <2>2, <2>3, <2>5, <2>6 DEF ColourInv, CacheOK
<1>2. [](IInv /\ ColourInv) /\ [][Next]_vars => [][Shows]_vars
  BY <1>1, PTL
<1> QED BY <1>2, ColoursHold, PTL DEF Spec, StrobeShowsDeviceColour
=============================================================================
