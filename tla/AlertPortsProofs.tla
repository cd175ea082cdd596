-------------------------- MODULE AlertPortsProofs --------------------------
(***************************************************************************)
(* What AlertPorts promises for every set of ports, triggers and tables:   *)
(* no alert missed, ports that mirror the rules, listeners that agree,     *)
(* loops that end, and ports that neither flicker nor come back.           *)
(***************************************************************************)
EXTENDS AlertPorts, TLAPS

USE DEF Engine, Slot, portVars, Ports, listeners

-----------------------------------------------------------------------------
(* Type correctness.                                                       *)

(* Every table the daemon holds has well-formed rows in existing slots.    *)
LEMMA TableType ==
  ASSUME NEW t \in Tables \cup {NoTable}
  PROVE  /\ t \in [Engine -> Seq(Rule)]
         /\ \A e \in Engine : Len(t[e]) \in Nat /\ Len(t[e]) <= MaxRules
         /\ \A e \in Engine : \A i \in 1..Len(t[e]) :
              t[e][i] \in Rule /\ i \in Slot
<1>1. CASE t \in Tables
  <2>1. t \in [Engine -> Seq(Rule)] /\ \A e \in Engine : Len(t[e]) <= MaxRules
    BY <1>1, TablesAssumption
  <2>2. \A e \in Engine : t[e] \in Seq(Rule) /\ Len(t[e]) \in Nat
    BY <2>1
  <2>3. \A e \in Engine : \A i \in 1..Len(t[e]) : t[e][i] \in Rule /\ i \in Slot
    BY <2>1, <2>2, TablesAssumption
  <2> QED BY <2>1, <2>2, <2>3
<1>2. CASE t = NoTable
  BY <1>2, TablesAssumption DEF NoTable
<1> QED BY <1>1, <1>2

(* A port request keeps the ports' type.                                   *)
LEMMA SetPortType ==
  ASSUME port \in [Port -> BOOLEAN], astray \subseteq Port,
         NEW p \in Port, NEW on \in BOOLEAN, SetPort(p, on) \/ SetPortByHand(p, on)
  PROVE  port' \in [Port -> BOOLEAN] /\ astray' \subseteq Port
BY DEF SetPort, SetPortByHand

(* Processing a slot keeps every variable's type.                          *)
LEMMA SlotType ==
  ASSUME TypeOK, ProcessSlot, idx >= 1
  PROVE  TypeOK'
<1> USE DEF TypeOK
<1>1. port' \in [Port -> BOOLEAN] /\ astray' \subseteq Port
  <2>1. pc \in Engine /\ idx \in 1..Len(tab[pc])
    <3>1. pc \in Engine /\ idx <= Len(tab[pc])
      BY DEF ProcessSlot, SlotDisabled, SlotActivate, SlotClear, SlotKeep, InLoop
    <3> QED BY <3>1, TableType
  <2>2. Row.port \in Port
    BY <2>1, TableType DEF Row, Rule
  <2> QED BY <2>2, SetPortType DEF ProcessSlot, SlotDisabled, SlotActivate, SlotClear, SlotKeep
<1>2. \E b \in BOOLEAN : prev' = prev \/ prev' = [prev EXCEPT ![pc][idx] = b]
  BY DEF ProcessSlot, SlotDisabled, SlotActivate, SlotClear, SlotKeep, Remember
<1>3. prev' \in [Engine -> [Slot -> BOOLEAN]]
  <2>1. PICK b \in BOOLEAN : prev' = prev \/ prev' = [prev EXCEPT ![pc][idx] = b]
    BY <1>2
  <2>2. [prev[pc] EXCEPT ![idx] = b] \in [Slot -> BOOLEAN]
    BY DEF ProcessSlot, SlotDisabled, SlotActivate, SlotClear, SlotKeep, InLoop
  <2> QED BY <2>1, <2>2
<1>4. \E t, a : /\ a \in {"activated", "cleared"}
                /\ reported' \in {reported, [reported EXCEPT ![t] = a]}
                /\ eventActive' \in BOOLEAN /\ heard' \in BOOLEAN
  BY DEF ProcessSlot, SlotDisabled, SlotActivate, SlotClear, SlotKeep, Report, Publish, Silent
<1>5. reported' \in [Trigger -> Mark] /\ eventActive' \in BOOLEAN /\ heard' \in BOOLEAN
  BY <1>4 DEF Mark
<1>6. idx' = idx + 1 /\ UNCHANGED <<weather, config, pc, tab, snap, cgi, manual>>
  BY DEF ProcessSlot, SlotDisabled, SlotActivate, SlotClear, SlotKeep, NextSlot, cgiVars
<1> QED BY <1>1, <1>3, <1>5, <1>6

(* The rule a CGI loop is at drives a port of the device.                  *)
LEMMA CgiRow ==
  ASSUME TypeOK, LoopOK, CgiSlot
  PROVE  cgi.rows[cgi.i].port \in Port
<1>1. cgi.rows \in Seq(Rule) /\ cgi.i \in Nat
  BY DEF TypeOK
<1>2. cgi.i \in 1..Len(cgi.rows)
  BY <1>1 DEF CgiSlot, LoopOK
<1>3. cgi.rows[cgi.i] \in Rule
  BY <1>1, <1>2
<1> QED BY <1>3 DEF Rule

LEMMA NoRequestType ==
  NoRequest \in [op : {"none", "clear", "drill"}, rows : Seq(Rule), i : Nat]
<1>1. << >> \in Seq(Rule)
  OBVIOUS
<1> QED BY <1>1 DEF NoRequest

(* What can be received: always triggers; all that holds, if requests are  *)
(* answered in full; nothing of quiet weather, if readings come.           *)
LEMMA SnapshotsType == TypeOK => Snapshots \subseteq SUBSET Trigger
BY EventAssumption DEF TypeOK, Snapshots, AlertsReceived, CrossingsReceived

LEMMA SnapshotsInFull ==
  ASSUME TypeOK, Env \cap {"alertfetch", "readings"} = {}
  PROVE  Snapshots = {weather}
<1>1. AlertsReceived = {weather \cap Event} /\ CrossingsReceived = {weather \ Event}
  BY DEF AlertsReceived, CrossingsReceived
<1>2. (weather \cap Event) \cup (weather \ Event) = weather
  OBVIOUS
<1>3. \A s : s \in Snapshots <=> \E a \in AlertsReceived, c \in CrossingsReceived : s = a \cup c
  BY DEF Snapshots
<1>4. \A s : s \in Snapshots <=> s = weather
  BY <1>1, <1>2, <1>3
<1> QED BY <1>4

LEMMA SnapshotsQuiet ==
  ASSUME "readings" \notin Env, weather = {}
  PROVE  \A s \in Snapshots : s = {}
<1>1. \A a \in AlertsReceived : a = {}
  BY DEF AlertsReceived
<1>2. \A c \in CrossingsReceived : c = {}
  BY DEF CrossingsReceived
<1>3. {} \cup {} = {}
  OBVIOUS
<1> QED BY <1>1, <1>2, <1>3 DEF Snapshots

(* Every variable keeps its type in every step.                            *)
LEMMA StepType == TypeOK /\ LoopOK /\ [Next]_vars => TypeOK'
<1> SUFFICES ASSUME TypeOK, LoopOK, [Next]_vars PROVE TypeOK'
  OBVIOUS
<1> USE DEF TypeOK, cgiVars, daemonVars
<1>1. CASE BeginPoll
  BY <1>1, SnapshotsType DEF BeginPoll, Config
<1>2. CASE alerts_process \/ threshold_process
  BY <1>2, SlotType DEF alerts_process, threshold_process, LoopOK
<1>3. CASE AlertsDone \/ ThresholdsDone
  BY <1>3 DEF AlertsDone, ThresholdsDone
<1>4. CASE StopSlot
  <2>1. tab["alert"][idx].port \in Port
    BY <1>4, TableType DEF StopSlot, LoopOK, Rule
  <2>2. port' \in [Port -> BOOLEAN] /\ astray' \subseteq Port
    BY <1>4, <2>1, SetPortType DEF StopSlot
  <2> QED BY <1>4, <2>2 DEF StopSlot
<1>5. CASE Stopped
  BY <1>5 DEF Stopped
<1>6. CASE ApplySave
  BY <1>6 DEF ApplySave
<1>7. CASE BeginStop
  BY <1>7 DEF BeginStop, Config
<1>8. CASE Crash
  BY <1>8 DEF Crash
<1>9. CASE Start
  BY <1>9 DEF Start, NoMemory, Mark
<1>10. ASSUME NEW p \in Port, NEW on \in BOOLEAN, FirePort(p, on)
       PROVE  TypeOK'
  BY <1>10, SetPortType, MaxManualAssumption DEF FirePort
<1>11. CASE FireDrill \/ ClearAll
  <2>1. PICK op \in {"drill", "clear"} : BeginLoop(op)
    BY <1>11 DEF FireDrill, ClearAll
  <2>2. config.table["alert"] \in Seq(Rule)
    BY TablesAssumption DEF Config
  <2> QED BY <2>1, <2>2, MaxManualAssumption DEF BeginLoop
<1>12. CASE CgiSlot
  <2>1. port' \in [Port -> BOOLEAN] /\ astray' \subseteq Port
    <3>1. cgi.rows[cgi.i].port \in Port
      BY <1>12, CgiRow
    <3> QED BY <1>12, <3>1, SetPortType DEF CgiSlot
  <2>2. cgi' \in [op : {"none", "clear", "drill"}, rows : Seq(Rule), i : Nat]
    BY <1>12 DEF CgiSlot
  <2> QED BY <1>12, <2>1, <2>2 DEF CgiSlot
<1>13. CASE CgiDone
  BY <1>13, NoRequestType DEF CgiDone
<1>14. CASE WeatherChanges
  BY <1>14 DEF WeatherChanges
<1>15. CASE UNCHANGED vars
  BY <1>15 DEF vars
<1> QED
  BY <1>1, <1>2, <1>3, <1>4, <1>5, <1>6, <1>7, <1>8, <1>9, <1>10, <1>11,
     <1>12, <1>13, <1>14, <1>15 DEF Next, Daemon, Cgi

LEMMA InitType == Init => TypeOK
<1> SUFFICES ASSUME Init PROVE TypeOK
  OBVIOUS
<1>1. prev \in [Engine -> [Slot -> BOOLEAN]]
  BY DEF Init, NoMemory
<1>2. cgi \in [op : {"none", "clear", "drill"}, rows : Seq(Rule), i : Nat]
  BY NoRequestType DEF Init
<1>3. /\ port \in [Port -> BOOLEAN] /\ astray \subseteq Port
      /\ reported \in [Trigger -> Mark]
  BY DEF Init, Mark
<1>4. manual \in 0..MaxManual /\ idx \in Nat
  BY MaxManualAssumption DEF Init
<1>5. /\ weather \in SUBSET Trigger /\ snap \in SUBSET Trigger /\ config \in Config
      /\ tab \in Tables \cup {NoTable} /\ eventActive \in BOOLEAN /\ heard \in BOOLEAN
      /\ pc \in {"idle", "alert", "threshold", "stopping", "off"}
  BY DEF Init
<1> QED BY <1>1, <1>2, <1>3, <1>4, <1>5 DEF TypeOK

-----------------------------------------------------------------------------
(* What processing one slot does.                                          *)

(* It leaves the slot's memory at whether the rule is wanted, even if the  *)
(* port call fails, and touches no other slot's memory.                    *)
LEMMA SlotMemory ==
  ASSUME TypeOK, ProcessSlot, idx >= 1
  PROVE  /\ pc \in Engine /\ idx \in 1..Len(tab[pc])
         /\ prev'[pc][idx] <=> Wanted(pc, idx)
         /\ \A e \in Engine, i \in Slot :
              (e # pc \/ i # idx) => (prev'[e][i] <=> prev[e][i])
         /\ idx' = idx + 1
         /\ UNCHANGED <<weather, config, pc, tab, snap, cgi, manual>>
<1>1. pc \in Engine /\ idx \in 1..Len(tab[pc])
  <2>1. pc \in Engine /\ idx <= Len(tab[pc])
    BY DEF ProcessSlot, SlotDisabled, SlotActivate, SlotClear, SlotKeep, InLoop
  <2> QED BY <2>1, TableType DEF TypeOK
<1>2. idx \in Slot /\ Row \in Rule
  BY <1>1, TableType DEF TypeOK, Row
<1>3. idx' = idx + 1 /\ UNCHANGED <<weather, config, pc, tab, snap, cgi, manual>>
  BY DEF ProcessSlot, SlotDisabled, SlotActivate, SlotClear, SlotKeep, NextSlot, cgiVars
<1> DEFINE on == Row.enabled /\ Matches(Row)
<1>4. Wanted(pc, idx) <=> on
  BY DEF Wanted, Matches, Row
<1>5. prev[pc] \in [Slot -> BOOLEAN]
  BY <1>1 DEF TypeOK
<1>6. prev' = [prev EXCEPT ![pc] = [prev[pc] EXCEPT ![idx] = on]]
  BY <1>1, <1>2, <1>5
     DEF TypeOK, ProcessSlot, SlotDisabled, SlotActivate, SlotClear, SlotKeep, Remember
<1> HIDE DEF on
<1>7. prev'[pc][idx] = on /\ \A e \in Engine, i \in Slot :
              (e # pc \/ i # idx) => prev'[e][i] = prev[e][i]
  BY <1>1, <1>2, <1>5, <1>6 DEF TypeOK
<1> QED BY <1>1, <1>3, <1>4, <1>7

(* When port calls succeed, it moves the rule's port there if the memory   *)
(* changed, and touches no other port.                                     *)
LEMMA SlotEffect ==
  ASSUME TypeOK, ProcessSlot, "vapix" \notin Env, idx >= 1
  PROVE  /\ Row.port \in Port
         /\ port' = IF prev[pc][idx] <=> Wanted(pc, idx)
                      THEN port ELSE [port EXCEPT ![Row.port] = Wanted(pc, idx)]
         /\ \A p \in Port : p # Row.port => (port'[p] <=> port[p])
         /\ IF prev[pc][idx] <=> Wanted(pc, idx)
              THEN port'[Row.port] <=> port[Row.port]
              ELSE port'[Row.port] <=> Wanted(pc, idx)
<1>1. pc \in Engine /\ idx \in Slot /\ Row \in Rule
  BY SlotMemory, TableType DEF TypeOK, Row
<1> DEFINE on == Row.enabled /\ Matches(Row)
<1>2. Wanted(pc, idx) = on
  BY DEF Wanted, Matches, Row
<1>3. prev[pc] \in [Slot -> BOOLEAN] /\ port \in [Port -> BOOLEAN] /\ Row.port \in Port
  BY <1>1 DEF TypeOK, Rule
<1>4. port' = IF prev[pc][idx] <=> on THEN port ELSE [port EXCEPT ![Row.port] = on]
  BY <1>1, <1>3
     DEF ProcessSlot, SlotDisabled, SlotActivate, SlotClear, SlotKeep, SetPort
<1> HIDE DEF on
<1> QED BY <1>2, <1>3, <1>4

(* Whether or not they succeed, it leaves every other port alone, and its  *)
(* own too unless the memory changed; then that port follows or is astray. *)
LEMMA SlotPorts ==
  ASSUME TypeOK, ProcessSlot, idx >= 1
  PROVE  /\ Row.port \in Port
         /\ \A p \in Port : p # Row.port =>
              (port'[p] <=> port[p]) /\ (p \in astray' <=> p \in astray)
         /\ IF prev[pc][idx] <=> Wanted(pc, idx)
              THEN UNCHANGED <<port, astray>>
              ELSE (port'[Row.port] <=> Wanted(pc, idx)) \/ Row.port \in astray'
<1>1. pc \in Engine /\ idx \in Slot /\ Row \in Rule
  BY SlotMemory, TableType DEF TypeOK, Row
<1> DEFINE on == Row.enabled /\ Matches(Row)
<1>2. Wanted(pc, idx) = on /\ on \in BOOLEAN
  BY DEF Wanted, Matches, Row
<1>3. prev[pc] \in [Slot -> BOOLEAN] /\ port \in [Port -> BOOLEAN] /\ Row.port \in Port
  BY <1>1 DEF TypeOK, Rule
<1>4. IF prev[pc][idx] <=> on THEN UNCHANGED <<port, astray>> ELSE SetPort(Row.port, on)
  BY <1>1, <1>3 DEF ProcessSlot, SlotDisabled, SlotActivate, SlotClear, SlotKeep
<1> HIDE DEF on
<1>5. ASSUME SetPort(Row.port, on)
      PROVE  /\ \A p \in Port : p # Row.port =>
                  (port'[p] <=> port[p]) /\ (p \in astray' <=> p \in astray)
             /\ (port'[Row.port] <=> on) \/ Row.port \in astray'
  BY <1>2, <1>3, <1>5 DEF SetPort
<1>6. CASE prev[pc][idx] <=> on
  BY <1>2, <1>3, <1>4, <1>6
<1>7. CASE ~(prev[pc][idx] <=> on)
  BY <1>2, <1>3, <1>4, <1>5, <1>7
<1> QED BY <1>6, <1>7

(* Tables that a daemon with stable tables holds put slots on equal ports. *)
LEMMA SameLayout ==
  ASSUME StableTables, TypeOK, tab \in Tables, NEW e \in Engine
  PROVE  /\ Len(tab[e]) = Len(config.table[e])
         /\ \A i \in 1..Len(tab[e]) : tab[e][i].port = config.table[e][i].port
BY DEF StableTables, TypeOK, Config

-----------------------------------------------------------------------------
(* The loop and the memory, in every step.                                 *)

LEMMA LoopStep == TypeOK /\ LoopOK /\ [Next]_vars => LoopOK'
<1> SUFFICES ASSUME TypeOK, LoopOK, [Next]_vars PROVE LoopOK'
  OBVIOUS
<1> USE DEF LoopOK, cgiVars, daemonVars
<1>1. CASE ProcessSlot
  <2>1. idx >= 1 /\ idx \in Nat
    BY <1>1 DEF ProcessSlot, SlotDisabled, SlotActivate, SlotClear, SlotKeep, InLoop, TypeOK
  <2> QED BY <1>1, <2>1, SlotMemory
<1>2. CASE BeginPoll \/ BeginStop
  BY <1>2 DEF BeginPoll, BeginStop, TypeOK, Config
<1>3. CASE AlertsDone \/ ThresholdsDone
  BY <1>3 DEF AlertsDone, ThresholdsDone, TypeOK
<1>4. CASE StopSlot
  BY <1>4 DEF StopSlot, TypeOK
<1>4a. CASE Stopped \/ Crash \/ Start
  BY <1>4a DEF Stopped, Crash, Start
<1>5. CASE FireDrill \/ ClearAll
  BY <1>5 DEF FireDrill, ClearAll, BeginLoop, TypeOK
<1>6. CASE CgiSlot
  <2>1. cgi.i \in Nat /\ cgi.i >= 1 /\ cgi' = [cgi EXCEPT !.i = @ + 1]
    BY <1>6 DEF CgiSlot, TypeOK
  <2>2. cgi'.i = cgi.i + 1
    BY <2>1 DEF TypeOK
  <2> QED BY <1>6, <2>1, <2>2 DEF CgiSlot
<1>7. CASE CgiDone
  BY <1>7 DEF CgiDone, NoRequest
<1>8. CASE UNCHANGED <<pc, tab, idx, cgi>>
  BY <1>8
<1> QED
  BY <1>1, <1>2, <1>3, <1>4, <1>4a, <1>5, <1>6, <1>7, <1>8
     DEF Next, Daemon, Cgi, alerts_process, threshold_process, ApplySave, FirePort,
         WeatherChanges, vars

(* Every variable has its type, for every table and every disturbance.     *)
THEOREM TypeCorrect == Spec => []TypeOK
<1>1. Init => TypeOK /\ LoopOK
  BY InitType DEF Init, LoopOK, NoRequest
<1>2. TypeOK /\ LoopOK /\ [Next]_vars => (TypeOK /\ LoopOK)'
  BY StepType, LoopStep
<1> QED BY <1>1, <1>2, PTL DEF Spec

LEMMA MemoryStep == TypeOK /\ LoopOK /\ MemoryOK /\ [Next]_vars => MemoryOK'
<1> SUFFICES ASSUME TypeOK, LoopOK, MemoryOK, [Next]_vars PROVE MemoryOK'
  OBVIOUS
<1> USE DEF MemoryOK, Up, Processed, Wanted, cgiVars, daemonVars
<1>1. CASE ProcessSlot
  <2>1. idx >= 1
    BY <1>1 DEF LoopOK, ProcessSlot, SlotDisabled, SlotActivate, SlotClear, SlotKeep, InLoop
  <2>2. SUFFICES ASSUME NEW e \in Engine, NEW i \in 1..Len(tab[e]), Processed(e, i)'
                 PROVE  prev'[e][i] <=> Wanted(e, i)
    BY <1>1, <2>1, SlotMemory
  <2>3. i \in Slot
    BY TableType DEF TypeOK
  <2>4. CASE e = pc /\ i = idx
    BY <1>1, <2>1, <2>4, SlotMemory
  <2>5. CASE e # pc \/ i # idx
    <3>1. prev'[e][i] <=> prev[e][i]
      BY <1>1, <2>1, <2>3, <2>5, SlotMemory
    <3>2. Processed(e, i)
      <4>1. pc' = pc /\ idx' = idx + 1 /\ idx \in Nat /\ i \in Nat
        BY <1>1, <2>1, SlotMemory DEF TypeOK
      <4> QED BY <2>2, <2>5, <4>1
    <3> QED BY <1>1, <2>1, <3>1, <3>2, SlotMemory
  <2> QED BY <2>4, <2>5
<1>2. CASE BeginPoll
  BY <1>2 DEF BeginPoll
<1>3. CASE AlertsDone
  <2>1. Len(tab["alert"]) \in Nat /\ Len(tab["threshold"]) \in Nat
    BY TableType DEF TypeOK
  <2> QED BY <1>3, <2>1 DEF AlertsDone, TypeOK
<1>4. CASE ThresholdsDone
  <2>1. Len(tab["alert"]) \in Nat /\ Len(tab["threshold"]) \in Nat
    BY TableType DEF TypeOK
  <2> QED BY <1>4, <2>1 DEF ThresholdsDone, TypeOK
<1>5. CASE StopSlot \/ Stopped \/ BeginStop \/ Crash
  BY <1>5 DEF StopSlot, Stopped, BeginStop, Crash
<1>6. CASE Start
  BY <1>6 DEF Start, NoTable
<1>7. CASE UNCHANGED <<pc, tab, idx, prev, snap>>
  BY <1>7
<1> QED
  BY <1>1, <1>2, <1>3, <1>4, <1>5, <1>6, <1>7
     DEF Next, Daemon, Cgi, alerts_process, threshold_process, ApplySave, FirePort,
         FireDrill, ClearAll, BeginLoop, CgiSlot, CgiDone, WeatherChanges, vars

-----------------------------------------------------------------------------
(* Safety in the direction that matters: matching rules have their port on. *)

(* The CGI process loops over the rules only when it is asked to.          *)
CgiQuiet == "drill" \notin Env => cgi.op = "none"

LEMMA CgiStep == CgiQuiet /\ [Next]_vars => CgiQuiet'
BY DEF CgiQuiet, Next, Daemon, Cgi, alerts_process, threshold_process, ProcessSlot, SlotDisabled,
       SlotActivate, SlotClear, SlotKeep, NextSlot, BeginPoll, AlertsDone, ThresholdsDone,
       StopSlot, Stopped, ApplySave, BeginStop, Crash, Start, FirePort, FireDrill, ClearAll,
       BeginLoop, CgiSlot, CgiDone, WeatherChanges, vars, cgiVars

(* No port goes astray as long as every call succeeds and nobody else      *)
(* drives the ports.                                                       *)
AstrayQuiet == Env \cap {"vapix", "fire", "drill"} = {} => astray = {}

LEMMA AstrayStep ==
  TypeOK /\ LoopOK /\ CgiQuiet /\ AstrayQuiet /\ [Next]_vars => AstrayQuiet'
<1> SUFFICES ASSUME TypeOK, LoopOK, CgiQuiet, astray = {}, [Next]_vars,
                    Env \cap {"vapix", "fire", "drill"} = {}
             PROVE  astray' = {}
  BY DEF AstrayQuiet
<1> USE DEF cgiVars, daemonVars
<1>1. CASE ProcessSlot
  BY <1>1 DEF ProcessSlot, SlotDisabled, SlotActivate, SlotClear, SlotKeep, SetPort
<1>2. CASE StopSlot
  BY <1>2 DEF StopSlot, SetPort
<1>3. CASE CgiSlot
  BY <1>3 DEF CgiSlot, CgiQuiet
<1>4. CASE UNCHANGED astray
  BY <1>4
<1> QED
  BY <1>1, <1>2, <1>3, <1>4
     DEF Next, Daemon, Cgi, alerts_process, threshold_process, BeginPoll, AlertsDone,
         ThresholdsDone, Stopped, ApplySave, BeginStop, Crash, Start, FirePort, FireDrill,
         ClearAll, BeginLoop, CgiDone, WeatherChanges, vars

(* A request by hand leaves its port astray and the others alone.          *)
LEMMA ByHand ==
  ASSUME TypeOK, NEW p \in Port, NEW on \in BOOLEAN, SetPortByHand(p, on)
  PROVE  \A q \in Port : (port[q] \/ q \in astray) => (port'[q] \/ q \in astray')
BY DEF TypeOK, SetPortByHand

LEMMA ActiveSlotsStep ==
  ASSUME StableTables
  PROVE  TypeOK /\ LoopOK /\ ActiveSlotsOn /\ [Next]_vars => ActiveSlotsOn'
<1> SUFFICES ASSUME TypeOK, LoopOK, ActiveSlotsOn, [Next]_vars PROVE ActiveSlotsOn'
  OBVIOUS
<1> USE DEF ActiveSlotsOn, Up, cgiVars, daemonVars
<1>1. CASE ProcessSlot
  <2>1. idx >= 1 /\ tab \in Tables /\ pc \in Engine
    BY <1>1 DEF LoopOK, ProcessSlot, SlotDisabled, SlotActivate, SlotClear, SlotKeep, InLoop
  <2>2. /\ pc \in Engine /\ idx \in 1..Len(tab[pc])
        /\ UNCHANGED <<config, pc, tab>>
    BY <1>1, <2>1, SlotMemory
  <2>3. SUFFICES ASSUME NEW e \in Engine, NEW i \in 1..Len(config.table[e]), prev'[e][i]
                 PROVE  \/ port'[config.table[e][i].port]
                        \/ config.table[e][i].port \in astray'
    BY <2>2
  <2>4. /\ config.table \in Tables
        /\ Len(tab[e]) = Len(config.table[e])
        /\ tab[e][i].port = config.table[e][i].port
        /\ tab[e][i] \in Rule /\ i \in Slot
    BY <2>1, SameLayout, TableType DEF TypeOK, Config
  <2> DEFINE p == config.table[e][i].port
  <2>5. p \in Port
    BY <2>4 DEF Rule
  <2>6. CASE e = pc /\ i = idx
    <3>1. Wanted(pc, idx) /\ p = Row.port
      BY <1>1, <2>1, <2>3, <2>4, <2>6, SlotMemory DEF Row
    <3>2. prev[pc][idx] => port[p] \/ p \in astray
      BY <2>2, <2>3, <2>6
    <3> QED BY <1>1, <2>1, <2>5, <3>1, <3>2, SlotPorts
  <2>7. CASE e # pc \/ i # idx
    <3>1. p # Row.port
      BY <2>1, <2>2, <2>4, <2>7 DEF StableTables, Row
    <3>2. prev[e][i]
      BY <1>1, <2>1, <2>3, <2>4, <2>7, SlotMemory
    <3>3. port[p] \/ p \in astray
      BY <2>2, <2>3, <3>2
    <3> QED BY <1>1, <2>1, <2>5, <3>1, <3>3, SlotPorts
  <2> QED BY <2>6, <2>7
<1>2. CASE BeginPoll
  BY <1>2 DEF BeginPoll
<1>3. CASE AlertsDone \/ ThresholdsDone
  BY <1>3 DEF AlertsDone, ThresholdsDone
<1>4. CASE ApplySave
  <2>1. \A e \in Engine :
          /\ Len(config.table[e]) = Len(config'.table[e])
          /\ \A i \in 1..Len(config.table[e]) :
               config.table[e][i].port = config'.table[e][i].port
    BY <1>4 DEF ApplySave, TypeOK, Config, StableTables
  <2> QED BY <1>4, <2>1 DEF ApplySave
<1>5. CASE StopSlot \/ Stopped \/ BeginStop \/ Crash
  BY <1>5 DEF StopSlot, Stopped, BeginStop, Crash
<1>6. CASE Start
  <2>1. \A e \in Engine : \A i \in Slot : ~prev'[e][i]
    BY <1>6 DEF Start, NoMemory
  <2>2. UNCHANGED config /\ config.table \in Tables
    BY <1>6 DEF Start, TypeOK, Config
  <2> QED BY <2>1, <2>2, TableType
<1>7. CASE CgiSlot
  <2>1. CASE UNCHANGED portVars
    BY <1>7, <2>1 DEF CgiSlot
  <2>2. CASE SetPortByHand(cgi.rows[cgi.i].port, cgi.op = "drill")
    <3>1. cgi.rows[cgi.i].port \in Port
      BY <1>7, CgiRow
    <3>2. \A q \in Port : (port[q] \/ q \in astray) => (port'[q] \/ q \in astray')
      BY <2>2, <3>1, ByHand
    <3>3. \A e \in Engine : \A i \in 1..Len(config.table[e]) : config.table[e][i].port \in Port
      BY TableType DEF TypeOK, Config, Rule
    <3> QED BY <1>7, <3>2, <3>3 DEF CgiSlot
  <2> QED BY <1>7, <2>1, <2>2 DEF CgiSlot
<1>8. ASSUME NEW p \in Port, NEW on \in BOOLEAN, FirePort(p, on)
      PROVE  ActiveSlotsOn'
  <2>1. \A q \in Port : (port[q] \/ q \in astray) => (port'[q] \/ q \in astray')
    BY <1>8, ByHand DEF FirePort
  <2>2. \A e \in Engine : \A i \in 1..Len(config.table[e]) : config.table[e][i].port \in Port
    BY TableType DEF TypeOK, Config, Rule
  <2> QED BY <1>8, <2>1, <2>2 DEF FirePort
<1>9. CASE FireDrill \/ ClearAll \/ CgiDone \/ WeatherChanges \/ UNCHANGED vars
  BY <1>9 DEF FireDrill, ClearAll, BeginLoop, CgiDone, WeatherChanges, vars
<1> QED
  BY <1>1, <1>2, <1>3, <1>4, <1>5, <1>6, <1>7, <1>8, <1>9
     DEF Next, Daemon, Cgi, alerts_process, threshold_process

LEMMA InitInv ==
  Init => TypeOK /\ LoopOK /\ MemoryOK /\ CgiQuiet /\ AstrayQuiet /\ ActiveSlotsOn
<1>1. Init => LoopOK /\ MemoryOK /\ CgiQuiet /\ AstrayQuiet
  BY DEF Init, LoopOK, MemoryOK, CgiQuiet, AstrayQuiet, Up, NoTable, NoRequest
<1>2. ASSUME Init PROVE ActiveSlotsOn
  <2>1. config.table \in Tables
    BY <1>2 DEF Init, Config
  <2>2. \A e \in Engine : \A i \in Slot : ~prev[e][i]
    BY <1>2 DEF Init, NoMemory
  <2> QED BY <2>1, <2>2, TableType DEF ActiveSlotsOn
<1> QED BY <1>1, <1>2, InitType

LEMMA MissedFromInv ==
  ASSUME StableTables, TypeOK, MemoryOK, ActiveSlotsOn
  PROVE  NoMissedAlert
<1> SUFFICES ASSUME pc = "idle", NEW p \in WantedPorts PROVE port[p] \/ p \in astray
  BY DEF NoMissedAlert
<1>1. PICK e \in Engine : \E i \in 1..Len(tab[e]) : tab[e][i].port = p /\ Wanted(e, i)
  BY DEF WantedPorts
<1>2. PICK i \in 1..Len(tab[e]) : tab[e][i].port = p /\ Wanted(e, i)
  BY <1>1
<1>3. tab \in Tables
  BY <1>2 DEF TypeOK, NoTable
<1>4. prev[e][i]
  BY <1>2 DEF MemoryOK, Up, Processed
<1>5. i \in 1..Len(config.table[e]) /\ config.table[e][i].port = p
  BY <1>2, <1>3, SameLayout
<1> QED BY <1>4, <1>5 DEF ActiveSlotsOn, Up

(* After every poll the port of each enabled rule that matches what the    *)
(* poll fetched is on, unless its last request failed or was a manual one: *)
(* for every table with one port per rule, in spite of failed alerts       *)
(* requests, crashes, respawns and orderly restarts.                       *)
THEOREM NoMissedAlertHolds ==
  ASSUME StableTables
  PROVE  Spec => []NoMissedAlert
<1> DEFINE IInv == TypeOK /\ LoopOK /\ MemoryOK /\ ActiveSlotsOn
<1>1. Init => IInv
  BY InitInv
<1>2. IInv /\ [Next]_vars => IInv'
  BY StepType, LoopStep, MemoryStep, ActiveSlotsStep
<1>3. IInv => NoMissedAlert
  BY MissedFromInv
<1> QED BY <1>1, <1>2, <1>3, PTL DEF Spec

-----------------------------------------------------------------------------
(* Both directions, for a process that keeps its memory.                   *)

LEMMA OnPortsStep ==
  ASSUME StableTables, Env \subseteq {"alertfetch"}
  PROVE  TypeOK /\ LoopOK /\ CgiQuiet /\ OnPortsRemembered /\ [Next]_vars => OnPortsRemembered'
<1> SUFFICES ASSUME TypeOK, LoopOK, CgiQuiet, OnPortsRemembered, [Next]_vars
             PROVE  OnPortsRemembered'
  OBVIOUS
<1> USE DEF OnPortsRemembered, Up, cgiVars, daemonVars
<1>1. CASE ProcessSlot
  <2>1. idx >= 1 /\ "vapix" \notin Env /\ tab \in Tables /\ pc \in Engine
    BY <1>1 DEF LoopOK, ProcessSlot, SlotDisabled, SlotActivate, SlotClear, SlotKeep, InLoop
  <2>2. /\ idx \in 1..Len(tab[pc])
        /\ UNCHANGED <<config, pc, tab>>
    BY <1>1, <2>1, SlotMemory
  <2>3. /\ config.table \in Tables
        /\ Len(tab[pc]) = Len(config.table[pc])
        /\ Row.port = config.table[pc][idx].port
    BY <2>1, <2>2, SameLayout DEF TypeOK, Config, Row
  <2>4. ASSUME NEW p \in Port, port'[p]
        PROVE  \E e \in Engine : \E i \in 1..Len(config.table[e]) :
                 config.table[e][i].port = p /\ prev'[e][i]
    <3>1. CASE p = Row.port /\ ~(prev[pc][idx] <=> Wanted(pc, idx))
      <4>1. prev'[pc][idx]
        BY <1>1, <2>1, <2>4, <3>1, SlotEffect, SlotMemory
      <4> QED BY <2>1, <2>2, <2>3, <3>1, <4>1
    <3>2. CASE p # Row.port \/ (prev[pc][idx] <=> Wanted(pc, idx))
      <4>1. port[p]
        BY <1>1, <2>1, <2>4, <3>2, SlotEffect
      <4>2. PICK e \in Engine : \E i \in 1..Len(config.table[e]) :
                   config.table[e][i].port = p /\ prev[e][i]
        BY <4>1
      <4>3. PICK i \in 1..Len(config.table[e]) : config.table[e][i].port = p /\ prev[e][i]
        BY <4>2
      <4>4. i \in Slot
        BY <2>3, TableType
      <4>5. prev'[e][i]
        <5>1. CASE e = pc /\ i = idx
          BY <1>1, <2>1, <2>3, <3>2, <4>3, <5>1, SlotMemory
        <5>2. CASE e # pc \/ i # idx
          BY <1>1, <2>1, <4>3, <4>4, <5>2, SlotMemory
        <5> QED BY <5>1, <5>2
      <4> QED BY <4>3, <4>5
    <3> QED BY <3>1, <3>2
  <2>5. tab # NoTable
    BY <2>1, <2>2 DEF NoTable
  <2>6. ASSUME NEW e \in Engine, NEW i \in Slot, prev'[e][i]
        PROVE  i <= Len(config.table[e])
    <3>1. CASE e = pc /\ i = idx
      BY <2>2, <2>3, <3>1
    <3>2. CASE e # pc \/ i # idx
      BY <1>1, <2>1, <2>6, <3>2, SlotMemory
    <3> QED BY <3>1, <3>2
  <2> QED BY <2>1, <2>2, <2>4, <2>5, <2>6
<1>2. CASE BeginPoll
  <2>1. \A e \in Engine, i \in Slot : prev[e][i] => config.table # NoTable
    BY TablesAssumption DEF NoTable
  <2> QED BY <1>2, <2>1 DEF BeginPoll
<1>3. CASE AlertsDone \/ ThresholdsDone
  BY <1>3 DEF AlertsDone, ThresholdsDone
<1>4. CASE ApplySave
  <2>1. \A e \in Engine :
          /\ Len(config.table[e]) = Len(config'.table[e])
          /\ \A i \in 1..Len(config.table[e]) :
               config.table[e][i].port = config'.table[e][i].port
    BY <1>4 DEF ApplySave, TypeOK, Config, StableTables
  <2>2. UNCHANGED <<pc, port, prev, tab>>
    BY <1>4 DEF ApplySave
  <2>3. ASSUME NEW p \in Port, port[p]
        PROVE  \E e \in Engine : \E i \in 1..Len(config'.table[e]) :
                 config'.table[e][i].port = p /\ prev[e][i]
    <3>1. PICK e \in Engine : \E i \in 1..Len(config.table[e]) :
                 config.table[e][i].port = p /\ prev[e][i]
      BY <2>3
    <3>2. PICK i \in 1..Len(config.table[e]) : config.table[e][i].port = p /\ prev[e][i]
      BY <3>1
    <3>3. i \in 1..Len(config'.table[e]) /\ config'.table[e][i].port = p
      BY <2>1, <3>2
    <3> QED BY <3>2, <3>3
  <2>4. \A e \in Engine, i \in Slot : prev[e][i] => tab # NoTable /\ i <= Len(config'.table[e])
    BY <2>1
  <2> QED BY <2>2, <2>3, <2>4
<1>5. CASE CgiSlot \/ CgiDone \/ WeatherChanges \/ UNCHANGED vars
  <2>1. CASE CgiSlot
    BY <2>1 DEF CgiSlot, CgiQuiet
  <2> QED BY <1>5, <2>1 DEF CgiDone, WeatherChanges, vars
<1>6. CASE StopSlot \/ Stopped \/ Start
  BY <1>6 DEF StopSlot, Stopped, Start
<1> QED
  BY <1>1, <1>2, <1>3, <1>4, <1>5, <1>6
     DEF Next, Daemon, Cgi, alerts_process, threshold_process, BeginStop, Crash,
         FirePort, FireDrill, ClearAll, BeginLoop

(* With both invariants the ports on are exactly those remembered, and at  *)
(* rest exactly those wanted.                                              *)
LEMMA AtRest ==
  ASSUME StableTables, TypeOK, LoopOK, MemoryOK, astray = {}, ActiveSlotsOn, OnPortsRemembered
  PROVE  PortsMirrorRules
<1> SUFFICES ASSUME pc = "idle", NEW p \in Port PROVE port[p] <=> p \in WantedPorts
  BY DEF PortsMirrorRules
<1>1. ASSUME port[p] PROVE p \in WantedPorts
  <2>1. PICK e \in Engine : \E i \in 1..Len(config.table[e]) :
               config.table[e][i].port = p /\ prev[e][i]
    BY <1>1 DEF OnPortsRemembered
  <2>2. PICK i \in 1..Len(config.table[e]) : config.table[e][i].port = p /\ prev[e][i]
    BY <2>1
  <2>3. i \in Slot
    BY TableType DEF TypeOK, Config
  <2>4. tab \in Tables
    BY <2>2, <2>3 DEF OnPortsRemembered, TypeOK
  <2>5. i \in 1..Len(tab[e]) /\ tab[e][i].port = p
    BY <2>2, <2>4, SameLayout
  <2>6. Wanted(e, i)
    BY <2>2, <2>5 DEF MemoryOK, Up, Processed
  <2> QED BY <2>5, <2>6 DEF WantedPorts
<1>2. ASSUME p \in WantedPorts PROVE port[p]
  BY <1>2, MissedFromInv DEF NoMissedAlert
<1> QED BY <1>1, <1>2

(* After every poll a port is on exactly when an enabled rule mapped to it *)
(* matches what the poll fetched: for every table with one port per rule,  *)
(* across edits of the enabled flags, as long as the process lives, port   *)
(* calls succeed and nobody else drives the ports.                         *)
THEOREM PortsMirrorRulesHolds ==
  ASSUME StableTables, Env \subseteq {"alertfetch"}
  PROVE  Spec => []PortsMirrorRules
<1> DEFINE IInv == /\ TypeOK /\ LoopOK /\ MemoryOK /\ CgiQuiet /\ AstrayQuiet
                   /\ ActiveSlotsOn /\ OnPortsRemembered
<1>1. Init => IInv
  BY InitInv DEF Init, OnPortsRemembered, Up, NoMemory
<1>2. Env \cap {"vapix", "fire", "drill"} = {}
  OBVIOUS
<1>3. IInv /\ [Next]_vars => IInv'
  BY <1>2, StepType, LoopStep, MemoryStep, CgiStep, AstrayStep, ActiveSlotsStep, OnPortsStep
<1>4. IInv => PortsMirrorRules
  BY <1>2, AtRest DEF AstrayQuiet
<1> QED BY <1>1, <1>3, <1>4, PTL DEF Spec

-----------------------------------------------------------------------------
(* What the listeners were told.                                           *)

(* Configurations between which only the ports of the rows differ, with no *)
(* trigger in two enabled rows.                                            *)
SameRules ==
  /\ \A t, u \in Tables : \A e \in Engine :
       /\ Len(t[e]) = Len(u[e])
       /\ \A i \in 1..Len(t[e]) :
            t[e][i].trigger = u[e][i].trigger /\ t[e][i].enabled = u[e][i].enabled
  /\ \A t \in Tables : \A e, f \in Engine :
       \A i \in 1..Len(t[e]), j \in 1..Len(t[f]) :
         t[e][i].enabled /\ t[f][j].enabled /\ t[e][i].trigger = t[f][j].trigger
           => e = f /\ i = j

(* Only slots of enabled rules are remembered active.                      *)
MemoryIsEnabled ==
  Up => \A e \in Engine, i \in Slot : prev[e][i] =>
          i \in 1..Len(config.table[e]) /\ config.table[e][i].enabled

(* The last report of an enabled rule's trigger is what its slot remembers. *)
ReportsFollowMemory ==
  Up => \A e \in Engine : \A i \in 1..Len(config.table[e]) :
          LET r == config.table[e][i]
          IN  r.enabled => (reported[r.trigger] = "activated" <=> prev[e][i])

EventFollowsMemory ==
  Up => (eventActive /\ heard => \E e \in Engine, i \in Slot : prev[e][i])

ListenersInv == MemoryIsEnabled /\ ReportsFollowMemory /\ EventFollowsMemory

(* The rows of two tables that the daemon may hold.                        *)
LEMMA SameRows ==
  ASSUME SameRules, NEW t \in Tables, NEW u \in Tables, NEW e \in Engine
  PROVE  /\ Len(t[e]) = Len(u[e])
         /\ \A i \in 1..Len(t[e]) :
              t[e][i].trigger = u[e][i].trigger /\ t[e][i].enabled = u[e][i].enabled
BY DEF SameRules

(* A slot reports its rule's trigger when an enabled rule's memory changes, *)
(* and nothing otherwise.                                                  *)
LEMMA SlotReport ==
  ASSUME TypeOK, ProcessSlot, idx >= 1
  PROVE  /\ Row.trigger \in Trigger
         /\ (~Row.enabled \/ (prev[pc][idx] <=> Wanted(pc, idx))) => Silent
         /\ (Row.enabled /\ ~prev[pc][idx] /\ Wanted(pc, idx)) =>
               Report(Row.trigger, "activated")
         /\ (Row.enabled /\ prev[pc][idx] /\ ~Wanted(pc, idx)) =>
               Report(Row.trigger, "cleared")
<1>1. pc \in Engine /\ idx \in Slot /\ Row \in Rule
  BY SlotMemory, TableType DEF TypeOK, Row
<1>2. Wanted(pc, idx) <=> (Row.enabled /\ Matches(Row))
  BY DEF Wanted, Matches, Row
<1>3. Row.trigger \in Trigger
  BY <1>1 DEF Rule
<1> QED BY <1>2, <1>3 DEF ProcessSlot, SlotDisabled, SlotActivate, SlotClear, SlotKeep

LEMMA ListenersSlotStep ==
  ASSUME SameRules, TypeOK, LoopOK, ListenersInv, ProcessSlot
  PROVE  ListenersInv'
<1>1. idx >= 1 /\ tab \in Tables /\ pc \in Engine
  BY DEF LoopOK, ProcessSlot, SlotDisabled, SlotActivate, SlotClear, SlotKeep, InLoop
<1>2. /\ idx \in 1..Len(tab[pc])
      /\ prev'[pc][idx] <=> Wanted(pc, idx)
      /\ \A e \in Engine, i \in Slot :
           (e # pc \/ i # idx) => (prev'[e][i] <=> prev[e][i])
      /\ UNCHANGED <<config, pc>>
  BY <1>1, SlotMemory
<1>3. config.table \in Tables /\ idx \in Slot
  BY <1>1, <1>2, TableType DEF TypeOK, Config
<1>4. /\ idx \in 1..Len(config.table[pc])
      /\ Row.trigger = config.table[pc][idx].trigger
      /\ Row.enabled = config.table[pc][idx].enabled
  BY <1>1, <1>2, <1>3, SameRows DEF Row
<1>5. Up /\ Up'
  BY <1>1, <1>2 DEF Up
<1>6. Wanted(pc, idx) => Row.enabled
  BY DEF Wanted, Row
<1>7. prev[pc][idx] => Row.enabled
  BY <1>1, <1>3, <1>4, <1>5 DEF ListenersInv, MemoryIsEnabled
<1>8. MemoryIsEnabled'
  <2> SUFFICES ASSUME NEW e \in Engine, NEW i \in Slot, prev'[e][i]
               PROVE  i \in 1..Len(config.table[e]) /\ config.table[e][i].enabled
    BY <1>2 DEF MemoryIsEnabled
  <2>1. CASE e = pc /\ i = idx
    BY <1>2, <1>4, <1>6, <2>1
  <2>2. CASE e # pc \/ i # idx
    BY <1>2, <1>5, <2>2 DEF ListenersInv, MemoryIsEnabled
  <2> QED BY <2>1, <2>2
<1>9. ReportsFollowMemory'
  <2> SUFFICES ASSUME NEW e \in Engine, NEW i \in 1..Len(config.table[e]),
                      config.table[e][i].enabled
               PROVE  reported'[config.table[e][i].trigger] = "activated" <=> prev'[e][i]
    BY <1>2 DEF ReportsFollowMemory
  <2>1. i \in Slot /\ config.table[e][i].trigger \in Trigger
    BY <1>3, TableType DEF Rule
  <2>2. reported[config.table[e][i].trigger] = "activated" <=> prev[e][i]
    BY <1>5 DEF ListenersInv, ReportsFollowMemory
  <2>3. CASE e = pc /\ i = idx
    <3>1. CASE prev[pc][idx] <=> Wanted(pc, idx)
      <4>1. reported' = reported
        BY <1>1, <3>1, SlotReport DEF Silent
      <4> QED BY <1>2, <2>2, <2>3, <3>1, <4>1
    <3>2. CASE ~prev[pc][idx] /\ Wanted(pc, idx)
      <4>1. reported' = [reported EXCEPT ![Row.trigger] = "activated"]
        BY <1>1, <1>6, <3>2, SlotReport DEF Report
      <4> QED BY <1>2, <1>4, <2>1, <2>3, <3>2, <4>1 DEF TypeOK
    <3>3. CASE prev[pc][idx] /\ ~Wanted(pc, idx)
      <4>1. reported' = [reported EXCEPT ![Row.trigger] = "cleared"]
        BY <1>1, <1>7, <3>3, SlotReport DEF Report
      <4> QED BY <1>2, <1>4, <2>1, <2>3, <3>3, <4>1 DEF TypeOK
    <3> QED BY <3>1, <3>2, <3>3
  <2>4. CASE e # pc \/ i # idx
    <3>1. Row.enabled => config.table[e][i].trigger # Row.trigger
      <4>1. \A f \in Engine : \A j \in 1..Len(config.table[f]) :
              /\ config.table[e][i].enabled /\ config.table[f][j].enabled
              /\ config.table[e][i].trigger = config.table[f][j].trigger
              => e = f /\ i = j
        BY <1>3 DEF SameRules
      <4> QED BY <1>1, <1>4, <2>4, <4>1
    <3>2. \/ reported' = reported
          \/ Row.enabled /\ \E a \in {"activated", "cleared"} :
               reported' = [reported EXCEPT ![Row.trigger] = a]
      BY <1>1, SlotReport DEF Silent, Report
    <3>3. reported'[config.table[e][i].trigger] = reported[config.table[e][i].trigger]
      BY <2>1, <3>1, <3>2 DEF TypeOK
    <3> QED BY <1>2, <2>1, <2>2, <2>4, <3>3
  <2> QED BY <2>3, <2>4
<1>10. EventFollowsMemory'
  <2> SUFFICES ASSUME eventActive', heard' PROVE \E e \in Engine, i \in Slot : prev'[e][i]
    BY DEF EventFollowsMemory
  <2>1. CASE ~prev[pc][idx] /\ Wanted(pc, idx)
    BY <1>1, <1>2, <1>3, <2>1
  <2>2. CASE prev[pc][idx] /\ ~Wanted(pc, idx)
    BY <1>1, <1>7, <2>2, SlotReport DEF Report, Publish
  <2>3. CASE prev[pc][idx] <=> Wanted(pc, idx)
    <3>1. eventActive /\ heard
      BY <1>1, <2>3, SlotReport DEF Silent
    <3>2. PICK e \in Engine, i \in Slot : prev[e][i]
      BY <1>5, <3>1 DEF ListenersInv, EventFollowsMemory
    <3>3. prev'[e][i]
      BY <1>1, <1>2, <2>3, <3>2
    <3> QED BY <3>3
  <2> QED BY <2>1, <2>2, <2>3
<1> QED BY <1>8, <1>9, <1>10 DEF ListenersInv

LEMMA ListenersStep ==
  ASSUME SameRules
  PROVE  TypeOK /\ LoopOK /\ ListenersInv /\ [Next]_vars => ListenersInv'
<1> SUFFICES ASSUME TypeOK, LoopOK, ListenersInv, [Next]_vars PROVE ListenersInv'
  OBVIOUS
<1> USE DEF cgiVars, daemonVars
<1>1. CASE ProcessSlot
  BY <1>1, ListenersSlotStep
<1>2. CASE BeginPoll \/ AlertsDone \/ ThresholdsDone
  <2>1. Up /\ UNCHANGED <<config, prev, listeners>>
    BY <1>2 DEF BeginPoll, AlertsDone, ThresholdsDone, Up
  <2> QED BY <2>1 DEF ListenersInv, MemoryIsEnabled, ReportsFollowMemory, EventFollowsMemory
<1>3. CASE StopSlot \/ Stopped \/ BeginStop \/ Crash
  <2>1. ~Up'
    BY <1>3 DEF StopSlot, Stopped, BeginStop, Crash, Up
  <2> QED BY <2>1 DEF ListenersInv, MemoryIsEnabled, ReportsFollowMemory, EventFollowsMemory
<1>4. CASE Start
  <2>1. /\ \A e \in Engine, i \in Slot : ~prev'[e][i]
        /\ ~eventActive' /\ config' = config
    BY <1>4 DEF Start, NoMemory
  <2>2. \A t \in Trigger : reported'[t] # "activated"
    BY <1>4 DEF Start
  <2>3. \A e \in Engine : \A i \in 1..Len(config.table[e]) :
          i \in Slot /\ config.table[e][i].trigger \in Trigger
    BY TableType DEF TypeOK, Config, Rule
  <2> QED BY <2>1, <2>2, <2>3
        DEF ListenersInv, MemoryIsEnabled, ReportsFollowMemory, EventFollowsMemory
<1>5. CASE ApplySave
  <2>1. Up /\ UNCHANGED <<prev, listeners>>
    BY <1>5 DEF ApplySave, Up
  <2>2. config.table \in Tables /\ config'.table \in Tables
    BY <1>5 DEF ApplySave, TypeOK, Config
  <2>3. \A e \in Engine :
          /\ Len(config.table[e]) = Len(config'.table[e])
          /\ \A i \in 1..Len(config.table[e]) :
               /\ config.table[e][i].trigger = config'.table[e][i].trigger
               /\ config.table[e][i].enabled = config'.table[e][i].enabled
    BY <2>2, SameRows
  <2>4. MemoryIsEnabled'
    BY <2>1, <2>3 DEF ListenersInv, MemoryIsEnabled
  <2>5. ReportsFollowMemory'
    <3>1. reported' = reported /\ prev' = prev
      BY <2>1
    <3> QED BY <2>1, <2>3, <3>1 DEF ListenersInv, ReportsFollowMemory
  <2>6. EventFollowsMemory'
    BY <2>1 DEF ListenersInv, EventFollowsMemory
  <2> QED BY <2>4, <2>5, <2>6 DEF ListenersInv
<1>6. CASE UNCHANGED <<pc, config, prev, listeners>>
  BY <1>6 DEF ListenersInv, MemoryIsEnabled, ReportsFollowMemory, EventFollowsMemory, Up
<1> QED
  BY <1>1, <1>2, <1>3, <1>4, <1>5, <1>6
     DEF Next, Daemon, Cgi, alerts_process, threshold_process, FirePort, FireDrill,
         ClearAll, BeginLoop, CgiSlot, CgiDone, WeatherChanges, vars

(* Between polls the history, the native events and their stateful flag    *)
(* agree with what the engines remember: for rules that keep triggers      *)
(* and enabled flags, one enabled rule to a trigger, whatever ports they   *)
(* are given and whatever fails, dies, is stopped or driven by hand.       *)
THEOREM ListenersAgreeHolds ==
  ASSUME SameRules
  PROVE  Spec => []ListenersAgree
<1> DEFINE IInv == TypeOK /\ LoopOK /\ ListenersInv
<1>1. Init => IInv
  <2> SUFFICES ASSUME Init PROVE IInv
    OBVIOUS
  <2>1. TypeOK /\ LoopOK
    BY InitType DEF Init, LoopOK, NoRequest
  <2>2. /\ \A e \in Engine, i \in Slot : ~prev[e][i]
        /\ ~eventActive /\ \A t \in Trigger : reported[t] # "activated"
    BY DEF Init, NoMemory
  <2>3. \A e \in Engine : \A i \in 1..Len(config.table[e]) :
          i \in Slot /\ config.table[e][i].trigger \in Trigger
    BY <2>1, TableType DEF TypeOK, Config, Rule
  <2> QED BY <2>1, <2>2, <2>3
        DEF ListenersInv, MemoryIsEnabled, ReportsFollowMemory, EventFollowsMemory
<1>2. IInv /\ [Next]_vars => IInv'
  BY StepType, LoopStep, ListenersStep
<1>3. IInv => ListenersAgree
  <2> SUFFICES ASSUME IInv, pc = "idle" PROVE ListenersAgree
    BY DEF ListenersAgree
  <2>1. ASSUME NEW e \in Engine, NEW i \in 1..Len(tab[e]), tab[e][i].enabled
        PROVE  reported[tab[e][i].trigger] = "activated" <=> prev[e][i]
    <3>1. tab \in Tables /\ config.table \in Tables
      BY <2>1 DEF TypeOK, NoTable, Config
    <3>2. /\ i \in 1..Len(config.table[e])
          /\ tab[e][i].trigger = config.table[e][i].trigger
          /\ config.table[e][i].enabled
      BY <2>1, <3>1, SameRows
    <3> QED BY <3>2 DEF ListenersInv, ReportsFollowMemory, Up
  <2> QED BY <2>1 DEF ListenersAgree, ListenersInv, EventFollowsMemory, Up
<1> QED BY <1>1, <1>2, <1>3, PTL DEF Spec

-----------------------------------------------------------------------------
(* The rule engines implement PortMirror.                                  *)

LEMMA MirrorStep ==
  ASSUME StableTables, Env \subseteq {"alertfetch"},
         TypeOK, LoopOK, MemoryOK, CgiQuiet, astray = {}, ActiveSlotsOn, OnPortsRemembered,
         [Next]_vars
  PROVE  [Mirror!Next]_(Mirror!vars)
<1> USE DEF Mirror!vars, cgiVars, daemonVars
<1>1. CASE ProcessSlot
  <2>1. idx >= 1 /\ "vapix" \notin Env /\ tab \in Tables /\ pc \in Engine
    BY <1>1 DEF LoopOK, ProcessSlot, SlotDisabled, SlotActivate, SlotClear, SlotKeep, InLoop
  <2>2. idx \in 1..Len(tab[pc]) /\ UNCHANGED <<tab, snap>>
    BY <1>1, <2>1, SlotMemory
  <2>3. WantedPorts' = WantedPorts
    BY <2>2 DEF WantedPorts, Wanted
  <2>4. CASE prev[pc][idx] <=> Wanted(pc, idx)
    BY <1>1, <2>1, <2>3, <2>4, SlotEffect
  <2>5. CASE ~(prev[pc][idx] <=> Wanted(pc, idx))
    <3>1. Row.port \in Port /\ port' = [port EXCEPT ![Row.port] = Wanted(pc, idx)]
      BY <1>1, <2>1, <2>5, SlotEffect
    <3>2. (Row.port \in WantedPorts) = Wanted(pc, idx)
      <4>1. ASSUME Row.port \in WantedPorts PROVE Wanted(pc, idx)
        <5>1. PICK e \in Engine : \E i \in 1..Len(tab[e]) :
                     tab[e][i].port = Row.port /\ Wanted(e, i)
          BY <4>1 DEF WantedPorts
        <5>2. PICK i \in 1..Len(tab[e]) : tab[e][i].port = Row.port /\ Wanted(e, i)
          BY <5>1
        <5>3. e = pc /\ i = idx
          BY <2>1, <2>2, <5>2 DEF StableTables, Row
        <5> QED BY <5>2, <5>3
      <4>2. ASSUME Wanted(pc, idx) PROVE Row.port \in WantedPorts
        BY <2>1, <2>2, <3>1, <4>2 DEF WantedPorts, Row
      <4> QED BY <4>1, <4>2 DEF Wanted
    <3>3. port[Row.port] <=> prev[pc][idx]
      <4>1. /\ config.table \in Tables
            /\ idx \in 1..Len(config.table[pc])
            /\ config.table[pc][idx].port = Row.port
        BY <2>1, <2>2, SameLayout DEF TypeOK, Config, Row
      <4>2. ASSUME prev[pc][idx] PROVE port[Row.port]
        BY <2>1, <4>1, <4>2 DEF ActiveSlotsOn, Up
      <4>3. ASSUME port[Row.port] PROVE prev[pc][idx]
        <5>1. PICK e \in Engine : \E i \in 1..Len(config.table[e]) :
                     config.table[e][i].port = Row.port /\ prev[e][i]
          BY <3>1, <4>3 DEF OnPortsRemembered
        <5>2. PICK i \in 1..Len(config.table[e]) :
                     config.table[e][i].port = Row.port /\ prev[e][i]
          BY <5>1
        <5>3. e = pc /\ i = idx
          BY <2>1, <4>1, <5>2 DEF StableTables
        <5> QED BY <5>2, <5>3
      <4> QED BY <4>2, <4>3
    <3>4. Mirror!Drive(Row.port)
      BY <2>3, <2>5, <3>1, <3>2, <3>3 DEF Mirror!Drive
    <3> QED BY <3>1, <3>4 DEF Mirror!Next
  <2> QED BY <2>4, <2>5
<1>2. CASE BeginPoll
  <2>1. PortsMirrorRules
    BY AtRest
  <2>2. Mirror!Settled
    BY <1>2, <2>1 DEF BeginPoll, PortsMirrorRules, Mirror!Settled
  <2>3. WantedPorts' \in SUBSET Port /\ UNCHANGED port
    BY <1>2 DEF BeginPoll, WantedPorts
  <2> QED BY <2>2, <2>3 DEF Mirror!Next, Mirror!Retarget
<1>3. CASE UNCHANGED <<port, tab, snap>>
  BY <1>3 DEF WantedPorts, Wanted
<1>4. CASE CgiSlot \/ StopSlot \/ Start
  BY <1>4 DEF CgiSlot, CgiQuiet, StopSlot, Start, OnPortsRemembered, Up
<1> QED
  BY <1>1, <1>2, <1>3, <1>4
     DEF Next, Daemon, Cgi, alerts_process, threshold_process, AlertsDone, ThresholdsDone,
         Stopped, ApplySave, BeginStop, Crash, FirePort, FireDrill, ClearAll, BeginLoop,
         CgiDone, WeatherChanges, vars

(* Under the same assumptions every behaviour of the engines is one of     *)
(* PortMirror: a poll drives each port at most once, straight to its       *)
(* target, and all of them before the next poll.                           *)
THEOREM EnginesImplementMirror ==
  ASSUME StableTables, Env \subseteq {"alertfetch"}
  PROVE  Spec => MirrorSafety
<1> DEFINE IInv == /\ TypeOK /\ LoopOK /\ MemoryOK /\ CgiQuiet /\ AstrayQuiet
                   /\ ActiveSlotsOn /\ OnPortsRemembered
<1>1. Init => IInv
  BY InitInv DEF Init, OnPortsRemembered, Up, NoMemory
<1>2. Env \cap {"vapix", "fire", "drill"} = {}
  OBVIOUS
<1>3. IInv /\ [Next]_vars => IInv'
  BY <1>2, StepType, LoopStep, MemoryStep, CgiStep, AstrayStep, ActiveSlotsStep, OnPortsStep
<1>4. Init => Mirror!Init
  BY DEF Init, Mirror!Init, WantedPorts, NoTable
<1>5. IInv /\ [Next]_vars => [Mirror!Next]_(Mirror!vars)
  BY <1>2, MirrorStep DEF AstrayQuiet
<1> QED BY <1>1, <1>3, <1>4, <1>5, PTL DEF Spec, MirrorSafety, Mirror!Safety

-----------------------------------------------------------------------------
(***************************************************************************)
(* What the liveness properties rest on.  That the timer fires and calls   *)
(* return is their fairness; what each step achieves is proved here.       *)
(***************************************************************************)
Busy == pc \in Engine \cup {"stopping"}

(* A loop stops right behind its last row.                                 *)
LoopInTable ==
  /\ pc \in Engine => idx <= Len(tab[pc]) + 1
  /\ pc = "stopping" => idx <= Len(tab["alert"]) + 1

LEMMA LoopInTableStep ==
  TypeOK /\ LoopOK /\ LoopInTable /\ [Next]_vars => LoopInTable'
<1> SUFFICES ASSUME TypeOK, LoopOK, LoopInTable, [Next]_vars PROVE LoopInTable'
  OBVIOUS
<1> USE DEF LoopInTable, cgiVars, daemonVars
<1>1. CASE ProcessSlot
  <2>1. idx >= 1
    BY <1>1 DEF LoopOK, ProcessSlot, SlotDisabled, SlotActivate, SlotClear, SlotKeep, InLoop
  <2>2. /\ pc \in Engine /\ idx \in Nat /\ Len(tab[pc]) \in Nat /\ idx <= Len(tab[pc])
        /\ idx' = idx + 1 /\ UNCHANGED <<pc, tab>>
    BY <1>1, <2>1, SlotMemory, TableType DEF TypeOK
  <2> QED BY <2>2
<1>2. CASE BeginPoll \/ BeginStop \/ AlertsDone
  <2>1. /\ idx' = 1
        /\ \/ pc' = "alert" /\ tab' = config.table
           \/ pc' = "stopping" /\ tab' = config.table
           \/ pc' = "threshold" /\ tab' = tab
    BY <1>2 DEF BeginPoll, BeginStop, AlertsDone
  <2>2. /\ Len(config.table["alert"]) \in Nat
        /\ Len(tab["alert"]) \in Nat /\ Len(tab["threshold"]) \in Nat
    BY TableType DEF TypeOK, Config
  <2> QED BY <2>1, <2>2
<1>3. CASE StopSlot
  <2>1. idx \in Nat /\ Len(tab["alert"]) \in Nat
    BY TableType DEF TypeOK
  <2> QED BY <1>3, <2>1 DEF StopSlot
<1>4. CASE ThresholdsDone \/ Stopped \/ Crash \/ Start
  BY <1>4 DEF ThresholdsDone, Stopped, Crash, Start
<1>5. CASE UNCHANGED <<pc, tab, idx>>
  BY <1>5
<1> QED
  BY <1>1, <1>2, <1>3, <1>4, <1>5
     DEF Next, Daemon, Cgi, alerts_process, threshold_process, ApplySave, FirePort, FireDrill,
         ClearAll, BeginLoop, CgiSlot, CgiDone, WeatherChanges, vars

(* The steps that a poll or a stop has still to take.                      *)
StepsLeft ==
  CASE pc = "alert" -> (Len(tab["alert"]) + 1 - idx) + Len(tab["threshold"]) + 2
    [] pc = "threshold" -> Len(tab["threshold"]) + 2 - idx
    [] pc = "stopping" -> Len(tab["alert"]) + 2 - idx
    [] OTHER -> 0

LEMMA StepsLeftOf ==
  /\ pc = "alert" =>
       StepsLeft = (Len(tab["alert"]) + 1 - idx) + Len(tab["threshold"]) + 2
  /\ pc = "threshold" => StepsLeft = Len(tab["threshold"]) + 2 - idx
  /\ pc = "stopping" => StepsLeft = Len(tab["alert"]) + 2 - idx
  /\ ~Busy => StepsLeft = 0
BY DEF StepsLeft, Busy

(* No step lengthens the poll or the stop under way, and the daemon's own  *)
(* shorten it.                                                             *)
LoopGoesOn ==
  Busy => /\ Daemon => StepsLeft' < StepsLeft
          /\ StepsLeft' <= StepsLeft

LEMMA LoopPlace ==
  ASSUME TypeOK, LoopOK, LoopInTable, Busy
  PROVE  \E n, m \in Nat :
           /\ n <= MaxRules /\ m <= MaxRules /\ MaxRules \in Nat
           /\ Len(tab["alert"]) = n /\ Len(tab["threshold"]) = m
           /\ idx \in Nat /\ idx >= 1
           /\ \/ pc = "alert" /\ idx <= n + 1 /\ StepsLeft = n + 1 - idx + m + 2
              \/ pc = "threshold" /\ idx <= m + 1 /\ StepsLeft = m + 2 - idx
              \/ pc = "stopping" /\ idx <= n + 1 /\ StepsLeft = n + 2 - idx
<1>1. /\ Len(tab["alert"]) \in Nat /\ Len(tab["alert"]) <= MaxRules
      /\ Len(tab["threshold"]) \in Nat /\ Len(tab["threshold"]) <= MaxRules
      /\ MaxRules \in Nat /\ idx \in Nat /\ idx >= 1
  BY TableType, TablesAssumption DEF TypeOK, LoopOK, Busy
<1>2. CASE pc = "alert"
  <2>1. idx <= Len(tab["alert"]) + 1
    BY <1>2 DEF LoopInTable
  <2>2. StepsLeft = (Len(tab["alert"]) + 1 - idx) + Len(tab["threshold"]) + 2
    BY <1>2, StepsLeftOf
  <2> QED BY <1>1, <1>2, <2>1, <2>2
<1>3. CASE pc = "threshold"
  <2>1. idx <= Len(tab["threshold"]) + 1
    BY <1>3 DEF LoopInTable
  <2>2. StepsLeft = Len(tab["threshold"]) + 2 - idx
    BY <1>3, StepsLeftOf
  <2> QED BY <1>1, <1>3, <2>1, <2>2
<1>4. CASE pc = "stopping"
  <2>1. idx <= Len(tab["alert"]) + 1
    BY <1>4 DEF LoopInTable
  <2>2. StepsLeft = Len(tab["alert"]) + 2 - idx
    BY <1>4, StepsLeftOf
  <2> QED BY <1>1, <1>4, <2>1, <2>2
<1> QED BY <1>2, <1>3, <1>4 DEF Busy

LEMMA StepsLeftBound ==
  TypeOK /\ LoopOK /\ LoopInTable => StepsLeft \in 0..(2 * MaxRules + 2)
<1> SUFFICES ASSUME TypeOK, LoopOK, LoopInTable
             PROVE  StepsLeft \in 0..(2 * MaxRules + 2)
  OBVIOUS
<1>1. CASE ~Busy
  <2>1. MaxRules \in Nat /\ StepsLeft = 0
    BY <1>1, StepsLeftOf, TablesAssumption
  <2> QED BY <2>1
<1>2. CASE Busy
  BY <1>2, LoopPlace
<1> QED BY <1>1, <1>2

LEMMA LoopGoesOnStep ==
  TypeOK /\ LoopOK /\ LoopInTable /\ [Next]_vars => [LoopGoesOn]_vars
<1> SUFFICES ASSUME TypeOK, LoopOK, LoopInTable, Next, Busy
             PROVE  (Daemon => StepsLeft' < StepsLeft) /\ StepsLeft' <= StepsLeft
  BY DEF LoopGoesOn
<1> USE DEF cgiVars, daemonVars
<1>1. PICK n, m \in Nat :
           /\ n <= MaxRules /\ m <= MaxRules /\ MaxRules \in Nat
           /\ Len(tab["alert"]) = n /\ Len(tab["threshold"]) = m
           /\ idx \in Nat /\ idx >= 1
           /\ \/ pc = "alert" /\ idx <= n + 1 /\ StepsLeft = n + 1 - idx + m + 2
              \/ pc = "threshold" /\ idx <= m + 1 /\ StepsLeft = m + 2 - idx
              \/ pc = "stopping" /\ idx <= n + 1 /\ StepsLeft = n + 2 - idx
  BY LoopPlace
<1>2. /\ (pc = "alert" =>
            StepsLeft = (Len(tab["alert"]) + 1 - idx) + Len(tab["threshold"]) + 2)'
      /\ (pc = "threshold" => StepsLeft = Len(tab["threshold"]) + 2 - idx)'
      /\ (pc = "stopping" => StepsLeft = Len(tab["alert"]) + 2 - idx)'
      /\ (~Busy => StepsLeft = 0)'
  BY StepsLeftOf, PTL
<1>3. ASSUME idx' = idx + 1, UNCHANGED <<pc, tab>> PROVE StepsLeft' < StepsLeft
  <2>1. /\ Len(tab'["alert"]) = n /\ Len(tab'["threshold"]) = m
    BY <1>1, <1>3
  <2>2. CASE pc = "alert"
    <3>1. StepsLeft' = n + 1 - idx' + m + 2
      BY <1>2, <1>3, <2>1, <2>2
    <3> QED BY <1>1, <1>3, <2>2, <3>1
  <2>3. CASE pc = "threshold"
    <3>1. StepsLeft' = m + 2 - idx'
      BY <1>2, <1>3, <2>1, <2>3
    <3> QED BY <1>1, <1>3, <2>3, <3>1
  <2>4. CASE pc = "stopping"
    <3>1. StepsLeft' = n + 2 - idx'
      BY <1>2, <1>3, <2>1, <2>4
    <3> QED BY <1>1, <1>3, <2>4, <3>1
  <2> QED BY <2>2, <2>3, <2>4 DEF Busy
<1>4. StepsLeft > 0 /\ StepsLeft \in Nat
  BY <1>1
<1>5. ASSUME StepsLeft' < StepsLeft, StepsLeft' \in Nat PROVE StepsLeft' <= StepsLeft
  BY <1>4, <1>5
<1>6. StepsLeft' \in Nat
  <2>1. (TypeOK /\ LoopOK /\ LoopInTable => StepsLeft \in 0..(2 * MaxRules + 2))'
    BY StepsLeftBound, PTL
  <2>2. (TypeOK /\ LoopOK /\ LoopInTable)'
    BY StepType, LoopStep, LoopInTableStep
  <2> QED BY <2>1, <2>2
<1>7. CASE ProcessSlot
  <2>1. idx' = idx + 1 /\ UNCHANGED <<pc, tab>>
    BY <1>1, <1>7, SlotMemory
  <2> QED BY <1>3, <1>5, <1>6, <2>1
<1>8. CASE StopSlot
  <2>1. idx' = idx + 1 /\ UNCHANGED <<pc, tab>>
    BY <1>8 DEF StopSlot
  <2> QED BY <1>3, <1>5, <1>6, <2>1
<1>9. CASE AlertsDone
  <2>1. /\ pc = "alert" /\ pc' = "threshold" /\ idx' = 1 /\ UNCHANGED tab
        /\ idx > n
    BY <1>1, <1>9 DEF AlertsDone
  <2>2. StepsLeft' = m + 1
    <3>1. StepsLeft' = Len(tab'["threshold"]) + 2 - idx'
      BY <1>2, <2>1
    <3> QED BY <1>1, <2>1, <3>1
  <2>3. StepsLeft = m + 2
    BY <1>1, <2>1
  <2> QED BY <2>2, <2>3
<1>10. CASE ThresholdsDone \/ Stopped \/ Crash
  <2>1. ~Busy'
    BY <1>10 DEF ThresholdsDone, Stopped, Crash, Busy
  <2> QED BY <1>2, <1>4, <2>1
<1>11. CASE BeginPoll \/ ApplySave \/ BeginStop \/ Start
  BY <1>11 DEF BeginPoll, ApplySave, BeginStop, Start, Busy
<1>12. ASSUME ~Daemon, UNCHANGED <<pc, tab, idx>> PROVE StepsLeft' <= StepsLeft
  <2>1. StepsLeft' = StepsLeft
    BY <1>12 DEF StepsLeft
  <2> QED BY <1>4, <2>1
<1>13. ASSUME ~Daemon, ~Crash, ~ApplySave, ~BeginStop, ~Start PROVE UNCHANGED <<pc, tab, idx>>
  BY <1>13 DEF Next, Cgi, FirePort, FireDrill, ClearAll, BeginLoop, CgiSlot, CgiDone,
               WeatherChanges
<1> QED
  BY <1>4, <1>7, <1>8, <1>9, <1>10, <1>11, <1>12, <1>13
     DEF Daemon, alerts_process, threshold_process

(* Every poll and every stop ends, whatever the operator, the CGI and the  *)
(* weather do meanwhile and whether or not the ports answer: each of its   *)
(* steps leaves fewer to take, of 2 * MaxRules + 2 at most, and nobody     *)
(* adds any.                                                               *)
THEOREM LoopsEnd ==
  Spec => /\ [](StepsLeft \in 0..(2 * MaxRules + 2))
          /\ [][LoopGoesOn]_vars
<1>1. Init => LoopInTable
  BY DEF Init, LoopInTable
<1>2. Init => TypeOK /\ LoopOK
  BY InitInv
<1> QED BY <1>1, <1>2, StepType, LoopStep, LoopInTableStep, StepsLeftBound, LoopGoesOnStep,
           PTL DEF Spec

(* An enabled rule of port p matches the weather.                          *)
Lasting(p) ==
  /\ config.on
  /\ \E e \in Engine : \E i \in 1..Len(config.table[e]) :
       LET r == config.table[e][i]
       IN  r.port = p /\ r.enabled /\ r.trigger \in weather

(* The port is wanted by the poll under way, if there is one.              *)
WantedByPoll(p) == pc # "stopping" /\ (pc \in Engine => p \in WantedPorts)

LEMMA WantedStays ==
  ASSUME Env \subseteq {"crash"}, NEW p \in Port, TypeOK, LoopOK, [Next]_vars,
         Lasting(p), WantedByPoll(p)
  PROVE  WantedByPoll(p)'
<1> USE DEF WantedByPoll, cgiVars, daemonVars
<1>1. CASE BeginPoll
  <2>1. snap' = weather /\ tab' = config.table /\ pc' = "alert"
    BY <1>1, SnapshotsInFull DEF BeginPoll
  <2>2. p \in WantedPorts'
    BY <2>1 DEF WantedPorts, Wanted, Lasting
  <2> QED BY <2>1, <2>2
<1>2. CASE UNCHANGED <<tab, snap>> /\ (pc' \in Engine => pc \in Engine) /\ pc' # "stopping"
  <2>1. WantedPorts' = WantedPorts
    BY <1>2 DEF WantedPorts, Wanted
  <2> QED BY <1>2, <2>1
<1>3. CASE ProcessSlot
  <2>1. idx >= 1
    BY <1>3 DEF LoopOK, ProcessSlot, SlotDisabled, SlotActivate, SlotClear, SlotKeep, InLoop
  <2> QED BY <1>2, <1>3, <2>1, SlotMemory
<1>4. CASE Start
  BY <1>4 DEF Start
<1> QED
  BY <1>1, <1>2, <1>3, <1>4
     DEF Next, Daemon, Cgi, alerts_process, threshold_process, AlertsDone, ThresholdsDone,
         StopSlot, Stopped, ApplySave, BeginStop, Crash, FirePort, FireDrill, ClearAll,
         BeginLoop, CgiSlot, CgiDone, WeatherChanges, vars

LEMMA WantedPortStays ==
  ASSUME StableTables, Env \subseteq {"crash"}, NEW p \in Port, TypeOK, LoopOK, CgiQuiet,
         [Next]_vars, WantedByPoll(p), port[p]
  PROVE  port'[p]
<1> USE DEF WantedByPoll, cgiVars, daemonVars
<1>1. CASE ProcessSlot
  <2>1. idx >= 1 /\ pc \in Engine /\ tab \in Tables /\ "vapix" \notin Env
    BY <1>1 DEF LoopOK, ProcessSlot, SlotDisabled, SlotActivate, SlotClear, SlotKeep, InLoop
  <2>2. idx \in 1..Len(tab[pc])
    BY <1>1, <2>1, SlotMemory
  <2>3. PICK e \in Engine : \E i \in 1..Len(tab[e]) : tab[e][i].port = p /\ Wanted(e, i)
    BY <2>1 DEF WantedPorts
  <2>4. PICK i \in 1..Len(tab[e]) : tab[e][i].port = p /\ Wanted(e, i)
    BY <2>3
  <2>5. CASE Row.port = p
    <3>1. e = pc /\ i = idx
      BY <2>1, <2>2, <2>4, <2>5 DEF StableTables, Row
    <3> QED BY <1>1, <2>1, <2>4, <2>5, <3>1, SlotEffect
  <2>6. CASE Row.port # p
    BY <1>1, <2>1, <2>6, SlotEffect
  <2> QED BY <2>5, <2>6
<1>2. CASE UNCHANGED port
  BY <1>2
<1>3. CASE CgiSlot
  BY <1>3 DEF CgiSlot, CgiQuiet
<1> QED
  BY <1>1, <1>2, <1>3
     DEF Next, Daemon, Cgi, alerts_process, threshold_process, BeginPoll, AlertsDone,
         ThresholdsDone, StopSlot, Stopped, ApplySave, BeginStop, Crash, Start, FirePort,
         FireDrill, ClearAll, BeginLoop, CgiDone, WeatherChanges, vars

(* While an alert lasts, every poll wants the port of its enabled rule,    *)
(* and once one has ended that did, the port stays on without a moment's   *)
(* interruption: through polls, edits of other rules, crashes and respawns,*)
(* for every table with one port per rule, if calls succeed and nobody     *)
(* else drives the ports.                                                  *)
THEOREM LastingAlertNeverFlickers ==
  ASSUME StableTables, Env \subseteq {"crash"}, NEW p \in Port
  PROVE  Spec => /\ []((pc = "idle" /\ []Lasting(p)) => [](pc \in Engine => p \in WantedPorts))
                 /\ []((pc = "idle" /\ p \in WantedPorts /\ []Lasting(p)) => []port[p])
<1> DEFINE IInv == TypeOK /\ LoopOK /\ MemoryOK /\ CgiQuiet /\ AstrayQuiet /\ ActiveSlotsOn
<1>1. Init => IInv
  BY InitInv
<1>2. IInv /\ [Next]_vars => IInv'
  BY StepType, LoopStep, MemoryStep, CgiStep, AstrayStep, ActiveSlotsStep
<1>3. pc = "idle" => WantedByPoll(p)
  BY DEF WantedByPoll
<1>4. WantedByPoll(p) => (pc \in Engine => p \in WantedPorts)
  BY DEF WantedByPoll
<1>5. IInv /\ Lasting(p) /\ WantedByPoll(p) /\ [Next]_vars => WantedByPoll(p)'
  BY WantedStays
<1>6. IInv /\ pc = "idle" /\ p \in WantedPorts => port[p]
  <2>1. Env \cap {"vapix", "fire", "drill"} = {}
    OBVIOUS
  <2> QED BY <2>1, MissedFromInv DEF NoMissedAlert, AstrayQuiet
<1>7. IInv /\ WantedByPoll(p) /\ port[p] /\ [Next]_vars => port'[p]
  BY WantedPortStays
<1>8. port'[p] <=> (port[p])'
  OBVIOUS
<1> HIDE DEF IInv
<1> QED BY <1>1, <1>2, <1>3, <1>4, <1>5, <1>6, <1>7, <1>8, PTL DEF Spec

(* The poll under way saw nothing that matches.                            *)
NothingSeen == pc # "stopping" /\ (pc \in Engine => snap = {})

AllOff == \A p \in Port : ~port[p]

LEMMA NothingStays ==
  ASSUME Env \subseteq {"alertfetch"}, TypeOK, LoopOK, weather = {}, NothingSeen, [Next]_vars
  PROVE  NothingSeen'
<1> USE DEF NothingSeen, cgiVars, daemonVars
<1>1. CASE BeginPoll
  BY <1>1, SnapshotsQuiet DEF BeginPoll
<1>2. CASE ProcessSlot
  <2>1. idx >= 1
    BY <1>2 DEF LoopOK, ProcessSlot, SlotDisabled, SlotActivate, SlotClear, SlotKeep, InLoop
  <2> QED BY <1>2, <2>1, SlotMemory
<1>3. CASE UNCHANGED snap /\ (pc' \in Engine => pc \in Engine) /\ pc' # "stopping"
  BY <1>3
<1>4. CASE Start
  BY <1>4 DEF Start
<1> QED
  BY <1>1, <1>2, <1>3, <1>4
     DEF Next, Daemon, Cgi, alerts_process, threshold_process, AlertsDone, ThresholdsDone,
         StopSlot, Stopped, ApplySave, BeginStop, Crash, FirePort, FireDrill, ClearAll,
         BeginLoop, CgiSlot, CgiDone, WeatherChanges, vars

LEMMA OffStays ==
  ASSUME Env \subseteq {"alertfetch"}, TypeOK, LoopOK, CgiQuiet, NothingSeen, AllOff, [Next]_vars
  PROVE  AllOff'
<1> USE DEF NothingSeen, AllOff, cgiVars, daemonVars
<1>1. CASE ProcessSlot
  <2>1. idx >= 1 /\ pc \in Engine /\ "vapix" \notin Env
    BY <1>1 DEF LoopOK, ProcessSlot, SlotDisabled, SlotActivate, SlotClear, SlotKeep, InLoop
  <2>2. ~Wanted(pc, idx)
    BY <2>1 DEF Wanted
  <2> QED BY <1>1, <2>1, <2>2, SlotEffect
<1>2. CASE UNCHANGED port
  BY <1>2
<1>3. CASE CgiSlot
  BY <1>3 DEF CgiSlot, CgiQuiet
<1> QED
  BY <1>1, <1>2, <1>3
     DEF Next, Daemon, Cgi, alerts_process, threshold_process, BeginPoll, AlertsDone,
         ThresholdsDone, StopSlot, Stopped, ApplySave, BeginStop, Crash, Start, FirePort,
         FireDrill, ClearAll, BeginLoop, CgiDone, WeatherChanges, vars

(* While the weather stays quiet, every poll sees nothing that matches,    *)
(* and from the end of the first one on all ports are off and stay off:    *)
(* failed alerts requests and edits of the rules bring none back.          *)
THEOREM QuietWeatherKeepsPortsOff ==
  ASSUME StableTables, Env \subseteq {"alertfetch"}
  PROVE  Spec => /\ []((pc = "idle" /\ [](weather = {})) => [](pc \in Engine => snap = {}))
                 /\ []((pc = "idle" /\ snap = {} /\ [](weather = {})) => []AllOff)
<1> DEFINE IInv == /\ TypeOK /\ LoopOK /\ MemoryOK /\ CgiQuiet /\ AstrayQuiet
                   /\ ActiveSlotsOn /\ OnPortsRemembered
<1>1. Init => IInv
  BY InitInv DEF Init, OnPortsRemembered, Up, NoMemory
<1>2. Env \cap {"vapix", "fire", "drill"} = {}
  OBVIOUS
<1>3. IInv /\ [Next]_vars => IInv'
  BY <1>2, StepType, LoopStep, MemoryStep, CgiStep, AstrayStep, ActiveSlotsStep, OnPortsStep
<1>4. IInv /\ pc = "idle" /\ snap = {} => AllOff
  <2> SUFFICES ASSUME IInv, pc = "idle", snap = {} PROVE AllOff
    OBVIOUS
  <2>1. PortsMirrorRules
    BY <1>2, AtRest DEF AstrayQuiet
  <2>2. WantedPorts = {}
    BY DEF WantedPorts, Wanted
  <2> QED BY <2>1, <2>2 DEF PortsMirrorRules, AllOff
<1>5. (pc = "idle" => NothingSeen) /\ (NothingSeen => (pc \in Engine => snap = {}))
  BY DEF NothingSeen
<1>6. IInv /\ weather = {} /\ NothingSeen /\ [Next]_vars => NothingSeen'
  BY NothingStays
<1>7. IInv /\ NothingSeen /\ AllOff /\ [Next]_vars => AllOff'
  BY OffStays
<1> HIDE DEF IInv
<1> QED BY <1>1, <1>3, <1>4, <1>5, <1>6, <1>7, PTL DEF Spec
=============================================================================
