----------------------------- MODULE AlertPorts -----------------------------
(***************************************************************************)
(* The rule engines that drive the camera's virtual input ports:           *)
(*   alerts.c     NWS alert type -> port rules  (engine "alert")           *)
(*   threshold.c  numeric condition -> port rules (engine "threshold")     *)
(* as do_poll of weather_acap.c runs them, one rule slot at a time, with   *)
(* everything that can happen between two slots: the web UI's CGI process  *)
(* driving the same ports, VAPIX calls that fail, the daemon being stopped *)
(* or dying and being respawned.                                           *)
(*                                                                         *)
(* Both engines remember, per SLOT of their table (not per rule), whether  *)
(* the slot was active at the previous poll, and touch a port only when    *)
(* that memory changes.  The memory is a static array: it is lost with the *)
(* process, while the ports belong to the device and survive it.           *)
(***************************************************************************)
EXTENDS Naturals, Sequences

CONSTANTS
  Port,       \* virtual input ports of the device
  Trigger,    \* what a rule can match: alert types and threshold crossings
  Event,      \* the triggers that are NWS alert types
  AtZero,     \* the threshold crossings of readings that are all 0
  Tables,     \* the rule tables an operator may configure
  MaxRules,   \* slots per engine (ALERTS_MAX_TYPES, THRESHOLD_MAX_RULES)
  MaxManual,  \* bound on the number of manual port requests in a behaviour
  Env         \* the disturbances that may happen, a subset of Disturbance

Engine == {"alert", "threshold"}

Rule == [trigger : Trigger, port : Port, enabled : BOOLEAN]

Disturbance ==
  {"vapix",       \* a VAPIX port call fails and leaves the port as it was
   "alertfetch",  \* NWS conditions arrive but the alerts request fails
   "readings",    \* alerts arrive without conditions, or those without numbers
   "mute",        \* native events are switched off, or one cannot be sent
   "crash",       \* the daemon dies; runMode "respawn" starts it again
   "stop",        \* the app is stopped in an orderly way, and started again
   "fire",        \* Fire port and Clear port in the web UI
   "drill"}       \* Fire Drill and Clear all in the web UI

ASSUME TablesAssumption ==
  /\ MaxRules \in Nat
  /\ \A t \in Tables : /\ t \in [Engine -> Seq(Rule)]
                       /\ \A e \in Engine : Len(t[e]) <= MaxRules
ASSUME EventAssumption == Event \subseteq Trigger /\ AtZero \subseteq Trigger \ Event
ASSUME MaxManualAssumption == MaxManual \in Nat

VARIABLES
  \* the environment
  weather,    \* the triggers that really hold
  port,       \* state of the device's ports
  astray,     \* ports whose last request was made by hand, or failed
  \* the daemon
  config,     \* its parameters: the rule tables and SystemEnabled
  pc,         \* what its single thread is doing
  idx,        \* index of the rule loop it is in
  tab,        \* the tables parsed for this loop
  snap,       \* the snapshot fetched by the current or last poll
  prev,       \* g_prev_active of alerts.c and of threshold.c
  reported,   \* last action each trigger was reported with (history, events)
  eventActive,\* the "active" property of the native Alert event
  heard,      \* whether the event of the last transition was sent
  \* the CGI process
  cgi,        \* the loop of a Clear all or Fire Drill request under way
  manual      \* number of manual requests so far

listeners  == <<reported, eventActive, heard>>
daemonVars == <<config, pc, idx, tab, snap, prev, listeners>>
cgiVars    == <<cgi, manual>>
portVars   == <<port, astray>>
vars       == <<weather, portVars, daemonVars, cgiVars>>

(* "orphaned": activated by a process that died before the end was seen.   *)
Mark == {"none", "activated", "cleared", "orphaned"}

Slot == 1..MaxRules
NoTable == [e \in Engine |-> << >>]
NoMemory == [e \in Engine |-> [i \in Slot |-> FALSE]]
NoRequest == [op |-> "none", rows |-> << >>, i |-> 0]
Config == [on : BOOLEAN, table : Tables]

TypeOK ==
  /\ weather \in SUBSET Trigger
  /\ port \in [Port -> BOOLEAN]
  /\ astray \subseteq Port
  /\ config \in Config
  /\ pc \in {"idle", "alert", "threshold", "stopping", "off"}
  /\ idx \in Nat
  /\ tab \in Tables \cup {NoTable}
  /\ snap \in SUBSET Trigger
  /\ prev \in [Engine -> [Slot -> BOOLEAN]]
  /\ reported \in [Trigger -> Mark]
  /\ eventActive \in BOOLEAN /\ heard \in BOOLEAN
  /\ cgi \in [op : {"none", "clear", "drill"}, rows : Seq(Rule), i : Nat]
  /\ manual \in 0..MaxManual

Init ==
  /\ weather \in SUBSET Trigger
  /\ port = [p \in Port |-> FALSE]
  /\ astray = {}
  /\ config \in Config
  /\ pc = "idle"
  /\ idx = 0
  /\ tab = NoTable
  /\ snap = {}
  /\ prev = NoMemory
  /\ reported = [t \in Trigger |-> "none"]
  /\ eventActive = FALSE /\ heard = TRUE
  /\ cgi = NoRequest
  /\ manual = 0

-----------------------------------------------------------------------------
(***************************************************************************)
(* vapix_port_set: one HTTP request to the device.  The callers only log a *)
(* code other than 200, so all a failure changes is that the port keeps    *)
(* its state.                                                              *)
(***************************************************************************)
Ports(p, on) ==
  {[port EXCEPT ![p] = on]} \cup (IF "vapix" \in Env THEN {port} ELSE {})

(* By an engine.                                                           *)
SetPort(p, on) ==
  /\ port' \in Ports(p, on)
  /\ astray' = IF port' = [port EXCEPT ![p] = on] THEN astray \ {p} ELSE astray \cup {p}

(* By the operator, which no engine notices.                               *)
SetPortByHand(p, on) == port' \in Ports(p, on) /\ astray' = astray \cup {p}

(* axisevents_publish_alert: nothing is sent while AxisEventsEnabled, read  *)
(* at every poll, is off; a send that fails is only logged.                *)
Publish(action) ==
  \/ eventActive' = (action = "activated") /\ heard' = TRUE
  \/ "mute" \in Env /\ heard' = FALSE /\ UNCHANGED eventActive

(* The transition callback of both engines: history and native event.      *)
Report(t, action) == reported' = [reported EXCEPT ![t] = action] /\ Publish(action)

Silent == UNCHANGED listeners

-----------------------------------------------------------------------------
(***************************************************************************)
(* The poll.  The fetch is abstracted to the snapshot it yields: of the    *)
(* alerts, those in force, or none when the request for them fails while   *)
(* conditions arrive (nws_get_alerts returns a list that is empty in both  *)
(* cases); of the thresholds, those crossed, or those that 0 crosses when  *)
(* only alerts arrive or the observation has no numbers.  A fetch that     *)
(* yields nothing skips the rules, as SystemEnabled=no does, and changes   *)
(* nothing modelled here.                                                  *)
(***************************************************************************)
AlertsReceived ==
  {weather \cap Event} \cup (IF "alertfetch" \in Env THEN {{}} ELSE {})

CrossingsReceived ==
  {weather \ Event} \cup (IF "readings" \in Env THEN {AtZero} ELSE {})

Snapshots == {a \cup c : a \in AlertsReceived, c \in CrossingsReceived}

BeginPoll ==
  /\ pc = "idle"
  /\ config.on
  /\ snap' \in Snapshots
  /\ tab' = config.table
  /\ pc' = "alert"
  /\ idx' = 1
  /\ UNCHANGED <<weather, portVars, config, prev, listeners, cgiVars>>

Row == tab[pc][idx]
InLoop == pc \in Engine /\ idx <= Len(tab[pc])
Matches(r) == r.trigger \in snap
Remember(active) == prev' = [prev EXCEPT ![pc][idx] = active]
NextSlot == idx' = idx + 1 /\ UNCHANGED <<weather, config, pc, tab, snap, cgiVars>>

(* Defective variants of the slot's actions, which the properties rule out. *)
SlotDisabledKeepsPort ==
  /\ InLoop
  /\ ~Row.enabled
  /\ Remember(FALSE)
  /\ UNCHANGED portVars
  /\ Silent
  /\ NextSlot

SlotDisabledKeepsMemory ==
  /\ InLoop
  /\ ~Row.enabled
  /\ IF prev[pc][idx] THEN SetPort(Row.port, FALSE) ELSE UNCHANGED portVars
  /\ UNCHANGED prev
  /\ Silent
  /\ NextSlot

SlotActivateOnlyReports ==
  /\ InLoop
  /\ Row.enabled /\ Matches(Row) /\ ~prev[pc][idx]
  /\ UNCHANGED portVars
  /\ Report(Row.trigger, "activated")
  /\ Remember(TRUE)
  /\ NextSlot

SlotActivateMislabelled ==
  /\ InLoop
  /\ Row.enabled /\ Matches(Row) /\ ~prev[pc][idx]
  /\ SetPort(Row.port, TRUE)
  /\ Report(Row.trigger, "active")
  /\ Remember(TRUE)
  /\ NextSlot

SlotClearOnlyReports ==
  /\ InLoop
  /\ Row.enabled /\ ~Matches(Row) /\ prev[pc][idx]
  /\ UNCHANGED portVars
  /\ Report(Row.trigger, "cleared")
  /\ Remember(FALSE)
  /\ NextSlot

SlotClearUnreported ==
  /\ InLoop
  /\ Row.enabled /\ ~Matches(Row) /\ prev[pc][idx]
  /\ SetPort(Row.port, FALSE)
  /\ Remember(FALSE)
  /\ Silent
  /\ NextSlot

(* A disabled rule: a slot that was active is cleared, and not reported.   *)
SlotDisabled ==
  /\ InLoop
  /\ ~Row.enabled
  /\ IF prev[pc][idx] THEN SetPort(Row.port, FALSE) ELSE UNCHANGED portVars
  /\ Remember(FALSE)
  /\ Silent
  /\ NextSlot

(* A rule that matches now and did not at the previous poll.  The memory   *)
(* is updated whether or not the device took the request.                  *)
SlotActivate ==
  /\ InLoop
  /\ Row.enabled /\ Matches(Row) /\ ~prev[pc][idx]
  /\ SetPort(Row.port, TRUE)
  /\ Report(Row.trigger, "activated")
  /\ Remember(TRUE)
  /\ NextSlot

(* A rule that matched at the previous poll and no longer does.            *)
SlotClear ==
  /\ InLoop
  /\ Row.enabled /\ ~Matches(Row) /\ prev[pc][idx]
  /\ SetPort(Row.port, FALSE)
  /\ Report(Row.trigger, "cleared")
  /\ Remember(FALSE)
  /\ NextSlot

(* No transition.                                                          *)
SlotKeep ==
  /\ InLoop
  /\ Row.enabled /\ (Matches(Row) <=> prev[pc][idx])
  /\ UNCHANGED <<portVars, prev>>
  /\ Silent
  /\ NextSlot

ProcessSlot == SlotDisabled \/ SlotActivate \/ SlotClear \/ SlotKeep

AlertsDone ==
  /\ pc = "alert" /\ idx > Len(tab[pc])
  /\ pc' = "threshold"
  /\ idx' = 1
  /\ UNCHANGED <<weather, portVars, config, tab, snap, prev, listeners, cgiVars>>

ThresholdsDone ==
  /\ pc = "threshold" /\ idx > Len(tab[pc])
  /\ pc' = "idle"
  /\ idx' = 0
  /\ UNCHANGED <<weather, portVars, config, tab, snap, prev, listeners, cgiVars>>

alerts_process    == pc = "alert" /\ ProcessSlot
threshold_process == pc = "threshold" /\ ProcessSlot

-----------------------------------------------------------------------------
(***************************************************************************)
(* Between polls: a saved configuration is applied by the main loop's      *)
(* one-second callback or at the start of do_poll, never inside a poll.    *)
(***************************************************************************)
ApplySave ==
  /\ pc = "idle"
  /\ config' \in Config
  /\ UNCHANGED <<weather, portVars, pc, idx, tab, snap, prev, listeners, cgiVars>>

(***************************************************************************)
(* Orderly stop: SIGTERM ends the main loop, main parses the current       *)
(* AlertMap and alerts_clear_all clears the slots that were active.        *)
(***************************************************************************)
BeginStop ==
  /\ "stop" \in Env
  /\ pc = "idle"
  /\ pc' = "stopping"
  /\ idx' = 1
  /\ tab' = config.table
  /\ UNCHANGED <<weather, portVars, config, snap, prev, listeners, cgiVars>>

StopSlot ==
  /\ pc = "stopping" /\ idx <= Len(tab["alert"])
  /\ IF prev["alert"][idx] THEN SetPort(tab["alert"][idx].port, FALSE)
                           ELSE UNCHANGED portVars
  /\ idx' = idx + 1
  /\ UNCHANGED <<weather, config, pc, tab, snap, prev, listeners, cgiVars>>

Stopped ==
  /\ pc = "stopping" /\ idx > Len(tab["alert"])
  /\ prev' = [prev EXCEPT !["alert"] = [i \in Slot |-> FALSE]]
  /\ pc' = "off"
  /\ idx' = 0
  /\ UNCHANGED <<weather, portVars, config, tab, snap, listeners, cgiVars>>

(* The process dies wherever it is.                                        *)
Crash ==
  /\ "crash" \in Env
  /\ pc # "off"
  /\ pc' = "off"
  /\ idx' = 0
  /\ UNCHANGED <<weather, portVars, config, tab, snap, prev, listeners, cgiVars>>

(* Defective: the slots' memory outlives the process.                      *)
StartRemembers ==
  /\ pc = "off"
  /\ pc' = "idle"
  /\ tab' = NoTable
  /\ snap' = {}
  /\ eventActive' = FALSE /\ heard' = TRUE
  /\ UNCHANGED <<weather, portVars, config, idx, prev, reported, cgiVars>>

(* A new process: the statics are zero, the ports are what they were.      *)
Start ==
  /\ pc = "off"
  /\ pc' = "idle"
  /\ prev' = NoMemory
  /\ tab' = NoTable
  /\ snap' = {}
  /\ eventActive' = FALSE /\ heard' = TRUE
  /\ reported' = [t \in Trigger |-> IF reported[t] = "activated" THEN "orphaned" ELSE reported[t]]
  /\ UNCHANGED <<weather, portVars, config, idx, cgiVars>>

-----------------------------------------------------------------------------
(***************************************************************************)
(* The web UI's CGI process drives the same device.                        *)
(***************************************************************************)
FirePort(p, on) ==
  /\ "fire" \in Env /\ manual < MaxManual
  /\ cgi = NoRequest
  /\ SetPortByHand(p, on)
  /\ manual' = manual + 1
  /\ UNCHANGED <<weather, daemonVars, cgi>>

BeginLoop(op) ==
  /\ "drill" \in Env /\ manual < MaxManual
  /\ cgi = NoRequest
  /\ cgi' = [op |-> op, rows |-> config.table["alert"], i |-> 1]
  /\ manual' = manual + 1
  /\ UNCHANGED <<weather, portVars, daemonVars>>

FireDrill == BeginLoop("drill")
ClearAll  == BeginLoop("clear")

(* One rule of endpoint_clear_all, or of endpoint_fire_drill, which skips  *)
(* disabled rules.                                                         *)
CgiSlot ==
  /\ cgi.op # "none" /\ cgi.i <= Len(cgi.rows)
  /\ LET r == cgi.rows[cgi.i]
     IN  IF cgi.op = "drill" /\ ~r.enabled
           THEN UNCHANGED portVars
           ELSE SetPortByHand(r.port, cgi.op = "drill")
  /\ cgi' = [cgi EXCEPT !.i = @ + 1]
  /\ UNCHANGED <<weather, daemonVars, manual>>

CgiDone ==
  /\ cgi.op # "none" /\ cgi.i > Len(cgi.rows)
  /\ cgi' = NoRequest
  /\ UNCHANGED <<weather, portVars, daemonVars, manual>>

WeatherChanges ==
  /\ weather' \in SUBSET Trigger
  /\ UNCHANGED <<portVars, daemonVars, cgiVars>>

-----------------------------------------------------------------------------
Daemon ==
  \/ BeginPoll
  \/ alerts_process \/ AlertsDone
  \/ threshold_process \/ ThresholdsDone
  \/ StopSlot \/ Stopped

Cgi == CgiSlot \/ CgiDone

Next ==
  \/ Daemon
  \/ ApplySave
  \/ BeginStop \/ Crash \/ Start
  \/ \E p \in Port, on \in BOOLEAN : FirePort(p, on)
  \/ FireDrill \/ ClearAll \/ Cgi
  \/ WeatherChanges

Spec == Init /\ [][Next]_vars

(***************************************************************************)
(* Fairness: the poll timer of the main loop keeps firing and every        *)
(* request of a poll or of a CGI loop returns (VAPIX calls have a          *)
(* time-out); a daemon that is down is respawned or restarted.  The        *)
(* operator and the weather owe nothing.                                   *)
(***************************************************************************)
Fairness == WF_vars(Daemon) /\ WF_vars(Cgi) /\ WF_vars(Start)

FairSpec == Spec /\ Fairness

-----------------------------------------------------------------------------
(***************************************************************************)
(* Properties.                                                             *)
(***************************************************************************)
(* Rule i of engine e matched the snapshot of the current or last poll.    *)
Wanted(e, i) == tab[e][i].enabled /\ tab[e][i].trigger \in snap

WantedPorts ==
  {p \in Port : \E e \in Engine : \E i \in 1..Len(tab[e]) :
                   tab[e][i].port = p /\ Wanted(e, i)}

(* Configurations between which only the enabled flags and the triggers of *)
(* the rows differ, with no port mapped twice.                             *)
StableTables ==
  /\ \A t, u \in Tables : \A e \in Engine :
       /\ Len(t[e]) = Len(u[e])
       /\ \A i \in 1..Len(t[e]) : t[e][i].port = u[e][i].port
  /\ \A t \in Tables : \A e, f \in Engine :
       \A i \in 1..Len(t[e]), j \in 1..Len(t[f]) :
         t[e][i].port = t[f][j].port => e = f /\ i = j

(***************************************************************************)
(* The invariants behind PortsMirrorRules and NoMissedAlert.               *)
(***************************************************************************)
Up == pc \in Engine \cup {"idle"}

(* A loop runs over a configured table, from its first row.                *)
LoopOK ==
  /\ pc \in Engine \cup {"stopping"} => tab \in Tables /\ idx >= 1
  /\ cgi.op # "none" => cgi.i >= 1

(* The slots that the current or last poll has processed.                  *)
Processed(e, i) ==
  \/ pc = "idle"
  \/ pc = e /\ i < idx
  \/ pc = "threshold" /\ e = "alert"

(* A processed slot remembers whether its rule matched the snapshot.       *)
MemoryOK ==
  Up => \A e \in Engine : \A i \in 1..Len(tab[e]) :
          Processed(e, i) => (prev[e][i] <=> Wanted(e, i))

(* A slot remembered active has its port on, or the port is astray.        *)
ActiveSlotsOn ==
  Up => \A e \in Engine : \A i \in 1..Len(config.table[e]) :
          LET p == config.table[e][i].port
          IN  prev[e][i] => port[p] \/ p \in astray

(* A port that is on is remembered by a slot.                              *)
OnPortsRemembered ==
  /\ Up
  /\ \A p \in Port : port[p] =>
       \E e \in Engine : \E i \in 1..Len(config.table[e]) :
         config.table[e][i].port = p /\ prev[e][i]
  /\ \A e \in Engine, i \in Slot :
       prev[e][i] => tab # NoTable /\ i <= Len(config.table[e])

(* After every poll a port is on exactly when an enabled rule mapped to it *)
(* matches what the poll fetched (README: "Activates VAPIX virtual input   *)
(* ports when configured alert types are active; clears them when the      *)
(* alert ends"), across rules being enabled and disabled between polls.    *)
PortsMirrorRules ==
  pc = "idle" => \A p \in Port : port[p] <=> p \in WantedPorts

(* The half of PortsMirrorRules that survives everything: after every poll *)
(* the port of each enabled rule that matches is on, whatever the process  *)
(* forgot by dying since it turned it on, unless the last request for the  *)
(* port failed or was a manual one.                                        *)
NoMissedAlert == pc = "idle" => \A p \in WantedPorts \ astray : port[p]

(* The comment of main ("Clear any active ports") and threshold.h ("Clear  *)
(* all active threshold ports (call on shutdown)"): nothing is left on.    *)
StopClearsAllPorts == pc = "off" => \A p \in Port : ~port[p]

(* Between polls, what the history and the event system were last told of  *)
(* an enabled rule by this process is what the engine remembers of it, and *)
(* the stateful event is not left active when no slot is, unless the event *)
(* of the last transition was not sent; even when port calls and requests  *)
(* for alerts fail, the web UI drives the same ports and the process dies  *)
(* between two slots.                                                      *)
ListenersAgree ==
  pc = "idle" =>
    /\ \A e \in Engine : \A i \in 1..Len(tab[e]) :
         tab[e][i].enabled =>
           (reported[tab[e][i].trigger] = "activated" <=> prev[e][i])
    /\ eventActive /\ heard => \E e \in Engine, i \in Slot : prev[e][i]

(* If the weather stays quiet and the system stays enabled and up, every   *)
(* port is released for good.                                              *)
QuietWeatherReleasesPorts ==
  <>[](config.on /\ weather = {} /\ pc # "off")
    => <>[](\A p \in Port : ~port[p])

(* An alert that lasts holds the port of its enabled rule on.              *)
LastingAlertHoldsPort ==
  \A p \in Port :
    <>[](/\ config.on
         /\ \E e \in Engine : \E i \in 1..Len(config.table[e]) :
              LET r == config.table[e][i]
              IN  r.port = p /\ r.enabled /\ r.trigger \in weather)
      => <>[]port[p]

(* What the engines promise, see PortMirror: a poll moves each port at     *)
(* most once, straight to its target, and settles all before the next.     *)
Mirror == INSTANCE PortMirror WITH wanted <- WantedPorts
MirrorSafety == Mirror!Safety
MirrorSpec == Mirror!Spec
=============================================================================
