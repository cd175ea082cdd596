---------------------------- MODULE WeatherPoll ----------------------------
(***************************************************************************)
(* One poll from the weather services to everyone who is told: do_poll of  *)
(* weather_acap.c around weather_api_fetch (nws.c, openmeteo.c), the       *)
(* status file, the conditions log of condhistory.c, the native event, and *)
(* the dashboard that reads the files through the CGI at any moment.       *)
(*                                                                         *)
(* A request to a service, an opening of a file, a write to it and a read  *)
(* of a line are one step each.  What the poll does with the snapshot in   *)
(* between (ports, overlay, notifications, lightning) has modules of its   *)
(* own.                                                                    *)
(***************************************************************************)
EXTENDS Naturals, Sequences, FiniteSets, SequencesExt

CONSTANTS
  Temp,     \* readings that are told apart
  Zero,     \* the reading of a number that an answer does not hold
  Cut,      \* a line of the log whose end is not written
  Garbled,  \* a line that was written behind a cut one
  Mixed,    \* two halves of lines, read across a rewrite, that parse as one
  Configs,  \* the configurations an operator may save
  LogMax,   \* CONDHISTORY_MAX
  TailMax,  \* the lines that the dashboard asks for
  MaxCrash  \* bound on the deaths of the daemon in a behaviour

ASSUME LogAssumption ==
  LogMax \in Nat \ {0} /\ TailMax \in 1..LogMax /\ MaxCrash \in Nat

Reading == Temp \cup {Zero}
Line == Reading \cup {Cut, Garbled}

Settings ==
  [on : BOOLEAN, mock : BOOLEAN,
   provider : {"auto", "nws", "openmeteo"},
   located : {"override", "zip", "nowhere"}]

ASSUME ConfigsAssumption == Configs \subseteq Settings
ASSUME LineAssumption == /\ Cut # Garbled
                         /\ Mixed \notin Line
                         /\ Reading \cap {Cut, Garbled} = {}

VARIABLES
  \* the environment: Open-Meteo answers every request, or only some
  om,
  \* the daemon: its settings, the point of its poll, the snapshot, and
  \* what prune_file has still to write
  config, pc, snap, rest,
  \* the files, which outlive it
  status, log,
  \* what the dashboard shows, and its read of the log
  page, reader,
  \* history: the services that answered in this poll, the conditions event
  \* it sent, the valid readings of this daemon, and how many died before it
  answered, event, recent, crashes

pollVars == <<config, pc, snap, rest>>
history  == <<answered, event, recent, crashes>>
vars     == <<om, pollVars, status, log, page, reader, history>>

Snapshot ==
  [by : {"none", "nws", "openmeteo", "mock"}, temp : Reading,
   sun : BOOLEAN, alert : BOOLEAN, where : BOOLEAN]

Empty == [by |-> "none", temp |-> Zero, sun |-> FALSE, alert |-> FALSE, where |-> FALSE]

(* A read of the log: the next line, the lines that the file had when it   *)
(* was opened, those that were read, and whether a rewrite has torn it.    *)
NotReading == [at |-> 0, size |-> 0, got |-> << >>, torn |-> "no"]

Valid(s) == s.by # "none"
Ok(s) == Valid(s) \/ s.alert

PollOK ==
  /\ om \in BOOLEAN
  /\ config \in Configs
  /\ pc \in {"started", "idle", "locate", "nws", "openmeteo", "sun", "alerts",
             "status", "fill", "append", "prune", "rewrite", "publish",
             "lightning", "refill", "heartbeat", "off"}
  /\ snap \in Snapshot
  /\ status \in [file : {"absent", "cut", "whole"}, snap : Snapshot, error : BOOLEAN]
  /\ log \in Seq(Line) /\ Len(log) <= LogMax + 1 + crashes
  /\ rest \in Seq(Reading \cup {Garbled}) /\ Len(rest) <= LogMax
  /\ page \in {"no data", "weather"}
  /\ answered \subseteq {"nws", "openmeteo", "alerts"}
  /\ event \in SUBSET Reading /\ Cardinality(event) <= 1
  /\ recent \in Seq(Reading) /\ Len(recent) <= LogMax + 1
  /\ crashes \in 0..MaxCrash

ReaderOK ==
  reader \in [at : Nat, size : Nat, got : Seq(Line \cup {Mixed}), torn : {"no", "now", "past"}]

TypeOK == PollOK /\ ReaderOK

Init ==
  /\ om \in BOOLEAN
  /\ config \in Configs
  /\ pc = "started" /\ snap = Empty /\ rest = << >>
  /\ status = [file |-> "absent", snap |-> Empty, error |-> FALSE]
  /\ log = << >>
  /\ page = "no data" /\ reader = NotReading
  /\ answered = {} /\ event = {} /\ recent = << >> /\ crashes = 0

-----------------------------------------------------------------------------
LastOf(n, s) == IF Len(s) <= n THEN s ELSE SubSeq(s, Len(s) - n + 1, Len(s))

Goto(next) == pc' = next

(* A step of the fetch: it touches no file.                                *)
FetchStep == UNCHANGED <<om, config, rest, status, log, page, reader, event, recent, crashes>>

UseNws == config.provider # "openmeteo"
UseOpenMeteo == config.provider # "nws"

Idle == pc \in {"started", "idle"}

NewPoll ==
  /\ answered' = {} /\ event' = {}
  /\ UNCHANGED <<om, config, rest, status, log, page, reader, recent, crashes>>

(* Defective: the snapshot of the poll before is filled in again.          *)
BeginPollKeepsSnapshot ==
  /\ Idle /\ config.on /\ ~config.mock
  /\ Goto("locate")
  /\ UNCHANGED snap
  /\ NewPoll

BeginPoll ==
  /\ Idle /\ config.on /\ ~config.mock
  /\ Goto("locate")
  /\ snap' = Empty
  /\ NewPoll

(* Mock mode fills in a reading and an alert, and no coordinates.          *)
MockPoll ==
  /\ Idle /\ config.on /\ config.mock
  /\ \E t \in Temp : snap' = [Empty EXCEPT !.by = "mock", !.temp = t, !.alert = TRUE]
  /\ Goto("status")
  /\ NewPoll

(* resolve_coords: an override needs nobody, a ZIP code needs the geocoder *)
(* at every poll.  Without coordinates the fetch ends here.                *)
ResolveCoords ==
  /\ pc = "locate"
  /\ config.located \in {"override", "zip"}
  /\ snap' = [snap EXCEPT !.where = TRUE]
  /\ Goto(IF UseNws THEN "nws" ELSE "openmeteo")
  /\ UNCHANGED answered
  /\ FetchStep

CoordsFail ==
  /\ pc = "locate"
  /\ config.located \in {"zip", "nowhere"}
  /\ Goto("status")
  /\ UNCHANGED <<snap, answered>>
  /\ FetchStep

AfterConditions == IF UseNws THEN "alerts" ELSE "status"

(* An observation is valid without a temperature in it.                    *)
NwsAnswers ==
  /\ pc = "nws"
  /\ \E t \in Reading : snap' = [snap EXCEPT !.by = "nws", !.temp = t]
  /\ answered' = answered \cup {"nws"}
  /\ Goto("sun")
  /\ FetchStep

(* Defective: the fall-back is kept for the provider Open-Meteo.           *)
NwsFailsForGood ==
  /\ pc = "nws"
  /\ Goto("alerts")
  /\ UNCHANGED <<snap, answered>>
  /\ FetchStep

NwsFails ==
  /\ pc = "nws"
  /\ Goto(IF UseOpenMeteo THEN "openmeteo" ELSE "alerts")
  /\ UNCHANGED <<snap, answered>>
  /\ FetchStep

(* Defective: the snapshot names the service as the status page spells it. *)
OpenMeteoMislabelled ==
  /\ pc = "openmeteo"
  /\ \E t \in Reading, s \in BOOLEAN :
       /\ snap' = [snap EXCEPT !.by = "open-meteo", !.temp = t, !.sun = s]
       /\ Goto(IF s THEN AfterConditions ELSE "sun")
  /\ answered' = answered \cup {"openmeteo"}
  /\ FetchStep

OpenMeteoAnswers ==
  /\ pc = "openmeteo"
  /\ \E t \in Reading, s \in BOOLEAN :
       /\ snap' = [snap EXCEPT !.by = "openmeteo", !.temp = t, !.sun = s]
       /\ Goto(IF s THEN AfterConditions ELSE "sun")
  /\ answered' = answered \cup {"openmeteo"}
  /\ FetchStep

OpenMeteoFails ==
  /\ pc = "openmeteo" /\ ~om
  /\ Goto(AfterConditions)
  /\ UNCHANGED <<snap, answered>>
  /\ FetchStep

(* The times of sunrise and sunset, for conditions that came without.      *)
SunTimes ==
  /\ pc = "sun"
  /\ \/ /\ \E s \in BOOLEAN : snap' = [snap EXCEPT !.sun = s]
        /\ answered' = answered \cup {"openmeteo"}
     \/ ~om /\ UNCHANGED <<snap, answered>>
  /\ Goto(AfterConditions)
  /\ FetchStep

(* A failed request and an answer without alerts fill in the same.         *)
NwsAlerts ==
  /\ pc = "alerts"
  /\ \/ /\ \E a \in BOOLEAN : snap' = [snap EXCEPT !.alert = a]
        /\ answered' = answered \cup {"alerts"}
     \/ UNCHANGED <<snap, answered>>
  /\ Goto("status")
  /\ FetchStep

weather_api_fetch ==
  \/ ResolveCoords \/ CoordsFail
  \/ NwsAnswers \/ NwsFails
  \/ OpenMeteoAnswers \/ OpenMeteoFails
  \/ SunTimes \/ NwsAlerts

-----------------------------------------------------------------------------
(* write_status: the file is emptied when it is opened and filled when it  *)
(* is closed, in parts if it is long, failed polls included.               *)
OpenStatus ==
  /\ pc = "status"
  /\ status' = [status EXCEPT !.file = "cut"]
  /\ Goto("fill")
  /\ UNCHANGED <<om, config, snap, rest, log, page, reader, history>>

(* Defective: alerts without conditions are logged and published too.      *)
CloseStatusAnyOk ==
  /\ pc \in {"fill", "refill"}
  /\ status' = [file |-> "whole", snap |-> snap, error |-> ~Ok(snap)]
  /\ Goto(CASE pc = "refill" -> "heartbeat"
            [] pc = "fill" /\ Ok(snap) -> "append"
            [] OTHER -> "lightning")
  /\ UNCHANGED <<om, config, snap, rest, log, page, reader, history>>

CloseStatus ==
  /\ pc \in {"fill", "refill"}
  /\ status' = [file |-> "whole", snap |-> snap, error |-> ~Ok(snap)]
  /\ Goto(CASE pc = "refill" -> "heartbeat"
            [] pc = "fill" /\ Ok(snap) /\ Valid(snap) -> "append"
            [] OTHER -> "lightning")
  /\ UNCHANGED <<om, config, snap, rest, log, page, reader, history>>

(* condhistory_append: one line at the end of the file, behind whatever a  *)
(* daemon that died left there.                                            *)
AppendReading ==
  /\ pc = "append"
  /\ log' = IF log # << >> /\ Last(log) = Cut
              THEN Append(Front(log), Garbled)
              ELSE Append(log, snap.temp)
  /\ recent' = LastOf(LogMax + 1, Append(recent, snap.temp))
  /\ Goto("prune")
  /\ UNCHANGED <<om, config, snap, rest, status, page, reader, answered, event, crashes>>

(* A read under way goes on in a file that is no longer the one it opened. *)
Tear == reader' = IF reader.at = 0 THEN reader ELSE [reader EXCEPT !.torn = "now"]

(* Defective: the line just written goes, not the oldest.                  *)
PruneKeepsFirst ==
  /\ pc = "prune"
  /\ IF Len(log) <= LogMax
       THEN Goto("publish") /\ UNCHANGED <<rest, log, reader>>
       ELSE Goto("rewrite") /\ rest' = SubSeq(log, 1, LogMax) /\ log' = << >> /\ Tear
  /\ UNCHANGED <<om, config, snap, status, page, history>>

(* Defective: one line too few is kept.                                    *)
PruneOneTooMany ==
  /\ pc = "prune"
  /\ IF Len(log) <= LogMax
       THEN Goto("publish") /\ UNCHANGED <<rest, log, reader>>
       ELSE Goto("rewrite") /\ rest' = LastOf(LogMax - 1, log) /\ log' = << >> /\ Tear
  /\ UNCHANGED <<om, config, snap, status, page, history>>

(* prune_file reads the file; too long, it is emptied ...                  *)
Prune ==
  /\ pc = "prune"
  /\ IF Len(log) <= LogMax
       THEN Goto("publish") /\ UNCHANGED <<rest, log, reader>>
       ELSE Goto("rewrite") /\ rest' = LastOf(LogMax, log) /\ log' = << >> /\ Tear
  /\ UNCHANGED <<om, config, snap, status, page, history>>

(* ... and the lines to keep are written back, in blocks that end anywhere *)
(* in a line.                                                              *)
CutLine == log # << >> /\ Last(log) = Cut

RewriteLine ==
  /\ pc = "rewrite" /\ rest # << >>
  /\ IF CutLine
       THEN log' = Append(Front(log), Head(rest)) /\ rest' = Tail(rest)
       ELSE log' = Append(log, Cut) /\ UNCHANGED rest
  /\ UNCHANGED <<om, config, pc, snap, status, page, reader, history>>

Rewritten ==
  /\ pc = "rewrite" /\ rest = << >>
  /\ Goto("publish")
  /\ UNCHANGED <<om, config, snap, rest, status, log, page, reader, history>>

(* axisevents_publish_conditions: the stateless conditions event, which is *)
(* not sent if events are off, and may fail to be, which is only logged.   *)
Publish ==
  /\ pc = "publish"
  /\ event' \in {{snap.temp}, {}}
  /\ Goto("lightning")
  /\ reader' = NotReading
  /\ UNCHANGED <<om, config, snap, rest, status, log, page, answered, recent, crashes>>

(* A change of the lightning risk, looked up where the coordinates are     *)
(* known, writes the status a second time.                                 *)
LightningChanges ==
  /\ pc = "lightning" /\ snap.where
  /\ status' = [status EXCEPT !.file = "cut"]
  /\ Goto("refill")
  /\ UNCHANGED <<om, config, snap, rest, log, page, reader, history>>

NoLightning ==
  /\ pc = "lightning"
  /\ Goto("heartbeat")
  /\ UNCHANGED <<om, config, snap, rest, status, log, page, reader, history>>

(* The heartbeat file's time is not modelled: this ends the poll.          *)
Heartbeat ==
  /\ pc = "heartbeat"
  /\ Goto("idle")
  /\ UNCHANGED <<om, config, snap, rest, status, log, page, reader, history>>

do_poll ==
  \/ BeginPoll \/ MockPoll
  \/ weather_api_fetch
  \/ OpenStatus \/ CloseStatus
  \/ AppendReading \/ Prune \/ RewriteLine \/ Rewritten
  \/ Publish
  \/ LightningChanges \/ NoLightning
  \/ Heartbeat

-----------------------------------------------------------------------------
ApplySave ==
  /\ Idle
  /\ config' \in Configs
  /\ UNCHANGED <<om, pc, snap, rest, status, log, page, reader, history>>

(* The process ends, anywhere: what it had not written is lost.            *)
Crash ==
  /\ pc # "off" /\ crashes < MaxCrash
  /\ Goto("off")
  /\ crashes' = crashes + 1 /\ recent' = << >>
  /\ reader' = NotReading
  /\ UNCHANGED <<om, config, snap, rest, status, log, page, answered, event>>

Start ==
  /\ pc = "off"
  /\ Goto("started")
  /\ snap' = Empty /\ rest' = << >> /\ event' = {} /\ answered' = {}
  /\ UNCHANGED <<om, config, status, log, page, reader, recent, crashes>>

(* pollStatus of app.js through endpoint_status.  An absent file reads as  *)
(* an empty object.  A cut one makes an answer that does not parse, and    *)
(* the page keeps what it shows: not a step of this action.                *)
PollStatus ==
  /\ status.file # "cut"
  /\ page' = IF status.file = "whole" /\ Valid(status.snap) THEN "weather" ELSE "no data"
  /\ UNCHANGED <<om, pollVars, status, log, reader, history>>

(* The dashboard's read of the log by the CGI.  It is followed while the   *)
(* daemon is at the log, from append to publish: between these the file    *)
(* stands still, and a read is over before the next poll is at the log, a  *)
(* minute later or more.  read_file asks for the size of the file first ...*)
AtLog == pc \in {"append", "prune", "rewrite", "publish"}
WholeLines == IF CutLine THEN Front(log) ELSE log

ReadOpen ==
  /\ AtLog /\ reader.at = 0 /\ WholeLines # << >>
  /\ reader' = [at |-> 1, size |-> Len(WholeLines), got |-> << >>, torn |-> "no"]
  /\ UNCHANGED <<om, pollVars, status, log, page, history>>

(* ... and then reads as many bytes, in several calls, from the file as it *)
(* is at each.                                                             *)
More == /\ reader.at \in 1..Len(WholeLines)
        /\ reader.torn = "no" => reader.at <= reader.size

ReadLine ==
  /\ More
  /\ reader' = [reader EXCEPT !.at = @ + 1, !.got = Append(@, log[reader.at]),
                              !.torn = IF @ = "no" THEN "no" ELSE "past"]
  /\ UNCHANGED <<om, pollVars, status, log, page, history>>

(* The first call after a rewrite: lines differ in length and the oldest   *)
(* one is gone, so that its bytes begin within a line, that one or a later *)
(* one, and are read as the end of what was read before.                   *)
ReadSeam ==
  /\ More /\ reader.torn = "now"
  /\ \E line \in {Mixed, Garbled}, next \in reader.at..(Len(WholeLines) + 1) :
       reader' = [reader EXCEPT !.at = next, !.got = Append(@, line), !.torn = "past"]
  /\ UNCHANGED <<om, pollVars, status, log, page, history>>

(* It has the bytes it asked for, or the file has no more.                 *)
ReadEnds ==
  /\ reader.at > 0 /\ (More => reader.torn # "no")
  /\ reader' = NotReading
  /\ UNCHANGED <<om, pollVars, status, log, page, history>>

read_file == ReadOpen \/ ReadLine \/ ReadSeam \/ ReadEnds

OpenMeteoChanges ==
  /\ om' = ~om
  /\ UNCHANGED <<pollVars, status, log, page, reader, history>>

Next ==
  \/ do_poll
  \/ ApplySave \/ Crash \/ Start
  \/ PollStatus \/ read_file
  \/ OpenMeteoChanges

Spec == Init /\ [][Next]_vars

(* The daemon polls on a timer, every request has a time-out, and a daemon *)
(* that died is respawned; the page asks every five seconds, and of its    *)
(* requests some come while the file is whole.                             *)
FairSpec == Spec /\ WF_vars(do_poll) /\ WF_vars(Start) /\ SF_vars(PollStatus)

-----------------------------------------------------------------------------
(* After a poll the status file is whole and is about that poll alone:     *)
(* what it names as source did answer, nothing else did that would have    *)
(* been preferred, alerts and sun times were received in this poll, and    *)
(* the error is there exactly when there is nothing to show.               *)
StatusIsOfLastPoll ==
  pc = "idle" =>
    /\ status.file = "whole"
    /\ LET s == status.snap
       IN  /\ s.by \in {"nws", "openmeteo"} => s.by \in answered
           /\ s.by \in {"none", "openmeteo"} => "nws" \notin answered
           /\ s.by = "none" => answered \subseteq {"alerts"}
           /\ s.alert => "alerts" \in answered \/ s.by = "mock"
           /\ s.sun => "openmeteo" \in answered
           /\ status.error <=> (s.by = "none" /\ ~s.alert)

(* After a poll with conditions, the status file, the last line of the log *)
(* and the conditions event, if it was sent, tell of the same reading; a   *)
(* poll without conditions sent none.                                      *)
AccountsAgree ==
  pc = "idle" =>
    IF Valid(status.snap)
      THEN /\ event \subseteq {status.snap.temp}
           /\ log # << >> /\ Last(log) \in {status.snap.temp, Garbled}
           /\ crashes = 0 => Last(log) # Garbled
      ELSE event = {}

(* "Keeps only the last CONDHISTORY_MAX lines" (condhistory.h): once this  *)
(* daemon has had a reading, the log after a poll has no more lines than   *)
(* that and ends in its latest readings, as many as fit, whatever an       *)
(* earlier daemon left; only its very first may be spoilt by a cut line.   *)
LogHoldsRecent ==
  pc = "idle" =>
    /\ recent # << >> => Len(log) <= LogMax
    /\ LET r == IF crashes > 0 /\ recent # << >> THEN Tail(recent) ELSE recent
       IN  IsSuffix(LastOf(LogMax, r), log)

(* What endpoint_cond_history makes of the lines read so far: of the last  *)
(* ones, one by one, those that parse.                                     *)
Parsed(lines) ==
  LET points[i \in 0..Len(lines)] ==
        IF i = 0 THEN << >>
        ELSE IF lines[i] \in Reading \cup {Mixed} THEN Append(points[i - 1], lines[i])
        ELSE points[i - 1]
  IN  points[Len(lines)]

Points == Parsed(LastOf(TailMax, reader.got))

(* "No locking needed" (condhistory.h): if no daemon died, the points of   *)
(* the dashboard's trend are an uninterrupted run of real readings in      *)
(* their order; or, if the log was rewritten while it was read, two such   *)
(* runs, the second of later readings, with at most one point between them *)
(* that was made of two lines.                                             *)
Follows(x, i) == i + x \in 1..Len(recent) /\ Points[x] = recent[i + x]

TrendIsRun ==
  crashes = 0 =>
    \E i \in 0..Len(recent) :
      \/ \A x \in 1..Len(Points) : Follows(x, i)
      \/ /\ reader.torn # "no"
         /\ \E n \in 0..Len(Points), k \in i..Len(recent) :
              /\ \A x \in 1..n : Follows(x, i)
              /\ \A x \in (n + 1)..Len(Points) :
                   (x = n + 1 /\ Points[x] = Mixed) \/ Follows(x, k)

(* "The app auto-falls back to Open-Meteo if provider is set to auto"      *)
(* (TROUBLESHOOTING.md): while Open-Meteo answers, the coordinates need    *)
(* nobody and the daemon is up, the dashboard ends up showing weather,     *)
(* whatever the NWS services do.                                           *)
OutageSurvived ==
  <>[](/\ pc # "off" /\ om
       /\ config.on /\ ~config.mock
       /\ config.located = "override" /\ UseOpenMeteo)
    => <>[](page = "weather")
=============================================================================
