# Weather ACAP in TLA+

Weather ACAP is an application for Axis cameras, written in C. A daemon polls
weather services and drives the camera: virtual input ports, a text overlay,
notifications, events. A FastCGI process serves a configuration page. This
directory holds a model of it: TLA+ modules, the TLC runs that check them on
small instances, and proofs that TLAPS checks for every instance.
`PROJECT.json` lists, for every definition, the lines of the source it stands
for.

- [The system](#the-system)
- [Modules](#modules)
- [Runs](#runs)
- [Fairness](#fairness)
- [Proofs](#proofs)
- [Where the code and its documents disagree](#where-the-code-and-its-documents-disagree)
- [Not modelled](#not-modelled)
- [Plan](#plan)

## The system

Two processes share one camera and a few files in `/tmp`.

    browser (app.js) --HTTP--> CGI (config_cgi.c) --VAPIX--> device: ports,
                                |  files, SIGUSR1             overlay, events
                                v                               ^
                              daemon (weather_acap.c) --VAPIX---+
                                |
                                v
                       NWS, Open-Meteo, geocoder, SPC

The daemon has one thread: a main loop with a poll timer (`do_poll`, at least
60 s apart) and a one-second callback that looks for a saved configuration.
Nothing inside the daemon is concurrent. What is concurrent is everything else:
the CGI drives the same ports and writes the same files between any two steps
of a poll; the device keeps ports and overlay when a process dies; requests fail
one by one; the manifest has the daemon respawned (`runMode: respawn`), with all
its static memory gone.

| Component | State | Operations | Hard behaviour | What makes it correct |
|---|---|---|---|---|
| Rule engines (`alerts.c`, `threshold.c`) | `g_prev_active[]` per slot of the table; the ports are the device's | `alerts_process`, `threshold_process`, `alerts_clear_all`; the CGI's fire, clear, drill | memory and port drift apart: failed calls, crashes, edited tables, the CGI in between | after a poll exactly the wanted ports are on; nothing wanted is missing after a crash; every transition is reported |
| Configuration path (`config_cgi.c`, `params.c`, `weather_acap.c`, `app.js`) | form, `g_config`, save file, export file, `g_store`, flash file | save, import, reload, `apply_save_file`, `params_set`, `write_config_file` | two writers of one temp file, a signal that may meet no process, a save before the last is applied | an acknowledged save sticks; nothing but what was asked for gets in; readers see whole files; the page always recovers |
| Weather fetch and poll record (`weather_api.c`, `nws.c`, `openmeteo.c`, `condhistory.c`, `weather_acap.c`) | snapshot of a poll; status file, conditions log, heartbeat | `weather_api_fetch`, `write_status`, `condhistory_append`, `prune_file` | one of five requests fails; files truncated and rewritten in place under a reader; a crash between two writes | files are about the last poll and agree with each other and the event; the log keeps the latest readings; an outage is survived |
| Lightning risk (`lightning.c`, `weather_acap.c`) | `g_lightning_active`, `g_lightning_tick` | check every N polls, activate, clear, disabled | toggling, missing coordinates, N = 0 and 1 | the port is what the section believes; checks are as frequent as asked |
| Notifications (`weather_acap.c`) | `g_notif_history` | `on_alert_transition`, cool-down per (event, action) | flapping rules, a table that is full, edited cool-downs | repeats are spaced; silence has a reason; receivers end up with the right state |
| Text overlay (`overlay.c`, `vapix.c`) | `g_overlay_id`, `g_has_video`; the overlay is the device's | `overlay_update`, `overlay_delete` | lost answers, overlays removed by others, wrong passwords, restarts | at most one overlay, none after a stop, and the text comes back |
| Native events (`axisevents.c`) | declarations with the event system | publish alert, publish conditions | order of several alerts' transitions | receivers agree with the engines |
| Alert output hardware (`alertoutput.c`, four test endpoints) | `s_warn_color`, `s_watch_color` in each process; display, strobe, horn and clip are the devices' | `alertoutput_on_activate`, `alertoutput_on_clear`, `endpoint_test_*` | several alerts in a poll, failed probes that are cached, a device with other colours, a test during a real alert | hardware rings once per transition, in a colour the device has; a test starts only what it names |
| Snapshots, cameras (`snapshot.c`, `multicam.c`, `vapix.c`) | a directory of pictures, shared by both processes | capture, prune, manual captures, gallery | names within one second, a scan that does not see everything, a picture still being written | the limit holds after a prune; a picture is lost only for a reason |
| History (`history.c`) | two files | append, rotate; read by the CGI | rotation under a reader | the page shows the latest transitions (not modelled) |
| Delivery (`webhook.c`, `mqtt.c`, `email.c`) | none | send once | none kept: no retry, no queue | not modelled |
| Lifecycle (`weather_acap.c`) | PID file, CGI child | start, stop, signals | a signal before the main loop exists; a CGI child that died | partly, in the modules above |

The components meet in `do_poll`: fetch, alert rules, threshold rules (each
transition calls `on_alert_transition`: history, event, notifications, alert
output), overlay, MQTT, status file, conditions log, event, lightning,
heartbeat.

## Modules

Every step of the models is one thing that another actor can come between: a
request to a device or service, an opening, write or rename of a file, one slot
of a rule table. Operators named `...Keeps...`, `...Forgets...` and so on under
a comment "Defective" are not part of the models: they are plausible mistakes,
one per property, and TLC shows that the property rules each of them out.

**AlertPorts** models both rule engines, slot by slot. `weather` is what really
holds, `snap` what the poll fetched, `prev` the two `g_prev_active` arrays,
`tab` the table parsed for this loop, `pc` and `idx` the place in the poll.
`SlotDisabled`, `SlotActivate`, `SlotClear`, `SlotKeep` are the four ways
through the loop body, which is the same code in both files. `StopSlot` and
`Stopped` are `alerts_clear_all` after the main loop. `FirePort`, `FireDrill`,
`ClearAll` and `CgiSlot` are the CGI's requests, rule by rule. `reported` and
`eventActive` are what history and event system were last told. `astray` holds the
ports whose last request failed or was made by hand: the slots' memory says nothing
about those. A transition is reported to the history always, and to the event system
only if `Publish` sends it: events may be switched off, and a send may fail
(`axisevents.c:147`, `:159`); `heard` says whether the last one was sent. `Snapshots`
are what a poll with data may have got: all of it, no alerts, or readings of 0 (of
alerts only, or of an observation without numbers), and `AtZero` are the thresholds
that 0 crosses. `Env` names the disturbances of an instance.

**PortMirror** is what the engines promise, without tables or memory: a set of
wanted ports, ports driven one at a time straight to their target, and no new
target before all have reached the old one. AlertPorts implements it with
`wanted` mapped to the ports of the rules that match the snapshot.

**ConfigStore** follows one edit from the form to flash and back. Files are
names and inodes (`cfg`, `tmp`, `data`, `fd`), because both processes open the
same `CONFIG_FILE.tmp` and a writer keeps its inode whatever the name refers to
by then. `asked` and `acked` record what the operator wanted and was told.
The conversions on the way are functions of values: `Truncated` is what `json_esc`
into `esc[1024]` leaves of a long value, `Stripped` what the CGI's `json_esc_to`
leaves of one with control characters, `Shown` and `Sent` what a field shows of a
value and what `gatherFields` makes of a field (a default for an empty one); `Worn`
is whatever any number of rounds through them can make of a value. A select of clips
is apart: `ReplyConfig` keeps its choice in `saved`, and only `loadClipList`, a
request of its own that may come late, with other clips or never, sets the select.
`strayed` are the parameters that were sent along with something else than was
asked for: clip selects whose list was not there (`Astray`), and the password
whose mask the CGI does not know.

**WeatherPoll** is one poll, request by request and write by write. `snap` is
the snapshot as it is filled in; `status` and `log` are the files, `Cut` a line
or file whose end is not written yet. `prune_file` writes whole blocks that end
anywhere in a line, so each line is cut before it is whole. `answered`, `event`
and `recent` are history: who answered in this poll, the last event, the readings
of this daemon; `event` is empty after a poll whose event was not sent (events off,
or a failed send: `axisevents.c:176`, `:191`). The page reads the status at any
moment, and the log call by call: `ReadOpen` takes the size, `ReadLine` reads a
line, and `Tear` marks a read that a rewrite overtakes. The next call of such a read
begins somewhere within a line of the new contents (`ReadSeam`): what it makes with
the half line before it is `Garbled`, or parses and is `Mixed`. `Points` is what
`endpoint_cond_history` makes of the lines read so far.

**Lightning** is the risk section of `do_poll`; the outlook's geometry is one
level, and `since` counts enabled polls since the last check. **Notifications**
is `on_alert_transition` with `cooldown_check_and_update`; `records` is
`g_notif_history`, `sent` and `told` what each channel was given, `calm` whether
no rule has repeated a transition within its cool-down. A daemon may die between two
transitions (`Restart`) or between two channels of one (`DiesSending`); the next one
knows no rule as active and has no records. **Overlay** is
`overlay_update` and `overlay_delete` against the device's service, one request
a step. A request may meet no device, a wrong password (`Unauthorized`), or a
refusal although the handle is good (`Refused`: HTTP 400 or 404, or another error in
a 200 answer, `overlay.c:337`, `:349`), which drops the handle. In
Lightning and Overlay the disturbances are a variable, `env`, chosen at the start:
one run covers every combination, and a property says which of them it tolerates.

**AlertOutput** is `alertoutput.c`, request by request: `job` is the activation a
process is carrying out, `row` the place of the daemon's poll in the slots of the rule
tables, `out` what each device was last asked for. `active` is the memory of the
slots: rows may be edited, moved, doubled and removed between polls, and a row moved
into a slot that remembers nothing rings again. `ao_probe_best_color` runs through the
colours the device lists, with the palette and the distances of the source.
`seen`, `blind` and `before` are history: the colours the device has had since the
cache was last dropped, the tiers filled in by a failed probe, the slots that were
active after the poll before. The four test endpoints run the same code in the CGI
process, with its own cache.

**Snapshots** is the directory of pictures. A name is a second and a label, a file
is what one capture wrote, and `dir` says which file a name stands for; `Open` on a
name that exists ends the file that had it. `job` is what a process has still to
capture and prune. `snapshot_prune` reads the directory entry by entry, in no order,
up to `ScanMax` of them, while the other process goes on; it chooses the oldest (any
of those with equal times, as `qsort` may) and unlinks them one by one, by name.
`opendir`, `stat` and `unlink` may fail, which the code passes over; `spared` are the
files the last prune could not stat or unlink. The directory may hold other `.jpg`
files to begin with (`Before`). Labels are constants, as `sanitize_type` writes
them; two labels of the instance are written alike.

`MC...` modules give the constants their small values. Each `...Proofs` module holds
the theorems about the module it is named after.

No module of the project composes all the others yet: each models, of its
neighbours, what they can do to it (AlertPorts takes any snapshot, Notifications
any transitions, ConfigStore is the reason why every other module may change its
configuration between polls, and only there).

## Runs

| Run | Instance | Shows |
|---|---|---|
| PortsMirror | two alert rules, one threshold rule, each switched on and off; no disturbance; fair | `PortsMirrorRules` after every poll, refinement of PortMirror with its liveness, ports released for good in quiet weather, held in lasting weather |
| PortsTrouble | a fixed table; failing port calls, alerts and conditions requests, events that are not sent, crashes, stops, manual fire and drill, in any combination | `NoMissedAlert`: after a poll no wanted port is off, unless its last request failed or was manual; `ListenersAgree`: the history agrees with the engines' memory, and the event is not left active without a slot that is, unless the last one was not sent |
| PortsStopThreshold | stops only | *violated*: threshold ports survive an orderly stop |
| ConfigPatient | five parameters in two sections: a number that may be left empty, a template with a value too long and one of two lines, a password, one that only the page masks, a clip select with its list; imports; the operator waits; fair | acknowledged saves stick and reach flash, only asked values get in, the form shows what was saved: all as the conversions wear them, and but for the selects the page could not show and the fourth password |
| ConfigTrouble | one parameter; hasty operator, crashes, flash failing; fair | a save in a quiet moment sticks whatever happened before; the page always recovers |
| ConfigHalfWritten | hasty operator | *violated*: a reader finds an empty CONFIG_FILE |
| WeatherPoll | every provider, override or ZIP, mock, off; any request fails; one crash; the log keeps 2 lines; fair | status and log are of the last poll and agree, with each other and with the event if one was sent; the trend is a run of readings, or, read across a rewrite, two runs with at most one mixed point between them; an outage of NWS ends in weather on the page |
| LightningPort | multipliers 0, 2, 3, every combination of disturbances; fair | checks on time, port follows belief, the port gets on in a lasting risk and off after its end |
| NotifySpacing | an alert and a threshold rule, cool-downs 0 to 3 and edited, 5 instants, records for three of the four keys, deaths of the daemon | repeats spaced, silence justified, calm receivers agree |
| OverlayTrouble | two texts, two corners, two handles, every combination of disturbances | one overlay, none after a stop, the text comes back |
| AlertOutput | a watch and an alert whose name has words of both tiers, three tables in which rows move, go and are disabled, two lists of colours, two incidents (tests, saves, updates, restarts) anywhere; any request is lost | strobe colours are the device's, hardware starts once per transition, tests stay in their lane |
| Snapshots | the camera and up to two others, three files by either process or there before, scans of two entries, failing opendir, stat and unlink, either process dies anywhere | the limit after a prune that read the whole directory, but for what it could not stat or unlink; the cause of every loss |

**Bounds.** A bound limits how often something happens, never what happens then.

- Ports, rules: a slot's code touches its own port and memory only, so two rules
  per engine show every interference of two slots, and three ports of the two
  engines. The proofs cover any number.
- `MaxManual` = 1: one manual request overlaps a poll anywhere; a second starts
  when the first is over.
- `MaxSaves` = 3: the longest race needs two overlapping saves, and one after it
  to see what was left behind.
- `MaxOverrides` = 5 stands for 64, of which the form uses fewer; an import with
  as many fields as that is in the instance. Each kind of field and each conversion
  has one parameter or value that shows it.
- `LogMax` = 2 and `TailMax` = 2 stand for 288 and 144: the log is full after two
  readings, pruned from then on at every poll, and cut by a crash before, between
  and inside both lines that are written back. Readings are two: one, and the zero
  of a number that was absent.
- `MaxCrash` = 1 in WeatherPoll: every daemon that dies between append and prune
  leaves one line too many, so the file is not bounded without it. The one crash
  comes at any step, with what was there before and the recovery after it.
- `Period` = 6 is a common multiple of the multipliers: the counter only matters
  through remainders and being 1.
- `MaxTime` = 4 is longer than the longest cool-down (3), so that one can elapse
  after another has been edited. `MaxRecords` = 3 is one less than the keys of the
  instance: the last of them finds the table full.
- Handles 1 and 2 in Overlay: two overlays are the first state that is wrong.
- `MaxIncidents` = 2 in AlertOutput: a stale colour needs an update of the device
  and one more thing, a test or a restart; a test collides with a real alert once.
- `MaxFiles` = 3, `ScanMax` = 2 (for 512) and `MaxTime` = 1 in Snapshots: a directory
  larger than a scan and than the limit of 1, a name used twice within a second,
  and two times to tell old from new. The two labels of pictures taken by hand are
  interchangeable (nothing distinguishes them), which the run uses as a symmetry.

Deadlock is checked in every run but Snapshots, whose instance ends when the clock
and the captures are used up.

## Fairness

- The daemon's own steps are weakly fair: the timer keeps firing (`G_SOURCE_CONTINUE`
  on every path of `do_poll`) and every request has a libcurl time-out.
- `Start` is weakly fair: the manifest asks for a respawn.
- The CGI is weakly fair: it answers one request after the other. The page's
  refresh after a save is weakly fair: the promise chain of `app.js` runs it.
- `PollStatus` is strongly fair: the page asks every 5 s, the file is cut for
  moments in minutes, and the two clocks have nothing to do with each other.
- In Overlay, `AnsweredSpec` is strongly fair to requests that succeed: of
  infinitely many polls, some get through. Without it a lossy network may lose
  every single one.
- Operator, weather, outages, crashes owe nothing. Liveness properties therefore
  say what has to last for their conclusion (`<>[] ... => <>[] ...`).

## Proofs

Every component's module is proved about. Each theorem holds for every value of the
constants that the module's `ASSUME`s allow (tables are sequences of rules, settings
are settings, bounds are numbers). The list in `PROJECT.json` says what each theorem
establishes.

| Module | Theorems | Assumed beyond the `ASSUME`s | The invariant behind them |
|---|---|---|---|
| AlertPortsProofs | `TypeCorrect`, `NoMissedAlertHolds`, `PortsMirrorRulesHolds`, `ListenersAgreeHolds`, `EnginesImplementMirror`, `LoopsEnd`, `LastingAlertNeverFlickers`, `QuietWeatherKeepsPortsOff` | `StableTables` (all but `TypeCorrect`, `ListenersAgreeHolds` and `LoopsEnd`); of the disturbances, only failed alerts requests (`PortsMirrorRules`, the mirror, quiet weather) or only crashes (`LastingAlertNeverFlickers`); `SameRules` (`ListenersAgree`) | see below |
| NotificationsProofs | `TypeCorrect`, `SpacedHolds`, `SilenceIsRecentHolds`, `ChannelAgrees`, `ReceiversAgreeHolds` | none for `TypeCorrect` and `Spaced`; `NeverMute`: every transition has a channel that wants it (`SilenceIsRecent`); `AlwaysWanted`: the channel is on in every setting, for activations and clears (`ChannelAgrees`; of every channel, `ReceiversAgree`) | `SentIsRecorded`: what was sent has a record as late or later, or found the table full; `RecordedIsSent`: a record is the time of a sending; `RecordsFollowReports`: no record is later than the last report of its key; `Agrees`: while calm, the channel was given the present state of every rule |
| LightningProofs | `TypeCorrect`, `PortFollowsBeliefHolds`, `CheckedEveryNHolds`, `RiskHoldsPort`, `RiskOverReleasesPorts` | `OnePort`: no edit of the port; `NoMultOne`: no multiplier of 1 | `StaysUp`: only the disturbances end a process; `SinceBehindTick`: polls since a check are at most the counter's remainder |
| OverlayProofs | `TypeCorrect`, `AtMostOneOverlayHolds`, `StopRemovesOverlayHolds` | none | `OnlyTheRemembered`: while no answer, password or process is lost and nothing refused, the device shows no overlay but the one whose handle is kept |
| WeatherPollProofs | `TypeCorrect`, `StatusIsOfLastPollHolds`, `AccountsAgreeHolds`, `LogHoldsRecentHolds`, `TrendIsRunHolds`, `PollsEnd`, `ServedPollsShowWeather`, `ServedPageKeepsWeather` | none | `SnapshotAnswered`: at every request, what the snapshot names did answer; `StatusWritten`: the file is what this poll wrote; `ReadingTold`: which of status and log already tell of the reading, step by step; `EventTold`: an event that was sent tells of it too, and none was sent of a poll without conditions; `LogOK`: the log's length while it is pruned; `EndsInRecent`: the log, as it will be when a rewrite under way is done, ends in the latest readings, and holds nothing else if no daemon died; `ReadOK`: what a read has got is the first lines of the log as it was, then at most one seam, then readings that lie further on |
| AlertOutputProofs | `TypeCorrect`, `ProbeIsNearest`, `StrobeShowsDeviceColourHolds`, `FiresOnTransitionsHolds`, `TestsStayInLaneHolds` | none | `MemoryOK`: a slot this poll has passed remembers whether its rule matched, the others what they did after the poll before; `DaemonJobOK`: what the daemon rings for is new, and between polls it rings for nothing; `CgiJobOK`: a test's settings enable one channel; `CacheOK`: a cached colour is the nearest of a palette seen since the cache was dropped, or stands in for a failed probe; `ColoursFirst`: no strobe is started before each tier has a colour |
| SnapshotsProofs | `TypeCorrect`, `LimitHoldsHolds`, `LossHasCauseHolds` | none | `SurvivorsFew`: of what the last prune saw, the names it did not choose stand for no more files than the limit; `VictimsOlder`: for each name chosen there are as many others as the limit, written since its capture began; `ReadOK`: what a scan holds are files of those names, whose times only grow; `TimesOK`: no file is older than its name or newer than the clock |
| ConfigStoreProofs | `TypeCorrect`, `SavesStick`, `FormTellsSaved`, `ReadersServed`, `NothingElseGetsIn`, `QuietSavesStick`, `RequestsEnd` | none for `TypeCorrect` and `RequestsEnd`; `RequestsFit` and `MaskNotTyped` for `QuietSavesStick`; for the others `Assumed`, see below | see below |

`StableTables` says that the tables an operator may save differ in switches and
triggers, not in the number of rows or their ports, and map no port twice. Without
it the theorems are false: the engines remember slots, not rules, so a row that
moves up inherits a memory, and the end of one rule clears a port that another
wants.

None of the invariants is inductive. `NoMissedAlert` speaks of the moment between
two polls; what is true in the middle of a loop is:

- `LoopOK`: a loop runs over a configured table, from its first row on;
- `MemoryOK`: a slot that this poll has passed (`Processed`), or that the last one
  did, remembers whether its rule matches the snapshot;
- `ActiveSlotsOn`: a slot remembered active has its port on, or the port is astray.
  It is what survives a respawn, when the memory is empty while ports are on;
- `CgiQuiet`, `AstrayQuiet`: without manual requests and failing calls the CGI has
  no request under way and no port is astray;
- `OnPortsRemembered`, for `PortsMirrorRules` only: a port that is on is
  remembered by a slot. A crash breaks it, and with it the other half of the
  mirror.

`SlotMemory` and `SlotEffect` say once what the four slot actions do; each
invariant has one preservation lemma (`LoopStep`, `MemoryStep`, `ActiveSlotsStep`,
`OnPortsStep`), and `MissedFromInv` and `AtRest` derive the properties at rest.
`MirrorStep` reads the same facts as a step of PortMirror.

The other modules are laid out alike: one lemma per conjunct of the invariant with
a step for each action that can disturb it, or, in SnapshotsProofs, one lemma per
action. There, the counting is done by the theorems on finite sets: the files left
are those not chosen, at most the limit, and those chosen but not yet unlinked.
`LossHasCause` then follows action by action: `Open` and `Fails` take a file only
under its own name, `Saved` none, and `Unlink` one that `VictimsOlder` speaks of.

In ConfigStoreProofs, `Assumed` describes an operator who waits for each save to
be applied, a daemon that lives and a flash that can be written (`Patient`), and
says two things of the constants:

- `MaskNotTyped`: nobody types the mask in a password that the CGI skips;
- `RequestsFit`: a request fits the array of 64 overrides. Every section does; an
  import of all 68 parameters does not.

The conversions are any functions. The theorems claim nothing of a parameter while
it is in `strayed`: a clip select saved without its list, and `D4200Pass`, which only
`app.js` masks, so that `__SET__` is stored. Every other parameter of such a save,
masked passwords, values that are cut, stripped or replaced, and every interleaving of
the page, the CGI and the daemon that such an operator can cause, are covered. The
properties speak of moments of rest, and none is inductive. `IInv` follows the values
on their way:

- `Turns`: while a save is on its way to the files (`Telling`) the daemon rests;
- `FilesOK`: the file being written is the one the temp name refers to, it is never
  `CONFIG_FILE`, and it is whole when it is renamed;
- `RequestOK`: what the CGI keeps of a request is what was asked, and all of it;
- `CopiesOK`, `StoreOK`: each copy of the configuration (`CONFIG_FILE`, the save
  file, what the CGI and the daemon read, the form, the parameters) holds, from
  the step at which it is written, for every parameter a value the operator asked
  for as its path may wear it (`Worn`); before that, for every one but those of the
  last request.

`WritesWanted` says that merging the request into what the CGI read gives such a
configuration, and `ExportsWanted` that exporting it keeps it one; the rest is one
step per action. `FormClose` says so of the fields and of the choices kept for the
selects, not of what the selects show.

`QuietSavesStick` assumes nothing of the kind: daemons may die, writes fail and the
operator be in a hurry. It is about the one save that was made when nothing was
pending, and `QuietInv` follows it alone, in whichever place it is: the CGI's
request, the save file, the daemon's copy, the parameters. `RequestsFit` is needed
as before, and `MaskNotTyped`: nobody types the mask in a password that the CGI skips.

`ListenersAgree` needs `SameRules` in place of `StableTables`: tables that
differ in ports only, with no trigger in two enabled rows. Its invariant says that
what was reported of a trigger is what its slot remembers, and that the event is
active only while some slot is or the last event was not sent, at every step of a
loop.

Two functions of the model are loops over lists: `Closest` (the nearest colour) and
`Parsed` (the points of the trend chart). TLC evaluates them by their recursive
definitions. That such a function exists for a list of any length, and what it is, is
proved with the lemma `Induction`: a property of a number that passes from every
number to the next holds up to the list's length, for otherwise the numbers
without it would have a least, by the well-foundedness of inclusion among finite sets.
So `ProbeIsNearest` (the probe returns a colour of the list, and none of the list is
nearer) and `TrendIsRun` hold for every list of colours and every log.

The liveness properties rest on three things: that the processes go on at all, that
what they have begun ends, and that what it achieves lasts. The first is fairness, a
matter of ENABLED, and beyond the prover, and so is the induction in temporal logic
that puts the three together. The other two are proved:

- *It ends.* `PollsEnd`, `LoopsEnd` and `RequestsEnd` give each poll, loop, request
  and callback a number of steps it may still take. It is bounded (by the length of the log,
  the rows of a table, the number of parameters), each step of the process
  lowers it, and nobody else raises it. No answer, crash, edit or
  lost temp file makes a loop longer.
- *It lasts.* `LastingAlertNeverFlickers` and `QuietWeatherKeepsPortsOff` are the
  properties `LastingAlertHoldsPort` and `QuietWeatherReleasesPorts` without the
  "eventually": what the end of one poll achieves stays for as long as the weather.
  `RiskHoldsPort` and `RiskOverReleasesPorts`, with `CheckedEveryN` for how long a
  check is waited for, are so for `PortFollowsRisk`, and `ServedPollsShowWeather` and
  `ServedPageKeepsWeather` for `OutageSurvived`.

Left to TLC is the rest of these: `QuietWeatherReleasesPorts`, `LastingAlertHoldsPort`,
`PageRecovers`, `PortFollowsRisk`, `OutageSurvived` as a whole, `OverlayComesBack`,
`SavesReachFlash` (for an operator who waits, `SavesStick` says that nothing
acknowledged is lost once all is at rest), and the fairness in `MirrorSpec`, whose safety part is
`EnginesImplementMirror`. Every other property that a passing run checks has a theorem.

## Where the code and its documents disagree

Two have a run that shows them, see `PROJECT.json`, "findings": threshold ports
after a stop, and the shared temp file. Others were met while modelling, and are why
some properties carry a condition:

- An alerts request that fails counts as "no alerts": the port of an alert in force
  is cleared and reported cleared until a later poll, although the ports should
  follow the alerts (`README.md:14`). Hardware then rings again for the same alert.
- A `LightningPollMult` of 1, which the form accepts, never makes
  `tick % 1 == 1` true: only the first poll checks ("check SPC every N poll
  cycles", `params.c:139`). 0 divides by zero.
- An NWS observation whose temperature is null, or a poll in which only alerts
  arrive, leaves 0 in the snapshot, and threshold rules fire on it: "TempF < 32"
  (`README.md:117`) in summer. The log and the event repeat the 0.
- The coordinates of a ZIP code are looked up at every poll and not kept: with the
  geocoder down there is no weather and there are no alerts, though both services
  answer.
- The heartbeat is written after failed polls too, although
  `TROUBLESHOOTING.md:195` calls it the time of the last successful poll.
- An alert or conditions event that is not sent (events off at that poll, or a failed
  send, which is logged only) is not sent later: the stateful Alert event keeps what
  the transition before it made it.
- The Alert event's `active` is the last transition's, not whether any alert is
  active (`axisevents.h:13`).
- A port call that fails is logged and never repeated: the slot remembers a state
  that the port does not have, until its rule changes again.
- Two rules mapped to one port: the end of one clears it under the other.
- The cool-down is measured on the wall clock: set back, it lasts that much longer.
- `SystemEnabled=no` skips polls and leaves active ports on until it is switched on
  again; no document says what should happen to them.
- "No locking needed" says `condhistory.h:13` of the conditions log. `read_file` takes
  the log's size and then reads it in several calls; across `prune_file`'s truncation
  and rewrite it mixes old and new bytes, and one point of the trend can be made of
  two lines (`TrendIsRun` allows it that one).
- A clip select is filled by a request of its own. A save before that is answered
  stores "-1", a save after a reload the choice the list was last given; and an empty
  number is stored as the default that `gatherFields` has for it.
- Control characters, such as the line ends of a webhook template, are dropped by the
  CGI's `json_esc_to` when the section is saved.
- Overrides arrays have 64 entries: an import of all 68 parameters drops the last,
  although "All fields are overwritten" (`TROUBLESHOOTING.md:179`).
- The table of cool-downs has 64 keys that never leave it: a key that finds it full
  is never cooled down. And it dies with the daemon, as does the memory of active
  rules: the next one may repeat a notification, or never send the clear.
- The cache of a handle is dropped on HTTP 400, 404 and errors that do not concern it:
  the next poll adds a second overlay over the first.
- `setText` does not move an overlay to another corner, and nothing removes one
  that was switched off.
- The lightning level is filled into the snapshot after overlay and status were
  made from it: the `{lightning}` token is always empty, and the status shows the
  level for one poll only.
- A value longer than the export's buffer is shortened in the file that the form
  is loaded from; the next save of that section makes it permanent.
- `alertoutput_classify` looks for the words of the warning tier first: an
  "Extreme Heat Watch" is a warning, although `alertoutput.h:69` makes any "Watch"
  the lower tier.
- `alertoutput.h` calls `alertoutput_on_clear` a no-op; it drops the daemon's
  colours. The CGI process never drops its own. The cache is "filled on the first
  successful probe", says its comment; the fall-back of a failed probe is kept too.
- Several alerts that activate in one poll each drive display and strobe: the last
  row wins, whatever its tier.
- The limit on pictures applies "after each new capture" (`README.md:151`); manual
  captures never prune, a prune scans 512 names at most, and goes on past those it
  cannot stat or unlink. The gallery shows the
  first 50 names `readdir` returns, not "all saved images" (`README.md:153`).
- Pictures taken in the same second under labels that are written alike share a
  name: the later one replaces the earlier, and if it fails, unlinks it. A picture
  the CGI is still writing can be pruned, and is then acknowledged. Test "saves a
  test image" (`README.md:277`) and unlinks it again.
- `history.h` lists an action "firedrill" that nothing writes.

## Not modelled

- Alert history (`history.c`): one writer appends a line per transition and renames
  the file when it is too large; a page reads the last 50 lines, which after a
  rotation are fewer. AlertPorts keeps the last entry of each trigger (`reported`).
- The daemon's start and end beyond stop, crash and respawn: a SIGTERM that arrives
  during the very first poll, before the main loop exists, is forgotten, and a CGI
  child that dies is not respawned. AlertPorts lets a stop begin between polls only,
  which is when `g_main_loop_quit` takes effect later on.
- The gallery, the camera list's JSON, preview, log, device and message test
  endpoints of the CGI: they keep no state.
- Time stamps, wording, JSON escaping and templates, except for what they do to a
  value that is saved.
- Failures of `malloc` (but in the prune) and `fork`, and of `fopen` except for
  pictures: the code skips what it was about to do.
- A read of the conditions log is followed while the daemon is at the log (append,
  prune, event), which is where it can be overtaken, and ends with the daemon's
  death; `TrendIsRun` says nothing once a daemon has died.
- The lightning section's port is its own: a manual request for it, or an alert rule
  that is mapped to it, is not in Lightning.
- `.jpg` files that others put into the snapshot directory later on.
- Which of several alerts in a response are taken (the first 16) and how names are
  matched.
- The geometry of the SPC outlook: a risk level comes out of it.
- Delivery of webhooks, MQTT messages and e-mails: one attempt each, no state.
- cJSON, the structured log, the pages' rendering, build and packaging.

## Plan

Done: AlertPorts first, since the ports are what the application is for, with its
abstract specification and proofs; then the configuration path, on which every
other component depends; then the sections of a poll: lightning, notifications,
overlay, the fetch and the record it leaves; then the hardware and the pictures;
then proofs about all of them.

What would come next:

1. **Poll**: a composition of AlertPorts, Notifications and AlertOutput over one
   configuration, to check that a notification never contradicts the ports.
2. **Lifecycle**: signals before the main loop, PID file, CGI child; the history's
   rotation.
