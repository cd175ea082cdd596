----------------------------- MODULE AlertOutput -----------------------------
(***************************************************************************)
(* alertoutput.c: what an alert does to the hardware that is seen and      *)
(* heard - the speaker's display, its strobe, a D4200 horn elsewhere and   *)
(* an audio clip - and the four buttons of the web UI that test them.      *)
(*                                                                         *)
(* Two processes run this code on the same devices: the daemon, one row of *)
(* its rule tables at a time, and the CGI process.  Each has its own       *)
(* static cache of the strobe colours, filled by asking the device which   *)
(* colours it has.  Every request may fail, which is only logged.          *)
(***************************************************************************)
EXTENDS Integers, Sequences, Functions

CONSTANTS
  Event,         \* what a rule can be about: alert types, threshold crossings
  Slots,         \* slots of the two rule engines, those of alerts.c first
  TestWarning,   \* the event a test of the warning tier activates
  TestWatch,     \* the event a test of the watch tier activates
  Words,         \* the words of each event's name that classify it
  Settings,      \* the settings an operator may save
  Palettes,      \* the colour names a device may list, in its order
  MaxIncidents   \* bound on the tests, saves, updates and restarts of a behaviour

Channel == {"display", "strobe", "d4200", "audio"}
Tier    == {"warning", "watch"}
Proc    == {"daemon", "cgi"}

None  == "none"
Off   == [off |-> TRUE]
Keyword ==
  {"warning", "emergency", "extreme", "watch", "advisory", "statement", "outlook"}

(* What a slot of the saved tables holds: a rule, or nothing.              *)
Rule   == [event : Event, enabled : BOOLEAN]
NoRule == [event |-> None]

Setting ==
  [rules : [1..Slots -> Rule \cup {NoRule}],
   on : SUBSET Channel,
   displayFor : Int, strobeFor : Int, \* seconds, as atoi reads them
   host : BOOLEAN,                    \* D4200Host is not empty
   profile : [Tier -> STRING],
   clip : [Tier -> Int]]

ASSUME EventAssumption == {TestWarning, TestWatch} \subseteq Event
ASSUME SlotsAssumption == Slots \in Nat
ASSUME WordsAssumption == Words \in [Event -> SUBSET Keyword]
ASSUME SettingsAssumption == Settings \subseteq Setting
ASSUME PalettesAssumption == Palettes \subseteq Seq(STRING)
ASSUME MaxIncidentsAssumption == MaxIncidents \in Nat

VARIABLES
  settings,   \* the saved settings
  palette,    \* the colours the strobe lists now
  out,        \* what each device is doing
  cache,      \* s_warn_color and s_watch_color of each process
  job,        \* the activation each process is carrying out
  row,        \* the slot the daemon's poll is at; 0 between polls
  cfg,        \* the settings the poll under way has read
  snap,       \* the alerts the current or last poll fetched
  active,     \* the slots remembered active (g_prev_active)
  before,     \* the slots whose last rule matched, before this poll
  seen,       \* the palettes the device had while a cache was being used
  blind,      \* the tiers whose cached colour is from a failed probe
  incidents   \* number of tests, saves, updates and restarts so far

vars == <<settings, palette, out, cache, job, row, cfg, snap, active, before, seen, blind, incidents>>
pollVars == <<row, cfg, snap, active, before>>

NoColours == [t \in Tier |-> None]
NoJob     == [todo |-> {}, event |-> TestWarning, cfg |-> CHOOSE s \in Settings : TRUE]

-----------------------------------------------------------------------------
(***************************************************************************)
(* alertoutput_classify: the words of the warning tier are looked for      *)
(* first, and a name without any known word is a warning.                  *)
(***************************************************************************)
WarningWords == {"warning", "emergency", "extreme"}
WatchWords   == {"watch", "advisory", "statement", "outlook"}

alertoutput_classify(e) ==
  IF Words[e] \cap WarningWords = {} /\ Words[e] \cap WatchWords # {}
    THEN "watch" ELSE "warning"

(* ao_palette_table                                                        *)
ao_palette_table ==
  [red |-> <<255, 0, 0>>, green |-> <<0, 200, 0>>, blue |-> <<0, 0, 255>>,
   white |-> <<255, 255, 255>>, yellow |-> <<255, 255, 0>>, cyan |-> <<0, 255, 255>>,
   magenta |-> <<255, 0, 255>>, orange |-> <<255, 165, 0>>, amber |-> <<255, 176, 0>>,
   warmwhite |-> <<255, 244, 229>>, pink |-> <<255, 20, 147>>, purple |-> <<128, 0, 128>>]

Target   == [warning |-> ao_palette_table.red, watch |-> ao_palette_table.amber]
Fallback == [warning |-> "red", watch |-> "yellow"]

Distance(name, tier) ==
  LET d(i) == ao_palette_table[name][i] - Target[tier][i]
  IN  d(1) * d(1) + d(2) * d(2) + d(3) * d(3)

(***************************************************************************)
(* ao_probe_best_color on a device that answers: the first of the listed   *)
(* names that is strictly closer than all before it; names that are not in *)
(* the table are passed over.                                              *)
(***************************************************************************)
Nothing == [name |-> None, dist |-> 2147483647]

Closer(best, name, tier) ==
  IF name \in DOMAIN ao_palette_table /\ Distance(name, tier) < best.dist
    THEN [name |-> name, dist |-> Distance(name, tier)]
    ELSE best

Closest(p, tier) ==
  LET best[i \in 0..Len(p)] == IF i = 0 THEN Nothing ELSE Closer(best[i - 1], p[i], tier)
  IN  best[Len(p)]

ao_probe_best_color(p, tier) ==
  IF Closest(p, tier) = Nothing THEN Fallback[tier] ELSE Closest(p, tier).name

-----------------------------------------------------------------------------
(* Defective: the device is given the number as it was saved.              *)
AsSaved(seconds) == seconds

(* A saved duration, which atoi makes 0 of anything that is no number.     *)
Lasting(seconds) == IF seconds > 0 THEN seconds ELSE 30

(* The steps of alertoutput_on_activate, and the place of each.            *)
Place ==
  [display |-> 1, warnColour |-> 2, watchColour |-> 3, strobe |-> 4, d4200 |-> 5, audio |-> 6]
Step == DOMAIN Place

(* What a device can be asked to do.                                       *)
Look(c) ==
  CASE c = "display" -> [text : Event, background : Tier, seconds : Nat \ {0}]
    [] c = "strobe"  -> [colour : DOMAIN ao_palette_table, pulse : Tier, seconds : Nat \ {0}]
    [] c = "d4200"   -> [profile : STRING \ {""}]
    [] c = "audio"   -> [clip : Nat]

TypeOK ==
  /\ settings \in Settings
  /\ palette \in Palettes
  /\ \A c \in Channel : out[c] = Off \/ out[c] \in Look(c)
  /\ cache \in [Proc -> [Tier -> DOMAIN ao_palette_table \cup {None}]]
  /\ \A p \in Proc : /\ job[p].event \in Event
                     /\ job[p].cfg \in Setting
                     /\ job[p].todo \subseteq Step
  /\ row \in 0..(Slots + 1)
  /\ cfg \in Settings
  /\ snap \subseteq Event
  /\ active \subseteq 1..Slots /\ before \subseteq 1..Slots
  /\ seen \in [Proc -> SUBSET Palettes]
  /\ blind \in [Proc -> SUBSET Tier]
  /\ incidents \in 0..MaxIncidents

Init ==
  /\ settings \in Settings
  /\ palette \in Palettes
  /\ out = [c \in Channel |-> Off]
  /\ cache = [p \in Proc |-> NoColours]
  /\ job = [p \in Proc |-> NoJob]
  /\ row = 0
  /\ cfg = settings
  /\ snap = {} /\ active = {} /\ before = {}
  /\ seen = [p \in Proc |-> {palette}]
  /\ blind = [p \in Proc |-> {}]
  /\ incidents = 0

-----------------------------------------------------------------------------
(***************************************************************************)
(* alertoutput_on_activate, one request at a time.  A request lands or is  *)
(* lost: the device does not know the API, or does not answer in time.     *)
(***************************************************************************)
(* What is left to do for an event: the enabled channels, the strobe after *)
(* the colours of both tiers.                                              *)
Job(e, c) ==
  LET todo == {step \in Step :
                 (IF step \in Channel THEN step ELSE "strobe") \in c.on}
  IN  IF todo = {} THEN NoJob ELSE [todo |-> todo, event |-> e, cfg |-> c]

Idle(p) == job[p] = NoJob
At(p, step) ==
  /\ step \in job[p].todo
  /\ \A other \in job[p].todo : Place[step] <= Place[other]

Advance(p, step) ==
  job' = [job EXCEPT ![p] =
            IF job[p].todo = {step} THEN NoJob
            ELSE [job[p] EXCEPT !.todo = @ \ {step}]]

(* The request of an enabled channel, if there is something to ask for.    *)
Ask(p, c, made, look) ==
  /\ At(p, c)
  /\ out' \in IF made THEN {out, [out EXCEPT ![c] = look]} ELSE {out}
  /\ Advance(p, c)
  /\ UNCHANGED <<settings, palette, cache, pollVars, seen, blind, incidents>>

TierOf(p) == alertoutput_classify(job[p].event)

display_show(p) ==
  Ask(p, "display", TRUE,
      [text |-> job[p].event, background |-> TierOf(p),
       seconds |-> Lasting(job[p].cfg.displayFor)])

strobe_start(p) ==
  Ask(p, "strobe", TRUE,
      [colour |-> cache[p][TierOf(p)], pulse |-> TierOf(p),
       seconds |-> Lasting(job[p].cfg.strobeFor)])

d4200_start_profile(p) ==
  LET name == job[p].cfg.profile[TierOf(p)]
  IN  Ask(p, "d4200", job[p].cfg.host /\ name # "", [profile |-> name])

audio_play_clip(p) ==
  LET clip == job[p].cfg.clip[TierOf(p)] IN Ask(p, "audio", clip >= 0, [clip |-> clip])

(***************************************************************************)
(* ao_ensure_colors, before the strobe: a tier without a colour gets one,  *)
(* the fallback if the device does not answer; either is kept.             *)
(***************************************************************************)
Fill(p, tier, step) ==
  /\ At(p, step)
  /\ IF cache[p][tier] # None
       THEN UNCHANGED <<cache, blind>>
       ELSE \/ /\ cache' = [cache EXCEPT ![p][tier] = ao_probe_best_color(palette, tier)]
               /\ UNCHANGED blind
            \/ /\ cache' = [cache EXCEPT ![p][tier] = Fallback[tier]]
               /\ blind' = [blind EXCEPT ![p] = @ \cup {tier}]
  /\ Advance(p, step)
  /\ UNCHANGED <<settings, palette, out, pollVars, seen, incidents>>

ao_ensure_colors(p) == Fill(p, "warning", "warnColour") \/ Fill(p, "watch", "watchColour")

alertoutput_on_activate(p) ==
  \/ display_show(p)
  \/ ao_ensure_colors(p)
  \/ strobe_start(p)
  \/ d4200_start_profile(p)
  \/ audio_play_clip(p)

Forget(p) ==
  /\ cache' = [cache EXCEPT ![p] = NoColours]
  /\ seen' = [seen EXCEPT ![p] = {palette}]
  /\ blind' = [blind EXCEPT ![p] = {}]

Forgetless == UNCHANGED <<cache, seen, blind>>

-----------------------------------------------------------------------------
(***************************************************************************)
(* The daemon's poll: the rule engines report the transitions of their     *)
(* rows, in the order of the rows; on_alert_transition drives the hardware *)
(* whatever the cool-down says.                                            *)
(***************************************************************************)
IsOn(i) == cfg.rules[i] # NoRule /\ cfg.rules[i].enabled
Matches(i) == IsOn(i) /\ cfg.rules[i].event \in snap

do_poll ==
  /\ row = 0
  /\ row' = 1
  /\ cfg' = settings
  /\ before' = {i \in 1..Slots : IF cfg.rules[i] = NoRule THEN i \in before ELSE Matches(i)}
  /\ snap' \in SUBSET Event
  /\ UNCHANGED <<settings, palette, out, cache, job, active, seen, blind, incidents>>

AtRow == row \in 1..Slots /\ Idle("daemon")
NextRow == row' = row + 1 /\ UNCHANGED <<settings, palette, out, cfg, snap, before, incidents>>

(* A slot behind the end of its table: its memory is not touched.          *)
RowAbsent ==
  /\ AtRow /\ cfg.rules[row] = NoRule
  /\ UNCHANGED <<active, job>>
  /\ Forgetless
  /\ NextRow

(* A disabled row is forgotten without a call of on_alert_transition.      *)
RowDisabled ==
  /\ AtRow /\ cfg.rules[row] # NoRule /\ ~IsOn(row)
  /\ active' = active \ {row}
  /\ UNCHANGED job
  /\ Forgetless
  /\ NextRow

(* Defective: the row is not remembered, and rings at every poll.          *)
RowActivatesAgain ==
  /\ AtRow /\ Matches(row) /\ row \notin active
  /\ UNCHANGED active
  /\ job' = [job EXCEPT !["daemon"] = Job(cfg.rules[row].event, cfg)]
  /\ Forgetless
  /\ NextRow

RowActivates ==
  /\ AtRow /\ Matches(row) /\ row \notin active
  /\ active' = active \cup {row}
  /\ job' = [job EXCEPT !["daemon"] = Job(cfg.rules[row].event, cfg)]
  /\ Forgetless
  /\ NextRow

(* Defective: the no-op that alertoutput.h describes, on a device whose    *)
(* colours have changed: what was cached before the clear is used after it.*)
RowClearsOnly ==
  /\ AtRow /\ IsOn(row) /\ ~Matches(row) /\ row \in active
  /\ active' = active \ {row}
  /\ seen' = [seen EXCEPT !["daemon"] = {palette}]
  /\ UNCHANGED <<job, cache, blind>>
  /\ NextRow

(* alertoutput_on_clear: nothing is switched off, the colours are dropped. *)
RowClears ==
  /\ AtRow /\ IsOn(row) /\ ~Matches(row) /\ row \in active
  /\ active' = active \ {row}
  /\ UNCHANGED job
  /\ Forget("daemon")
  /\ NextRow

RowKeeps ==
  /\ AtRow /\ IsOn(row) /\ (row \in active <=> Matches(row))
  /\ UNCHANGED <<active, job>>
  /\ Forgetless
  /\ NextRow

PollDone ==
  /\ row = Slots + 1 /\ Idle("daemon")
  /\ row' = 0
  /\ UNCHANGED <<settings, palette, out, cache, job, cfg, snap, active, before, seen, blind, incidents>>

-----------------------------------------------------------------------------
Incident == incidents < MaxIncidents /\ incidents' = incidents + 1

(* Defective: one endpoint forgets to disable a channel.                   *)
OnlyAndAudio(c) == [settings EXCEPT !.on = {c, "audio"}, !.strobeFor = 5]

(***************************************************************************)
(* The test endpoints of the CGI process: build_test_alertout_cfg enables  *)
(* every channel, the endpoint disables all but its own; a strobe test     *)
(* lasts five seconds, whatever is saved.                                  *)
(***************************************************************************)
Only(c) == [settings EXCEPT !.on = {c}, !.strobeFor = 5]

Test(c, e) ==
  /\ Idle("cgi")
  /\ Incident
  /\ job' = [job EXCEPT !["cgi"] = Job(e, Only(c))]
  /\ UNCHANGED <<settings, palette, out, cache, row, cfg, snap, active, before, seen, blind>>

endpoint_test_display == Test("display", TestWarning)
endpoint_test_strobe  == \E e \in {TestWarning, TestWatch} : Test("strobe", e)
endpoint_test_d4200   == settings.host /\ Test("d4200", TestWarning)
endpoint_test_audio ==
  \E e \in {TestWarning, TestWatch} :
    settings.clip[IF e = TestWatch THEN "watch" ELSE "warning"] >= 0 /\ Test("audio", e)

-----------------------------------------------------------------------------
(***************************************************************************)
(* Everything else: the operator, the devices, the processes.              *)
(***************************************************************************)
Save ==
  /\ settings' \in Settings
  /\ Incident
  /\ UNCHANGED <<palette, out, cache, job, pollVars, seen, blind>>

(* A display or a strobe ends with its time, a clip or profile by itself.  *)
Expire(c) ==
  /\ out[c] # Off
  /\ out' = [out EXCEPT ![c] = Off]
  /\ UNCHANGED <<settings, palette, cache, job, pollVars, seen, blind, incidents>>

(* The device lists other colours (a firmware update, see on_clear).       *)
Repaint ==
  /\ palette' \in Palettes
  /\ Incident
  /\ seen' = [p \in Proc |-> seen[p] \cup {palette'}]
  /\ UNCHANGED <<settings, out, cache, job, pollVars, blind>>

(* A new process, wherever the old one was; the devices go on.             *)
Restart(p) ==
  /\ job' = [job EXCEPT ![p] = NoJob]
  /\ Forget(p)
  /\ Incident
  /\ IF p = "daemon"
       THEN row' = 0 /\ snap' = {} /\ active' = {} /\ before' = {} /\ UNCHANGED cfg
       ELSE UNCHANGED pollVars
  /\ UNCHANGED <<settings, palette, out>>

Daemon ==
  \/ do_poll \/ PollDone
  \/ RowAbsent \/ RowDisabled \/ RowActivates \/ RowClears \/ RowKeeps

Next ==
  \/ Daemon
  \/ \E p \in Proc : alertoutput_on_activate(p) \/ Restart(p)
  \/ endpoint_test_display \/ endpoint_test_strobe
  \/ endpoint_test_d4200 \/ endpoint_test_audio
  \/ Save \/ Repaint
  \/ \E c \in Channel : Expire(c)

Spec == Init /\ [][Next]_vars

-----------------------------------------------------------------------------
(* The listed colours nearest to the tier's: the specification of a probe. *)
Nearest(p, tier) ==
  LET known == {p[i] : i \in 1..Len(p)} \cap DOMAIN ao_palette_table
  IN  IF known = {} THEN {Fallback[tier]}
      ELSE {n \in known : \A m \in known : Distance(n, tier) <= Distance(m, tier)}

(* The devices a step starts, or restarts with another look.               *)
Started(c) == out'[c] # out[c] /\ out'[c] # Off

(* A strobe is lit in the listed colour nearest to red or amber, of the    *)
(* colours the device had at some time since the process started or, the   *)
(* daemon, an alert last cleared ("guards against stale entries surviving  *)
(* a device firmware update"); in another only if a probe failed since.    *)
StrobeShowsDeviceColour ==
  [][Started("strobe") =>
       \E p \in Proc :
         /\ At(p, "strobe") /\ job'[p] # job[p]
         /\ LET tier == out'["strobe"].pulse
            IN  \/ \E q \in seen[p] : out'["strobe"].colour \in Nearest(q, tier)
                \/ tier \in blind[p]]_vars

(* alertoutput.h: the hardware is driven "only on genuine state            *)
(* transitions, not every poll tick": the daemon starts a device only for  *)
(* an alert that its poll has fetched, of the enabled rule of a slot whose *)
(* last rule did not match before.  As the engines remember slots, a rule  *)
(* moved to another slot rings again, and one moved to a slot remembered   *)
(* active does not ring.                                                   *)
FiresOnTransitions ==
  [][\A c \in Channel :
       (Started(c) /\ job["cgi"]' = job["cgi"]) =>
         \E i \in 1..Slots \ before :
           Matches(i) /\ cfg.rules[i].event = job["daemon"].event]_vars

(* A test button starts the device it names and no other, whatever the     *)
(* settings enable and however it interleaves with a real alert.           *)
TestsStayInLane ==
  [][\A c \in Channel :
       (Started(c) /\ job["daemon"]' = job["daemon"]) => job["cgi"].cfg.on = {c}]_vars
=============================================================================
