------------------------------ MODULE Lightning ------------------------------
(***************************************************************************)
(* The SPC thunderstorm-risk section of do_poll (weather_acap.c): a check  *)
(* every LightningPollMult polls drives one virtual input port.  The       *)
(* section runs after the status file of the poll has been written from a  *)
(* snapshot that starts at zero.                                           *)
(***************************************************************************)
EXTENDS Integers, FiniteSets

CONSTANTS
  Port,        \* virtual input ports
  MaxLevel,    \* highest SPC risk level (6)
  Configs,     \* the lightning settings an operator may save
  Period       \* a multiple of every LightningPollMult in Configs

Level == 0..MaxLevel
Config == [on : BOOLEAN, enabled : BOOLEAN, port : Port, minRisk : Level, mult : Nat]

Disturbance ==
  {"vapix",   \* a VAPIX call fails
   "spc",     \* the outlook cannot be fetched or parsed
   "coords",  \* the fetch of a poll does not resolve the coordinates
   "zero",    \* the operator saves a LightningPollMult of 0
   "crash"}   \* the daemon dies and is respawned

ASSUME ConfigsAssumption == \A c \in Configs : c \in Config
ASSUME PeriodAssumption ==
  /\ Period \in Nat \ {0} /\ MaxLevel \in Nat
  /\ \A c \in Configs : c.mult # 0 => Period % c.mult = 0

VARIABLES
  env,      \* the disturbances of this behaviour, a subset of Disturbance
  risk,     \* what the outlook really says of the location
  port,     \* the device's ports
  config,
  up,       \* the daemon runs
  tick,     \* g_lightning_tick, wrapped
  active,   \* g_lightning_active
  status,   \* lightning_risk_level in the status file
  since     \* enabled polls since the last check or edit of the multiplier

vars == <<env, risk, port, config, up, tick, active, status, since>>

TypeOK ==
  /\ env \subseteq Disturbance
  /\ risk \in Level
  /\ port \in [Port -> BOOLEAN]
  /\ config \in Configs
  /\ up \in BOOLEAN
  /\ tick \in 0..(Period + 1)
  /\ active \in BOOLEAN
  /\ status \in Level
  /\ since \in 0..(Period + 1)

Saved == {c \in Configs : c.mult = 0 => "zero" \in env}

Init ==
  /\ env \in SUBSET Disturbance
  /\ risk \in Level
  /\ port = [p \in Port |-> FALSE]
  /\ config \in Saved
  /\ up = TRUE /\ tick = 0 /\ active = FALSE
  /\ status = 0 /\ since = 0

SetPort(p, on) ==
  \/ port' = [port EXCEPT ![p] = on]
  \/ "vapix" \in env /\ UNCHANGED port

(* The counter only matters up to its remainder by the multiplier, and for *)
(* being 1.                                                                *)
Bump(t) == IF t = Period + 1 THEN 2 ELSE t + 1

(* Defective: one poll too many between checks.                            *)
CheckDueLate(t, m) == t % (m + 1) = 1 \/ t = 1

(* A remainder by zero is undefined: the division traps, or yields a       *)
(* quotient that makes the remainder the counter itself.                   *)
CheckDue(t, m)      == IF m = 0 THEN t = 1 ELSE t % m = 1 \/ t = 1

(* lightning_check: the level found, 0 for no risk and for any error.      *)
Checked == {risk} \cup (IF "spc" \in env THEN {0} ELSE {})
AtRisk(level) == level > 0 /\ level >= config.minRisk

Polling(known) ==
  /\ up /\ config.on
  /\ known \/ "coords" \in env
  /\ UNCHANGED <<env, risk, config, up>>

Due == CheckDue(Bump(tick), config.mult)

CountTick ==
  /\ tick' = Bump(tick)
  /\ since' = IF Due THEN 0 ELSE IF since > Period THEN since ELSE since + 1

(* Defective: the request to the device is left out.                       *)
ActivateOnlyMemory ==
  /\ Polling(TRUE) /\ config.enabled /\ Due
  /\ CountTick
  /\ \E level \in Checked : AtRisk(level) /\ ~active
  /\ active' = TRUE
  /\ status' = 0
  /\ UNCHANGED port

(* Defective: the level is taken one too high.                             *)
ActivateOffByOne ==
  /\ Polling(TRUE) /\ config.enabled /\ Due
  /\ CountTick
  /\ \E level \in Checked :
       /\ AtRisk(level) /\ ~active
       /\ SetPort(config.port, TRUE)
       /\ status' = level + 1
  /\ active' = TRUE

Activate ==
  /\ Polling(TRUE) /\ config.enabled /\ Due
  /\ CountTick
  /\ \E level \in Checked :
       /\ AtRisk(level) /\ ~active
       /\ SetPort(config.port, TRUE)
       /\ status' = level
  /\ active' = TRUE

Clear ==
  /\ Polling(TRUE) /\ config.enabled /\ Due
  /\ CountTick
  /\ \E level \in Checked : ~AtRisk(level) /\ active
  /\ SetPort(config.port, FALSE)
  /\ active' = FALSE
  /\ status' = 0

Same ==
  /\ Polling(TRUE) /\ config.enabled /\ Due
  /\ CountTick
  /\ \E level \in Checked : AtRisk(level) <=> active
  /\ status' = 0
  /\ UNCHANGED <<port, active>>

NotDue ==
  /\ Polling(TRUE) /\ config.enabled /\ ~Due
  /\ CountTick
  /\ status' = 0
  /\ UNCHANGED <<port, active>>

(* Without coordinates the section is skipped, even when it is active.     *)
NoCoords ==
  /\ Polling(FALSE) /\ config.enabled
  /\ status' = 0
  /\ UNCHANGED <<port, tick, active, since>>

(* Defective: the section is forgotten without clearing its port.          *)
DisabledForgets ==
  /\ \E known \in BOOLEAN : Polling(known)
  /\ ~config.enabled
  /\ active' = FALSE
  /\ status' = 0
  /\ UNCHANGED <<port, tick, since>>

(* Disabled: the port is cleared if the section was active.                *)
Disabled ==
  /\ \E known \in BOOLEAN : Polling(known)
  /\ ~config.enabled
  /\ IF active THEN SetPort(config.port, FALSE) ELSE UNCHANGED port
  /\ active' = FALSE
  /\ status' = 0
  /\ UNCHANGED <<tick, since>>

Poll == Activate \/ Clear \/ Same \/ NotDue \/ NoCoords \/ Disabled

Die ==
  /\ up' = FALSE
  /\ UNCHANGED <<env, risk, port, config, tick, active, status, since>>

DivideByZero == up /\ config.on /\ config.enabled /\ config.mult = 0 /\ Die

Crash == "crash" \in env /\ up /\ Die

Start ==
  /\ ~up /\ up' = TRUE
  /\ tick' = 0 /\ active' = FALSE /\ since' = 0
  /\ UNCHANGED <<env, risk, port, config, status>>

ApplySave ==
  /\ up
  /\ config' \in Saved
  /\ since' = IF config'.mult = config.mult THEN since ELSE 0
  /\ UNCHANGED <<env, risk, port, up, tick, active, status>>

RiskChanges ==
  /\ risk' \in Level
  /\ UNCHANGED <<env, port, config, up, tick, active, status, since>>

Next == Poll \/ DivideByZero \/ Crash \/ Start \/ ApplySave \/ RiskChanges

Spec == Init /\ [][Next]_vars

(* The poll timer keeps firing, and a daemon that died is respawned.       *)
FairSpec == Spec /\ WF_vars(Poll) /\ WF_vars(Start)

-----------------------------------------------------------------------------
(* "Check SPC every N poll cycles" (params.c): no run of N enabled polls   *)
(* goes without a check, whatever was toggled or lost in between.          *)
CheckedEveryN == config.mult # 0 => since < config.mult

(* The port is on exactly while the section believes in a risk, through    *)
(* being disabled and enabled again, missing coordinates and outlooks; if  *)
(* the process may die, at least what it believes on is on.                *)
PortFollowsBelief ==
  "vapix" \notin env =>
    /\ active => port[config.port]
    /\ env \cap {"crash", "zero"} = {} =>
         \A p \in Port : port[p] => active /\ p = config.port

(* A risk that lasts turns the port on for good ("activates a virtual      *)
(* input port when your location falls within a thunderstorm or tornado    *)
(* risk area", index.html), even after crashes.  When the risk is over for *)
(* good, or the section is switched off, every port it drove is released,  *)
(* unless its request to the device failed, the process that turned it on  *)
(* died, or the coordinates are still missing.                             *)
PortFollowsRisk ==
  /\ env \subseteq {"crash", "zero"} =>
       \A p \in Port :
         <>[](/\ config.on /\ config.enabled /\ config.port = p /\ config.mult > 1
              /\ AtRisk(risk) /\ up)
           => <>[]port[p]
  /\ env \subseteq {"spc"} =>
       (<>[](/\ up /\ config.on /\ config.mult > 1
             /\ ~(config.enabled /\ AtRisk(risk)))
          => <>[](\A p \in Port : ~port[p]))
=============================================================================
