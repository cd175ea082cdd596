--------------------------- MODULE LightningProofs ---------------------------
(***************************************************************************)
(* The risk section for any ports, levels, settings and multipliers: what  *)
(* the port shows, how often the outlook is looked at, and what a check    *)
(* achieves.                                                               *)
(***************************************************************************)
EXTENDS Lightning, TLAPS

(* The settings an operator may save name one port.  Without it the        *)
(* section forgets the port it drove when the setting is edited.           *)
OnePort == \A c, d \in Configs : c.port = d.port

SavedConfig == config \in Saved

(* Nothing else stops the daemon.                                          *)
StaysUp == env \cap {"crash", "zero"} = {} => up

LEMMA Bounds == Period \in Nat /\ Period >= 1 /\ 0 \in 0..(Period + 1) /\ 0 \in Level
<1>1. Period \in Nat \ {0} /\ MaxLevel \in Nat
  BY PeriodAssumption
<1>2. 0 \in Level
  BY <1>1 DEF Level
<1> HIDE PeriodAssumption
<1>3. Period \in Nat /\ Period >= 1 /\ 0 \in 0..(Period + 1)
  BY <1>1
<1> QED BY <1>2, <1>3

-----------------------------------------------------------------------------
LEMMA BumpType == ASSUME NEW t \in 0..(Period + 1) PROVE Bump(t) \in 0..(Period + 1)
BY Bounds DEF Bump

LEMMA PollType ==
  ASSUME TypeOK, Poll
  PROVE  /\ UNCHANGED <<env, risk, config, up>> /\ up
         /\ port' \in [Port -> BOOLEAN]
         /\ tick' \in 0..(Period + 1) /\ since' \in 0..(Period + 1)
         /\ active' \in BOOLEAN /\ status' \in Level
<1>1. UNCHANGED <<env, risk, config, up>> /\ up
  BY DEF Poll, Activate, Clear, Same, NotDue, NoCoords, Disabled, Polling
<1>2. port' \in [Port -> BOOLEAN]
  BY DEF Poll, Activate, Clear, Same, NotDue, NoCoords, Disabled, SetPort, TypeOK
<1>3. tick' \in 0..(Period + 1) /\ since' \in 0..(Period + 1)
  <2>1. ASSUME CountTick
        PROVE  tick' \in 0..(Period + 1) /\ since' \in 0..(Period + 1)
    <3>1. tick' \in 0..(Period + 1)
      BY <2>1, BumpType DEF CountTick, TypeOK
    <3>2. since' \in 0..(Period + 1)
      BY <2>1, Bounds DEF CountTick, TypeOK
    <3> QED BY <3>1, <3>2
  <2>2. CountTick \/ UNCHANGED <<tick, since>>
    BY DEF Poll, Activate, Clear, Same, NotDue, NoCoords, Disabled
  <2> QED BY <2>1, <2>2 DEF TypeOK
<1>4. 0 \in Level /\ Checked \subseteq Level
  BY Bounds DEF Checked, TypeOK
<1>5. active' \in BOOLEAN /\ status' \in Level
  BY <1>4 DEF Poll, Activate, Clear, Same, NotDue, NoCoords, Disabled, TypeOK
<1> QED BY <1>1, <1>2, <1>3, <1>5

LEMMA StepType == TypeOK /\ SavedConfig /\ [Next]_vars => (TypeOK /\ SavedConfig)'
<1> SUFFICES ASSUME TypeOK, SavedConfig, [Next]_vars PROVE (TypeOK /\ SavedConfig)'
  OBVIOUS
<1>1. CASE Poll
  BY <1>1, PollType DEF TypeOK, SavedConfig, Saved
<1>2. CASE DivideByZero \/ Crash
  BY <1>2 DEF DivideByZero, Crash, Die, TypeOK, SavedConfig, Saved
<1>3. CASE Start
  BY <1>3, Bounds DEF Start, TypeOK, SavedConfig, Saved
<1>4. CASE ApplySave
  <2>1. since' \in 0..(Period + 1)
    BY <1>4, Bounds DEF ApplySave, TypeOK
  <2> QED BY <1>4, <2>1 DEF ApplySave, TypeOK, SavedConfig, Saved
<1>5. CASE RiskChanges \/ UNCHANGED vars
  BY <1>5 DEF RiskChanges, vars, TypeOK, SavedConfig, Saved
<1> QED BY <1>1, <1>2, <1>3, <1>4, <1>5 DEF Next

LEMMA TypeInv == Spec => [](TypeOK /\ SavedConfig)
<1>1. Init => TypeOK /\ SavedConfig
  BY Bounds DEF Init, TypeOK, SavedConfig, Saved
<1> QED BY <1>1, StepType, PTL DEF Spec

(* The type of every variable, for any ports, levels and settings.         *)
THEOREM TypeCorrect == Spec => []TypeOK
BY TypeInv, PTL

-----------------------------------------------------------------------------
(* A poll changes no port but the configured one, and leaves that one as   *)
(* the section believes, if it was so before and the call succeeds.        *)
LEMMA PollPort ==
  ASSUME TypeOK, Poll, "vapix" \notin env
  PROVE  /\ \A p \in Port : p # config.port => port'[p] = port[p]
         /\ \/ UNCHANGED <<port, active>>
            \/ port'[config.port] = active'
            \/ active' = FALSE /\ ~active /\ UNCHANGED port
<1> SUFFICES ASSUME NEW on \in BOOLEAN,
                    \/ SetPort(config.port, on) /\ active' = on
                    \/ UNCHANGED <<port, active>>
                    \/ active' = FALSE /\ ~active /\ UNCHANGED port
             PROVE  /\ \A p \in Port : p # config.port => port'[p] = port[p]
                    /\ \/ UNCHANGED <<port, active>>
                       \/ port'[config.port] = active'
                       \/ active' = FALSE /\ ~active /\ UNCHANGED port
  BY DEF Poll, Activate, Clear, Same, NotDue, NoCoords, Disabled
<1>1. config.port \in Port
  BY ConfigsAssumption DEF TypeOK, Config
<1> QED BY <1>1 DEF SetPort, TypeOK

LEMMA StepUp == SavedConfig /\ TypeOK /\ StaysUp /\ [Next]_vars => StaysUp'
<1> SUFFICES ASSUME SavedConfig, TypeOK, StaysUp, [Next]_vars PROVE StaysUp'
  OBVIOUS
<1>1. CASE Poll
  BY <1>1, PollType DEF StaysUp
<1>2. CASE DivideByZero
  <2>1. "zero" \in env /\ env' = env
    BY <1>2 DEF DivideByZero, Die, SavedConfig, Saved
  <2> QED BY <2>1 DEF StaysUp
<1>3. CASE Crash
  BY <1>3 DEF Crash, Die, StaysUp
<1>4. CASE Start \/ ApplySave \/ RiskChanges \/ UNCHANGED vars
  BY <1>4 DEF Start, ApplySave, RiskChanges, vars, StaysUp
<1> QED BY <1>1, <1>2, <1>3, <1>4 DEF Next

LEMMA StepFollows ==
  OnePort /\ TypeOK /\ StaysUp /\ PortFollowsBelief /\ [Next]_vars => PortFollowsBelief'
<1> SUFFICES ASSUME OnePort, TypeOK, StaysUp, PortFollowsBelief, [Next]_vars,
                    ("vapix" \notin env)'
             PROVE  PortFollowsBelief'
  BY DEF PortFollowsBelief
<1>1. env' = env
  <2>1. CASE Poll
    BY <2>1, PollType
  <2> QED BY <2>1 DEF Next, DivideByZero, Crash, Die, Start, ApplySave, RiskChanges, vars
<1>2. "vapix" \notin env
  BY <1>1
<1>3. /\ active => port[config.port]
      /\ env \cap {"crash", "zero"} = {} =>
           \A p \in Port : port[p] => active /\ p = config.port
  BY <1>2 DEF PortFollowsBelief
<1>4. config.port \in Port
  BY ConfigsAssumption DEF TypeOK, Config
<1>5. CASE Poll
  <2>1. /\ \A p \in Port : p # config.port => port'[p] = port[p]
        /\ \/ UNCHANGED <<port, active>>
           \/ port'[config.port] = active'
           \/ active' = FALSE /\ ~active /\ UNCHANGED port
    BY <1>2, <1>5, PollPort
  <2>2. config' = config
    BY <1>5, PollType
  <2>3. active' => port'[config.port]
    BY <1>3, <2>1
  <2>4. ASSUME env \cap {"crash", "zero"} = {}, NEW p \in Port, port'[p]
        PROVE  active' /\ p = config.port
    BY <1>3, <1>4, <2>1, <2>4
  <2> QED BY <1>1, <2>2, <2>3, <2>4 DEF PortFollowsBelief
<1>6. CASE DivideByZero \/ Crash
  <2>1. UNCHANGED <<env, port, config, active>>
    BY <1>6 DEF DivideByZero, Crash, Die
  <2> QED BY <1>3, <2>1 DEF PortFollowsBelief
<1>7. CASE ApplySave
  <2>1. UNCHANGED <<env, port, active>> /\ config' \in Configs
    BY <1>7 DEF ApplySave, Saved
  <2>2. config'.port = config.port
    BY <2>1 DEF OnePort, TypeOK
  <2> QED BY <1>3, <2>1, <2>2 DEF PortFollowsBelief
<1>8. CASE RiskChanges \/ UNCHANGED vars
  <2>1. UNCHANGED <<env, port, config, active>>
    BY <1>8 DEF RiskChanges, vars
  <2> QED BY <1>3, <2>1 DEF PortFollowsBelief
<1>9. CASE Start
  <2>1. ~up /\ active' = FALSE /\ UNCHANGED <<env, port, config>>
    BY <1>9 DEF Start
  <2> QED BY <2>1 DEF PortFollowsBelief, StaysUp
<1> QED BY <1>5, <1>6, <1>7, <1>8, <1>9 DEF Next

(* While every call to the device succeeds, the port is on exactly while   *)
(* the section believes in a risk, through any edits of one port's         *)
(* settings, missing coordinates and outlooks; and what a process that     *)
(* dies and is respawned believes on is on.                                *)
THEOREM PortFollowsBeliefHolds == ASSUME OnePort PROVE Spec => []PortFollowsBelief
<1>1. Init => PortFollowsBelief /\ StaysUp
  BY DEF Init, PortFollowsBelief, StaysUp
<1> QED BY <1>1, StepFollows, StepUp, TypeInv, PTL DEF Spec

-----------------------------------------------------------------------------
(***************************************************************************)
(* The counter.  Remainders first: one more is the next, or zero.          *)
(***************************************************************************)
LEMMA Division ==
  ASSUME NEW a \in Nat, NEW m \in Nat, m >= 2
  PROVE  /\ a \div m \in Int /\ a % m \in 0..(m - 1)
         /\ a = m * (a \div m) + (a % m)
OBVIOUS

LEMMA Remainder ==
  ASSUME NEW a \in Nat, NEW m \in Nat, m >= 2, NEW q \in Int, NEW r \in 0..(m - 1),
         a = m * q + r
  PROVE  a % m = r
OBVIOUS

LEMMA NextRemainder ==
  ASSUME NEW a \in Nat, NEW m \in Nat, m >= 2
  PROVE  (a + 1) % m = IF a % m = m - 1 THEN 0 ELSE (a % m) + 1
<1> DEFINE q == a \div m   r == a % m
<1>1. q \in Int /\ r \in 0..(m - 1) /\ a = m * q + r
  BY Division
<1> HIDE DEF q, r
<1>2. CASE r = m - 1
  <2>1. a + 1 = m * (q + 1) + 0
    BY <1>1, <1>2
  <2>2. 0 \in 0..(m - 1) /\ q + 1 \in Int /\ a + 1 \in Nat
    BY <1>1
  <2>3. (a + 1) % m = 0
    BY <2>1, <2>2, Remainder
  <2> QED BY <1>2, <2>3 DEF r
<1>3. CASE r # m - 1
  <2>1. a + 1 = m * q + (r + 1)
    BY <1>1, <1>3
  <2>2. r + 1 \in 0..(m - 1) /\ a + 1 \in Nat
    BY <1>1, <1>3
  <2>3. (a + 1) % m = r + 1
    BY <1>1, <2>1, <2>2, Remainder
  <2> QED BY <1>3, <2>3 DEF r
<1> QED BY <1>2, <1>3

(* With a multiplier of 1 no remainder is ever 1.                          *)
NoMultOne == \A c \in Configs : c.mult # 1

(* The polls since the last check are no more than the counter is past the *)
(* last value that was due; a counter at zero has just been reset.         *)
SinceBehindTick ==
  config.mult # 0 =>
    /\ tick = 0 => since = 0
    /\ tick # 0 => since <= (tick - 1) % config.mult

LEMMA MultType ==
  ASSUME NoMultOne, TypeOK, config.mult # 0
  PROVE  config.mult \in Nat /\ config.mult >= 2 /\ Period % config.mult = 0
<1>1. config.mult \in Nat /\ config.mult # 1
  BY ConfigsAssumption DEF NoMultOne, TypeOK, Config
<1>2. Period % config.mult = 0
  BY PeriodAssumption DEF TypeOK
<1> QED BY <1>1, <1>2

LEMMA CountTickBehind ==
  ASSUME NoMultOne, TypeOK, SinceBehindTick, CountTick, config.mult # 0, config' = config
  PROVE  SinceBehindTick'
<1> DEFINE m == config.mult
<1>1. m \in Nat /\ m >= 2 /\ Period % m = 0
  BY MultType
<1>2. /\ tick \in Nat /\ tick <= Period + 1 /\ since \in Nat
      /\ Period \in Nat
  BY Bounds DEF TypeOK
<1>3. tick' = Bump(tick) /\ tick' \in Nat /\ tick' >= 1
  BY <1>2 DEF CountTick, Bump
<1>4. (tick' - 1) % m \in 0..(m - 1)
  <2>1. tick' - 1 \in Nat
    BY <1>3
  <2> QED BY <1>1, <2>1, Division
<1>5. CASE Due
  BY <1>1, <1>3, <1>4, <1>5 DEF CountTick, SinceBehindTick
<1>6. CASE ~Due
  <2>1. tick' # 1 /\ tick' % m # 1
    BY <1>1, <1>3, <1>6 DEF Due, CheckDue
  <2>2. since' \in Nat /\ since' <= since + 1
    BY <1>2, <1>6 DEF CountTick
  <2>3. tick >= 1 /\ since <= (tick - 1) % m
    BY <1>2, <1>3, <2>1 DEF Bump, SinceBehindTick
  <2>4. CASE tick = Period + 1
    <3>1. tick' - 1 = 1 /\ tick - 1 = Period
      BY <1>2, <1>3, <2>4 DEF Bump
    <3>2. 1 % m = 1
      <4>1. 1 = m * 0 + 1 /\ 1 \in 0..(m - 1)
        BY <1>1
      <4> QED BY <1>1, <4>1, Remainder
    <3>3. since = 0
      BY <1>1, <1>2, <2>3, <3>1
    <3>4. since' <= (tick' - 1) % m
      BY <2>2, <3>1, <3>2, <3>3
    <3> QED BY <1>3, <3>4 DEF SinceBehindTick
  <2>5. CASE tick # Period + 1
    <3>1. tick' = tick + 1
      BY <1>3, <2>5 DEF Bump
    <3>2. tick % m = IF (tick - 1) % m = m - 1 THEN 0 ELSE ((tick - 1) % m) + 1
      <4>1. tick - 1 \in Nat /\ (tick - 1) + 1 = tick
        BY <1>2, <2>3
      <4> QED BY <1>1, <4>1, NextRemainder
    <3>3. (tick + 1) % m = IF tick % m = m - 1 THEN 0 ELSE (tick % m) + 1
      BY <1>1, <1>2, NextRemainder
    <3>4. tick % m # 0
      BY <1>1, <2>1, <3>1, <3>3
    <3>5. (tick - 1) % m \in Int
      <4>1. tick - 1 \in Nat
        BY <1>2, <2>3
      <4> QED BY <1>1, <4>1, Division
    <3>6. since' <= tick % m
      BY <1>2, <2>2, <2>3, <3>2, <3>4, <3>5
    <3>7. tick' - 1 = tick
      BY <1>2, <3>1
    <3> QED BY <1>3, <3>6, <3>7 DEF SinceBehindTick
  <2> QED BY <2>4, <2>5
<1> QED BY <1>5, <1>6

LEMMA StepBehind ==
  NoMultOne /\ TypeOK /\ TypeOK' /\ SinceBehindTick /\ [Next]_vars => SinceBehindTick'
<1> SUFFICES ASSUME NoMultOne, TypeOK, TypeOK', SinceBehindTick, [Next]_vars,
                    (config.mult # 0)'
             PROVE  SinceBehindTick'
  BY DEF SinceBehindTick
<1>1. CASE Poll
  <2>1. config' = config
    BY <1>1, PollType
  <2>2. CountTick \/ UNCHANGED <<tick, since>>
    BY <1>1 DEF Poll, Activate, Clear, Same, NotDue, NoCoords, Disabled
  <2>3. CASE CountTick
    BY <2>1, <2>3, CountTickBehind
  <2>4. CASE UNCHANGED <<tick, since>>
    BY <2>1, <2>4 DEF SinceBehindTick
  <2> QED BY <2>2, <2>3, <2>4
<1>2. CASE DivideByZero \/ Crash \/ RiskChanges \/ UNCHANGED vars
  BY <1>2 DEF DivideByZero, Crash, Die, RiskChanges, vars, SinceBehindTick
<1>3. CASE Start
  BY <1>3 DEF Start, SinceBehindTick
<1>4. CASE ApplySave
  <2>1. CASE config'.mult = config.mult
    BY <1>4, <2>1 DEF ApplySave, SinceBehindTick
  <2>2. CASE config'.mult # config.mult
    <3>1. since' = 0 /\ tick' = tick
      BY <1>4, <2>2 DEF ApplySave
    <3>2. config'.mult \in Nat /\ config'.mult >= 2
      BY ConfigsAssumption DEF NoMultOne, TypeOK, Config
    <3>3. tick # 0 => 0 <= (tick - 1) % config'.mult
      <4> SUFFICES ASSUME tick # 0 PROVE 0 <= (tick - 1) % config'.mult
        OBVIOUS
      <4>1. tick - 1 \in Nat
        BY Bounds DEF TypeOK
      <4> QED BY <3>2, <4>1, Division
    <3> QED BY <3>1, <3>3 DEF SinceBehindTick
  <2> QED BY <2>1, <2>2
<1> QED BY <1>1, <1>2, <1>3, <1>4 DEF Next

(* For any multipliers but 1, no run of N enabled polls goes without a     *)
(* check, through crashes, edits, switching off and missing coordinates.   *)
THEOREM CheckedEveryNHolds == ASSUME NoMultOne PROVE Spec => []CheckedEveryN
<1>1. Init => SinceBehindTick
  BY DEF Init, SinceBehindTick
<1>2. TypeOK /\ SinceBehindTick => CheckedEveryN
  <2> SUFFICES ASSUME TypeOK, SinceBehindTick, config.mult # 0
               PROVE  since < config.mult
    BY DEF CheckedEveryN
  <2>1. config.mult \in Nat /\ config.mult >= 2
    BY MultType
  <2>2. CASE tick = 0
    BY <2>1, <2>2 DEF SinceBehindTick
  <2>3. CASE tick # 0
    <3>1. tick - 1 \in Nat /\ since \in Nat
      BY <2>3, Bounds DEF TypeOK
    <3>2. (tick - 1) % config.mult \in 0..(config.mult - 1)
      BY <2>1, <3>1, Division
    <3> QED BY <2>1, <2>3, <3>1, <3>2 DEF SinceBehindTick
  <2> QED BY <2>2, <2>3
<1> QED BY <1>1, <1>2, StepBehind, TypeInv, PTL DEF Spec

-----------------------------------------------------------------------------
(***************************************************************************)
(* The checks that CheckedEveryN promises, and what PortFollowsRisk has to *)
(* say between and after them.                                             *)
(***************************************************************************)
Risky(p) == config.on /\ config.enabled /\ config.port = p /\ AtRisk(risk)

(* The only level an undisturbed check can find, and those of one whose    *)
(* outlook may be missing.                                                 *)
LEMMA CheckedLevels ==
  /\ "spc" \notin env => Checked = {risk}
  /\ \A level \in Checked : level = risk \/ ~AtRisk(level)
BY DEF Checked, AtRisk

LEMMA RiskyPoll ==
  ASSUME TypeOK, NEW p \in Port, Risky(p), env \subseteq {"crash", "zero"}, Poll
  PROVE  /\ port[p] => port'[p]
         /\ Due /\ (active => port[p]) => port'[p]
<1>1. /\ config.enabled /\ config.port = p /\ AtRisk(risk) /\ Checked = {risk}
      /\ port \in [Port -> BOOLEAN] /\ "vapix" \notin env
  BY CheckedLevels DEF Risky, TypeOK
<1>2. CASE Activate
  <2>1. port' = [port EXCEPT ![p] = TRUE]
    BY <1>1, <1>2 DEF Activate, SetPort
  <2> QED BY <1>1, <2>1
<1>3. CASE Same
  BY <1>1, <1>3 DEF Same
<1>4. CASE NotDue
  BY <1>4 DEF NotDue
<1>5. ~Clear /\ ~Disabled /\ ~NoCoords
  BY <1>1 DEF Clear, Disabled, NoCoords, Polling
<1> QED BY <1>2, <1>3, <1>4, <1>5 DEF Poll

(* While a risk lasts and the section is on, the first check turns the     *)
(* port on, and from then on it stays on without interruption, through     *)
(* further checks, edits, crashes and respawns.                            *)
THEOREM RiskHoldsPort ==
  ASSUME OnePort, NEW p \in Port
  PROVE  Spec =>
           /\ [][env \subseteq {"crash", "zero"} /\ Risky(p) /\ Poll /\ Due => port'[p]]_vars
           /\ []((env \subseteq {"crash", "zero"} /\ port[p] /\ []Risky(p)) => []port[p])
<1> DEFINE Calm == env \subseteq {"crash", "zero"}
<1>1. TypeOK /\ PortFollowsBelief /\ [Next]_vars =>
        [Calm /\ Risky(p) /\ Poll /\ Due => port'[p]]_vars
  <2> SUFFICES ASSUME TypeOK, PortFollowsBelief, Calm, Risky(p), Poll, Due PROVE port'[p]
    OBVIOUS
  <2>1. active => port[p]
    BY DEF PortFollowsBelief, Risky
  <2> QED BY <2>1, RiskyPoll
<1>2. TypeOK /\ Calm /\ Risky(p) /\ port[p] /\ [Next]_vars => (Calm /\ port[p])'
  <2> SUFFICES ASSUME TypeOK, Calm, Risky(p), port[p], [Next]_vars PROVE (Calm /\ port[p])'
    OBVIOUS
  <2>1. CASE Poll
    BY <2>1, PollType, RiskyPoll
  <2>2. CASE ~Poll
    <3>1. UNCHANGED <<env, port>>
      BY <2>2 DEF Next, DivideByZero, Crash, Die, Start, ApplySave, RiskChanges, vars
    <3> QED BY <3>1
  <2> QED BY <2>1, <2>2
<1> QED BY <1>1, <1>2, TypeInv, PortFollowsBeliefHolds, PTL DEF Spec

NoRisk == ~(config.enabled /\ AtRisk(risk))
AllOff == \A p \in Port : ~port[p]

LEMMA OverPoll ==
  ASSUME TypeOK, PortFollowsBelief, NoRisk, env \subseteq {"spc"}, Poll
  PROVE  Due \/ ~config.enabled \/ AllOff => AllOff'
<1>1. /\ port \in [Port -> BOOLEAN] /\ config.port \in Port /\ "vapix" \notin env
      /\ env \cap {"crash", "zero"} = {}
  BY ConfigsAssumption DEF TypeOK, Config
<1>2. /\ active => port[config.port]
      /\ \A p \in Port : port[p] => active /\ p = config.port
  BY <1>1 DEF PortFollowsBelief
<1>3. config.enabled => \A level \in Checked : ~AtRisk(level)
  BY CheckedLevels DEF NoRisk
<1>4. ASSUME SetPort(config.port, FALSE) PROVE AllOff'
  BY <1>1, <1>2, <1>4 DEF SetPort, AllOff
<1>5. CASE Clear
  BY <1>4, <1>5 DEF Clear
<1>6. CASE Disabled
  BY <1>2, <1>4, <1>6 DEF Disabled, AllOff
<1>7. CASE Same
  <2>1. ~active /\ UNCHANGED port
    BY <1>3, <1>7 DEF Same
  <2> QED BY <1>2, <2>1 DEF AllOff
<1>8. CASE NotDue
  BY <1>8 DEF NotDue, AllOff
<1>9. ~Activate /\ ~NoCoords
  BY <1>1, <1>3 DEF Activate, NoCoords, Polling
<1> QED BY <1>5, <1>6, <1>7, <1>8, <1>9 DEF Poll

(* When the risk is over or the section switched off, the first check, or  *)
(* the first poll of a section that is off, releases every port, and none  *)
(* comes back before there is a risk again, although outlooks may fail.    *)
THEOREM RiskOverReleasesPorts ==
  ASSUME OnePort
  PROVE  Spec =>
           /\ [][env \subseteq {"spc"} /\ NoRisk /\ Poll /\ (Due \/ ~config.enabled)
                   => AllOff']_vars
           /\ []((env \subseteq {"spc"} /\ AllOff /\ []NoRisk) => []AllOff)
<1> DEFINE Calm == env \subseteq {"spc"}
<1>1. TypeOK /\ PortFollowsBelief /\ [Next]_vars =>
        [Calm /\ NoRisk /\ Poll /\ (Due \/ ~config.enabled) => AllOff']_vars
  BY OverPoll
<1>2. TypeOK /\ PortFollowsBelief /\ Calm /\ NoRisk /\ AllOff /\ [Next]_vars => (Calm /\ AllOff)'
  <2> SUFFICES ASSUME TypeOK, PortFollowsBelief, Calm, NoRisk, AllOff, [Next]_vars
               PROVE  (Calm /\ AllOff)'
    OBVIOUS
  <2>1. CASE Poll
    BY <2>1, PollType, OverPoll
  <2>2. CASE ~Poll
    <3>1. UNCHANGED <<env, port>>
      BY <2>2 DEF Next, DivideByZero, Crash, Die, Start, ApplySave, RiskChanges, vars
    <3> QED BY <3>1 DEF AllOff
  <2> QED BY <2>1, <2>2
<1> QED BY <1>1, <1>2, TypeInv, PortFollowsBeliefHolds, PTL DEF Spec
=============================================================================
