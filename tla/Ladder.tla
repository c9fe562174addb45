-------------------------------- MODULE Ladder --------------------------------
(***************************************************************************)
(* What the Auto Extreme ladder does to cores, frequency, RAPL limits and  *)
(* turbo: a tick of the daemon write by write, while loads and levels      *)
(* change and the rows of the dashboard write the same nodes.              *)
(*                                                                         *)
(* Loads are quantised as in the code, in thirds of all cores; ceilings    *)
(* are in tenths.  Each core has a cpufreq policy of its own, which keeps  *)
(* its limit but can be neither read nor written while the core is off.    *)
(***************************************************************************)
EXTENDS Integers, FiniteSets, FiniteSetsExt

CONSTANTS
  NumCpus,            \* cores discovered, numbered from 0
  CpuMin, CpuMax,     \* cpuinfo_{min,max}_freq of each, in MHz
  NumZones,           \* powercap zones with the constraint, numbered from 0
  ZoneMin, ZoneMax,   \* the range of the constraint in each, in W
  Levels,             \* levels the user picks from
  Loads,              \* loads that occur
  Rows                \* rows of the dashboard that are used

Cores == 0 .. NumCpus - 1
Zones == 0 .. NumZones - 1

ASSUME CpuAssumption ==
  /\ NumCpus \in Nat \ {0}
  /\ CpuMin \in [Cores -> Nat] /\ CpuMax \in [Cores -> Nat]
  /\ \A c \in Cores : CpuMin[c] < CpuMax[c]
ASSUME ZoneAssumption ==
  /\ NumZones \in Nat \ {0}
  /\ ZoneMin \in [Zones -> Nat] /\ ZoneMax \in [Zones -> Nat]
  /\ \A z \in Zones : ZoneMin[z] < ZoneMax[z]
ASSUME LevelAssumption ==
  Levels \subseteq {"high", "medium", "low"} /\ Levels # {}
ASSUME LoadAssumption ==
  Loads \subseteq 0 .. 3 /\ Loads # {}
ASSUME RowAssumption ==
  Rows \subseteq {"cores", "freq"}

VARIABLES
  load,     \* round(3 * load / cores)
  level,    \* auto_extreme_level in the configuration
  online,   \* the cores that are online
  limit,    \* scaling_max_freq of each core
  watts,    \* power_limit_uw of each zone
  turbo,    \* is boost allowed?
  job       \* what the tick and the row are in the middle of

vars == <<load, level, online, limit, watts, turbo, job>>

-----------------------------------------------------------------------------
(* The scale.                                                              *)

Clamp(v, lo, hi) == IF v < lo THEN lo ELSE IF v > hi THEN hi ELSE v

Lowest(f, S) == Min({f[x] : x \in S})
Highest(f, S) == Max({f[x] : x \in S})

Ceiling(l) == CASE l = "high" -> 4 [] l = "medium" -> 7 [] l = "low" -> 10

CoreCeiling(l) ==
  IF NumCpus = 1 THEN 1
                 ELSE Clamp((NumCpus * Ceiling(l) + 9) \div 10, 2, NumCpus)

(* round(1 + s/3 * (ceiling - 1)) *)
CoreRamp(s, l) ==
  Clamp(1 + (2 * s * (CoreCeiling(l) - 1) + 3) \div 6, 1, CoreCeiling(l))

(* p/q as the code truncates it.  0.7 has no exact double: at "medium" a
   quotient that should be whole may come out one lower. *)
Truncated(p, q, l) ==
  {p \div q} \cup
  {v \in {(p \div q) - 1} : l = "medium" /\ p > 0 /\ p % q = 0}

(* Mutant: the scale starts at zero instead of the floor. *)
FreqTargetsFromZero(lo, hi, s, l) ==
  {(s * range) \div 3 : range \in Truncated((hi - lo) * Ceiling(l), 10, l)}

FreqTargets(lo, hi, s, l) ==
  {lo + (s * range) \div 3 : range \in Truncated((hi - lo) * Ceiling(l), 10, l)}

WattTargets(lo, hi, s, l) ==
  {lo + w : w \in Truncated(s * Ceiling(l) * (hi - lo), 30, l)}

TurboGate(s, l) ==
  s >= (CASE l = "high" -> 3 [] l = "medium" -> 2 [] l = "low" -> 1)

FreqMin == Lowest(CpuMin, online)
(* Mutant: the range is taken from the limits, which the ladder writes. *)
FreqMaxOfLimits == Highest(limit, online)

FreqMax == Highest(CpuMax, online)
WattMin == Lowest(ZoneMin, Zones)
WattMax == Highest(ZoneMax, Zones)

-----------------------------------------------------------------------------
(* What the tick of the daemon and the row of the dashboard are in the      *)
(* middle of.  cores, mhz, watts and boost are what they will write; todo   *)
(* are the cores set_online_cores has yet to switch.                        *)

Actors == {"daemon", "row"}

Jobs == [step : {"rest", "watts", "cores", "limit", "turbo"},
         todo : SUBSET (Cores \ {0}), cores : 0 .. NumCpus,
         mhz : Nat, watts : Nat, boost : BOOLEAN]
NoJob == [step |-> "rest", todo |-> {}, cores |-> 0,
          mhz |-> 0, watts |-> 0, boost |-> FALSE]

TypeOK ==
  /\ load \in Loads
  /\ level \in Levels
  /\ online \in SUBSET Cores /\ 0 \in online
  /\ limit \in [Cores -> Nat]
  /\ watts \in [Zones -> Nat]
  /\ turbo \in BOOLEAN
  /\ job \in [Actors -> Jobs]

(* The machine as it boots. *)
Init ==
  /\ load \in Loads
  /\ level \in Levels
  /\ online = Cores
  /\ limit = CpuMax
  /\ watts = ZoneMax
  /\ turbo = TRUE
  /\ job = [a \in Actors |-> NoJob]

(* A row is done where a tick goes on to the next step. *)
Proceed(a, step) ==
  job' = [job EXCEPT ![a] =
            IF a = "daemon" THEN [@ EXCEPT !.step = step] ELSE NoJob]

(* write_constraint: each zone within its own range. *)
SetWatts(a) ==
  /\ job[a].step = "watts"
  /\ watts' = [z \in Zones |-> Clamp(job[a].watts, ZoneMin[z], ZoneMax[z])]
  /\ Proceed(a, "cores")
  /\ UNCHANGED <<load, level, online, limit, turbo>>

(* Mutant: one core too many stays online. *)
SwitchOffByOne(a) ==
  /\ job[a].step = "cores" /\ job[a].todo # {}
  /\ LET c == Min(job[a].todo) IN
       /\ online' = IF c <= job[a].cores THEN online \cup {c} ELSE online \ {c}
       /\ job' = [job EXCEPT ![a].todo = @ \ {c}]
  /\ UNCHANGED <<load, level, limit, watts, turbo>>

(* set_online_cores, core by core; cpu0 cannot be switched. *)
Switch(a) ==
  /\ job[a].step = "cores" /\ job[a].todo # {}
  /\ LET c == Min(job[a].todo) IN
       /\ online' = IF c < job[a].cores THEN online \cup {c} ELSE online \ {c}
       /\ job' = [job EXCEPT ![a].todo = @ \ {c}]
  /\ UNCHANGED <<load, level, limit, watts, turbo>>

(* set_freq_limit: the request, clamped to the range discovered on this call,
   for every core; the kernel keeps it inside the range of each policy. *)
SetFreqLimit(mhz) ==
  limit' = [c \in Cores |->
              IF c \in online
              THEN Clamp(Clamp(mhz, FreqMin, FreqMax), CpuMin[c], CpuMax[c])
              ELSE limit[c]]

(* The end of set_online_cores: newly online cores inherit cpu0's limit. *)
Inherit(a) ==
  /\ job[a].step = "cores" /\ job[a].todo = {}
  /\ SetFreqLimit(limit[0])
  /\ Proceed(a, "limit")
  /\ UNCHANGED <<load, level, online, watts, turbo>>

SetLimit(a) ==
  /\ job[a].step = "limit"
  /\ SetFreqLimit(job[a].mhz)
  /\ Proceed(a, "turbo")
  /\ UNCHANGED <<load, level, online, watts, turbo>>

-----------------------------------------------------------------------------
(* The daemon.                                                             *)

TickBegins ==
  /\ job["daemon"] = NoJob
  /\ \E mhz \in FreqTargets(FreqMin, FreqMax, load, level),
        w \in WattTargets(WattMin, WattMax, load, level) :
       job' = [job EXCEPT !["daemon"] =
                 [step |-> "watts", todo |-> Cores \ {0},
                  cores |-> CoreRamp(load, level), mhz |-> mhz, watts |-> w,
                  boost |-> TurboGate(load, level)]]
  /\ UNCHANGED <<load, level, online, limit, watts, turbo>>

SetTurbo ==
  /\ job["daemon"].step = "turbo"
  /\ turbo' = job["daemon"].boost
  /\ job' = [job EXCEPT !["daemon"] = NoJob]
  /\ UNCHANGED <<load, level, online, limit, watts>>

(* Killed in the middle; the next daemon starts with a tick. *)
Crash ==
  /\ job["daemon"] # NoJob
  /\ job' = [job EXCEPT !["daemon"] = NoJob]
  /\ UNCHANGED <<load, level, online, limit, watts, turbo>>

-----------------------------------------------------------------------------
(* The rows of the dashboard, and the world.                               *)

RowBegins(row, j) ==
  /\ row \in Rows
  /\ job["row"] = NoJob
  /\ job' = [job EXCEPT !["row"] = j]
  /\ UNCHANGED <<load, level, online, limit, watts, turbo>>

(* Left and Right, which read what is there and step from it. *)
Fewer == Clamp(Cardinality(online) - 1, 1, NumCpus)
More == Clamp(Cardinality(online) + 1, 1, NumCpus)
Slower == Clamp(limit[0] - 100, FreqMin, FreqMax)
Faster == Clamp(limit[0] + 100, FreqMin, FreqMax)

RowCores ==
  \E n \in {Fewer, More} :
    RowBegins("cores", [NoJob EXCEPT !.step = "cores", !.todo = Cores \ {0},
                                     !.cores = n])

RowFreq ==
  \E mhz \in {Slower, Faster} :
    RowBegins("freq", [NoJob EXCEPT !.step = "limit", !.mhz = mhz])

LoadChanges ==
  /\ load' \in Loads
  /\ UNCHANGED <<level, online, limit, watts, turbo, job>>

LevelChanges ==
  /\ level' \in Levels
  /\ UNCHANGED <<load, online, limit, watts, turbo, job>>

-----------------------------------------------------------------------------
Writes(a) == SetWatts(a) \/ Switch(a) \/ Inherit(a) \/ SetLimit(a)
Daemon == TickBegins \/ Writes("daemon") \/ SetTurbo

Next ==
  \/ Daemon
  \/ Crash
  \/ RowCores \/ RowFreq \/ Writes("row")
  \/ LoadChanges
  \/ LevelChanges

Spec == Init /\ [][Next]_vars

(* The daemon ticks every five seconds, and a row that was chosen goes on. *)
FairSpec == Spec /\ WF_vars(Daemon) /\ WF_vars(Writes("row"))

-----------------------------------------------------------------------------
(* Properties.                                                             *)

(* What the daemon is about to write lies in the discovered ranges before
   any clamping, whatever level and load it was computed from. *)
AimsInRange ==
  job["daemon"] # NoJob =>
    LET j == job["daemon"] IN
    /\ j.cores \in 1 .. NumCpus
    /\ j.mhz \in Lowest(CpuMin, Cores) .. Highest(CpuMax, Cores)
    /\ j.watts \in WattMin .. WattMax

(* A crash after the last write that changes anything is no interference. *)
Interference == (Crash /\ ~SetTurbo) \/ RowCores \/ RowFreq

(* From some point on, load and level are these and only the daemon acts. *)
Steady(s, l) ==
  /\ <>[](load = s /\ level = l)
  /\ <>[][~Interference]_vars

(* At level low a machine under full load gets everything back: every core
   online at its own maximum, the zones at theirs, and turbo.  Nothing the
   ladder or a row has lowered is taken for the hardware's range.  (For a
   moment in every tick a big core has the limit it inherits from cpu0.) *)
PowerReturns ==
  Steady(3, "low") =>
    <>[](/\ online = Cores /\ watts = ZoneMax /\ turbo
         /\ job["daemon"].step = "limit" \/ limit = CpuMax)

(* An idle machine sinks to one core at its minimum, the zones at theirs,
   without turbo, at every level and from wherever rows have put it. *)
IdleSinks ==
  \A l \in Levels :
    Steady(0, l) =>
      <>[](/\ online = {0} /\ limit[0] = CpuMin[0]
           /\ watts = ZoneMin /\ ~turbo)

=============================================================================
