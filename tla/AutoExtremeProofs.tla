--------------------------- MODULE AutoExtremeProofs --------------------------
(***************************************************************************)
(* What one tick of the daemon drives with auto-extreme on: the ladder of   *)
(* limits, for any cores, zones, ranges, loads and levels; and, as B, the   *)
(* backlight, for any device, windows and percentages.  The two share the   *)
(* level the user picks and no other state.                                 *)
(***************************************************************************)
EXTENDS Ladder, Panel, TLAPS, WellFoundedInduction, FiniteSetTheorems

CONSTANTS Classes, Manual, Closed

VARIABLES file, dash, adjusted, cmd, class, session, last, tick

(* The backlight, over the levels of the ladder. *)
B == INSTANCE Brightness

-----------------------------------------------------------------------------
(* Smallest and largest numbers.                                           *)

LEMMA Smallest ==
  ASSUME NEW S \in SUBSET Nat, S # {}
  PROVE  /\ Min(S) \in S
         /\ \A y \in S : Min(S) <= y
<1>1. PICK x \in S : \A y \in S : ~ (<<y, x>> \in OpToRel(<, Nat))
  BY NatLessThanWellFounded, WFMin
<1>2. \A y \in S : x <= y
  <2>1. \A y \in S : ~ (y < x)
    BY <1>1 DEF OpToRel
  <2> QED BY <2>1
<1> QED BY <1>2 DEF Min

LEMMA Largest ==
  ASSUME NEW S \in SUBSET Nat, S # {},
         NEW b \in Nat, \A y \in S : y <= b
  PROVE  /\ Max(S) \in S
         /\ \A y \in S : y <= Max(S)
<1> DEFINE T == {b - y : y \in S}
<1>1. T \in SUBSET Nat /\ T # {}
  OBVIOUS
<1>2. PICK x \in S : b - x = Min(T)
  BY <1>1, Smallest
<1>3. \A y \in S : b - x <= b - y
  BY <1>1, <1>2, Smallest
<1>4. \A y \in S : x >= y
  BY <1>3
<1> QED BY <1>4 DEF Max

LEMMA LowestOf ==
  ASSUME NEW D, NEW f \in [D -> Nat], NEW S \in SUBSET D, S # {}
  PROVE  /\ Lowest(f, S) \in Nat
         /\ \A x \in S : Lowest(f, S) <= f[x]
         /\ \E x \in S : Lowest(f, S) = f[x]
<1> DEFINE F == {f[x] : x \in S}
<1>1. F \in SUBSET Nat /\ F # {}
  OBVIOUS
<1>2. Min(F) \in F /\ \A y \in F : Min(F) <= y
  BY <1>1, Smallest
<1> QED BY <1>1, <1>2 DEF Lowest

LEMMA HighestOf ==
  ASSUME NEW D, NEW f \in [D -> Nat], NEW S \in SUBSET D, S # {},
         NEW m \in D, \A x \in D : f[x] <= f[m]
  PROVE  /\ Highest(f, S) \in Nat
         /\ \A x \in S : f[x] <= Highest(f, S)
         /\ \E x \in S : Highest(f, S) = f[x]
<1> DEFINE F == {f[x] : x \in S}
<1>1. F \in SUBSET Nat /\ F # {} /\ f[m] \in Nat /\ \A y \in F : y <= f[m]
  OBVIOUS
<1>2. Max(F) \in F /\ \A y \in F : y <= Max(F)
  BY <1>1, Largest
<1> QED BY <1>1, <1>2 DEF Highest

-----------------------------------------------------------------------------
(* The scale.                                                              *)

LEMMA CeilingRange ==
  ASSUME NEW l \in Levels
  PROVE  /\ Ceiling(l) \in {4, 7, 10}
         /\ CoreCeiling(l) \in 1 .. NumCpus
<1>1. Ceiling(l) \in {4, 7, 10}
  BY LevelAssumption DEF Ceiling
<1>2. CoreCeiling(l) \in 1 .. NumCpus
  BY <1>1, CpuAssumption DEF CoreCeiling, Clamp
<1> QED BY <1>1, <1>2

(* At least one core, and never more than the ceiling of the level. *)
LEMMA RampRange ==
  ASSUME NEW s \in 0 .. 3, NEW l \in Levels
  PROVE  CoreRamp(s, l) \in 1 .. CoreCeiling(l)
<1> DEFINE x == 1 + (2 * s * (CoreCeiling(l) - 1) + 3) \div 6
<1>1. CoreCeiling(l) \in Nat \ {0}
  BY CeilingRange, CpuAssumption
<1>2. x \in Int
  <2>1. 2 * s * (CoreCeiling(l) - 1) \in Int
    BY <1>1
  <2> QED BY <2>1
<1> HIDE DEF x
<1>3. Clamp(x, 1, CoreCeiling(l)) \in 1 .. CoreCeiling(l)
  BY <1>1, <1>2 DEF Clamp
<1> QED BY <1>3 DEF CoreRamp, x

(* What a truncated quotient may be. *)
LEMMA TruncatedRange ==
  ASSUME NEW p \in Nat, NEW q \in {10, 30}, NEW l
  PROVE  Truncated(p, q, l) \subseteq 0 .. (p \div q)
<1>1. p \div q \in Nat
  OBVIOUS
<1>2. p > 0 /\ p % q = 0 => p \div q >= 1
  OBVIOUS
<1> QED BY <1>1, <1>2 DEF Truncated

(* Frequencies and watts that are aimed at lie in the range they are scaled
   into, at any level and load, whichever way 0.7 is rounded. *)
LEMMA TargetsInRange ==
  ASSUME NEW lo \in Nat, NEW hi \in Nat, lo <= hi,
         NEW s \in 0 .. 3, NEW l \in Levels
  PROVE  /\ FreqTargets(lo, hi, s, l) \subseteq lo .. hi
         /\ WattTargets(lo, hi, s, l) \subseteq lo .. hi
<1> DEFINE d == hi - lo
<1>1. d \in Nat /\ hi = lo + d
  OBVIOUS
<1>2. Ceiling(l) \in {4, 7, 10}
  BY CeilingRange
<1> HIDE DEF d
<1>3. d * Ceiling(l) \in Nat /\ (d * Ceiling(l)) \div 10 <= d
  BY <1>1, <1>2
<1>4. Truncated(d * Ceiling(l), 10, l) \subseteq 0 .. d
  BY <1>1, <1>3, TruncatedRange
<1>5. \A r \in 0 .. d : (s * r) \div 3 \in 0 .. d
  <2>1. s = 0 \/ s = 1 \/ s = 2 \/ s = 3
    OBVIOUS
  <2> QED BY <1>1, <2>1
<1>6. FreqTargets(lo, hi, s, l) \subseteq lo .. hi
  <2>1. FreqTargets(lo, hi, s, l)
          = {lo + (s * r) \div 3 : r \in Truncated(d * Ceiling(l), 10, l)}
    BY DEF FreqTargets, d
  <2>2. \A r \in 0 .. d : lo + (s * r) \div 3 \in lo .. hi
    BY <1>1, <1>5
  <2> QED BY <1>4, <2>1, <2>2
<1>7. s * Ceiling(l) \in 0 .. 30
  BY <1>2
<1>8. s * Ceiling(l) * d \in Nat /\ (s * Ceiling(l) * d) \div 30 <= d
  <2>1. s = 0 \/ s = 1 \/ s = 2 \/ s = 3
    OBVIOUS
  <2> QED BY <1>1, <1>2, <2>1
<1>9. Truncated(s * Ceiling(l) * d, 30, l) \subseteq 0 .. d
  BY <1>1, <1>8, TruncatedRange
<1>10. WattTargets(lo, hi, s, l) \subseteq lo .. hi
  BY <1>1, <1>9 DEF WattTargets, d
<1> QED BY <1>6, <1>10

(* More load never means fewer cores. *)
THEOREM RampMonotone ==
  ASSUME NEW s \in 0 .. 3, NEW t \in 0 .. 3, s <= t, NEW l \in Levels
  PROVE  CoreRamp(s, l) <= CoreRamp(t, l)
<1> DEFINE k == CoreCeiling(l) - 1
<1>1. k \in Nat /\ CoreCeiling(l) = k + 1
  BY CeilingRange, CpuAssumption
<1> HIDE DEF k
<1>2. \A u \in 0 .. 3 : CoreRamp(u, l) = Clamp(1 + (2 * u * k + 3) \div 6, 1, k + 1)
  BY <1>1 DEF CoreRamp
<1>3. (2 * s * k + 3) \div 6 <= (2 * t * k + 3) \div 6
  <2>1. s \in {0, 1, 2, 3} /\ t \in {0, 1, 2, 3}
    OBVIOUS
  <2> QED BY <1>1, <2>1
<1>4. (2 * s * k + 3) \div 6 \in Int /\ (2 * t * k + 3) \div 6 \in Int
  <2>1. 2 * s * k + 3 \in Int /\ 2 * t * k + 3 \in Int
    BY <1>1
  <2> QED BY <2>1
<1> QED BY <1>1, <1>2, <1>3, <1>4 DEF Clamp

-----------------------------------------------------------------------------
(* Types and ranges.                                                       *)

LEMMA Sizes ==
  /\ 0 \in Cores /\ 0 \in Zones
  /\ Cores \in SUBSET Nat /\ Zones \in SUBSET Nat
BY CpuAssumption, ZoneAssumption DEF Cores, Zones

Tops(g, k) == {c \in 0 .. k - 1 : \A d \in 0 .. k - 1 : g[d] <= g[c]}

(* Of the first n numbers one takes g to its largest value: otherwise look at
   the shortest beginning of them in which none does. *)
LEMMA LargestOf ==
  ASSUME NEW n \in Nat \ {0}, NEW g \in [0 .. n - 1 -> Nat]
  PROVE  \E c \in 0 .. n - 1 : \A d \in 0 .. n - 1 : g[d] <= g[c]
<1> DEFINE Bad == {k \in 1 .. n : Tops(g, k) = {}}
<1>1. Bad = {}
  <2> SUFFICES ASSUME Bad # {} PROVE FALSE
    OBVIOUS
  <2>1. Bad \in SUBSET Nat
    OBVIOUS
  <2>2. PICK k \in Bad : \A i \in Bad : k <= i
    <3> HIDE DEF Bad
    <3>1. Min(Bad) \in Bad /\ \A i \in Bad : Min(Bad) <= i
      BY <2>1, Smallest
    <3> QED BY <3>1
  <2>3. k \in 1 .. n /\ Tops(g, k) = {}
    OBVIOUS
  <2>4. k # 1
    <3> SUFFICES ASSUME k = 1 PROVE FALSE
      OBVIOUS
    <3>1. 0 \in Tops(g, 1)
      <4>1. 0 \in 0 .. n - 1 /\ \A d \in 0 .. 1 - 1 : d = 0
        OBVIOUS
      <4>2. g[0] \in Nat
        BY <4>1
      <4> QED BY <4>1, <4>2 DEF Tops
    <3> QED BY <2>3, <3>1
  <2>5. k - 1 \notin Bad /\ k - 1 \in 1 .. n
    <3>1. k - 1 \in 1 .. n /\ ~ (k <= k - 1)
      BY <2>3, <2>4
    <3>2. k - 1 \notin Bad
      <4> HIDE DEF Bad
      <4> QED BY <2>2, <3>1
    <3> QED BY <3>1, <3>2
  <2>6. PICK c \in Tops(g, k - 1) : TRUE
    BY <2>5
  <2>7. /\ c \in 0 .. k - 2 /\ \A d \in 0 .. k - 2 : g[d] <= g[c]
        /\ g[c] \in Nat /\ g[k - 1] \in Nat
    BY <2>3, <2>5, <2>6 DEF Tops
  <2>8. CASE g[k - 1] <= g[c]
    <3>1. c \in Tops(g, k)
      <4>1. c \in 0 .. k - 1
        BY <2>3, <2>7
      <4>2. \A d \in 0 .. k - 1 : d = k - 1 \/ d \in 0 .. k - 2
        BY <2>3
      <4> QED BY <2>7, <2>8, <4>1, <4>2 DEF Tops
    <3> QED BY <2>3, <3>1
  <2>9. CASE ~ (g[k - 1] <= g[c])
    <3>1. \A d \in 0 .. k - 1 : g[d] <= g[k - 1]
      <4> SUFFICES ASSUME NEW d \in 0 .. k - 1 PROVE g[d] <= g[k - 1]
        OBVIOUS
      <4>1. CASE d = k - 1
        BY <2>7, <4>1
      <4>2. CASE d \in 0 .. k - 2
        <5>1. g[d] <= g[c] /\ g[d] \in Nat
          BY <2>3, <2>7, <4>2
        <5> QED BY <2>7, <2>9, <5>1
      <4> QED BY <2>3, <4>1, <4>2
    <3>2. k - 1 \in Tops(g, k)
      BY <2>3, <3>1 DEF Tops
    <3> QED BY <2>3, <3>2
  <2> QED BY <2>8, <2>9
<1>2. n \in 1 .. n
  OBVIOUS
<1> QED BY <1>1, <1>2 DEF Tops

LEMMA FreqRange ==
  ASSUME NEW S \in SUBSET Cores, S # {}
  PROVE  /\ Lowest(CpuMin, S) \in Nat /\ Highest(CpuMax, S) \in Nat
         /\ Lowest(CpuMin, S) < Highest(CpuMax, S)
         /\ Lowest(CpuMin, Cores) \in Nat /\ Highest(CpuMax, Cores) \in Nat
         /\ Lowest(CpuMin, Cores) <= Lowest(CpuMin, S)
         /\ Highest(CpuMax, S) <= Highest(CpuMax, Cores)
<1>1. PICK m \in Cores : \A d \in Cores : CpuMax[d] <= CpuMax[m]
  BY CpuAssumption, LargestOf DEF Cores
<1>2. /\ CpuMin \in [Cores -> Nat] /\ CpuMax \in [Cores -> Nat]
      /\ \A c \in Cores : CpuMin[c] < CpuMax[c]
  BY CpuAssumption
<1>3. \A T \in SUBSET Cores : T # {} =>
        /\ Lowest(CpuMin, T) \in Nat
        /\ \A x \in T : Lowest(CpuMin, T) <= CpuMin[x]
        /\ \E x \in T : Lowest(CpuMin, T) = CpuMin[x]
  BY <1>2, LowestOf
<1>4. \A T \in SUBSET Cores : T # {} =>
        /\ Highest(CpuMax, T) \in Nat
        /\ \A x \in T : CpuMax[x] <= Highest(CpuMax, T)
        /\ \E x \in T : Highest(CpuMax, T) = CpuMax[x]
  BY <1>1, <1>2, HighestOf
<1>5. Cores \in SUBSET Cores /\ Cores # {}
  BY Sizes
<1>6. PICK x \in S : Lowest(CpuMin, S) = CpuMin[x]
  BY <1>3
<1>7. PICK y \in S : Highest(CpuMax, S) = CpuMax[y]
  BY <1>4
<1>8. CpuMin[x] < CpuMax[x] /\ CpuMax[x] <= Highest(CpuMax, S)
  BY <1>2, <1>4
<1>9. /\ Lowest(CpuMin, Cores) <= CpuMin[x]
      /\ CpuMax[y] <= Highest(CpuMax, Cores)
  BY <1>3, <1>4, <1>5
<1>10. /\ Lowest(CpuMin, S) \in Nat /\ Highest(CpuMax, S) \in Nat
       /\ Lowest(CpuMin, Cores) \in Nat /\ Highest(CpuMax, Cores) \in Nat
       /\ CpuMax[x] \in Nat
  BY <1>2, <1>3, <1>4, <1>5
<1> QED BY <1>6, <1>7, <1>8, <1>9, <1>10

LEMMA WattRange ==
  WattMin \in Nat /\ WattMax \in Nat /\ WattMin <= WattMax
<1>1. PICK m \in Zones : \A z \in Zones : ZoneMax[z] <= ZoneMax[m]
  BY ZoneAssumption, LargestOf DEF Zones
<1>2. Zones \in SUBSET Zones /\ Zones # {}
  BY Sizes
<1>3. /\ ZoneMin \in [Zones -> Nat] /\ ZoneMax \in [Zones -> Nat]
      /\ \A z \in Zones : ZoneMin[z] < ZoneMax[z]
  BY ZoneAssumption
<1>4. WattMin \in Nat /\ \A z \in Zones : WattMin <= ZoneMin[z]
  BY <1>2, <1>3, LowestOf DEF WattMin
<1>5. WattMax \in Nat /\ \A z \in Zones : ZoneMax[z] <= WattMax
  BY <1>1, <1>2, <1>3, HighestOf DEF WattMax
<1> QED BY <1>2, <1>3, <1>4, <1>5

IInv == TypeOK /\ AimsInRange

LEMMA NoJobType == NoJob \in Jobs /\ NoJob.step = "rest"
BY CpuAssumption DEF NoJob, Jobs

LEMMA InitIInv == Init => IInv
<1> SUFFICES ASSUME Init PROVE IInv
  OBVIOUS
<1>1. limit \in [Cores -> Nat] /\ watts \in [Zones -> Nat]
  BY CpuAssumption, ZoneAssumption DEF Init
<1>2. job \in [Actors -> Jobs]
  BY NoJobType DEF Init
<1>3. job["daemon"] = NoJob
  BY DEF Init, Actors
<1> QED BY <1>1, <1>2, <1>3, Sizes DEF Init, IInv, TypeOK, AimsInRange

(* What set_freq_limit leaves are frequencies. *)
LEMMA LimitsStay ==
  ASSUME TypeOK, NEW mhz \in Nat, SetFreqLimit(mhz)
  PROVE  limit' \in [Cores -> Nat]
<1>1. FreqMin \in Nat /\ FreqMax \in Nat
  <2>1. online \in SUBSET Cores /\ online # {}
    BY DEF TypeOK
  <2> QED BY <2>1, FreqRange DEF FreqMin, FreqMax
<1>2. \A c \in Cores : Clamp(Clamp(mhz, FreqMin, FreqMax), CpuMin[c], CpuMax[c]) \in Nat
  BY <1>1, CpuAssumption DEF Clamp
<1>3. \A c \in Cores : limit[c] \in Nat
  BY DEF TypeOK
<1> QED BY <1>2, <1>3 DEF SetFreqLimit

(* A job that goes on, or ends, keeps what it aims at. *)
AimOK(j) ==
  /\ j.cores \in 1 .. NumCpus
  /\ j.mhz \in Lowest(CpuMin, Cores) .. Highest(CpuMax, Cores)
  /\ j.watts \in WattMin .. WattMax

LEMMA JobStays ==
  ASSUME IInv, NEW a \in Actors, NEW j \in Jobs,
         job' = [job EXCEPT ![a] = j],
         a = "daemon" => j = NoJob \/ AimOK(j)
  PROVE  job' \in [Actors -> Jobs] /\ AimsInRange'
<1>1. job \in [Actors -> Jobs] /\ (job["daemon"] # NoJob => AimOK(job["daemon"]))
  BY DEF IInv, TypeOK, AimsInRange, AimOK
<1>2. job' \in [Actors -> Jobs]
  BY <1>1
<1>3. job'["daemon"] # NoJob => AimOK(job'["daemon"])
  <2>1. "daemon" \in Actors
    BY DEF Actors
  <2>2. CASE a = "daemon"
    BY <1>1, <2>1, <2>2
  <2>3. CASE a # "daemon"
    BY <1>1, <2>1, <2>3
  <2> QED BY <2>2, <2>3
<1>4. AimsInRange'
  BY <1>3 DEF AimsInRange, AimOK, WattMin, WattMax
<1> QED BY <1>2, <1>4

LEMMA ProceedStays ==
  ASSUME IInv, NEW a \in Actors, NEW step \in {"cores", "limit", "turbo"},
         job[a].step # "rest", Proceed(a, step)
  PROVE  job' \in [Actors -> Jobs] /\ AimsInRange'
<1> DEFINE j == [job[a] EXCEPT !.step = step]
<1>1. job[a] \in Jobs
  BY DEF IInv, TypeOK
<1>2. j \in Jobs
  BY <1>1 DEF Jobs
<1>3. CASE a = "daemon"
  <2>1. job["daemon"] # NoJob
    BY <1>3, NoJobType
  <2>2. AimOK(job["daemon"])
    BY <2>1 DEF IInv, AimsInRange, AimOK
  <2>3. AimOK(j)
    BY <1>1, <1>3, <2>2 DEF AimOK, Jobs
  <2>4. job' = [job EXCEPT ![a] = j]
    BY <1>3 DEF Proceed
  <2> QED BY <1>2, <2>3, <2>4, JobStays
<1>4. CASE a # "daemon"
  <2>1. job' = [job EXCEPT ![a] = NoJob]
    BY <1>4 DEF Proceed
  <2> QED BY <1>4, <2>1, NoJobType, JobStays
<1> QED BY <1>3, <1>4

(* The steps a tick and a row share. *)
LEMMA WritesStay ==
  ASSUME IInv, NEW a \in Actors, Writes(a)
  PROVE  IInv'
<1> USE DEF IInv
<1>1. job[a] \in Jobs
  BY DEF TypeOK
<1>2. CASE SetWatts(a)
  <2>1. \A z \in Zones : Clamp(job[a].watts, ZoneMin[z], ZoneMax[z]) \in Nat
    BY <1>1, ZoneAssumption DEF Clamp, Jobs
  <2>2. watts' \in [Zones -> Nat]
    BY <1>2, <2>1 DEF SetWatts
  <2>3. job' \in [Actors -> Jobs] /\ AimsInRange'
    BY <1>2, ProceedStays DEF SetWatts
  <2> QED BY <1>2, <2>2, <2>3 DEF SetWatts, TypeOK
<1>3. CASE Switch(a)
  <2> DEFINE c == Min(job[a].todo)
             j == [job[a] EXCEPT !.todo = @ \ {c}]
  <2>1. job[a].todo \in SUBSET (Cores \ {0}) /\ job[a].todo # {}
    BY <1>1, <1>3 DEF Jobs, Switch
  <2>2. c \in Cores /\ c # 0
    BY <2>1, Sizes, Smallest
  <2>3. online' \in SUBSET Cores /\ 0 \in online'
    BY <1>3, <2>2 DEF Switch, TypeOK
  <2>4. j \in Jobs
    BY <1>1, <2>1 DEF Jobs
  <2>5. a = "daemon" => AimOK(j)
    <3>1. a = "daemon" => AimOK(job[a])
      BY <1>3, NoJobType DEF Switch, AimsInRange, AimOK
    <3> QED BY <1>1, <3>1 DEF AimOK, Jobs
  <2>6. job' = [job EXCEPT ![a] = j]
    BY <1>1, <1>3 DEF Switch, TypeOK, Actors
  <2>7. job' \in [Actors -> Jobs] /\ AimsInRange'
    BY <2>4, <2>5, <2>6, JobStays
  <2> QED BY <1>3, <2>3, <2>7 DEF Switch, TypeOK
<1>4. CASE Inherit(a)
  <2>1. limit[0] \in Nat
    BY Sizes DEF TypeOK
  <2>2. limit' \in [Cores -> Nat]
    BY <1>4, <2>1, LimitsStay DEF Inherit
  <2>3. job' \in [Actors -> Jobs] /\ AimsInRange'
    BY <1>4, ProceedStays DEF Inherit
  <2> QED BY <1>4, <2>2, <2>3 DEF Inherit, TypeOK
<1>5. CASE SetLimit(a)
  <2>1. job[a].mhz \in Nat
    BY <1>1 DEF Jobs
  <2>2. limit' \in [Cores -> Nat]
    BY <1>5, <2>1, LimitsStay DEF SetLimit
  <2>3. job' \in [Actors -> Jobs] /\ AimsInRange'
    BY <1>5, ProceedStays DEF SetLimit
  <2> QED BY <1>5, <2>2, <2>3 DEF SetLimit, TypeOK
<1> QED BY <1>2, <1>3, <1>4, <1>5 DEF Writes

LEMMA TickStays == IInv /\ TickBegins => IInv'
<1> SUFFICES ASSUME IInv, TickBegins PROVE IInv'
  OBVIOUS
<1>1. /\ load \in 0 .. 3 /\ level \in Levels
      /\ online \in SUBSET Cores /\ online # {}
  BY LoadAssumption DEF IInv, TypeOK
<1>2. PICK mhz \in FreqTargets(FreqMin, FreqMax, load, level),
           w \in WattTargets(WattMin, WattMax, load, level) :
        job' = [job EXCEPT !["daemon"] =
                  [step |-> "watts", todo |-> Cores \ {0},
                   cores |-> CoreRamp(load, level), mhz |-> mhz, watts |-> w,
                   boost |-> TurboGate(load, level)]]
  BY DEF TickBegins
<1> DEFINE j == [step |-> "watts", todo |-> Cores \ {0},
                 cores |-> CoreRamp(load, level), mhz |-> mhz, watts |-> w,
                 boost |-> TurboGate(load, level)]
<1>3. CoreRamp(load, level) \in 1 .. NumCpus
  <2>1. /\ CoreRamp(load, level) \in 1 .. CoreCeiling(level)
        /\ CoreCeiling(level) \in 1 .. NumCpus
    BY <1>1, RampRange, CeilingRange
  <2> QED BY <2>1, CpuAssumption
<1>4. mhz \in Nat /\ mhz \in Lowest(CpuMin, Cores) .. Highest(CpuMax, Cores)
  <2>1. /\ FreqMin \in Nat /\ FreqMax \in Nat /\ FreqMin <= FreqMax
        /\ Lowest(CpuMin, Cores) \in Nat /\ Highest(CpuMax, Cores) \in Nat
        /\ Lowest(CpuMin, Cores) <= FreqMin
        /\ FreqMax <= Highest(CpuMax, Cores)
    BY <1>1, FreqRange DEF FreqMin, FreqMax
  <2>2. mhz \in FreqMin .. FreqMax
    BY <1>1, <2>1, TargetsInRange
  <2> QED BY <2>1, <2>2
<1>5. w \in Nat /\ w \in WattMin .. WattMax
  <2>1. w \in WattMin .. WattMax
    BY <1>1, WattRange, TargetsInRange
  <2> QED BY <2>1, WattRange
<1>6. TurboGate(load, level) \in BOOLEAN
  BY <1>1, LevelAssumption DEF TurboGate
<1>7. j \in Jobs /\ AimOK(j)
  BY <1>3, <1>4, <1>5, <1>6 DEF Jobs, AimOK
<1>8. job' \in [Actors -> Jobs] /\ AimsInRange'
  BY <1>2, <1>7, JobStays DEF Actors
<1> QED BY <1>8 DEF TickBegins, IInv, TypeOK

LEMMA RowsStay ==
  ASSUME IInv, NEW row, NEW j \in Jobs, RowBegins(row, j)
  PROVE  IInv'
<1>1. job' \in [Actors -> Jobs] /\ AimsInRange'
  BY JobStays DEF RowBegins, Actors
<1> QED BY <1>1 DEF RowBegins, IInv, TypeOK

LEMMA NextIInv == IInv /\ [Next]_vars => IInv'
<1> SUFFICES ASSUME IInv, [Next]_vars PROVE IInv'
  OBVIOUS
<1>1. CASE TickBegins
  BY <1>1, TickStays
<1>2. CASE Writes("daemon") \/ Writes("row")
  BY <1>2, WritesStay DEF Actors
<1>3. CASE SetTurbo
  <2>1. job["daemon"].boost \in BOOLEAN
    BY DEF IInv, TypeOK, Jobs, Actors
  <2>2. job' \in [Actors -> Jobs] /\ AimsInRange'
    BY <1>3, NoJobType, JobStays DEF SetTurbo, Actors
  <2> QED BY <1>3, <2>1, <2>2 DEF SetTurbo, IInv, TypeOK
<1>4. CASE Crash
  <2>1. job' \in [Actors -> Jobs] /\ AimsInRange'
    BY <1>4, NoJobType, JobStays DEF Crash, Actors
  <2> QED BY <1>4, <2>1 DEF Crash, IInv, TypeOK
<1>5. CASE RowCores
  <2>1. PICK n \in {Fewer, More} :
          RowBegins("cores", [NoJob EXCEPT !.step = "cores",
                                           !.todo = Cores \ {0}, !.cores = n])
    BY <1>5 DEF RowCores
  <2>2. n \in 0 .. NumCpus
    <3>1. IsFiniteSet(online)
      <4>1. IsFiniteSet(0 .. NumCpus - 1)
        BY FS_Interval, CpuAssumption
      <4>2. online \subseteq 0 .. NumCpus - 1
        BY DEF IInv, TypeOK, Cores
      <4> QED BY <4>1, <4>2, FS_Subset
    <3>2. Cardinality(online) \in Nat
      BY <3>1, FS_CardinalityType
    <3> QED BY <2>1, <3>2, CpuAssumption DEF Fewer, More, Clamp
  <2>3. [NoJob EXCEPT !.step = "cores", !.todo = Cores \ {0}, !.cores = n] \in Jobs
    BY <2>2, NoJobType DEF Jobs
  <2> QED BY <2>1, <2>3, RowsStay
<1>6. CASE RowFreq
  <2>1. PICK mhz \in {Slower, Faster} :
          RowBegins("freq", [NoJob EXCEPT !.step = "limit", !.mhz = mhz])
    BY <1>6 DEF RowFreq
  <2>2. mhz \in Nat
    <3>1. online \in SUBSET Cores /\ online # {} /\ limit[0] \in Nat
      BY Sizes DEF IInv, TypeOK
    <3>2. FreqMin \in Nat /\ FreqMax \in Nat
      BY <3>1, FreqRange DEF FreqMin, FreqMax
    <3> QED BY <2>1, <3>1, <3>2 DEF Slower, Faster, Clamp
  <2>3. [NoJob EXCEPT !.step = "limit", !.mhz = mhz] \in Jobs
    BY <2>2, NoJobType DEF Jobs
  <2> QED BY <2>1, <2>3, RowsStay
<1>7. CASE LoadChanges \/ LevelChanges
  BY <1>7 DEF LoadChanges, LevelChanges, IInv, TypeOK, AimsInRange, WattMin, WattMax
<1>8. CASE UNCHANGED vars
  BY <1>8 DEF vars, IInv, TypeOK, AimsInRange, WattMin, WattMax
<1> QED
  BY <1>1, <1>2, <1>3, <1>4, <1>5, <1>6, <1>7, <1>8
     DEF Next, Daemon

(* The nodes keep their types, and cpu0 stays online, whatever rows, ticks and
   crashes come between each other. *)
THEOREM TypeCorrect == Spec => []TypeOK
<1>1. IInv => TypeOK
  BY DEF IInv
<1> QED BY <1>1, InitIInv, NextIInv, PTL DEF Spec

(* Nothing the ladder aims at is outside the ranges of the hardware. *)
THEOREM AimsStayInRange == Spec => []AimsInRange
<1>1. IInv => AimsInRange
  BY DEF IInv
<1> QED BY <1>1, InitIInv, NextIInv, PTL DEF Spec

-----------------------------------------------------------------------------
(* The ends of the scale, from which no tick departs.                      *)

AimsAt(j, n, mhz, w, b) ==
  j.cores = n /\ j.mhz = mhz /\ j.watts = w /\ j.boost = b

FullLoad == load = 3 /\ level = "low"
NoLoad == load = 0

(* Everything given back, or everything taken, with the tick in progress
   going the same way. *)
Restored ==
  /\ online = Cores /\ watts = ZoneMax /\ turbo
  /\ job["daemon"].step = "limit" \/ limit = CpuMax
  /\ job["row"] = NoJob
  /\ job["daemon"] # NoJob =>
       AimsAt(job["daemon"], NumCpus, FreqMax, WattMax, TRUE)

Sunk ==
  /\ online = {0} /\ limit[0] = CpuMin[0] /\ watts = ZoneMin /\ ~turbo
  /\ job["row"] = NoJob
  /\ job["daemon"] # NoJob =>
       AimsAt(job["daemon"], 1, CpuMin[0], WattMin, FALSE)

LEMMA ScaleEnds ==
  ASSUME NEW lo \in Nat, NEW hi \in Nat, lo <= hi
  PROVE  /\ FreqTargets(lo, hi, 3, "low") = {hi}
         /\ WattTargets(lo, hi, 3, "low") = {hi}
         /\ CoreRamp(3, "low") = NumCpus
         /\ TurboGate(3, "low")
<1> DEFINE d == hi - lo
<1>1. d \in Nat /\ hi = lo + d
  OBVIOUS
<1>2. Ceiling("low") = 10
  BY DEF Ceiling
<1> HIDE DEF d
<1>3. Truncated(d * 10, 10, "low") = {d} /\ Truncated(3 * 10 * d, 30, "low") = {d}
  <2>1. (d * 10) \div 10 = d /\ (3 * 10 * d) \div 30 = d
    BY <1>1
  <2> QED BY <2>1 DEF Truncated
<1>4. FreqTargets(lo, hi, 3, "low") = {hi}
  <2>1. FreqTargets(lo, hi, 3, "low") = {lo + (3 * r) \div 3 : r \in {d}}
    BY <1>2, <1>3 DEF FreqTargets, d
  <2>2. (3 * d) \div 3 = d
    BY <1>1
  <2> QED BY <1>1, <2>1, <2>2
<1>5. WattTargets(lo, hi, 3, "low") = {hi}
  BY <1>1, <1>2, <1>3 DEF WattTargets, d
<1>6. CoreRamp(3, "low") = NumCpus
  <2>1. CoreCeiling("low") = NumCpus
    BY <1>2, CpuAssumption DEF CoreCeiling, Clamp
  <2>2. (2 * 3 * (NumCpus - 1) + 3) \div 6 = NumCpus - 1
    BY CpuAssumption
  <2> QED BY <2>1, <2>2, CpuAssumption DEF CoreRamp, Clamp
<1>7. TurboGate(3, "low")
  BY DEF TurboGate
<1> QED BY <1>4, <1>5, <1>6, <1>7

LEMMA ScaleStarts ==
  ASSUME NEW lo \in Nat, NEW hi \in Nat, lo <= hi, NEW l \in Levels
  PROVE  /\ FreqTargets(lo, hi, 0, l) = {lo}
         /\ WattTargets(lo, hi, 0, l) = {lo}
         /\ CoreRamp(0, l) = 1
         /\ ~ TurboGate(0, l)
<1> DEFINE d == hi - lo
<1>1. d \in Nat
  OBVIOUS
<1>2. Ceiling(l) \in {4, 7, 10} /\ CoreCeiling(l) \in 1 .. NumCpus
  BY CeilingRange
<1> HIDE DEF d
<1>3. FreqTargets(lo, hi, 0, l) = {lo}
  <2>1. d * Ceiling(l) \in Nat
    BY <1>1, <1>2
  <2>2. Truncated(d * Ceiling(l), 10, l) \subseteq Int
    BY <2>1 DEF Truncated
  <2>3. Truncated(d * Ceiling(l), 10, l) # {}
    BY DEF Truncated
  <2>4. \A r \in Int : lo + (0 * r) \div 3 = lo
    OBVIOUS
  <2>5. FreqTargets(lo, hi, 0, l)
          = {lo + (0 * r) \div 3 : r \in Truncated(d * Ceiling(l), 10, l)}
    BY DEF FreqTargets, d
  <2> QED BY <2>2, <2>3, <2>4, <2>5
<1>4. WattTargets(lo, hi, 0, l) = {lo}
  <2>1. 0 * Ceiling(l) * d = 0
    BY <1>1, <1>2
  <2>2. Truncated(0, 30, l) = {0}
    BY DEF Truncated
  <2> QED BY <2>1, <2>2 DEF WattTargets, d
<1>5. CoreRamp(0, l) = 1
  <2>1. (2 * 0 * (CoreCeiling(l) - 1) + 3) \div 6 = 0
    BY <1>2, CpuAssumption
  <2> QED BY <1>2, <2>1, CpuAssumption DEF CoreRamp, Clamp
<1>6. ~ TurboGate(0, l)
  BY LevelAssumption DEF TurboGate
<1> QED BY <1>3, <1>4, <1>5, <1>6

(* What happens to the hardware where nobody interferes. *)
LEMMA CalmStep ==
  ASSUME TypeOK, job["row"] = NoJob, [Next]_vars, [~Interference]_vars
  PROVE  \/ TickBegins \/ Writes("daemon") \/ SetTurbo
         \/ UNCHANGED <<online, limit, watts, turbo, job>>
<1>1. ~ Writes("row")
  BY NoJobType DEF Writes, SetWatts, Switch, Inherit, SetLimit
<1>2. LoadChanges \/ LevelChanges \/ UNCHANGED vars
        => UNCHANGED <<online, limit, watts, turbo, job>>
  BY DEF LoadChanges, LevelChanges, vars
<1>3. Crash \/ RowCores \/ RowFreq => SetTurbo \/ UNCHANGED vars
  BY DEF Interference
<1> QED BY <1>1, <1>2, <1>3 DEF Next, Daemon

(* A tick under way keeps its aims and leaves the row alone. *)
LEMMA TickKeepsAims ==
  ASSUME TypeOK, Writes("daemon"), NEW n, NEW mhz, NEW w, NEW b,
         AimsAt(job["daemon"], n, mhz, w, b)
  PROVE  /\ job'["row"] = job["row"]
         /\ AimsAt(job'["daemon"], n, mhz, w, b)
<1>1. job \in [Actors -> Jobs] /\ "daemon" \in Actors /\ "row" \in Actors
  BY DEF TypeOK, Actors
<1>2. job["daemon"] \in Jobs
  BY <1>1
<1>3. CASE Switch("daemon")
  <2>1. job' = [job EXCEPT !["daemon"].todo = @ \ {Min(job["daemon"].todo)}]
    BY <1>3 DEF Switch
  <2> QED BY <1>1, <1>2, <2>1 DEF AimsAt, Jobs
<1>4. CASE \E step \in {"cores", "limit", "turbo"} : Proceed("daemon", step)
  <2>1. PICK step \in {"cores", "limit", "turbo"} : Proceed("daemon", step)
    BY <1>4
  <2>2. job' = [job EXCEPT !["daemon"] = [@ EXCEPT !.step = step]]
    BY <2>1 DEF Proceed
  <2> QED BY <1>1, <1>2, <2>2 DEF AimsAt, Jobs
<1> QED BY <1>3, <1>4 DEF Writes, SetWatts, Inherit, SetLimit

LEMMA FullRange ==
  ASSUME online = Cores
  PROVE  /\ FreqMin \in Nat /\ FreqMax \in Nat /\ FreqMin <= FreqMax
         /\ \A c \in Cores : CpuMax[c] <= FreqMax
         /\ \A c \in Cores : CpuMin[c] \in Nat /\ CpuMax[c] \in Nat
                             /\ CpuMin[c] < CpuMax[c]
<1>1. Cores \in SUBSET Cores /\ Cores # {}
  BY Sizes
<1>2. CpuMax \in [Cores -> Nat]
  BY CpuAssumption
<1>3. PICK m \in Cores : \A d \in Cores : CpuMax[d] <= CpuMax[m]
  BY CpuAssumption, LargestOf DEF Cores
<1>4. \A c \in Cores : CpuMax[c] <= Highest(CpuMax, Cores)
  BY <1>1, <1>2, <1>3, HighestOf
<1> QED BY <1>1, <1>4, CpuAssumption, FreqRange DEF FreqMin, FreqMax

LEMMA ZonesInRange ==
  /\ WattMin \in Nat /\ WattMax \in Nat
  /\ \A z \in Zones : /\ ZoneMin[z] \in Nat /\ ZoneMax[z] \in Nat
                      /\ WattMin <= ZoneMin[z] /\ ZoneMin[z] < ZoneMax[z]
                      /\ ZoneMax[z] <= WattMax
<1>1. PICK m \in Zones : \A z \in Zones : ZoneMax[z] <= ZoneMax[m]
  BY ZoneAssumption, LargestOf DEF Zones
<1>2. Zones \in SUBSET Zones /\ Zones # {}
  BY Sizes
<1>3. /\ ZoneMin \in [Zones -> Nat] /\ ZoneMax \in [Zones -> Nat]
      /\ \A z \in Zones : ZoneMin[z] < ZoneMax[z]
  BY ZoneAssumption
<1>4. WattMin \in Nat /\ \A z \in Zones : WattMin <= ZoneMin[z]
  BY <1>2, <1>3, LowestOf DEF WattMin
<1>5. WattMax \in Nat /\ \A z \in Zones : ZoneMax[z] <= WattMax
  BY <1>1, <1>2, <1>3, HighestOf DEF WattMax
<1> QED BY <1>3, <1>4, <1>5

LEMMA RestoredStays ==
  ASSUME TypeOK, FullLoad, Restored,
         \/ TickBegins \/ Writes("daemon") \/ SetTurbo
         \/ UNCHANGED <<online, limit, watts, turbo, job>>
  PROVE  Restored'
<1>1. job \in [Actors -> Jobs] /\ "daemon" \in Actors /\ "row" \in Actors
  BY DEF TypeOK, Actors
<1>2. job["daemon"] \in Jobs /\ limit \in [Cores -> Nat]
  BY <1>1 DEF TypeOK
<1>3. online = Cores /\ watts = ZoneMax /\ turbo /\ job["row"] = NoJob
  BY DEF Restored
<1>4. CASE TickBegins
  <2>1. PICK mhz \in FreqTargets(FreqMin, FreqMax, load, level),
             w \in WattTargets(WattMin, WattMax, load, level) :
          job' = [job EXCEPT !["daemon"] =
                    [step |-> "watts", todo |-> Cores \ {0},
                     cores |-> CoreRamp(load, level), mhz |-> mhz, watts |-> w,
                     boost |-> TurboGate(load, level)]]
    BY <1>4 DEF TickBegins
  <2>2. mhz = FreqMax /\ CoreRamp(load, level) = NumCpus
    BY <1>3, FullRange, ScaleEnds DEF FullLoad
  <2>3. w = WattMax
    BY WattRange, ScaleEnds DEF FullLoad
  <2>4. /\ UNCHANGED <<online, limit, watts, turbo>>
        /\ job["daemon"] = NoJob
    BY <1>4 DEF TickBegins
  <2>5. limit = CpuMax
    BY <2>4, NoJobType DEF Restored
  <2>6. job'["row"] = NoJob /\ job'["daemon"].step = "watts"
    BY <1>1, <1>3, <2>1
  <2>7. AimsAt(job'["daemon"], NumCpus, FreqMax, WattMax, TRUE)
    <3>1. job'["daemon"] =
            [step |-> "watts", todo |-> Cores \ {0},
             cores |-> NumCpus, mhz |-> FreqMax, watts |-> WattMax,
             boost |-> TurboGate(load, level)]
      BY <1>1, <2>1, <2>2, <2>3
    <3>2. TurboGate(load, level) = TRUE
      BY DEF TurboGate, FullLoad
    <3> QED BY <3>1, <3>2 DEF AimsAt
  <2>8. FreqMax' = FreqMax /\ WattMax' = WattMax
    BY <2>4 DEF FreqMax, WattMax
  <2> QED BY <1>3, <2>4, <2>5, <2>6, <2>7, <2>8 DEF Restored
<1>5. CASE Writes("daemon")
  <2>1. job["daemon"] # NoJob
    BY <1>5, NoJobType DEF Writes, SetWatts, Switch, Inherit, SetLimit
  <2>2. AimsAt(job["daemon"], NumCpus, FreqMax, WattMax, TRUE)
    BY <2>1 DEF Restored
  <2>3. job'["row"] = NoJob /\ AimsAt(job'["daemon"], NumCpus, FreqMax, WattMax, TRUE)
    BY <1>3, <1>5, <2>2, TickKeepsAims
  <2>4. turbo' = turbo
    BY <1>5 DEF Writes, SetWatts, Switch, Inherit, SetLimit
  <2>5. online' = Cores /\ watts' = ZoneMax
        /\ (job'["daemon"].step = "limit" \/ limit' = CpuMax)
    <3>1. CASE SetWatts("daemon")
      <4>1. \A z \in Zones : Clamp(WattMax, ZoneMin[z], ZoneMax[z]) = ZoneMax[z]
        BY ZonesInRange DEF Clamp
      <4>2. watts' = [z \in Zones |-> ZoneMax[z]]
        BY <2>2, <3>1, <4>1 DEF SetWatts, AimsAt
      <4>3. watts' = ZoneMax
        BY <4>2, ZoneAssumption
      <4>4. limit = CpuMax
        BY <3>1 DEF SetWatts, Restored
      <4> QED BY <1>3, <3>1, <4>3, <4>4 DEF SetWatts
    <3>2. CASE Switch("daemon")
      <4>1. job["daemon"].todo \in SUBSET (Cores \ {0}) /\ job["daemon"].todo # {}
        BY <1>2, <3>2 DEF Jobs, Switch
      <4>2. Min(job["daemon"].todo) \in Cores
        BY <4>1, Sizes, Smallest
      <4>3. Min(job["daemon"].todo) < job["daemon"].cores
        BY <2>2, <4>2, CpuAssumption DEF AimsAt, Cores
      <4>4. online' = Cores
        BY <1>3, <3>2, <4>2, <4>3 DEF Switch
      <4>5. limit = CpuMax
        BY <3>2 DEF Switch, Restored
      <4> QED BY <1>3, <3>2, <4>4, <4>5 DEF Switch
    <3>3. CASE Inherit("daemon")
      <4>1. job' = [job EXCEPT !["daemon"] = [@ EXCEPT !.step = "limit"]]
        BY <3>3 DEF Inherit, Proceed
      <4>2. job'["daemon"].step = "limit"
        BY <1>1, <1>2, <4>1 DEF Jobs
      <4> QED BY <1>3, <3>3, <4>2 DEF Inherit
    <3>4. CASE SetLimit("daemon")
      <4>1. limit' = [c \in Cores |->
                        Clamp(Clamp(FreqMax, FreqMin, FreqMax), CpuMin[c], CpuMax[c])]
        BY <1>3, <2>2, <3>4 DEF SetLimit, SetFreqLimit, AimsAt
      <4>2. \A c \in Cores :
              Clamp(Clamp(FreqMax, FreqMin, FreqMax), CpuMin[c], CpuMax[c]) = CpuMax[c]
        BY <1>3, FullRange DEF Clamp
      <4>3. limit' = CpuMax
        BY <4>1, <4>2, CpuAssumption
      <4> QED BY <1>3, <3>4, <4>3 DEF SetLimit
    <3> QED BY <1>5, <3>1, <3>2, <3>3, <3>4 DEF Writes
  <2>6. FreqMax' = FreqMax /\ WattMax' = WattMax
    BY <1>3, <2>5 DEF FreqMax, WattMax
  <2> QED BY <1>3, <2>3, <2>4, <2>5, <2>6 DEF Restored
<1>6. CASE SetTurbo
  <2>1. job["daemon"] # NoJob /\ job["daemon"].step = "turbo"
    BY <1>6, NoJobType DEF SetTurbo
  <2>2. job["daemon"].boost = TRUE /\ limit = CpuMax
    BY <2>1 DEF Restored, AimsAt
  <2>3. /\ job' = [job EXCEPT !["daemon"] = NoJob]
        /\ turbo' = TRUE /\ UNCHANGED <<online, limit, watts>>
    BY <1>6, <2>2 DEF SetTurbo
  <2>4. job'["row"] = NoJob /\ job'["daemon"] = NoJob
    BY <1>1, <1>3, <2>3
  <2> QED BY <1>3, <2>2, <2>3, <2>4 DEF Restored
<1>7. CASE UNCHANGED <<online, limit, watts, turbo, job>>
  BY <1>7 DEF Restored, FreqMax, WattMax
<1> QED BY <1>4, <1>5, <1>6, <1>7

LEMMA SunkStays ==
  ASSUME TypeOK, NoLoad, Sunk,
         \/ TickBegins \/ Writes("daemon") \/ SetTurbo
         \/ UNCHANGED <<online, limit, watts, turbo, job>>
  PROVE  Sunk'
<1>1. job \in [Actors -> Jobs] /\ "daemon" \in Actors /\ "row" \in Actors
  BY DEF TypeOK, Actors
<1>2. job["daemon"] \in Jobs /\ limit \in [Cores -> Nat]
  BY <1>1 DEF TypeOK
<1>3. /\ online = {0} /\ limit[0] = CpuMin[0] /\ watts = ZoneMin /\ turbo = FALSE
      /\ job["row"] = NoJob /\ level \in Levels
  BY DEF Sunk, TypeOK
<1>4. /\ FreqMin = CpuMin[0] /\ FreqMin \in Nat /\ FreqMax \in Nat
      /\ FreqMin <= FreqMax /\ CpuMin[0] < CpuMax[0] /\ CpuMax[0] \in Nat
  <2>1. {0} \in SUBSET Cores /\ {0} # {} /\ 0 \in Cores
    BY Sizes
  <2>2. CpuMin \in [Cores -> Nat] /\ CpuMax \in [Cores -> Nat] /\ CpuMin[0] < CpuMax[0]
    BY <2>1, CpuAssumption
  <2>3. \E x \in {0} : Lowest(CpuMin, {0}) = CpuMin[x]
    BY <2>1, <2>2, LowestOf
  <2> QED BY <1>3, <2>1, <2>2, <2>3, FreqRange DEF FreqMin, FreqMax
<1>5. CASE TickBegins
  <2>1. PICK mhz \in FreqTargets(FreqMin, FreqMax, 0, level),
             w \in WattTargets(WattMin, WattMax, 0, level) :
          job' = [job EXCEPT !["daemon"] =
                    [step |-> "watts", todo |-> Cores \ {0},
                     cores |-> CoreRamp(0, level), mhz |-> mhz, watts |-> w,
                     boost |-> TurboGate(0, level)]]
    BY <1>5 DEF TickBegins, NoLoad
  <2>2. mhz = CpuMin[0] /\ CoreRamp(0, level) = 1
    BY <1>3, <1>4, ScaleStarts
  <2>3. w = WattMin
    BY <1>3, WattRange, ScaleStarts
  <2>4. UNCHANGED <<online, limit, watts, turbo>>
    BY <1>5 DEF TickBegins
  <2>5. job'["row"] = NoJob
    BY <1>1, <1>3, <2>1
  <2>6. AimsAt(job'["daemon"], 1, CpuMin[0], WattMin, FALSE)
    <3>1. job'["daemon"] =
            [step |-> "watts", todo |-> Cores \ {0},
             cores |-> 1, mhz |-> CpuMin[0], watts |-> WattMin,
             boost |-> TurboGate(0, level)]
      BY <1>1, <2>1, <2>2, <2>3
    <3>2. TurboGate(0, level) = FALSE
      BY <1>3, LevelAssumption DEF TurboGate
    <3> QED BY <3>1, <3>2 DEF AimsAt
  <2>7. WattMin' = WattMin
    BY DEF WattMin
  <2> QED BY <1>3, <2>4, <2>5, <2>6, <2>7 DEF Sunk
<1>6. CASE Writes("daemon")
  <2>1. job["daemon"] # NoJob
    BY <1>6, NoJobType DEF Writes, SetWatts, Switch, Inherit, SetLimit
  <2>2. AimsAt(job["daemon"], 1, CpuMin[0], WattMin, FALSE)
    BY <2>1 DEF Sunk
  <2>3. job'["row"] = NoJob /\ AimsAt(job'["daemon"], 1, CpuMin[0], WattMin, FALSE)
    BY <1>3, <1>6, <2>2, TickKeepsAims
  <2>4. turbo' = turbo
    BY <1>6 DEF Writes, SetWatts, Switch, Inherit, SetLimit
  <2>5. SetFreqLimit(CpuMin[0]) => limit'[0] = CpuMin[0]
    <3>1. Clamp(Clamp(CpuMin[0], FreqMin, FreqMax), CpuMin[0], CpuMax[0]) = CpuMin[0]
      BY <1>4 DEF Clamp
    <3> QED BY <1>3, <3>1, Sizes DEF SetFreqLimit
  <2>6. online' = {0} /\ watts' = ZoneMin /\ limit'[0] = CpuMin[0]
    <3>1. CASE SetWatts("daemon")
      <4>1. \A z \in Zones : Clamp(WattMin, ZoneMin[z], ZoneMax[z]) = ZoneMin[z]
        BY ZonesInRange DEF Clamp
      <4>2. watts' = [z \in Zones |-> ZoneMin[z]]
        BY <2>2, <3>1, <4>1 DEF SetWatts, AimsAt
      <4>3. watts' = ZoneMin
        BY <4>2, ZoneAssumption
      <4> QED BY <1>3, <3>1, <4>3 DEF SetWatts
    <3>2. CASE Switch("daemon")
      <4>1. job["daemon"].todo \in SUBSET (Cores \ {0}) /\ job["daemon"].todo # {}
        BY <1>2, <3>2 DEF Jobs, Switch
      <4>2. Min(job["daemon"].todo) \in Cores \ {0}
        BY <4>1, Sizes, Smallest
      <4>3. ~ (Min(job["daemon"].todo) < job["daemon"].cores)
        BY <2>2, <4>2, CpuAssumption DEF AimsAt, Cores
      <4>4. online' = {0}
        BY <1>3, <3>2, <4>2, <4>3 DEF Switch
      <4> QED BY <1>3, <3>2, <4>4 DEF Switch
    <3>3. CASE Inherit("daemon")
      BY <1>3, <2>5, <3>3 DEF Inherit
    <3>4. CASE SetLimit("daemon")
      BY <1>3, <2>2, <2>5, <3>4 DEF SetLimit, AimsAt
    <3> QED BY <1>6, <3>1, <3>2, <3>3, <3>4 DEF Writes
  <2>7. WattMin' = WattMin
    BY DEF WattMin
  <2> QED BY <1>3, <2>3, <2>4, <2>6, <2>7 DEF Sunk
<1>7. CASE SetTurbo
  <2>1. job["daemon"] # NoJob
    BY <1>7, NoJobType DEF SetTurbo
  <2>2. job["daemon"].boost = FALSE
    BY <2>1 DEF Sunk, AimsAt
  <2>3. /\ job' = [job EXCEPT !["daemon"] = NoJob]
        /\ turbo' = FALSE /\ UNCHANGED <<online, limit, watts>>
    BY <1>7, <2>2 DEF SetTurbo
  <2>4. job'["row"] = NoJob /\ job'["daemon"] = NoJob
    BY <1>1, <1>3, <2>3
  <2> QED BY <1>3, <2>3, <2>4 DEF Sunk
<1>8. CASE UNCHANGED <<online, limit, watts, turbo, job>>
  BY <1>8 DEF Sunk, WattMin
<1> QED BY <1>5, <1>6, <1>7, <1>8

(* A machine under full load at level low that has everything back loses
   nothing of it again, tick after tick, as long as nobody interferes: no core
   goes off, no zone and no core is lowered (but for the moment in which the
   cores have inherited cpu0's limit), however the cores differ. *)
THEOREM PowerStays ==
  Spec => [](Restored /\ []FullLoad /\ [][~Interference]_vars => []Restored)
<1>1. TypeOK /\ FullLoad /\ Restored /\ [Next]_vars /\ [~Interference]_vars
        => Restored'
  BY CalmStep, RestoredStays DEF Restored
<1> QED BY <1>1, TypeCorrect, PTL DEF Spec

(* An idle machine that has sunk to one core at its minimum stays there, even
   if the level changes, as long as it is idle and nobody interferes. *)
THEOREM IdleStays ==
  Spec => [](Sunk /\ []NoLoad /\ [][~Interference]_vars => []Sunk)
<1>1. TypeOK /\ NoLoad /\ Sunk /\ [Next]_vars /\ [~Interference]_vars
        => Sunk'
  BY CalmStep, SunkStays DEF Sunk
<1> QED BY <1>1, TypeCorrect, PTL DEF Spec

-----------------------------------------------------------------------------
(* What a tick that is not disturbed leaves.                               *)

First(n) == {c \in Cores : c < n}
Within(w) == [z \in Zones |-> Clamp(w, ZoneMin[z], ZoneMax[z])]
Slowed(mhz) ==
  \A c \in online : limit[c] = Clamp(Clamp(mhz, FreqMin, FreqMax), CpuMin[c], CpuMax[c])

(* What the tick has already brought about at each of its steps. *)
Arriving ==
  LET j == job["daemon"] IN
  /\ j.step = "watts" => j.todo = Cores \ {0}
  /\ j.step \in {"cores", "limit", "turbo"} => watts = Within(j.watts)
  /\ j.step = "cores" => \A c \in Cores \ j.todo : c \in online <=> c < j.cores
  /\ j.step \in {"limit", "turbo"} => online = First(j.cores)
  /\ j.step = "turbo" => Slowed(j.mhz)

LEMMA SwitchArrives ==
  ASSUME IInv, Arriving, Switch("daemon")
  PROVE  Arriving'
<1> DEFINE j == job["daemon"]
           c == Min(j.todo)
<1>1. job \in [Actors -> Jobs] /\ "daemon" \in Actors /\ online \in SUBSET Cores
  BY DEF IInv, TypeOK, Actors
<1>2. j \in Jobs /\ j.step = "cores"
  BY <1>1 DEF Switch
<1>3. j.todo \in SUBSET (Cores \ {0}) /\ j.todo # {}
  BY <1>2 DEF Jobs, Switch
<1>4. c \in j.todo /\ c \in Cores
  BY <1>3, Sizes, Smallest
<1>5. job' = [job EXCEPT !["daemon"].todo = @ \ {c}]
  BY DEF Switch
<1>6. job'["daemon"] = [j EXCEPT !.todo = j.todo \ {c}]
  BY <1>1, <1>5
<1>7. /\ job'["daemon"].step = "cores" /\ job'["daemon"].todo = j.todo \ {c}
      /\ job'["daemon"].cores = j.cores /\ job'["daemon"].watts = j.watts
  BY <1>2, <1>6 DEF Jobs
<1>8. watts' = Within(j.watts)
  BY <1>2 DEF Switch, Arriving
<1>9. \A d \in Cores \ j.todo : d \in online <=> d < j.cores
  BY <1>2 DEF Arriving
<1>10. online' = IF c < j.cores THEN online \cup {c} ELSE online \ {c}
  BY DEF Switch
<1> HIDE DEF c, j
<1>11. \A d \in Cores \ (j.todo \ {c}) : d \in online' <=> d < j.cores
  BY <1>4, <1>9, <1>10
<1> QED BY <1>7, <1>8, <1>11 DEF Arriving, Within

LEMMA WriteArrives ==
  ASSUME IInv, Arriving, Writes("daemon")
  PROVE  Arriving'
<1> DEFINE j == job["daemon"]
<1>1. /\ job \in [Actors -> Jobs] /\ "daemon" \in Actors
      /\ online \in SUBSET Cores /\ 0 \in online
  BY DEF IInv, TypeOK, Actors
<1>2. j \in Jobs
  BY <1>1
<1>3. ASSUME NEW step \in {"cores", "limit", "turbo"}, Proceed("daemon", step)
      PROVE  /\ job'["daemon"].step = step
             /\ job'["daemon"].todo = j.todo /\ job'["daemon"].cores = j.cores
             /\ job'["daemon"].mhz = j.mhz /\ job'["daemon"].watts = j.watts
  <2>1. job' = [job EXCEPT !["daemon"] = [@ EXCEPT !.step = step]]
    BY <1>3 DEF Proceed
  <2>2. job'["daemon"] = [j EXCEPT !.step = step]
    BY <1>1, <2>1
  <2> QED BY <1>2, <2>2 DEF Jobs
<1>4. CASE SetWatts("daemon")
  <2>1. /\ job'["daemon"].step = "cores"
        /\ job'["daemon"].todo = j.todo /\ job'["daemon"].cores = j.cores
        /\ job'["daemon"].watts = j.watts
    BY <1>3, <1>4 DEF SetWatts
  <2>2. watts' = Within(j.watts) /\ online' = online
    BY <1>4 DEF SetWatts, Within
  <2>3. j.todo = Cores \ {0}
    BY <1>4 DEF SetWatts, Arriving
  <2>4. j.cores \in 1 .. NumCpus
    BY <1>4, NoJobType DEF SetWatts, IInv, AimsInRange
  <2>5. \A c \in Cores \ j.todo : c \in online <=> c < j.cores
    BY <1>1, <2>3, <2>4, CpuAssumption
  <2> HIDE DEF j
  <2> QED BY <2>1, <2>2, <2>5 DEF Arriving, Within
<1>5. CASE Switch("daemon")
  BY <1>5, SwitchArrives
<1>6. CASE Inherit("daemon")
  <2>1. /\ job'["daemon"].step = "limit"
        /\ job'["daemon"].cores = j.cores /\ job'["daemon"].watts = j.watts
    BY <1>3, <1>6 DEF Inherit
  <2>2. watts' = watts /\ online' = online /\ j.step = "cores" /\ j.todo = {}
    BY <1>6 DEF Inherit
  <2>3. watts = Within(j.watts) /\ \A c \in Cores : c \in online <=> c < j.cores
    BY <2>2 DEF Arriving
  <2>4. online = First(j.cores)
    BY <1>1, <2>3 DEF First
  <2> HIDE DEF j
  <2> QED BY <2>1, <2>2, <2>3, <2>4 DEF Arriving, Within, First
<1>7. CASE SetLimit("daemon")
  <2>1. /\ job'["daemon"].step = "turbo" /\ job'["daemon"].mhz = j.mhz
        /\ job'["daemon"].cores = j.cores /\ job'["daemon"].watts = j.watts
    BY <1>3, <1>7 DEF SetLimit
  <2>2. watts' = watts /\ online' = online /\ j.step = "limit"
    BY <1>7 DEF SetLimit
  <2>3. watts = Within(j.watts) /\ online = First(j.cores)
    BY <2>2 DEF Arriving
  <2>4. Slowed(j.mhz)'
    <3>1. \A c \in online :
            limit'[c] = Clamp(Clamp(j.mhz, FreqMin, FreqMax), CpuMin[c], CpuMax[c])
      BY <1>1, <1>7 DEF SetLimit, SetFreqLimit
    <3>2. job'["daemon"].mhz = job["daemon"].mhz
      BY <2>1
    <3> QED BY <2>2, <3>1, <3>2 DEF Slowed, FreqMin, FreqMax
  <2> QED BY <2>1, <2>2, <2>3, <2>4 DEF Arriving, Within, First, Slowed, FreqMin, FreqMax
<1> QED BY <1>4, <1>5, <1>6, <1>7 DEF Writes

LEMMA ArrivingStays ==
  ASSUME IInv, Arriving, [Next]_vars, job["row"] = NoJob
  PROVE  Arriving'
<1>1. job \in [Actors -> Jobs] /\ "daemon" \in Actors /\ "row" \in Actors
  BY DEF IInv, TypeOK, Actors
<1>2. ~ Writes("row")
  BY NoJobType DEF Writes, SetWatts, Switch, Inherit, SetLimit
<1>3. job'["daemon"] = NoJob => Arriving'
  BY NoJobType DEF Arriving
<1>4. SetTurbo \/ Crash => job'["daemon"] = NoJob
  BY <1>1 DEF SetTurbo, Crash
<1>5. TickBegins => Arriving'
  <2> SUFFICES ASSUME TickBegins PROVE Arriving'
    OBVIOUS
  <2>1. job'["daemon"].step = "watts" /\ job'["daemon"].todo = Cores \ {0}
    BY <1>1 DEF TickBegins
  <2> QED BY <2>1 DEF Arriving
<1>6. job'["daemon"] = job["daemon"] /\ UNCHANGED <<online, limit, watts>> => Arriving'
  BY DEF Arriving, Slowed, Within, First, FreqMin, FreqMax
<1>7. RowCores \/ RowFreq \/ LoadChanges \/ LevelChanges \/ UNCHANGED vars =>
        job'["daemon"] = job["daemon"] /\ UNCHANGED <<online, limit, watts>>
  BY <1>1 DEF RowCores, RowFreq, RowBegins, LoadChanges, LevelChanges, vars
<1> QED BY <1>2, <1>3, <1>4, <1>5, <1>6, <1>7, WriteArrives DEF Next, Daemon

Arrived ==
  LET j == job["daemon"] IN
  online = First(j.cores) /\ watts = Within(j.watts) /\ Slowed(j.mhz)

(* A tick that no row disturbs ends with what it aimed for: before the last
   write, of turbo, exactly the first cores are online, every zone is at the
   watts within its range and every core online at the frequency within its own,
   whatever earlier ticks, killed half-way, have left, and whatever load and
   level do meanwhile (daemon.rs apply_logic_step). *)
THEOREM TickArrives ==
  Spec => [](job["daemon"] = NoJob /\ [](job["row"] = NoJob)
              => [](job["daemon"].step = "turbo" => Arrived))
<1>1. job["daemon"] = NoJob => Arriving
  BY NoJobType DEF Arriving
<1>2. IInv /\ Arriving /\ [Next]_vars /\ job["row"] = NoJob => Arriving'
  BY ArrivingStays
<1>3. Arriving => (job["daemon"].step = "turbo" => Arrived)
  BY DEF Arriving, Arrived
<1> QED BY <1>1, <1>2, <1>3, InitIInv, NextIInv, PTL DEF Spec

(* The first tick under full load, and the next. *)
Lifting ==
  /\ Arriving
  /\ job["daemon"] # NoJob =>
       /\ job["daemon"].cores = NumCpus /\ job["daemon"].watts = WattMax
       /\ job["daemon"].boost = TRUE

Restoring ==
  /\ Lifting /\ online = Cores
  /\ job["daemon"] # NoJob => job["daemon"].mhz = FreqMax

LEMMA FirstAll == First(NumCpus) = Cores
BY CpuAssumption DEF First, Cores

LEMMA WithinTop == Within(WattMax) = ZoneMax
<1>1. \A z \in Zones : Clamp(WattMax, ZoneMin[z], ZoneMax[z]) = ZoneMax[z]
  BY ZonesInRange DEF Clamp
<1>2. Within(WattMax) = [z \in Zones |-> ZoneMax[z]]
  BY <1>1 DEF Within
<1> QED BY <1>2, ZoneAssumption

LEMMA LiftingStays ==
  ASSUME IInv, Lifting, [Next]_vars, job["row"] = NoJob, FullLoad
  PROVE  Lifting'
<1>1. job \in [Actors -> Jobs] /\ "daemon" \in Actors /\ "row" \in Actors
  BY DEF IInv, TypeOK, Actors
<1>2. ~ Writes("row")
  BY NoJobType DEF Writes, SetWatts, Switch, Inherit, SetLimit
<1>3. Arriving'
  BY ArrivingStays DEF Lifting
<1>4. WattMax' = WattMax
  BY DEF WattMax
<1>5. job'["daemon"] = NoJob \/ job'["daemon"] = job["daemon"] => Lifting'
  BY <1>3, <1>4 DEF Lifting
<1>6. SetTurbo \/ Crash => job'["daemon"] = NoJob
  BY <1>1 DEF SetTurbo, Crash
<1>7. RowCores \/ RowFreq \/ LoadChanges \/ LevelChanges \/ UNCHANGED vars =>
        job'["daemon"] = job["daemon"]
  BY <1>1 DEF RowCores, RowFreq, RowBegins, LoadChanges, LevelChanges, vars
<1>8. CASE TickBegins
  <2>1. PICK mhz \in FreqTargets(FreqMin, FreqMax, load, level),
             w \in WattTargets(WattMin, WattMax, load, level) :
          job' = [job EXCEPT !["daemon"] =
                    [step |-> "watts", todo |-> Cores \ {0},
                     cores |-> CoreRamp(load, level), mhz |-> mhz, watts |-> w,
                     boost |-> TurboGate(load, level)]]
    BY <1>8 DEF TickBegins
  <2>2. w = WattMax /\ CoreRamp(load, level) = NumCpus
    BY WattRange, ScaleEnds DEF FullLoad
  <2>3. TurboGate(load, level) = TRUE
    BY DEF TurboGate, FullLoad
  <2> QED BY <1>1, <1>3, <1>4, <2>1, <2>2, <2>3 DEF Lifting
<1>9. CASE Writes("daemon")
  <2>1. job["daemon"] # NoJob
    BY <1>9, NoJobType DEF Writes, SetWatts, Switch, Inherit, SetLimit
  <2>2. AimsAt(job["daemon"], NumCpus, job["daemon"].mhz, WattMax, TRUE)
    BY <2>1 DEF Lifting, AimsAt
  <2>3. AimsAt(job'["daemon"], NumCpus, job["daemon"].mhz, WattMax, TRUE)
    BY <1>9, <2>2, TickKeepsAims DEF IInv
  <2> QED BY <1>3, <1>4, <2>3 DEF Lifting, AimsAt
<1> QED BY <1>2, <1>5, <1>6, <1>7, <1>8, <1>9 DEF Next, Daemon

LEMMA RestoringStays ==
  ASSUME IInv, Restoring, [Next]_vars, job["row"] = NoJob, FullLoad
  PROVE  Restoring'
<1>1. job \in [Actors -> Jobs] /\ "daemon" \in Actors /\ "row" \in Actors
  BY DEF IInv, TypeOK, Actors
<1>2. ~ Writes("row")
  BY NoJobType DEF Writes, SetWatts, Switch, Inherit, SetLimit
<1>3. Lifting' /\ online = Cores
  BY LiftingStays DEF Restoring
<1>4. online' = Cores => FreqMax' = FreqMax
  BY <1>3 DEF FreqMax
<1>5. /\ job'["daemon"] = NoJob \/ job'["daemon"] = job["daemon"]
      /\ online' = online
      => Restoring'
  BY <1>3, <1>4 DEF Restoring
<1>6. SetTurbo \/ Crash => job'["daemon"] = NoJob /\ online' = online
  BY <1>1 DEF SetTurbo, Crash
<1>7. RowCores \/ RowFreq \/ LoadChanges \/ LevelChanges \/ UNCHANGED vars =>
        job'["daemon"] = job["daemon"] /\ online' = online
  BY <1>1 DEF RowCores, RowFreq, RowBegins, LoadChanges, LevelChanges, vars
<1>8. CASE TickBegins
  <2>1. PICK mhz \in FreqTargets(FreqMin, FreqMax, load, level),
             w \in WattTargets(WattMin, WattMax, load, level) :
          job' = [job EXCEPT !["daemon"] =
                    [step |-> "watts", todo |-> Cores \ {0},
                     cores |-> CoreRamp(load, level), mhz |-> mhz, watts |-> w,
                     boost |-> TurboGate(load, level)]]
    BY <1>8 DEF TickBegins
  <2>2. mhz = FreqMax
    BY <1>3, FullRange, ScaleEnds DEF FullLoad
  <2>3. online' = Cores
    BY <1>3, <1>8 DEF TickBegins
  <2>4. job'["daemon"].mhz = FreqMax
    BY <1>1, <2>1, <2>2
  <2> QED BY <1>3, <1>4, <2>3, <2>4 DEF Restoring
<1>9. CASE Writes("daemon")
  <2>1. job["daemon"] # NoJob
    BY <1>9, NoJobType DEF Writes, SetWatts, Switch, Inherit, SetLimit
  <2>2. AimsAt(job["daemon"], NumCpus, FreqMax, WattMax, TRUE)
    BY <2>1 DEF Restoring, Lifting, AimsAt
  <2>3. AimsAt(job'["daemon"], NumCpus, FreqMax, WattMax, TRUE)
    BY <1>9, <2>2, TickKeepsAims DEF IInv
  <2>4. online' = Cores
    <3>1. CASE Switch("daemon")
      <4>1. job["daemon"] \in Jobs
        BY <1>1
      <4>2. job["daemon"].todo \in SUBSET (Cores \ {0}) /\ job["daemon"].todo # {}
        BY <3>1, <4>1 DEF Jobs, Switch
      <4>3. Min(job["daemon"].todo) \in Cores
        BY <4>2, Sizes, Smallest
      <4>4. Min(job["daemon"].todo) < job["daemon"].cores
        BY <2>2, <4>3, CpuAssumption DEF AimsAt, Cores
      <4> QED BY <1>3, <3>1, <4>3, <4>4 DEF Switch
    <3> QED BY <1>3, <1>9, <3>1 DEF Writes, SetWatts, Inherit, SetLimit
  <2> QED BY <1>3, <1>4, <2>3, <2>4 DEF Restoring, AimsAt
<1> QED BY <1>2, <1>5, <1>6, <1>7, <1>8, <1>9 DEF Next, Daemon

LEMMA LiftingEnds ==
  ASSUME IInv, Lifting, SetTurbo, job["row"] = NoJob
  PROVE  /\ online' = Cores /\ watts' = ZoneMax /\ turbo'
         /\ Restoring => Restored'
<1>1. job \in [Actors -> Jobs] /\ "daemon" \in Actors /\ "row" \in Actors
  BY DEF IInv, TypeOK, Actors
<1>2. job["daemon"].step = "turbo" /\ job["daemon"] # NoJob
  BY NoJobType DEF SetTurbo
<1>3. /\ job["daemon"].cores = NumCpus /\ job["daemon"].watts = WattMax
      /\ job["daemon"].boost = TRUE /\ Arriving
  BY <1>2 DEF Lifting
<1>4. online = Cores /\ watts = ZoneMax
  BY <1>2, <1>3, FirstAll, WithinTop DEF Arriving
<1>5. /\ UNCHANGED <<online, limit, watts>> /\ turbo' = TRUE
      /\ job'["daemon"] = NoJob /\ job'["row"] = NoJob
  BY <1>1, <1>3 DEF SetTurbo
<1>6. Restoring => limit' = CpuMax
  <2> SUFFICES ASSUME Restoring PROVE limit = CpuMax
    BY <1>5
  <2>1. \A c \in Cores :
          limit[c] = Clamp(Clamp(FreqMax, FreqMin, FreqMax), CpuMin[c], CpuMax[c])
    BY <1>2, <1>4 DEF Restoring, Lifting, Arriving, Slowed
  <2>2. \A c \in Cores :
          Clamp(Clamp(FreqMax, FreqMin, FreqMax), CpuMin[c], CpuMax[c]) = CpuMax[c]
    BY <1>4, FullRange DEF Clamp
  <2>3. limit \in [Cores -> Nat] /\ CpuMax \in [Cores -> Nat]
    BY CpuAssumption DEF IInv, TypeOK
  <2> QED BY <2>1, <2>2, <2>3
<1> QED BY <1>4, <1>5, <1>6 DEF Restored

(* From whatever rows and half-done ticks have left, the first whole tick under
   full load at level low brings back every core, the zones and turbo, ... *)
THEOREM FirstTickLifts ==
  Spec => [](job["daemon"] = NoJob /\ []FullLoad /\ [](job["row"] = NoJob)
              => [][SetTurbo => online' = Cores /\ watts' = ZoneMax /\ turbo']_vars)
<1>1. job["daemon"] = NoJob => Lifting
  BY NoJobType DEF Lifting, Arriving
<1>2. IInv /\ Lifting /\ [Next]_vars /\ job["row"] = NoJob /\ FullLoad => Lifting'
  BY LiftingStays
<1>3. IInv /\ Lifting /\ job["row"] = NoJob
        => [SetTurbo => online' = Cores /\ watts' = ZoneMax /\ turbo']_vars
  BY LiftingEnds
<1> QED BY <1>1, <1>2, <1>3, InitIInv, NextIInv, PTL DEF Spec

(* ... and the second the frequencies: the range it aims at is the one
   discovered over the cores that are online when it begins. *)
THEOREM SecondTickRestores ==
  Spec => []((/\ job["daemon"] = NoJob /\ online = Cores
              /\ []FullLoad /\ [](job["row"] = NoJob))
             => [][SetTurbo => Restored']_vars)
<1>1. job["daemon"] = NoJob /\ online = Cores => Restoring
  BY NoJobType DEF Restoring, Lifting, Arriving
<1>2. IInv /\ Restoring /\ [Next]_vars /\ job["row"] = NoJob /\ FullLoad => Restoring'
  BY RestoringStays
<1>3. IInv /\ Restoring /\ job["row"] = NoJob => [SetTurbo => Restored']_vars
  BY LiftingEnds DEF Restoring
<1> QED BY <1>1, <1>2, <1>3, InitIInv, NextIInv, PTL DEF Spec

(* A tick of an idle machine, from wherever rows and half-done ticks have put
   it: the range it discovers begins no higher than cpu0's. *)
Sinking ==
  /\ Arriving
  /\ job["daemon"] # NoJob =>
       /\ job["daemon"].cores = 1 /\ job["daemon"].watts = WattMin
       /\ job["daemon"].boost = FALSE /\ job["daemon"].mhz <= CpuMin[0]

LEMMA FirstOne == First(1) = {0}
BY CpuAssumption DEF First, Cores

LEMMA WithinBottom == Within(WattMin) = ZoneMin
<1>1. \A z \in Zones : Clamp(WattMin, ZoneMin[z], ZoneMax[z]) = ZoneMin[z]
  BY ZonesInRange DEF Clamp
<1>2. Within(WattMin) = [z \in Zones |-> ZoneMin[z]]
  BY <1>1 DEF Within
<1> QED BY <1>2, ZoneAssumption

LEMMA LowestOnline ==
  ASSUME TypeOK
  PROVE  /\ FreqMin \in Nat /\ FreqMax \in Nat /\ FreqMin <= FreqMax
         /\ CpuMin[0] \in Nat /\ FreqMin <= CpuMin[0]
<1>1. online \in SUBSET Cores /\ online # {} /\ 0 \in online
  BY DEF TypeOK
<1>2. CpuMin \in [Cores -> Nat]
  BY CpuAssumption
<1>3. FreqMin <= CpuMin[0]
  BY <1>1, <1>2, LowestOf DEF FreqMin
<1> QED BY <1>1, <1>2, <1>3, FreqRange, Sizes DEF FreqMin, FreqMax

LEMMA SinkingStays ==
  ASSUME IInv, Sinking, [Next]_vars, job["row"] = NoJob, NoLoad
  PROVE  Sinking'
<1>1. job \in [Actors -> Jobs] /\ "daemon" \in Actors /\ "row" \in Actors
  BY DEF IInv, TypeOK, Actors
<1>2. ~ Writes("row")
  BY NoJobType DEF Writes, SetWatts, Switch, Inherit, SetLimit
<1>3. Arriving'
  BY ArrivingStays DEF Sinking
<1>4. WattMin' = WattMin
  BY DEF WattMin
<1>5. job'["daemon"] = NoJob \/ job'["daemon"] = job["daemon"] => Sinking'
  BY <1>3, <1>4 DEF Sinking
<1>6. SetTurbo \/ Crash => job'["daemon"] = NoJob
  BY <1>1 DEF SetTurbo, Crash
<1>7. RowCores \/ RowFreq \/ LoadChanges \/ LevelChanges \/ UNCHANGED vars =>
        job'["daemon"] = job["daemon"]
  BY <1>1 DEF RowCores, RowFreq, RowBegins, LoadChanges, LevelChanges, vars
<1>8. CASE TickBegins
  <2>1. PICK mhz \in FreqTargets(FreqMin, FreqMax, 0, level),
             w \in WattTargets(WattMin, WattMax, 0, level) :
          job' = [job EXCEPT !["daemon"] =
                    [step |-> "watts", todo |-> Cores \ {0},
                     cores |-> CoreRamp(0, level), mhz |-> mhz, watts |-> w,
                     boost |-> TurboGate(0, level)]]
    BY <1>8 DEF TickBegins, NoLoad
  <2>2. TypeOK /\ level \in Levels
    BY DEF IInv, TypeOK
  <2>3. w = WattMin /\ CoreRamp(0, level) = 1
    BY <2>2, WattRange, ScaleStarts
  <2>4. mhz <= CpuMin[0]
    BY <2>2, LowestOnline, ScaleStarts
  <2>5. TurboGate(0, level) = FALSE
    BY <2>2, LevelAssumption DEF TurboGate
  <2>6. job'["daemon"] =
          [step |-> "watts", todo |-> Cores \ {0},
           cores |-> 1, mhz |-> mhz, watts |-> WattMin, boost |-> FALSE]
    BY <1>1, <2>1, <2>3, <2>5
  <2> QED BY <1>3, <1>4, <2>4, <2>6 DEF Sinking
<1>9. CASE Writes("daemon")
  <2>1. job["daemon"] # NoJob
    BY <1>9, NoJobType DEF Writes, SetWatts, Switch, Inherit, SetLimit
  <2>2. AimsAt(job["daemon"], 1, job["daemon"].mhz, WattMin, FALSE)
    BY <2>1 DEF Sinking, AimsAt
  <2>3. AimsAt(job'["daemon"], 1, job["daemon"].mhz, WattMin, FALSE)
    BY <1>9, <2>2, TickKeepsAims DEF IInv
  <2>4. job["daemon"].mhz <= CpuMin[0]
    BY <2>1 DEF Sinking
  <2> QED BY <1>3, <1>4, <2>3, <2>4 DEF Sinking, AimsAt
<1> QED BY <1>2, <1>5, <1>6, <1>7, <1>8, <1>9 DEF Next, Daemon

LEMMA SinkingEnds ==
  ASSUME IInv, Sinking, SetTurbo, job["row"] = NoJob
  PROVE  Sunk'
<1>1. job \in [Actors -> Jobs] /\ "daemon" \in Actors /\ "row" \in Actors
  BY DEF IInv, TypeOK, Actors
<1>2. job["daemon"].step = "turbo" /\ job["daemon"] # NoJob
  BY NoJobType DEF SetTurbo
<1>3. /\ job["daemon"].cores = 1 /\ job["daemon"].watts = WattMin
      /\ job["daemon"].boost = FALSE /\ job["daemon"].mhz <= CpuMin[0] /\ Arriving
  BY <1>2 DEF Sinking
<1>4. online = {0} /\ watts = ZoneMin
  BY <1>2, <1>3, FirstOne, WithinBottom DEF Arriving
<1>5. limit[0] = CpuMin[0]
  <2> DEFINE mhz == job["daemon"].mhz
  <2>1. limit[0] = Clamp(Clamp(mhz, FreqMin, FreqMax), CpuMin[0], CpuMax[0])
    BY <1>2, <1>3, <1>4 DEF Arriving, Slowed
  <2>2. /\ FreqMin \in Nat /\ FreqMax \in Nat /\ FreqMin <= FreqMax
        /\ CpuMin[0] \in Nat /\ FreqMin <= CpuMin[0]
    BY LowestOnline DEF IInv
  <2>3. CpuMax[0] \in Nat /\ CpuMin[0] < CpuMax[0]
    BY Sizes, CpuAssumption
  <2>4. mhz \in Nat
    BY <1>1 DEF Jobs
  <2>5. mhz <= CpuMin[0]
    BY <1>3
  <2> HIDE DEF mhz
  <2> QED BY <2>1, <2>2, <2>3, <2>4, <2>5 DEF Clamp
<1>6. /\ UNCHANGED <<online, limit, watts>> /\ turbo' = FALSE
      /\ job'["daemon"] = NoJob /\ job'["row"] = NoJob
  BY <1>1, <1>3 DEF SetTurbo
<1> QED BY <1>4, <1>5, <1>6 DEF Sunk

(* On the way down one whole tick is enough: whatever was online and however
   fast, an idle machine is left with cpu0 at its minimum, the zones at theirs
   and no turbo, at every level. *)
THEOREM FirstTickSinks ==
  Spec => [](job["daemon"] = NoJob /\ []NoLoad /\ [](job["row"] = NoJob)
              => [][SetTurbo => Sunk']_vars)
<1>1. job["daemon"] = NoJob => Sinking
  BY NoJobType DEF Sinking, Arriving
<1>2. IInv /\ Sinking /\ [Next]_vars /\ job["row"] = NoJob /\ NoLoad => Sinking'
  BY SinkingStays
<1>3. IInv /\ Sinking /\ job["row"] = NoJob => [SetTurbo => Sunk']_vars
  BY SinkingEnds
<1> QED BY <1>1, <1>2, <1>3, InitIInv, NextIInv, PTL DEF Spec

-----------------------------------------------------------------------------
(* The backlight.  Arithmetic of raw levels and percentages.               *)

LEMMA Product ==
  ASSUME NEW a \in Nat, NEW b \in Nat, NEW m \in Nat, a <= b
  PROVE  a * m \in Nat /\ b * m \in Nat /\ a * m <= b * m
<1>1. a * m \in Nat /\ b * m \in Nat /\ (b - a) * m \in Nat
  <2>1. b - a \in Nat
    OBVIOUS
  <2> QED BY <2>1
<1>2. b * m = a * m + (b - a) * m
  OBVIOUS
<1> QED BY <1>1, <1>2

LEMMA Quotient ==
  ASSUME NEW a \in Nat, NEW m \in Nat \ {0}
  PROVE  /\ a \div m \in Nat
         /\ (a \div m) * m \in Nat
         /\ (a \div m) * m <= a /\ a < (a \div m) * m + m
<1>1. a = m * (a \div m) + (a % m) /\ a % m \in 0 .. m - 1 /\ a \div m \in Nat
  OBVIOUS
<1>2. m * (a \div m) = (a \div m) * m /\ (a \div m) * m \in Nat
  BY <1>1
<1> QED BY <1>1, <1>2

-----------------------------------------------------------------------------
(* Whatever percentage is asked for, the raw level is one of the device's.  *)
LEMMA RawInRange ==
  ASSUME B!Sensible, NEW p \in Int
  PROVE  /\ B!Raw(p) \in 0 .. MaxRaw
         /\ B!Written(p) \subseteq 0 .. MaxRaw
<1> DEFINE q == B!Percentage(p)
           x == q * MaxRaw
<1>1. q \in 1 .. 100
  BY DEF B!Percentage
<1>2. x \in Nat /\ x <= 100 * MaxRaw /\ MaxRaw \in Nat
  BY <1>1, Product DEF B!Sensible
<1>3. x \div 100 \in 0 .. MaxRaw /\ (x + 50) \div 100 \in 0 .. MaxRaw
  <2> HIDE DEF x
  <2> QED BY <1>2
<1> QED BY <1>3 DEF B!Raw, B!Written

(* What is read back of a level below the highest. *)
LEMMA PercentBelow ==
  ASSUME B!Sensible, NEW r \in Nat, r < MaxRaw
  PROVE  /\ B!Percent(r) \in 0 .. 99
         /\ B!Percent(r) * MaxRaw \in Nat
         /\ B!Percent(r) * MaxRaw <= 100 * r
         /\ 100 * r < B!Percent(r) * MaxRaw + MaxRaw
<1> DEFINE p == B!Percent(r)
<1>1. /\ p \in Nat /\ p * MaxRaw \in Nat
      /\ p * MaxRaw <= 100 * r /\ 100 * r < p * MaxRaw + MaxRaw
  <2>1. r * 100 \in Nat /\ r * 100 = 100 * r
    OBVIOUS
  <2> QED BY <2>1, Quotient DEF B!Percent, B!Sensible
<1>2. ~ (p >= 100)
  <2> SUFFICES ASSUME p >= 100 PROVE FALSE
    OBVIOUS
  <2>1. 100 * MaxRaw <= p * MaxRaw
    BY <1>1, Product DEF B!Sensible
  <2> HIDE DEF p
  <2> QED BY <1>1, <2>1 DEF B!Sensible
<1> QED BY <1>1, <1>2

(* One press of Right from any level but the highest makes the screen brighter,
   if the device has 25 levels or more. *)
LEMMA StepUpRaises ==
  ASSUME B!Sensible, MaxRaw >= 25, NEW r \in 0 .. MaxRaw, r < MaxRaw
  PROVE  B!Raw(B!StepUp(r)) > r
<1> DEFINE p == B!Percent(r)
           x == p * MaxRaw
<1>0. r \in Nat /\ MaxRaw \in Nat
  BY DEF B!Sensible
<1>1. p \in 0 .. 99 /\ x \in Nat /\ x <= 100 * r /\ 100 * r < x + MaxRaw
  BY <1>0, PercentBelow
<1>2. CASE p + 5 > 100
  <2>1. B!StepUp(r) = 100
    BY <1>1, <1>2 DEF B!StepUp, B!Percentage
  <2>2. B!Raw(100) = (100 * MaxRaw) \div 100
    BY DEF B!Raw, B!Percentage
  <2> QED BY <1>0, <2>1, <2>2
<1>3. CASE p + 5 <= 100
  <2>1. B!StepUp(r) = p + 5
    BY <1>1, <1>3 DEF B!StepUp, B!Percentage
  <2>2. B!Raw(p + 5) = ((p + 5) * MaxRaw) \div 100
    BY <1>1, <1>3 DEF B!Raw, B!Percentage
  <2>3. (p + 5) * MaxRaw = x + 5 * MaxRaw
    BY <1>0, <1>1
  <2>4. (x + 5 * MaxRaw) \div 100 > r
    <3> HIDE DEF x
    <3> QED BY <1>0, <1>1
  <2> QED BY <2>1, <2>2, <2>3, <2>4
<1> QED BY <1>1, <1>2, <1>3

-----------------------------------------------------------------------------
(* Types.                                                                  *)

LEMMA TargetRange ==
  ASSUME B!Sensible, NEW c \in Classes \cup {"terminal"}, NEW l \in Levels
  PROVE  B!Target(c, l) \in 1 .. 100
BY DEF B!Target, B!Sensible

(* Only an open dashboard adjusts. *)
BacklightInv == B!TypeOK /\ (adjusted => dash # Closed)

LEMMA BacklightInit ==
  ASSUME B!Sensible
  PROVE  B!Init => BacklightInv
<1> SUFFICES ASSUME B!Init PROVE BacklightInv
  OBVIOUS
<1>1. file \in B!Settings
  BY DEF B!Init, B!Settings
<1>2. tick \in [step : {"rest", "compare", "write"}, target : 0 .. 100]
  BY DEF B!Init, B!Rest
<1>3. raw \in 0 .. MaxRaw /\ last \in 0 .. 100
  BY DEF B!Init, B!Sensible
<1>4. /\ session \in B!Sessions /\ dash \in B!Settings \cup {Closed} /\ adjusted = FALSE
      /\ cmd \in Manual \cup {0} /\ class \in Classes
  BY DEF B!Init, B!Sessions
<1> QED BY <1>1, <1>2, <1>3, <1>4 DEF B!TypeOK, BacklightInv

LEMMA StepUpInt ==
  ASSUME B!Sensible, NEW r \in 0 .. MaxRaw
  PROVE  B!StepUp(r) \in Int /\ B!StepDown(r) \in Int
<1>1. B!Percent(r) \in Nat
  BY Quotient DEF B!Percent, B!Sensible
<1> QED BY <1>1 DEF B!StepUp, B!StepDown, B!Percentage

LEMMA BacklightNext ==
  ASSUME B!Sensible
  PROVE  BacklightInv /\ [B!Next]_B!vars => BacklightInv'
<1> SUFFICES ASSUME BacklightInv, [B!Next]_B!vars PROVE BacklightInv'
  OBVIOUS
<1> USE DEF BacklightInv, B!TypeOK, B!Settings
<1>1. CASE B!TickBegins \/ B!TickTimesOut
  <2>1. PICK c \in Classes \cup {"terminal"} : B!TickAims(c)
    BY <1>1 DEF B!TickBegins, B!TickTimesOut, B!Seen
  <2> QED BY <2>1, TargetRange DEF B!TickAims
<1>2. CASE B!TickCompares
  BY <1>2 DEF B!TickCompares, B!Rest
<1>3. CASE B!TickWrites
  BY <1>3, RawInRange DEF B!TickWrites, B!Rest
<1>4. CASE B!DaemonRestarts
  BY <1>4 DEF B!DaemonRestarts, B!Rest, B!Sessions
<1>5. CASE B!CmdSets
  <2>1. PICK p \in Manual : cmd' = p /\ raw' \in B!Written(p)
    BY <1>5 DEF B!CmdSets
  <2>2. raw' \in 0 .. MaxRaw
    BY <2>1, RawInRange DEF B!Sensible
  <2> QED BY <1>5, <2>1, <2>2 DEF B!CmdSets
<1>6. CASE B!CmdSaves
  BY <1>6 DEF B!CmdSaves
<1>7. CASE B!CmdAuto
  BY <1>7 DEF B!CmdAuto
<1>8. CASE B!CmdLevel
  BY <1>8 DEF B!CmdLevel
<1>9. CASE B!DashOpens
  BY <1>9 DEF B!DashOpens
<1>10. CASE B!DashCloses
  BY <1>10 DEF B!DashCloses
<1>11. CASE B!DashSaves
  <2>1. PICK s \in {[dash EXCEPT !.auto = b] : b \in BOOLEAN} \cup
                    {[dash EXCEPT !.level = l] : l \in Levels} :
          dash' = s /\ file' = s
    BY <1>11 DEF B!DashSaves
  <2>2. dash \in B!Settings
    BY <1>11 DEF B!DashSaves
  <2>3. s \in B!Settings
    BY <2>1, <2>2
  <2> QED BY <1>11, <2>1, <2>3 DEF B!DashSaves
<1>12. CASE B!DashLeft \/ B!DashRight
  BY <1>12, RawInRange, StepUpInt DEF B!DashLeft, B!DashRight, B!DashAdjusts
<1>13. CASE B!DashAdjusted
  <2>1. dash \in B!Settings
    BY <1>13 DEF B!DashAdjusted
  <2>2. [dash EXCEPT !.auto = FALSE] \in B!Settings
    BY <2>1
  <2> QED BY <1>13, <2>2 DEF B!DashAdjusted
<1>14. CASE B!Hotkey
  BY <1>14 DEF B!Hotkey, B!Sensible
<1>15. CASE B!WindowChanges
  BY <1>15 DEF B!WindowChanges
<1>16. CASE B!SessionStarts \/ B!SessionEnds
  BY <1>16 DEF B!SessionStarts, B!SessionEnds, B!Sessions
<1>17. CASE UNCHANGED B!vars
  BY <1>17 DEF B!vars
<1> QED
  BY <1>1, <1>2, <1>3, <1>4, <1>5, <1>6, <1>7, <1>8, <1>9, <1>10, <1>11,
     <1>12, <1>13, <1>14, <1>15, <1>16, <1>17 DEF B!Next, B!Daemon, B!Meddling

(* Raw levels and percentages stay in range, whoever writes them. *)
THEOREM BacklightTypeCorrect ==
  ASSUME B!Sensible
  PROVE  B!Spec => []B!TypeOK
<1>1. BacklightInv => B!TypeOK
  BY DEF BacklightInv
<1> QED BY <1>1, BacklightInit, BacklightNext, PTL DEF B!Spec

(* On a device with 25 levels or more the Right key always makes the screen
   brighter, whoever has set the brightness it starts from. *)
THEOREM RightAlwaysRaises ==
  ASSUME B!Sensible, MaxRaw >= 25
  PROVE  B!Spec => []RightRaises
<1>1. B!TypeOK => B!RightRaises
  BY StepUpRaises DEF B!TypeOK, B!RightRaises
<1>2. B!RightRaises <=> RightRaises
  BY DEF RightRaises, Raw, StepUp, Percentage, Percent,
         B!RightRaises, B!Raw, B!StepUp, B!Percentage, B!Percent
<1> QED BY <1>1, <1>2, BacklightTypeCorrect, PTL

-----------------------------------------------------------------------------
(* Auto-brightness, as long as nothing changes what it is to do.           *)

(* It is on, and this is what the daemon would aim at. *)
Asks(c, l) == file.auto /\ file.level = l /\ B!Seen = c

(* A tick under way, if there is one, has aimed at it. *)
OnCourse(c, l) == tick # B!Rest => tick.target = B!Target(c, l)

(* ... and the screen is as asked. *)
Settled(c, l) == OnCourse(c, l) /\ B!AsAsked(B!Target(c, l))

LEMMA CourseStays ==
  ASSUME BacklightInv, NEW c, NEW l, Asks(c, l), OnCourse(c, l),
         [B!Next]_B!vars, [~ B!Meddling]_B!vars
  PROVE  /\ OnCourse(c, l)'
         /\ raw' = raw \/ raw' \in B!Written(B!Target(c, l))
         /\ tick # B!Rest /\ tick' = B!Rest => B!AsAsked(B!Target(c, l))'
<1>1. CASE B!TickBegins
  <2>1. tick = B!Rest /\ raw' = raw /\ tick'.target = B!Target(c, l)
    BY <1>1 DEF B!TickBegins, B!TickAims, Asks
  <2> QED BY <2>1 DEF OnCourse
<1>2. CASE B!TickCompares
  <2>1. tick.step = "compare" /\ raw' = raw
    BY <1>2 DEF B!TickCompares
  <2>2. tick # B!Rest
    BY <2>1 DEF B!Rest
  <2>3. tick.target = B!Target(c, l)
    BY <2>2 DEF OnCourse
  <2>4. CASE last # tick.target \/ B!Percent(raw) # tick.target
    <3>1. tick' = [tick EXCEPT !.step = "write"]
      BY <1>2, <2>4 DEF B!TickCompares
    <3>2. tick'.step = "write" /\ tick'.target = tick.target
      BY <3>1 DEF BacklightInv, B!TypeOK
    <3> QED BY <2>1, <2>3, <3>2 DEF OnCourse, B!Rest
  <2>5. CASE B!Percent(raw) = tick.target /\ last = tick.target
    <3>1. tick' = B!Rest
      BY <1>2, <2>5 DEF B!TickCompares
    <3>2. B!Percent(raw') = B!Target(c, l)
      BY <2>1, <2>3, <2>5
    <3> QED BY <2>1, <3>1, <3>2 DEF OnCourse, B!AsAsked, B!Percent
  <2> QED BY <2>4, <2>5
<1>3. CASE B!TickWrites
  <2>1. tick.step = "write" /\ raw' \in B!Written(tick.target) /\ tick' = B!Rest
    BY <1>3 DEF B!TickWrites
  <2>2. tick.target = B!Target(c, l)
    BY <2>1 DEF OnCourse, B!Rest
  <2> QED BY <2>1, <2>2 DEF OnCourse, B!AsAsked, B!Written, B!Raw
<1>4. CASE UNCHANGED <<raw, tick>>
  BY <1>4 DEF OnCourse
<1>5. UNCHANGED B!vars => UNCHANGED <<raw, tick>>
  BY DEF B!vars
<1>6. B!Meddling => UNCHANGED <<raw, tick>>
  BY <1>5
<1>7. \/ B!CmdSaves \/ B!CmdAuto \/ B!CmdLevel
      \/ B!DashOpens \/ B!DashCloses \/ B!DashSaves \/ B!DashAdjusted
      \/ B!WindowChanges \/ B!SessionStarts \/ B!SessionEnds
      => UNCHANGED <<raw, tick>>
  BY DEF B!CmdSaves, B!CmdAuto, B!CmdLevel, B!DashOpens, B!DashCloses, B!DashSaves,
         B!DashAdjusted, B!WindowChanges, B!SessionStarts, B!SessionEnds
<1> QED BY <1>1, <1>2, <1>3, <1>4, <1>5, <1>6, <1>7 DEF B!Next, B!Daemon

LEMMA SettledStays ==
  ASSUME BacklightInv, NEW c, NEW l, Asks(c, l), Settled(c, l),
         [B!Next]_B!vars, [~ B!Meddling]_B!vars
  PROVE  Settled(c, l)'
<1>1. /\ OnCourse(c, l)'
      /\ raw' = raw \/ raw' \in B!Written(B!Target(c, l))
  BY CourseStays DEF Settled
<1>2. B!AsAsked(B!Target(c, l))
  BY DEF Settled
<1>3. B!AsAsked(B!Target(c, l))'
  BY <1>1, <1>2 DEF B!AsAsked, B!Written, B!Raw, B!Percent
<1> QED BY <1>1, <1>3 DEF Settled

(* The first whole tick that nobody meddles with leaves the screen as the
   window and the level ask, from any brightness, and whatever was applied
   last (daemon.rs apply_brightness_step). *)
THEOREM FirstTickSettles ==
  ASSUME B!Sensible, NEW c, NEW l
  PROVE  B!Spec => [](tick = B!Rest /\ []Asks(c, l) /\ [][~ B!Meddling]_B!vars
                       => [][tick # B!Rest /\ tick' = B!Rest => Settled(c, l)']_B!vars)
<1>1. tick = B!Rest => OnCourse(c, l)
  BY DEF OnCourse
<1>2. BacklightInv /\ Asks(c, l) /\ OnCourse(c, l) /\ [B!Next]_B!vars /\ [~ B!Meddling]_B!vars
        => OnCourse(c, l)'
  BY CourseStays
<1>3. BacklightInv /\ Asks(c, l) /\ OnCourse(c, l) /\ [B!Next]_B!vars /\ [~ B!Meddling]_B!vars
        => [tick # B!Rest /\ tick' = B!Rest => Settled(c, l)']_B!vars
  BY CourseStays DEF Settled
<1> QED BY <1>1, <1>2, <1>3, BacklightInit, BacklightNext, PTL DEF B!Spec

(* From then on it stays so, on any device: no later tick takes the screen to
   another brightness, as long as the window and the level stay, and nobody
   meddles. *)
THEOREM AutoStays ==
  ASSUME B!Sensible, NEW c, NEW l
  PROVE  B!Spec => [](Settled(c, l) /\ []Asks(c, l) /\ [][~ B!Meddling]_B!vars
                       => []Settled(c, l))
<1>1. BacklightInv /\ Asks(c, l) /\ Settled(c, l) /\ [B!Next]_B!vars /\ [~ B!Meddling]_B!vars
        => Settled(c, l)'
  BY SettledStays
<1> QED BY <1>1, BacklightInit, BacklightNext, PTL DEF B!Spec

===============================================================================
