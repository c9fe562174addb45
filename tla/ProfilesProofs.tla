---------------------------- MODULE ProfilesProofs ----------------------------
(***************************************************************************)
(* Proofs about Profiles, for any machines that are Sound and Regular, any  *)
(* loads, levels, profiles and rows: what is written was discovered, what   *)
(* an undisturbed profile leaves, and what a row shows of what it wrote.    *)
(***************************************************************************)
EXTENDS Profiles, TLAPS, FiniteSetTheorems, WellFoundedInduction

-----------------------------------------------------------------------------
(* Smallest and largest numbers.                                           *)

LEMMA Smallest ==
  ASSUME NEW S \in SUBSET Nat, S # {}
  PROVE  /\ Min(S) \in S
         /\ \A y \in S : Min(S) <= y
<1>1. PICK x \in S : \A y \in S : ~ (<<y, x>> \in OpToRel(<, Nat))
  BY NatLessThanWellFounded, WFMin
<1>2. \A y \in S : x <= y
  <2>1. \A y \in S : ~ (y < x)
    BY <1>1 DEF OpToRel
  <2> QED BY <2>1
<1> QED BY <1>2 DEF Min

LEMMA Largest ==
  ASSUME NEW S \in SUBSET Nat, S # {},
         NEW b \in Nat, \A y \in S : y <= b
  PROVE  /\ Max(S) \in S
         /\ \A y \in S : y <= Max(S)
<1> DEFINE T == {b - y : y \in S}
<1>1. T \in SUBSET Nat /\ T # {}
  OBVIOUS
<1>2. PICK x \in S : b - x = Min(T)
  BY <1>1, Smallest
<1>3. \A y \in S : b - x <= b - y
  BY <1>1, <1>2, Smallest
<1>4. \A y \in S : x >= y
  BY <1>3
<1> QED BY <1>4 DEF Max

(* Over a finite set a function to the numbers is bounded: otherwise take a
   smallest set over which one is not, and an element of it away. *)
LEMMA FiniteBound ==
  ASSUME NEW D, IsFiniteSet(D), NEW g \in [D -> Nat]
  PROVE  \E b \in Nat : \A x \in D : g[x] <= b
<1> DEFINE Free(S, f) == \A b \in Nat : \E x \in S : ~ (f[x] <= b)
           Bad == {n \in Nat : \E S : IsFiniteSet(S) /\ Cardinality(S) = n /\
                                      \E f \in [S -> Nat] : Free(S, f)}
<1>0. ASSUME NEW S, IsFiniteSet(S), NEW f \in [S -> Nat], Free(S, f)
      PROVE  Cardinality(S) \in Bad
  <2>1. Cardinality(S) \in Nat
    BY <1>0, FS_CardinalityType
  <2>2. \E h \in [S -> Nat] : Free(S, h)
    BY <1>0
  <2> HIDE DEF Free
  <2> QED BY <1>0, <2>1, <2>2
<1>1. Bad = {}
  <2> SUFFICES ASSUME Bad # {} PROVE FALSE
    OBVIOUS
  <2>1. Min(Bad) \in Nat /\ Min(Bad) \in Bad /\ \A n \in Bad : Min(Bad) <= n
    BY Smallest
  <2>2. PICK S : /\ IsFiniteSet(S) /\ Cardinality(S) = Min(Bad)
                 /\ \E f \in [S -> Nat] : Free(S, f)
    BY <2>1
  <2>3. PICK f \in [S -> Nat] : Free(S, f)
    BY <2>2
  <2>4. PICK s \in S : TRUE
    BY <2>3
  <2> DEFINE T == S \ {s}
             h == [x \in T |-> f[x]]
  <2>5. IsFiniteSet(T) /\ Cardinality(T) = Cardinality(S) - 1 /\ Cardinality(S) \in Nat
    BY <2>2, <2>4, FS_RemoveElement, FS_CardinalityType
  <2>6. IsFiniteSet(T) /\ Cardinality(T) \in Nat /\ Cardinality(T) < Min(Bad)
    BY <2>2, <2>5, FS_CardinalityType
  <2>7. ASSUME NEW n \in Bad, n \in Nat, n < Min(Bad) PROVE FALSE
    <3>1. Min(Bad) <= n
      BY <2>1
    <3> HIDE DEF Bad
    <3> QED BY <2>1, <2>7, <3>1
  <2>8. h \in [T -> Nat]
    OBVIOUS
  <2>9. ~ Free(T, h)
    <3> HIDE DEF Bad, Free, T, h
    <3> QED BY <1>0, <2>6, <2>7, <2>8
  <2>10. PICK b \in Nat : \A x \in T : h[x] <= b
    BY <2>9
  <2> DEFINE d == b + f[s]
  <2>11. d \in Nat /\ b <= d /\ f[s] <= d
    <3>1. f[s] \in Nat
      OBVIOUS
    <3> QED BY <3>1
  <2>12. \A x \in S : f[x] <= d
    BY <2>10, <2>11
  <2> QED BY <2>3, <2>12
<1>2. ~ Free(D, g)
  <2> HIDE DEF Bad, Free
  <2> QED BY <1>0, <1>1
<1> QED BY <1>2

(* The numbers that a function takes on a finite set have ends. *)
LEMMA Extremes ==
  ASSUME NEW D, IsFiniteSet(D), NEW g \in [D -> Nat],
         NEW V \in SUBSET Nat, V # {}, \A v \in V : \E x \in D : v = g[x]
  PROVE  /\ Min(V) \in V /\ Max(V) \in V
         /\ \A v \in V : Min(V) <= v /\ v <= Max(V)
<1>1. PICK b \in Nat : \A x \in D : g[x] <= b
  BY FiniteBound
<1>2. \A v \in V : v <= b
  BY <1>1
<1> QED BY <1>2, Smallest, Largest

-----------------------------------------------------------------------------
(* Ranges.                                                                 *)

LEMMA ZonesType ==
  ASSUME NEW m, Sound(m), NEW k \in Kinds
  PROVE  /\ IsFiniteSet(DOMAIN m.zones)
         /\ \A z \in DOMAIN m.zones : m.zones[z][k] \in Constraint
<1>1. m.zones \in Seq([Kinds -> Constraint])
  BY DEF Sound
<1>2. DOMAIN m.zones = 1 .. Len(m.zones) /\ Len(m.zones) \in Nat
  BY <1>1
<1>3. \A z \in DOMAIN m.zones : m.zones[z] \in [Kinds -> Constraint]
  BY <1>1
<1>4. \A n \in Nat : IsFiniteSet(1 .. n)
  BY FS_Interval
<1> QED BY <1>2, <1>3, <1>4

(* The range of all zones holds that of each, and its ends are ends of some. *)
LEMMA WattRange ==
  ASSUME NEW m, Sound(m), NEW k \in Kinds, Ranged(m, k) # {}
  PROVE  /\ WattMin(m, k) \in Nat /\ WattMax(m, k) \in Nat
         /\ \A z \in Ranged(m, k) : /\ WattMin(m, k) <= m.zones[z][k].min
                                    /\ m.zones[z][k].max <= WattMax(m, k)
<1> DEFINE D == DOMAIN m.zones
           lo == [z \in D |-> m.zones[z][k].min]
           hi == [z \in D |-> m.zones[z][k].max]
           Los == {m.zones[z][k].min : z \in Ranged(m, k)}
           His == {m.zones[z][k].max : z \in Ranged(m, k)}
<1>1. IsFiniteSet(D) /\ lo \in [D -> Nat] /\ hi \in [D -> Nat]
  BY ZonesType DEF Constraint
<1>0. \A z \in Ranged(m, k) : z \in D /\ m.zones[z][k] \in Constraint
  BY ZonesType DEF Ranged
<1>2. Los \in SUBSET Nat /\ Los # {} /\ \A v \in Los : \E z \in D : v = lo[z]
  BY <1>0 DEF Constraint
<1>3. His \in SUBSET Nat /\ His # {} /\ \A v \in His : \E z \in D : v = hi[z]
  BY <1>0 DEF Constraint
<1>4. \A z \in Ranged(m, k) : m.zones[z][k].min \in Los /\ m.zones[z][k].max \in His
  OBVIOUS
<1>5. WattMin(m, k) = Min(Los) /\ WattMax(m, k) = Max(His)
  BY DEF WattMin, WattMax
<1> HIDE DEF D, lo, hi, Los, His
<1>6. Min(Los) \in Los /\ \A v \in Los : Min(Los) <= v
  BY <1>1, <1>2, Extremes
<1>7. Max(His) \in His /\ \A v \in His : v <= Max(His)
  BY <1>1, <1>3, Extremes
<1> QED BY <1>2, <1>3, <1>4, <1>5, <1>6, <1>7

LEMMA ShownType ==
  ASSUME NEW m, Sound(m)
  PROVE  ShownMin(m) \in Nat /\ ShownMax(m) \in Nat
<1> DEFINE K == {k \in Kinds : Ranged(m, k) # {}}
           P == m.package
           lo == [r \in P |-> r.min]
           hi == [r \in P |-> r.max]
           low == [k \in K |-> WattMin(m, k)]
           high == [k \in K |-> WattMax(m, k)]
<1>1. CASE K # {}
  <2> DEFINE Los == {WattMin(m, k) : k \in K}
             His == {WattMax(m, k) : k \in K}
  <2>1. \A k \in K : WattMin(m, k) \in Nat /\ WattMax(m, k) \in Nat
    BY WattRange
  <2>2. low \in [K -> Nat] /\ high \in [K -> Nat]
    BY <2>1
  <2>3. IsFiniteSet(Kinds)
    <3>1. IsFiniteSet({"long_term"} \cup {"short_term"})
      BY FS_Singleton, FS_AddElement
    <3>2. {"long_term"} \cup {"short_term"} = Kinds
      BY DEF Kinds
    <3> QED BY <3>1, <3>2
  <2>4. IsFiniteSet(K)
    BY <2>3, FS_Subset
  <2>5. /\ Los \in SUBSET Nat /\ Los # {} /\ \A v \in Los : \E k \in K : v = low[k]
        /\ His \in SUBSET Nat /\ His # {} /\ \A v \in His : \E k \in K : v = high[k]
    BY <1>1, <2>1
  <2>6. ShownMin(m) = Min(Los) /\ ShownMax(m) = Max(His)
    BY <1>1 DEF ShownMin, ShownMax
  <2> HIDE DEF K, low, high, Los, His
  <2>7. Min(Los) \in Los /\ Max(His) \in His
    BY <2>2, <2>4, <2>5, Extremes
  <2> QED BY <2>5, <2>6, <2>7
<1>2. CASE K = {} /\ P # {}
  <2> DEFINE Los == {r.min : r \in P}
             His == {r.max : r \in P}
  <2>1. IsFiniteSet(P) /\ lo \in [P -> Nat] /\ hi \in [P -> Nat]
    BY DEF Sound
  <2>2. /\ Los \in SUBSET Nat /\ Los # {} /\ \A v \in Los : \E r \in P : v = lo[r]
        /\ His \in SUBSET Nat /\ His # {} /\ \A v \in His : \E r \in P : v = hi[r]
    BY <1>2 DEF Sound
  <2>3. ShownMin(m) = Min(Los) /\ ShownMax(m) = Max(His)
    BY <1>2 DEF ShownMin, ShownMax
  <2> HIDE DEF P, lo, hi, Los, His
  <2>4. Min(Los) \in Los /\ Max(His) \in His
    BY <2>1, <2>2, Extremes
  <2> QED BY <2>2, <2>3, <2>4
<1>3. CASE K = {} /\ P = {}
  BY <1>3 DEF ShownMin, ShownMax
<1> QED BY <1>1, <1>2, <1>3

(* A card is chosen among those that scale. *)
LEMMA CardIs ==
  ASSUME NEW m, Sound(m), HasCard(m)
  PROVE  /\ Card(m) \in DOMAIN m.cards /\ m.cards[Card(m)].node
         /\ GpuMin(m) \in Nat /\ GpuMax(m) \in Nat
<1> DEFINE S == {n \in DOMAIN m.cards : m.cards[n].node}
<1>1. S \in SUBSET Nat /\ S # {}
  BY DEF Sound, HasCard
<1>2. Card(m) = IF 1 \in S THEN 1 ELSE IF 0 \in S THEN 0 ELSE Min(S)
  BY DEF Card
<1>3. Card(m) \in S
  <2> HIDE DEF S
  <2> QED BY <1>1, <1>2, Smallest
<1> QED BY <1>3 DEF Sound, GpuMin, GpuMax

(* The same of the frequencies told. *)
LEMMA FreqRange ==
  ASSUME NEW m, Sound(m), NEW s, s.online \subseteq Cores(m), Told(m, s) # {}
  PROVE  /\ FreqMin(m, s) \in Nat /\ FreqMax(m, s) \in Nat
         /\ \A c \in s.online : m.cpus[c].min # 0 /\ m.cpus[c].min <= m.cpus[c].max =>
              FreqMin(m, s) <= m.cpus[c].min /\ m.cpus[c].max <= FreqMax(m, s)
<1> DEFINE D == Cores(m)
           lo == [c \in D |-> m.cpus[c].min]
           hi == [c \in D |-> m.cpus[c].max]
           Los == {r.min : r \in Told(m, s)}
           His == {r.max : r \in Told(m, s)}
<1>1. IsFiniteSet(D) /\ lo \in [D -> Nat] /\ hi \in [D -> Nat]
  BY DEF Sound
<1>2. \A r \in Told(m, s) : \E c \in D : r = m.cpus[c] /\ r \in [min : Nat, max : Nat]
  BY DEF Sound, Told
<1>3. Los \in SUBSET Nat /\ Los # {} /\ \A v \in Los : \E c \in D : v = lo[c]
  BY <1>2
<1>4. His \in SUBSET Nat /\ His # {} /\ \A v \in His : \E c \in D : v = hi[c]
  BY <1>2
<1>5. \A c \in s.online : m.cpus[c].min # 0 /\ m.cpus[c].min <= m.cpus[c].max =>
        m.cpus[c].min \in Los /\ m.cpus[c].max \in His
  BY DEF Told
<1>6. FreqMin(m, s) = Min(Los) /\ FreqMax(m, s) = Max(His)
  BY DEF FreqMin, FreqMax
<1> HIDE DEF D, lo, hi, Los, His
<1>7. Min(Los) \in Los /\ \A v \in Los : Min(Los) <= v
  BY <1>1, <1>3, Extremes
<1>8. Max(His) \in His /\ \A v \in His : v <= Max(His)
  BY <1>1, <1>4, Extremes
<1> QED BY <1>3, <1>4, <1>5, <1>6, <1>7, <1>8

-----------------------------------------------------------------------------
(* Words.                                                                  *)

LEMMA RankIs ==
  ASSUME NEW p \in Items(Prefs)
  PROVE  Rank(p) \in 1 .. 5 /\ Prefs[Rank(p)] = p
<1>1. PICK i \in DOMAIN Prefs : Prefs[i] = p
  BY DEF Items
<1>2. Rank(p) \in DOMAIN Prefs /\ Prefs[Rank(p)] = p
  BY <1>1 DEF Rank
<1>3. DOMAIN Prefs = 1 .. 5
  BY DEF Prefs
<1> QED BY <1>2, <1>3

LEMMA ApartIs ==
  ASSUME NEW p \in Items(Prefs), NEW q \in Items(Prefs)
  PROVE  Apart(p, q) \in Nat /\ Apart(p, p) = 0
BY RankIs DEF Apart

(* The kernel is given what it lists, and the nearest of that; anything, if
   it lists nothing. *)
LEMMA ResolvePrefIs ==
  ASSUME NEW m, Sound(m), NEW asked \in Items(Prefs)
  PROVE  /\ ResolvePref(m, asked) \in Items(Prefs)
         /\ m.prefs # <<>> => ResolvePref(m, asked) \in Items(m.prefs)
         /\ \A p \in Items(m.prefs) : Apart(ResolvePref(m, asked), asked) <= Apart(p, asked)
<1> DEFINE L == m.prefs
<1>0. L \in Seq(Items(Prefs))
  BY DEF Sound
<1>1. /\ DOMAIN L = 1 .. Len(L) /\ Len(L) \in Nat /\ (L # <<>> => Len(L) # 0)
      /\ \A i \in DOMAIN L : L[i] \in Items(Prefs)
  <2> HIDE DEF L
  <2> QED BY <1>0
<1>2. \A i \in DOMAIN L : L[i] \in Items(Prefs) /\ Apart(L[i], asked) \in Nat
  <2> HIDE DEF L
  <2> QED BY <1>1, ApartIs
<1>3. Items(L) \subseteq Items(Prefs)
  BY <1>2 DEF Items
<1>4. \A p \in Items(L) : Apart(p, asked) \in Nat
  BY <1>3, ApartIs
<1>5. CASE L = <<>>
  <2>1. Items(L) = {}
    BY <1>5 DEF Items
  <2> QED BY <1>5, <2>1 DEF ResolvePref
<1>6. CASE L # <<>> /\ asked \in Items(L)
  BY <1>3, <1>4, <1>6, ApartIs DEF ResolvePref
<1>7. CASE L # <<>> /\ asked \notin Items(L)
  <2> DEFINE far == [i \in DOMAIN L |-> Apart(L[i], asked)]
             First(i) == \A k \in DOMAIN L : /\ Apart(L[i], asked) <= Apart(L[k], asked)
                                             /\ k < i => Apart(L[i], asked) < Apart(L[k], asked)
             V == {far[i] : i \in DOMAIN L}
             I == {i \in DOMAIN L : far[i] = Min(V)}
  <2>1. DOMAIN L # {} /\ DOMAIN L \subseteq Nat
    <3> HIDE DEF L
    <3> QED BY <1>1, <1>7
  <2>2. V \in SUBSET Nat /\ V # {} /\ \A i \in DOMAIN L : far[i] \in V
    BY <1>2, <2>1
  <2>3. Min(V) \in V /\ \A i \in DOMAIN L : Min(V) <= far[i]
    <3> HIDE DEF V, far
    <3> QED BY <2>2, Smallest
  <2>4. I \in SUBSET Nat /\ I # {}
    BY <2>1, <2>3
  <2>5. Min(I) \in I /\ \A i \in I : Min(I) <= i
    <3> HIDE DEF I
    <3> QED BY <2>4, Smallest
  <2>6. \A k \in DOMAIN L : k < Min(I) => far[k] # Min(V)
    <3> SUFFICES ASSUME NEW k \in DOMAIN L, k < Min(I), far[k] = Min(V) PROVE FALSE
      OBVIOUS
    <3>1. k \in I
      OBVIOUS
    <3>2. Min(I) <= k /\ k \in Nat /\ Min(I) \in Nat
      BY <2>1, <2>4, <2>5, <3>1
    <3> HIDE DEF I
    <3> QED BY <3>2
  <2>7. Min(I) \in DOMAIN L /\ First(Min(I))
    <3>1. Min(I) \in DOMAIN L /\ far[Min(I)] = Min(V)
      BY <2>5
    <3>2. \A k \in DOMAIN L : far[k] = Apart(L[k], asked) /\ far[k] \in Nat
      BY <1>2
    <3> HIDE DEF I, V, far
    <3> QED BY <2>2, <2>3, <2>6, <3>1, <3>2
  <2> DEFINE it == CHOOSE i \in DOMAIN L : First(i)
  <2>8. it \in DOMAIN L /\ First(it)
    <3> HIDE DEF First
    <3> QED BY <2>7
  <2>9. ResolvePref(m, asked) = L[it]
    BY <1>7 DEF ResolvePref
  <2>10. L[it] \in Items(L) /\ \A p \in Items(L) : Apart(L[it], asked) <= Apart(p, asked)
    <3> HIDE DEF it
    <3> QED BY <2>8 DEF Items
  <2> QED BY <1>3, <2>9, <2>10
<1> QED BY <1>5, <1>6, <1>7

LEMMA ResolveGovIs ==
  ASSUME NEW m, Sound(m), NEW gov \in Governors
  PROVE  /\ ResolveGov(m, gov) \in Governors
         /\ m.govs # {} => ResolveGov(m, gov) \in m.govs
<1> DEFINE order == <<"powersave", "performance", "schedutil", "ondemand">>
           I == {i \in DOMAIN order : order[i] \in m.govs}
<1>1. CASE m.govs = {} \/ gov \in m.govs
  BY <1>1 DEF ResolveGov
<1>2. CASE m.govs # {} /\ gov \notin m.govs
  <2>1. m.govs \subseteq Governors
    BY DEF Sound
  <2>2. DOMAIN order = 1 .. 4
    OBVIOUS
  <2>3. \A g \in Governors : \E i \in 1 .. 4 : order[i] = g
    BY order[1] = "powersave", order[2] = "performance", order[3] = "schedutil",
       order[4] = "ondemand", 1 \in 1 .. 4, 2 \in 1 .. 4, 3 \in 1 .. 4, 4 \in 1 .. 4
       DEF Governors
  <2>4. I \in SUBSET Nat /\ I # {}
    <3> HIDE DEF order
    <3> QED BY <1>2, <2>1, <2>2, <2>3
  <2>5. Min(I) \in I
    <3> HIDE DEF I
    <3> QED BY <2>4, Smallest
  <2>6. ResolveGov(m, gov) = order[Min(I)]
    BY <1>2 DEF ResolveGov
  <2> QED BY <2>1, <2>5, <2>6
<1> QED BY <1>1, <1>2

-----------------------------------------------------------------------------
(* What each call writes.                                                  *)

LEMMA SwitchCalledIs ==
  ASSUME NEW j, NEW w, NEW v, NEW k \in Switches
  PROVE  Called(j, k, w, v) = [nodes EXCEPT !.on = SetSwitch(machine, nodes, k, v)]
<1>1. /\ k # "cores" /\ k # "freq" /\ k # "pref" /\ k # "gpu" /\ k # "aspm"
      /\ k # "bright" /\ k # "writeback" /\ k \notin Kinds
  BY DEF Kinds, Switches
<1> QED BY <1>1, Zenon DEF Called

LEMMA WattsCalledIs ==
  ASSUME NEW j, NEW w, NEW v, NEW k \in Kinds
  PROVE  Called(j, k, w, v) = [nodes EXCEPT !.watts = SetWatts(machine, nodes, k, w)]
<1>1. /\ k # "cores" /\ k # "freq" /\ k # "pref" /\ k # "gpu" /\ k # "aspm"
      /\ k # "bright" /\ k # "writeback" /\ k \notin Switches
  BY DEF Kinds, Switches
<1> QED BY <1>1, Zenon DEF Called

LEMMA CalledIs ==
  ASSUME NEW j, NEW w, NEW v
  PROVE  /\ Called(j, "cores", w, v) = SetCores(machine, nodes, w)
         /\ Called(j, "freq", w, v) = [nodes EXCEPT !.freq = SetFreq(machine, nodes, w)]
         /\ Called(j, "pref", w, v) = SetPref(machine, nodes, j.pref)
         /\ Called(j, "gpu", w, v) = [nodes EXCEPT !.gpu = SetGpu(machine, nodes, w)]
         /\ Called(j, "aspm", w, v) =
              [nodes EXCEPT !.aspm = SetAspm(machine, nodes, Policy(j))]
         /\ Called(j, "bright", w, v) = [nodes EXCEPT !.bright = w]
         /\ Called(j, "writeback", w, v) = [nodes EXCEPT !.writeback = w]
<1>1. /\ "cores" \notin Kinds \cup Switches /\ "freq" \notin Kinds \cup Switches
      /\ "pref" \notin Kinds \cup Switches /\ "gpu" \notin Kinds \cup Switches
      /\ "aspm" \notin Kinds \cup Switches /\ "bright" \notin Kinds \cup Switches
      /\ "writeback" \notin Kinds \cup Switches /\ Kinds \cap Switches = {}
  BY DEF Kinds, Switches
<1>2. Called(j, "cores", w, v) = SetCores(machine, nodes, w)
  BY <1>1, Zenon DEF Called
<1>3. Called(j, "freq", w, v) = [nodes EXCEPT !.freq = SetFreq(machine, nodes, w)]
  BY <1>1, Zenon DEF Called
<1>4. Called(j, "pref", w, v) = SetPref(machine, nodes, j.pref)
  BY <1>1, Zenon DEF Called
<1>5. Called(j, "gpu", w, v) = [nodes EXCEPT !.gpu = SetGpu(machine, nodes, w)]
  BY <1>1, Zenon DEF Called
<1>6. Called(j, "aspm", w, v) = [nodes EXCEPT !.aspm = SetAspm(machine, nodes, Policy(j))]
  BY <1>1, Zenon DEF Called
<1>7. Called(j, "bright", w, v) = [nodes EXCEPT !.bright = w]
  BY <1>1, Zenon DEF Called
<1>8. Called(j, "writeback", w, v) = [nodes EXCEPT !.writeback = w]
  BY <1>1, Zenon DEF Called
<1> QED BY <1>2, <1>3, <1>4, <1>5, <1>6, <1>7, <1>8

LEMMA OpIs ==
  ASSUME NEW op \in Items(Calls) \cup Switches
  PROVE  \/ op \in {"cores", "freq", "pref", "gpu", "aspm", "bright", "writeback"}
         \/ op \in Kinds \/ op \in Switches
<1>1. \A i \in 1 .. 15 :
        \/ Calls[i] \in {"cores", "freq", "pref", "gpu", "aspm", "bright", "writeback"}
        \/ Calls[i] \in Kinds \/ Calls[i] \in Switches
  BY DEF Calls, Kinds, Switches
<1>2. DOMAIN Calls = 1 .. 15
  BY DEF Calls
<1> QED BY <1>1, <1>2 DEF Items

(* Each call writes its own nodes and no other. *)
LEMMA Wrote ==
  ASSUME NEW op \in Items(Calls) \cup Switches, NEW j, NEW w, NEW v,
         nodes \in Nodes(machine), nodes' = Called(j, op, w, v)
  PROVE  /\ op # "cores" => nodes'.online = nodes.online
         /\ op \notin {"cores", "freq"} => nodes'.freq = nodes.freq
         /\ op # "pref" => nodes'.pref = nodes.pref /\ nodes'.gov = nodes.gov
         /\ op \notin Kinds => nodes'.watts = nodes.watts
         /\ op # "gpu" => nodes'.gpu = nodes.gpu
         /\ op # "aspm" => nodes'.aspm = nodes.aspm
         /\ op \notin Switches => nodes'.on = nodes.on
         /\ op # "bright" => nodes'.bright = nodes.bright
         /\ op # "writeback" => nodes'.writeback = nodes.writeback
         /\ op = "freq" => nodes'.freq = SetFreq(machine, nodes, w)
         /\ op \in Kinds => nodes'.watts = SetWatts(machine, nodes, op, w)
         /\ op = "gpu" => nodes'.gpu = SetGpu(machine, nodes, w)
         /\ op = "aspm" => nodes'.aspm = SetAspm(machine, nodes, Policy(j))
         /\ op = "bright" => nodes'.bright = w
         /\ op = "writeback" => nodes'.writeback = w
         /\ op \in Switches => nodes'.on = SetSwitch(machine, nodes, op, v)
<1>0. /\ "cores" \notin Kinds \cup Switches /\ "freq" \notin Kinds \cup Switches
      /\ "pref" \notin Kinds \cup Switches /\ "gpu" \notin Kinds \cup Switches
      /\ "aspm" \notin Kinds \cup Switches /\ "bright" \notin Kinds \cup Switches
      /\ "writeback" \notin Kinds \cup Switches /\ Kinds \cap Switches = {}
  BY DEF Kinds, Switches
<1>1. CASE op = "cores"
  <2> DEFINE up == [nodes EXCEPT !.online = {c \in Cores(machine) : c < Higher(w, 1)}]
             f == SetFreq(machine, up, FreqLimit(nodes))
  <2>1. nodes' = up \/ nodes' = [up EXCEPT !.freq = f]
    <3>1. nodes' = SetCores(machine, nodes, w)
      BY <1>1, CalledIs
    <3> QED BY <3>1, Zenon DEF SetCores
  <2> HIDE DEF f
  <2>2. /\ nodes'.pref = nodes.pref /\ nodes'.gov = nodes.gov
        /\ nodes'.watts = nodes.watts /\ nodes'.gpu = nodes.gpu
        /\ nodes'.aspm = nodes.aspm /\ nodes'.on = nodes.on
        /\ nodes'.bright = nodes.bright /\ nodes'.writeback = nodes.writeback
    <3>1. nodes = [online |-> nodes.online, freq |-> nodes.freq, pref |-> nodes.pref,
                   gov |-> nodes.gov, watts |-> nodes.watts, gpu |-> nodes.gpu,
                   aspm |-> nodes.aspm, on |-> nodes.on, bright |-> nodes.bright,
                   writeback |-> nodes.writeback]
      BY DEF Nodes
    <3>2. CASE nodes' = up
      BY <3>1, <3>2
    <3>3. CASE nodes' = [up EXCEPT !.freq = f]
      BY <3>1, <3>3
    <3> QED BY <2>1, <3>2, <3>3
  <2> HIDE DEF up
  <2>3. op \notin Kinds /\ op \notin Switches
    BY <1>0, <1>1
  <2> QED BY <1>1, <2>2, <2>3
<1>2. CASE op = "freq"
  BY <1>0, <1>2, CalledIs DEF Nodes
<1>3. CASE op = "pref"
  <2> DEFINE p == ResolvePref(machine, j.pref)
             g == ResolveGov(machine, IF p = "performance" THEN p ELSE "powersave")
             P == [c \in Cores(machine) |-> IF Takes(machine, nodes, c, p) THEN p ELSE nodes.pref[c]]
             G == [c \in Cores(machine) |->
                     IF machine.governor /\ c \in nodes.online THEN g ELSE nodes.gov[c]]
  <2>1. nodes' = [nodes EXCEPT !.pref = P, !.gov = G]
    <3>1. nodes' = SetPref(machine, nodes, j.pref)
      BY <1>3, CalledIs
    <3> QED BY <3>1, Zenon DEF SetPref
  <2> HIDE DEF p, g, P, G
  <2>2. /\ nodes'.online = nodes.online /\ nodes'.freq = nodes.freq
        /\ nodes'.watts = nodes.watts /\ nodes'.gpu = nodes.gpu
        /\ nodes'.aspm = nodes.aspm /\ nodes'.on = nodes.on
        /\ nodes'.bright = nodes.bright /\ nodes'.writeback = nodes.writeback
    BY <2>1 DEF Nodes
  <2>3. op \notin Kinds /\ op \notin Switches
    BY <1>0, <1>3
  <2> QED BY <1>3, <2>2, <2>3
<1>4. CASE op \in Kinds
  <2>1. nodes' = [nodes EXCEPT !.watts = SetWatts(machine, nodes, op, w)]
    BY <1>4, WattsCalledIs
  <2>2. /\ op # "cores" /\ op # "freq" /\ op # "pref" /\ op # "gpu" /\ op # "aspm"
        /\ op # "bright" /\ op # "writeback" /\ op \notin Switches
    BY <1>0, <1>4
  <2> QED BY <1>4, <2>1, <2>2 DEF Nodes
<1>5. CASE op = "gpu"
  BY <1>0, <1>5, CalledIs DEF Nodes
<1>6. CASE op = "aspm"
  BY <1>0, <1>6, CalledIs DEF Nodes
<1>7. CASE op = "bright"
  BY <1>0, <1>7, CalledIs DEF Nodes
<1>8. CASE op = "writeback"
  BY <1>0, <1>8, CalledIs DEF Nodes
<1>9. CASE op \in Switches
  <2>1. nodes' = [nodes EXCEPT !.on = SetSwitch(machine, nodes, op, v)]
    BY <1>9, SwitchCalledIs
  <2>2. /\ op # "cores" /\ op # "freq" /\ op # "pref" /\ op # "gpu" /\ op # "aspm"
        /\ op # "bright" /\ op # "writeback" /\ op \notin Kinds
    BY <1>0, <1>9
  <2> QED BY <1>9, <2>1, <2>2 DEF Nodes
<1> QED BY <1>1, <1>2, <1>3, <1>4, <1>5, <1>6, <1>7, <1>8, <1>9, OpIs

-----------------------------------------------------------------------------
(* What each call is given.                                                *)

Choice(j, known, lo, hi) ==
  IF ~ known THEN {0}
  ELSE IF j.what = "ladder" THEN lo .. hi
  ELSE IF j.saving THEN {lo} ELSE {hi}

LEMMA WattsWantedIs ==
  ASSUME NEW j, j.what # "row", NEW k \in Kinds
  PROVE  Wanted(j, k) = Choice(j, Ranged(machine, k) # {}, WattMin(machine, k), WattMax(machine, k))
<1>1. k # "cores" /\ k # "freq" /\ k # "gpu" /\ k # "bright" /\ k # "writeback"
  BY DEF Kinds
<1> QED BY <1>1, Zenon DEF Wanted, Choice

LEMMA CoresWantedIs ==
  ASSUME NEW j, j.what # "row"
  PROVE  Wanted(j, "cores") =
           Choice(j, TRUE, IF j.what = "ladder" THEN 1
                           ELSE Lower(2, Cardinality(Cores(machine))),
                  Cardinality(Cores(machine)))
<1>1. "cores" \notin Kinds
  BY DEF Kinds
<1> QED BY <1>1, Zenon DEF Wanted, Choice

LEMMA FreqWantedIs ==
  ASSUME NEW j, j.what # "row"
  PROVE  Wanted(j, "freq") =
           Choice(j, FreqKnown(machine, nodes), FreqMin(machine, nodes), FreqMax(machine, nodes))
<1>1. "freq" \notin Kinds
  BY DEF Kinds
<1> QED BY <1>1, Zenon DEF Wanted, Choice

LEMMA GpuWantedIs ==
  ASSUME NEW j, j.what # "row"
  PROVE  Wanted(j, "gpu") =
           Choice(j, GpuKnown(machine), GpuMin(machine), GpuMax(machine))
<1>1. "gpu" \notin Kinds
  BY DEF Kinds
<1> QED BY <1>1, Zenon DEF Wanted, Choice

LEMMA BrightWantedIs ==
  ASSUME NEW j, j.what # "row"
  PROVE  Wanted(j, "bright") =
           {IF j.saving THEN 10 ELSE 100}
<1>1. "bright" \notin Kinds
  BY DEF Kinds
<1> QED BY <1>1, Zenon DEF Wanted, Choice

Hundredths(j) == Centisecs(100 * IF j.saving THEN 60 ELSE 5)

LEMMA WritebackWantedIs ==
  ASSUME NEW j, j.what # "row"
  PROVE  Wanted(j, "writeback") = {Hundredths(j)}
<1>1. "writeback" \notin Kinds
  BY DEF Kinds
<1> QED BY <1>1, Zenon DEF Wanted, Hundredths

LEMMA RowWantedIs ==
  ASSUME NEW j, j.what = "row", NEW op
  PROVE  Wanted(j, op) = {j.num}
BY DEF Wanted

LEMMA OtherWantedIs ==
  ASSUME NEW j, j.what # "row", NEW op \in {"pref", "aspm"} \cup Switches
  PROVE  Wanted(j, op) = {0}
<1>1. op # "cores" /\ op # "freq" /\ op # "gpu" /\ op # "bright" /\ op # "writeback" /\
      op \notin Kinds
  BY DEF Kinds, Switches
<1> QED BY <1>1, Zenon DEF Wanted

LEMMA ChoiceType ==
  ASSUME NEW j, NEW known \in BOOLEAN, NEW lo, NEW hi, known => lo \in Nat /\ hi \in Nat,
         NEW w \in Choice(j, known, lo, hi)
  PROVE  w \in Nat
BY DEF Choice

(* Every call is given a number, and brightness and writeback what their
   nodes take. *)
LEMMA WantedType ==
  ASSUME Sound(machine), nodes \in Nodes(machine), NEW j \in Job,
         NEW op \in Items(Calls) \cup Switches, NEW w \in Wanted(j, op)
  PROVE  /\ w \in Nat
         /\ j.what # "row" /\ op = "bright" => w = IF j.saving THEN 10 ELSE 100
         /\ j.what # "row" /\ op = "writeback" => w = IF j.saving THEN 6000 ELSE 500
<1>1. CASE j.what = "row"
  BY <1>1, RowWantedIs DEF Job
<1>2. CASE j.what # "row" /\ op = "cores"
  <2> DEFINE n == Cardinality(Cores(machine))
             lo == IF j.what = "ladder" THEN 1 ELSE Lower(2, n)
  <2>1. n \in Nat
    BY FS_CardinalityType DEF Sound
  <2>2. lo \in Nat /\ TRUE \in BOOLEAN
    BY <2>1 DEF Lower
  <2>3. w \in Choice(j, TRUE, lo, n)
    <3>1. Wanted(j, "cores") = Choice(j, TRUE, lo, n)
      BY <1>2, CoresWantedIs, Zenon
    <3>2. w \in Wanted(j, "cores")
      BY <1>2
    <3> QED BY <3>1, <3>2, Zenon
  <2> HIDE DEF n, lo
  <2>4. w \in Nat
    BY <2>1, <2>2, <2>3, ChoiceType
  <2> QED BY <1>2, <2>4
<1>3. CASE j.what # "row" /\ op = "freq"
  <2> DEFINE known == FreqKnown(machine, nodes)
             lo == FreqMin(machine, nodes)
             hi == FreqMax(machine, nodes)
  <2>1. known => lo \in Nat /\ hi \in Nat
    BY FreqRange DEF FreqKnown, Nodes
  <2>2. known \in BOOLEAN
    BY DEF FreqKnown
  <2>3. w \in Choice(j, known, lo, hi)
    <3>1. Wanted(j, "freq") = Choice(j, known, lo, hi)
      BY <1>3, FreqWantedIs, Zenon
    <3>2. w \in Wanted(j, "freq")
      BY <1>3
    <3> QED BY <3>1, <3>2, Zenon
  <2> HIDE DEF known, lo, hi
  <2>4. w \in Nat
    BY <2>1, <2>2, <2>3, ChoiceType
  <2> QED BY <1>3, <2>4
<1>4. CASE j.what # "row" /\ op \in Kinds
  <2> DEFINE known == Ranged(machine, op) # {}
             lo == WattMin(machine, op)
             hi == WattMax(machine, op)
  <2>1. op # "bright" /\ op # "writeback" /\ known \in BOOLEAN
    BY <1>4 DEF Kinds
  <2>2. known => lo \in Nat /\ hi \in Nat
    BY <1>4, WattRange
  <2>3. w \in Choice(j, known, lo, hi)
    BY <1>4, WattsWantedIs, Zenon
  <2> HIDE DEF known, lo, hi
  <2>4. w \in Nat
    BY <2>1, <2>2, <2>3, ChoiceType
  <2> QED BY <2>1, <2>4
<1>5. CASE j.what # "row" /\ op = "gpu"
  <2> DEFINE known == GpuKnown(machine)
             lo == GpuMin(machine)
             hi == GpuMax(machine)
  <2>1. known => lo \in Nat /\ hi \in Nat
    BY CardIs DEF GpuKnown
  <2>2. known \in BOOLEAN
    BY DEF GpuKnown
  <2>3. w \in Choice(j, known, lo, hi)
    <3>1. Wanted(j, "gpu") = Choice(j, known, lo, hi)
      BY <1>5, GpuWantedIs, Zenon
    <3>2. w \in Wanted(j, "gpu")
      BY <1>5
    <3> QED BY <3>1, <3>2, Zenon
  <2> HIDE DEF known, lo, hi
  <2>4. w \in Nat
    BY <2>1, <2>2, <2>3, ChoiceType
  <2> QED BY <1>5, <2>4
<1>6. CASE j.what # "row" /\ op = "bright"
  <2>1. w = IF j.saving THEN 10 ELSE 100
    <3>1. Wanted(j, "bright") = {IF j.saving THEN 10 ELSE 100}
      BY <1>6, BrightWantedIs, Zenon
    <3>2. w \in Wanted(j, "bright")
      BY <1>6
    <3> QED BY <3>1, <3>2, Zenon
  <2> QED BY <1>6, <2>1
<1>7. CASE j.what # "row" /\ op = "writeback"
  <2>1. w = Hundredths(j)
    <3>1. Wanted(j, "writeback") = {Hundredths(j)}
      BY <1>7, WritebackWantedIs, Zenon
    <3>2. w \in Wanted(j, "writeback")
      BY <1>7
    <3> QED BY <3>1, <3>2, Zenon
  <2>2. Hundredths(j) = IF j.saving THEN 6000 ELSE 500
    <3>1. CASE j.saving
      BY <3>1, SMT DEF Hundredths, Centisecs, Clamp
    <3>2. CASE ~ j.saving
      BY <3>2, SMT DEF Hundredths, Centisecs, Clamp
    <3> QED BY <3>1, <3>2, SMT
  <2> QED BY <1>7, <2>1, <2>2, SMT
<1>8. CASE j.what # "row" /\ op \in {"pref", "aspm"} \cup Switches
  <2>1. op # "bright" /\ op # "writeback"
    BY <1>8 DEF Switches
  <2>2. w \in {0}
    BY <1>8, OtherWantedIs
  <2> QED BY <2>1, <2>2
<1> QED BY <1>1, <1>2, <1>3, <1>4, <1>5, <1>6, <1>7, <1>8, OpIs

-----------------------------------------------------------------------------
(* What the setters leave is what the nodes can hold.                      *)

LEMMA SetFreqType ==
  ASSUME NEW m, Sound(m), NEW s, s.online \subseteq Cores(m), s.freq \in [Cores(m) -> Nat],
         NEW w \in Nat
  PROVE  SetFreq(m, s, w) \in [Cores(m) -> Nat]
<1> DEFINE set(c) == Clamp(Clamp(w, FreqMin(m, s), FreqMax(m, s)), m.cpus[c].min, m.cpus[c].max)
<1>1. FreqKnown(m, s) => FreqMin(m, s) \in Nat /\ FreqMax(m, s) \in Nat
  BY FreqRange DEF FreqKnown
<1>2. \A c \in Cores(m) : m.cpus[c].min \in Nat /\ m.cpus[c].max \in Nat /\ s.freq[c] \in Nat
  BY DEF Sound
<1>3. \A c \in Cores(m) : FreqKnown(m, s) => set(c) \in Nat
  BY <1>1, <1>2 DEF Clamp
<1>4. SetFreq(m, s, w) =
        [c \in Cores(m) |-> IF c \in s.online /\ FreqKnown(m, s) THEN set(c) ELSE s.freq[c]]
  BY DEF SetFreq
<1> HIDE DEF set
<1> QED BY <1>2, <1>3, <1>4

LEMMA SetWattsType ==
  ASSUME NEW m, Sound(m), NEW s, s.watts \in [DOMAIN m.zones -> [Kinds -> Nat]],
         NEW k \in Kinds, NEW w \in Nat
  PROVE  SetWatts(m, s, k, w) \in [DOMAIN m.zones -> [Kinds -> Nat]]
<1>1. ASSUME NEW z \in DOMAIN m.zones
      PROVE  [s.watts[z] EXCEPT ![k] = Clamp(w, m.zones[z][k].min, m.zones[z][k].max)]
               \in [Kinds -> Nat]
  <2>1. Clamp(w, m.zones[z][k].min, m.zones[z][k].max) \in Nat
    BY ZonesType DEF Constraint, Clamp
  <2> QED BY <2>1
<1> QED BY <1>1 DEF SetWatts

LEMMA SetGpuType ==
  ASSUME NEW m, Sound(m), NEW s, s.gpu \in [min : Nat, max : Nat], NEW w \in Nat
  PROVE  SetGpu(m, s, w) \in [min : Nat, max : Nat]
<1>1. CASE GpuKnown(m)
  <2>1. GpuMin(m) \in Nat /\ GpuMax(m) \in Nat
    BY <1>1, CardIs DEF GpuKnown
  <2>2. Clamp(w, GpuMin(m), GpuMax(m)) \in Nat
    BY <2>1 DEF Clamp
  <2>3. GtMin(s.gpu, GpuMin(m)) \in [min : Nat, max : Nat]
    BY <2>1 DEF GtMin
  <2> QED BY <1>1, <2>2, <2>3 DEF SetGpu, GtMax
<1>2. CASE ~ GpuKnown(m)
  BY <1>2 DEF SetGpu
<1> QED BY <1>1, <1>2

LEMMA SetSwitchType ==
  ASSUME NEW m, NEW s, s.on \in [m.switched -> BOOLEAN], NEW k, NEW v \in BOOLEAN
  PROVE  SetSwitch(m, s, k, v) \in [m.switched -> BOOLEAN]
<1> DEFINE set(n) == IF k = "turbo"
                     THEN IF m.nodes[k] # <<>> /\ n = m.nodes[k][1] THEN v # (n = "no_turbo")
                                                                    ELSE s.on[n]
                     ELSE IF n \in Items(m.nodes[k]) THEN v ELSE s.on[n]
<1>1. \A n \in m.switched : s.on[n] \in BOOLEAN
  OBVIOUS
<1>2. \A n : (v # (n = "no_turbo")) \in BOOLEAN
  BY Zenon
<1>3. \A n \in m.switched : set(n) \in BOOLEAN
  BY <1>1, <1>2, Zenon
<1>4. SetSwitch(m, s, k, v) = [n \in m.switched |-> set(n)]
  BY DOMAIN s.on = m.switched DEF SetSwitch
<1> HIDE DEF set
<1> QED BY <1>3, <1>4

(* Nodes with one of them written. *)
Onlines(m) == SUBSET Cores(m)
Freqs(m) == [Cores(m) -> Nat]
PrefsOf(m) == [Cores(m) -> Items(Prefs)]
GovsOf(m) == [Cores(m) -> Governors]
Watts(m) == [DOMAIN m.zones -> [Kinds -> Nat]]
Gpus == [min : Nat, max : Nat]
Policies == {"default", "performance", "powersave"}
Ons(m) == [m.switched -> BOOLEAN]
Brights == 0 .. 100
Writebacks == 100 .. 6000

LEMMA NodesAre ==
  ASSUME NEW m
  PROVE  Nodes(m) =
           [online : Onlines(m), freq : Freqs(m), pref : PrefsOf(m), gov : GovsOf(m),
            watts : Watts(m), gpu : Gpus, aspm : Policies, on : Ons(m),
            bright : Brights, writeback : Writebacks]
BY SMT DEF Nodes, Onlines, Freqs, PrefsOf, GovsOf, Watts, Gpus, Policies, Ons, Brights,
       Writebacks

LEMMA PutOnline ==
  ASSUME NEW m, NEW s \in Nodes(m), NEW x \in Onlines(m)
  PROVE  [s EXCEPT !.online = x] \in Nodes(m)
BY NodesAre

LEMMA PutFreq ==
  ASSUME NEW m, NEW s \in Nodes(m), NEW x \in Freqs(m)
  PROVE  [s EXCEPT !.freq = x] \in Nodes(m)
BY NodesAre

LEMMA PutWatts ==
  ASSUME NEW m, NEW s \in Nodes(m), NEW x \in Watts(m)
  PROVE  [s EXCEPT !.watts = x] \in Nodes(m)
BY NodesAre

LEMMA PutGpu ==
  ASSUME NEW m, NEW s \in Nodes(m), NEW x \in Gpus
  PROVE  [s EXCEPT !.gpu = x] \in Nodes(m)
BY NodesAre

LEMMA PutAspm ==
  ASSUME NEW m, NEW s \in Nodes(m), NEW x \in Policies
  PROVE  [s EXCEPT !.aspm = x] \in Nodes(m)
BY NodesAre

LEMMA PutOn ==
  ASSUME NEW m, NEW s \in Nodes(m), NEW x \in Ons(m)
  PROVE  [s EXCEPT !.on = x] \in Nodes(m)
BY NodesAre

LEMMA PutBright ==
  ASSUME NEW m, NEW s \in Nodes(m), NEW x \in Brights
  PROVE  [s EXCEPT !.bright = x] \in Nodes(m)
BY NodesAre

LEMMA PutWriteback ==
  ASSUME NEW m, NEW s \in Nodes(m), NEW x \in Writebacks
  PROVE  [s EXCEPT !.writeback = x] \in Nodes(m)
BY NodesAre

LEMMA PutPref ==
  ASSUME NEW m, NEW s \in Nodes(m), NEW x \in PrefsOf(m), NEW y \in GovsOf(m)
  PROVE  [s EXCEPT !.pref = x, !.gov = y] \in Nodes(m)
BY NodesAre

LEMMA SetPrefIs ==
  ASSUME NEW m, Sound(m), NEW s \in Nodes(m), NEW asked \in Items(Prefs)
  PROVE  LET pref == ResolvePref(m, asked)
             gov == ResolveGov(m, IF pref = "performance" THEN pref ELSE "powersave")
         IN /\ pref \in Items(Prefs) /\ gov \in Governors
            /\ m.govs # {} => gov \in m.govs
            /\ SetPref(m, s, asked) \in Nodes(m)
            /\ \A c \in Cores(m) :
                 /\ SetPref(m, s, asked).pref[c] = IF Takes(m, s, c, pref) THEN pref ELSE s.pref[c]
                 /\ SetPref(m, s, asked).gov[c] =
                      IF m.governor /\ c \in s.online THEN gov ELSE s.gov[c]
<1> DEFINE p == ResolvePref(m, asked)
           g == ResolveGov(m, IF p = "performance" THEN p ELSE "powersave")
           P == [c \in Cores(m) |-> IF Takes(m, s, c, p) THEN p ELSE s.pref[c]]
           G == [c \in Cores(m) |-> IF m.governor /\ c \in s.online THEN g ELSE s.gov[c]]
<1>1. p \in Items(Prefs)
  BY ResolvePrefIs
<1>2. (IF p = "performance" THEN p ELSE "powersave") \in Governors
  BY DEF Governors
<1>3. g \in Governors /\ (m.govs # {} => g \in m.govs)
  BY <1>2, ResolveGovIs
<1>4. SetPref(m, s, asked) = [s EXCEPT !.pref = P, !.gov = G]
  BY Zenon DEF SetPref
<1>5. P \in [Cores(m) -> Items(Prefs)] /\ G \in [Cores(m) -> Governors]
  <2>1. s.pref \in [Cores(m) -> Items(Prefs)] /\ s.gov \in [Cores(m) -> Governors]
    BY DEF Nodes
  <2> HIDE DEF p, g
  <2> QED BY <1>1, <1>3, <2>1
<1>6. [s EXCEPT !.pref = P, !.gov = G] \in Nodes(m)
  <2> HIDE DEF P, G
  <2> QED BY <1>5, PutPref, Zenon DEF PrefsOf, GovsOf
<1>7. SetPref(m, s, asked).pref = P /\ SetPref(m, s, asked).gov = G
  <2> HIDE DEF P, G
  <2> QED BY <1>4 DEF Nodes
<1> QED BY <1>1, <1>3, <1>4, <1>6, <1>7

LEMMA TurnedType ==
  ASSUME NEW j \in Job, NEW op, NEW v \in Turned(j, op)
  PROVE  v \in BOOLEAN
<1>1. j.value \in BOOLEAN /\ j.saving \in BOOLEAN /\ (~ j.saving) \in BOOLEAN
  <2>1. j.value \in BOOLEAN /\ j.saving \in BOOLEAN
    BY DEF Job
  <2> QED BY <2>1, Zenon
<1> QED BY <1>1, Zenon DEF Turned

(* What a job may give a call. *)
Fits(op, w) ==
  /\ w \in Nat
  /\ op = "bright" => w \in Brights
  /\ op = "writeback" => w \in Writebacks

(* Whatever is called, the nodes hold what they can, and cpu0 stays online. *)
LEMMA NodesStay ==
  ASSUME Sound(machine), nodes \in Nodes(machine), 0 \in nodes.online,
         NEW j \in Job, NEW op \in Items(Calls) \cup Switches,
         NEW w, Fits(op, w), NEW v \in BOOLEAN, nodes' = Called(j, op, w, v)
  PROVE  nodes' \in Nodes(machine) /\ 0 \in nodes'.online
<1>0. w \in Nat
  BY DEF Fits
<1>1. CASE op = "cores"
  <2> DEFINE up == [nodes EXCEPT !.online = {c \in Cores(machine) : c < Higher(w, 1)}]
             f == SetFreq(machine, up, FreqLimit(nodes))
  <2>1. nodes' = up \/ nodes' = [up EXCEPT !.freq = f]
    <3>1. nodes' = SetCores(machine, nodes, w)
      BY <1>1, CalledIs
    <3> QED BY <3>1, Zenon DEF SetCores
  <2>2. {c \in Cores(machine) : c < Higher(w, 1)} \in Onlines(machine)
    BY DEF Onlines
  <2>3. up \in Nodes(machine)
    BY <2>2, PutOnline
  <2>4. up.online = {c \in Cores(machine) : c < Higher(w, 1)}
    BY NodesAre
  <2>5. 0 \in up.online
    BY <1>0, <2>4 DEF Sound, Higher
  <2>6. FreqLimit(nodes) \in Nat
    BY DEF FreqLimit, Nodes, Sound
  <2> HIDE DEF up
  <2>7. up.online \subseteq Cores(machine) /\ up.freq \in [Cores(machine) -> Nat]
    BY <2>3, NodesAre DEF Onlines, Freqs
  <2>8. f \in Freqs(machine)
    BY <2>6, <2>7, SetFreqType DEF Freqs
  <2> HIDE DEF f
  <2>9. [up EXCEPT !.freq = f] \in Nodes(machine)
    BY <2>3, <2>8, PutFreq
  <2>10. [up EXCEPT !.freq = f].online = up.online
    BY <2>3, NodesAre
  <2> QED BY <2>1, <2>3, <2>5, <2>9, <2>10
<1>2. ASSUME op # "cores" PROVE nodes'.online = nodes.online
  BY <1>2, Wrote
<1>3. nodes.online \subseteq Cores(machine) /\ nodes.freq \in [Cores(machine) -> Nat]
      /\ nodes.watts \in [DOMAIN machine.zones -> [Kinds -> Nat]]
      /\ nodes.gpu \in [min : Nat, max : Nat]
      /\ nodes.on \in [machine.switched -> BOOLEAN]
      /\ nodes.aspm \in Policies
  BY NodesAre DEF Onlines, Freqs, Watts, Gpus, Ons
<1>4. CASE op = "freq"
  <2>1. nodes' = [nodes EXCEPT !.freq = SetFreq(machine, nodes, w)]
    BY <1>4, CalledIs
  <2>2. SetFreq(machine, nodes, w) \in Freqs(machine)
    BY <1>0, <1>3, SetFreqType DEF Freqs
  <2> QED BY <1>2, <1>4, <2>1, <2>2, PutFreq
<1>5. CASE op = "pref"
  <2>1. nodes' = SetPref(machine, nodes, j.pref)
    BY <1>5, CalledIs
  <2>2. j.pref \in Items(Prefs)
    BY DEF Job
  <2>3. SetPref(machine, nodes, j.pref) \in Nodes(machine)
    BY <2>2, SetPrefIs
  <2> QED BY <1>2, <1>5, <2>1, <2>3
<1>6. CASE op \in Kinds
  <2>1. nodes' = [nodes EXCEPT !.watts = SetWatts(machine, nodes, op, w)]
    BY <1>6, WattsCalledIs
  <2>2. SetWatts(machine, nodes, op, w) \in Watts(machine)
    BY <1>0, <1>3, <1>6, SetWattsType DEF Watts
  <2>3. op # "cores"
    BY <1>6 DEF Kinds
  <2> QED BY <1>2, <2>1, <2>2, <2>3, PutWatts
<1>7. CASE op = "gpu"
  <2>1. nodes' = [nodes EXCEPT !.gpu = SetGpu(machine, nodes, w)]
    BY <1>7, CalledIs
  <2>2. SetGpu(machine, nodes, w) \in Gpus
    BY <1>0, <1>3, SetGpuType DEF Gpus
  <2> QED BY <1>2, <1>7, <2>1, <2>2, PutGpu
<1>8. CASE op = "aspm"
  <2>1. nodes' = [nodes EXCEPT !.aspm = SetAspm(machine, nodes, Policy(j))]
    BY <1>8, CalledIs
  <2>2. SetAspm(machine, nodes, Policy(j)) \in Policies
    BY <1>3 DEF SetAspm, Policy, Policies
  <2> QED BY <1>2, <1>8, <2>1, <2>2, PutAspm
<1>9. CASE op = "bright"
  BY <1>2, <1>9, CalledIs, PutBright DEF Fits
<1>10. CASE op = "writeback"
  BY <1>2, <1>10, CalledIs, PutWriteback DEF Fits
<1>11. CASE op \in Switches
  <2>1. nodes' = [nodes EXCEPT !.on = SetSwitch(machine, nodes, op, v)]
    BY <1>11, SwitchCalledIs
  <2>2. SetSwitch(machine, nodes, op, v) \in Ons(machine)
    BY <1>3, SetSwitchType DEF Ons
  <2>3. op # "cores"
    BY <1>11 DEF Switches
  <2> QED BY <1>2, <2>1, <2>2, <2>3, PutOn
<1> QED BY <1>1, <1>4, <1>5, <1>6, <1>7, <1>8, <1>9, <1>10, <1>11, OpIs

-----------------------------------------------------------------------------
(* Jobs.                                                                   *)

LEMMA OtherIs ==
  ASSUME NEW a \in Actors
  PROVE  Other(a) \in Actors /\ Other(a) # a /\ Other(Other(a)) = a
         /\ \A b \in Actors : b = a \/ b = Other(a)
BY DEF Actors, Other

LEMMA RestIs ==
  ASSUME NEW j \in Job, NEW op
  PROVE  LET rest == [j EXCEPT !.calls = @ \ {op}] IN
         /\ rest \in Job
         /\ rest.calls = j.calls \ {op} /\ rest.what = j.what /\ rest.saving = j.saving
         /\ rest.pref = j.pref /\ rest.num = j.num /\ rest.value = j.value
         /\ rest.stale = j.stale /\ rest.alone = j.alone
BY DEF Job

LEMMA StartedIs ==
  ASSUME NEW j \in Job, NEW x \in BOOLEAN, NEW y \in BOOLEAN
  PROVE  LET i == [j EXCEPT !.alone = x, !.stale = y] IN
         /\ i \in Job
         /\ i.calls = j.calls /\ i.what = j.what /\ i.saving = j.saving
         /\ i.pref = j.pref /\ i.num = j.num /\ i.value = j.value
         /\ i.stale = y /\ i.alone = x
BY DEF Job

LEMMA DisturbedIs ==
  ASSUME NEW j \in Job
  PROVE  LET i == [j EXCEPT !.alone = FALSE] IN
         /\ i \in Job
         /\ i.calls = j.calls /\ i.what = j.what /\ i.saving = j.saving
         /\ i.pref = j.pref /\ i.num = j.num /\ i.value = j.value
         /\ i.stale = j.stale /\ ~ i.alone
BY DEF Job

LEMMA WordsAre ==
  /\ "default" \in Items(Prefs) /\ "power" \in Items(Prefs)
  /\ "performance" \in Items(Prefs) /\ "balance_power" \in Items(Prefs)
  /\ "balance_performance" \in Items(Prefs)
<1>1. /\ Prefs[1] = "performance" /\ Prefs[2] = "balance_performance"
      /\ Prefs[3] = "default" /\ Prefs[4] = "balance_power" /\ Prefs[5] = "power"
      /\ DOMAIN Prefs = 1 .. 5
  BY DEF Prefs
<1>2. 1 \in 1 .. 5 /\ 2 \in 1 .. 5 /\ 3 \in 1 .. 5 /\ 4 \in 1 .. 5 /\ 5 \in 1 .. 5
  OBVIOUS
<1> QED BY <1>1, <1>2 DEF Items

LEMMA NoJobIs ==
  /\ NoJob \in Job
  /\ NoJob.calls = {} /\ NoJob.what = "row" /\ ~ NoJob.alone /\ ~ NoJob.stale
  /\ [NoJob EXCEPT !.alone = FALSE] = NoJob
<1>1. "default" \in Items(Prefs) /\ "row" \in Whats
  BY WordsAre DEF Whats
<1>2. NoJob \in Job
  BY <1>1 DEF NoJob, Job
<1>3. NoJob.calls = {} /\ NoJob.what = "row" /\ NoJob.alone = FALSE /\ NoJob.stale = FALSE
  BY DEF NoJob
<1>4. [NoJob EXCEPT !.alone = FALSE] = NoJob
  BY <1>2, <1>3 DEF Job
<1> QED BY <1>2, <1>3, <1>4, Zenon

LEMMA LadderOpsAre ==
  /\ Items(LadderOrder) \subseteq Items(Calls)
  /\ "bright" \notin Items(LadderOrder)
  /\ Items(MacCalls) \subseteq Switches
<1>1. /\ Calls[1] = "cores" /\ Calls[2] = "freq" /\ Calls[3] = "turbo" /\ Calls[4] = "pref"
      /\ Calls[5] = "long_term" /\ Calls[6] = "short_term" /\ Calls[7] = "gpu"
      /\ Calls[8] = "aspm" /\ Calls[10] = "kbd" /\ Calls[11] = "wifi_save"
      /\ Calls[12] = "audio_save" /\ Calls[13] = "autosuspend" /\ Calls[14] = "watchdog"
      /\ Calls[15] = "writeback" /\ DOMAIN Calls = 1 .. 15
  BY DEF Calls
<1>2. /\ LadderOrder[1] = "long_term" /\ LadderOrder[2] = "short_term"
      /\ LadderOrder[3] = "cores" /\ LadderOrder[4] = "freq" /\ LadderOrder[5] = "gpu"
      /\ LadderOrder[6] = "pref" /\ LadderOrder[7] = "turbo" /\ LadderOrder[8] = "aspm"
      /\ LadderOrder[9] = "wifi_save" /\ LadderOrder[10] = "kbd"
      /\ LadderOrder[11] = "audio_save" /\ LadderOrder[12] = "autosuspend"
      /\ LadderOrder[13] = "watchdog" /\ LadderOrder[14] = "writeback"
      /\ DOMAIN LadderOrder = 1 .. 14
  BY DEF LadderOrder
<1>3. \A i \in 1 .. 14 : \E k \in 1 .. 15 : LadderOrder[i] = Calls[k]
  <2> SUFFICES ASSUME NEW i \in 1 .. 14 PROVE \E k \in 1 .. 15 : LadderOrder[i] = Calls[k]
    OBVIOUS
  <2>1. \/ i = 1 \/ i = 2 \/ i = 3 \/ i = 4 \/ i = 5 \/ i = 6 \/ i = 7 \/ i = 8 \/ i = 9
        \/ i = 10 \/ i = 11 \/ i = 12 \/ i = 13 \/ i = 14
    OBVIOUS
  <2>2. \A k \in 1 .. 15 : k \in 1 .. 15
    OBVIOUS
  <2> QED BY <1>1, <1>2, <2>1
<1>4. \A i \in 1 .. 14 : LadderOrder[i] # "bright"
  BY <1>2
<1>5. \A i \in 1 .. 3 : MacCalls[i] \in Switches
  BY DEF MacCalls, Switches
<1>6. DOMAIN MacCalls = 1 .. 3
  BY DEF MacCalls
<1> QED BY <1>1, <1>2, <1>3, <1>4, <1>5, <1>6 DEF Items

LEMMA ProfileIs ==
  ASSUME NEW p \in Named
  PROVE  /\ p \in {"performance", "normal", "extreme", "auto"}
         /\ ProfilePref(p) \in Items(Prefs)
         /\ ProfileCalls(machine, p) \subseteq Items(Calls) \cup Switches
<1>1. p \in {"performance", "normal", "extreme", "auto"}
  BY NamedProfiles
<1>2. ProfilePref(p) \in Items(Prefs)
  BY <1>1, WordsAre, Zenon DEF ProfilePref
<1>3. "pref" \in Items(Calls)
  <2>1. Calls[4] = "pref" /\ DOMAIN Calls = 1 .. 15 /\ 4 \in 1 .. 15
    BY DEF Calls
  <2> QED BY <2>1 DEF Items
<1>4. ProfileCalls(machine, p) \subseteq Items(Calls) \cup Switches
  BY <1>3, LadderOpsAre, Zenon DEF ProfileCalls
<1> QED BY <1>1, <1>2, <1>4

LEMMA DueIs ==
  ASSUME NEW j, NEW op \in Due(j)
  PROVE  op \in j.calls
BY DEF Due

-----------------------------------------------------------------------------
(* Types.                                                                  *)

(* A job is a row of the user's, a profile of the user's or a tick of the
   daemon's, and has no other calls than these have. *)
ARow(j) ==
  /\ j.what = "row"
  /\ \E op \in Kinds \cup {"gpu", "writeback"} \cup Switches :
       j.calls = {op} /\ (op = "writeback" => j.num \in Writebacks)

AProfile(m, j) ==
  /\ j.what \in {"performance", "normal", "extreme", "auto"}
  /\ j.calls \subseteq ProfileCalls(m, j.what)
  /\ j.saving = (j.what = "extreme") /\ j.pref = ProfilePref(j.what)

(* One that has made no call yet. *)
AWholeProfile(m, j) == AProfile(m, j) /\ j.calls = ProfileCalls(m, j.what)

(* A tick of the daemon's, which a Mac does not have. *)
ALadder(m, j) ==
  /\ j.what = "ladder" /\ ~ m.mac
  /\ j.calls \subseteq {op \in Items(LadderOrder) : Touches(m, op)}

(* Who is alone is at work, and the other is not; and nobody takes a core
   away from a Mac. *)
Shaped ==
  /\ job["user"] = NoJob \/ ARow(job["user"]) \/ AProfile(machine, job["user"])
  /\ job["daemon"] = NoJob \/ ALadder(machine, job["daemon"])
  /\ \A a \in Actors : job[a].alone => ~ Idle(a) /\ Idle(Other(a))
  /\ machine.mac => nodes.online = Cores(machine)

LEMMA RowOps ==
  ASSUME NEW op \in Kinds \cup {"gpu", "writeback"} \cup Switches
  PROVE  op \in Items(Calls) \cup Switches /\ op # "bright" /\ op # "cores"
<1>1. /\ Calls[5] = "long_term" /\ Calls[6] = "short_term" /\ Calls[7] = "gpu"
      /\ Calls[15] = "writeback" /\ DOMAIN Calls = 1 .. 15
  BY DEF Calls
<1>2. op \in Items(Calls) \cup Switches
  BY <1>1, 5 \in 1 .. 15, 6 \in 1 .. 15, 7 \in 1 .. 15, 15 \in 1 .. 15 DEF Items, Kinds
<1>3. op # "bright" /\ op # "cores"
  BY DEF Kinds, Switches
<1> QED BY <1>2, <1>3

LEMMA CallIs ==
  ASSUME TypeOK, Shaped, NEW a \in Actors, NEW op \in Due(job[a]), Makes(a, op)
  PROVE  /\ op \in job[a].calls /\ op \in Items(Calls) \cup Switches
         /\ machine' = machine /\ world' = world
         /\ \E w \in Wanted(job[a], op), v \in Turned(job[a], op) :
              /\ Fits(op, w) /\ v \in BOOLEAN
              /\ nodes' = Called(job[a], op, w, v)
         /\ nodes' \in Nodes(machine) /\ 0 \in nodes'.online
<1> DEFINE j == job[a]
<1>1. j \in Job /\ op \in j.calls /\ op \in Items(Calls) \cup Switches
  BY DueIs DEF TypeOK, Job
<1>2. Sound(machine)
  BY MachinesAssumption DEF TypeOK
<1>3. PICK w \in Wanted(j, op), v \in Turned(j, op) : nodes' = Called(j, op, w, v)
  BY Zenon DEF Makes
<1>4. v \in BOOLEAN
  BY <1>1, TurnedType
<1>5. Fits(op, w)
  <2>1. w \in Nat /\ (j.what # "row" /\ op = "bright" => w = IF j.saving THEN 10 ELSE 100)
        /\ (j.what # "row" /\ op = "writeback" => w = IF j.saving THEN 6000 ELSE 500)
    <3> HIDE DEF j
    <3> QED BY <1>1, <1>2, WantedType DEF TypeOK
  <2>2. CASE j.what # "row"
    <3>1. 10 \in Brights /\ 100 \in Brights
      BY DEF Brights
    <3>2. 500 \in Writebacks /\ 6000 \in Writebacks
      BY SMT DEF Writebacks
    <3>3. op = "bright" => w \in Brights
      <4> HIDE DEF j
      <4> QED BY <2>1, <2>2, <3>1
    <3>4. op = "writeback" => w \in Writebacks
      <4> HIDE DEF j
      <4> QED BY <2>1, <2>2, <3>2, SMT
    <3> QED BY <2>1, <3>3, <3>4 DEF Fits
  <2>3. CASE j.what = "row"
    <3>1. ARow(j)
      <4>1. j # NoJob
        BY <1>1, NoJobIs
      <4> QED BY <2>3, <4>1 DEF Shaped, AProfile, ALadder, Actors
    <3>2. op # "bright" /\ (op = "writeback" => j.num \in Writebacks)
      <4> HIDE DEF j
      <4> QED BY <1>1, <3>1, RowOps DEF ARow
    <3>3. w = j.num
      <4> HIDE DEF j
      <4> QED BY <1>3, <2>3, RowWantedIs
    <3> QED BY <2>1, <3>2, <3>3 DEF Fits
  <2> QED BY <2>2, <2>3
<1>6. nodes' \in Nodes(machine) /\ 0 \in nodes'.online
  <2> HIDE DEF j
  <2> QED BY <1>1, <1>2, <1>3, <1>4, <1>5, NodesStay DEF TypeOK
<1> QED BY <1>1, <1>3, <1>4, <1>5, <1>6 DEF Makes

LEMMA CallLeaves ==
  ASSUME TypeOK, NEW a \in Actors, NEW op, Makes(a, op)
  PROVE  LET rest == [job[a] EXCEPT !.calls = @ \ {op}] IN
         /\ job' \in [Actors -> Job] /\ job'[Other(a)] = job[Other(a)]
         /\ \/ rest.calls # {} /\ job'[a] = rest /\ landed' = landed
            \/ /\ rest.calls = {} /\ job'[a] = NoJob
               /\ landed' = IF job[a].alone THEN rest ELSE landed
<1> DEFINE rest == [job[a] EXCEPT !.calls = @ \ {op}]
<1>1. job[a] \in Job /\ job \in [Actors -> Job]
  BY DEF TypeOK
<1>2. rest \in Job
  BY <1>1, RestIs
<1>3. \/ rest.calls # {} /\ job' = [job EXCEPT ![a] = rest] /\ landed' = landed
      \/ /\ rest.calls = {} /\ job' = [job EXCEPT ![a] = NoJob]
         /\ landed' = IF job[a].alone THEN rest ELSE landed
  BY Zenon DEF Makes
<1> HIDE DEF rest
<1>4. job' \in [Actors -> Job] /\ job'[Other(a)] = job[Other(a)]
      /\ (job' = [job EXCEPT ![a] = rest] => job'[a] = rest)
      /\ (job' = [job EXCEPT ![a] = NoJob] => job'[a] = NoJob)
  BY <1>1, <1>2, <1>3, NoJobIs, OtherIs
<1>5. \/ rest.calls # {} /\ job'[a] = rest /\ landed' = landed
      \/ /\ rest.calls = {} /\ job'[a] = NoJob
         /\ landed' = IF job[a].alone THEN rest ELSE landed
  BY <1>3, <1>4
<1> QED BY <1>4, <1>5 DEF rest

LEMMA BeginIs ==
  ASSUME TypeOK, NEW a \in Actors, NEW j \in Job, Begin(a, j)
  PROVE  /\ Idle(a) /\ j.calls # {} /\ landed' = NoJob
         /\ machine' = machine /\ nodes' = nodes /\ world' = world
         /\ job' \in [Actors -> Job]
         /\ job'[a] = [j EXCEPT !.alone = Idle(Other(a)),
                                !.stale = machine.busy /\ \E c \in Cores(machine) :
                                                nodes.gov[c] = "performance"]
         /\ job'[Other(a)] = [job[Other(a)] EXCEPT !.alone = FALSE]
<1> DEFINE stale == machine.busy /\ \E c \in Cores(machine) : nodes.gov[c] = "performance"
           i == [j EXCEPT !.alone = Idle(Other(a)), !.stale = stale]
           k == [job[Other(a)] EXCEPT !.alone = FALSE]
<1>1. Idle(Other(a)) \in BOOLEAN /\ stale \in BOOLEAN
  <2>1. machine.busy \in BOOLEAN
    BY MachinesAssumption DEF TypeOK, Sound
  <2> QED BY <2>1, Zenon DEF Idle
<1>2. i \in Job
  <2> HIDE DEF stale
  <2> QED BY <1>1, StartedIs
<1>3. k \in Job /\ Other(a) \in Actors /\ Other(a) # a /\ job \in [Actors -> Job]
  BY OtherIs, DisturbedIs DEF TypeOK
<1>4. Idle(a) /\ j.calls # {} /\ landed' = NoJob
      /\ machine' = machine /\ nodes' = nodes /\ world' = world
  BY DEF Begin
<1>5. job' = [job EXCEPT ![a] = i, ![Other(a)] = [@ EXCEPT !.alone = FALSE]]
  BY Zenon DEF Begin
<1>6. job' = [job EXCEPT ![a] = i, ![Other(a)] = k]
  <2> HIDE DEF i
  <2> QED BY <1>3, <1>5
<1> HIDE DEF i, k
<1>7. job' \in [Actors -> Job] /\ job'[a] = i /\ job'[Other(a)] = k
  BY <1>2, <1>3, <1>6
<1> QED BY <1>4, <1>7 DEF i, k

LEMMA ReadWattsType ==
  ASSUME NEW m, Sound(m), NEW s \in Nodes(m), NEW k \in Kinds
  PROVE  ReadWatts(m, s, k) \in Nat
<1> DEFINE Z == {z \in DOMAIN m.zones : m.zones[z][k].named}
<1>1. Z \subseteq DOMAIN m.zones /\ DOMAIN m.zones \subseteq Nat
  <2>1. m.zones \in Seq([Kinds -> Constraint])
    BY DEF Sound
  <2> QED BY <2>1
<1>2. s.watts \in [DOMAIN m.zones -> [Kinds -> Nat]]
  BY NodesAre DEF Watts
<1>3. CASE Z = {}
  BY <1>3 DEF ReadWatts
<1>4. CASE Z # {}
  <2>1. ReadWatts(m, s, k) = IF m.zones[Min(Z)][k].node THEN s.watts[Min(Z)][k] ELSE 0
    BY <1>4 DEF ReadWatts
  <2>2. Min(Z) \in DOMAIN m.zones
    <3> HIDE DEF Z
    <3> QED BY <1>1, <1>4, Smallest
  <2> HIDE DEF Z
  <2> QED BY <1>2, <2>1, <2>2
<1> QED BY <1>3, <1>4

(* The getter of a switch looks at the first node that counts. *)
LEMMA LookedIs ==
  ASSUME NEW m, Sound(m), NEW k \in Switches, Looked(m, k) # {}
  PROVE  /\ Min(Looked(m, k)) \in DOMAIN m.nodes[k]
         /\ Min(Looked(m, k)) \in Looked(m, k)
         /\ m.nodes[k][Min(Looked(m, k))] \in Items(m.nodes[k])
         /\ \A i \in Looked(m, k) : m.nodes[k][i] \in Items(m.nodes[k])
         /\ Items(m.nodes[k]) \subseteq m.switched
<1>1. m.nodes[k] \in Seq(m.switched)
  BY DEF Sound
<1>2. DOMAIN m.nodes[k] \subseteq Nat /\ Items(m.nodes[k]) \subseteq m.switched
  BY <1>1 DEF Items
<1>3. Looked(m, k) \subseteq DOMAIN m.nodes[k]
  BY DEF Looked
<1>4. Min(Looked(m, k)) \in Looked(m, k)
  BY <1>2, <1>3, Smallest
<1> QED BY <1>2, <1>3, <1>4 DEF Items

LEMMA ReadSwitchType ==
  ASSUME NEW m, Sound(m), NEW s \in Nodes(m), NEW k \in Switches
  PROVE  ReadSwitch(m, s, k) \in BOOLEAN
<1> DEFINE first == m.nodes[k][Min(Looked(m, k))]
<1>1. s.on \in [m.switched -> BOOLEAN]
  BY NodesAre DEF Ons
<1>2. Looked(m, k) # {} => first \in m.switched
  BY LookedIs
<1>3. Looked(m, k) # {} => s.on[first] \in BOOLEAN
  <2> HIDE DEF first
  <2> QED BY <1>1, <1>2
<1>4. ReadSwitch(m, s, k) =
        IF k \in {"bluetooth", "wifi"} THEN \A i \in Looked(m, k) : s.on[m.nodes[k][i]]
        ELSE IF Looked(m, k) = {} THEN k \in {"turbo", "audio_save"}
        ELSE IF first = "no_turbo" THEN ~ s.on["no_turbo"]
        ELSE IF k \in {"wifi_save", "autosuspend"}
             THEN \E i \in Looked(m, k) : s.on[m.nodes[k][i]] ELSE s.on[first]
  BY Zenon DEF ReadSwitch
<1>5. (k \in {"turbo", "audio_save"}) \in BOOLEAN
  OBVIOUS
<1>6. (~ s.on["no_turbo"]) \in BOOLEAN
  OBVIOUS
<1>7. (\E i \in Looked(m, k) : s.on[m.nodes[k][i]]) \in BOOLEAN
  OBVIOUS
<1>8. (\A i \in Looked(m, k) : s.on[m.nodes[k][i]]) \in BOOLEAN
  OBVIOUS
<1> HIDE DEF first
<1> QED BY <1>3, <1>4, <1>5, <1>6, <1>7, <1>8, Zenon

LEMMA RowIs ==
  ASSUME NEW op \in Kinds \cup {"gpu", "writeback"} \cup Switches,
         NEW n \in Nat, op = "writeback" => n \in Writebacks, NEW v \in BOOLEAN
  PROVE  LET r == [NoJob EXCEPT !.calls = {op}, !.num = n, !.value = v] IN
         /\ r \in Job /\ ARow(r)
         /\ r.calls = {op} /\ r.num = n /\ r.value = v
<1> DEFINE r == [NoJob EXCEPT !.calls = {op}, !.num = n, !.value = v]
<1>1. op \in Items(Calls) \cup Switches
  BY RowOps
<1>2. r \in Job /\ r.calls = {op} /\ r.num = n /\ r.value = v /\ r.what = "row"
  BY <1>1, NoJobIs DEF Job
<1> HIDE DEF r
<1>3. ARow(r)
  BY <1>2 DEF ARow
<1> QED BY <1>2, <1>3 DEF r

LEMMA RowBegins ==
  ASSUME NEW op \in Kinds \cup {"gpu", "writeback"} \cup Switches,
         NEW n \in Nat, op = "writeback" => n \in Writebacks, NEW v \in BOOLEAN, Row(op, n, v)
  PROVE  \E j \in Job : Begin("user", j) /\ (ARow(j) \/ AWholeProfile(machine, j))
<1> DEFINE r == [NoJob EXCEPT !.calls = {op}, !.num = n, !.value = v]
<1>1. r \in Job /\ ARow(r)
  BY RowIs
<1>2. Begin("user", r)
  BY Zenon DEF Row
<1> HIDE DEF r
<1> QED BY <1>1, <1>2

LEMMA UserBegins ==
  ASSUME TypeOK, User
  PROVE  \E j \in Job : Begin("user", j) /\ (ARow(j) \/ AWholeProfile(machine, j))
<1>0. Sound(machine) /\ nodes \in Nodes(machine)
  BY MachinesAssumption DEF TypeOK
<1>1. CASE ApplyProfile
  <2>1. PICK p \in Named :
          Begin("user", [NoJob EXCEPT !.what = p, !.calls = ProfileCalls(machine, p),
                               !.saving = (p = "extreme"), !.pref = ProfilePref(p)])
    BY <1>1, Zenon DEF ApplyProfile
  <2> DEFINE saving == (p = "extreme")
             calls == ProfileCalls(machine, p)
             pref == ProfilePref(p)
             j == [NoJob EXCEPT !.what = p, !.calls = calls, !.saving = saving, !.pref = pref]
  <2>2. saving \in BOOLEAN
    OBVIOUS
  <2>3. p \in Whats /\ calls \in SUBSET (Items(Calls) \cup Switches) /\ pref \in Items(Prefs)
    BY ProfileIs DEF Whats
  <2>4. j \in Job /\ j.what = p /\ j.calls = calls /\ j.saving = saving /\ j.pref = pref
    <3> HIDE DEF saving, calls, pref
    <3> QED BY <2>2, <2>3, NoJobIs DEF Job
  <2>5. Begin("user", j)
    BY <2>1
  <2>6. AWholeProfile(machine, j)
    <3> HIDE DEF j
    <3>1. AProfile(machine, j)
      BY <2>4, ProfileIs, Zenon DEF AProfile
    <3> QED BY <2>4, <3>1 DEF AWholeProfile
  <2> HIDE DEF j
  <2> QED BY <2>4, <2>5, <2>6
<1>2. CASE Toggle
  <2>1. PICK k \in Switches : Row(k, 0, ~ ReadSwitch(machine, nodes, k))
    BY <1>2 DEF Toggle
  <2>2. (~ ReadSwitch(machine, nodes, k)) \in BOOLEAN
    BY <1>0, ReadSwitchType, Zenon
  <2>3. k # "writeback"
    BY DEF Switches
  <2> QED BY <2>1, <2>2, <2>3, RowBegins
<1>3. CASE WattsLeft
  <2>1. PICK k \in Kinds :
          Row(k, Higher(Minus(ReadWatts(machine, nodes, k), 2), ShownMin(machine)), FALSE)
    BY <1>3 DEF WattsLeft
  <2>2. Higher(Minus(ReadWatts(machine, nodes, k), 2), ShownMin(machine)) \in Nat
    BY <1>0, ReadWattsType, ShownType DEF Higher, Minus
  <2>3. k # "writeback"
    BY DEF Kinds
  <2> QED BY <2>1, <2>2, <2>3, RowBegins
<1>4. CASE WattsRight
  <2>1. PICK k \in Kinds :
          Row(k, Lower(ReadWatts(machine, nodes, k) + 2, ShownMax(machine)), FALSE)
    BY <1>4 DEF WattsRight
  <2>2. Lower(ReadWatts(machine, nodes, k) + 2, ShownMax(machine)) \in Nat
    BY <1>0, ReadWattsType, ShownType DEF Lower
  <2>3. k # "writeback"
    BY DEF Kinds
  <2> QED BY <2>1, <2>2, <2>3, RowBegins
<1>5. nodes.gpu.min \in Nat /\ nodes.gpu.max \in Nat
  BY <1>0, NodesAre DEF Gpus
<1>6. CASE GpuLeft
  <2>1. Row("gpu", Higher(Minus(nodes.gpu.max, 1), GpuShownMin(machine, nodes)), FALSE)
        /\ HasCard(machine)
    BY <1>6 DEF GpuLeft
  <2>2. GpuShownMin(machine, nodes) \in Nat
    BY <1>0, <1>5, <2>1, CardIs DEF GpuShownMin
  <2>3. Higher(Minus(nodes.gpu.max, 1), GpuShownMin(machine, nodes)) \in Nat
    BY <1>5, <2>2 DEF Higher, Minus
  <2> QED BY <2>1, <2>3, RowBegins
<1>7. CASE GpuRight
  <2>1. Row("gpu", Lower(nodes.gpu.max + 1, GpuShownMax(machine, nodes)), FALSE)
        /\ HasCard(machine)
    BY <1>7 DEF GpuRight
  <2>2. GpuShownMax(machine, nodes) \in Nat
    BY <1>0, <1>5, <2>1, CardIs DEF GpuShownMax
  <2>3. Lower(nodes.gpu.max + 1, GpuShownMax(machine, nodes)) \in Nat
    BY <1>5, <2>2 DEF Lower
  <2> QED BY <2>1, <2>3, RowBegins
<1>8. nodes.writeback \in Writebacks
  BY <1>0, NodesAre
<1>9. ASSUME NEW to \in Int, WritebackRow(to)
      PROVE  \E j \in Job : Begin("user", j) /\ (ARow(j) \/ AWholeProfile(machine, j))
  <2>1. Centisecs(to) \in Writebacks /\ Centisecs(to) \in Nat
    BY SMT DEF Centisecs, Clamp, Writebacks
  <2>2. Row("writeback", Centisecs(to), FALSE)
    BY <1>9, Zenon DEF WritebackRow
  <2> QED BY <2>1, <2>2, RowBegins
<1>10. nodes.writeback - 1 \in Int /\ nodes.writeback + 1 \in Int
  <2>1. \A n \in Writebacks : n - 1 \in Int /\ n + 1 \in Int
    BY SMT DEF Writebacks
  <2> QED BY <1>8, <2>1
<1>11. CASE WritebackLeft
  BY <1>9, <1>10, <1>11 DEF WritebackLeft
<1>12. CASE WritebackRight
  BY <1>9, <1>10, <1>12 DEF WritebackRight
<1> QED BY <1>1, <1>2, <1>3, <1>4, <1>6, <1>7, <1>11, <1>12 DEF User

LEMMA TickBegins ==
  ASSUME TypeOK, Tick
  PROVE  \E j \in Job : /\ Begin("daemon", j) /\ ALadder(machine, j)
                       /\ j.calls = LadderCalls(machine, world.charging) /\ j.saving
<1> DEFINE calls == LadderCalls(machine, world.charging)
           pref == LadderPref(world)
           j == [NoJob EXCEPT !.what = "ladder", !.saving = TRUE, !.calls = calls, !.pref = pref]
<1>1. Begin("daemon", j)
  BY Zenon DEF Tick
<1>2. calls \in SUBSET (Items(Calls) \cup Switches) /\ pref \in Items(Prefs) /\ "ladder" \in Whats
  <2>1. calls \subseteq Items(LadderOrder)
    BY DEF LadderCalls
  <2>2. pref \in Items(Prefs)
    BY WordsAre DEF LadderPref
  <2> QED BY <2>1, <2>2, LadderOpsAre DEF Whats
<1>3. j \in Job /\ j.what = "ladder" /\ j.calls = calls /\ j.saving
  <2> HIDE DEF calls, pref
  <2> QED BY <1>2, NoJobIs DEF Job
<1>4. j.calls # {}
  <2> HIDE DEF j
  <2> QED BY <1>1 DEF Begin
<1>5. ALadder(machine, j)
  <2> HIDE DEF j
  <2> QED BY <1>3, <1>4 DEF ALadder, LadderCalls
<1> HIDE DEF j
<1> QED BY <1>1, <1>3, <1>5

LEMMA NodesMake ==
  ASSUME NEW m, NEW o \in Onlines(m), NEW f \in Freqs(m), NEW p \in PrefsOf(m),
         NEW g \in GovsOf(m), NEW w \in Watts(m), NEW c \in Gpus, NEW a \in Policies,
         NEW s \in Ons(m), NEW b \in Brights, NEW k \in Writebacks
  PROVE  [online |-> o, freq |-> f, pref |-> p, gov |-> g, watts |-> w, gpu |-> c,
          aspm |-> a, on |-> s, bright |-> b, writeback |-> k] \in Nodes(m)
BY NodesAre

LEMMA BootType ==
  ASSUME NEW m, Sound(m), NEW raised \in BOOLEAN
  PROVE  Boot(m, raised) \in Nodes(m) /\ 0 \in Boot(m, raised).online
         /\ Boot(m, raised).online = Cores(m)
<1> DEFINE freq == [c \in Cores(m) |-> m.cpus[c].max]
           pref == [c \in Cores(m) |-> "balance_performance"]
           gov == [c \in Cores(m) |-> "powersave"]
           watts == [z \in DOMAIN m.zones |-> [k \in Kinds |-> m.boot[z][k]]]
           gpu == IF HasCard(m)
                  THEN [min |-> IF raised THEN GpuMax(m) ELSE GpuMin(m), max |-> GpuMax(m)]
                  ELSE [min |-> 0, max |-> 0]
           on == [n \in m.switched |-> n \in {"led", "rfkill", "watchdog", "boost", "usb2",
                                 "keepalive", "display", "key", "radio", "airport"}]
<1>1. Cores(m) \in Onlines(m) /\ 0 \in Cores(m)
  BY DEF Onlines, Sound
<1>2. freq \in Freqs(m)
  BY DEF Freqs, Sound
<1>3. pref \in PrefsOf(m) /\ gov \in GovsOf(m)
  BY WordsAre DEF PrefsOf, GovsOf, Governors
<1>4. watts \in Watts(m)
  BY DEF Watts, Sound
<1>5. gpu \in Gpus
  <2>1. CASE HasCard(m)
    BY <2>1, CardIs DEF Gpus
  <2>2. CASE ~ HasCard(m)
    BY <2>2 DEF Gpus
  <2> QED BY <2>1, <2>2
<1>6. on \in Ons(m)
  BY DEF Ons
<1>7. "default" \in Policies /\ 50 \in Brights /\ 500 \in Writebacks
  BY SMT DEF Policies, Brights, Writebacks
<1> HIDE DEF freq, pref, gov, watts, gpu, on
<1>8. Boot(m, raised) =
        [online |-> Cores(m), freq |-> freq, pref |-> pref, gov |-> gov, watts |-> watts,
         gpu |-> gpu, aspm |-> "default", on |-> on, bright |-> 50, writeback |-> 500]
  BY SMT DEF Boot, freq, pref, gov, watts, gpu, on
<1>9. Boot(m, raised) \in Nodes(m)
  BY <1>1, <1>2, <1>3, <1>4, <1>5, <1>6, <1>7, <1>8, NodesMake
<1>10. Boot(m, raised).online = Cores(m)
  BY <1>8
<1> QED BY <1>1, <1>9, <1>10

LEMMA ShapedInit == Init => TypeOK /\ Shaped
<1> SUFFICES ASSUME Init PROVE TypeOK /\ Shaped
  OBVIOUS
<1>1. machine \in Machines /\ Sound(machine)
  BY MachinesAssumption DEF Init
<1>2. PICK raised \in BOOLEAN : nodes = Boot(machine, raised)
  BY DEF Init
<1>3. nodes \in Nodes(machine) /\ 0 \in nodes.online /\ nodes.online = Cores(machine)
  BY <1>1, <1>2, BootType
<1>4. job \in [Actors -> Job] /\ landed \in Job /\ \A a \in Actors : job[a] = NoJob
  BY NoJobIs DEF Init
<1>5. world \in [load : Loads, level : Levels, charging : BOOLEAN]
  BY DEF Init
<1> QED BY <1>1, <1>3, <1>4, <1>5, NoJobIs DEF TypeOK, Shaped, Actors

(* What is left of a job is of the same kind. *)
LEMMA RestShaped ==
  ASSUME NEW m, NEW j \in Job, NEW op \in j.calls
  PROVE  LET rest == [j EXCEPT !.calls = @ \ {op}] IN
         /\ rest.calls # {} => ~ ARow(j)
         /\ AProfile(m, j) => AProfile(m, rest)
         /\ ALadder(m, j) => ALadder(m, rest)
<1> DEFINE rest == [j EXCEPT !.calls = @ \ {op}]
<1>1. /\ rest.calls = j.calls \ {op} /\ rest.what = j.what /\ rest.saving = j.saving
      /\ rest.pref = j.pref
  BY RestIs
<1> HIDE DEF rest
<1>2. rest.calls # {} => ~ ARow(j)
  BY <1>1 DEF ARow
<1>3. (AProfile(m, j) => AProfile(m, rest)) /\ (ALadder(m, j) => ALadder(m, rest))
  BY <1>1 DEF AProfile, ALadder
<1> QED BY <1>2, <1>3 DEF rest

(* On a Mac nobody has the call that takes cores away. *)
LEMMA NoCoresOnMac ==
  ASSUME Shaped, NEW a \in Actors, machine.mac
  PROVE  "cores" \notin job[a].calls
<1>1. "cores" \notin Switches /\ "cores" \notin Kinds
  BY DEF Kinds, Switches
<1>2. ProfileCalls(machine, job[a].what) \subseteq Switches
  BY LadderOpsAre DEF ProfileCalls
<1>3. job[a] = NoJob \/ ARow(job[a]) \/ AProfile(machine, job[a])
  BY DEF Shaped, Actors, ALadder
<1>4. CASE job[a] = NoJob
  BY <1>4, NoJobIs
<1>5. CASE ARow(job[a])
  BY <1>1, <1>5 DEF ARow
<1>6. CASE AProfile(machine, job[a])
  BY <1>1, <1>2, <1>6 DEF AProfile
<1> QED BY <1>3, <1>4, <1>5, <1>6

LEMMA ShapedCall ==
  ASSUME TypeOK, Shaped, NEW a \in Actors, Call(a)
  PROVE  TypeOK' /\ Shaped'
<1>1. PICK op \in Due(job[a]) : Makes(a, op)
  BY DEF Call
<1> DEFINE rest == [job[a] EXCEPT !.calls = @ \ {op}]
<1>2. /\ op \in job[a].calls /\ op \in Items(Calls) \cup Switches
      /\ machine' = machine /\ world' = world
      /\ nodes' \in Nodes(machine) /\ 0 \in nodes'.online
  BY <1>1, CallIs
<1>3. /\ job' \in [Actors -> Job] /\ job'[Other(a)] = job[Other(a)]
      /\ \/ rest.calls # {} /\ job'[a] = rest /\ landed' = landed
         \/ /\ rest.calls = {} /\ job'[a] = NoJob
            /\ landed' = IF job[a].alone THEN rest ELSE landed
  BY <1>1, CallLeaves
<1>4. job[a] \in Job /\ rest \in Job /\ rest.alone = job[a].alone
  <2>1. job[a] \in Job
    BY DEF TypeOK
  <2> QED BY <2>1, RestIs
<1>5. TypeOK'
  <2>1. machine' \in Machines /\ nodes' \in Nodes(machine') /\ 0 \in nodes'.online
        /\ world' \in [load : Loads, level : Levels, charging : BOOLEAN]
    BY <1>2 DEF TypeOK
  <2>2. landed' \in Job
    <3>1. landed \in Job
      BY DEF TypeOK
    <3> HIDE DEF rest
    <3> QED BY <1>3, <1>4, <3>1
  <2> QED BY <1>3, <2>1, <2>2 DEF TypeOK
<1>6. /\ rest.calls # {} => ~ ARow(job[a])
      /\ AProfile(machine, job[a]) => AProfile(machine, rest)
      /\ ALadder(machine, job[a]) => ALadder(machine, rest)
  BY <1>2, <1>4, RestShaped
<1>7. job[a] # NoJob
  BY <1>2, NoJobIs
<1> HIDE DEF rest
<1>8. job'["user"] = NoJob \/ ARow(job'["user"]) \/ AProfile(machine, job'["user"])
  BY <1>3, <1>6, <1>7 DEF Shaped, Actors, Other
<1>9. job'["daemon"] = NoJob \/ ALadder(machine, job'["daemon"])
  BY <1>3, <1>6, <1>7 DEF Shaped, Actors, Other
<1>10. \A b \in Actors : job'[b].alone => job'[b].calls # {} /\ job'[Other(b)].calls = {}
  <2>1. ~ job[Other(a)].alone
    BY <1>2, OtherIs DEF Shaped, Idle
  <2>2. job[a].alone => job[Other(a)].calls = {}
    BY DEF Shaped, Idle
  <2>3. job'[a].alone => job'[a].calls # {} /\ job'[Other(a)].calls = {}
    BY <1>3, <1>4, <2>2, NoJobIs
  <2>4. ~ job'[Other(a)].alone
    BY <1>3, <2>1
  <2> QED BY <2>3, <2>4, OtherIs
<1>11. machine.mac => nodes'.online = Cores(machine)
  <2> SUFFICES ASSUME machine.mac PROVE nodes'.online = Cores(machine)
    OBVIOUS
  <2>1. op # "cores"
    BY <1>2, NoCoresOnMac
  <2>2. nodes'.online = nodes.online
    <3>1. PICK w \in Wanted(job[a], op), v \in Turned(job[a], op) :
            nodes' = Called(job[a], op, w, v)
      BY <1>1, Zenon DEF Makes
    <3> QED BY <1>2, <2>1, <3>1, Wrote DEF TypeOK
  <2> QED BY <2>2 DEF Shaped
<1> QED BY <1>2, <1>5, <1>8, <1>9, <1>10, <1>11 DEF Shaped, Idle

LEMMA ShapedBegin ==
  ASSUME TypeOK, Shaped, NEW a \in Actors, NEW j \in Job, Begin(a, j),
         a = "user" => ARow(j) \/ AProfile(machine, j),
         a = "daemon" => ALadder(machine, j)
  PROVE  TypeOK' /\ Shaped'
<1> DEFINE stale == machine.busy /\ \E c \in Cores(machine) : nodes.gov[c] = "performance"
           i == [j EXCEPT !.alone = Idle(Other(a)), !.stale = stale]
           k == [job[Other(a)] EXCEPT !.alone = FALSE]
<1>1. /\ Idle(a) /\ j.calls # {} /\ landed' = NoJob
      /\ machine' = machine /\ nodes' = nodes /\ world' = world
      /\ job' \in [Actors -> Job] /\ job'[a] = i /\ job'[Other(a)] = k
  BY BeginIs
<1>2. TypeOK'
  BY <1>1, NoJobIs DEF TypeOK
<1>3. /\ i.calls = j.calls /\ i.what = j.what /\ i.saving = j.saving /\ i.pref = j.pref
      /\ i.num = j.num /\ i.alone = Idle(Other(a))
  <2>1. Idle(Other(a)) \in BOOLEAN /\ stale \in BOOLEAN
    <3>1. machine.busy \in BOOLEAN
      BY MachinesAssumption DEF TypeOK, Sound
    <3> QED BY <3>1, Zenon DEF Idle
  <2> DEFINE lone == Idle(Other(a))
  <2>2. i = [j EXCEPT !.alone = lone, !.stale = stale] /\ lone \in BOOLEAN
    BY <2>1
  <2> HIDE DEF stale, lone, i
  <2>3. /\ i.calls = j.calls /\ i.what = j.what /\ i.saving = j.saving /\ i.pref = j.pref
        /\ i.num = j.num /\ i.alone = lone
    BY <2>1, <2>2 DEF Job
  <2> QED BY <2>3 DEF lone
<1>4. /\ k.calls = job[Other(a)].calls /\ k.what = job[Other(a)].what
      /\ k.saving = job[Other(a)].saving /\ k.pref = job[Other(a)].pref
      /\ k.num = job[Other(a)].num /\ ~ k.alone
      /\ (job[Other(a)] = NoJob => k = NoJob)
  <2>1. job[Other(a)] \in Job
    BY OtherIs DEF TypeOK
  <2> QED BY <2>1, DisturbedIs, NoJobIs
<1> HIDE DEF i, k
<1>5. job'["user"] = NoJob \/ ARow(job'["user"]) \/ AProfile(machine, job'["user"])
  <2>1. CASE a = "user"
    BY <1>1, <1>3, <2>1 DEF ARow, AProfile
  <2>2. CASE a = "daemon"
    <3>1. Other(a) = "user"
      BY <2>2 DEF Other
    <3> QED BY <1>1, <1>4, <3>1 DEF Shaped, ARow, AProfile
  <2> QED BY <2>1, <2>2 DEF Actors
<1>6. job'["daemon"] = NoJob \/ ALadder(machine, job'["daemon"])
  <2>1. CASE a = "daemon"
    BY <1>1, <1>3, <2>1 DEF ALadder
  <2>2. CASE a = "user"
    <3>1. Other(a) = "daemon"
      BY <2>2 DEF Other
    <3> QED BY <1>1, <1>4, <3>1 DEF Shaped, ALadder
  <2> QED BY <2>1, <2>2 DEF Actors
<1>7. \A b \in Actors : job'[b].alone => job'[b].calls # {} /\ job'[Other(b)].calls = {}
  BY <1>1, <1>3, <1>4, OtherIs DEF Idle
<1> QED BY <1>1, <1>2, <1>5, <1>6, <1>7 DEF Shaped, Idle

LEMMA ShapedDies ==
  ASSUME TypeOK, Shaped, NEW a \in Actors, Dies(a)
  PROVE  TypeOK' /\ Shaped'
<1>1. /\ ~ Idle(a) /\ job' = [job EXCEPT ![a] = NoJob] /\ machine' = machine
      /\ nodes' = nodes /\ world' = world /\ landed' = landed
  BY DEF Dies
<1>2. job' \in [Actors -> Job] /\ job'[a] = NoJob /\ job'[Other(a)] = job[Other(a)]
  BY <1>1, NoJobIs, OtherIs DEF TypeOK
<1>3. TypeOK'
  BY <1>1, <1>2 DEF TypeOK
<1>4. job'["user"] = NoJob \/ ARow(job'["user"]) \/ AProfile(machine, job'["user"])
  BY <1>2 DEF Shaped, Actors, Other
<1>5. job'["daemon"] = NoJob \/ ALadder(machine, job'["daemon"])
  BY <1>2 DEF Shaped, Actors, Other
<1>6. \A b \in Actors : job'[b].alone => job'[b].calls # {} /\ job'[Other(b)].calls = {}
  BY <1>1, <1>2, OtherIs, NoJobIs DEF Shaped, Idle
<1> QED BY <1>1, <1>3, <1>4, <1>5, <1>6 DEF Shaped, Idle

LEMMA ShapedNext == TypeOK /\ Shaped /\ [Next]_vars => TypeOK' /\ Shaped'
<1> SUFFICES ASSUME TypeOK, Shaped, [Next]_vars PROVE TypeOK' /\ Shaped'
  OBVIOUS
<1>1. CASE Tick
  <2>1. PICK j \in Job : Begin("daemon", j) /\ ALadder(machine, j)
    BY <1>1, TickBegins
  <2> QED BY <2>1, ShapedBegin DEF Actors
<1>2. CASE User
  <2>1. PICK j \in Job : Begin("user", j) /\ (ARow(j) \/ AProfile(machine, j))
    BY <1>2, UserBegins DEF AWholeProfile
  <2> QED BY <2>1, ShapedBegin DEF Actors
<1>3. ASSUME NEW a \in Actors, Call(a) PROVE TypeOK' /\ Shaped'
  BY <1>3, ShapedCall
<1>4. ASSUME NEW a \in Actors, Dies(a) PROVE TypeOK' /\ Shaped'
  BY <1>4, ShapedDies
<1>5. CASE WorldChanges
  <2>1. /\ machine' = machine /\ nodes' = nodes /\ job' = job /\ landed' = landed
        /\ world' \in [load : Loads, level : Levels, charging : BOOLEAN]
    BY <1>5 DEF WorldChanges
  <2> QED BY <2>1 DEF TypeOK, Shaped, Idle
<1>6. CASE UNCHANGED vars
  BY <1>6 DEF vars, TypeOK, Shaped, Idle
<1>7. "user" \in Actors /\ "daemon" \in Actors
  BY DEF Actors
<1> QED BY <1>1, <1>2, <1>3, <1>4, <1>5, <1>6, <1>7 DEF Next

LEMMA AlwaysShaped == Spec => [](TypeOK /\ Shaped)
BY ShapedInit, ShapedNext, PTL DEF Spec

(* Whatever the daemon and the user write between each other's calls, the nodes
   hold what nodes of their kind can, cpu0 stays online, and a call is given a
   number that its node takes. *)
THEOREM TypeCorrect == Spec => []TypeOK
BY AlwaysShaped, PTL

-----------------------------------------------------------------------------
(* Nothing is invented.                                                    *)

(* A zone's limit is what it was, or in the zone's own range; and it is as
   asked, if that is in the range. *)
LEMMA SetWattsIs ==
  ASSUME NEW m, Sound(m), NEW s \in Nodes(m), NEW k \in Kinds, NEW w \in Nat,
         NEW z \in DOMAIN m.zones
  PROVE  /\ \A l \in Kinds : l # k => SetWatts(m, s, k, w)[z][l] = s.watts[z][l]
         /\ SetWatts(m, s, k, w)[z][k] =
              IF HasRange(m.zones[z][k]) /\ m.zones[z][k].node
              THEN Clamp(w, m.zones[z][k].min, m.zones[z][k].max) ELSE s.watts[z][k]
<1> DEFINE c == m.zones[z][k]
           x == Clamp(w, c.min, c.max)
<1>1. s.watts \in [DOMAIN m.zones -> [Kinds -> Nat]]
  BY NodesAre DEF Watts
<1>2. SetWatts(m, s, k, w)[z] =
        IF HasRange(c) /\ c.node THEN [s.watts[z] EXCEPT ![k] = x] ELSE s.watts[z]
  BY DEF SetWatts
<1> HIDE DEF c, x
<1>3. s.watts[z] \in [Kinds -> Nat]
  BY <1>1
<1>4. /\ \A l \in Kinds : l # k => SetWatts(m, s, k, w)[z][l] = s.watts[z][l]
      /\ SetWatts(m, s, k, w)[z][k] = IF HasRange(c) /\ c.node THEN x ELSE s.watts[z][k]
  BY <1>2, <1>3
<1> QED BY <1>4 DEF c, x

LEMMA ClampIs ==
  ASSUME NEW w \in Nat, NEW lo \in Nat, NEW hi \in Nat, lo <= hi
  PROVE  /\ Clamp(w, lo, hi) \in lo .. hi /\ Clamp(w, lo, hi) \in Nat
         /\ w \in lo .. hi => Clamp(w, lo, hi) = w
BY DEF Clamp

(* set_gpu_freq: the minimum down first, and then the limit can go where it
   is asked to. *)
LEMMA SetGpuIs ==
  ASSUME NEW m, Sound(m), GpuKnown(m), NEW s \in Nodes(m), NEW w \in Nat
  PROVE  /\ SetGpu(m, s, w).max \in GpuMin(m) .. GpuMax(m) \/ SetGpu(m, s, w).max = s.gpu.max
         /\ GpuMin(m) <= s.gpu.max =>
              SetGpu(m, s, w) = [min |-> GpuMin(m), max |-> Clamp(w, GpuMin(m), GpuMax(m))]
<1> DEFINE lo == GpuMin(m)
           hi == GpuMax(m)
           x == Clamp(w, lo, hi)
<1>1. lo \in Nat /\ hi \in Nat /\ lo < hi
  BY CardIs DEF GpuKnown
<1>2. x \in lo .. hi
  <2> HIDE DEF lo, hi
  <2> QED BY <1>1, ClampIs
<1>3. s.gpu \in [min : Nat, max : Nat]
  BY NodesAre DEF Gpus
<1>4. SetGpu(m, s, w) = GtMax(GtMin(s.gpu, lo), x)
  BY DEF SetGpu
<1> HIDE DEF lo, hi, x
<1>5. /\ SetGpu(m, s, w).max \in lo .. hi \/ SetGpu(m, s, w).max = s.gpu.max
      /\ lo <= s.gpu.max => SetGpu(m, s, w) = [min |-> lo, max |-> x]
  BY <1>1, <1>2, <1>3, <1>4 DEF GtMax, GtMin
<1> QED BY <1>5 DEF lo, hi, x

(* What a call of a's writes. *)
LEMMA CallWrites ==
  ASSUME TypeOK, Shaped, NEW a \in Actors, NEW op \in Due(job[a]), Makes(a, op)
  PROVE  \E w \in Nat, v \in BOOLEAN :
           /\ w \in Wanted(job[a], op) /\ v \in Turned(job[a], op)
           /\ nodes' = Called(job[a], op, w, v)
BY CallIs DEF Fits

LEMMA WattsDiscovered ==
  ASSUME TypeOK, Shaped, NEW a \in Actors, NEW op \in Due(job[a]), Makes(a, op),
         NEW z \in DOMAIN machine.zones, NEW k \in Kinds,
         \/ nodes.watts[z][k] = machine.boot[z][k]
         \/ HasRange(machine.zones[z][k]) /\
              nodes.watts[z][k] \in machine.zones[z][k].min .. machine.zones[z][k].max
  PROVE  \/ nodes'.watts[z][k] = machine.boot[z][k]
         \/ HasRange(machine.zones[z][k]) /\
              nodes'.watts[z][k] \in machine.zones[z][k].min .. machine.zones[z][k].max
<1>1. Sound(machine) /\ nodes \in Nodes(machine)
  BY MachinesAssumption DEF TypeOK
<1>2. PICK w \in Nat, v \in BOOLEAN : nodes' = Called(job[a], op, w, v)
  BY CallWrites
<1>3. op \in Items(Calls) \cup Switches
  BY CallIs
<1>4. CASE op \notin Kinds
  BY <1>1, <1>2, <1>3, <1>4, Wrote
<1>5. CASE op \in Kinds
  <2> DEFINE c == machine.zones[z][k]
  <2>1. nodes'.watts = SetWatts(machine, nodes, op, w)
    BY <1>1, <1>2, <1>3, <1>5, Wrote
  <2>2. CASE k # op
    BY <1>1, <1>5, <2>1, <2>2, SetWattsIs
  <2>3. CASE k = op
    <3>1. nodes'.watts[z][k] = IF HasRange(c) /\ c.node THEN Clamp(w, c.min, c.max)
                                                      ELSE nodes.watts[z][k]
      BY <1>1, <2>1, <2>3, SetWattsIs
    <3>2. c \in Constraint
      BY <1>1, ZonesType
    <3>3. HasRange(c) => Clamp(w, c.min, c.max) \in c.min .. c.max
      <4> HIDE DEF c
      <4>1. HasRange(c) => c.min \in Nat /\ c.max \in Nat /\ c.min <= c.max
        BY <3>2 DEF Constraint, HasRange
      <4> QED BY <4>1, ClampIs
    <3> QED BY <3>1, <3>3
  <2> QED BY <2>2, <2>3
<1> QED BY <1>4, <1>5

LEMMA OthersDiscovered ==
  ASSUME TypeOK, Shaped, NEW a \in Actors, NEW op \in Due(job[a]), Makes(a, op),
         NothingInvented
  PROVE  /\ GpuKnown(machine) => nodes'.gpu.max \in GpuMin(machine) .. GpuMax(machine)
         /\ machine.policies # {} => nodes'.aspm \in machine.policies
<1>1. Sound(machine) /\ nodes \in Nodes(machine)
  BY MachinesAssumption DEF TypeOK
<1>2. PICK w \in Nat, v \in BOOLEAN : nodes' = Called(job[a], op, w, v)
  BY CallWrites
<1>3. op \in Items(Calls) \cup Switches
  BY CallIs
<1>4. GpuKnown(machine) => nodes'.gpu.max \in GpuMin(machine) .. GpuMax(machine)
  <2>1. nodes'.gpu = nodes.gpu \/ nodes'.gpu = SetGpu(machine, nodes, w)
    BY <1>1, <1>2, <1>3, Wrote
  <2> QED BY <1>1, <2>1, SetGpuIs DEF NothingInvented
<1>5. machine.policies # {} => nodes'.aspm \in machine.policies
  <2>1. nodes'.aspm = nodes.aspm \/ nodes'.aspm = SetAspm(machine, nodes, Policy(job[a]))
    BY <1>1, <1>2, <1>3, Wrote
  <2> QED BY <2>1 DEF NothingInvented, SetAspm
<1> QED BY <1>4, <1>5

LEMMA WordsDiscovered ==
  ASSUME TypeOK, Shaped, NEW a \in Actors, NEW op \in Due(job[a]), Makes(a, op),
         NothingInvented, NEW c \in Cores(machine)
  PROVE  /\ machine.prefs # <<>> =>
              nodes'.pref[c] \in Items(machine.prefs) \cup {"balance_performance"}
         /\ machine.govs # {} => nodes'.gov[c] \in machine.govs \cup {"powersave"}
<1>1. Sound(machine) /\ nodes \in Nodes(machine) /\ job[a].pref \in Items(Prefs)
  BY MachinesAssumption DEF TypeOK, Job
<1>2. PICK w \in Nat, v \in BOOLEAN : nodes' = Called(job[a], op, w, v)
  BY CallWrites
<1>3. op \in Items(Calls) \cup Switches
  BY CallIs
<1>4. CASE op # "pref"
  <2>1. nodes'.pref = nodes.pref /\ nodes'.gov = nodes.gov
    BY <1>1, <1>2, <1>3, <1>4, Wrote
  <2> QED BY <2>1 DEF NothingInvented
<1>5. CASE op = "pref"
  <2> DEFINE asked == job[a].pref
             pref == ResolvePref(machine, asked)
             gov == ResolveGov(machine, IF pref = "performance" THEN pref ELSE "powersave")
  <2>1. nodes' = SetPref(machine, nodes, asked)
    BY <1>2, <1>5, CalledIs
  <2>2. /\ nodes'.pref[c] = pref \/ nodes'.pref[c] = nodes.pref[c]
        /\ nodes'.gov[c] = gov \/ nodes'.gov[c] = nodes.gov[c]
        /\ machine.govs # {} => gov \in machine.govs
    BY <1>1, <2>1, SetPrefIs
  <2>3. machine.prefs # <<>> => pref \in Items(machine.prefs)
    BY <1>1, ResolvePrefIs
  <2> HIDE DEF pref, gov
  <2> QED BY <2>2, <2>3 DEF NothingInvented
<1> QED BY <1>4, <1>5

LEMMA InventedInit == Init => NothingInvented
<1> SUFFICES ASSUME Init PROVE NothingInvented
  OBVIOUS
<1>1. machine \in Machines /\ Sound(machine) /\ Regular(machine)
  BY MachinesAssumption DEF Init
<1>2. PICK raised \in BOOLEAN : nodes = Boot(machine, raised)
  BY DEF Init
<1>3. /\ nodes.watts = [z \in DOMAIN machine.zones |-> [k \in Kinds |-> machine.boot[z][k]]]
      /\ nodes.pref = [c \in Cores(machine) |-> "balance_performance"]
      /\ nodes.gov = [c \in Cores(machine) |-> "powersave"]
      /\ nodes.aspm = "default"
      /\ nodes.gpu = IF HasCard(machine)
                     THEN [min |-> IF raised THEN GpuMax(machine) ELSE GpuMin(machine),
                           max |-> GpuMax(machine)]
                     ELSE [min |-> 0, max |-> 0]
  BY <1>2 DEF Boot
<1>4. GpuKnown(machine) => nodes.gpu.max \in GpuMin(machine) .. GpuMax(machine)
  <2> SUFFICES ASSUME GpuKnown(machine)
               PROVE  nodes.gpu.max \in GpuMin(machine) .. GpuMax(machine)
    OBVIOUS
  <2>1. GpuMin(machine) \in Nat /\ GpuMax(machine) \in Nat /\ GpuMin(machine) < GpuMax(machine)
        /\ HasCard(machine)
    BY <1>1, CardIs DEF GpuKnown
  <2> QED BY <1>3, <2>1
<1>5. machine.policies # {} => nodes.aspm \in machine.policies
  BY <1>1, <1>3 DEF Regular
<1>6. \A z \in DOMAIN machine.zones, k \in Kinds : nodes.watts[z][k] = machine.boot[z][k]
  BY <1>3
<1>7. \A c \in Cores(machine) :
        nodes.pref[c] = "balance_performance" /\ nodes.gov[c] = "powersave"
  BY <1>3
<1> QED BY <1>4, <1>5, <1>6, <1>7 DEF NothingInvented

LEMMA InventedCall ==
  ASSUME TypeOK, Shaped, NEW a \in Actors, Call(a), NothingInvented
  PROVE  NothingInvented'
<1>1. PICK op \in Due(job[a]) : Makes(a, op)
  BY DEF Call
<1>2. machine' = machine
  BY <1>1, CallIs
<1>3. \A z \in DOMAIN machine.zones, k \in Kinds :
        \/ nodes'.watts[z][k] = machine.boot[z][k]
        \/ HasRange(machine.zones[z][k]) /\
             nodes'.watts[z][k] \in machine.zones[z][k].min .. machine.zones[z][k].max
  BY <1>1, WattsDiscovered DEF NothingInvented
<1>4. /\ GpuKnown(machine) => nodes'.gpu.max \in GpuMin(machine) .. GpuMax(machine)
      /\ machine.policies # {} => nodes'.aspm \in machine.policies
  BY <1>1, OthersDiscovered
<1>5. \A c \in Cores(machine) :
        /\ machine.prefs # <<>> =>
             nodes'.pref[c] \in Items(machine.prefs) \cup {"balance_performance"}
        /\ machine.govs # {} => nodes'.gov[c] \in machine.govs \cup {"powersave"}
  BY <1>1, WordsDiscovered
<1> QED BY <1>2, <1>3, <1>4, <1>5 DEF NothingInvented

(* Only a call writes the nodes. *)
LEMMA OnlyCallsWrite ==
  ASSUME TypeOK, [Next]_vars, \A a \in Actors : ~ Call(a)
  PROVE  machine' = machine /\ nodes' = nodes
<1>1. CASE Tick
  BY <1>1, TickBegins, BeginIs DEF Actors
<1>2. CASE User
  BY <1>2, UserBegins, BeginIs DEF Actors
<1>3. CASE \E a \in Actors : Dies(a)
  BY <1>3 DEF Dies
<1>4. CASE WorldChanges
  BY <1>4 DEF WorldChanges
<1>5. CASE UNCHANGED vars
  BY <1>5 DEF vars
<1> QED BY <1>1, <1>2, <1>3, <1>4, <1>5 DEF Next, Actors

(* Whoever writes, in whatever order, killed where they may be: a power limit is
   what firmware set or in its own zone's range, the card's limit is in its
   range, and preferences, governors and policies are those that are listed. *)
THEOREM NothingInventedHolds == Spec => []NothingInvented
<1>1. TypeOK /\ Shaped /\ NothingInvented /\ [Next]_vars => NothingInvented'
  <2> SUFFICES ASSUME TypeOK, Shaped, NothingInvented, [Next]_vars
               PROVE  NothingInvented'
    OBVIOUS
  <2>1. CASE \E a \in Actors : Call(a)
    BY <2>1, InventedCall
  <2>2. CASE \A a \in Actors : ~ Call(a)
    <3>1. machine' = machine /\ nodes' = nodes
      BY <2>2, OnlyCallsWrite
    <3> QED BY <3>1 DEF NothingInvented
  <2> QED BY <2>1, <2>2
<1> QED BY <1>1, InventedInit, AlwaysShaped, PTL DEF Spec

-----------------------------------------------------------------------------
(* Rows show their effect.                                                 *)

(* A row of the card asks for what its range has, and there is no row for a
   limit that no zone has. *)
Holders(m, k) == {z \in DOMAIN m.zones : m.zones[z][k].named}

RowAsks ==
  LET j == job["user"] IN
  j.what = "row" =>
    /\ "gpu" \in j.calls /\ GpuKnown(machine) => j.num \in GpuMin(machine) .. GpuMax(machine)
    /\ \A k \in Kinds : k \in j.calls => Holders(machine, k) # {}

LEMMA LimitIsThere ==
  ASSUME NEW m, NEW k \in Kinds, Touches(m, k)
  PROVE  Holders(m, k) # {}
<1>1. /\ k # "cores" /\ k # "freq" /\ k # "pref" /\ k # "gpu" /\ k # "aspm"
      /\ k # "bright" /\ k # "writeback" /\ k \notin Switches
  BY DEF Kinds, Switches
<1>2. \E z \in DOMAIN m.zones : m.zones[z][k].named
  BY <1>1, Zenon DEF Touches
<1> QED BY <1>2 DEF Holders

LEMMA RowStarts ==
  ASSUME TypeOK, NEW op \in Kinds \cup {"gpu", "writeback"} \cup Switches,
         NEW n \in Nat, op = "writeback" => n \in Writebacks, NEW v \in BOOLEAN, Row(op, n, v)
  PROVE  /\ job'["user"].calls = {op} /\ job'["user"].num = n
         /\ machine' = machine
<1> DEFINE r == [NoJob EXCEPT !.calls = {op}, !.num = n, !.value = v]
<1>1. r \in Job /\ r.calls = {op} /\ r.num = n
  <2>1. op \in Items(Calls) \cup Switches
    BY RowOps
  <2> QED BY <2>1, NoJobIs DEF Job
<1>2. Begin("user", r)
  BY Zenon DEF Row
<1> HIDE DEF r
<1> DEFINE stale == machine.busy /\ \E c \in Cores(machine) : nodes.gov[c] = "performance"
           lone == Idle(Other("user"))
<1>3. job'["user"] = [r EXCEPT !.alone = lone, !.stale = stale] /\ machine' = machine
  BY <1>1, <1>2, BeginIs DEF Actors
<1> HIDE DEF stale, lone
<1> QED BY <1>1, <1>3 DEF Job

LEMMA ProfileStarts ==
  ASSUME TypeOK, ApplyProfile
  PROVE  job'["user"].what # "row" /\ machine' = machine
<1>1. PICK p \in Named :
        Begin("user", [NoJob EXCEPT !.what = p, !.calls = ProfileCalls(machine, p),
                             !.saving = (p = "extreme"), !.pref = ProfilePref(p)])
  BY Zenon DEF ApplyProfile
<1> DEFINE saving == (p = "extreme")
           calls == ProfileCalls(machine, p)
           pref == ProfilePref(p)
           j == [NoJob EXCEPT !.what = p, !.calls = calls, !.saving = saving, !.pref = pref]
<1>2. saving \in BOOLEAN
  OBVIOUS
<1>3. p \in Whats /\ calls \in SUBSET (Items(Calls) \cup Switches) /\ pref \in Items(Prefs)
      /\ p # "row"
  BY ProfileIs DEF Whats
<1>4. j \in Job /\ j.what = p
  <2> HIDE DEF saving, calls, pref
  <2> QED BY <1>2, <1>3, NoJobIs DEF Job
<1>5. Begin("user", j)
  BY <1>1
<1> HIDE DEF j
<1> DEFINE stale == machine.busy /\ \E c \in Cores(machine) : nodes.gov[c] = "performance"
           lone == Idle(Other("user"))
<1>6. job'["user"] = [j EXCEPT !.alone = lone, !.stale = stale] /\ machine' = machine
  BY <1>4, <1>5, BeginIs DEF Actors
<1> HIDE DEF stale, lone
<1> QED BY <1>3, <1>4, <1>6 DEF Job

LEMMA RowAsksUser ==
  ASSUME TypeOK, NothingInvented, User
  PROVE  RowAsks'
<1>0. Sound(machine) /\ nodes \in Nodes(machine)
  BY MachinesAssumption DEF TypeOK
<1>1. CASE ApplyProfile
  BY <1>1, ProfileStarts DEF RowAsks
<1>2. ASSUME NEW op \in Kinds \cup {"gpu", "writeback"} \cup Switches,
             NEW n \in Nat, op = "writeback" => n \in Writebacks, NEW v \in BOOLEAN,
             Row(op, n, v),
             op = "gpu" /\ GpuKnown(machine) => n \in GpuMin(machine) .. GpuMax(machine),
             op \in Kinds => Holders(machine, op) # {}
      PROVE  RowAsks'
  <2>1. job'["user"].calls = {op} /\ job'["user"].num = n /\ machine' = machine
    BY <1>2, RowStarts
  <2> QED BY <1>2, <2>1 DEF RowAsks
<1>3. CASE Toggle
  <2>1. PICK k \in Switches : Row(k, 0, ~ ReadSwitch(machine, nodes, k))
    BY <1>3 DEF Toggle
  <2>2. (~ ReadSwitch(machine, nodes, k)) \in BOOLEAN
    BY <1>0, ReadSwitchType, Zenon
  <2>3. k # "writeback" /\ k # "gpu" /\ k \notin Kinds
    BY DEF Switches, Kinds
  <2> QED BY <1>2, <2>1, <2>2, <2>3
<1>4. CASE WattsLeft
  <2>1. PICK k \in Kinds :
          Touches(machine, k) /\
          Row(k, Higher(Minus(ReadWatts(machine, nodes, k), 2), ShownMin(machine)), FALSE)
    BY <1>4 DEF WattsLeft
  <2>2. Higher(Minus(ReadWatts(machine, nodes, k), 2), ShownMin(machine)) \in Nat
    BY <1>0, ReadWattsType, ShownType DEF Higher, Minus
  <2>3. k # "writeback" /\ k # "gpu" /\ Holders(machine, k) # {}
    BY <2>1, LimitIsThere DEF Kinds
  <2> QED BY <1>2, <2>1, <2>2, <2>3
<1>5. CASE WattsRight
  <2>1. PICK k \in Kinds :
          Touches(machine, k) /\
          Row(k, Lower(ReadWatts(machine, nodes, k) + 2, ShownMax(machine)), FALSE)
    BY <1>5 DEF WattsRight
  <2>2. Lower(ReadWatts(machine, nodes, k) + 2, ShownMax(machine)) \in Nat
    BY <1>0, ReadWattsType, ShownType DEF Lower
  <2>3. k # "writeback" /\ k # "gpu" /\ Holders(machine, k) # {}
    BY <2>1, LimitIsThere DEF Kinds
  <2> QED BY <1>2, <2>1, <2>2, <2>3
<1>6. nodes.gpu.min \in Nat /\ nodes.gpu.max \in Nat
  BY <1>0, NodesAre DEF Gpus
<1>7. GpuKnown(machine) =>
        /\ GpuMin(machine) \in Nat /\ GpuMax(machine) \in Nat /\ GpuMin(machine) # 0
        /\ GpuMax(machine) # 0
        /\ nodes.gpu.max \in GpuMin(machine) .. GpuMax(machine)
  BY <1>0, CardIs DEF GpuKnown, NothingInvented
<1>8. CASE GpuLeft
  <2> DEFINE n == Higher(Minus(nodes.gpu.max, 1), GpuShownMin(machine, nodes))
  <2>1. Row("gpu", n, FALSE) /\ HasCard(machine)
    BY <1>8 DEF GpuLeft
  <2>2. GpuShownMin(machine, nodes) \in Nat
    BY <1>0, <1>6, <2>1, CardIs DEF GpuShownMin
  <2>3. n \in Nat
    BY <1>6, <2>2 DEF Higher, Minus
  <2>4. GpuKnown(machine) => n \in GpuMin(machine) .. GpuMax(machine)
    <3>1. GpuKnown(machine) => GpuShownMin(machine, nodes) = GpuMin(machine)
      BY <1>7 DEF GpuShownMin
    <3> QED BY <1>6, <1>7, <3>1 DEF Higher, Minus
  <2> HIDE DEF n
  <2> QED BY <1>2, <2>1, <2>3, <2>4, "gpu" \notin Kinds DEF Kinds
<1>9. CASE GpuRight
  <2> DEFINE n == Lower(nodes.gpu.max + 1, GpuShownMax(machine, nodes))
  <2>1. Row("gpu", n, FALSE) /\ HasCard(machine)
    BY <1>9 DEF GpuRight
  <2>2. GpuShownMax(machine, nodes) \in Nat
    BY <1>0, <1>6, <2>1, CardIs DEF GpuShownMax
  <2>3. n \in Nat
    BY <1>6, <2>2 DEF Lower
  <2>4. GpuKnown(machine) => n \in GpuMin(machine) .. GpuMax(machine)
    <3>1. GpuKnown(machine) => GpuShownMax(machine, nodes) = GpuMax(machine)
      BY <1>7 DEF GpuShownMax
    <3> QED BY <1>6, <1>7, <3>1 DEF Lower
  <2> HIDE DEF n
  <2> QED BY <1>2, <2>1, <2>3, <2>4, "gpu" \notin Kinds DEF Kinds
<1>10. ASSUME NEW to \in Int, WritebackRow(to) PROVE RowAsks'
  <2>1. Centisecs(to) \in Writebacks /\ Centisecs(to) \in Nat
    BY SMT DEF Centisecs, Clamp, Writebacks
  <2>2. Row("writeback", Centisecs(to), FALSE)
    BY <1>10, Zenon DEF WritebackRow
  <2> QED BY <1>2, <2>1, <2>2, "writeback" \notin Kinds DEF Kinds
<1>11. nodes.writeback - 1 \in Int /\ nodes.writeback + 1 \in Int
  <2>1. \A n \in Writebacks : n - 1 \in Int /\ n + 1 \in Int
    BY SMT DEF Writebacks
  <2>2. nodes.writeback \in Writebacks
    BY <1>0, NodesAre
  <2> QED BY <2>1, <2>2
<1>12. CASE WritebackLeft
  BY <1>10, <1>11, <1>12 DEF WritebackLeft
<1>13. CASE WritebackRight
  BY <1>10, <1>11, <1>13 DEF WritebackRight
<1> QED BY <1>1, <1>3, <1>4, <1>5, <1>8, <1>9, <1>12, <1>13 DEF User

LEMMA RowAsksNext ==
  ASSUME TypeOK, Shaped, NothingInvented, RowAsks, [Next]_vars
  PROVE  RowAsks'
<1>1. CASE Tick
  <2>1. PICK j \in Job : Begin("daemon", j)
    BY <1>1, TickBegins
  <2>2. job'["user"] = [job["user"] EXCEPT !.alone = FALSE] /\ machine' = machine
    BY <2>1, BeginIs DEF Actors, Other
  <2>3. job["user"] \in Job
    BY DEF TypeOK, Actors
  <2>4. job'["user"].what = job["user"].what /\ job'["user"].num = job["user"].num
        /\ job'["user"].calls = job["user"].calls
    BY <2>2, <2>3, DisturbedIs
  <2> QED BY <2>2, <2>4 DEF RowAsks
<1>2. CASE User
  BY <1>2, RowAsksUser
<1>3. ASSUME NEW a \in Actors, Call(a) PROVE RowAsks'
  <2>1. PICK op \in Due(job[a]) : Makes(a, op)
    BY <1>3 DEF Call
  <2> DEFINE rest == [job[a] EXCEPT !.calls = @ \ {op}]
  <2>2. machine' = machine
    BY <2>1, CallIs
  <2>3. /\ job'[Other(a)] = job[Other(a)]
        /\ job'[a] = rest \/ job'[a] = NoJob
    BY <2>1, CallLeaves
  <2>4. job[a] \in Job
    BY DEF TypeOK
  <2>5. rest.what = job[a].what /\ rest.num = job[a].num /\ rest.calls \subseteq job[a].calls
    BY <2>4, RestIs
  <2> HIDE DEF rest
  <2>6. CASE a = "user"
    BY <2>2, <2>3, <2>5, <2>6, NoJobIs DEF RowAsks
  <2>7. CASE a = "daemon"
    BY <2>2, <2>3, <2>7 DEF RowAsks, Other
  <2> QED BY <2>6, <2>7 DEF Actors
<1>4. ASSUME NEW a \in Actors, Dies(a) PROVE RowAsks'
  <2>1. job' = [job EXCEPT ![a] = NoJob] /\ machine' = machine
    BY <1>4 DEF Dies
  <2>2. job'["user"] = job["user"] \/ job'["user"] = NoJob
    BY <2>1 DEF TypeOK, Actors
  <2> QED BY <2>1, <2>2, NoJobIs DEF RowAsks
<1>5. CASE WorldChanges
  BY <1>5 DEF WorldChanges, RowAsks
<1>6. CASE UNCHANGED vars
  BY <1>6 DEF vars, RowAsks
<1> QED BY <1>1, <1>2, <1>3, <1>4, <1>5, <1>6 DEF Next, Actors

LEMMA AlwaysRowAsks == Spec => []RowAsks
<1>1. Init => RowAsks
  BY NoJobIs DEF Init, RowAsks, Actors
<1> QED BY <1>1, RowAsksNext, AlwaysShaped, NothingInventedHolds, PTL DEF Spec

(* A switch is read as it was written, through all of its nodes. *)
LEMMA SwitchShows ==
  ASSUME NEW m, Sound(m), Regular(m), NEW s \in Nodes(m), NEW k \in Switches,
         NEW v \in BOOLEAN, Looked(m, k) # {},
         NEW t, t.on = SetSwitch(m, s, k, v)
  PROVE  ReadSwitch(m, t, k) = v
<1> DEFINE first == m.nodes[k][Min(Looked(m, k))]
<1>1. /\ first \in Items(m.nodes[k]) /\ Items(m.nodes[k]) \subseteq m.switched
      /\ \A i \in Looked(m, k) : m.nodes[k][i] \in Items(m.nodes[k])
      /\ Min(Looked(m, k)) \in Looked(m, k) /\ Min(Looked(m, k)) \in DOMAIN m.nodes[k]
  BY LookedIs
<1>2. s.on \in [m.switched -> BOOLEAN]
  BY NodesAre DEF Ons
<1>3. DOMAIN s.on = m.switched
  BY <1>2
<1>4. ReadSwitch(m, t, k) =
        IF k \in {"bluetooth", "wifi"} THEN \A i \in Looked(m, k) : t.on[m.nodes[k][i]]
        ELSE IF first = "no_turbo" THEN ~ t.on["no_turbo"]
        ELSE IF k \in {"wifi_save", "autosuspend"}
             THEN \E i \in Looked(m, k) : t.on[m.nodes[k][i]] ELSE t.on[first]
  BY Zenon DEF ReadSwitch
<1>5. CASE k = "turbo"
  <2>1. m.nodes[k] = <<"no_turbo">> \/ m.nodes[k] = <<"boost">>
    <3>1. m.nodes[k] # <<>>
      BY <1>1
    <3> QED BY <1>5, <3>1 DEF Regular
  <2>2. first = m.nodes[k][1] /\ m.nodes[k] # <<>>
        /\ k \notin {"wifi_save", "autosuspend"} /\ k \notin {"bluetooth", "wifi"}
    BY <1>1, <1>5, <2>1
  <2>3. t.on[first] = (v # (first = "no_turbo"))
    <3> HIDE DEF first
    <3>1. first \in DOMAIN s.on
      BY <1>1, <1>3
    <3> QED BY <1>5, <2>2, <3>1, Zenon DEF SetSwitch
  <2> HIDE DEF first
  <2>4. CASE first = "no_turbo"
    BY <1>4, <2>2, <2>3, <2>4, Zenon
  <2>5. CASE first # "no_turbo"
    <3>1. (first = "no_turbo") = FALSE /\ (v # FALSE) = v
      BY <2>5, Zenon
    <3>2. t.on[first] = v
      BY <2>3, <3>1, Zenon
    <3>3. ReadSwitch(m, t, k) = t.on[first]
      BY <1>4, <2>2, <2>5, Zenon
    <3> QED BY <3>2, <3>3, Zenon
  <2> QED BY <2>4, <2>5
<1>6. CASE k # "turbo"
  <2>1. first # "no_turbo"
    BY <1>1, <1>6 DEF Regular
  <2>2. \A n \in Items(m.nodes[k]) : t.on[n] = v
    <3>1. \A n \in Items(m.nodes[k]) : n \in DOMAIN s.on
      BY <1>1, <1>3
    <3> QED BY <1>6, <3>1, Zenon DEF SetSwitch
  <2> HIDE DEF first
  <2>3. (\E i \in Looked(m, k) : t.on[m.nodes[k][i]]) = v
    <3>1. \A i \in Looked(m, k) : t.on[m.nodes[k][i]] = v
      BY <1>1, <2>2
    <3> QED BY <3>1, Zenon
  <2>4. t.on[first] = v
    BY <1>1, <2>2
  <2>5. (\A i \in Looked(m, k) : t.on[m.nodes[k][i]]) = v
    <3>1. \A i \in Looked(m, k) : t.on[m.nodes[k][i]] = v
      BY <1>1, <2>2
    <3> QED BY <3>1, Zenon
  <2> QED BY <1>4, <2>1, <2>3, <2>4, <2>5, Zenon
<1> QED BY <1>5, <1>6

(* A limit is read as it was written, where the first zone takes it. *)
LEMMA FirstHolder ==
  ASSUME NEW m, Sound(m), NEW k \in Kinds, Holders(m, k) # {}
  PROVE  Min(Holders(m, k)) \in DOMAIN m.zones
<1>1. DOMAIN m.zones \subseteq Nat
  <2>1. m.zones \in Seq([Kinds -> Constraint])
    BY DEF Sound
  <2> QED BY <2>1
<1>2. Holders(m, k) \subseteq DOMAIN m.zones
  BY DEF Holders
<1> QED BY <1>1, <1>2, Smallest

LEMMA WattsShow ==
  ASSUME NEW m, Sound(m), NEW s \in Nodes(m), NEW k \in Kinds, NEW w \in Nat,
         Holders(m, k) # {}, NEW z, z = Min(Holders(m, k)),
         HasRange(m.zones[z][k]), m.zones[z][k].node,
         w \in m.zones[z][k].min .. m.zones[z][k].max,
         NEW t, t.watts = SetWatts(m, s, k, w)
  PROVE  ReadWatts(m, t, k) = w
<1> DEFINE c == m.zones[z][k]
<1>1. z \in DOMAIN m.zones
  BY FirstHolder
<1>2. ReadWatts(m, t, k) = t.watts[z][k]
  BY Zenon DEF ReadWatts, Holders
<1>3. t.watts[z][k] = Clamp(w, c.min, c.max)
  BY <1>1, SetWattsIs
<1>4. c.min \in Nat /\ c.max \in Nat /\ c.min <= c.max
  <2>1. c \in Constraint
    BY <1>1, ZonesType
  <2> QED BY <2>1 DEF Constraint, HasRange
<1>5. Clamp(w, c.min, c.max) = w
  <2>1. w \in c.min .. c.max
    OBVIOUS
  <2> HIDE DEF c
  <2> QED BY <1>4, <2>1, ClampIs
<1> QED BY <1>2, <1>3, <1>5

LEMMA RowCallShows ==
  ASSUME TypeOK, Shaped, NothingInvented, RowAsks, NEW op \in Rows
  PROVE  Shows(op)
<1> DEFINE j == job["user"]
<1> SUFFICES ASSUME j.what = "row", op \in Due(j), Makes("user", op)
             PROVE  /\ op \in Switches /\ Looked(machine, op) # {} => RowShows(op)' = j.value
                    /\ op = "writeback" \/ (op = "gpu" /\ GpuKnown(machine)) =>
                         RowShows(op)' = j.num
                    /\ op \in Kinds =>
                         LET z == Min({y \in DOMAIN machine.zones :
                                         machine.zones[y][op].named})
                             c == machine.zones[z][op]
                         IN Writable(z, op) /\ j.num \in c.min .. c.max =>
                              RowShows(op)' = j.num
  BY Zenon DEF Shows
<1>1. Sound(machine) /\ Regular(machine) /\ nodes \in Nodes(machine) /\ j \in Job
  BY MachinesAssumption DEF TypeOK, Actors
<1>2. machine' = machine /\ op \in Items(Calls) \cup Switches /\ op \in j.calls
  BY CallIs DEF Actors
<1>3. PICK w \in Nat, v \in BOOLEAN :
        w \in Wanted(j, op) /\ v \in Turned(j, op) /\ nodes' = Called(j, op, w, v)
  BY CallWrites DEF Actors
<1>4. w = j.num /\ v = j.value
  <2>1. Wanted(j, op) = {j.num}
    BY RowWantedIs
  <2>2. Turned(j, op) = {j.value}
    BY DEF Turned
  <2> QED BY <1>3, <2>1, <2>2
<1>5. ASSUME op \in Switches, Looked(machine, op) # {}
      PROVE  RowShows(op)' = j.value
  <2>1. nodes'.on = SetSwitch(machine, nodes, op, v)
    BY <1>1, <1>2, <1>3, <1>5, Wrote
  <2>2. ReadSwitch(machine, nodes', op) = v
    BY <1>1, <1>5, <2>1, SwitchShows
  <2>3. RowShows(op)' = ReadSwitch(machine', nodes', op)
    <3>1. /\ op # "cores" /\ op # "freq" /\ op # "pref" /\ op # "gpu" /\ op # "aspm"
          /\ op # "bright" /\ op # "writeback" /\ op \notin Kinds
      BY <1>5 DEF Kinds, Switches
    <3> QED BY <1>5, <3>1, Zenon DEF RowShows
  <2> QED BY <1>2, <1>4, <2>2, <2>3
<1>6. ASSUME op = "writeback" PROVE RowShows(op)' = j.num
  <2>1. nodes'.writeback = w
    BY <1>1, <1>2, <1>3, <1>6, Wrote
  <2>2. RowShows(op)' = nodes'.writeback
    <3>1. "writeback" \notin Kinds \cup Switches
      BY DEF Kinds, Switches
    <3> QED BY <1>6, <3>1, Zenon DEF RowShows
  <2> QED BY <1>4, <2>1, <2>2
<1>7. ASSUME op = "gpu", GpuKnown(machine) PROVE RowShows(op)' = j.num
  <2>1. nodes'.gpu = SetGpu(machine, nodes, w)
    BY <1>1, <1>2, <1>3, <1>7, Wrote
  <2>2. /\ GpuMin(machine) \in Nat /\ GpuMax(machine) \in Nat
        /\ GpuMin(machine) <= GpuMax(machine)
        /\ GpuMin(machine) <= nodes.gpu.max
        /\ w \in GpuMin(machine) .. GpuMax(machine)
    <3>1. HasCard(machine) /\ GpuMin(machine) < GpuMax(machine)
      BY <1>7 DEF GpuKnown
    <3>2. GpuMin(machine) \in Nat /\ GpuMax(machine) \in Nat
      BY <1>1, <3>1, CardIs
    <3>3. w \in GpuMin(machine) .. GpuMax(machine)
      BY <1>2, <1>4, <1>7 DEF RowAsks
    <3>4. nodes.gpu.max \in GpuMin(machine) .. GpuMax(machine)
      BY <1>7 DEF NothingInvented
    <3> QED BY <3>1, <3>2, <3>3, <3>4
  <2>3. nodes'.gpu = [min |-> GpuMin(machine),
                      max |-> Clamp(w, GpuMin(machine), GpuMax(machine))]
    BY <1>1, <1>7, <2>1, <2>2, SetGpuIs
  <2>4. Clamp(w, GpuMin(machine), GpuMax(machine)) = w
    BY <2>2, ClampIs
  <2>5. RowShows(op)' = nodes'.gpu.max
    <3>1. "gpu" \notin Kinds \cup Switches
      BY DEF Kinds, Switches
    <3> QED BY <1>7, <3>1, Zenon DEF RowShows
  <2> QED BY <1>4, <2>3, <2>4, <2>5
<1>8. ASSUME op \in Kinds, NEW z, z = Min(Holders(machine, op)), Writable(z, op),
             j.num \in machine.zones[z][op].min .. machine.zones[z][op].max
      PROVE  RowShows(op)' = j.num
  <2>1. nodes'.watts = SetWatts(machine, nodes, op, w)
    BY <1>1, <1>2, <1>3, <1>8, Wrote
  <2>2. Holders(machine, op) # {}
    BY <1>2, <1>8 DEF RowAsks
  <2>3. ReadWatts(machine, nodes', op) = w
    BY <1>1, <1>4, <1>8, <2>1, <2>2, WattsShow DEF Writable
  <2>4. RowShows(op)' = ReadWatts(machine', nodes', op)
    <3>1. /\ op # "cores" /\ op # "freq" /\ op # "pref" /\ op # "gpu" /\ op # "aspm"
          /\ op # "bright" /\ op # "writeback" /\ op \notin Switches
      BY <1>8 DEF Kinds, Switches
    <3> QED BY <1>8, <3>1, Zenon DEF RowShows
  <2> QED BY <1>2, <1>4, <2>3, <2>4
<1>9. ASSUME op \in Kinds
      PROVE  LET z == Min({y \in DOMAIN machine.zones : machine.zones[y][op].named})
                 c == machine.zones[z][op]
             IN Writable(z, op) /\ j.num \in c.min .. c.max => RowShows(op)' = j.num
  <2> DEFINE z == Min(Holders(machine, op))
  <2>1. Writable(z, op) /\ j.num \in machine.zones[z][op].min .. machine.zones[z][op].max =>
          RowShows(op)' = j.num
    <3> HIDE DEF j
    <3> QED BY <1>8, <1>9
  <2> QED BY <2>1, Zenon DEF Holders
<1> QED BY <1>5, <1>6, <1>7, <1>9

(* Whatever the ladder writes in between: what a row has written it shows, the
   switches through all of their nodes, the limits within the range of their
   own zone. *)
THEOREM RowsShowTheirEffectHolds == Spec => RowsShowTheirEffect
<1>1. TypeOK /\ Shaped /\ NothingInvented /\ RowAsks /\ [Next]_vars =>
        [\A op \in Rows : Shows(op)]_vars
  BY RowCallShows
<1> QED BY <1>1, AlwaysShaped, NothingInventedHolds, AlwaysRowAsks, PTL
        DEF Spec, RowsShowTheirEffect

-----------------------------------------------------------------------------
(* What an undisturbed job has left, call by call.  m, s: the machine and    *)
(* its nodes; j: the job, and what it has still to call.                     *)

Nearest(m, s, asked) ==
  \A c \in s.online, p \in Items(m.prefs) : Apart(s.pref[c], asked) <= Apart(p, asked)

(* Before the preference is set a kernel that minds the governor does not mind
   this one; after it, no core comes online any more. *)
PrefDone(m, s, j) ==
  j.what # "row" /\ m.pref /\ ~ j.stale =>
    IF "pref" \in j.calls
    THEN m.busy => \A c \in Cores(m) : s.gov[c] # "performance"
    ELSE "cores" \notin j.calls /\ Nearest(m, s, j.pref)

Whole == {"performance", "normal", "extreme"}
Full(j) == j.what # "extreme"

CoresDone(m, s, j) ==
  IF Full(j) THEN s.online = Cores(m)
  ELSE Cardinality(s.online) = Lower(2, Cardinality(Cores(m)))

FreqLanded(m, s, full) ==
  FreqKnown(m, s) =>
    \A c \in s.online :
      s.freq[c] = IF full THEN m.cpus[c].max ELSE Higher(m.cpus[c].min, FreqMin(m, s))

FreqDone(m, s, j) == "cores" \notin j.calls /\ FreqLanded(m, s, Full(j))

WattsDone(m, s, j, k) ==
  \A z \in DOMAIN m.zones :
    HasRange(m.zones[z][k]) /\ m.zones[z][k].node =>
      s.watts[z][k] = IF Full(j) THEN m.zones[z][k].max ELSE m.zones[z][k].min

GpuDone(m, s, j) ==
  GpuKnown(m) => s.gpu = [min |-> GpuMin(m), max |-> IF Full(j) THEN GpuMax(m) ELSE GpuMin(m)]

Landed(m, s, k, v) ==
  \A n \in Items(m.nodes[k]) : s.on[n] = (v # (n = "no_turbo"))

(* How a profile turns a switch: those that save power, and the others. *)
Wish(j, k) == IF k \in {"turbo", "kbd", "watchdog", "keepalive", "display"}
              THEN Full(j) ELSE ~ Full(j)

OpDone(m, s, j, op) ==
  /\ op = "cores" => CoresDone(m, s, j)
  /\ op = "freq" => FreqDone(m, s, j)
  /\ op \in Kinds => WattsDone(m, s, j, op)
  /\ op = "gpu" => GpuDone(m, s, j)
  /\ op \in Switches => Landed(m, s, op, Wish(j, op))
  /\ op = "writeback" => s.writeback = IF Full(j) THEN 500 ELSE 6000
  /\ op = "bright" => s.bright = IF Full(j) THEN 100 ELSE 10

ProfileDone(m, s, j) ==
  j.what \in Whole =>
    \A op \in ProfileCalls(m, j.what) \ j.calls : OpDone(m, s, j, op)

(* The cores come before the preference and the frequency. *)
LEMMA CoresFirst ==
  ASSUME ~ machine.mac, NEW j, j.what # "row", NEW op \in Due(j), op = "pref" \/ op = "freq"
  PROVE  "cores" \notin j.calls
<1> DEFINE order == Order(j.what)
           first == {i \in DOMAIN order : /\ order[i] \in j.calls
                                          /\ \A k \in 1 .. i - 1 : order[k] \notin j.calls}
<1>1. op \in {order[i] : i \in first}
  BY Zenon DEF Due
<1>2. PICK i \in DOMAIN order : op = order[i] /\ \A k \in 1 .. i - 1 : order[k] \notin j.calls
  BY <1>1
<1>3. order = Calls \/ order = LadderOrder
  BY DEF Order
<1> HIDE DEF order
<1>4. CASE order = Calls
  <2>1. Calls[1] = "cores" /\ DOMAIN Calls = 1 .. 15
    BY DEF Calls
  <2>2. i \in 1 .. 15 /\ i # 1
    BY <1>2, <1>4, <2>1
  <2>3. 1 \in 1 .. i - 1
    BY <2>2
  <2> QED BY <1>2, <1>4, <2>1, <2>3
<1>5. CASE order = LadderOrder
  <2>1. /\ LadderOrder[1] = "long_term" /\ LadderOrder[2] = "short_term"
        /\ LadderOrder[3] = "cores" /\ DOMAIN LadderOrder = 1 .. 14
    BY DEF LadderOrder
  <2>2. i \in 1 .. 14 /\ i # 1 /\ i # 2 /\ i # 3
    BY <1>2, <1>5, <2>1
  <2>3. 3 \in 1 .. i - 1
    BY <2>2
  <2> QED BY <1>2, <1>5, <2>1, <2>3
<1> QED BY <1>3, <1>4, <1>5

(* What a whole profile gives its calls. *)
LEMMA WholeIs ==
  ASSUME NEW j, j.what \in Whole, j.saving = (j.what = "extreme")
  PROVE  j.what # "row" /\ j.what # "ladder" /\ (j.saving <=> ~ Full(j))
BY DEF Whole, Full

LEMMA CoresWished ==
  ASSUME NEW j, j.what \in Whole, j.saving = (j.what = "extreme"), NEW w \in Wanted(j, "cores")
  PROVE  w = IF Full(j) THEN Cardinality(Cores(machine))
             ELSE Lower(2, Cardinality(Cores(machine)))
<1> DEFINE n == Cardinality(Cores(machine))
           lo == IF j.what = "ladder" THEN 1 ELSE Lower(2, n)
<1>1. j.what # "row" /\ j.what # "ladder" /\ (j.saving <=> ~ Full(j))
  BY WholeIs
<1>2. Wanted(j, "cores") = Choice(j, TRUE, lo, n)
  BY <1>1, CoresWantedIs, Zenon
<1>3. w \in Choice(j, TRUE, lo, n)
  BY <1>2, Zenon
<1>4. lo = Lower(2, n)
  BY <1>1, Zenon
<1> HIDE DEF n, lo
<1>5. w = IF Full(j) THEN n ELSE lo
  BY <1>1, <1>3 DEF Choice
<1> QED BY <1>4, <1>5 DEF n

LEMMA FreqWished ==
  ASSUME NEW j, j.what \in Whole, j.saving = (j.what = "extreme"), FreqKnown(machine, nodes),
         NEW w \in Wanted(j, "freq")
  PROVE  w = IF Full(j) THEN FreqMax(machine, nodes) ELSE FreqMin(machine, nodes)
<1>1. j.what # "row" /\ j.what # "ladder" /\ (j.saving <=> ~ Full(j))
  BY WholeIs
<1>2. Wanted(j, "freq") =
        Choice(j, FreqKnown(machine, nodes), FreqMin(machine, nodes), FreqMax(machine, nodes))
  BY <1>1, FreqWantedIs, Zenon
<1>3. w \in Choice(j, FreqKnown(machine, nodes), FreqMin(machine, nodes), FreqMax(machine, nodes))
  BY <1>2, Zenon
<1> QED BY <1>1, <1>3 DEF Choice

LEMMA WattsWished ==
  ASSUME NEW j, j.what \in Whole, j.saving = (j.what = "extreme"), NEW k \in Kinds,
         Ranged(machine, k) # {}, NEW w \in Wanted(j, k)
  PROVE  w = IF Full(j) THEN WattMax(machine, k) ELSE WattMin(machine, k)
<1>1. j.what # "row" /\ j.what # "ladder" /\ (j.saving <=> ~ Full(j))
  BY WholeIs
<1>2. Wanted(j, k) = Choice(j, Ranged(machine, k) # {}, WattMin(machine, k), WattMax(machine, k))
  BY <1>1, WattsWantedIs, Zenon
<1>3. w \in Choice(j, Ranged(machine, k) # {}, WattMin(machine, k), WattMax(machine, k))
  BY <1>2, Zenon
<1> QED BY <1>1, <1>3 DEF Choice

LEMMA GpuWished ==
  ASSUME NEW j, j.what \in Whole, j.saving = (j.what = "extreme"), GpuKnown(machine),
         NEW w \in Wanted(j, "gpu")
  PROVE  w = IF Full(j) THEN GpuMax(machine) ELSE GpuMin(machine)
<1>1. j.what # "row" /\ j.what # "ladder" /\ (j.saving <=> ~ Full(j))
  BY WholeIs
<1>2. Wanted(j, "gpu") = Choice(j, GpuKnown(machine), GpuMin(machine), GpuMax(machine))
  BY <1>1, GpuWantedIs, Zenon
<1>3. w \in Choice(j, GpuKnown(machine), GpuMin(machine), GpuMax(machine))
  BY <1>2, Zenon
<1> QED BY <1>1, <1>3 DEF Choice

LEMMA SwitchWished ==
  ASSUME NEW j, j.what \in Whole, j.saving = (j.what = "extreme"), NEW k, NEW v \in Turned(j, k)
  PROVE  v = Wish(j, k)
<1>1. j.what # "row" /\ j.what # "ladder"
  BY WholeIs
<1>2. j.saving = (~ Full(j)) /\ (~ j.saving) = Full(j)
  BY Zenon DEF Full
<1>3. v \in IF k \in {"turbo", "kbd", "watchdog", "keepalive", "display"} THEN {~ j.saving}
                                                                      ELSE {j.saving}
  BY <1>1, Zenon DEF Turned
<1>4. v = IF k \in {"turbo", "kbd", "watchdog", "keepalive", "display"} THEN ~ j.saving
                                                                     ELSE j.saving
  BY <1>3, Zenon
<1> QED BY <1>2, <1>4, Zenon DEF Wish

(* All cores for a full profile, two for the one that saves. *)
LEMMA CoresFollow ==
  ASSUME NEW m, Sound(m), Regular(m), NEW s \in Nodes(m), NEW j, NEW w,
         w = IF Full(j) THEN Cardinality(Cores(m)) ELSE Lower(2, Cardinality(Cores(m)))
  PROVE  CoresDone(m, SetCores(m, s, w), j)
<1> DEFINE n == Cardinality(Cores(m))
           l == Lower(2, n)
           up == {c \in Cores(m) : c < Higher(w, 1)}
           t == [s EXCEPT !.online = up]
           f == SetFreq(m, t, FreqLimit(s))
<1>1. n \in Nat /\ Cores(m) = 0 .. n - 1 /\ 0 \in Cores(m)
  BY FS_CardinalityType DEF Sound, Regular
<1>2. n >= 1 /\ l \in 1 .. n /\ w = IF Full(j) THEN n ELSE l
  <2>1. w = IF Full(j) THEN n ELSE l
    OBVIOUS
  <2>2. n >= 1 /\ l \in 1 .. n
    <3> HIDE DEF n
    <3> QED BY <1>1 DEF Lower
  <2> QED BY <2>1, <2>2
<1>3. SetCores(m, s, w).online = up
  <2>1. SetCores(m, s, w) = t \/ SetCores(m, s, w) = [t EXCEPT !.freq = f]
    BY Zenon DEF SetCores
  <2>2. t.online = up
    BY NodesAre
  <2>3. DOMAIN t = DOMAIN s /\ "freq" # "online"
    OBVIOUS
  <2>4. [t EXCEPT !.freq = f].online = t.online
    <3>1. "online" \in DOMAIN s
      BY NodesAre
    <3> HIDE DEF t, f
    <3> QED BY <2>3, <3>1
  <2> QED BY <2>1, <2>2, <2>4
<1>4. CASE Full(j)
  <2>1. up = Cores(m)
    <3> HIDE DEF n
    <3> QED BY <1>1, <1>2, <1>4 DEF Higher
  <2> QED BY <1>3, <1>4, <2>1 DEF CoresDone
<1>5. CASE ~ Full(j)
  <2>1. w = l /\ l \in Nat /\ l >= 1 /\ l <= n
    <3> HIDE DEF n, l
    <3> QED BY <1>1, <1>2, <1>5
  <2>2. up = 0 .. l - 1
    <3> HIDE DEF n, l
    <3> QED BY <1>1, <2>1 DEF Higher
  <2>3. Cardinality(0 .. l - 1) = l
    <3> HIDE DEF l
    <3>1. 0 \in Int /\ l - 1 \in Int /\ 0 <= l - 1
      BY <2>1
    <3>2. Cardinality(0 .. l - 1) = l - 1 - 0 + 1
      BY <3>1, FS_Interval
    <3> QED BY <2>1, <3>2
  <2> QED BY <1>3, <1>5, <2>2, <2>3 DEF CoresDone
<1> QED BY <1>4, <1>5

LEMMA FreqLand ==
  ASSUME NEW m, Sound(m), Regular(m), NEW s \in Nodes(m), NEW full \in BOOLEAN,
         NEW w, FreqKnown(m, s) => w = IF full THEN FreqMax(m, s) ELSE FreqMin(m, s),
         NEW t, t.online = s.online, t.freq = SetFreq(m, s, w)
  PROVE  FreqLanded(m, t, full)
<1>1. Told(m, t) = Told(m, s)
  BY DEF Told
<1>2. FreqKnown(m, t) = FreqKnown(m, s) /\ FreqMin(m, t) = FreqMin(m, s)
  BY <1>1, Zenon DEF FreqKnown, FreqMin, FreqMax
<1> SUFFICES ASSUME FreqKnown(m, s), NEW c \in s.online
             PROVE  t.freq[c] = IF full THEN m.cpus[c].max ELSE Higher(m.cpus[c].min, FreqMin(m, s))
  BY <1>2 DEF FreqLanded
<1>3. s.online \subseteq Cores(m)
  BY NodesAre DEF Onlines
<1>4. Told(m, s) # {}
  BY DEF FreqKnown
<1>5. 0 < m.cpus[c].min /\ m.cpus[c].min <= m.cpus[c].max
  <2>1. PICK d \in s.online : m.cpus[d].min # 0
    BY <1>4 DEF Told
  <2> QED BY <1>3, <2>1 DEF Regular
<1>6. m.cpus[c].min \in Nat /\ m.cpus[c].max \in Nat
  BY <1>3 DEF Sound
<1>7. /\ FreqMin(m, s) \in Nat /\ FreqMax(m, s) \in Nat
      /\ FreqMin(m, s) <= m.cpus[c].min /\ m.cpus[c].max <= FreqMax(m, s)
  BY <1>3, <1>4, <1>5, <1>6, FreqRange
<1>8. t.freq[c] = Clamp(Clamp(w, FreqMin(m, s), FreqMax(m, s)), m.cpus[c].min, m.cpus[c].max)
  BY <1>3 DEF SetFreq
<1>9. w = IF full THEN FreqMax(m, s) ELSE FreqMin(m, s)
  OBVIOUS
<1> QED BY <1>5, <1>6, <1>7, <1>8, <1>9 DEF Clamp, Higher

LEMMA WattsLand ==
  ASSUME NEW m, Sound(m), NEW s \in Nodes(m), NEW j, NEW k \in Kinds, NEW w \in Nat,
         Ranged(m, k) # {} => w = IF Full(j) THEN WattMax(m, k) ELSE WattMin(m, k),
         NEW t, t.watts = SetWatts(m, s, k, w)
  PROVE  WattsDone(m, t, j, k)
<1> SUFFICES ASSUME NEW z \in DOMAIN m.zones, HasRange(m.zones[z][k]), m.zones[z][k].node
             PROVE  t.watts[z][k] = IF Full(j) THEN m.zones[z][k].max ELSE m.zones[z][k].min
  BY DEF WattsDone
<1> DEFINE c == m.zones[z][k]
<1>1. z \in Ranged(m, k)
  BY DEF Ranged
<1>2. /\ WattMin(m, k) \in Nat /\ WattMax(m, k) \in Nat
      /\ WattMin(m, k) <= c.min /\ c.max <= WattMax(m, k)
  BY <1>1, WattRange
<1>3. c.min \in Nat /\ c.max \in Nat /\ c.min <= c.max
  <2>1. c \in Constraint
    BY ZonesType
  <2> QED BY <2>1 DEF Constraint, HasRange
<1>4. t.watts[z][k] = Clamp(w, c.min, c.max)
  BY SetWattsIs
<1>5. w = IF Full(j) THEN WattMax(m, k) ELSE WattMin(m, k)
  BY <1>1
<1> HIDE DEF c
<1> QED BY <1>2, <1>3, <1>4, <1>5 DEF Clamp, c

LEMMA GpuLand ==
  ASSUME NEW m, Sound(m), NEW s \in Nodes(m), NEW j, NEW w \in Nat,
         GpuKnown(m) => s.gpu.max \in GpuMin(m) .. GpuMax(m),
         GpuKnown(m) => w = IF Full(j) THEN GpuMax(m) ELSE GpuMin(m),
         NEW t, t.gpu = SetGpu(m, s, w)
  PROVE  GpuDone(m, t, j)
<1> SUFFICES ASSUME GpuKnown(m)
             PROVE  t.gpu = [min |-> GpuMin(m),
                             max |-> IF Full(j) THEN GpuMax(m) ELSE GpuMin(m)]
  BY DEF GpuDone
<1>1. GpuMin(m) \in Nat /\ GpuMax(m) \in Nat /\ GpuMin(m) < GpuMax(m)
  BY CardIs DEF GpuKnown
<1>2. GpuMin(m) <= s.gpu.max
  BY <1>1
<1>3. t.gpu = [min |-> GpuMin(m), max |-> Clamp(w, GpuMin(m), GpuMax(m))]
  BY <1>2, SetGpuIs
<1>4. w \in GpuMin(m) .. GpuMax(m)
  BY <1>1
<1>5. Clamp(w, GpuMin(m), GpuMax(m)) = w
  BY <1>1, <1>4, ClampIs
<1> QED BY <1>3, <1>5

LEMMA SwitchLand ==
  ASSUME NEW m, Sound(m), Regular(m), NEW s \in Nodes(m), NEW k \in Switches,
         NEW v \in BOOLEAN, NEW t, t.on = SetSwitch(m, s, k, v)
  PROVE  Landed(m, t, k, v)
<1>1. Items(m.nodes[k]) \subseteq m.switched /\ DOMAIN s.on = m.switched
  <2>1. m.nodes[k] \in Seq(m.switched)
    BY DEF Sound
  <2>2. s.on \in [m.switched -> BOOLEAN]
    BY NodesAre DEF Ons
  <2> QED BY <2>1, <2>2 DEF Items
<1> SUFFICES ASSUME NEW n \in Items(m.nodes[k])
             PROVE  t.on[n] = (v # (n = "no_turbo"))
  BY DEF Landed
<1>2. n \in DOMAIN s.on
  BY <1>1
<1>3. CASE k = "turbo"
  <2>1. m.nodes[k] # <<>> /\ n = m.nodes[k][1]
    <3>1. m.nodes[k] = <<>> \/ m.nodes[k] = <<"no_turbo">> \/ m.nodes[k] = <<"boost">>
      BY <1>3 DEF Regular
    <3> QED BY <3>1 DEF Items
  <2> QED BY <1>2, <1>3, <2>1, Zenon DEF SetSwitch
<1>4. CASE k # "turbo"
  <2>1. n # "no_turbo"
    BY <1>4 DEF Regular
  <2>2. t.on[n] = v
    BY <1>2, <1>4, Zenon DEF SetSwitch
  <2>3. (n = "no_turbo") = FALSE /\ (v # FALSE) = v
    BY <2>1, Zenon
  <2> QED BY <2>2, <2>3, Zenon
<1> QED BY <1>3, <1>4

(* A switch leaves the nodes of the others alone. *)
LEMMA SwitchSpares ==
  ASSUME NEW m, Sound(m), Regular(m), NEW s \in Nodes(m), NEW k \in Switches,
         NEW l \in Switches, k # l, NEW v, NEW u, Landed(m, s, l, u),
         NEW t, t.on = SetSwitch(m, s, k, v)
  PROVE  Landed(m, t, l, u)
<1>1. Items(m.nodes[l]) \subseteq m.switched /\ DOMAIN s.on = m.switched
  <2>1. m.nodes[l] \in Seq(m.switched)
    BY DEF Sound
  <2>2. s.on \in [m.switched -> BOOLEAN]
    BY NodesAre DEF Ons
  <2> QED BY <2>1, <2>2 DEF Items
<1> SUFFICES ASSUME NEW n \in Items(m.nodes[l])
             PROVE  t.on[n] = s.on[n]
  BY DEF Landed
<1>2. n \in DOMAIN s.on /\ n \notin Items(m.nodes[k])
  BY <1>1 DEF Regular
<1>3. m.nodes[k] # <<>> => m.nodes[k][1] \in Items(m.nodes[k])
  <2>1. m.nodes[k] \in Seq(m.switched)
    BY DEF Sound
  <2>2. m.nodes[k] # <<>> => 1 \in DOMAIN m.nodes[k]
    BY <2>1
  <2> QED BY <2>2 DEF Items
<1> QED BY <1>2, <1>3, Zenon DEF SetSwitch

LEMMA FreqStays ==
  ASSUME NEW m, NEW s, NEW t, t.online = s.online, t.freq = s.freq, NEW full,
         FreqLanded(m, s, full)
  PROVE  FreqLanded(m, t, full)
<1>1. Told(m, t) = Told(m, s)
  BY DEF Told
<1>2. FreqKnown(m, t) = FreqKnown(m, s) /\ FreqMin(m, t) = FreqMin(m, s)
  BY <1>1, Zenon DEF FreqKnown, FreqMin, FreqMax
<1> QED BY <1>2, Zenon DEF FreqLanded

(* What another call has left, a call leaves. *)
LEMMA OpStays ==
  ASSUME Sound(machine), Regular(machine), nodes \in Nodes(machine),
         NEW j \in Job, NEW op \in j.calls, op \in Items(Calls) \cup Switches,
         NEW w, NEW v, nodes' = Called(j, op, w, v),
         NEW x, x \notin j.calls, OpDone(machine, nodes, j, x),
         NEW rest, rest.what = j.what, rest.calls \subseteq j.calls,
         w \in Nat
  PROVE  OpDone(machine, nodes', rest, x)
<1>0. x # op /\ Full(rest) = Full(j) /\ \A k : Wish(rest, k) = Wish(j, k)
  BY Zenon DEF Full, Wish
<1>1. ASSUME x = "cores" PROVE CoresDone(machine, nodes', rest)
  <2>1. nodes'.online = nodes.online
    BY <1>0, <1>1, Wrote
  <2>2. CoresDone(machine, nodes, j)
    BY <1>1, Zenon DEF OpDone
  <2> QED BY <1>0, <2>1, <2>2, Zenon DEF CoresDone
<1>2. ASSUME x = "freq" PROVE FreqDone(machine, nodes', rest)
  <2>1. FreqDone(machine, nodes, j)
    BY <1>2, Zenon DEF OpDone
  <2>2. op # "cores" /\ "cores" \notin rest.calls
    BY <2>1 DEF FreqDone
  <2>3. nodes'.online = nodes.online /\ nodes'.freq = nodes.freq
    BY <1>0, <1>2, <2>2, Wrote
  <2>4. FreqLanded(machine, nodes, Full(j))
    BY <2>1, Zenon DEF FreqDone
  <2>5. FreqLanded(machine, nodes', Full(j))
    BY <2>3, <2>4, FreqStays
  <2> QED BY <1>0, <2>2, <2>5, Zenon DEF FreqDone
<1>3. ASSUME x \in Kinds PROVE WattsDone(machine, nodes', rest, x)
  <2>1. WattsDone(machine, nodes, j, x)
    BY <1>3, Zenon DEF OpDone
  <2>2. \A z \in DOMAIN machine.zones : nodes'.watts[z][x] = nodes.watts[z][x]
    <3>1. CASE op \in Kinds
      <4>1. nodes'.watts = SetWatts(machine, nodes, op, w)
        BY <3>1, Wrote
      <4> QED BY <1>0, <1>3, <3>1, <4>1, SetWattsIs
    <3>2. CASE op \notin Kinds
      BY <3>2, Wrote
    <3> QED BY <3>1, <3>2
  <2> QED BY <1>0, <2>1, <2>2, Zenon DEF WattsDone
<1>4. ASSUME x = "gpu" PROVE GpuDone(machine, nodes', rest)
  <2>1. nodes'.gpu = nodes.gpu
    BY <1>0, <1>4, Wrote
  <2>2. GpuDone(machine, nodes, j)
    BY <1>4, Zenon DEF OpDone
  <2> QED BY <1>0, <2>1, <2>2, Zenon DEF GpuDone
<1>5. ASSUME x \in Switches PROVE Landed(machine, nodes', x, Wish(rest, x))
  <2>1. Landed(machine, nodes, x, Wish(j, x))
    BY <1>5, Zenon DEF OpDone
  <2>2. CASE op \in Switches
    <3>1. nodes'.on = SetSwitch(machine, nodes, op, v)
      BY <2>2, Wrote
    <3>2. Landed(machine, nodes', x, Wish(j, x))
      BY <1>0, <1>5, <2>1, <2>2, <3>1, SwitchSpares
    <3> QED BY <1>0, <3>2, Zenon
  <2>3. CASE op \notin Switches
    <3>1. nodes'.on = nodes.on
      BY <2>3, Wrote
    <3> QED BY <1>0, <2>1, <3>1, Zenon DEF Landed
  <2> QED BY <2>2, <2>3
<1>6. ASSUME x = "writeback" PROVE nodes'.writeback = IF Full(rest) THEN 500 ELSE 6000
  <2>1. nodes'.writeback = nodes.writeback
    BY <1>0, <1>6, Wrote
  <2>2. nodes.writeback = IF Full(j) THEN 500 ELSE 6000
    BY <1>6, SMT DEF OpDone
  <2> QED BY <1>0, <2>1, <2>2, SMT
<1>7. ASSUME x = "bright" PROVE nodes'.bright = IF Full(rest) THEN 100 ELSE 10
  <2>1. nodes'.bright = nodes.bright
    BY <1>0, <1>7, Wrote
  <2>2. nodes.bright = IF Full(j) THEN 100 ELSE 10
    BY <1>7, SMT DEF OpDone
  <2> QED BY <1>0, <2>1, <2>2, SMT
<1> QED BY <1>1, <1>2, <1>3, <1>4, <1>5, <1>6, <1>7, SMT DEF OpDone

(* And what it is for is left as the profile means it. *)
LEMMA OpLands ==
  ASSUME Sound(machine), Regular(machine), nodes \in Nodes(machine), NothingInvented,
         NEW j \in Job, j.what \in Whole, j.saving = (j.what = "extreme"),
         NEW op \in Due(j), op \in Items(Calls) \cup Switches, ~ machine.mac \/ op \in Switches,
         NEW w \in Nat, w \in Wanted(j, op), NEW v \in BOOLEAN, v \in Turned(j, op),
         nodes' = Called(j, op, w, v),
         NEW rest, rest.what = j.what, rest.calls \subseteq j.calls
  PROVE  OpDone(machine, nodes', rest, op)
<1>0. /\ Full(rest) = Full(j) /\ Full(j) \in BOOLEAN /\ (j.saving <=> ~ Full(j))
      /\ j.what # "row"
      /\ \A k : Wish(rest, k) = Wish(j, k)
  <2>1. Full(rest) = Full(j) /\ Full(j) \in BOOLEAN /\ \A k : Wish(rest, k) = Wish(j, k)
    BY Zenon DEF Full, Wish
  <2> QED BY <2>1, WholeIs
<1>1. ASSUME op = "cores" PROVE CoresDone(machine, nodes', rest)
  <2>1. nodes' = SetCores(machine, nodes, w)
    BY <1>1, CalledIs
  <2>2. w = IF Full(rest) THEN Cardinality(Cores(machine))
            ELSE Lower(2, Cardinality(Cores(machine)))
    <3>1. w \in Wanted(j, "cores")
      BY <1>1
    <3> QED BY <1>0, <3>1, CoresWished, Zenon
  <2> QED BY <2>1, <2>2, CoresFollow, Zenon
<1>2. ASSUME op = "freq" PROVE FreqDone(machine, nodes', rest)
  <2>1. "freq" \notin Switches
    BY DEF Switches
  <2>2. "cores" \notin rest.calls
    BY <1>0, <1>2, <2>1, CoresFirst
  <2>3. nodes'.online = nodes.online /\ nodes'.freq = SetFreq(machine, nodes, w)
    BY <1>2, Wrote
  <2>4. FreqKnown(machine, nodes) =>
          w = IF Full(j) THEN FreqMax(machine, nodes) ELSE FreqMin(machine, nodes)
    <3>1. w \in Wanted(j, "freq")
      BY <1>2
    <3> QED BY <3>1, FreqWished, Zenon
  <2>5. FreqLanded(machine, nodes', Full(j))
    BY <1>0, <2>3, <2>4, FreqLand
  <2> QED BY <1>0, <2>2, <2>5, Zenon DEF FreqDone
<1>3. ASSUME op \in Kinds PROVE WattsDone(machine, nodes', rest, op)
  <2>1. nodes'.watts = SetWatts(machine, nodes, op, w)
    BY <1>3, Wrote
  <2>2. Ranged(machine, op) # {} =>
          w = IF Full(j) THEN WattMax(machine, op) ELSE WattMin(machine, op)
    BY <1>3, WattsWished, Zenon
  <2>3. WattsDone(machine, nodes', j, op)
    BY <1>3, <2>1, <2>2, WattsLand
  <2> QED BY <1>0, <2>3, Zenon DEF WattsDone
<1>4. ASSUME op = "gpu" PROVE GpuDone(machine, nodes', rest)
  <2>1. nodes'.gpu = SetGpu(machine, nodes, w)
    BY <1>4, Wrote
  <2>2. GpuKnown(machine) => w = IF Full(j) THEN GpuMax(machine) ELSE GpuMin(machine)
    <3>1. w \in Wanted(j, "gpu")
      BY <1>4
    <3> QED BY <3>1, GpuWished, Zenon
  <2>3. GpuKnown(machine) => nodes.gpu.max \in GpuMin(machine) .. GpuMax(machine)
    BY DEF NothingInvented
  <2>4. GpuDone(machine, nodes', j)
    BY <2>1, <2>2, <2>3, GpuLand
  <2> QED BY <1>0, <2>4, Zenon DEF GpuDone
<1>5. ASSUME op \in Switches PROVE Landed(machine, nodes', op, Wish(rest, op))
  <2>1. nodes'.on = SetSwitch(machine, nodes, op, v)
    BY <1>5, Wrote
  <2>2. v = Wish(j, op)
    BY SwitchWished, Zenon
  <2>3. Landed(machine, nodes', op, v)
    BY <1>5, <2>1, SwitchLand
  <2> QED BY <1>0, <2>2, <2>3, Zenon
<1>6. ASSUME op = "writeback" PROVE nodes'.writeback = IF Full(rest) THEN 500 ELSE 6000
  <2>1. nodes'.writeback = w
    BY <1>6, Wrote
  <2>2. w = IF j.saving THEN 6000 ELSE 500
    BY <1>0, <1>6, WantedType
  <2> QED BY <1>0, <2>1, <2>2, SMT
<1>7. ASSUME op = "bright" PROVE nodes'.bright = IF Full(rest) THEN 100 ELSE 10
  <2>1. nodes'.bright = w
    BY <1>7, Wrote
  <2>2. w = IF j.saving THEN 10 ELSE 100
    BY <1>0, <1>7, WantedType
  <2> QED BY <1>0, <2>1, <2>2, SMT
<1> QED BY <1>1, <1>2, <1>3, <1>4, <1>5, <1>6, <1>7, SMT DEF OpDone

LEMMA PrefStep ==
  ASSUME TypeOK, Shaped, NEW a \in Actors, NEW op \in Due(job[a]), Makes(a, op),
         PrefDone(machine, nodes, job[a]),
         NEW rest, rest.what = job[a].what, rest.calls = job[a].calls \ {op},
         rest.pref = job[a].pref, rest.stale = job[a].stale
  PROVE  PrefDone(machine, nodes', rest)
<1> DEFINE j == job[a]
<1>1. Sound(machine) /\ Regular(machine) /\ nodes \in Nodes(machine)
      /\ j \in Job /\ j.pref \in Items(Prefs)
  BY MachinesAssumption DEF TypeOK, Job
<1>2. op \in j.calls /\ op \in Items(Calls) \cup Switches
  BY CallIs
<1>3. PICK w \in Nat, v \in BOOLEAN : nodes' = Called(j, op, w, v)
  BY CallWrites
<1> SUFFICES ASSUME j.what # "row", machine.pref, ~ j.stale
             PROVE  IF "pref" \in rest.calls
                    THEN machine.busy => \A c \in Cores(machine) : nodes'.gov[c] # "performance"
                    ELSE "cores" \notin rest.calls /\ Nearest(machine, nodes', j.pref)
  BY DEF PrefDone
<1>4. ~ machine.mac
  BY <1>1 DEF Regular
<1>5. CASE op # "pref"
  <2>1. nodes'.pref = nodes.pref /\ nodes'.gov = nodes.gov
    BY <1>1, <1>2, <1>3, <1>5, Wrote
  <2>2. CASE "pref" \in j.calls
    BY <1>5, <2>1, <2>2 DEF PrefDone
  <2>3. CASE "pref" \notin j.calls
    <3>1. "cores" \notin j.calls /\ Nearest(machine, nodes, j.pref)
      BY <2>3 DEF PrefDone
    <3>2. nodes'.online = nodes.online
      BY <1>1, <1>2, <1>3, <3>1, Wrote
    <3> QED BY <2>1, <2>3, <3>1, <3>2 DEF Nearest
  <2> QED BY <2>2, <2>3
<1>6. CASE op = "pref"
  <2> DEFINE pref == ResolvePref(machine, j.pref)
  <2>1. nodes' = SetPref(machine, nodes, j.pref)
    BY <1>3, <1>6, CalledIs
  <2>2. "cores" \notin j.calls
    BY <1>4, <1>6, CoresFirst
  <2>3. nodes'.online = nodes.online /\ nodes.online \subseteq Cores(machine)
    BY <1>1, <1>2, <1>3, <1>6, Wrote, NodesAre DEF Onlines
  <2>4. machine.busy => \A c \in Cores(machine) : nodes.gov[c] # "performance"
    BY <1>2, <1>6 DEF PrefDone
  <2>5. \A c \in nodes.online : Takes(machine, nodes, c, pref)
    BY <2>3, <2>4 DEF Takes
  <2>6. \A c \in Cores(machine) :
          nodes'.pref[c] = IF Takes(machine, nodes, c, pref) THEN pref ELSE nodes.pref[c]
    BY <1>1, <2>1, SetPrefIs
  <2>7. \A p \in Items(machine.prefs) : Apart(pref, j.pref) <= Apart(p, j.pref)
    BY <1>1, ResolvePrefIs
  <2> HIDE DEF pref
  <2>8. \A c \in nodes'.online : nodes'.pref[c] = pref
    BY <2>3, <2>5, <2>6
  <2>9. Nearest(machine, nodes', j.pref)
    BY <2>7, <2>8 DEF Nearest
  <2> QED BY <1>6, <2>2, <2>9
<1> QED BY <1>5, <1>6

LEMMA ProfileStep ==
  ASSUME TypeOK, Shaped, NothingInvented,
         NEW a \in Actors, NEW op \in Due(job[a]), Makes(a, op),
         ProfileDone(machine, nodes, job[a]),
         NEW rest, rest.what = job[a].what, rest.calls = job[a].calls \ {op}
  PROVE  ProfileDone(machine, nodes', rest)
<1> DEFINE j == job[a]
<1>1. Sound(machine) /\ Regular(machine) /\ nodes \in Nodes(machine) /\ j \in Job
  BY MachinesAssumption DEF TypeOK
<1>2. op \in j.calls /\ op \in Items(Calls) \cup Switches
  BY CallIs
<1>3. PICK w \in Nat, v \in BOOLEAN : /\ w \in Wanted(j, op) /\ v \in Turned(j, op)
                                      /\ nodes' = Called(j, op, w, v)
  BY CallWrites
<1> SUFFICES ASSUME j.what \in Whole, NEW x \in ProfileCalls(machine, j.what) \ rest.calls
             PROVE  OpDone(machine, nodes', rest, x)
  BY DEF ProfileDone
<1>4. AProfile(machine, j)
  <2>1. j.what # "row" /\ j.what # "ladder"
    BY DEF Whole
  <2> QED BY <2>1, NoJobIs DEF Shaped, ARow, ALadder, Actors
<1>5. j.saving = (j.what = "extreme") /\ rest.calls \subseteq j.calls
  BY <1>4 DEF AProfile
<1>6. ~ machine.mac \/ op \in Switches
  BY <1>2, <1>4, LadderOpsAre DEF AProfile, ProfileCalls
<1>7. CASE x = op
  <2>1. OpDone(machine, nodes', rest, op)
    <3> HIDE DEF j
    <3> QED BY <1>1, <1>2, <1>3, <1>5, <1>6, OpLands DEF j
  <2> QED BY <1>7, <2>1
<1>8. CASE x # op
  <2>1. x \notin j.calls
    BY <1>8
  <2>2. OpDone(machine, nodes, j, x)
    BY <2>1 DEF ProfileDone
  <2> HIDE DEF j
  <2> QED BY <1>1, <1>2, <1>3, <1>5, <2>1, <2>2, OpStays DEF j
<1> QED BY <1>7, <1>8

(* Who is alone has left what its calls are for; and so has the last job, if
   nobody has begun another since. *)
Kept ==
  /\ \A a \in Actors : job[a].alone =>
       PrefDone(machine, nodes, job[a]) /\ ProfileDone(machine, nodes, job[a])
  /\ landed # NoJob =>
       /\ \A a \in Actors : job[a].calls = {}
       /\ landed.calls = {}
       /\ PrefDone(machine, nodes, landed) /\ ProfileDone(machine, nodes, landed)

LEMMA KeptCall ==
  ASSUME TypeOK, Shaped, NothingInvented, Kept, NEW a \in Actors, Call(a)
  PROVE  Kept'
<1>1. PICK op \in Due(job[a]) : Makes(a, op)
  BY DEF Call
<1> DEFINE rest == [job[a] EXCEPT !.calls = @ \ {op}]
<1>2. op \in job[a].calls /\ machine' = machine
  BY <1>1, CallIs
<1>3. /\ job'[Other(a)] = job[Other(a)]
      /\ \/ rest.calls # {} /\ job'[a] = rest /\ landed' = landed
         \/ /\ rest.calls = {} /\ job'[a] = NoJob
            /\ landed' = IF job[a].alone THEN rest ELSE landed
  BY <1>1, CallLeaves
<1>4. job[a] \in Job
  BY DEF TypeOK
<1>5. /\ rest.calls = job[a].calls \ {op} /\ rest.what = job[a].what
      /\ rest.pref = job[a].pref /\ rest.stale = job[a].stale /\ rest.alone = job[a].alone
  BY <1>4, RestIs
<1>6. landed = NoJob
  BY <1>2 DEF Kept
<1>7. ~ job[Other(a)].alone /\ (job[a].alone => job[Other(a)].calls = {})
  BY <1>2, OtherIs DEF Shaped, Idle
<1> HIDE DEF rest
<1>8. job[a].alone => PrefDone(machine, nodes', rest) /\ ProfileDone(machine, nodes', rest)
  BY <1>1, <1>5, PrefStep, ProfileStep DEF Kept
<1>9. \A b \in Actors : job'[b].alone =>
        PrefDone(machine, nodes', job'[b]) /\ ProfileDone(machine, nodes', job'[b])
  <2>1. ~ job'[Other(a)].alone
    BY <1>3, <1>7
  <2>2. job'[a].alone =>
          PrefDone(machine, nodes', job'[a]) /\ ProfileDone(machine, nodes', job'[a])
    BY <1>3, <1>5, <1>8, NoJobIs
  <2> QED BY <2>1, <2>2, OtherIs
<1>10. landed' # NoJob =>
         /\ \A b \in Actors : job'[b].calls = {}
         /\ landed'.calls = {}
         /\ PrefDone(machine, nodes', landed') /\ ProfileDone(machine, nodes', landed')
  <2> SUFFICES ASSUME landed' # NoJob
               PROVE  /\ \A b \in Actors : job'[b].calls = {}
                      /\ landed'.calls = {}
                      /\ PrefDone(machine, nodes', landed')
                      /\ ProfileDone(machine, nodes', landed')
    OBVIOUS
  <2>1. job[a].alone /\ rest.calls = {} /\ job'[a] = NoJob /\ landed' = rest
    BY <1>3, <1>6
  <2>2. job'[Other(a)].calls = {} /\ job'[a].calls = {}
    BY <1>3, <1>7, <2>1, NoJobIs
  <2> QED BY <1>8, <2>1, <2>2, OtherIs
<1> QED BY <1>2, <1>9, <1>10 DEF Kept

LEMMA KeptBegin ==
  ASSUME TypeOK, NEW a \in Actors, NEW j \in Job, Begin(a, j),
         j.what # "row" /\ machine.pref => "pref" \in j.calls,
         j.what \in Whole => j.calls = ProfileCalls(machine, j.what)
  PROVE  Kept'
<1> DEFINE stale == machine.busy /\ \E c \in Cores(machine) : nodes.gov[c] = "performance"
           lone == Idle(Other(a))
           i == [j EXCEPT !.alone = lone, !.stale = stale]
           k == [job[Other(a)] EXCEPT !.alone = FALSE]
<1>1. /\ landed' = NoJob /\ machine' = machine /\ nodes' = nodes
      /\ job'[a] = i /\ job'[Other(a)] = k
  BY BeginIs
<1>2. /\ i.calls = j.calls /\ i.what = j.what /\ i.pref = j.pref /\ i.stale = stale
  <2> HIDE DEF stale, lone
  <2> QED BY DEF Job
<1>3. ~ k.alone
  BY OtherIs, DisturbedIs DEF TypeOK
<1> HIDE DEF i, k
<1>4. PrefDone(machine, nodes, i)
  BY <1>2 DEF PrefDone
<1>5. ProfileDone(machine, nodes, i)
  BY <1>2 DEF ProfileDone
<1>6. \A b \in Actors : job'[b].alone =>
        PrefDone(machine, nodes', job'[b]) /\ ProfileDone(machine, nodes', job'[b])
  BY <1>1, <1>3, <1>4, <1>5, OtherIs
<1> QED BY <1>1, <1>6 DEF Kept

LEMMA TouchesIs ==
  ASSUME NEW m
  PROVE  /\ Touches(m, "cores") = (Cardinality(Cores(m)) > 1)
         /\ Touches(m, "freq") = (\E c \in Cores(m) : m.cpus[c].max # 0)
         /\ Touches(m, "pref") = (m.pref \/ m.governor)
         /\ Touches(m, "gpu") = HasCard(m)
         /\ Touches(m, "bright") = m.backlight
         /\ Touches(m, "writeback") = m.writeback
<1>1. /\ "cores" \notin Kinds \cup Switches /\ "freq" \notin Kinds \cup Switches
      /\ "pref" \notin Kinds \cup Switches /\ "gpu" \notin Kinds \cup Switches
      /\ "bright" \notin Kinds \cup Switches /\ "writeback" \notin Kinds \cup Switches
  BY DEF Kinds, Switches
<1>2. Touches(m, "cores") = (Cardinality(Cores(m)) > 1)
  BY <1>1, Zenon DEF Touches
<1>3. Touches(m, "freq") = (\E c \in Cores(m) : m.cpus[c].max # 0)
  BY <1>1, Zenon DEF Touches
<1>4. Touches(m, "pref") = (m.pref \/ m.governor)
  BY <1>1, Zenon DEF Touches
<1>5. Touches(m, "gpu") = HasCard(m)
  BY <1>1, Zenon DEF Touches
<1>6. Touches(m, "bright") = m.backlight
  BY <1>1, Zenon DEF Touches
<1>7. Touches(m, "writeback") = m.writeback
  BY <1>1, Zenon DEF Touches
<1> QED BY <1>2, <1>3, <1>4, <1>5, <1>6, <1>7, Zenon

LEMMA KeptUser ==
  ASSUME TypeOK, User
  PROVE  Kept'
<1>1. PICK j \in Job : Begin("user", j) /\ (ARow(j) \/ AWholeProfile(machine, j))
  BY UserBegins
<1>2. CASE ARow(j)
  <2>1. j.what = "row" /\ j.what \notin Whole
    BY <1>2 DEF ARow, Whole
  <2> QED BY <1>1, <2>1, KeptBegin DEF Actors
<1>3. CASE AWholeProfile(machine, j)
  <2>1. j.calls = ProfileCalls(machine, j.what)
    BY <1>3 DEF AWholeProfile
  <2>2. machine.pref => "pref" \in j.calls
    <3> SUFFICES ASSUME machine.pref PROVE "pref" \in ProfileCalls(machine, j.what)
      BY <2>1
    <3>1. ~ machine.mac
      BY MachinesAssumption DEF TypeOK, Regular
    <3>2. "pref" \in Items(Calls)
      <4>1. Calls[4] = "pref" /\ DOMAIN Calls = 1 .. 15 /\ 4 \in 1 .. 15
        BY DEF Calls
      <4> QED BY <4>1 DEF Items
    <3>3. Touches(machine, "pref")
      BY TouchesIs
    <3> QED BY <3>1, <3>2, <3>3, Zenon DEF ProfileCalls
  <2> QED BY <1>1, <2>1, <2>2, KeptBegin DEF Actors
<1> QED BY <1>1, <1>2, <1>3

LEMMA KeptTick ==
  ASSUME TypeOK, Tick
  PROVE  Kept'
<1>1. PICK j \in Job : /\ Begin("daemon", j) /\ ALadder(machine, j)
                       /\ j.calls = LadderCalls(machine, world.charging)
  BY TickBegins
<1>2. j.what \notin Whole /\ ~ machine.mac
  BY <1>1 DEF ALadder, Whole
<1>3. machine.pref => "pref" \in j.calls
  <2> SUFFICES ASSUME machine.pref PROVE "pref" \in LadderCalls(machine, world.charging)
    BY <1>1
  <2>1. "pref" \in Items(LadderOrder)
    <3>1. LadderOrder[6] = "pref" /\ DOMAIN LadderOrder = 1 .. 14 /\ 6 \in 1 .. 14
      BY DEF LadderOrder
    <3> QED BY <3>1 DEF Items
  <2>2. Touches(machine, "pref")
    BY TouchesIs
  <2>3. "pref" \notin Peripheral
    BY DEF Peripheral
  <2> QED BY <1>2, <2>1, <2>2, <2>3, Zenon DEF LadderCalls
<1> QED BY <1>1, <1>2, <1>3, KeptBegin DEF Actors

LEMMA KeptNext ==
  ASSUME TypeOK, Shaped, NothingInvented, Kept, [Next]_vars
  PROVE  Kept'
<1>1. CASE Tick
  BY <1>1, KeptTick
<1>2. CASE User
  BY <1>2, KeptUser
<1>3. ASSUME NEW a \in Actors, Call(a) PROVE Kept'
  BY <1>3, KeptCall
<1>4. ASSUME NEW a \in Actors, Dies(a) PROVE Kept'
  <2>1. /\ ~ Idle(a) /\ job' = [job EXCEPT ![a] = NoJob] /\ machine' = machine
        /\ nodes' = nodes /\ landed' = landed
    BY <1>4 DEF Dies
  <2>2. job'[a] = NoJob /\ job'[Other(a)] = job[Other(a)]
    BY <2>1, OtherIs DEF TypeOK
  <2>3. landed = NoJob
    BY <2>1 DEF Kept, Idle
  <2>4. \A b \in Actors : job'[b].alone =>
          PrefDone(machine, nodes, job'[b]) /\ ProfileDone(machine, nodes, job'[b])
    BY <2>2, NoJobIs, OtherIs DEF Kept
  <2> QED BY <2>1, <2>3, <2>4 DEF Kept
<1>5. CASE WorldChanges
  BY <1>5 DEF WorldChanges, Kept
<1>6. CASE UNCHANGED vars
  BY <1>6 DEF vars, Kept
<1> QED BY <1>1, <1>2, <1>3, <1>4, <1>5, <1>6 DEF Next, Actors

LEMMA AlwaysKept == Spec => [](TypeOK /\ Shaped /\ Kept)
<1>1. Init => Kept
  BY NoJobIs DEF Init, Kept, Actors
<1>2. TypeOK /\ Shaped /\ NothingInvented /\ Kept /\ [Next]_vars => Kept'
  BY KeptNext
<1> QED BY <1>1, <1>2, AlwaysShaped, NothingInventedHolds, PTL DEF Spec

(* After a profile or a tick that nobody disturbed, and that the kernel did not
   refuse, every core that is online has a preference than which none is
   listed nearer to the one meant: no call after it brings a core online. *)
THEOREM PreferenceLandsHolds == Spec => []PreferenceLands
<1>1. Kept => PreferenceLands
  <2> SUFFICES ASSUME Kept, landed.what # "row", machine.pref, ~ landed.stale
               PROVE  Nearest(machine, nodes, landed.pref)
    BY DEF PreferenceLands, Nearest
  <2>1. landed # NoJob
    BY NoJobIs
  <2> QED BY <2>1 DEF Kept, PrefDone
<1> QED BY <1>1, AlwaysKept, PTL


-----------------------------------------------------------------------------
(* What a profile that is through has left.                                *)

AllDone(m, s, j) == \A op \in ProfileCalls(m, j.what) : OpDone(m, s, j, op)

(* Limits that are not there to be written have no call to miss. *)
LEMMA TouchesLimitsIs ==
  ASSUME NEW m, NEW k \in Kinds
  PROVE  Touches(m, k) = (\E z \in DOMAIN m.zones : m.zones[z][k].named)
<1>1. k # "cores" /\ k # "freq" /\ k # "pref" /\ k # "gpu" /\ k # "aspm" /\ k # "bright"
      /\ k # "writeback" /\ k \notin Switches
  BY DEF Kinds, Switches
<1> QED BY <1>1, Zenon DEF Touches

LEMMA TouchesSwitchIs ==
  ASSUME NEW m, NEW k \in Switches
  PROVE  Touches(m, k) = (m.nodes[k] # <<>>)
<1>1. k # "cores" /\ k # "freq" /\ k # "pref" /\ k # "gpu" /\ k # "aspm" /\ k # "bright"
      /\ k # "writeback" /\ k \notin Kinds
  BY DEF Kinds, Switches
<1> QED BY <1>1, Zenon DEF Touches

LEMMA CallsAre ==
  /\ "cores" \in Items(Calls) /\ "freq" \in Items(Calls) /\ "gpu" \in Items(Calls)
  /\ "bright" \in Items(Calls) /\ "writeback" \in Items(Calls)
  /\ Kinds \subseteq Items(Calls)
  /\ Items(MacCalls) = {"lowpower", "keepalive", "display"}
  /\ \A k \in {"turbo", "kbd", "wifi_save", "audio_save", "autosuspend", "watchdog"} :
       k \in Items(Calls)
<1>1. /\ Calls[1] = "cores" /\ Calls[2] = "freq" /\ Calls[3] = "turbo"
      /\ Calls[5] = "long_term" /\ Calls[6] = "short_term" /\ Calls[7] = "gpu"
      /\ Calls[9] = "bright" /\ Calls[10] = "kbd" /\ Calls[11] = "wifi_save"
      /\ Calls[12] = "audio_save" /\ Calls[13] = "autosuspend" /\ Calls[14] = "watchdog"
      /\ Calls[15] = "writeback" /\ DOMAIN Calls = 1 .. 15
  BY DEF Calls
<1>2. /\ 1 \in 1 .. 15 /\ 2 \in 1 .. 15 /\ 3 \in 1 .. 15 /\ 5 \in 1 .. 15 /\ 6 \in 1 .. 15
      /\ 7 \in 1 .. 15 /\ 9 \in 1 .. 15 /\ 10 \in 1 .. 15 /\ 11 \in 1 .. 15 /\ 12 \in 1 .. 15
      /\ 13 \in 1 .. 15 /\ 14 \in 1 .. 15 /\ 15 \in 1 .. 15
  OBVIOUS
<1>3. /\ MacCalls[1] = "lowpower" /\ MacCalls[2] = "keepalive" /\ MacCalls[3] = "display"
      /\ DOMAIN MacCalls = 1 .. 3
  BY DEF MacCalls
<1>4. Items(MacCalls) = {"lowpower", "keepalive", "display"}
  <2>1. \A i \in 1 .. 3 : i = 1 \/ i = 2 \/ i = 3
    OBVIOUS
  <2>2. 1 \in 1 .. 3 /\ 2 \in 1 .. 3 /\ 3 \in 1 .. 3
    OBVIOUS
  <2> QED BY <1>3, <2>1, <2>2, Zenon DEF Items
<1>5. \A i \in 1 .. 15 : Calls[i] \in Items(Calls)
  BY <1>1 DEF Items
<1>6. /\ "cores" \in Items(Calls) /\ "freq" \in Items(Calls) /\ "turbo" \in Items(Calls)
      /\ "long_term" \in Items(Calls) /\ "short_term" \in Items(Calls)
      /\ "gpu" \in Items(Calls) /\ "bright" \in Items(Calls) /\ "kbd" \in Items(Calls)
      /\ "wifi_save" \in Items(Calls) /\ "audio_save" \in Items(Calls)
      /\ "autosuspend" \in Items(Calls) /\ "watchdog" \in Items(Calls)
      /\ "writeback" \in Items(Calls)
  BY <1>1, <1>2, <1>5, Zenon
<1>7. Kinds \subseteq Items(Calls)
  BY <1>6 DEF Kinds
<1> QED BY <1>4, <1>6, <1>7

(* On a machine that is no Mac a profile makes every call that finds a node. *)
LEMMA ProfileCallsAre ==
  ASSUME NEW m, ~ m.mac, NEW p \in Whole, NEW op \in Items(Calls), Touches(m, op),
         op = "kbd" => p = "extreme"
  PROVE  op \in ProfileCalls(m, p)
<1>1. p # "auto"
  BY DEF Whole
<1> QED BY <1>1, Zenon DEF ProfileCalls

LEMMA LandsCores ==
  ASSUME NEW m, Sound(m), Regular(m), ~ m.mac, NEW s, s.online \subseteq Cores(m), 0 \in s.online,
         NEW j, j.what \in Whole, AllDone(m, s, j)
  PROVE  CoresDone(m, s, j)
<1> DEFINE n == Cardinality(Cores(m))
<1>1. CASE n > 1
  <2>1. "cores" \in ProfileCalls(m, j.what)
    BY <1>1, TouchesIs, CallsAre, ProfileCallsAre
  <2>2. OpDone(m, s, j, "cores")
    BY <2>1, Zenon DEF AllDone
  <2> QED BY <2>2 DEF OpDone
<1>2. CASE ~ n > 1
  <2>1. n \in Nat /\ Cores(m) = 0 .. n - 1
    BY FS_CardinalityType DEF Sound, Regular
  <2>2. Cores(m) = {0} /\ n = 1
    <3>1. 0 \in Cores(m)
      BY DEF Sound
    <3> HIDE DEF n
    <3> QED BY <1>2, <2>1, <3>1
  <2>3. s.online = Cores(m)
    BY <2>2
  <2> QED BY <2>2, <2>3 DEF CoresDone, Lower
<1> QED BY <1>1, <1>2

LEMMA LandsFreq ==
  ASSUME NEW m, ~ m.mac, NEW s, s.online \subseteq Cores(m), Sound(m),
         NEW j, j.what \in Whole, AllDone(m, s, j)
  PROVE  FreqLanded(m, s, Full(j))
<1> SUFFICES ASSUME FreqKnown(m, s) PROVE FreqLanded(m, s, Full(j))
  BY DEF FreqLanded
<1>1. \E c \in Cores(m) : m.cpus[c].max # 0
  <2>1. PICK c \in s.online : m.cpus[c].min # 0 /\ m.cpus[c].min <= m.cpus[c].max
    BY DEF FreqKnown, Told
  <2>2. m.cpus[c].min \in Nat /\ m.cpus[c].max \in Nat
    BY DEF Sound
  <2> QED BY <2>1, <2>2
<1>2. "freq" \in ProfileCalls(m, j.what)
  BY <1>1, TouchesIs, CallsAre, ProfileCallsAre
<1>3. OpDone(m, s, j, "freq")
  BY <1>2, Zenon DEF AllDone
<1> QED BY <1>3 DEF OpDone, FreqDone

LEMMA LandsWatts ==
  ASSUME NEW m, ~ m.mac, NEW s, NEW j, j.what \in Whole, AllDone(m, s, j), NEW k \in Kinds
  PROVE  WattsDone(m, s, j, k)
<1> SUFFICES ASSUME NEW z \in DOMAIN m.zones, HasRange(m.zones[z][k]) PROVE WattsDone(m, s, j, k)
  BY DEF WattsDone
<1>1. Touches(m, k)
  BY TouchesLimitsIs DEF HasRange
<1>2. k # "kbd"
  BY DEF Kinds
<1>3. k \in ProfileCalls(m, j.what)
  BY <1>1, <1>2, CallsAre, ProfileCallsAre
<1>4. OpDone(m, s, j, k)
  BY <1>3, Zenon DEF AllDone
<1> QED BY <1>4 DEF OpDone

LEMMA LandsRest ==
  ASSUME NEW m, ~ m.mac, NEW s, NEW j, j.what \in Whole, AllDone(m, s, j)
  PROVE  /\ GpuDone(m, s, j)
         /\ m.writeback => s.writeback = IF Full(j) THEN 500 ELSE 6000
         /\ m.backlight => s.bright = IF Full(j) THEN 100 ELSE 10
<1>1. GpuDone(m, s, j)
  <2> SUFFICES ASSUME GpuKnown(m) PROVE GpuDone(m, s, j)
    BY DEF GpuDone
  <2>1. "gpu" \in ProfileCalls(m, j.what)
    BY TouchesIs, CallsAre, ProfileCallsAre DEF GpuKnown
  <2>2. OpDone(m, s, j, "gpu")
    BY <2>1, Zenon DEF AllDone
  <2> QED BY <2>2 DEF OpDone
<1>2. ASSUME m.writeback PROVE s.writeback = IF Full(j) THEN 500 ELSE 6000
  <2>1. "writeback" \in ProfileCalls(m, j.what)
    BY <1>2, TouchesIs, CallsAre, ProfileCallsAre
  <2>2. OpDone(m, s, j, "writeback")
    BY <2>1, Zenon DEF AllDone
  <2> QED BY <2>2, SMT DEF OpDone
<1>3. ASSUME m.backlight PROVE s.bright = IF Full(j) THEN 100 ELSE 10
  <2>1. "bright" \in ProfileCalls(m, j.what)
    BY <1>3, TouchesIs, CallsAre, ProfileCallsAre
  <2>2. OpDone(m, s, j, "bright")
    BY <2>1, Zenon DEF AllDone
  <2> QED BY <2>2, SMT DEF OpDone
<1> QED BY <1>1, <1>2, <1>3, SMT

(* A switch that a profile turns has no node behind it, or is called. *)
LEMMA LandsSwitch ==
  ASSUME NEW m, Regular(m), NEW s, NEW j, j.what \in Whole, AllDone(m, s, j),
         NEW k \in {"turbo", "kbd", "wifi_save", "audio_save", "autosuspend", "watchdog",
                    "lowpower", "keepalive", "display"},
         k = "kbd" => j.what = "extreme"
  PROVE  Landed(m, s, k, Wish(j, k))
<1>1. k \in Switches
  BY DEF Switches
<1>2. CASE m.nodes[k] = <<>>
  <2>1. Items(m.nodes[k]) = {}
    BY <1>2 DEF Items
  <2> QED BY <2>1 DEF Landed
<1>3. CASE m.nodes[k] # <<>>
  <2>1. k \in ProfileCalls(m, j.what)
    <3>1. CASE m.mac
      <4>1. PICK b \in BOOLEAN : m.nodes = MacNodes(b)
        BY <3>1 DEF Regular
      <4>2. ASSUME k \notin {"lowpower", "keepalive", "display"} PROVE FALSE
        <5>1. k # "bluetooth" /\ k # "wifi"
          OBVIOUS
        <5>2. MacNodes(b)[k] = <<>>
          BY <1>1, <4>2, <5>1, Zenon DEF MacNodes
        <5> QED BY <1>3, <4>1, <5>2, Zenon
      <4>3. k \in Items(MacCalls)
        BY <4>2, CallsAre
      <4> QED BY <3>1, <4>3, Zenon DEF ProfileCalls
    <3>2. CASE ~ m.mac
      <4>1. k \notin Items(MacCalls)
        BY <1>3, <3>2, Zenon DEF Regular
      <4>2. k \in {"turbo", "kbd", "wifi_save", "audio_save", "autosuspend", "watchdog"}
        BY <4>1, CallsAre
      <4>3. k \in Items(Calls)
        BY <4>2, CallsAre
      <4>4. Touches(m, k)
        BY <1>1, <1>3, TouchesSwitchIs
      <4> QED BY <3>2, <4>3, <4>4, ProfileCallsAre
    <3> QED BY <3>1, <3>2
  <2>2. OpDone(m, s, j, k)
    BY <2>1, Zenon DEF AllDone
  <2> QED BY <1>1, <2>2 DEF OpDone
<1> QED BY <1>2, <1>3

(* A Mac has none of what the other calls write. *)
LEMMA MacHasNone ==
  ASSUME NEW m, Sound(m), Regular(m), m.mac, NEW s, s.online \subseteq Cores(m)
  PROVE  /\ ~ FreqKnown(m, s) /\ DOMAIN m.zones = {} /\ ~ GpuKnown(m)
         /\ ~ m.writeback /\ ~ m.backlight
<1>1. /\ m.zones = <<>> /\ ~ HasCard(m) /\ ~ m.writeback /\ ~ m.backlight
      /\ \A c \in Cores(m) : m.cpus[c].max = 0
  BY DEF Regular
<1>2. Told(m, s) = {}
  <2> SUFFICES ASSUME NEW c \in s.online, m.cpus[c].min # 0, m.cpus[c].min <= m.cpus[c].max
               PROVE  FALSE
    BY DEF Told
  <2>1. m.cpus[c].min \in Nat /\ m.cpus[c].max = 0
    BY <1>1 DEF Sound
  <2> QED BY <2>1
<1> QED BY <1>1, <1>2 DEF FreqKnown, GpuKnown


(* A whole profile that nobody disturbed leaves the cores and every limit it
   can write at the ceiling or the floor, its own or the machine's, and every
   switch as it means it, on whatever machine and whatever the nodes held. *)
THEOREM ProfileLandsHolds == Spec => []ProfileLands
<1>1. ASSUME TypeOK, Shaped, Kept, landed.what \in Whole PROVE
        /\ CoresLand(Full(landed)) /\ LimitsLand(Full(landed))
        /\ SwitchesLand(Full(landed)) /\ RestLands(Full(landed))
  <2> DEFINE m == machine
             s == nodes
             j == landed
  <2>1. AllDone(m, s, j)
    <3>1. landed # NoJob
      BY <1>1, NoJobIs DEF Whole
    <3>2. landed.calls = {} /\ ProfileDone(m, s, landed)
      BY <1>1, <3>1 DEF Kept
    <3> QED BY <1>1, <3>2 DEF ProfileDone, AllDone
  <2>2. Sound(m) /\ Regular(m) /\ s.online \subseteq Cores(m) /\ 0 \in s.online
    BY <1>1, MachinesAssumption DEF TypeOK, Nodes
  <2>3. CoresLand(Full(j))
    <3>1. CASE m.mac
      BY <1>1, <3>1 DEF Shaped, CoresLand
    <3>2. CASE ~ m.mac
      BY <1>1, <2>1, <2>2, <3>2, LandsCores DEF CoresDone, CoresLand
    <3> QED BY <3>1, <3>2
  <2>4. LimitsLand(Full(j)) /\ RestLands(Full(j))
    <3>1. CASE m.mac
      <4>1. /\ ~ FreqKnown(m, s) /\ DOMAIN m.zones = {} /\ ~ GpuKnown(m)
            /\ ~ m.writeback /\ ~ m.backlight
        BY <2>2, <3>1, MacHasNone
      <4> QED BY <4>1 DEF LimitsLand, RestLands
    <3>2. CASE ~ m.mac
      <4>1. FreqLanded(m, s, Full(j)) /\ GpuDone(m, s, j)
        BY <1>1, <2>1, <2>2, <3>2, LandsFreq, LandsRest
      <4>2. \A k \in Kinds : WattsDone(m, s, j, k)
        BY <1>1, <2>1, <3>2, LandsWatts
      <4>3. RestLands(Full(j))
        BY <1>1, <2>1, <3>2, LandsRest, SMT DEF RestLands
      <4> QED BY <4>1, <4>2, <4>3 DEF FreqLanded, GpuDone, WattsDone, Writable, LimitsLand
    <3> QED BY <3>1, <3>2
  <2>5. SwitchesLand(Full(j))
    <3>1. ASSUME NEW k \in {"turbo", "kbd", "wifi_save", "audio_save", "autosuspend",
                            "watchdog", "lowpower", "keepalive", "display"},
                 k = "kbd" => j.what = "extreme"
          PROVE  AllSwitches(k, Wish(j, k))
      <4>1. Landed(m, s, k, Wish(j, k))
        BY <1>1, <2>1, <2>2, <3>1, LandsSwitch
      <4> QED BY <4>1, Zenon DEF Landed, AllSwitches
    <3> HIDE DEF j
    <3>2. ASSUME NEW k \in {"wifi_save", "audio_save", "autosuspend", "lowpower"}
          PROVE  AllSwitches(k, ~ Full(j))
      <4>1. Wish(j, k) = (~ Full(j))
        BY Zenon DEF Wish
      <4>2. AllSwitches(k, Wish(j, k))
        BY <3>1
      <4> QED BY <4>1, <4>2, Zenon
    <3>3. ASSUME NEW k \in {"turbo", "watchdog", "keepalive", "display"}
          PROVE  AllSwitches(k, Full(j))
      <4>1. Wish(j, k) = Full(j)
        BY Zenon DEF Wish
      <4>2. AllSwitches(k, Wish(j, k))
        BY <3>1
      <4> QED BY <4>1, <4>2, Zenon
    <3>4. ASSUME ~ Full(j) PROVE AllSwitches("kbd", FALSE)
      <4>1. Wish(j, "kbd") = FALSE
        BY <3>4, SMT DEF Wish
      <4>2. AllSwitches("kbd", Wish(j, "kbd"))
        BY <3>1, <3>4 DEF Full
      <4> QED BY <4>1, <4>2, Zenon
    <3> QED BY <3>2, <3>3, <3>4, Zenon DEF SwitchesLand
  <2> QED BY <2>3, <2>4, <2>5
<1>2. TypeOK /\ Shaped /\ Kept => ProfileLands
  BY <1>1, Zenon DEF ProfileLands, Whole, Full
<1> QED BY <1>2, AlwaysKept, PTL


-----------------------------------------------------------------------------
(* The savings of the ladder, as long as the user does nothing.            *)

Savings == {"wifi_save", "audio_save", "autosuspend", "kbd", "watchdog"}

Saved(k) == Landed(machine, nodes, k, k \notin {"kbd", "watchdog"})

AllSaved == \A k \in Savings : Saved(k)

(* What the daemon does, it does to save. *)
Frugal == job["daemon"] = NoJob \/ job["daemon"].saving

(* What the tick has behind it is saved. *)
Passed == \A k \in Savings : Idle("daemon") \/ k \in job["daemon"].calls \/ Saved(k)

LEMMA SavingsAre ==
  /\ Savings \subseteq Switches /\ Savings \subseteq Items(LadderOrder)
  /\ "turbo" \notin Savings
  /\ \A k \in Savings : k \in {"turbo", "kbd", "watchdog", "keepalive", "display"}
                        <=> k \in {"kbd", "watchdog"}
<1>1. /\ LadderOrder[9] = "wifi_save" /\ LadderOrder[10] = "kbd"
      /\ LadderOrder[11] = "audio_save" /\ LadderOrder[12] = "autosuspend"
      /\ LadderOrder[13] = "watchdog" /\ DOMAIN LadderOrder = 1 .. 14
  BY DEF LadderOrder
<1>2. 9 \in 1 .. 14 /\ 10 \in 1 .. 14 /\ 11 \in 1 .. 14 /\ 12 \in 1 .. 14 /\ 13 \in 1 .. 14
  OBVIOUS
<1>3. Savings \subseteq Items(LadderOrder)
  BY <1>1, <1>2 DEF Savings, Items
<1> QED BY <1>3 DEF Savings, Switches

(* A job that begins is the one asked for, and the other goes on. *)
LEMMA BegunIs ==
  ASSUME TypeOK, NEW a \in Actors, NEW j \in Job, Begin(a, j)
  PROVE  /\ j.calls # {} /\ job'[a].calls = j.calls /\ job'[a].saving = j.saving
         /\ job'[Other(a)].saving = job[Other(a)].saving
         /\ job[Other(a)] = NoJob => job'[Other(a)] = NoJob
         /\ machine' = machine /\ nodes' = nodes
<1> DEFINE stale == machine.busy /\ \E c \in Cores(machine) : nodes.gov[c] = "performance"
           lone == Idle(Other(a))
           i == [j EXCEPT !.alone = lone, !.stale = stale]
           k == [job[Other(a)] EXCEPT !.alone = FALSE]
<1>1. /\ j.calls # {} /\ machine' = machine /\ nodes' = nodes
      /\ job'[a] = i /\ job'[Other(a)] = k
  BY BeginIs
<1>2. i.calls = j.calls /\ i.saving = j.saving
  <2> HIDE DEF stale, lone
  <2> QED BY DEF Job
<1>3. k.saving = job[Other(a)].saving /\ (job[Other(a)] = NoJob => k = NoJob)
  <2>1. job[Other(a)] \in Job
    BY OtherIs DEF TypeOK
  <2> QED BY <2>1, DisturbedIs, NoJobIs
<1> HIDE DEF i, k
<1> QED BY <1>1, <1>2, <1>3

LEMMA AtWork ==
  ASSUME TypeOK, Shaped, Frugal, ~ Idle("daemon")
  PROVE  job["daemon"].what = "ladder" /\ job["daemon"].saving
BY NoJobIs DEF Shaped, Frugal, ALadder, Idle

(* A call of the daemon lands its own switch, and undoes no other. *)
LEMMA CallSaves ==
  ASSUME TypeOK, Shaped, Frugal, NEW op \in Due(job["daemon"]), Makes("daemon", op),
         NEW k \in Savings, k = op \/ Saved(k)
  PROVE  Saved(k)'
<1> DEFINE want == k \notin {"kbd", "watchdog"}
<1>0. Sound(machine) /\ Regular(machine) /\ nodes \in Nodes(machine) /\ k \in Switches
  BY MachinesAssumption, SavingsAre DEF TypeOK
<1>1. op \in job["daemon"].calls /\ op \in Items(Calls) \cup Switches /\ machine' = machine
  BY CallIs DEF Actors
<1>2. PICK w \in Wanted(job["daemon"], op), v \in Turned(job["daemon"], op) :
        v \in BOOLEAN /\ nodes' = Called(job["daemon"], op, w, v)
  BY CallIs DEF Actors
<1>3. /\ op \notin Switches => nodes'.on = nodes.on
      /\ op \in Switches => nodes'.on = SetSwitch(machine, nodes, op, v)
  BY <1>0, <1>1, <1>2, Wrote
<1>4. Landed(machine, nodes', k, want)
  <2>1. CASE op \notin Switches
    BY <1>0, <1>3, <2>1 DEF Landed, Saved
  <2>2. CASE op \in Switches /\ op # k
    <3>1. Landed(machine, nodes, k, want)
      BY <2>2 DEF Saved
    <3> HIDE DEF want
    <3> QED BY <1>0, <1>3, <2>2, <3>1, SwitchSpares
  <2>3. CASE op = k
    <3>1. job["daemon"].what = "ladder" /\ job["daemon"].saving
      BY <1>1, AtWork DEF Idle
    <3>2. v \in IF k \in {"kbd", "watchdog"} THEN {~ job["daemon"].saving}
                                            ELSE {job["daemon"].saving}
      BY <1>2, <2>3, <3>1, SavingsAre, Zenon DEF Turned
    <3>3. v = want
      BY <3>1, <3>2, Zenon
    <3>4. nodes'.on = SetSwitch(machine, nodes, k, v)
      BY <1>0, <1>3, <2>3
    <3>5. Landed(machine, nodes', k, v)
      BY <1>0, <1>2, <3>4, SwitchLand
    <3> QED BY <3>3, <3>5
  <2> QED BY <2>1, <2>2, <2>3
<1> QED BY <1>1, <1>4 DEF Saved

LEMMA FrugalStep ==
  ASSUME TypeOK, Shaped, Frugal, [Next]_vars
  PROVE  Frugal'
<1>0. job["daemon"] \in Job /\ Other("daemon") = "user" /\ Other("user") = "daemon"
  BY DEF TypeOK, Actors, Other
<1>1. CASE Tick
  <2>1. PICK j \in Job : Begin("daemon", j) /\ j.saving
    BY <1>1, TickBegins
  <2> QED BY <2>1, BegunIs DEF Frugal, Actors
<1>2. CASE User
  <2>1. PICK j \in Job : Begin("user", j)
    BY <1>2, UserBegins
  <2> QED BY <1>0, <2>1, BegunIs DEF Frugal, Actors
<1>3. CASE Call("daemon")
  <2>1. PICK op \in Due(job["daemon"]) : Makes("daemon", op)
    BY <1>3 DEF Call
  <2>2. op \in job["daemon"].calls
    BY DueIs
  <2>3. job["daemon"].saving
    BY <2>2, AtWork DEF Idle
  <2> DEFINE rest == [job["daemon"] EXCEPT !.calls = @ \ {op}]
  <2>4. job'["daemon"] = rest \/ job'["daemon"] = NoJob
    BY <2>1, CallLeaves DEF Actors
  <2>5. rest.saving
    BY <1>0, <2>3, RestIs
  <2> HIDE DEF rest
  <2> QED BY <2>4, <2>5 DEF Frugal
<1>4. CASE Call("user")
  <2>1. job'["daemon"] = job["daemon"]
    BY <1>0, <1>4, CallLeaves DEF Call, Actors
  <2> QED BY <2>1 DEF Frugal
<1>5. ASSUME NEW a \in Actors, Dies(a) PROVE Frugal'
  BY <1>5 DEF Dies, Frugal, TypeOK, Actors
<1>6. CASE WorldChanges \/ UNCHANGED vars
  BY <1>6 DEF WorldChanges, vars, Frugal
<1> QED BY <1>1, <1>2, <1>3, <1>4, <1>5, <1>6 DEF Next

(* While the user does nothing, only the daemon calls. *)
LEMMA OnlyDaemon ==
  ASSUME TypeOK, Idle("user"), Idle("user")', [Next]_vars
  PROVE  \/ Tick \/ Call("daemon")
         \/ Dies("daemon") /\ UNCHANGED <<machine, nodes>>
         \/ UNCHANGED <<machine, nodes, job>>
<1>1. ~ User
  <2> SUFFICES ASSUME User PROVE FALSE
    OBVIOUS
  <2>1. PICK j \in Job : Begin("user", j)
    BY UserBegins
  <2>2. j.calls # {} /\ job'["user"].calls = j.calls
    BY <2>1, BegunIs DEF Actors
  <2> QED BY <2>2 DEF Idle
<1>2. ~ Call("user")
  BY DueIs DEF Call, Idle
<1>3. \A a \in Actors : Dies(a) => a = "daemon" /\ UNCHANGED <<machine, nodes>>
  BY DEF Dies, Actors
<1>4. WorldChanges => UNCHANGED <<machine, nodes, job>>
  BY DEF WorldChanges
<1> QED BY <1>1, <1>2, <1>3, <1>4 DEF Next, vars

LEMMA SavedStays ==
  ASSUME TypeOK, Shaped, Frugal, Idle("user"), Idle("user")', [Next]_vars,
         NEW k \in Savings, Saved(k)
  PROVE  Saved(k)'
<1>1. CASE Call("daemon")
  BY <1>1, CallSaves DEF Call
<1>2. CASE Tick
  <2>1. machine' = machine /\ nodes' = nodes
    BY <1>2, TickBegins, BeginIs DEF Actors
  <2> QED BY <2>1 DEF Saved
<1>3. CASE UNCHANGED <<machine, nodes>>
  BY <1>3 DEF Saved
<1> QED BY <1>1, <1>2, <1>3, OnlyDaemon

(* A tick on battery sets out to save everything there is to save. *)
LEMMA TickPasses ==
  ASSUME TypeOK, Tick, ~ world.charging
  PROVE  Passed' /\ ~ Idle("daemon")'
<1>1. PICK j \in Job : /\ Begin("daemon", j) /\ ALadder(machine, j)
                       /\ j.calls = LadderCalls(machine, world.charging)
  BY TickBegins
<1>2. /\ job'["daemon"].calls = j.calls /\ j.calls # {}
      /\ machine' = machine /\ nodes' = nodes
  BY <1>1, BegunIs DEF Actors
<1>3. ~ machine.mac
  BY <1>1 DEF ALadder
<1>4. \A k \in Savings : k \in job'["daemon"].calls \/ Saved(k)'
  <2> SUFFICES ASSUME NEW k \in Savings PROVE k \in job'["daemon"].calls \/ Saved(k)'
    OBVIOUS
  <2>1. CASE machine.nodes[k] = <<>>
    BY <1>2, <2>1 DEF Saved, Landed, Items
  <2>2. CASE machine.nodes[k] # <<>>
    <3>1. Touches(machine, k) /\ k \in Items(LadderOrder)
      BY <2>2, TouchesSwitchIs, SavingsAre
    <3> QED BY <1>1, <1>2, <1>3, <3>1, Zenon DEF LadderCalls
  <2> QED BY <2>1, <2>2
<1> QED BY <1>2, <1>4 DEF Passed, Idle

EndsSaved == Idle("daemon")' /\ ~ Idle("daemon") => AllSaved'

LEMMA PassedStep ==
  ASSUME TypeOK, Shaped, Frugal, Passed, Idle("user"), Idle("user")', ~ world.charging,
         [Next /\ ~ Dies("daemon")]_vars
  PROVE  Passed' /\ EndsSaved
<1>1. CASE Tick
  BY <1>1, TickPasses DEF EndsSaved
<1>2. CASE Call("daemon")
  <2>1. PICK op \in Due(job["daemon"]) : Makes("daemon", op)
    BY <1>2 DEF Call
  <2>2. op \in job["daemon"].calls /\ job["daemon"] \in Job
    BY DueIs DEF TypeOK, Actors
  <2>3. \/ job'["daemon"].calls = job["daemon"].calls \ {op}
        \/ job["daemon"].calls \ {op} = {} /\ job'["daemon"].calls = {}
    <3> DEFINE rest == [job["daemon"] EXCEPT !.calls = @ \ {op}]
    <3>1. \/ job'["daemon"] = rest
          \/ rest.calls = {} /\ job'["daemon"] = NoJob
      BY <2>1, CallLeaves DEF Actors
    <3>2. rest.calls = job["daemon"].calls \ {op}
      BY <2>2, RestIs
    <3> HIDE DEF rest
    <3> QED BY <3>1, <3>2, NoJobIs
  <2>4. \A k \in Savings : k \in job["daemon"].calls \ {op} \/ Saved(k)'
    BY <2>1, <2>2, CallSaves DEF Passed, Idle
  <2> QED BY <2>3, <2>4 DEF Passed, EndsSaved, AllSaved, Idle
<1>3. CASE UNCHANGED <<machine, nodes, job>>
  <2>1. job'["daemon"] = job["daemon"] /\ \A k \in Savings : Saved(k)' = Saved(k)
    BY <1>3 DEF Saved
  <2> QED BY <2>1 DEF Passed, EndsSaved, Idle
<1>4. UNCHANGED vars => UNCHANGED <<machine, nodes, job>>
  BY DEF vars
<1>5. CASE Next /\ ~ Dies("daemon")
  BY <1>1, <1>2, <1>3, <1>5, OnlyDaemon
<1> QED BY <1>3, <1>4, <1>5

LEMMA AlwaysFrugal == Spec => [](TypeOK /\ Shaped /\ Frugal)
<1>1. Init => Frugal
  BY DEF Init, Frugal, Actors
<1>2. TypeOK /\ Shaped /\ Frugal /\ [Next]_vars => Frugal'
  BY FrugalStep
<1> QED BY <1>1, <1>2, AlwaysShaped, PTL DEF Spec

OnBattery == ~ world.charging

(* On battery, and with the user doing nothing, one tick of the ladder is enough:
   with its last call every saving is on, on all the devices behind each, however
   mixed profiles, rows and half-done ticks have left them (daemon.rs
   apply_logic_step). *)
THEOREM SavingsArrive ==
  Spec => [](Idle("daemon") /\ []Idle("user") /\ []OnBattery /\ [][~ Dies("daemon")]_vars
              => [][EndsSaved]_vars)
<1>1. Idle("daemon") => Passed
  BY DEF Passed
<1>2. TypeOK /\ Shaped /\ Frugal /\ Passed /\ Idle("user") /\ Idle("user")' /\ OnBattery
        /\ [Next]_vars /\ [~ Dies("daemon")]_vars => Passed' /\ EndsSaved
  <2> SUFFICES ASSUME TypeOK, Shaped, Frugal, Passed, Idle("user"), Idle("user")', OnBattery,
                      [Next /\ ~ Dies("daemon")]_vars
               PROVE  Passed' /\ EndsSaved
    OBVIOUS
  <2> QED BY PassedStep DEF OnBattery
<1>3. TypeOK /\ Shaped /\ Frugal /\ Passed /\ Idle("user") /\ Idle("user")' /\ OnBattery
        /\ [Next]_vars /\ [~ Dies("daemon")]_vars => Passed' /\ [EndsSaved]_vars
  BY <1>2
<1> QED BY <1>1, <1>3, AlwaysFrugal, PTL DEF Spec

(* Once on they stay, whatever becomes of load, level and cable and wherever the
   daemon is killed: nothing but the user takes them back. *)
THEOREM SavingsStay == Spec => [](AllSaved /\ []Idle("user") => []AllSaved)
<1>1. TypeOK /\ Shaped /\ Frugal /\ AllSaved /\ Idle("user") /\ Idle("user")' /\ [Next]_vars
        => AllSaved'
  BY SavedStays DEF AllSaved
<1> QED BY <1>1, AlwaysFrugal, PTL DEF Spec

===============================================================================
