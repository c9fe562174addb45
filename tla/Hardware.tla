------------------------------- MODULE Hardware -------------------------------
(***************************************************************************)
(* What the Linux drivers find in a machine, and what each of their         *)
(* setters makes of the nodes: the powercap zones, the graphics card, the   *)
(* energy preference and governor of each core, the ASPM policy, and the    *)
(* switches, which are one setting behind several nodes                     *)
(* (platform/linux/{rapl,gpu,cpu,aspm,tweaks,peripherals}.rs); and what      *)
(* there is of that on a Mac (platform/macos/mod.rs).                       *)
(*                                                                          *)
(* A machine m says what the kernel exposes and never changes; s is what    *)
(* the nodes hold.  Watts and MHz are small numbers.                        *)
(***************************************************************************)
EXTENDS Integers, Sequences, FiniteSets, FiniteSetsExt

Clamp(v, lo, hi) == IF v < lo THEN lo ELSE IF v > hi THEN hi ELSE v
Lower(a, b) == IF a < b THEN a ELSE b
Higher(a, b) == IF a > b THEN a ELSE b
Minus(a, b) == IF a > b THEN a - b ELSE 0
Items(seq) == {seq[i] : i \in DOMAIN seq}

Kinds == {"long_term", "short_term"}

-----------------------------------------------------------------------------
(* Powercap zones.  m.zones[z][k]: is there a constraint of that name, its  *)
(* min_power_uw and max_power_uw (0: missing), and is there a limit node?   *)

Constraint == [named : BOOLEAN, min : Nat, max : Nat, node : BOOLEAN]

(* constraint_bounds_watts_in *)
HasRange(c) == c.named /\ c.max # 0 /\ c.min < c.max

Ranged(m, k) == {z \in DOMAIN m.zones : HasRange(m.zones[z][k])}

(* bounds_of: the union of the ranges discovered; Ranged(m, k) # {}. *)
WattMin(m, k) == Min({m.zones[z][k].min : z \in Ranged(m, k)})
WattMax(m, k) == Max({m.zones[z][k].max : z \in Ranged(m, k)})

(* bounds: what the rows step within.  Not everything here was discovered. *)
ShownMin(m) ==
  LET known == {k \in Kinds : Ranged(m, k) # {}} IN
  IF known # {} THEN Min({WattMin(m, k) : k \in known})
  ELSE IF m.package # {} THEN Min({r.min : r \in m.package}) ELSE 5
ShownMax(m) ==
  LET known == {k \in Kinds : Ranged(m, k) # {}} IN
  IF known # {} THEN Max({WattMax(m, k) : k \in known})
  ELSE IF m.package # {} THEN Max({r.max : r \in m.package}) ELSE 115

(* Mutant: every zone gets the request clamped to the range of all zones. *)
SetWattsOfAll(m, s, k, w) ==
  [z \in DOMAIN m.zones |->
     IF HasRange(m.zones[z][k]) /\ m.zones[z][k].node
     THEN [s.watts[z] EXCEPT ![k] = Clamp(w, WattMin(m, k), WattMax(m, k))]
     ELSE s.watts[z]]

(* write_constraint: each zone within its own range, or not at all. *)
SetWatts(m, s, k, w) ==
  [z \in DOMAIN m.zones |->
     LET c == m.zones[z][k] IN
     IF HasRange(c) /\ c.node
     THEN [s.watts[z] EXCEPT ![k] = Clamp(w, c.min, c.max)]
     ELSE s.watts[z]]

(* get_limit: of the first zone with the constraint, whether or not it can
   be written, and 0 if its limit cannot be read. *)
ReadWatts(m, s, k) ==
  LET named == {z \in DOMAIN m.zones : m.zones[z][k].named} IN
  IF named = {} THEN 0
  ELSE LET z == Min(named) IN IF m.zones[z][k].node THEN s.watts[z][k] ELSE 0

-----------------------------------------------------------------------------
(* The graphics card.  m.cards[n]: does it have a gt_max node, its RPn and  *)
(* RP0 frequencies (0: missing).  The nodes are those of the card chosen.   *)

Card(m) ==
  LET scaling == {n \in DOMAIN m.cards : m.cards[n].node} IN
  IF 1 \in scaling THEN 1 ELSE IF 0 \in scaling THEN 0 ELSE Min(scaling)
HasCard(m) == \E n \in DOMAIN m.cards : m.cards[n].node
GpuMin(m) == m.cards[Card(m)].rpn
GpuMax(m) == m.cards[Card(m)].rp0

(* discovered_gpu_bounds *)
GpuKnown(m) == HasCard(m) /\ GpuMin(m) # 0 /\ GpuMin(m) < GpuMax(m)

(* gpu_bounds: what the row steps within. *)
GpuShownMin(m, s) == IF GpuMin(m) # 0 THEN GpuMin(m) ELSE s.gpu.min
GpuShownMax(m, s) == IF GpuMax(m) # 0 THEN GpuMax(m) ELSE s.gpu.max

(* External: the kernel refuses a minimum above the maximum in force, and
   the reverse. *)
GtMin(g, v) == IF v <= g.max THEN [g EXCEPT !.min = v] ELSE g
GtMax(g, v) == IF v >= g.min THEN [g EXCEPT !.max = v] ELSE g

(* Mutant: the limit first, then the minimum. *)
SetGpuMaxFirst(m, s, mhz) ==
  IF GpuKnown(m)
  THEN GtMin(GtMax(s.gpu, Clamp(mhz, GpuMin(m), GpuMax(m))), GpuMin(m))
  ELSE s.gpu

(* set_gpu_freq: "order matters". *)
SetGpu(m, s, mhz) ==
  IF GpuKnown(m)
  THEN GtMax(GtMin(s.gpu, GpuMin(m)), Clamp(mhz, GpuMin(m), GpuMax(m)))
  ELSE s.gpu

-----------------------------------------------------------------------------
(* Cores.  m.cpus[c]: cpuinfo_{min,max}_freq.                               *)

Cores(m) == DOMAIN m.cpus

(* discovered_freq_bounds: over the cores that can be read and say something
   sensible; 0 is a node that is missing. *)
Told(m, s) ==
  {m.cpus[c] : c \in {d \in s.online : m.cpus[d].min # 0 /\ m.cpus[d].min <= m.cpus[d].max}}
FreqMin(m, s) == Min({r.min : r \in Told(m, s)})
FreqMax(m, s) == Max({r.max : r \in Told(m, s)})
FreqKnown(m, s) == Told(m, s) # {} /\ FreqMin(m, s) < FreqMax(m, s)

(* set_freq_limit: one limit for all that have a cpufreq directory, which a
   core that is offline has not; the kernel keeps it inside each policy. *)
SetFreq(m, s, mhz) ==
  [c \in Cores(m) |->
     IF c \in s.online /\ FreqKnown(m, s)
     THEN Clamp(Clamp(mhz, FreqMin(m, s), FreqMax(m, s)), m.cpus[c].min, m.cpus[c].max)
     ELSE s.freq[c]]

(* freq_limit: of cpu0, which is always online. *)
FreqLimit(s) == s.freq[0]

(* Mutant: one core too few. *)
SetCoresOneLess(m, s, n) ==
  LET up == [s EXCEPT !.online = {c \in Cores(m) : c < n - 1}] IN
  IF FreqLimit(s) = 0 THEN up
  ELSE [up EXCEPT !.freq = SetFreq(m, up, FreqLimit(s))]

(* set_online_cores: the first n, and then cpu0's limit, if it has one, for
   all of them. *)
SetCores(m, s, n) ==
  LET up == [s EXCEPT !.online = {c \in Cores(m) : c < Higher(n, 1)}] IN
  IF FreqLimit(s) = 0 THEN up
  ELSE [up EXCEPT !.freq = SetFreq(m, up, FreqLimit(s))]

Prefs == <<"performance", "balance_performance", "default",
           "balance_power", "power">>
Rank(pref) == CHOOSE i \in DOMAIN Prefs : Prefs[i] = pref
Apart(p, q) == IF Rank(p) < Rank(q) THEN Rank(q) - Rank(p) ELSE Rank(p) - Rank(q)

Governors == {"powersave", "performance", "schedutil", "ondemand"}

(* Mutant: a preference the kernel does not list is replaced by the first. *)
ResolvePrefFirst(m, pref) ==
  IF m.prefs = <<>> \/ pref \in Items(m.prefs) THEN pref ELSE m.prefs[1]

(* resolve_epp: the nearest of those listed, the first of two as near. *)
ResolvePref(m, pref) ==
  IF m.prefs = <<>> \/ pref \in Items(m.prefs) THEN pref
  ELSE m.prefs[CHOOSE i \in DOMAIN m.prefs :
                 \A j \in DOMAIN m.prefs :
                   /\ Apart(m.prefs[i], pref) <= Apart(m.prefs[j], pref)
                   /\ j < i => Apart(m.prefs[i], pref) < Apart(m.prefs[j], pref)]

(* resolve_governor: as asked, or the first listed of these. *)
ResolveGov(m, gov) ==
  IF m.govs = {} \/ gov \in m.govs THEN gov
  ELSE LET order == <<"powersave", "performance", "schedutil", "ondemand">> IN
       order[Min({i \in DOMAIN order : order[i] \in m.govs})]

(* External: under the governor "performance" a kernel may take no other
   preference (EBUSY), and the driver ignores it. *)
Takes(m, s, c, pref) ==
  m.pref /\ c \in s.online /\ (m.busy => s.gov[c] # "performance" \/ pref = "performance")

(* set_energy_performance_preference: the preference, and then the governor
   that goes with it, each where a core has a node for it (m.pref, m.governor):
   one without preferences is still given the governor. *)
SetPref(m, s, asked) ==
  LET pref == ResolvePref(m, asked)
      gov == ResolveGov(m, IF pref = "performance" THEN pref ELSE "powersave")
  IN [s EXCEPT
        !.pref = [c \in Cores(m) |-> IF Takes(m, s, c, pref) THEN pref ELSE s.pref[c]],
        !.gov = [c \in Cores(m) |-> IF m.governor /\ c \in s.online THEN gov ELSE s.gov[c]]]

-----------------------------------------------------------------------------
(* ASPM.  m.policies: those the node lists; {}: there is no node.           *)

SetAspm(m, s, policy) ==
  IF policy \in m.policies THEN policy
  ELSE IF "default" \in m.policies THEN "default" ELSE s.aspm

-----------------------------------------------------------------------------
(* Switches.  m.nodes[k]: the nodes behind the switch k, in the order the   *)
(* driver goes through them; s.on[n]: the node says 1, Y, auto, unblocked.  *)

Switches == {"turbo", "kbd", "bluetooth", "wifi", "wifi_save", "audio_save",
             "autosuspend", "watchdog", "lowpower", "keepalive", "display"}

(* Where the nodes are that the getter looks at: not those of PCI devices, not
   the one of the sound controller, and not the radio itself of a Mac. *)
Looked(m, k) ==
  {i \in DOMAIN m.nodes[k] : m.nodes[k][i] \notin {"pci", "controller", "radio"}}

(* turbo_enabled, kbd_backlight, wifi_power_save, ..., nmi_watchdog.  A radio
   is off if any of its devices is blocked (rfkill_blocked). *)
ReadSwitch(m, s, k) ==
  LET first == m.nodes[k][Min(Looked(m, k))] IN
  IF k \in {"bluetooth", "wifi"} THEN \A i \in Looked(m, k) : s.on[m.nodes[k][i]]
  ELSE IF Looked(m, k) = {} THEN k \in {"turbo", "audio_save"}
  ELSE IF first = "no_turbo" THEN ~ s.on["no_turbo"]
  ELSE IF k \in {"wifi_save", "autosuspend"} THEN \E i \in Looked(m, k) : s.on[m.nodes[k][i]]
  ELSE s.on[first]

(* Mutant: only the first device is told. *)
SetSwitchOfFirst(m, s, k, v) ==
  IF m.nodes[k] = <<>> THEN s.on
  ELSE [s.on EXCEPT ![m.nodes[k][1]] = (v # (m.nodes[k][1] = "no_turbo"))]

(* Turbo has one node or the other; of the rest, all are written. *)
SetSwitch(m, s, k, v) ==
  [n \in DOMAIN s.on |->
     IF k = "turbo"
     THEN IF m.nodes[k] # <<>> /\ n = m.nodes[k][1] THEN v # (n = "no_turbo")
                                                    ELSE s.on[n]
     ELSE IF n \in Items(m.nodes[k]) THEN v ELSE s.on[n]]

-----------------------------------------------------------------------------
(* A Mac.  Of the rows it has Wi-Fi and Bluetooth; the setters of cores,     *)
(* limits, preferences and tweaks do nothing.                               *)

(* set_bluetooth_enabled writes a key of the system's preferences, which is
   what bluetooth_enabled reads, and tells the radio if blueutil is installed. *)
MacNodes(blueutil) ==
  [k \in Switches |->
     CASE k = "bluetooth" -> IF blueutil THEN <<"key", "radio">> ELSE <<"key">>
       [] k = "wifi" -> <<"airport">>
       [] k \in {"lowpower", "keepalive", "display"} -> <<k>>
       [] OTHER -> <<>>]

(* The modes are three settings of pmset: low power, staying connected while
   asleep, and whether the display stays on for 10 minutes or for 3. *)
MacCalls == <<"lowpower", "keepalive", "display">>

-----------------------------------------------------------------------------
(* What can be relied on of a machine.                                     *)

(* The nodes hold what their names say: numbers, and words of the kernel's. *)
Sound(m) ==
  /\ m.zones \in Seq([Kinds -> Constraint])
  /\ m.boot \in [DOMAIN m.zones -> [Kinds -> Nat]]
  /\ m.package \subseteq [min : Nat, max : Nat] /\ IsFiniteSet(m.package)
  /\ DOMAIN m.cards \subseteq Nat
  /\ m.cards \in [DOMAIN m.cards -> [node : BOOLEAN, rpn : Nat, rp0 : Nat]]
  /\ Cores(m) \subseteq Nat /\ IsFiniteSet(Cores(m)) /\ 0 \in Cores(m)
  /\ m.cpus \in [Cores(m) -> [min : Nat, max : Nat]]
  /\ m.prefs \in Seq(Items(Prefs)) /\ m.govs \subseteq Governors
  /\ m.policies \subseteq {"default", "performance", "powersave"}
  /\ m.nodes \in [Switches -> Seq(m.switched)]
  /\ {m.mac, m.pref, m.governor, m.busy, m.writeback, m.backlight} \subseteq BOOLEAN

(* Cores go by their place; all of them tell their frequencies, or none; the
   policy "default" is always listed; no two switches share a node; turbo is
   one node or none; and of the modes and the rest a machine is a Mac's or not. *)
Regular(m) ==
  /\ Cores(m) = 0 .. Cardinality(Cores(m)) - 1
  /\ \/ \A c \in Cores(m) : 0 < m.cpus[c].min /\ m.cpus[c].min <= m.cpus[c].max
     \/ \A c \in Cores(m) : m.cpus[c].min = 0 /\ m.cpus[c].max = 0
  /\ m.policies # {} => "default" \in m.policies
  /\ \A k, l \in Switches : k # l => Items(m.nodes[k]) \cap Items(m.nodes[l]) = {}
  /\ m.nodes["turbo"] \in {<<>>, <<"no_turbo">>, <<"boost">>}
  /\ \A k \in Switches : k # "turbo" => "no_turbo" \notin Items(m.nodes[k])
  /\ IF m.mac
     THEN /\ m.nodes \in {MacNodes(b) : b \in BOOLEAN}
          /\ m.zones = <<>> /\ ~ HasCard(m) /\ ~ m.pref /\ ~ m.governor /\ m.policies = {}
          /\ ~ m.writeback /\ ~ m.backlight /\ \A c \in Cores(m) : m.cpus[c].max = 0
     ELSE \A k \in Items(MacCalls) : m.nodes[k] = <<>>

=============================================================================
