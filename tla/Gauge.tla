-------------------------------- MODULE Gauge --------------------------------
(***************************************************************************)
(* What LinuxBattery makes of the nodes of a battery                        *)
(* (platform/linux/battery.rs).  Every figure has several sources, in files *)
(* or in the lines of `uevent`, in an order of preference.  Units are       *)
(* scaled so that a current times a voltage is a power.                     *)
(***************************************************************************)
EXTENDS Integers

CONSTANT NoReading   \* a leaf that is missing or empty

ASSUME NoReadingIsNoNumber == NoReading \notin Int

(* The numeric leaves, named alike in a file and in a line of uevent. *)
Leaves == {"power_now", "current_now", "voltage_now", "energy_now",
           "charge_now", "charge_full", "charge_full_design",
           "energy_full", "energy_full_design"}

Places == {"file", "uevent"}

(* Those that are read as unsigned: anything else counts as missing. *)
Capacities == {"charge_full", "charge_full_design",
               "energy_full", "energy_full_design"}

Numbers == Int \cup {NoReading}
Sizes == Nat \cup {NoReading}

(* A reading says what each leaf holds in each place. *)
Reading == {r \in [Places -> [Leaves -> Numbers]] :
              \A p \in Places, l \in Capacities : r[p][l] \in Sizes}

(* Each line of uevent repeats its file: what the kernel does. *)
Mirrored(r) == r["uevent"] = r["file"]

Magnitude(n) == IF n < 0 THEN - n ELSE n

(* The place and the kind of a source. *)
From(place, kind) == [place |-> place, kind |-> kind]

(* What a source of a kind is made of. *)
PowerLeaves ==
  [power |-> {"power_now"}, current |-> {"current_now", "voltage_now"}]

AmountLeaves ==
  [energy |-> {"energy_now", "power_now"},
   charge |-> {"charge_now", "current_now", "voltage_now"}]

Exposes(r, place, leaves) == \A l \in leaves : r[place][l] # NoReading

(* The most preferred of the sources that are usable. *)
Earliest(usable) == CHOOSE i \in usable : \A j \in usable : i <= j

-----------------------------------------------------------------------------
(* consumption_watts. *)
PowerOrder == <<From("file", "power"), From("file", "current"),
                From("uevent", "power"), From("uevent", "current")>>

GivesPower(r, s) == Exposes(r, s.place, PowerLeaves[s.kind])

WattsOf(r, s) ==
  IF s.kind = "power"
  THEN Magnitude(r[s.place]["power_now"])
  ELSE Magnitude(r[s.place]["current_now"] * r[s.place]["voltage_now"])

Watts(r) ==
  LET usable == {i \in 1..4 : GivesPower(r, PowerOrder[i])}
  IN IF usable = {} THEN 0 ELSE WattsOf(r, PowerOrder[Earliest(usable)])

-----------------------------------------------------------------------------
(* time_remaining: an amount, and the power it goes at.  A source is taken
   whole or not at all. *)
AmountOrder == <<From("file", "energy"), From("uevent", "energy"),
                 From("uevent", "charge"), From("file", "charge")>>

GivesAmount(r, s) == Exposes(r, s.place, AmountLeaves[s.kind])

(* Mutant: the charge is taken times the voltage, the current is not. *)
AmountUnscaled(r, s) ==
  LET leaf == r[s.place]
  IN IF s.kind = "energy"
     THEN [energy |-> leaf["energy_now"],
           power |-> Magnitude(leaf["power_now"])]
     ELSE [energy |-> leaf["charge_now"] * leaf["voltage_now"],
           power |-> Magnitude(leaf["current_now"])]

AmountOf(r, s) ==
  LET leaf == r[s.place]
  IN IF s.kind = "energy"
     THEN [energy |-> leaf["energy_now"],
           power |-> Magnitude(leaf["power_now"])]
     ELSE [energy |-> leaf["charge_now"] * leaf["voltage_now"],
           power |-> Magnitude(leaf["current_now"]) * leaf["voltage_now"]]

Remaining(r) ==
  LET usable == {i \in 1..4 : GivesAmount(r, AmountOrder[i])}
  IN IF usable = {} THEN [energy |-> 0, power |-> 0]
                    ELSE AmountOf(r, AmountOrder[Earliest(usable)])

(* Hours are given while something flows; otherwise "Calculating...". *)
Flows(r) == Remaining(r).power > 0

-----------------------------------------------------------------------------
(* health: the capacity now and by design.  One of both is enough for a pair
   to be taken. *)
HealthOrder == <<From("file", "charge"), From("file", "energy"),
                 From("uevent", "charge"), From("uevent", "energy")>>

PairOf(r, s) ==
  IF s.kind = "charge"
  THEN [full |-> r[s.place]["charge_full"],
        design |-> r[s.place]["charge_full_design"]]
  ELSE [full |-> r[s.place]["energy_full"],
        design |-> r[s.place]["energy_full_design"]]

NoPair == [full |-> NoReading, design |-> NoReading]

(* Mutant: what the charge pair lacks is taken from the energy pair. *)
PatchedPair(r) ==
  LET c == PairOf(r, From("file", "charge"))
      e == PairOf(r, From("file", "energy"))
  IN [full |-> IF c.full # NoReading THEN c.full ELSE e.full,
      design |-> IF c.design # NoReading THEN c.design ELSE e.design]

HealthPair(r) ==
  LET usable == {i \in 1..4 : PairOf(r, HealthOrder[i]) # NoPair}
  IN IF usable = {} THEN NoPair ELSE PairOf(r, HealthOrder[Earliest(usable)])

(* health_pct, in tenths of a percent, rounded to the nearest. *)
HealthPct(pair) ==
  IF pair.full = NoReading \/ pair.design = NoReading \/ pair.design = 0
  THEN NoReading
  ELSE (2000 * pair.full + pair.design) \div (2 * pair.design)

-----------------------------------------------------------------------------
(* is_charging: a mains or USB supply is online, or the battery says so. *)
Charging(online, status) == online \/ status \in {"Charging", "Full"}

(* Mutant: the percentage is not clamped. *)
RawPercentage(capacity) == IF capacity = NoReading THEN 0 ELSE capacity

(* battery_percentage: clamped, and zero where there is none. *)
Percentage(capacity) ==
  CASE capacity = NoReading -> 0
    [] capacity # NoReading -> IF capacity < 0 THEN 0
                               ELSE IF capacity > 100 THEN 100 ELSE capacity
=============================================================================
