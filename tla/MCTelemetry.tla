----------------------------- MODULE MCTelemetry -----------------------------
(* Telemetry of a pack that counts in charge and shows only part of its
   energies, of one that counts in energy, of one that tells a power and no
   energy, and of an empty bay. *)
EXTENDS Telemetry

Shows(leaves) == [p \in Places |-> [l \in Leaves |->
                    IF l \in DOMAIN leaves THEN leaves[l] ELSE NoReading]]

ChargePack ==
  [present |-> TRUE,
   reading |-> Shows([charge_full |-> 3, charge_full_design |-> 4,
                      energy_full_design |-> 40, charge_now |-> 2,
                      current_now |-> -3, voltage_now |-> 10]),
   capacity |-> 60, temp |-> 455]

(* Of the charges only the full one is there: the pair is taken all the same. *)
EnergyPack ==
  [present |-> TRUE,
   reading |-> Shows([charge_full |-> 3, energy_full |-> 30,
                      energy_full_design |-> 40, energy_now |-> 20,
                      power_now |-> 5, charge_now |-> 2]),
   capacity |-> 101, temp |-> NoReading]

MixedPack ==
  [present |-> TRUE,
   reading |-> Shows([charge_now |-> 2, current_now |-> -3, voltage_now |-> 10,
                      power_now |-> 28]),
   capacity |-> 60, temp |-> NoReading]

EmptyBay ==
  [present |-> FALSE,
   reading |-> Shows([none |-> 0]), capacity |-> NoReading, temp |-> NoReading]

Bays == {ChargePack, EnergyPack, MixedPack, EmptyBay}
==============================================================================
