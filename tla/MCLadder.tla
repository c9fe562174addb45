------------------------------ MODULE MCLadder ------------------------------
(* Two small cores and a big one; two zones with different ranges. *)
EXTENDS Ladder

MCCpuMin == [c \in Cores |-> IF c = NumCpus - 1 THEN 600 ELSE 400]
MCCpuMax == [c \in Cores |-> IF c = NumCpus - 1 THEN 700 ELSE 500]
MCZoneMin == [z \in Zones |-> IF z = 0 THEN 2 ELSE 4]
MCZoneMax == [z \in Zones |-> IF z = 0 THEN 6 ELSE 8]

=============================================================================
