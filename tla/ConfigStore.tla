---------------------------- MODULE ConfigStore ----------------------------
(***************************************************************************)
(* What the configuration file is taken for by everybody who loads it,     *)
(* changes one setting and saves it: a record whose settings change one at *)
(* a time.  A save that is lost halfway forgets them all.  Settings        *)
(* implements it as long as no save overtakes another one.                 *)
(***************************************************************************)
CONSTANT Fields    \* the settings of Config

VARIABLE config    \* what has been saved last

Default == [f \in Fields |-> FALSE]

Init == config = Default

Set(f, v) == config' = [config EXCEPT ![f] = v]

Sets == \E f \in Fields, v \in BOOLEAN : Set(f, v)

Forgets == config' = Default

(* Nothing is ever lost ... *)
Spec == Init /\ [][Sets]_config

(* ... or everything, now and then. *)
Lossy == Init /\ [][Sets \/ Forgets]_config

=============================================================================
