--------------------------- MODULE SingleInstance ---------------------------
(***************************************************************************)
(* What the instance lock promises the rest of WattWarden: at every moment *)
(* at most one daemon works on the hardware, and a daemon starts working   *)
(* only once the previous one has stopped.  There is no lock, no PID file  *)
(* and no probe at this level; InstanceLock implements it with flock(2).   *)
(***************************************************************************)
CONSTANT Pids      \* process ids a daemon may be given

VARIABLE serving   \* the daemons past PidManager::acquire and before release

Init == serving = {}

(* A daemon returns from PidManager::acquire. *)
Begin(p) ==
  /\ serving = {}
  /\ serving' = {p}

(* The daemon releases the lock or dies. *)
End ==
  /\ serving # {}
  /\ serving' = {}

Next == End \/ \E p \in Pids : Begin(p)

Spec == Init /\ [][Next]_serving
=============================================================================
