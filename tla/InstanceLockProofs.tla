------------------------- MODULE InstanceLockProofs -------------------------
(***************************************************************************)
(* Proofs about InstanceLock, for any set of process ids and of clients.   *)
(***************************************************************************)
EXTENDS InstanceLock, TLAPS

(* The lock variable and the stations agree: a process holds the lock      *)
(* exactly from its flock to its release or death.  MutualExclusion alone  *)
(* is not inductive, it says nothing of who owns the lock.                 *)
LockAgrees ==
  /\ \A p \in Pids : proc[p] \in Holding <=> lock = p
  /\ \A c \in Clients : c \in probing <=> lock = c

(* The PID file was emptied by the holder before it writes into it. *)
FileAgrees ==
  \A p \in Pids :
    /\ proc[p] = "truncated" => pidFile = NoPid
    /\ proc[p] \in Serving => pidFile \in {p, NoPid}

IInv == TypeOK /\ LockAgrees /\ FileAgrees

-----------------------------------------------------------------------------
(* The stations of one process cover its steps. *)
LEMMA ProcessStepCases ==
  ASSUME NEW p \in Pids, ProcessStep(p)
  PROVE  \/ Spawn(p) \/ AcquireLock(p) \/ AcquireRefused(p) \/ Truncate(p)
         \/ TruncateFails(p) \/ WritePid(p) \/ EnterLoop(p) \/ Release(p)
         \/ Exit(p) \/ Crash(p) \/ ForeignStart(p) \/ ForeignExit(p)
BY DEF ProcessStep, DaemonStep

LEMMA InitIInv == Init => IInv
BY PidsAssumption
   DEF Init, IInv, TypeOK, LockAgrees, FileAgrees, Stations, Holding,
       Acquiring, Serving

LEMMA TypeStep == IInv /\ [Next]_vars => TypeOK'
<1> SUFFICES ASSUME IInv, [Next]_vars PROVE TypeOK'
  OBVIOUS
<1> USE DEF IInv, TypeOK, Stations, Holding, Acquiring, Serving
<1>1. ASSUME NEW p \in Pids, ProcessStep(p) PROVE TypeOK'
  BY <1>1, ProcessStepCases
     DEF Spawn, AcquireLock, AcquireRefused, Truncate, TruncateFails,
         WritePid, EnterLoop, Release, Exit, Crash, ForeignStart,
         ForeignExit, Goto, Freed
<1>2. ASSUME NEW c \in Clients, ClientStep(c) PROVE TypeOK'
  <2>1. CASE Sigterm(c)
    BY <2>1 DEF Sigterm, AfterSigterm, Freed
  <2>2. CASE ~ Sigterm(c)
    BY <1>2, <2>2
       DEF ClientStep, ProbeTakesLock, ProbeDropsLock, ProbeFindsLocked,
           ProbeCannotOpen, ReadPid, Freed
  <2> QED BY <2>1, <2>2
<1>3. CASE UNCHANGED vars
  BY <1>3 DEF vars
<1> QED BY <1>1, <1>2, <1>3 DEF Next

LEMMA LockStep == IInv /\ [Next]_vars => LockAgrees'
<1> SUFFICES ASSUME IInv, [Next]_vars PROVE LockAgrees'
  OBVIOUS
<1> USE PidsAssumption, ClientsAssumption
    DEF IInv, TypeOK, LockAgrees, Stations, Holding, Acquiring, Serving
<1>1. ASSUME NEW p \in Pids, ProcessStep(p) PROVE LockAgrees'
  <2>1. CASE AcquireLock(p)
    BY <2>1 DEF AcquireLock, Goto
  <2>2. CASE TruncateFails(p) \/ Release(p) \/ Crash(p)
    BY <2>2 DEF TruncateFails, Release, Crash, Goto, Freed
  <2>3. CASE \/ Spawn(p) \/ AcquireRefused(p) \/ Truncate(p) \/ WritePid(p)
             \/ EnterLoop(p) \/ Exit(p) \/ ForeignStart(p) \/ ForeignExit(p)
    BY <2>3 DEF Spawn, AcquireRefused, Truncate, WritePid, EnterLoop, Exit,
                ForeignStart, ForeignExit, Goto
  <2> QED BY <1>1, <2>1, <2>2, <2>3, ProcessStepCases
<1>2. ASSUME NEW c \in Clients, ClientStep(c) PROVE LockAgrees'
  <2>1. CASE ProbeTakesLock(c)
    BY <2>1 DEF ProbeTakesLock
  <2>2. CASE ProbeDropsLock(c)
    BY <2>2 DEF ProbeDropsLock, Freed
  <2>3. CASE Sigterm(c)
    <3>1. target[c] \in Pids
      BY <2>3 DEF Sigterm
    <3>2. CASE proc[target[c]] \in {"running", "stopping", "exiting"}
      BY <2>3, <3>1, <3>2 DEF Sigterm, AfterSigterm
    <3>3. CASE proc[target[c]] \notin {"running", "stopping", "exiting"}
      <4>1. /\ proc' = [proc EXCEPT ![target[c]] = "free"]
            /\ lock' = Freed(target[c])
            /\ UNCHANGED probing
        BY <2>3, <3>1, <3>3 DEF Sigterm, AfterSigterm
      <4> QED BY <3>1, <4>1 DEF Freed
    <3> QED BY <3>2, <3>3
  <2>4. CASE ProbeFindsLocked(c) \/ ProbeCannotOpen(c) \/ ReadPid(c)
    BY <2>4 DEF ProbeFindsLocked, ProbeCannotOpen, ReadPid
  <2> QED BY <1>2, <2>1, <2>2, <2>3, <2>4 DEF ClientStep
<1>3. CASE UNCHANGED vars
  BY <1>3 DEF vars
<1> QED BY <1>1, <1>2, <1>3 DEF Next

(* Only the owner of the lock writes the PID file, so the claim of every   *)
(* other process about the file is vacuous when it changes.                *)
LEMMA FileStep == IInv /\ [Next]_vars => FileAgrees'
<1> SUFFICES ASSUME IInv, [Next]_vars PROVE FileAgrees'
  OBVIOUS
<1> USE PidsAssumption
    DEF IInv, TypeOK, FileAgrees, Stations, Holding, Acquiring, Serving
<1>1. ASSUME NEW p \in Pids, ProcessStep(p) PROVE FileAgrees'
  <2>1. CASE Truncate(p) \/ WritePid(p)
    <3>1. \A q \in Pids \ {p} : proc[q] \notin Holding
      BY <2>1 DEF LockAgrees, Truncate, WritePid, Goto
    <3> QED BY <2>1, <3>1 DEF Truncate, WritePid, Goto
  <2>2. CASE \/ Spawn(p) \/ AcquireLock(p) \/ AcquireRefused(p)
             \/ TruncateFails(p) \/ EnterLoop(p) \/ Release(p) \/ Exit(p)
             \/ Crash(p) \/ ForeignStart(p) \/ ForeignExit(p)
    BY <2>2 DEF Spawn, AcquireLock, AcquireRefused, TruncateFails, EnterLoop,
                Release, Exit, Crash, ForeignStart, ForeignExit, Goto
  <2> QED BY <1>1, <2>1, <2>2, ProcessStepCases
<1>2. ASSUME NEW c \in Clients, ClientStep(c) PROVE FileAgrees'
  <2>1. CASE Sigterm(c)
    BY <2>1 DEF Sigterm, AfterSigterm
  <2>2. CASE ~ Sigterm(c)
    BY <1>2, <2>2
       DEF ClientStep, ProbeTakesLock, ProbeDropsLock, ProbeFindsLocked,
           ProbeCannotOpen, ReadPid
  <2> QED BY <2>1, <2>2
<1>3. CASE UNCHANGED vars
  BY <1>3 DEF vars
<1> QED BY <1>1, <1>2, <1>3 DEF Next

(* The inductive invariant holds in every reachable state. *)
THEOREM Invariance == Spec => []IInv
<1>1. IInv /\ [Next]_vars => IInv'
  BY TypeStep, LockStep, FileStep DEF IInv
<1> QED BY InitIInv, <1>1, PTL DEF Spec

(* Every variable keeps its type: the stations a daemon goes through, the  *)
(* owner of the flock and the contents of the PID file (pid.rs:36-125).    *)
THEOREM TypeCorrect == Spec => []TypeOK
<1>1. IInv => TypeOK
  BY DEF IInv
<1> QED BY Invariance, <1>1, PTL

(* At most one daemon or probe holds the instance lock, for any number of  *)
(* processes that start, crash, are probed and are signalled               *)
(* (pid.rs:96-124).                                                        *)
THEOREM MutualExclusionHolds == Spec => []MutualExclusion
<1>1. IInv => MutualExclusion
  BY DEF IInv, TypeOK, LockAgrees, MutualExclusion, LockHolders
<1> QED BY Invariance, <1>1, PTL

(* While a daemon serves, the PID file names it or nobody (pid.rs:96-118). *)
THEOREM PidFileHolds == Spec => []PidFileNamesHolder
<1>1. IInv => PidFileNamesHolder
  BY DEF IInv, FileAgrees, PidFileNamesHolder
<1> QED BY Invariance, <1>1, PTL

(* Where a client may open the PID file, an is_running that answers        *)
(* `false` was right at that instant (pid.rs:78-84).                       *)
THEOREM ProbeDownHolds == Spec => ProbeDownIsTruthful
<1>1. IInv /\ [Next]_vars => [\A c \in RootClients : Truthful(c)]_vars
  <2> SUFFICES ASSUME IInv, Next, NEW c \in RootClients,
                      answer[c] # "down", answer'[c] = "down"
               PROVE  \A p \in Pids : proc[p] \notin Holding
    BY DEF Truthful
  <2>1. \A p \in Pids : ~ ProcessStep(p)
    BY ProcessStepCases
       DEF Spawn, AcquireLock, AcquireRefused, Truncate, TruncateFails,
           WritePid, EnterLoop, Release, Exit, Crash, ForeignStart,
           ForeignExit
  <2>2. PICK d \in Clients : ClientStep(d)
    BY <2>1 DEF Next
  <2>3. ProbeTakesLock(d)
    BY <2>2, ClientsAssumption DEF ClientStep, ProbeDropsLock, ProbeFindsLocked,
                ProbeCannotOpen, ReadPid, Sigterm, IInv, TypeOK
  <2> QED BY <2>3, PidsAssumption DEF ProbeTakesLock, IInv, LockAgrees
<1> QED BY Invariance, <1>1, PTL DEF Spec, ProbeDownIsTruthful

-----------------------------------------------------------------------------
(* Only the owner of the lock can be serving, so a step that changes who   *)
(* serves fills the empty set or empties it.                               *)
LEMMA ServingStep == IInv /\ [Next]_vars => [Abstract!Next]_ServingPids
<1> SUFFICES ASSUME IInv, [Next]_vars
             PROVE  Abstract!Next \/ UNCHANGED ServingPids
  OBVIOUS
<1>1. ASSUME NEW p \in Pids, proc[p] \in Holding
      PROVE  \A q \in Pids \ {p} : proc[q] \notin Holding
  BY <1>1 DEF IInv, LockAgrees
<1> USE DEF IInv, TypeOK, ServingPids, Stations, Holding, Acquiring, Serving
(* A station changed of one process only. *)
<1>2. ASSUME NEW p \in Pids, NEW to \in Stations,
             proc' = [proc EXCEPT ![p] = to],
             to \in Serving => proc[p] \in Holding
      PROVE  Abstract!Next \/ UNCHANGED ServingPids
  <2>1. CASE proc[p] \in Serving /\ to \notin Serving
    <3>1. ServingPids = {p} /\ ServingPids' = {}
      BY <1>1, <1>2, <2>1
    <3> QED BY <3>1 DEF Abstract!Next, Abstract!End
  <2>2. CASE proc[p] \notin Serving /\ to \in Serving
    <3>1. ServingPids = {} /\ ServingPids' = {p}
      BY <1>1, <1>2, <2>2
    <3> QED BY <3>1 DEF Abstract!Next, Abstract!Begin
  <2>3. CASE proc[p] \in Serving <=> to \in Serving
    BY <1>2, <2>3
  <2> QED BY <2>1, <2>2, <2>3
<1>3. ASSUME NEW p \in Pids, ProcessStep(p)
      PROVE  Abstract!Next \/ UNCHANGED ServingPids
  <2>1. PICK to \in Stations :
          /\ proc' = [proc EXCEPT ![p] = to]
          /\ to \in Serving => proc[p] \in Holding
    BY <1>3, ProcessStepCases
       DEF Spawn, AcquireLock, AcquireRefused, Truncate, TruncateFails,
           WritePid, EnterLoop, Release, Exit, Crash, ForeignStart,
           ForeignExit, Goto
  <2> QED BY <1>2, <2>1
<1>4. ASSUME NEW c \in Clients, ClientStep(c)
      PROVE  Abstract!Next \/ UNCHANGED ServingPids
  <2>1. CASE Sigterm(c)
    <3>1. target[c] \in Pids
      BY <2>1 DEF Sigterm
    <3>2. AfterSigterm(proc[target[c]]) \in Serving
            => proc[target[c]] \in Holding
      BY DEF AfterSigterm
    <3>3. proc' = [proc EXCEPT ![target[c]] = AfterSigterm(proc[target[c]])]
      BY <2>1 DEF Sigterm
    <3>4. AfterSigterm(proc[target[c]]) \in Stations
      BY DEF AfterSigterm
    <3> QED BY <1>2, <3>1, <3>2, <3>3, <3>4
  <2>2. CASE ~ Sigterm(c)
    <3>1. UNCHANGED proc
      BY <1>4, <2>2
         DEF ClientStep, ProbeTakesLock, ProbeDropsLock, ProbeFindsLocked,
             ProbeCannotOpen, ReadPid
    <3> QED BY <3>1
  <2> QED BY <2>1, <2>2
<1>5. CASE UNCHANGED vars
  BY <1>5 DEF vars
<1> QED BY <1>3, <1>4, <1>5 DEF Next

(* The lock refines SingleInstance, for any number of processes: every     *)
(* acquire that succeeds starts the only daemon, every release or death    *)
(* ends it, and nothing else is visible (pid.rs:96-125).                   *)
THEOREM Refinement == Spec => ImplementsSingleInstance
<1>1. Init => Abstract!Init
  BY DEF Init, Abstract!Init, ServingPids, Serving
<1> QED BY Invariance, ServingStep, <1>1, PTL
        DEF Spec, ImplementsSingleInstance, Abstract!Spec


-----------------------------------------------------------------------------
(* A stale file never wedges the service: what NeverWedged says without time. *)

Justified(p) == AcquireRefused(p) => LockHolders # {}

(* A daemon is turned away only while a live daemon or a probe holds the lock:
   no crash, kill or reboot at whatever system call, no remnant of the PID file
   and no recycled number leaves a lock behind that nobody holds (pid.rs:3-5,
   pid.rs:96-106). *)
THEOREM RefusedByTheLiving == Spec => [][\A p \in Pids : Justified(p)]_vars
<1>1. IInv => \A p \in Pids : Justified(p)
  BY DEF IInv, TypeOK, LockAgrees, Justified, AcquireRefused, LockHolders
<1> QED BY Invariance, <1>1, PTL

(* The way of a daemon that has the lock. *)
OnItsWay(p) == proc[p] \in {"locked", "truncated", "booting", "running"}

LEMMA WayStep ==
  ASSUME IInv, NEW p \in Pids, OnItsWay(p), [Next /\ ~ Disturbance]_vars
  PROVE  /\ OnItsWay(p)'
         /\ proc[p] = "running" => proc'[p] = "running"
<1>0. proc \in [Pids -> Stations]
  BY DEF IInv, TypeOK
<1>1. ASSUME NEW q \in Pids, ProcessStep(q), ~ Crash(q), ~ TruncateFails(q)
      PROVE  \/ proc'[p] = proc[p]
             \/ proc[p] = "locked" /\ proc'[p] = "truncated"
             \/ proc[p] = "truncated" /\ proc'[p] = "booting"
             \/ proc[p] = "booting" /\ proc'[p] = "running"
  <2>1. PICK from, to : Goto(q, from, to)
                        /\ \/ from \notin {"locked", "truncated", "booting", "running"}
                           \/ from = "locked" /\ to = "truncated"
                           \/ from = "truncated" /\ to = "booting"
                           \/ from = "booting" /\ to = "running"
    BY <1>1, ProcessStepCases
       DEF Spawn, AcquireLock, AcquireRefused, Truncate, WritePid, EnterLoop,
           Release, Exit, ForeignStart, ForeignExit
  <2> QED BY <1>0, <2>1 DEF Goto, OnItsWay
<1>2. ASSUME NEW c \in Clients, ClientStep(c), ~ Sigterm(c)
      PROVE  UNCHANGED proc
  BY <1>2 DEF ClientStep, ProbeTakesLock, ProbeDropsLock, ProbeFindsLocked,
              ProbeCannotOpen, ReadPid
<1>3. CASE Next /\ ~ Disturbance
  BY <1>1, <1>2, <1>3 DEF Next, Disturbance, OnItsWay
<1>4. CASE UNCHANGED vars
  BY <1>4 DEF vars, OnItsWay
<1> QED BY <1>3, <1>4

Running(p) == proc[p] = "running"

(* A daemon that has got the lock is past the point where anybody but a crash,
   an I/O error or a signal can stop it: it goes on to its loop and stays there,
   whoever probes, starts beside it or takes its number for another program's. *)
THEOREM HolderGoesOn ==
  ASSUME NEW p \in Pids
  PROVE  Spec => [](OnItsWay(p) /\ [][~ Disturbance]_vars
                      => []OnItsWay(p) /\ [](Running(p) => []Running(p)))
<1>1. IInv /\ OnItsWay(p) /\ [Next]_vars /\ [~ Disturbance]_vars =>
        OnItsWay(p)' /\ (Running(p) => Running(p)')
  BY WayStep DEF Running
<1> QED BY <1>1, Invariance, PTL DEF Spec

===============================================================================
