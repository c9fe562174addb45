---------------------------- MODULE InstanceLock ----------------------------
(***************************************************************************)
(* The single-instance lock of the daemon (wattwarden-daemon/src/pid.rs),  *)
(* its callers in the daemon's run loop, the liveness probes and the stop  *)
(* signals of the CLI and the dashboard.                                   *)
(*                                                                         *)
(* /var/run/wattwarden.pid is two things at once: the anchor of an         *)
(* exclusive flock(2), and a text file with an advisory PID.  Probing the  *)
(* lock takes it for an instant; taking it and writing the PID are         *)
(* separate system calls; a process can die between any two of them; and   *)
(* the number of a dead daemon may be given to an unrelated program.       *)
(***************************************************************************)
CONSTANTS
  Pids,          \* process ids a daemon may be given
  Clients,       \* commands and dashboards that probe and signal
  RootClients,   \* those that may open the PID file for writing
  NoOwner,       \* nobody holds the lock
  NoPid          \* the PID file is missing, empty or unparsable

ASSUME PidsAssumption == NoOwner \notin Pids \cup Clients /\ NoPid \notin Pids
ASSUME ClientsAssumption == Pids \cap Clients = {} /\ RootClients \subseteq Clients

VARIABLES
  proc,      \* what each process id is doing
  lock,      \* owner of the flock
  pidFile,   \* what read_pid returns
  probing,   \* the clients holding the lock inside is_running
  answer,    \* last answer of is_running to each client
  target     \* the PID each client has read and not signalled yet

vars == <<proc, lock, pidFile, probing, answer, target>>

(* "free": no such process.  "foreign": the number belongs to a program that
   is not WattWarden.  The others are the stations of DaemonRunner::run. *)
Acquiring == {"locked", "truncated"}             \* inside PidManager::acquire
Serving   == {"booting", "running", "stopping"}  \* between acquire and release
Holding   == Acquiring \cup Serving
Stations  == {"free", "foreign", "starting", "exiting"} \cup Holding

TypeOK ==
  /\ proc \in [Pids -> Stations]
  /\ lock \in Pids \cup Clients \cup {NoOwner}
  /\ pidFile \in Pids \cup {NoPid}
  /\ probing \subseteq Clients
  /\ answer \in [Clients -> {"none", "up", "down"}]
  /\ target \in [Clients -> Pids \cup {NoPid}]

Init ==
  /\ proc = [p \in Pids |-> "free"]
  /\ lock = NoOwner
  /\ pidFile \in Pids \cup {NoPid}       \* a remnant of an earlier boot
  /\ probing = {}
  /\ answer = [c \in Clients |-> "none"]
  /\ target = [c \in Clients |-> NoPid]

Goto(p, from, to) ==
  /\ proc[p] = from
  /\ proc' = [proc EXCEPT ![p] = to]

(* The kernel drops the flock with the last descriptor of its owner. *)
Freed(owner) == IF lock = owner THEN NoOwner ELSE lock

-----------------------------------------------------------------------------
(* The daemon process.                                                     *)

(* systemd, or spawn_detached_daemon of a CLI or a dashboard. *)
Spawn(p) ==
  /\ Goto(p, "free", "starting")
  /\ UNCHANGED <<lock, pidFile, probing, answer, target>>

(* Mutant: the lock is not exclusive, as in the fallback for other systems. *)
AcquireLockAlways(p) ==
  /\ Goto(p, "starting", "locked")
  /\ lock' = p
  /\ UNCHANGED <<pidFile, probing, answer, target>>

(* Mutant: a PID in the file counts as a live daemon. *)
AcquireLockIfNoPid(p) ==
  /\ Goto(p, "starting", "locked")
  /\ lock = NoOwner
  /\ pidFile = NoPid
  /\ lock' = p
  /\ UNCHANGED <<pidFile, probing, answer, target>>

AcquireLock(p) ==
  /\ Goto(p, "starting", "locked")
  /\ lock = NoOwner
  /\ lock' = p
  /\ UNCHANGED <<pidFile, probing, answer, target>>

(* "already active with PID ...": run returns the error, the process ends. *)
AcquireRefused(p) ==
  /\ Goto(p, "starting", "free")
  /\ lock # NoOwner
  /\ UNCHANGED <<lock, pidFile, probing, answer, target>>

(* Mutant: set_len(0) is forgotten. *)
TruncateForgotten(p) ==
  /\ Goto(p, "locked", "truncated")
  /\ UNCHANGED <<lock, pidFile, probing, answer, target>>

Truncate(p) ==
  /\ Goto(p, "locked", "truncated")
  /\ pidFile' = NoPid
  /\ UNCHANGED <<lock, probing, answer, target>>

(* set_len reports an error: the guard drops and run returns. *)
TruncateFails(p) ==
  /\ Goto(p, "locked", "free")
  /\ lock' = Freed(p)
  /\ UNCHANGED <<pidFile, probing, answer, target>>

(* Mutant: the guard is not kept in the manager, acquire drops it. *)
WritePidDropsGuard(p) ==
  /\ Goto(p, "truncated", "booting")
  /\ pidFile' \in {p, pidFile}
  /\ lock' = Freed(p)
  /\ UNCHANGED <<probing, answer, target>>

(* The result of the write is ignored, a full /var/run leaves the file as it
   is; the guard moves into the manager. *)
WritePid(p) ==
  /\ Goto(p, "truncated", "booting")
  /\ pidFile' \in {p, pidFile}
  /\ UNCHANGED <<lock, probing, answer, target>>

(* Boot settings and first pass done; the first poll of wait_for_shutdown
   installs the signal handlers. *)
EnterLoop(p) ==
  /\ Goto(p, "booting", "running")
  /\ UNCHANGED <<lock, pidFile, probing, answer, target>>

Release(p) ==
  /\ Goto(p, "stopping", "exiting")
  /\ lock' = Freed(p)
  /\ UNCHANGED <<pidFile, probing, answer, target>>

Exit(p) ==
  /\ Goto(p, "exiting", "free")
  /\ UNCHANGED <<lock, pidFile, probing, answer, target>>

(* Panic, SIGKILL or out of memory, at any station. *)
Crash(p) ==
  /\ proc[p] \notin {"free", "foreign"}
  /\ proc' = [proc EXCEPT ![p] = "free"]
  /\ lock' = Freed(p)
  /\ UNCHANGED <<pidFile, probing, answer, target>>

-----------------------------------------------------------------------------
(* Other programs.  Only the number in the PID file is worth recycling, and
   one number is left for the next daemon (bound RoomForDaemon).           *)

RoomForDaemon(p) == \E q \in Pids \ {p} : proc[q] # "foreign"

ForeignStart(p) ==
  /\ Goto(p, "free", "foreign")
  /\ pidFile = p
  /\ RoomForDaemon(p)
  /\ UNCHANGED <<lock, pidFile, probing, answer, target>>

ForeignExit(p) ==
  /\ Goto(p, "foreign", "free")
  /\ UNCHANGED <<lock, pidFile, probing, answer, target>>

-----------------------------------------------------------------------------
(* Clients: PidManager::is_running and the SIGTERM of the stop commands.   *)

(* Mutant: no PID in the file counts as no daemon. *)
ProbeTrustsPidFile(c) ==
  /\ c \in RootClients \ probing
  /\ pidFile = NoPid
  /\ answer' = [answer EXCEPT ![c] = "down"]
  /\ UNCHANGED <<proc, lock, pidFile, probing, target>>

(* The probe gets the lock: it will answer `false` once the guard drops. *)
ProbeTakesLock(c) ==
  /\ c \in RootClients \ probing
  /\ lock = NoOwner
  /\ lock' = c
  /\ probing' = probing \cup {c}
  /\ answer' = [answer EXCEPT ![c] = "down"]
  /\ UNCHANGED <<proc, pidFile, target>>

(* The guard drops, at the end of the match arm or with its process. *)
ProbeDropsLock(c) ==
  /\ c \in probing
  /\ lock' = Freed(c)
  /\ probing' = probing \ {c}
  /\ UNCHANGED <<proc, pidFile, answer, target>>

ProbeFindsLocked(c) ==
  /\ c \in RootClients \ probing
  /\ lock # NoOwner
  /\ answer' = [answer EXCEPT ![c] = "up"]
  /\ UNCHANGED <<proc, lock, pidFile, probing, target>>

(* open for writing fails with EACCES, which is_running maps to `false`. *)
ProbeCannotOpen(c) ==
  /\ c \in Clients \ RootClients
  /\ answer' = [answer EXCEPT ![c] = "down"]
  /\ UNCHANGED <<proc, lock, pidFile, probing, target>>

ReadPid(c) ==
  /\ c \notin probing
  /\ target' = [target EXCEPT ![c] = pidFile]
  /\ UNCHANGED <<proc, lock, pidFile, probing, answer>>

(* What SIGTERM makes of a process: the run loop breaks; before the handlers
   are installed, and in foreign programs, the default action ends it. *)
AfterSigterm(station) ==
  CASE station \in {"running", "stopping"} -> "stopping"
    [] station = "exiting" -> "exiting"
    [] OTHER -> "free"

Sigterm(c) ==
  LET p == target[c] IN
  /\ c \in RootClients        \* kill(2) is refused to the others
  /\ c \notin probing
  /\ p # NoPid
  /\ proc' = [proc EXCEPT ![p] = AfterSigterm(@)]
  /\ lock' = IF proc'[p] = "free" THEN Freed(p) ELSE lock
  /\ target' = [target EXCEPT ![c] = NoPid]
  /\ UNCHANGED <<pidFile, probing, answer>>

-----------------------------------------------------------------------------
DaemonStep(p) ==
  \/ AcquireLock(p)
  \/ AcquireRefused(p)
  \/ Truncate(p)
  \/ WritePid(p)
  \/ EnterLoop(p)
  \/ Release(p)
  \/ Exit(p)

ClientStep(c) ==
  \/ ProbeTakesLock(c)
  \/ ProbeDropsLock(c)
  \/ ProbeFindsLocked(c)
  \/ ProbeCannotOpen(c)
  \/ ReadPid(c)
  \/ Sigterm(c)

ProcessStep(p) ==
  \/ Spawn(p)
  \/ DaemonStep(p)
  \/ TruncateFails(p)
  \/ Crash(p)
  \/ ForeignStart(p)
  \/ ForeignExit(p)

Next ==
  \/ \E p \in Pids : ProcessStep(p)
  \/ \E c \in Clients : ClientStep(c)

Spec == Init /\ [][Next]_vars

(* systemd restarts the daemon (Restart=always) when it is gone. *)
Respawn ==
  /\ \A p \in Pids : proc[p] \in {"free", "foreign"}
  /\ \E p \in Pids : Spawn(p)

(* Processes keep running, a guard that is in scope drops, the unit is
   respawned.  Getting the lock is strongly fair: a probe holds it for
   microseconds, and attempts come seconds apart and for ever. *)
Fairness ==
  /\ WF_vars(Respawn)
  /\ \A p \in Pids : WF_vars(DaemonStep(p))
  /\ SF_vars(\E p \in Pids : AcquireLock(p))
  /\ \A c \in Clients : WF_vars(ProbeDropsLock(c))

FairSpec == Spec /\ Fairness

-----------------------------------------------------------------------------
(* Properties.                                                             *)

LockHolders == {p \in Pids : proc[p] \in Holding} \cup probing

(* A daemon between acquire and release, or a probe inside is_running, is
   alone: run cannot apply settings beside another daemon, whatever crashes,
   signals and probes come between the steps (pid.rs:96-124). *)
MutualExclusion == \A x, y \in LockHolders : x = y

(* While a daemon serves, the PID file names it or nobody: a stop command
   that reads the file then cannot be sent to the number an earlier daemon
   left behind (pid.rs:96-118; written by set_len and write!). *)
PidFileNamesHolder ==
  \A p \in Pids : proc[p] \in Serving => pidFile \in {p, NoPid}

Truthful(c) ==
  answer[c] # "down" /\ answer'[c] = "down" => \A p \in Pids : proc[p] \notin Holding

(* An is_running that answers `false` to a root client was right: at that
   instant no daemon held the lock (pid.rs:78-84). *)
ProbeDownIsTruthful == [][\A c \in RootClients : Truthful(c)]_vars

(* What can undo a running daemon: crashes, I/O errors and signals. *)
Disturbance ==
  \/ \E p \in Pids : Crash(p) \/ TruncateFails(p)
  \/ \E c \in Clients : Sigterm(c)

(* "a stale file can never wedge the service" (pid.rs:3-5): whatever the PID
   file says, whoever probes, however the last daemon died, a daemon runs
   again and again unless it is killed again and again. *)
NeverWedged ==
  \/ []<><<Disturbance>>_vars
  \/ []<>(\E p \in Pids : proc[p] = "running")

(* The daemons that work on the hardware. *)
ServingPids == {p \in Pids : proc[p] \in Serving}

Abstract == INSTANCE SingleInstance WITH serving <- ServingPids

(* The lock keeps the abstract promise: a daemon gets past acquire only when
   none is past it, and steps in between are invisible (pid.rs:96-125). *)
ImplementsSingleInstance == Abstract!Spec
=============================================================================
