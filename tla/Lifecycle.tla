------------------------------ MODULE Lifecycle ------------------------------
(***************************************************************************)
(* Who is in control of the hardware: the daemon's adaptive ladder, a      *)
(* profile, or a manual adjustment.  `start`, `stop`, `profile` and        *)
(* `service` of the CLI, the rows of the dashboard that start, stop or     *)
(* pause the daemon, systemd, and the daemon's boot and ticks, each with   *)
(* its steps in the order of the code.                                     *)
(*                                                                         *)
(* One operator works at a terminal with a dashboard open beside it, one   *)
(* operation at a time.  The daemons are the unit's and those spawned      *)
(* detached; that at most one holds the instance lock is the promise of    *)
(* SingleInstance, and the PID file names the holder from boot on.         *)
(***************************************************************************)
CONSTANTS
  Unit,        \* the daemon systemd runs
  Detached,    \* daemons spawned by a command or a dashboard
  Profiles,    \* the fixed profiles in use
  Faults       \* what may happen: "crash", "reboot"

ASSUME DaemonsAssumption == Unit \notin Detached
ASSUME ProfilesAssumption == Profiles \subseteq {"performance", "extreme", "normal"}
ASSUME FaultsAssumption == Faults \subseteq {"crash", "reboot"}

VARIABLES
  file,        \* auto_extreme_enabled and profile in config.json
  mem,         \* the same in the memory of the dashboard while it is open
  open,        \* is the dashboard open?
  installed,   \* does the unit file exist?
  svc,         \* the unit, for systemd
  daemon,      \* each daemon: station, and the writes it has yet to do
  knob,        \* who wrote each part of the hardware last
  job,         \* the operation under way
  report       \* what the operator was told last

vars == <<file, mem, open, installed, svc, daemon, knob, job, report>>

Daemons == {Unit} \cup Detached
Writers == Profiles \cup {"ladder", "manual", "firmware"}
Knobs == {"cores", "rapl"}

(* The ladder writes RAPL before the cores, apply_profile after them. *)
FirstKnob(who) == IF who = "ladder" THEN "rapl" ELSE "cores"

Settings == [enabled : BOOLEAN, profile : Profiles \cup {"none"}]
Defaults == [enabled |-> FALSE, profile |-> "none"]

(* "starting": before the lock; "acquired": before the PID is in the file;
   "booting": boot settings; "passing": first pass; "running" and "stopping":
   the loop, where SIGTERM is handled. *)
Named == {"booting", "passing", "running", "stopping"}
Holding == {"acquired"} \cup Named
Stations == {"none", "starting"} \cup Holding

DaemonStates ==
  [at : Stations, who : {"none"}, todo : {{}}] \cup
  [at : Stations, who : Profiles \cup {"ladder"}, todo : SUBSET Knobs]

Rest(at) == [at |-> at, who |-> "none", todo |-> {}]
Applies(at, who) == [at |-> at, who |-> who, todo |-> Knobs]

(* What is left of d's pass when it has written k. *)
Wrote(d, k) == IF d.todo = {k} THEN Rest(d.at) ELSE [d EXCEPT !.todo = @ \ {k}]

(* The steps of each operation, in the order of its function. *)
Script ==
  [start       |-> [begin |-> "enable", enable |-> "restart",
                    restart |-> "await", await |-> "settle",
                    settle |-> "return"],
   stop        |-> [begin |-> "disable", disable |-> "stopUnit",
                    stopUnit |-> "await", await |-> "kill", kill |-> "drain",
                    drain |-> "return"],
   profile     |-> [begin |-> "apply", apply |-> "record", record |-> "return"],
   install     |-> [begin |-> "install", install |-> "restart",
                    restart |-> "await", await |-> "return"],
   uninstall   |-> [begin |-> "stopUnit", stopUnit |-> "await",
                    await |-> "remove", remove |-> "return"],
   dashStart   |-> [begin |-> "enable", enable |-> "restart",
                    restart |-> "await", await |-> "settle",
                    settle |-> "return"],
   dashStop    |-> [begin |-> "disable", disable |-> "kill", kill |-> "stopUnit",
                    stopUnit |-> "await", await |-> "return"],
   dashProfile |-> [begin |-> "disable", disable |-> "kill", kill |-> "stopUnit",
                    stopUnit |-> "await", await |-> "apply", apply |-> "record",
                    record |-> "return"],
   adjust      |-> [begin |-> "kill", kill |-> "adjust", adjust |-> "return"]]

Ops == DOMAIN Script
DashOps == {"dashStart", "dashStop", "dashProfile", "adjust"}
ProfileOps == {"profile", "dashProfile"}
Steps == {"return"} \cup UNION {DOMAIN Script[op] : op \in Ops}

Jobs == [op : Ops \cup {"none"}, step : Steps,
         who : Profiles \cup {"none"}, todo : SUBSET Knobs]
NoJob == [op |-> "none", step |-> "return", who |-> "none", todo |-> {}]

Holders == {p \in Daemons : daemon[p].at \in Holding}
IsRunning == Holders # {}

TypeOK ==
  /\ file \in Settings
  /\ mem \in Settings
  /\ open \in BOOLEAN
  /\ installed \in BOOLEAN
  /\ svc \in {"inactive", "up", "stopping", "restarting"}
  /\ daemon \in [Daemons -> DaemonStates]
  /\ knob \in [Knobs -> Writers]
  /\ job \in Jobs
  /\ report \in Ops \cup {"none"}

Init ==
  /\ file = Defaults
  /\ mem = Defaults
  /\ open = FALSE
  /\ installed \in BOOLEAN
  /\ svc = IF installed THEN "up" ELSE "inactive"
  /\ daemon = [p \in Daemons |-> Rest("none")]
  /\ knob = [k \in Knobs |-> "firmware"]
  /\ job = NoJob
  /\ report = "none"

-----------------------------------------------------------------------------
(* Signals.                                                                *)

(* The loop notices the signal after the tick in progress; before the first
   poll of wait_for_shutdown the default action ends the process. *)
Terminated(d) ==
  IF d.at \in {"running", "stopping"} THEN [d EXCEPT !.at = "stopping"]
                                      ELSE Rest("none")

Sigterm(S) ==
  daemon' = [p \in Daemons |-> IF p \in S THEN Terminated(daemon[p])
                                          ELSE daemon[p]]

-----------------------------------------------------------------------------
(* Operations: each step of a script is an action.                         *)

Begin(op, who) ==
  /\ job = NoJob
  /\ op \in DashOps => open
  /\ job' = [op |-> op, step |-> Script[op].begin, who |-> who,
             todo |-> IF op \in ProfileOps THEN Knobs ELSE {}]
  /\ report' = "none"
  /\ UNCHANGED <<file, mem, open, installed, svc, daemon, knob>>

BeginAny ==
  \/ \E op \in Ops \ ProfileOps : Begin(op, "none")
  \/ \E op \in ProfileOps, p \in Profiles : Begin(op, p)

At(step) == job.op # "none" /\ job.step = step
Goto(step) == job' = [job EXCEPT !.step = step]
Proceed == Goto(Script[job.op][job.step])

(* A dashboard saves all it has in memory; a command loads the file, changes
   one field and saves. *)
Saves(s) ==
  /\ file' = s
  /\ mem' = IF job.op \in DashOps THEN s ELSE mem

Edited == IF job.op \in DashOps THEN mem ELSE file

Enable ==
  /\ At("enable")
  /\ Saves([Edited EXCEPT !.enabled = TRUE])
  /\ IF installed THEN Proceed ELSE Goto("settle")
  /\ UNCHANGED <<open, installed, svc, daemon, knob, report>>

Disable ==
  /\ At("disable")
  /\ Saves([Edited EXCEPT !.enabled = FALSE])
  /\ Proceed
  /\ UNCHANGED <<open, installed, svc, daemon, knob, report>>

(* systemctl restart: stopped first if it runs. *)
RestartUnit ==
  /\ At("restart")
  /\ svc' = "restarting"
  /\ Sigterm({Unit})
  /\ Proceed
  /\ UNCHANGED <<file, mem, open, installed, knob, report>>

(* systemctl stop, or disable --now; refused when there is no such unit. *)
StopUnit ==
  /\ At("stopUnit")
  /\ IF installed
       THEN svc' = "stopping" /\ Sigterm({Unit})
       ELSE UNCHANGED <<svc, daemon>>
  /\ Proceed
  /\ UNCHANGED <<file, mem, open, installed, knob, report>>

(* Mutant of Await: systemctl --no-block. *)
AwaitNothing ==
  /\ At("await")
  /\ Proceed
  /\ UNCHANGED <<file, mem, open, installed, svc, daemon, knob, report>>

(* systemctl returns when its job is done. *)
Await ==
  /\ At("await")
  /\ svc \notin {"stopping", "restarting"}
  /\ Proceed
  /\ UNCHANGED <<file, mem, open, installed, svc, daemon, knob, report>>

(* SIGTERM to the process the PID file names; a number left by a dead daemon
   is nobody's here (InstanceLock). *)
Kill ==
  /\ At("kill")
  /\ Sigterm({p \in Daemons : daemon[p].at \in Named})
  /\ Proceed
  /\ UNCHANGED <<file, mem, open, installed, svc, knob, report>>

(* stop waits for the lock, at most 3 s: enough for a daemon that has been
   signalled to finish its tick (bound Patience), not for one that was still
   in acquire and has not been. *)
Patience == \A p \in Holders : daemon[p].at # "stopping"

(* Mutant of Drain: no wait for the lock. *)
DrainImpatiently ==
  /\ At("drain")
  /\ Proceed
  /\ UNCHANGED <<file, mem, open, installed, svc, daemon, knob, report>>

Drain ==
  /\ At("drain")
  /\ Patience
  /\ Proceed
  /\ UNCHANGED <<file, mem, open, installed, svc, daemon, knob, report>>

(* A daemon is seen before the polls run out ... *)
SettleSeen ==
  /\ At("settle")
  /\ \/ IsRunning
     \/ job.op = "start" /\ svc = "up" /\ daemon[Unit].at # "none"
  /\ Proceed
  /\ UNCHANGED <<file, mem, open, installed, svc, daemon, knob, report>>

(* ... or one is spawned detached. *)
SettleSpawns(p) ==
  /\ At("settle")
  /\ ~ IsRunning
  /\ job.op = "start" => svc # "up" \/ daemon[Unit].at = "none"
  /\ daemon[p].at = "none"
  /\ daemon' = [daemon EXCEPT ![p] = Rest("starting")]
  /\ Proceed
  /\ UNCHANGED <<file, mem, open, installed, svc, knob, report>>

(* apply_profile. *)
Apply ==
  /\ At("apply")
  /\ \E k \in job.todo :
       /\ FirstKnob(job.who) \in job.todo => k = FirstKnob(job.who)
       /\ knob' = [knob EXCEPT ![k] = job.who]
       /\ job' = [job EXCEPT !.todo = @ \ {k},
                             !.step = IF job.todo = {k} THEN "record" ELSE @]
  /\ UNCHANGED <<file, mem, open, installed, svc, daemon, report>>

(* `profile normal` of the CLI saves None. *)
Record ==
  /\ At("record")
  /\ Saves([Edited EXCEPT !.profile =
              IF job.op = "profile" /\ job.who = "normal" THEN "none" ELSE job.who])
  /\ job' = [job EXCEPT !.step = "return", !.who = "none"]
  /\ UNCHANGED <<open, installed, svc, daemon, knob, report>>

(* handle_left, handle_right and the toggles of the hardware rows. *)
Adjust ==
  /\ At("adjust")
  /\ \E k \in Knobs : knob' = [knob EXCEPT ![k] = "manual"]
  /\ Proceed
  /\ UNCHANGED <<file, mem, open, installed, svc, daemon, report>>

Install ==
  /\ At("install")
  /\ installed' = TRUE
  /\ Proceed
  /\ UNCHANGED <<file, mem, open, svc, daemon, knob, report>>

Remove ==
  /\ At("remove")
  /\ installed' = FALSE
  /\ Proceed
  /\ UNCHANGED <<file, mem, open, svc, daemon, knob, report>>

Return ==
  /\ At("return")
  /\ job' = NoJob
  /\ report' = job.op
  /\ UNCHANGED <<file, mem, open, installed, svc, daemon, knob>>

-----------------------------------------------------------------------------
(* The dashboard beside the terminal.                                      *)

DashOpens ==
  /\ ~ open
  /\ job = NoJob
  /\ open' = TRUE
  /\ mem' = file
  /\ UNCHANGED <<file, installed, svc, daemon, knob, job, report>>

DashCloses ==
  /\ open
  /\ job = NoJob
  /\ open' = FALSE
  /\ mem' = Defaults
  /\ UNCHANGED <<file, installed, svc, daemon, knob, job, report>>

(* Any other row that saves the configuration in memory. *)
DashSavesOther ==
  /\ open
  /\ job = NoJob
  /\ file' = mem
  /\ report' = "none"
  /\ UNCHANGED <<mem, open, installed, svc, daemon, knob, job>>

-----------------------------------------------------------------------------
(* The daemon: DaemonRunner::run, one write at a time.                     *)

Moves(p, d) == daemon' = [daemon EXCEPT ![p] = d]
Reached(p, at) == daemon[p].at = at /\ daemon[p].todo = {}

Acquire(p) ==
  /\ Reached(p, "starting")
  /\ ~ IsRunning
  /\ Moves(p, Rest("acquired"))
  /\ UNCHANGED <<file, mem, open, installed, svc, knob, job, report>>

Refused(p) ==
  /\ Reached(p, "starting")
  /\ IsRunning
  /\ Moves(p, Rest("none"))
  /\ UNCHANGED <<file, mem, open, installed, svc, knob, job, report>>

(* apply_boot_settings: the saved profile, if any. *)
Boots(p) ==
  /\ Reached(p, "acquired")
  /\ Moves(p, IF file.profile = "none" THEN Rest("booting")
                                       ELSE Applies("booting", file.profile))
  /\ UNCHANGED <<file, mem, open, installed, svc, knob, job, report>>

(* apply_logic_step: nothing unless the user has enabled the ladder. *)
Ladder(p, at) ==
  Moves(p, IF file.enabled THEN Applies(at, "ladder") ELSE Rest(at))

FirstPass(p) ==
  /\ Reached(p, "booting")
  /\ Ladder(p, "passing")
  /\ UNCHANGED <<file, mem, open, installed, svc, knob, job, report>>

EnterLoop(p) ==
  /\ Reached(p, "passing")
  /\ Moves(p, Rest("running"))
  /\ UNCHANGED <<file, mem, open, installed, svc, knob, job, report>>

(* A tick that is due may be picked before a signal that has arrived. *)
Tick(p) ==
  /\ Reached(p, "running") \/ Reached(p, "stopping")
  /\ Ladder(p, daemon[p].at)
  /\ UNCHANGED <<file, mem, open, installed, svc, knob, job, report>>

Write(p) ==
  \E k \in daemon[p].todo :
    /\ FirstKnob(daemon[p].who) \in daemon[p].todo => k = FirstKnob(daemon[p].who)
    /\ knob' = [knob EXCEPT ![k] = daemon[p].who]
    /\ Moves(p, Wrote(daemon[p], k))
    /\ UNCHANGED <<file, mem, open, installed, svc, job, report>>

Ends(p) ==
  /\ Reached(p, "stopping")
  /\ Moves(p, Rest("none"))
  /\ UNCHANGED <<file, mem, open, installed, svc, knob, job, report>>

Crash(p) ==
  /\ "crash" \in Faults
  /\ daemon[p].at # "none"
  /\ Moves(p, Rest("none"))
  /\ UNCHANGED <<file, mem, open, installed, svc, knob, job, report>>

-----------------------------------------------------------------------------
(* systemd and the machine.                                                *)

UnitStarts == Moves(Unit, Rest("starting"))

(* Mutant of UnitRespawns: Restart=no. *)
UnitStaysDown ==
  /\ svc = "up"
  /\ daemon[Unit].at = "none"
  /\ svc' = "inactive"
  /\ UNCHANGED <<file, mem, open, installed, daemon, knob, job, report>>

(* Restart=always, whatever the exit code. *)
UnitRespawns ==
  /\ svc = "up"
  /\ daemon[Unit].at = "none"
  /\ UnitStarts
  /\ UNCHANGED <<file, mem, open, installed, svc, knob, job, report>>

UnitStopped ==
  /\ svc = "stopping"
  /\ daemon[Unit].at = "none"
  /\ svc' = "inactive"
  /\ UNCHANGED <<file, mem, open, installed, daemon, knob, job, report>>

UnitRestarted ==
  /\ svc = "restarting"
  /\ daemon[Unit].at = "none"
  /\ svc' = "up"
  /\ UnitStarts
  /\ UNCHANGED <<file, mem, open, installed, knob, job, report>>

(* An enabled unit comes up again, the dashboard does not; the operator
   remembers what a finished operation reported. *)
Reboot ==
  /\ "reboot" \in Faults
  /\ svc' = IF installed THEN "up" ELSE "inactive"
  /\ daemon' = [p \in Daemons |-> Rest("none")]
  /\ knob' = [k \in Knobs |-> "firmware"]
  /\ open' = FALSE
  /\ mem' = Defaults
  /\ job' = NoJob
  /\ UNCHANGED <<file, installed, report>>

-----------------------------------------------------------------------------
OperatorStep ==
  \/ Enable \/ Disable \/ RestartUnit \/ StopUnit \/ Await \/ Kill \/ Drain
  \/ SettleSeen \/ \E p \in Detached : SettleSpawns(p)
  \/ Apply \/ Record \/ Adjust \/ Install \/ Remove \/ Return

DashStep == DashOpens \/ DashCloses \/ DashSavesOther

DaemonStep(p) ==
  \/ Acquire(p) \/ Refused(p) \/ Boots(p) \/ FirstPass(p) \/ EnterLoop(p)
  \/ Write(p) \/ Ends(p)

SystemdStep == UnitRespawns \/ UnitStopped \/ UnitRestarted

Next ==
  \/ BeginAny
  \/ OperatorStep
  \/ DashStep
  \/ \E p \in Daemons : DaemonStep(p) \/ Tick(p) \/ Crash(p)
  \/ SystemdStep
  \/ Reboot

Spec == Init /\ [][Next]_vars

(* Processes go on, an operation that has begun goes on, systemd acts.  A
   pending signal is seen although ticks are due too: select! picks at random
   (strong fairness of Ends).  Nobody has to begin anything. *)
Fairness ==
  /\ WF_vars(OperatorStep)
  /\ WF_vars(SystemdStep)
  /\ \A p \in Daemons :
       WF_vars(DaemonStep(p)) /\ WF_vars(Tick(p)) /\ SF_vars(Ends(p))

FairSpec == Spec /\ Fairness

-----------------------------------------------------------------------------
(* Properties.                                                             *)

Applying(p, who) == daemon[p].who = who /\ daemon[p].todo # {}

(* When `stop` has reported, the ladder is out of the hardware until the
   operator does something else, across crashes and reboots: no write of it is
   still to come, and no daemon that starts later begins one
   (main.rs:95-123). *)
StoppedMeansIdle ==
  report = "stop" =>
    ~ file.enabled /\ \A p \in Daemons : ~ Applying(p, "ladder")

(* After a profile row of the dashboard the unit's daemon is out of the way:
   whatever still changes the hardware is the saved profile, or the tick of a
   detached daemon, which is signalled but not waited for (app.rs:377-389,
   app.rs:741-750). *)
ProfileStays ==
  [][\A k \in Knobs :
       /\ report = "dashProfile"
       /\ knob'[k] \notin {knob[k], file.profile, "firmware"}
       => \E p \in Detached : daemon[p].todo # {}]_vars

Disturbance == Reboot \/ \E p \in Daemons : Crash(p)

(* `start` where the unit is installed puts the ladder in control, whatever
   detached daemons are around and whatever crashes for a while
   (main.rs:58-92). *)
StartEngages ==
  <>[](report = "start" /\ installed) =>
    \/ []<><<Disturbance>>_vars
    \/ <>[](\A k \in Knobs : knob[k] = "ladder")

===============================================================================
