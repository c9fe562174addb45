---------------------------- MODULE ChargeCeiling ---------------------------
(***************************************************************************)
(* The battery charge ceiling and everybody who writes it: the daemon's    *)
(* re-assertion on each tick, `wattwarden charge-limit`, the dashboard's   *)
(* Charge Limit row, the calibration cycle, and firmware or other tools.   *)
(*                                                                         *)
(* The actors share the threshold nodes in sysfs, the saved limit in       *)
(* /etc/wattwarden/config.json and the calibration state file, without any *)
(* lock.  Each keeps what it read in local variables (a job), and the      *)
(* dashboard keeps its whole configuration in memory while it is open.     *)
(***************************************************************************)
EXTENDS Integers

CONSTANTS
  Nodes,           \* threshold nodes, numbered in the order of discovery
  HasStart,        \* nodes with a paired start threshold
  HasTypes,        \* nodes with a charge_types mode selector
  Limits,          \* limits the user picks
  Steps,           \* those the dashboard goes through: 55, 60, ..., 100
  FirmwareEnds,    \* end thresholds firmware and other tools set
  FirmwareStarts,  \* start thresholds they set
  Meddled,         \* nodes they also change while WattWarden runs
  HotPlug,         \* nodes that come and go
  Daemon,
  Commands,        \* one-shot CLI commands, run as root
  Dashboards,      \* run as root too: cli.rs:647 refuses them otherwise
  Off,             \* battery_charge_limit: None
  Closed,          \* a dashboard that is not open
  Unknown,         \* saved_threshold: None
  NoCal            \* no calibration state file

ASSUME NodesAssumption ==
  /\ Nodes \subseteq Nat
  /\ HasStart \subseteq Nodes
  /\ HasTypes \subseteq Nodes
  /\ Meddled \subseteq Nodes
  /\ HotPlug \subseteq Nodes

ASSUME LimitsAssumption ==
  /\ Limits \subseteq 55..100
  /\ Steps \subseteq Limits
  /\ FirmwareEnds \subseteq 1..100
  /\ FirmwareStarts \subseteq 0..99

ASSUME ActorsAssumption ==
  /\ Daemon \notin Commands \cup Dashboards
  /\ Commands \cap Dashboards = {}
  /\ Off \notin Int
  /\ Closed \notin Limits \cup {Off}
  /\ Unknown \notin Int

VARIABLES
  saved,     \* battery_charge_limit in the configuration file
  calib,     \* what load finds in the calibration state file
  present,   \* nodes that exist now
  end,       \* end threshold of each node
  start,     \* start threshold of each node
  custom,    \* is the node in the mode where its thresholds bind?
  daemon,    \* "on", "ending" (SIGTERM received) or "off"
  dash,      \* battery_charge_limit in the memory of each dashboard
  job        \* what each actor is in the middle of

hardware == <<present, end, start, custom>>
vars == <<saved, calib, hardware, daemon, dash, job>>

Operators == Commands \cup Dashboards
Actors == {Daemon} \cup Operators

Percent == 0..100
Clamp(t) == IF t < 20 THEN 20 ELSE IF t > 100 THEN 100 ELSE t

Phases == {"charge", "discharge", "recharge"}
Calibration == [saved : Percent \cup {Unknown}, phase : Phases]

ASSUME NoCalAssumption == NoCal \notin Calibration

(* The operations that end in set_charge_threshold, and the others. *)
Writing == {"enforce", "limit", "elevated", "lift", "restore"}
Ops == {"idle", "check", "resave", "status", "saving"} \cup Writing

Idle == [op |-> "idle", value |-> Off, todo |-> {}, ok |-> FALSE, cal |-> NoCal]

Job == [op    : Ops,
        value : Percent \cup {Off},           \* the limit being applied or saved
        todo  : SUBSET Nodes,                 \* nodes not written yet
        ok    : BOOLEAN,                      \* did one accept it?
        cal   : Calibration \cup {NoCal}]     \* calibration state to be saved

TypeOK ==
  /\ saved \in Limits \cup {Off}
  /\ calib \in Calibration \cup {NoCal}
  /\ present \subseteq Nodes
  /\ end \in [Nodes -> Percent]
  /\ start \in [Nodes -> Percent]
  /\ custom \in [Nodes -> BOOLEAN]
  /\ daemon \in {"on", "ending", "off"}
  /\ dash \in [Dashboards -> Limits \cup {Off, Closed}]
  /\ job \in [Actors -> Job]

Init ==
  /\ saved = Off
  /\ calib = NoCal
  /\ present = Nodes
  /\ end \in [Nodes -> FirmwareEnds \cup {100}]
  /\ start = [n \in Nodes |-> 0]
  /\ custom = [n \in Nodes |-> n \notin HasTypes]
  /\ daemon = "on"
  /\ dash = [d \in Dashboards |-> Closed]
  /\ job = [a \in Actors |-> Idle]

IsFirst(n, S) == n \in S /\ \A m \in S : n <= m

(* charge_threshold: the first node in discovery order that can be read. *)
Readings == {end[n] : n \in present} \cup {Unknown}

Does(a, op) == job[a].op = op
Finished(a, op) == job[a].op = op /\ job[a].todo = {}
Becomes(a, j) == job' = [job EXCEPT ![a] = j]

(* set_charge_threshold(v) begins: the nodes are discovered now. *)
WriteJob(op, v, cal) ==
  [op |-> op, value |-> Clamp(v), todo |-> present, ok |-> FALSE, cal |-> cal]

-----------------------------------------------------------------------------
(* LinuxChargeThreshold::write_node, one node at a time.                   *)

(* The paired start is lowered when it would block the write. *)
StartAfterStrict(n, v) ==      \* mutant: `>` for `>=`
  IF n \in HasStart /\ start[n] > v
    THEN IF v - 5 > 1 THEN v - 5 ELSE 1
    ELSE start[n]

StartAfter(n, v) ==
  IF n \in HasStart /\ start[n] >= v
    THEN IF v - 5 > 1 THEN v - 5 ELSE 1
    ELSE start[n]

(* The kernel rejects end <= start. *)
KernelAccepts(n, v) == n \in HasStart => StartAfter(n, v) < v

NodeDone(a, n, landed) ==
  job' = [job EXCEPT ![a].todo = @ \ {n}, ![a].ok = @ \/ landed]

(* Mode, start and end are written and the read-back agrees. *)
WriteNode(a) ==
  \E n \in Nodes :
    /\ job[a].op \in Writing
    /\ IsFirst(n, job[a].todo)
    /\ n \in present
    /\ KernelAccepts(n, job[a].value)
    /\ custom' = [custom EXCEPT ![n] = TRUE]
    /\ start' = [start EXCEPT ![n] = StartAfter(n, job[a].value)]
    /\ end' = [end EXCEPT ![n] = job[a].value]
    /\ NodeDone(a, n, TRUE)
    /\ UNCHANGED <<saved, calib, present, daemon, dash>>

(* A write or the read-back fails, or the hardware rounds the value.  Writing
   the mode and the start are attempts; their failure is ignored. *)
WriteFails(a) ==
  \E n \in Nodes, modeSet, startSet \in BOOLEAN :
  \E v \in {end[n], job[a].value} \cup FirmwareEnds :
    /\ job[a].op \in Writing
    /\ IsFirst(n, job[a].todo)
    /\ modeSet \/ startSet \/ v # end[n] => n \in present
    /\ v # end[n] => startSet /\ KernelAccepts(n, job[a].value)
    /\ custom' = [custom EXCEPT ![n] = @ \/ modeSet]
    /\ start' = IF startSet
                  THEN [start EXCEPT ![n] = StartAfter(n, job[a].value)]
                  ELSE start
    /\ end' = [end EXCEPT ![n] = v]
    /\ NodeDone(a, n, FALSE)
    /\ UNCHANGED <<saved, calib, present, daemon, dash>>

(* The mode stays as it is, which goes unnoticed: only the end is read back. *)
WriteNodeOnly(a) ==
  \E n \in HasTypes :
    /\ job[a].op \in Writing
    /\ IsFirst(n, job[a].todo)
    /\ n \in present
    /\ KernelAccepts(n, job[a].value)
    /\ start' = [start EXCEPT ![n] = StartAfter(n, job[a].value)]
    /\ end' = [end EXCEPT ![n] = job[a].value]
    /\ NodeDone(a, n, TRUE)
    /\ UNCHANGED <<saved, calib, present, custom, daemon, dash>>

-----------------------------------------------------------------------------
(* The daemon: apply_boot_settings and every apply_logic call              *)
(* enforce_charge_limit with a configuration just loaded.                  *)

(* Mutant: without a limit the daemon asserts the default ceiling. *)
DaemonLoadsDefault ==
  /\ daemon # "off"
  /\ Does(Daemon, "idle")
  /\ Becomes(Daemon, [Idle EXCEPT !.op = "check",
                                  !.value = IF saved = Off THEN 100 ELSE saved])
  /\ UNCHANGED <<saved, calib, hardware, daemon, dash>>

DaemonLoads ==
  /\ daemon # "off"
  /\ Does(Daemon, "idle")
  /\ saved # Off
  /\ Becomes(Daemon, [Idle EXCEPT !.op = "check", !.value = saved])
  /\ UNCHANGED <<saved, calib, hardware, daemon, dash>>

(* No node, or the threshold already at the limit: nothing is written. *)
DaemonSatisfied ==
  /\ Does(Daemon, "check")
  /\ present = {} \/ job[Daemon].value \in Readings
  /\ Becomes(Daemon, Idle)
  /\ UNCHANGED <<saved, calib, hardware, daemon, dash>>

(* Mutant: only a ceiling that is too high is re-asserted. *)
DaemonOnlyLowers ==
  /\ Does(Daemon, "check")
  /\ \E t \in Readings \ {Unknown} : t > job[Daemon].value
  /\ Becomes(Daemon, WriteJob("enforce", job[Daemon].value, NoCal))
  /\ UNCHANGED <<saved, calib, hardware, daemon, dash>>

DaemonEnforces ==
  /\ Does(Daemon, "check")
  /\ present # {} /\ \E t \in Readings : t # job[Daemon].value
  /\ Becomes(Daemon, WriteJob("enforce", job[Daemon].value, NoCal))
  /\ UNCHANGED <<saved, calib, hardware, daemon, dash>>

(* A failure is only logged. *)
EnforceDone ==
  /\ Finished(Daemon, "enforce")
  /\ Becomes(Daemon, Idle)
  /\ UNCHANGED <<saved, calib, hardware, daemon, dash>>

AfterSigterm == IF daemon = "on" THEN "ending" ELSE daemon

(* SIGTERM from a stop command or from a manual adjustment. *)
DaemonStop ==
  /\ daemon = "on"
  /\ daemon' = AfterSigterm
  /\ UNCHANGED <<saved, calib, hardware, dash, job>>

(* The select loop sees the signal once the tick in progress is over; of two
   branches that are ready it picks any, so one more tick may come first. *)
DaemonEnds ==
  /\ daemon = "ending"
  /\ Does(Daemon, "idle")
  /\ daemon' = "off"
  /\ UNCHANGED <<saved, calib, hardware, dash, job>>

DaemonCrash ==
  /\ daemon # "off"
  /\ daemon' = "off"
  /\ Becomes(Daemon, Idle)
  /\ UNCHANGED <<saved, calib, hardware, dash>>

(* systemd (Restart=always) or a start command. *)
DaemonStart ==
  /\ daemon = "off"
  /\ daemon' = "on"
  /\ UNCHANGED <<saved, calib, hardware, dash, job>>

-----------------------------------------------------------------------------
(* CLI commands.                                                           *)

(* charge-limit n | off: saved first, then applied; off touches no node. *)
CommandSetsLimit(c, l) ==
  /\ Does(c, "idle")
  /\ saved' = l
  /\ Becomes(c, IF l = Off THEN Idle ELSE WriteJob("limit", l, NoCal))
  /\ UNCHANGED <<calib, hardware, daemon, dash>>

CommandLimitDone(c) ==
  /\ Finished(c, "limit")
  /\ Becomes(c, Idle)
  /\ UNCHANGED <<saved, calib, hardware, daemon, dash>>

(* Any other setting: the whole file is loaded ... *)
CommandLoads(c) ==
  /\ Does(c, "idle")
  /\ Becomes(c, [Idle EXCEPT !.op = "resave", !.value = saved])
  /\ UNCHANGED <<saved, calib, hardware, daemon, dash>>

(* ... and written back with one field changed. *)
CommandSaves(c) ==
  /\ Does(c, "resave")
  /\ saved' = job[c].value
  /\ Becomes(c, Idle)
  /\ UNCHANGED <<calib, hardware, daemon, dash>>

CommandDies(c) ==
  /\ ~ Does(c, "idle")
  /\ Becomes(c, Idle)
  /\ UNCHANGED <<saved, calib, hardware, daemon, dash>>

-----------------------------------------------------------------------------
(* Dashboards.                                                             *)

DashOpens(d) ==
  /\ dash[d] = Closed
  /\ dash' = [dash EXCEPT ![d] = saved]
  /\ UNCHANGED <<saved, calib, hardware, daemon, job>>

(* Quit, or killed in the middle of something. *)
DashCloses(d) ==
  /\ dash[d] # Closed
  /\ dash' = [dash EXCEPT ![d] = Closed]
  /\ Becomes(d, Idle)
  /\ UNCHANGED <<saved, calib, hardware, daemon>>

(* Mutant: a dashboard saves a configuration it has not loaded. *)
DashSavesUnloaded(d) ==
  /\ Does(d, "idle")
  /\ saved' = dash[d]
  /\ UNCHANGED <<calib, hardware, daemon, dash, job>>

(* Any other row saves the configuration in memory, limit included. *)
DashSavesOther(d) ==
  /\ dash[d] # Closed
  /\ Does(d, "idle")
  /\ saved' = dash[d]
  /\ UNCHANGED <<calib, hardware, daemon, dash, job>>

(* next_charge_limit: off and the steps in a circle, which a limit that is none
   of them enters as if it were off. *)
Ahead(l) == {s \in Steps : l = Off \/ s > l}
Follows(l, next) ==
  \/ next = Off /\ Ahead(l) = {}
  \/ next \in Ahead(l) /\ \A s \in Ahead(l) : next <= s
NextLimits(current) ==
  LET l == IF current \in Steps THEN current ELSE Off
  IN {next \in Steps \cup {Off} : Follows(l, next) \/ Follows(next, l)}

(* Enter switches a limit off, or on at 80%. *)
Toggled(current) == IF current # Off THEN {Off} ELSE {80} \cap Limits

(* App::set_charge_limit: memory, file, and a direct write to the nodes.  A
   failed save does not stop the write; OFF has then yet to be elevated. *)
DashSetsLimit(d, l) ==
  /\ dash[d] # Closed
  /\ l \in NextLimits(dash[d]) \cup Toggled(dash[d])
  /\ Does(d, "idle")
  /\ dash' = [dash EXCEPT ![d] = l]
  /\ \/ /\ saved' = l
        /\ Becomes(d, IF l = Off THEN Idle ELSE WriteJob("limit", l, NoCal))
     \/ /\ UNCHANGED saved
        /\ Becomes(d, IF l = Off THEN [Idle EXCEPT !.op = "limit"]
                                 ELSE WriteJob("limit", l, NoCal))
  /\ UNCHANGED <<calib, hardware, daemon>>

(* Applied; or left to the daemon, seen alive up to a second ago; or the
   elevated helper is declined. *)
DashLimitDone(d) ==
  /\ Finished(d, "limit")
  /\ Becomes(d, Idle)
  /\ UNCHANGED <<saved, calib, hardware, daemon, dash>>

(* No node accepted it: `charge-limit` runs again as an elevated command. *)
DashElevates(d) ==
  /\ Finished(d, "limit")
  /\ ~ job[d].ok
  /\ saved' = job[d].value
  /\ Becomes(d, IF job[d].value = Off
                  THEN [Idle EXCEPT !.op = "elevated", !.ok = TRUE]
                  ELSE WriteJob("elevated", job[d].value, NoCal))
  /\ UNCHANGED <<calib, hardware, daemon, dash>>

(* Success reloads the configuration, the only time an open dashboard does. *)
DashElevatedDone(d) ==
  /\ Finished(d, "elevated")
  /\ dash' = IF job[d].ok THEN [dash EXCEPT ![d] = saved] ELSE dash
  /\ Becomes(d, Idle)
  /\ UNCHANGED <<saved, calib, hardware, daemon>>

-----------------------------------------------------------------------------
(* Calibration, from the CLI or from a dashboard, which stops the daemon   *)
(* first.                                                                  *)

Calibrates(a) ==
  /\ Does(a, "idle")
  /\ a \in Dashboards => dash[a] # Closed
  /\ daemon' = IF a \in Dashboards THEN AfterSigterm ELSE daemon

(* Mutant: a second start is not refused. *)
CalStartAgain(a) ==
  /\ Calibrates(a)
  /\ present # {}
  /\ \E t \in Readings :
       Becomes(a, WriteJob("lift", 100, [saved |-> t, phase |-> "charge"]))
  /\ UNCHANGED <<saved, calib, hardware, dash>>

(* The threshold is read and the ceiling is being lifted. *)
CalStart(a) ==
  /\ Calibrates(a)
  /\ calib = NoCal
  /\ present # {}
  /\ \E t \in Readings :
       Becomes(a, WriteJob("lift", 100, [saved |-> t, phase |-> "charge"]))
  /\ UNCHANGED <<saved, calib, hardware, dash>>

(* CalibrationState::advance. *)
Advance(phase, full, low, charging) ==
  CASE phase = "charge" /\ full                      -> "discharge"
    [] phase = "discharge" /\ ~ charging /\ low      -> "recharge"
    [] OTHER                                         -> phase

(* The gauge says full (100%), low (10% or less) or neither. *)
CalStatus(a) ==
  /\ Calibrates(a)
  /\ calib # NoCal
  /\ \E full, low, charging \in BOOLEAN :
       /\ ~ (full /\ low)
       /\ Becomes(a, [Idle EXCEPT
            !.op = "status",
            !.cal = [calib EXCEPT !.phase = Advance(@, full, low, charging)]])
  /\ UNCHANGED <<saved, calib, hardware, dash>>

(* CalibrationState::save, of a start that some node accepted or of a status
   call: fs::write truncates the file first, and load takes an empty or a torn
   one for no calibration (calibrate.rs:46-57) ... *)
CalTruncates(a) ==
  /\ (Finished(a, "lift") /\ job[a].ok) \/ Does(a, "status")
  /\ calib' = NoCal
  /\ Becomes(a, [Idle EXCEPT !.op = "saving", !.cal = job[a].cal])
  /\ UNCHANGED <<saved, hardware, daemon, dash>>

(* ... and then writes the state. *)
CalWrites(a) ==
  /\ Does(a, "saving")
  /\ calib' = job[a].cal
  /\ Becomes(a, Idle)
  /\ UNCHANGED <<saved, hardware, daemon, dash>>

(* No node accepted 100%, or the state file cannot be opened. *)
CalFails(a) ==
  /\ Finished(a, "lift") \/ Does(a, "status")
  /\ Becomes(a, Idle)
  /\ UNCHANGED <<saved, calib, hardware, daemon, dash>>

(* A full disk: the file stays torn. *)
CalWriteFails(a) ==
  /\ Does(a, "saving")
  /\ Becomes(a, Idle)
  /\ UNCHANGED <<saved, calib, hardware, daemon, dash>>

(* calibrate done | abort: a known threshold is written back ... *)
CalRestores(a) ==
  /\ Calibrates(a)
  /\ calib # NoCal
  /\ calib.saved # Unknown
  /\ Becomes(a, WriteJob("restore", calib.saved, NoCal))
  /\ UNCHANGED <<saved, calib, hardware, dash>>

(* ... an unknown one leaves the ceiling where it is.  That the file cannot be
   removed goes unnoticed. *)
CalForgets(a) ==
  /\ Calibrates(a)
  /\ calib # NoCal
  /\ calib.saved = Unknown
  /\ calib' \in {NoCal, calib}
  /\ UNCHANGED <<saved, hardware, dash, job>>

(* Mutant: the state is cleared whatever the writes returned. *)
CalRestoredAnyway(a) ==
  /\ Finished(a, "restore")
  /\ calib' = NoCal
  /\ Becomes(a, Idle)
  /\ UNCHANGED <<saved, hardware, daemon, dash>>

(* The state is kept when no node accepted the threshold. *)
CalRestored(a) ==
  /\ Finished(a, "restore")
  /\ calib' \in {calib} \cup (IF job[a].ok THEN {NoCal} ELSE {})
  /\ Becomes(a, Idle)
  /\ UNCHANGED <<saved, hardware, daemon, dash>>

-----------------------------------------------------------------------------
(* Firmware, the kernel and other tools.                                   *)

FirmwareSetsEnd(n, v) ==
  /\ n \in present \cap Meddled
  /\ n \in HasStart => start[n] < v
  /\ end' = [end EXCEPT ![n] = v]
  /\ UNCHANGED <<saved, calib, present, start, custom, daemon, dash, job>>

FirmwareSetsStart(n, v) ==
  /\ n \in present \cap Meddled \cap HasStart
  /\ v < end[n]
  /\ start' = [start EXCEPT ![n] = v]
  /\ UNCHANGED <<saved, calib, present, end, custom, daemon, dash, job>>

FirmwareTakesOver(n) ==
  /\ n \in present \cap Meddled \cap HasTypes
  /\ custom' = [custom EXCEPT ![n] = FALSE]
  /\ UNCHANGED <<saved, calib, present, end, start, daemon, dash, job>>

NodeVanishes(n) ==
  /\ n \in present \cap HotPlug
  /\ present' = present \ {n}
  /\ UNCHANGED <<saved, calib, end, start, custom, daemon, dash, job>>

NodeAppears(n) ==
  /\ n \in Nodes \ present
  /\ present' = present \cup {n}
  /\ end' = [end EXCEPT ![n] = 100]
  /\ start' = [start EXCEPT ![n] = 0]
  /\ custom' = [custom EXCEPT ![n] = n \notin HasTypes]
  /\ UNCHANGED <<saved, calib, daemon, dash, job>>

-----------------------------------------------------------------------------
WriteStep(a) == WriteNode(a) \/ WriteNodeOnly(a) \/ WriteFails(a)

DaemonTick == DaemonLoads \/ DaemonSatisfied \/ DaemonEnforces \/ EnforceDone

DaemonLifecycle == DaemonStop \/ DaemonEnds \/ DaemonCrash \/ DaemonStart

CommandStep(c) ==
  \/ \E l \in Limits \cup {Off} : CommandSetsLimit(c, l)
  \/ CommandLimitDone(c)
  \/ CommandLoads(c)
  \/ CommandSaves(c)
  \/ CommandDies(c)

DashStep(d) ==
  \/ DashOpens(d)
  \/ DashCloses(d)
  \/ DashSavesOther(d)
  \/ \E l \in Limits \cup {Off} : DashSetsLimit(d, l)
  \/ DashLimitDone(d)
  \/ DashElevates(d)
  \/ DashElevatedDone(d)

CalStep(a) ==
  \/ CalStart(a)
  \/ CalStatus(a)
  \/ CalTruncates(a)
  \/ CalWrites(a)
  \/ CalFails(a)
  \/ CalWriteFails(a)
  \/ CalRestores(a)
  \/ CalForgets(a)
  \/ CalRestored(a)

FirmwareStep(n) ==
  \/ \E v \in FirmwareEnds : FirmwareSetsEnd(n, v)
  \/ \E v \in FirmwareStarts : FirmwareSetsStart(n, v)
  \/ FirmwareTakesOver(n)
  \/ NodeVanishes(n)
  \/ NodeAppears(n)

Next ==
  \/ \E a \in Actors : WriteStep(a)
  \/ DaemonTick
  \/ DaemonLifecycle
  \/ \E c \in Commands : CommandStep(c)
  \/ \E d \in Dashboards : DashStep(d)
  \/ \E a \in Operators : CalStep(a)
  \/ \E n \in Nodes : FirmwareStep(n)

Spec == Init /\ [][Next]_vars

(* The daemon keeps ticking, writes that have begun go on to the last node,
   systemd restarts the daemon (Restart=always).  Nobody has to begin
   anything. *)
Fairness ==
  /\ WF_vars(DaemonTick)
  /\ \A a \in Actors : WF_vars(WriteStep(a))
  /\ WF_vars(DaemonEnds)
  /\ WF_vars(DaemonStart)

FairSpec == Spec /\ Fairness

-----------------------------------------------------------------------------
(* Properties.                                                             *)

(* write_node lowers the paired start enough: whatever start the firmware
   left and whatever is written, the kernel does not reject the end threshold
   for it (threshold.rs:144-149). *)
NoWriteBlockedByStart ==
  \A a \in Actors : \A n \in job[a].todo :
    job[a].op \in Writing => KernelAccepts(n, job[a].value)

NextPhase == [charge |-> "discharge", discharge |-> "recharge",
              recharge |-> "recharge"]

(* The calibration that the state file tells, or that is being written to it. *)
OnRecord ==
  ({calib} \ {NoCal}) \cup {job[a].cal : a \in {b \in Operators : Does(b, "saving")}}

(* While a calibration is in progress the threshold to restore does not
   change and the phase only moves forward: "Threshold that was active before
   `start`; restored by `finish`." (calibrate.rs:41). *)
CalibrationIsOneCycle ==
  [][\A c \in OnRecord, d \in OnRecord' :
       d.saved = c.saved /\ d.phase \in {c.phase, NextPhase[c.phase]}]_vars

(* The thresholds to be restored, those that a start has read included: its
   ceiling is lifted before there is a state file (calibrate.rs:101-112). *)
Owed ==
  {c.saved : c \in OnRecord} \cup
    {job[a].cal.saved : a \in {b \in Operators : Does(b, "lift")}}

(* A start, or a save of the state between its two calls, is cut short. *)
GivenUp ==
  \E a \in Operators :
    /\ job[a].op \in {"lift", "saving"}
    /\ \/ CalFails(a) \/ CalWriteFails(a)
       \/ a \in Commands /\ CommandDies(a)
       \/ a \in Dashboards /\ DashCloses(a)

(* The threshold from before the calibration is not forgotten before some node
   has it back (calibrate.rs:141-150), except where a start fails or dies once
   it has lifted the ceiling, or a save of the state fails or dies between its
   truncation and its write: nothing else, no status call, no failed restore
   and no crash of another kind, loses it.  For machines whose firmware is
   quiet. *)
FinishedMeansRestored ==
  [][\A t \in Owed \ {Unknown} :
       t \in Owed' \/ GivenUp \/ \E n \in present : end[n] = Clamp(t)]_vars

(* "A calibration cycle lifts the ceiling to 100%, walks the user through one
   full discharge/recharge ..., then restores the previous threshold."
   (calibrate.rs:6-9): until then, and with nobody setting a threshold, every
   write leaves the nodes at 100%. *)
CeilingStaysLifted ==
  [][\A n \in Nodes :
       calib # NoCal /\ end[n] = 100 /\ end'[n] # 100 =>
         \E a \in Operators : job[a].op \in {"limit", "elevated", "restore"}]_vars

(* After `charge-limit off` the daemon stops writing: the configuration is
   loaded on every tick, and None writes nothing (daemon.rs:416-455). *)
OffQuiesces == <>[](saved = Off) => <>[](~ Does(Daemon, "enforce"))

(* What may keep a ceiling away: failing reads, writes and saves, firmware that
   never rests, the daemon being stopped, commands killed halfway,
   calibrations. *)
Interference ==
  \/ \E a \in Actors : WriteFails(a) \/ WriteNodeOnly(a)
  \/ DaemonSatisfied /\ ~ \A n \in present :
                             IsFirst(n, present) => end[n] = job[Daemon].value
  \/ \E c \in Commands : CommandDies(c)
  \/ \E d \in Dashboards : DashCloses(d)
  \/ \E d \in Dashboards, l \in Limits : DashSetsLimit(d, l) /\ saved' # l
  \/ \E n \in Nodes : FirmwareStep(n)
  \/ daemon = "on" /\ daemon' # "on"
  \/ \E a \in Operators : CalStart(a) \/ CalRestores(a)

Binds(n, l) == end[n] = l /\ custom[n]

(* "the background daemon re-asserts the ceiling every few seconds, so
   firmware, the BIOS or another tool cannot quietly take it away"
   (README.md:143-144): once they rest, the battery the daemon looks at, the
   first, has the saved limit as its ceiling.  It does not look at another one,
   nor at the mode. *)
SavedLimitBinds ==
  \A l \in Limits :
    <>[](saved = l) =>
      \/ []<><<Interference>>_vars
      \/ <>[](\A n \in present : IsFirst(n, present) => end[n] = l)
=============================================================================
