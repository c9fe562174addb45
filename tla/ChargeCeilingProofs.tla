------------------------ MODULE ChargeCeilingProofs -------------------------
(***************************************************************************)
(* Proofs about ChargeCeiling, for any batteries, limits, firmware,        *)
(* commands and dashboards.                                                *)
(***************************************************************************)
EXTENDS ChargeCeiling, TLAPS

(* set_charge_threshold clamps what it is given to 20..100. *)
ClampedJobs ==
  \A a \in Actors :
    /\ job[a].op \in Writing /\ job[a].todo # {} => job[a].value \in 20..100
    /\ job[a].op \in {"limit", "elevated"} =>
         job[a].value \in Limits \cup {Off}
    /\ job[a].op = "check" => job[a].value \in Limits
    /\ job[a].op = "resave" => job[a].value \in Limits \cup {Off}
    /\ job[a].op \in {"lift", "status", "saving"} => job[a].cal \in Calibration

IInv == TypeOK /\ ClampedJobs

LEMMA ClampRange ==
  ASSUME NEW t \in Int
  PROVE  /\ Clamp(t) \in 20..100
         /\ t \in 20..100 => Clamp(t) = t
BY DEF Clamp

LEMMA IdleType == Idle \in Job
BY DEF Idle, Job, Ops, Writing

LEMMA WriteJobType ==
  ASSUME TypeOK, NEW op \in Writing, NEW v \in Percent,
         NEW cal \in Calibration \cup {NoCal}
  PROVE  /\ WriteJob(op, v, cal) \in Job
         /\ WriteJob(op, v, cal).value \in 20..100
<1>1. v \in Int /\ Clamp(v) \in 20..100 /\ Clamp(v) \in Percent
  BY ClampRange DEF Percent
<1>2. op \in Ops /\ present \in SUBSET Nodes
  BY DEF Ops, TypeOK
<1> QED BY <1>1, <1>2 DEF WriteJob, Job

LEMMA InitIInv == Init => IInv
<1> SUFFICES ASSUME Init PROVE IInv
  OBVIOUS
<1>1. \A a \in Actors : job[a] = Idle
  BY DEF Init
<1>2. end \in [Nodes -> Percent]
  <2>1. FirmwareEnds \cup {100} \subseteq Percent
    BY LimitsAssumption DEF Percent
  <2> QED BY <2>1 DEF Init
<1>3. start \in [Nodes -> Percent]
  BY DEF Init, Percent
<1>4. TypeOK
  BY <1>1, <1>2, <1>3, IdleType DEF Init, TypeOK, Percent
<1>5. ClampedJobs
  BY <1>1 DEF ClampedJobs, Idle, Writing
<1> QED BY <1>4, <1>5 DEF IInv

-----------------------------------------------------------------------------
(* The value a job may carry with each operation. *)
JobOK(j) ==
  /\ j \in Job
  /\ j.op \in Writing /\ j.todo # {} => j.value \in 20..100
  /\ j.op \in {"limit", "elevated"} => j.value \in Limits \cup {Off}
  /\ j.op = "check" => j.value \in Limits
  /\ j.op = "resave" => j.value \in Limits \cup {Off}
  /\ j.op \in {"lift", "status", "saving"} => j.cal \in Calibration

JobsOK == job \in [Actors -> Job] /\ \A a \in Actors : JobOK(job[a])

LEMMA JobsOKIff == IInv => JobsOK
BY DEF IInv, TypeOK, ClampedJobs, JobsOK, JobOK

LEMMA BecomesOK ==
  ASSUME JobsOK, NEW a \in Actors, NEW j, JobOK(j), Becomes(a, j)
  PROVE  JobsOK'
BY DEF JobsOK, JobOK, Becomes

(* A lemma for each kind of new job. *)
LEMMA IdleOK == JobOK(Idle)
BY IdleType DEF JobOK, Idle, Writing

LEMMA LimitsArePercents ==
  ASSUME NEW l \in Limits
  PROVE  l \in Int /\ l \in Percent /\ l \in 20..100 /\ Clamp(l) = l
<1>1. l \in 55..100
  BY LimitsAssumption
<1> QED BY <1>1, ClampRange DEF Percent

LEMMA LimitJobOK ==
  ASSUME TypeOK, NEW l \in Limits, NEW op \in {"enforce", "limit", "elevated"}
  PROVE  JobOK(WriteJob(op, l, NoCal))
<1>1. WriteJob(op, l, NoCal) \in Job
  BY WriteJobType, LimitsArePercents DEF Writing
<1>2. /\ WriteJob(op, l, NoCal).value = l
      /\ WriteJob(op, l, NoCal).op = op
  BY LimitsArePercents DEF WriteJob
<1> QED BY <1>1, <1>2, LimitsArePercents DEF JobOK

LEMMA CalJobOK ==
  ASSUME TypeOK, NEW v \in Percent, NEW cal \in Calibration \cup {NoCal},
         NEW op \in {"lift", "restore"}, op = "lift" => cal \in Calibration
  PROVE  JobOK(WriteJob(op, v, cal))
<1>1. WriteJob(op, v, cal) \in Job /\ WriteJob(op, v, cal).value \in 20..100
  BY WriteJobType DEF Writing
<1>2. WriteJob(op, v, cal).op = op /\ WriteJob(op, v, cal).cal = cal
  BY DEF WriteJob
<1> QED BY <1>1, <1>2 DEF JobOK

LEMMA SmallJobOK ==
  /\ \A l \in Limits : JobOK([Idle EXCEPT !.op = "check", !.value = l])
  /\ \A l \in Limits \cup {Off} :
       JobOK([Idle EXCEPT !.op = "resave", !.value = l])
  /\ JobOK([Idle EXCEPT !.op = "limit"])
  /\ JobOK([Idle EXCEPT !.op = "elevated", !.ok = TRUE])
  /\ \A cal \in Calibration :
       /\ JobOK([Idle EXCEPT !.op = "status", !.cal = cal])
       /\ JobOK([Idle EXCEPT !.op = "saving", !.cal = cal])
BY LimitsArePercents DEF Idle, JobOK, Job, Ops, Writing

-----------------------------------------------------------------------------
(* One lemma per group of actions.                                         *)

LEMMA WritesKeepIInv ==
  ASSUME IInv, NEW a \in Actors, WriteStep(a)
  PROVE  IInv'
<1>1. JobsOK
  BY JobsOKIff
<1>2. PICK n \in Nodes, landed \in BOOLEAN :
        /\ job[a].op \in Writing
        /\ n \in job[a].todo
        /\ NodeDone(a, n, landed)
        /\ UNCHANGED <<saved, calib, present, daemon, dash>>
  BY NodesAssumption
     DEF WriteStep, WriteNode, WriteNodeOnly, WriteFails, IsFirst
<1>3. job[a].value \in 20..100 /\ job[a].value \in Int /\ job[a].value \in Percent
  BY <1>1, <1>2 DEF JobsOK, JobOK, Percent
<1>4. \A m \in Nodes : StartAfter(m, job[a].value) \in Percent
  BY <1>3 DEF IInv, TypeOK, StartAfter, Percent
<1>5. end' \in [Nodes -> Percent]
  <2>1. end \in [Nodes -> Percent]
    BY DEF IInv, TypeOK
  <2>2. PICK m \in Nodes, v \in Percent : end' = [end EXCEPT ![m] = v]
    <3>1. CASE WriteNode(a) \/ WriteNodeOnly(a)
      BY <1>3, <3>1, NodesAssumption DEF WriteNode, WriteNodeOnly
    <3>2. CASE WriteFails(a)
      <4>1. PICK m \in Nodes : \E v \in {end[m], job[a].value} \cup FirmwareEnds :
              end' = [end EXCEPT ![m] = v]
        BY <3>2, Zenon DEF WriteFails
      <4>2. /\ end[m] \in Percent
            /\ job[a].value \in Percent
            /\ FirmwareEnds \subseteq Percent
        <5>1. FirmwareEnds \subseteq Percent
          BY LimitsAssumption DEF Percent
        <5> QED BY <1>3, <2>1, <5>1
      <4>3. PICK v \in {end[m], job[a].value} \cup FirmwareEnds :
              end' = [end EXCEPT ![m] = v]
        BY <4>1, Zenon
      <4>4. v \in Percent
        BY <4>2, <4>3
      <4> QED BY <4>3, <4>4
    <3> QED BY <3>1, <3>2 DEF WriteStep
  <2> QED BY <2>1, <2>2
<1>6. start' \in [Nodes -> Percent]
  <2>1. start \in [Nodes -> Percent]
    BY DEF IInv, TypeOK
  <2>2. \/ start' = start
        \/ \E m \in Nodes :
             start' = [start EXCEPT ![m] = StartAfter(m, job[a].value)]
    <3>1. CASE WriteNode(a) \/ WriteNodeOnly(a)
      BY <3>1, NodesAssumption DEF WriteNode, WriteNodeOnly
    <3>2. CASE WriteFails(a)
      BY <3>2 DEF WriteFails
    <3> QED BY <3>1, <3>2 DEF WriteStep
  <2> QED BY <1>4, <2>1, <2>2
<1>7. custom' \in [Nodes -> BOOLEAN]
  <2>1. custom \in [Nodes -> BOOLEAN]
    BY DEF IInv, TypeOK
  <2>2. \/ custom' = custom
        \/ \E m \in Nodes, b \in BOOLEAN : custom' = [custom EXCEPT ![m] = b]
    <3>1. CASE WriteNode(a)
      BY <3>1 DEF WriteNode
    <3>2. CASE WriteNodeOnly(a)
      BY <3>2 DEF WriteNodeOnly
    <3>3. CASE WriteFails(a)
      <4>1. PICK m \in Nodes, modeSet \in BOOLEAN :
              custom' = [custom EXCEPT ![m] = @ \/ modeSet]
        BY <3>3 DEF WriteFails
      <4>2. (custom[m] \/ modeSet) \in BOOLEAN
        OBVIOUS
      <4> QED BY <4>1, <4>2, Zenon
    <3> QED BY <3>1, <3>2, <3>3 DEF WriteStep
  <2> QED BY <2>1, <2>2
<1>8. JobsOK'
  <2> DEFINE j == [job[a] EXCEPT !.todo = @ \ {n}, !.ok = @ \/ landed]
  <2>1. JobOK(j)
    BY <1>1, <1>2, <1>3 DEF JobsOK, JobOK, Job
  <2>2. Becomes(a, j)
    BY <1>1, <1>2 DEF NodeDone, Becomes, JobsOK, Job
  <2> QED BY <1>1, <2>1, <2>2, BecomesOK
<1> QED BY <1>2, <1>5, <1>6, <1>7, <1>8
        DEF IInv, TypeOK, ClampedJobs, JobsOK, JobOK

(* The other groups leave the nodes, or the jobs, alone. *)
LEMMA JobOnly ==
  ASSUME IInv, JobsOK', UNCHANGED hardware,
         saved' \in Limits \cup {Off},
         calib' \in Calibration \cup {NoCal},
         daemon' \in {"on", "ending", "off"},
         dash' \in [Dashboards -> Limits \cup {Off, Closed}]
  PROVE  IInv'
BY DEF IInv, TypeOK, ClampedJobs, JobsOK, JobOK, hardware

LEMMA DaemonKeepsIInv ==
  ASSUME IInv, DaemonTick \/ DaemonLifecycle
  PROVE  IInv'
<1>1. JobsOK /\ TypeOK /\ Daemon \in Actors
  BY JobsOKIff DEF IInv, Actors
<1>2. /\ UNCHANGED <<saved, calib, hardware, dash>>
      /\ daemon' \in {"on", "ending", "off"}
  BY DEF DaemonTick, DaemonLifecycle, DaemonLoads, DaemonSatisfied,
         DaemonEnforces, EnforceDone, DaemonStop, DaemonEnds, DaemonCrash,
         DaemonStart, AfterSigterm, IInv, TypeOK
<1>3. JobsOK'
  <2>1. CASE DaemonLoads
    <3>1. saved \in Limits
      BY <1>1, <2>1 DEF DaemonLoads, TypeOK
    <3> QED BY <1>1, <2>1, <3>1, SmallJobOK, BecomesOK DEF DaemonLoads
  <2>2. CASE DaemonEnforces
    <3>1. job[Daemon].value \in Limits
      BY <1>1, <2>2 DEF DaemonEnforces, Does, JobsOK, JobOK
    <3> QED BY <1>1, <2>2, <3>1, LimitJobOK, BecomesOK DEF DaemonEnforces
  <2>3. CASE DaemonSatisfied \/ EnforceDone \/ DaemonCrash
    BY <1>1, <2>3, IdleOK, BecomesOK
       DEF DaemonSatisfied, EnforceDone, DaemonCrash
  <2>4. CASE DaemonStop \/ DaemonEnds \/ DaemonStart
    BY <1>1, <2>4 DEF DaemonStop, DaemonEnds, DaemonStart, JobsOK, JobOK
  <2> QED BY <2>1, <2>2, <2>3, <2>4 DEF DaemonTick, DaemonLifecycle
<1> QED BY <1>1, <1>2, <1>3, JobOnly DEF TypeOK

LEMMA CommandsKeepIInv ==
  ASSUME IInv, NEW c \in Commands, CommandStep(c)
  PROVE  IInv'
<1>1. JobsOK /\ TypeOK /\ c \in Actors
  BY JobsOKIff DEF IInv, Actors, Operators
<1>2. UNCHANGED <<calib, hardware, daemon, dash>>
  BY DEF CommandStep, CommandSetsLimit, CommandLimitDone, CommandLoads,
         CommandSaves, CommandDies
<1>3. saved' \in Limits \cup {Off} /\ JobsOK'
  <2>1. CASE \E l \in Limits \cup {Off} : CommandSetsLimit(c, l)
    <3>1. PICK l \in Limits \cup {Off} : CommandSetsLimit(c, l)
      BY <2>1
    <3>2. JobOK(IF l = Off THEN Idle ELSE WriteJob("limit", l, NoCal))
      BY <1>1, IdleOK, LimitJobOK
    <3> QED BY <1>1, <3>1, <3>2, BecomesOK DEF CommandSetsLimit
  <2>2. CASE CommandLimitDone(c) \/ CommandDies(c)
    BY <1>1, <2>2, IdleOK, BecomesOK DEF CommandLimitDone, CommandDies, TypeOK
  <2>3. CASE CommandLoads(c)
    BY <1>1, <2>3, SmallJobOK, BecomesOK DEF CommandLoads, TypeOK
  <2>4. CASE CommandSaves(c)
    <3>1. job[c].value \in Limits \cup {Off}
      BY <1>1, <2>4 DEF CommandSaves, Does, JobsOK, JobOK
    <3> QED BY <1>1, <2>4, <3>1, IdleOK, BecomesOK DEF CommandSaves
  <2> QED BY <2>1, <2>2, <2>3, <2>4 DEF CommandStep
<1> QED BY <1>1, <1>2, <1>3, JobOnly DEF TypeOK

LEMMA DashboardsKeepIInv ==
  ASSUME IInv, NEW d \in Dashboards, DashStep(d)
  PROVE  IInv'
<1>1. JobsOK /\ TypeOK /\ d \in Actors
  BY JobsOKIff DEF IInv, Actors, Operators
<1>2. UNCHANGED <<calib, hardware, daemon>>
  BY DEF DashStep, DashOpens, DashCloses, DashSavesOther, DashSetsLimit,
         DashLimitDone, DashElevates, DashElevatedDone
<1>3. /\ saved' \in Limits \cup {Off}
      /\ dash' \in [Dashboards -> Limits \cup {Off, Closed}]
      /\ JobsOK'
  <2>1. CASE DashOpens(d)
    BY <1>1, <2>1 DEF DashOpens, TypeOK, JobsOK, JobOK
  <2>2. CASE DashCloses(d)
    BY <1>1, <2>2, IdleOK, BecomesOK DEF DashCloses, TypeOK
  <2>3. CASE DashSavesOther(d)
    BY <1>1, <2>3 DEF DashSavesOther, TypeOK, JobsOK, JobOK
  <2>4. CASE \E l \in Limits \cup {Off} : DashSetsLimit(d, l)
    <3>1. PICK l \in Limits \cup {Off} : DashSetsLimit(d, l)
      BY <2>4
    <3>2. /\ saved' \in Limits \cup {Off}
          /\ dash' \in [Dashboards -> Limits \cup {Off, Closed}]
      BY <1>1, <3>1 DEF DashSetsLimit, TypeOK
    <3>3. JobsOK'
      <4>1. JobOK(IF l = Off THEN Idle ELSE WriteJob("limit", l, NoCal))
        BY <1>1, IdleOK, LimitJobOK
      <4>2. JobOK(IF l = Off THEN [Idle EXCEPT !.op = "limit"]
                             ELSE WriteJob("limit", l, NoCal))
        BY <1>1, SmallJobOK, LimitJobOK
      <4> QED BY <1>1, <3>1, <4>1, <4>2, BecomesOK DEF DashSetsLimit
    <3> QED BY <3>2, <3>3
  <2>5. CASE DashLimitDone(d)
    BY <1>1, <2>5, IdleOK, BecomesOK DEF DashLimitDone, TypeOK
  <2>6. CASE DashElevates(d)
    <3> DEFINE l == job[d].value
    <3>1. l \in Limits \cup {Off}
      BY <1>1, <2>6 DEF DashElevates, Finished, JobsOK, JobOK
    <3>2. JobOK(IF l = Off THEN [Idle EXCEPT !.op = "elevated", !.ok = TRUE]
                           ELSE WriteJob("elevated", l, NoCal))
      BY <1>1, <3>1, SmallJobOK, LimitJobOK
    <3> QED BY <1>1, <2>6, <3>1, <3>2, BecomesOK DEF DashElevates, TypeOK
  <2>7. CASE DashElevatedDone(d)
    BY <1>1, <2>7, IdleOK, BecomesOK DEF DashElevatedDone, TypeOK
  <2> QED BY <2>1, <2>2, <2>3, <2>4, <2>5, <2>6, <2>7 DEF DashStep
<1> QED BY <1>1, <1>2, <1>3, JobOnly DEF TypeOK

LEMMA CalibrationKeepsIInv ==
  ASSUME IInv, NEW a \in Operators, CalStep(a)
  PROVE  IInv'
<1>1. JobsOK /\ TypeOK /\ a \in Actors
  BY JobsOKIff DEF IInv, Actors
<1>2. /\ UNCHANGED <<saved, hardware, dash>>
      /\ daemon' \in {"on", "ending", "off"}
  BY <1>1 DEF CalStep, CalStart, CalStatus, CalTruncates, CalWrites, CalFails,
         CalWriteFails, CalRestores, CalForgets, CalRestored, Calibrates,
         AfterSigterm, TypeOK
<1>3. calib' \in Calibration \cup {NoCal} /\ JobsOK'
  <2>1. CASE CalStart(a)
    <3>1. PICK t \in Readings :
            Becomes(a, WriteJob("lift", 100, [saved |-> t, phase |-> "charge"]))
      BY <2>1 DEF CalStart
    <3>2. t \in Percent \cup {Unknown} /\ 100 \in Percent
      BY <1>1 DEF Readings, TypeOK, Percent
    <3>3. [saved |-> t, phase |-> "charge"] \in Calibration
      BY <3>2 DEF Calibration, Phases
    <3> QED BY <1>1, <2>1, <3>1, <3>2, <3>3, CalJobOK, BecomesOK
            DEF CalStart, TypeOK
  <2>2. CASE CalTruncates(a) \/ CalWrites(a)
    <3>1. job[a].cal \in Calibration
      BY <1>1, <2>2 DEF CalTruncates, CalWrites, Finished, Does, JobsOK, JobOK
    <3> QED BY <1>1, <2>2, <3>1, IdleOK, SmallJobOK, BecomesOK
            DEF CalTruncates, CalWrites
  <2>3. CASE CalFails(a) \/ CalWriteFails(a) \/ CalRestored(a)
    BY <1>1, <2>3, IdleOK, BecomesOK DEF CalFails, CalWriteFails, CalRestored, TypeOK
  <2>4. CASE CalStatus(a)
    <3>1. calib \in Calibration
      BY <1>1, <2>4 DEF CalStatus, TypeOK
    <3>2. \A full, low, charging \in BOOLEAN :
            Advance(calib.phase, full, low, charging) \in Phases
      BY <3>1 DEF Advance, Calibration, Phases
    <3>3. \A full, low, charging \in BOOLEAN :
            [calib EXCEPT !.phase = Advance(@, full, low, charging)] \in Calibration
      BY <3>1, <3>2 DEF Calibration
    <3> QED BY <1>1, <2>4, <3>3, SmallJobOK, BecomesOK DEF CalStatus, TypeOK
  <2>5. CASE CalRestores(a)
    <3>1. calib.saved \in Percent
      BY <1>1, <2>5 DEF CalRestores, TypeOK, Calibration
    <3> QED BY <1>1, <2>5, <3>1, CalJobOK, BecomesOK DEF CalRestores, TypeOK
  <2>6. CASE CalForgets(a)
    BY <1>1, <2>6 DEF CalForgets, TypeOK, JobsOK, JobOK
  <2> QED BY <2>1, <2>2, <2>3, <2>4, <2>5, <2>6 DEF CalStep
<1> QED BY <1>1, <1>2, <1>3, JobOnly DEF TypeOK

LEMMA FirmwareKeepsIInv ==
  ASSUME IInv, NEW n \in Nodes, FirmwareStep(n)
  PROVE  IInv'
<1>1. TypeOK /\ FirmwareEnds \subseteq Percent /\ FirmwareStarts \subseteq Percent
  BY LimitsAssumption DEF IInv, Percent
<1>2. UNCHANGED <<saved, calib, daemon, dash, job>>
  BY DEF FirmwareStep, FirmwareSetsEnd, FirmwareSetsStart, FirmwareTakesOver,
         NodeVanishes, NodeAppears
<1>3. /\ present' \subseteq Nodes
      /\ end' \in [Nodes -> Percent]
      /\ start' \in [Nodes -> Percent]
  BY <1>1 DEF FirmwareStep, FirmwareSetsEnd, FirmwareSetsStart,
     FirmwareTakesOver, NodeVanishes, NodeAppears, TypeOK, Percent
<1>4. custom' \in [Nodes -> BOOLEAN]
  <2>1. CASE NodeAppears(n)
    <3>1. (n \notin HasTypes) \in BOOLEAN
      OBVIOUS
    <3>2. PICK b \in BOOLEAN : custom' = [custom EXCEPT ![n] = b]
      BY <2>1, <3>1, Zenon DEF NodeAppears
    <3>3. custom \in [Nodes -> BOOLEAN]
      BY <1>1 DEF TypeOK
    <3> QED BY <3>2, <3>3
  <2>2. CASE FirmwareTakesOver(n)
    BY <1>1, <2>2 DEF FirmwareTakesOver, TypeOK
  <2>3. CASE UNCHANGED custom
    BY <1>1, <2>3 DEF TypeOK
  <2> QED BY <2>1, <2>2, <2>3
          DEF FirmwareStep, FirmwareSetsEnd, FirmwareSetsStart, NodeVanishes
<1> QED BY <1>1, <1>2, <1>3, <1>4 DEF IInv, TypeOK, ClampedJobs

-----------------------------------------------------------------------------
LEMMA Invariance == Spec => []IInv
<1>1. Init => IInv
  BY InitIInv
<1>2. IInv /\ [Next]_vars => IInv'
  <2> SUFFICES ASSUME IInv, [Next]_vars PROVE IInv'
    OBVIOUS
  <2>1. CASE Next
    <3>1. \A a \in Actors : WriteStep(a) => IInv'
      BY WritesKeepIInv
    <3>2. DaemonTick \/ DaemonLifecycle => IInv'
      BY DaemonKeepsIInv
    <3>3. \A c \in Commands : CommandStep(c) => IInv'
      BY CommandsKeepIInv
    <3>4. \A d \in Dashboards : DashStep(d) => IInv'
      BY DashboardsKeepIInv
    <3>5. \A a \in Operators : CalStep(a) => IInv'
      BY CalibrationKeepsIInv
    <3>6. \A n \in Nodes : FirmwareStep(n) => IInv'
      BY FirmwareKeepsIInv
    <3> QED BY <2>1, <3>1, <3>2, <3>3, <3>4, <3>5, <3>6 DEF Next
  <2>2. CASE UNCHANGED vars
    BY <2>2 DEF vars, hardware, IInv, TypeOK, ClampedJobs
  <2> QED BY <2>1, <2>2
<1> QED BY <1>1, <1>2, PTL DEF Spec

(* Every variable keeps its type: limits stay what users may pick, thresholds
   stay percentages, and no actor applies anything else. *)
THEOREM TypeCorrect == Spec => []TypeOK
<1>1. IInv => TypeOK
  BY DEF IInv
<1> QED BY <1>1, Invariance, PTL

(* write_node: whatever start threshold a battery has and whatever limit,
   calibration or re-assertion is being applied, the start is out of the way
   when the end threshold is written.  It rests on set_charge_threshold
   clamping to 20..100: of an unclamped 1%, the start would stay at 1. *)
THEOREM NoWriteBlocked == Spec => []NoWriteBlockedByStart
<1>1. IInv => NoWriteBlockedByStart
  <2> SUFFICES ASSUME IInv, NEW a \in Actors, NEW n \in job[a].todo,
                      job[a].op \in Writing
               PROVE  KernelAccepts(n, job[a].value)
    BY DEF NoWriteBlockedByStart
  <2>1. job[a].value \in 20..100
    BY DEF IInv, ClampedJobs
  <2>2. n \in Nodes /\ start[n] \in Int
    BY DEF IInv, TypeOK, Job, Percent
  <2> QED BY <2>1, <2>2 DEF KernelAccepts, StartAfter
<1> QED BY <1>1, Invariance, PTL

-----------------------------------------------------------------------------
(* Calibrations by a single operator, who may use a dashboard or commands one
   after the other.  With two of them one start can overwrite the state of the
   other: neither looks again before it saves. *)
OneOperator == \A a, b \in Operators : a = b

(* A start under way found no calibration and still finds none, nor does a save
   of its own make; a status call under way will save the state it found, with
   its phase or the next.  Only the daemon enforces. *)
CycleJobs ==
  \A a \in Operators :
    /\ job[a].op # "enforce"
    /\ job[a].op \in {"lift", "saving"} => calib = NoCal
    /\ job[a].op = "status" =>
         /\ calib # NoCal
         /\ job[a].cal.saved = calib.saved
         /\ job[a].cal.phase \in {calib.phase, NextPhase[calib.phase]}

(* What only calibration calls, or the daemon, begin. *)
CalOps == {"lift", "status", "saving", "restore", "enforce"}

LEMMA JobsAfter ==
  ASSUME job \in [Actors -> Job], NEW a \in Actors, NEW j, Becomes(a, j)
  PROVE  job'[a] = j /\ \A b \in Actors \ {a} : job'[b] = job[b]
BY DEF Becomes

LEMMA OpsOfJobs ==
  /\ Idle.op = "idle"
  /\ \A op, v, cal : /\ WriteJob(op, v, cal).op = op
                     /\ WriteJob(op, v, cal).value = Clamp(v)
                     /\ WriteJob(op, v, cal).cal = cal
                     /\ WriteJob(op, v, cal).ok = FALSE
                     /\ WriteJob(op, v, cal).todo = present
  /\ \A op, v : [Idle EXCEPT !.op = op, !.value = v].op = op
  /\ \A op : [Idle EXCEPT !.op = op].op = op
  /\ [Idle EXCEPT !.op = "elevated", !.ok = TRUE].op = "elevated"
  /\ \A op, cal : /\ [Idle EXCEPT !.op = op, !.cal = cal].op = op
                  /\ [Idle EXCEPT !.op = op, !.cal = cal].cal = cal
BY DEF Idle, WriteJob

(* A write of one node, to whatever end, leaves the rest of the job alone. *)
LEMMA WriteStepJob ==
  ASSUME IInv, NEW b \in Actors, WriteStep(b)
  PROVE  /\ UNCHANGED <<saved, calib, present, daemon, dash>>
         /\ job[b].op \in Writing
         /\ \E n \in Nodes, landed \in BOOLEAN :
              /\ n \in job[b].todo
              /\ job'[b].op = job[b].op /\ job'[b].value = job[b].value
              /\ job'[b].cal = job[b].cal
              /\ job'[b].todo = job[b].todo \ {n}
              /\ job'[b].ok = (job[b].ok \/ landed)
              /\ landed => end' = [end EXCEPT ![n] = job[b].value]
              /\ \A m \in Nodes \ {n} : end'[m] = end[m]
         /\ \A c \in Actors \ {b} : job'[c] = job[c]
<1>0. /\ job \in [Actors -> Job] /\ end \in [Nodes -> Percent]
      /\ HasTypes \subseteq Nodes
  BY NodesAssumption DEF IInv, TypeOK
<1>1. PICK n \in Nodes, landed \in BOOLEAN :
        /\ job[b].op \in Writing /\ n \in job[b].todo
        /\ NodeDone(b, n, landed)
        /\ landed => end' = [end EXCEPT ![n] = job[b].value]
        /\ \E v : end' = [end EXCEPT ![n] = v]
        /\ UNCHANGED <<saved, calib, present, daemon, dash>>
  <2>1. CASE WriteNode(b)
    BY <2>1 DEF WriteNode, IsFirst
  <2>2. CASE WriteNodeOnly(b)
    BY <1>0, <2>2 DEF WriteNodeOnly, IsFirst
  <2>3. CASE WriteFails(b)
    BY <2>3 DEF WriteFails, IsFirst
  <2> QED BY <2>1, <2>2, <2>3 DEF WriteStep
<1> DEFINE after == [job[b] EXCEPT !.todo = @ \ {n}, !.ok = @ \/ landed]
<1>2. Becomes(b, after)
  BY <1>0, <1>1 DEF NodeDone, Becomes, Job
<1>3. job'[b] = after /\ \A c \in Actors \ {b} : job'[c] = job[c]
  BY <1>0, <1>2, JobsAfter
<1>4. /\ after.op = job[b].op /\ after.value = job[b].value
      /\ after.cal = job[b].cal
      /\ after.todo = job[b].todo \ {n} /\ after.ok = (job[b].ok \/ landed)
  BY <1>0 DEF Job
<1>5. \A m \in Nodes \ {n} : end'[m] = end[m]
  BY <1>0, <1>1
<1> QED BY <1>1, <1>3, <1>4, <1>5

(* Other steps than writes and those of calibrations begin none of theirs. *)
LEMMA CalOpsKept ==
  ASSUME IInv, Next, ~ \E b \in Operators : CalStep(b),
         ~ \E b \in Actors : WriteStep(b),
         NEW a \in Operators, job'[a].op \in CalOps
  PROVE  job'[a] = job[a]
<1>0. job \in [Actors -> Job] /\ a \in Actors /\ Daemon \in Actors /\ a # Daemon
  BY ActorsAssumption DEF IInv, TypeOK, Actors, Operators
<1>1. CASE DaemonTick \/ DaemonLifecycle
  <2>1. UNCHANGED job \/ \E j : Becomes(Daemon, j)
    BY <1>1 DEF DaemonTick, DaemonLifecycle, DaemonLoads, DaemonSatisfied,
                DaemonEnforces, EnforceDone, DaemonStop, DaemonEnds, DaemonCrash,
                DaemonStart
  <2> QED BY <1>0, <2>1, JobsAfter
<1>2. ASSUME NEW b \in Operators, CommandStep(b) \/ DashStep(b)
      PROVE  job'[a] = job[a]
  <2>0. b \in Actors
    BY DEF Actors
  <2>1. UNCHANGED job \/ \E j : Becomes(b, j) /\ j.op \notin CalOps
    <3> DEFINE Other == {Idle, [Idle EXCEPT !.op = "resave", !.value = saved],
                         [Idle EXCEPT !.op = "limit"],
                         [Idle EXCEPT !.op = "elevated", !.ok = TRUE],
                         WriteJob("elevated", job[b].value, NoCal)}
               Limiting == {WriteJob("limit", l, NoCal) : l \in Limits}
    <3>1. UNCHANGED job \/ \E j \in Other \cup Limiting : Becomes(b, j)
      <4>1. CASE \E l \in Limits \cup {Off} : CommandSetsLimit(b, l) \/ DashSetsLimit(b, l)
        <5>1. PICK l \in Limits \cup {Off} : CommandSetsLimit(b, l) \/ DashSetsLimit(b, l)
          BY <4>1
        <5>2. CASE l = Off
          BY <5>1, <5>2 DEF CommandSetsLimit, DashSetsLimit
        <5>3. CASE l # Off
          BY <5>1, <5>3 DEF CommandSetsLimit, DashSetsLimit
        <5> QED BY <5>2, <5>3
      <4>2. CASE \/ CommandLimitDone(b) \/ CommandLoads(b) \/ CommandSaves(b)
                 \/ CommandDies(b) \/ DashOpens(b) \/ DashCloses(b)
                 \/ DashSavesOther(b) \/ DashLimitDone(b) \/ DashElevates(b)
                 \/ DashElevatedDone(b)
        BY <4>2 DEF CommandLimitDone, CommandLoads, CommandSaves, CommandDies,
                    DashOpens, DashCloses, DashSavesOther, DashLimitDone,
                    DashElevates, DashElevatedDone
      <4> QED BY <1>2, <4>1, <4>2 DEF CommandStep, DashStep
    <3>2. \A j \in Other : j.op \in {"idle", "resave", "limit", "elevated"}
      <4>1. WriteJob("elevated", job[b].value, NoCal).op = "elevated"
        BY OpsOfJobs
      <4>2. /\ Idle.op = "idle" /\ [Idle EXCEPT !.op = "limit"].op = "limit"
            /\ [Idle EXCEPT !.op = "resave", !.value = saved].op = "resave"
            /\ [Idle EXCEPT !.op = "elevated", !.ok = TRUE].op = "elevated"
        BY DEF Idle
      <4> QED BY <4>1, <4>2, Zenon
    <3>3. \A j \in Limiting : j.op = "limit"
      BY OpsOfJobs
    <3> HIDE DEF Other, Limiting
    <3>4. \A j \in Other \cup Limiting : j.op \notin CalOps
      BY <3>2, <3>3 DEF CalOps
    <3> QED BY <3>1, <3>4
  <2> QED BY <1>0, <2>0, <2>1, JobsAfter
<1>3. ASSUME NEW n \in Nodes, FirmwareStep(n)
      PROVE  job'[a] = job[a]
  BY <1>3 DEF FirmwareStep, FirmwareSetsEnd, FirmwareSetsStart, FirmwareTakesOver,
              NodeVanishes, NodeAppears
<1> QED BY <1>1, <1>2, <1>3 DEF Next, Operators

(* What no calibration call does leaves the calibration alone. *)
LEMMA CalibKept ==
  ASSUME IInv, Next, ~ \E b \in Operators : CalStep(b)
  PROVE  UNCHANGED calib
<1>1. ASSUME NEW b \in Actors, WriteStep(b)
      PROVE  UNCHANGED calib
  BY <1>1, WriteStepJob
<1>2. CASE DaemonTick \/ DaemonLifecycle
  BY <1>2 DEF DaemonTick, DaemonLifecycle, DaemonLoads, DaemonSatisfied,
              DaemonEnforces, EnforceDone, DaemonStop, DaemonEnds, DaemonCrash,
              DaemonStart
<1>3. ASSUME NEW b, CommandStep(b) \/ DashStep(b)
      PROVE  UNCHANGED calib
  BY <1>3 DEF CommandStep, CommandSetsLimit, CommandLimitDone, CommandLoads,
              CommandSaves, CommandDies, DashStep, DashOpens, DashCloses,
              DashSavesOther, DashSetsLimit, DashLimitDone, DashElevates,
              DashElevatedDone
<1>4. ASSUME NEW n \in Nodes, FirmwareStep(n)
      PROVE  UNCHANGED calib
  BY <1>4 DEF FirmwareStep, FirmwareSetsEnd, FirmwareSetsStart, FirmwareTakesOver,
              NodeVanishes, NodeAppears
<1> QED BY <1>1, <1>2, <1>3, <1>4 DEF Next

LEMMA AdvanceGoesOn ==
  ASSUME NEW phase \in Phases, NEW full, NEW low, NEW charging
  PROVE  Advance(phase, full, low, charging) \in {phase, NextPhase[phase]}
BY DEF Advance, Phases, NextPhase

OneCycle ==
  \A c \in OnRecord, d \in OnRecord' :
    d.saved = c.saved /\ d.phase \in {c.phase, NextPhase[c.phase]}

(* With a single operator: what is on record is in the file, or in its save. *)
LEMMA SoleRecord ==
  ASSUME OneOperator, NEW a \in Operators
  PROVE  /\ OnRecord = ({calib} \ {NoCal}) \cup
                       {c \in {job[a].cal} : job[a].op = "saving"}
         /\ OnRecord' = ({calib'} \ {NoCal}) \cup
                        {c \in {job'[a].cal} : job'[a].op = "saving"}
<1>1. Operators = {a}
  BY DEF OneOperator
<1> QED BY <1>1 DEF OnRecord, Does

LEMMA CycleStep ==
  ASSUME OneOperator, IInv, CycleJobs, Next
  PROVE  CycleJobs' /\ OneCycle
<1> SUFFICES ASSUME NEW a \in Operators
             PROVE  /\ job'[a].op # "enforce"
                    /\ job'[a].op \in {"lift", "saving"} => calib' = NoCal
                    /\ job'[a].op = "status" =>
                         /\ calib' # NoCal
                         /\ job'[a].cal.saved = calib'.saved
                         /\ job'[a].cal.phase \in {calib'.phase, NextPhase[calib'.phase]}
                    /\ OneCycle
  <2>1. CASE Operators = {}
    <3>1. UNCHANGED calib
      BY <2>1, CalibKept
    <3>2. OnRecord = {calib} \ {NoCal} /\ OnRecord' = {calib'} \ {NoCal}
      BY <2>1 DEF OnRecord
    <3> QED BY <2>1, <3>1, <3>2 DEF CycleJobs, OneCycle
  <2>2. CASE Operators # {}
    BY <2>2 DEF CycleJobs
  <2> QED BY <2>1, <2>2
<1>0. /\ a \in Actors /\ job \in [Actors -> Job] /\ Idle.op = "idle"
      /\ calib \in Calibration \cup {NoCal}
  BY OpsOfJobs DEF IInv, TypeOK, Actors
<1>a. /\ OnRecord = ({calib} \ {NoCal}) \cup
                    {c \in {job[a].cal} : job[a].op = "saving"}
      /\ OnRecord' = ({calib'} \ {NoCal}) \cup
                     {c \in {job'[a].cal} : job'[a].op = "saving"}
  BY SoleRecord
<1>b. \A c, d \in OnRecord : c = d
  BY <1>a DEF CycleJobs
<1>c. OnRecord' \subseteq OnRecord => OneCycle
  BY <1>b DEF OneCycle
<1>1. CASE CalStep(a)
  <2>1. CASE CalStart(a)
    <3>1. PICK cal : Becomes(a, WriteJob("lift", 100, cal)) /\ calib = NoCal
                     /\ UNCHANGED calib
      BY <2>1 DEF CalStart
    <3>2. job'[a].op = "lift"
      BY <1>0, <3>1, JobsAfter, OpsOfJobs
    <3> QED BY <1>a, <1>c, <3>1, <3>2
  <2>2. CASE CalTruncates(a)
    <3>1. calib' = NoCal /\ job[a].op \in {"lift", "status"}
      BY <2>2 DEF CalTruncates, Finished, Does
    <3>2. job'[a].op = "saving" /\ job'[a].cal = job[a].cal
      <4>1. job'[a] = [Idle EXCEPT !.op = "saving", !.cal = job[a].cal]
        BY <1>0, <2>2, JobsAfter DEF CalTruncates
      <4> QED BY <4>1, OpsOfJobs
    <3>3. OnRecord = {calib} \ {NoCal} /\ OnRecord' = {job[a].cal}
      BY <1>a, <3>1, <3>2
    <3> QED BY <3>1, <3>2, <3>3 DEF OneCycle, CycleJobs
  <2>3. CASE CalWrites(a)
    <3>1. job'[a] = Idle /\ calib' = job[a].cal /\ job[a].op = "saving"
      BY <1>0, <2>3, JobsAfter DEF CalWrites, Does
    <3> QED BY <1>0, <1>a, <1>c, <3>1
  <2>4. CASE CalFails(a) \/ CalWriteFails(a)
    <3>1. job'[a] = Idle /\ UNCHANGED calib
      BY <1>0, <2>4, JobsAfter DEF CalFails, CalWriteFails
    <3> QED BY <1>0, <1>a, <1>c, <3>1
  <2>5. CASE CalStatus(a)
    <3>1. PICK full \in BOOLEAN, low \in BOOLEAN, charging \in BOOLEAN :
            Becomes(a, [Idle EXCEPT !.op = "status",
              !.cal = [calib EXCEPT !.phase = Advance(@, full, low, charging)]])
      BY <2>5 DEF CalStatus
    <3>2. calib # NoCal /\ UNCHANGED calib /\ calib \in Calibration
      BY <1>0, <2>5 DEF CalStatus
    <3> DEFINE cal == [calib EXCEPT !.phase = Advance(@, full, low, charging)]
    <3>3. cal.saved = calib.saved /\ cal.phase \in {calib.phase, NextPhase[calib.phase]}
      <4>1. Advance(calib.phase, full, low, charging)
              \in {calib.phase, NextPhase[calib.phase]}
        BY <3>2, AdvanceGoesOn DEF Calibration
      <4> QED BY <3>2, <4>1 DEF Calibration
    <3> HIDE DEF cal
    <3>4. job'[a].op = "status" /\ job'[a].cal = cal
      <4>1. job'[a] = [Idle EXCEPT !.op = "status", !.cal = cal]
        BY <1>0, <3>1, JobsAfter DEF cal
      <4> QED BY <4>1, OpsOfJobs
    <3> QED BY <1>a, <1>c, <3>2, <3>3, <3>4
  <2>6. CASE CalRestores(a)
    <3>1. job'[a] = WriteJob("restore", calib.saved, NoCal) /\ UNCHANGED calib
      BY <1>0, <2>6, JobsAfter DEF CalRestores
    <3>2. job'[a].op = "restore"
      BY <3>1, OpsOfJobs
    <3> QED BY <1>a, <1>c, <3>1, <3>2
  <2>7. CASE CalForgets(a)
    <3>1. job'[a].op = "idle" /\ calib' \in {NoCal, calib}
      BY <2>7 DEF CalForgets, Calibrates, Does
    <3> QED BY <1>a, <1>c, <3>1
  <2>8. CASE CalRestored(a)
    <3>1. job'[a] = Idle /\ calib' \in {calib, NoCal}
      BY <1>0, <2>8, JobsAfter DEF CalRestored
    <3> QED BY <1>0, <1>a, <1>c, <3>1
  <2> QED BY <1>1, <2>1, <2>2, <2>3, <2>4, <2>5, <2>6, <2>7, <2>8 DEF CalStep
<1>2. CASE ~ CalStep(a)
  <2>1. ~ \E b \in Operators : CalStep(b)
    BY <1>2 DEF OneOperator
  <2>2. UNCHANGED calib
    BY <2>1, CalibKept
  <2>3. CASE \E b \in Actors : WriteStep(b)
    <3>1. job'[a].op = job[a].op /\ job'[a].cal = job[a].cal
      BY <1>0, <2>3, WriteStepJob
    <3> QED BY <1>a, <1>c, <2>2, <3>1 DEF CycleJobs
  <2>4. CASE ~ \E b \in Actors : WriteStep(b)
    <3>1. job'[a].op \in CalOps => job'[a] = job[a]
      BY <2>1, <2>4, CalOpsKept
    <3> QED BY <1>a, <1>c, <2>2, <3>1 DEF CycleJobs, CalOps
  <2> QED BY <2>3, <2>4
<1> QED BY <1>1, <1>2

(* `calibrate` start, status and finish by one operator, among all that the
   daemon, the Charge Limit row, firmware and hot-plugging do meanwhile: the
   threshold to restore stays what `start` has found, and the phase only moves
   forward (calibrate.rs:41). *)
THEOREM CycleHolds ==
  ASSUME OneOperator
  PROVE  Spec => CalibrationIsOneCycle
<1>1. Init => CycleJobs
  BY OpsOfJobs DEF Init, CycleJobs, Actors
<1>2. IInv /\ CycleJobs /\ [Next]_vars => CycleJobs' /\ [OneCycle]_vars
  <2>1. IInv /\ CycleJobs /\ Next => CycleJobs' /\ OneCycle
    BY CycleStep
  <2>2. CycleJobs /\ UNCHANGED vars => CycleJobs'
    BY DEF vars, CycleJobs
  <2> QED BY <2>1, <2>2
<1> QED BY <1>1, <1>2, Invariance, PTL
        DEF Spec, CalibrationIsOneCycle, OneCycle

-----------------------------------------------------------------------------
(* The end of a calibration, with firmware that leaves the nodes alone and no
   limit saved that the daemon would put back in between. *)
QuietFirmware == Meddled = {} /\ HotPlug = {}

(* A restoring command has found a threshold, and once a node has accepted it
   one that it has been through holds it. *)
RestoreJobs ==
  /\ present = Nodes
  /\ job[Daemon].op = "idle"
  /\ \A a \in Operators :
       job[a].op = "restore" =>
         /\ calib # NoCal /\ calib.saved # Unknown
         /\ job[a].value = Clamp(calib.saved)
         /\ job[a].ok => \E n \in Nodes \ job[a].todo : end[n] = job[a].value

Restored ==
  \A t \in Owed \ {Unknown} :
    t \in Owed' \/ GivenUp \/ \E n \in present : end[n] = Clamp(t)

(* Only writes of WattWarden change a threshold then. *)
LEMMA HardwareKept ==
  ASSUME IInv, Next, QuietFirmware, present = Nodes, ~ \E b \in Actors : WriteStep(b)
  PROVE  UNCHANGED <<present, end>>
<1>1. CASE DaemonTick \/ DaemonLifecycle
  BY <1>1 DEF DaemonTick, DaemonLifecycle, DaemonLoads, DaemonSatisfied,
              DaemonEnforces, EnforceDone, DaemonStop, DaemonEnds, DaemonCrash,
              DaemonStart, hardware
<1>2. ASSUME NEW b, CommandStep(b) \/ DashStep(b)
      PROVE  UNCHANGED <<present, end>>
  BY <1>2 DEF CommandStep, CommandSetsLimit, CommandLimitDone, CommandLoads,
              CommandSaves, CommandDies, DashStep, DashOpens, DashCloses,
              DashSavesOther, DashSetsLimit, DashLimitDone, DashElevates,
              DashElevatedDone, hardware
<1>3. ASSUME NEW b, CalStep(b)
      PROVE  UNCHANGED <<present, end>>
  BY <1>3 DEF CalStep, CalStart, CalStatus, CalTruncates, CalWrites,
              CalFails, CalWriteFails, CalRestores, CalForgets, CalRestored,
              hardware
<1>4. ASSUME NEW n \in Nodes, FirmwareStep(n)
      PROVE  UNCHANGED <<present, end>>
  BY <1>4 DEF FirmwareStep, FirmwareSetsEnd, FirmwareSetsStart, FirmwareTakesOver,
              NodeVanishes, NodeAppears, QuietFirmware
<1> QED BY <1>1, <1>2, <1>3, <1>4 DEF Next

(* Without a limit saved the daemon never begins anything. *)
LEMMA DaemonStaysIdle ==
  ASSUME IInv, Next, saved = Off, job[Daemon].op = "idle"
  PROVE  job'[Daemon].op = "idle"
<1>0. /\ job \in [Actors -> Job] /\ Daemon \in Actors /\ Daemon \notin Operators
      /\ Operators \subseteq Actors
  BY ActorsAssumption DEF IInv, TypeOK, Actors, Operators
<1>1. CASE DaemonTick \/ DaemonLifecycle
  <2>1. UNCHANGED job \/ Becomes(Daemon, Idle)
    BY <1>1 DEF DaemonTick, DaemonLifecycle, DaemonLoads, DaemonSatisfied,
                DaemonEnforces, EnforceDone, DaemonStop, DaemonEnds, DaemonCrash,
                DaemonStart, Does, Finished
  <2> QED BY <1>0, <2>1, JobsAfter, OpsOfJobs
<1>2. ASSUME NEW b \in Actors, WriteStep(b)
      PROVE  job'[Daemon] = job[Daemon]
  BY <1>0, <1>2, WriteStepJob DEF Writing
<1>3. ASSUME NEW b \in Operators, CommandStep(b) \/ DashStep(b) \/ CalStep(b)
      PROVE  job'[Daemon] = job[Daemon]
  <2>1. UNCHANGED job \/ \E j : Becomes(b, j)
    BY <1>3 DEF CommandStep, CommandSetsLimit, CommandLimitDone, CommandLoads,
                CommandSaves, CommandDies, DashStep, DashOpens, DashCloses,
                DashSavesOther, DashSetsLimit, DashLimitDone, DashElevates,
                DashElevatedDone, CalStep, CalStart, CalStatus, CalTruncates,
                CalWrites, CalFails, CalWriteFails, CalRestores, CalForgets,
                CalRestored
  <2> QED BY <1>0, <2>1, JobsAfter
<1>4. ASSUME NEW n \in Nodes, FirmwareStep(n)
      PROVE  UNCHANGED job
  BY <1>4 DEF FirmwareStep, FirmwareSetsEnd, FirmwareSetsStart, FirmwareTakesOver,
              NodeVanishes, NodeAppears
<1> QED BY <1>1, <1>2, <1>3, <1>4 DEF Next, Operators

(* What a single operator owes. *)
LEMMA SoleOwed ==
  ASSUME OneOperator, NEW a \in Operators
  PROVE  /\ Owed = {c.saved : c \in OnRecord} \cup
                   {t \in {job[a].cal.saved} : job[a].op = "lift"}
         /\ Owed' = {c.saved : c \in OnRecord'} \cup
                    {t \in {job'[a].cal.saved} : job'[a].op = "lift"}
<1>1. Operators = {a}
  BY DEF OneOperator
<1> QED BY <1>1 DEF Owed, Does

(* A start, or a save of the state, goes on or is given up. *)
LEMMA GoesOn ==
  ASSUME IInv, Next, ~ \E b \in Operators : CalStep(b),
         ~ \E b \in Actors : WriteStep(b),
         NEW a \in Operators, job[a].op \in {"lift", "saving"}
  PROVE  job'[a] = job[a] \/ GivenUp
<1>0. job \in [Actors -> Job] /\ a \in Actors /\ Daemon \in Actors /\ a # Daemon
  BY ActorsAssumption DEF IInv, TypeOK, Actors, Operators
<1>1. CASE DaemonTick \/ DaemonLifecycle
  <2>1. UNCHANGED job \/ \E j : Becomes(Daemon, j)
    BY <1>1 DEF DaemonTick, DaemonLifecycle, DaemonLoads, DaemonSatisfied,
                DaemonEnforces, EnforceDone, DaemonStop, DaemonEnds, DaemonCrash,
                DaemonStart
  <2> QED BY <1>0, <2>1, JobsAfter
<1>2. ASSUME NEW c \in Commands, CommandStep(c)
      PROVE  job'[a] = job[a] \/ GivenUp
  <2>1. c \in Actors /\ \E j : Becomes(c, j)
    BY <1>2 DEF CommandStep, CommandSetsLimit, CommandLimitDone, CommandLoads,
                CommandSaves, CommandDies, Actors, Operators
  <2>2. CASE c # a
    BY <1>0, <2>1, <2>2, JobsAfter
  <2>3. CASE c = a
    <3>1. CommandDies(a)
      BY <1>2, <2>3 DEF CommandStep, CommandSetsLimit, CommandLimitDone,
                        CommandLoads, CommandSaves, Does, Finished
    <3> QED BY <2>3, <3>1 DEF GivenUp
  <2> QED BY <2>2, <2>3
<1>3. ASSUME NEW d \in Dashboards, DashStep(d)
      PROVE  job'[a] = job[a] \/ GivenUp
  <2>1. d \in Actors /\ (UNCHANGED job \/ \E j : Becomes(d, j))
    BY <1>3 DEF DashStep, DashOpens, DashCloses, DashSavesOther, DashSetsLimit,
                DashLimitDone, DashElevates, DashElevatedDone, Actors, Operators
  <2>2. CASE d # a
    BY <1>0, <2>1, <2>2, JobsAfter
  <2>3. CASE d = a
    <3>1. DashOpens(a) \/ DashCloses(a)
      BY <1>3, <2>3 DEF DashStep, DashSavesOther, DashSetsLimit, DashLimitDone,
                        DashElevates, DashElevatedDone, Does, Finished
    <3> QED BY <2>3, <3>1 DEF GivenUp, DashOpens
  <2> QED BY <2>2, <2>3
<1>4. ASSUME NEW n \in Nodes, FirmwareStep(n)
      PROVE  job'[a] = job[a]
  BY <1>4 DEF FirmwareStep, FirmwareSetsEnd, FirmwareSetsStart, FirmwareTakesOver,
              NodeVanishes, NodeAppears
<1> QED BY <1>1, <1>2, <1>3, <1>4 DEF Next

LEMMA RestoreStep ==
  ASSUME OneOperator, QuietFirmware, IInv, CycleJobs, RestoreJobs, saved = Off, Next
  PROVE  RestoreJobs' /\ Restored
<1>0. /\ job \in [Actors -> Job] /\ Daemon \in Actors /\ Idle.op = "idle"
      /\ Operators \subseteq Actors
  BY OpsOfJobs DEF IInv, TypeOK, Actors
<1>1. job'[Daemon].op = "idle"
  BY DaemonStaysIdle DEF RestoreJobs
<1>2. present' = Nodes
  <2>1. CASE \E b \in Actors : WriteStep(b)
    BY <2>1, WriteStepJob DEF RestoreJobs
  <2>2. CASE ~ \E b \in Actors : WriteStep(b)
    BY <2>2, HardwareKept DEF RestoreJobs
  <2> QED BY <2>1, <2>2
<1>3. ASSUME NEW a \in Operators, CalStep(a)
      PROVE  /\ Restored
             /\ job'[a].op = "restore" =>
                  /\ calib' # NoCal /\ calib'.saved # Unknown
                  /\ job'[a].value = Clamp(calib'.saved)
                  /\ job'[a].ok = FALSE
  <2>0. a \in Actors
    BY <1>0
  <2>a. /\ OnRecord = ({calib} \ {NoCal}) \cup
                      {c \in {job[a].cal} : job[a].op = "saving"}
        /\ OnRecord' = ({calib'} \ {NoCal}) \cup
                       {c \in {job'[a].cal} : job'[a].op = "saving"}
    BY SoleRecord
  <2>b. /\ Owed = {c.saved : c \in OnRecord} \cup
                  {t \in {job[a].cal.saved} : job[a].op = "lift"}
        /\ Owed' = {c.saved : c \in OnRecord'} \cup
                   {t \in {job'[a].cal.saved} : job'[a].op = "lift"}
    BY SoleOwed
  <2>c. job[a].op \in {"saving", "lift"} => calib = NoCal
    BY DEF CycleJobs
  <2>d. ASSUME UNCHANGED calib, job[a].op \notin {"saving", "lift"}
        PROVE  Restored
    <3>1. OnRecord \subseteq OnRecord'
      BY <2>a, <2>d
    <3>2. Owed \subseteq Owed'
      BY <2>b, <2>d, <3>1
    <3> QED BY <3>2 DEF Restored
  <2>1. CASE CalStart(a)
    <3>1. PICK cal : Becomes(a, WriteJob("lift", 100, cal)) /\ UNCHANGED calib
      BY <2>1 DEF CalStart
    <3>2. job'[a].op = "lift"
      BY <1>0, <2>0, <3>1, JobsAfter, OpsOfJobs
    <3>3. job[a].op = "idle"
      BY <2>1 DEF CalStart, Calibrates, Does
    <3> QED BY <2>d, <3>1, <3>2, <3>3
  <2>2. CASE CalTruncates(a)
    <3>1. job[a].op \in {"lift", "status"}
      BY <2>2 DEF CalTruncates, Finished, Does
    <3>2. job'[a].op = "saving" /\ job'[a].cal = job[a].cal
      <4>1. job'[a] = [Idle EXCEPT !.op = "saving", !.cal = job[a].cal]
        BY <1>0, <2>0, <2>2, JobsAfter DEF CalTruncates
      <4> QED BY <4>1, OpsOfJobs
    <3>3. job[a].cal.saved \in Owed'
      <4>1. job[a].cal \in OnRecord'
        BY <2>a, <3>2
      <4> QED BY <2>b, <4>1
    <3>4. \A t \in Owed : t = job[a].cal.saved
      <4>1. CASE job[a].op = "lift"
        BY <2>a, <2>b, <2>c, <4>1
      <4>2. CASE job[a].op = "status"
        <5>1. job[a].cal.saved = calib.saved
          BY <4>2 DEF CycleJobs
        <5> QED BY <2>a, <2>b, <4>2, <5>1
      <4> QED BY <3>1, <4>1, <4>2
    <3> QED BY <3>2, <3>3, <3>4 DEF Restored
  <2>3. CASE CalWrites(a)
    <3>1. job'[a] = Idle /\ calib' = job[a].cal /\ job[a].op = "saving"
      BY <1>0, <2>0, <2>3, JobsAfter DEF CalWrites, Does
    <3>2. job[a].cal # NoCal
      BY <2>0, <3>1, NoCalAssumption DEF IInv, ClampedJobs
    <3>3. OnRecord \subseteq OnRecord'
      BY <2>a, <2>c, <3>1, <3>2
    <3>4. Owed \subseteq Owed'
      BY <2>b, <3>1, <3>3
    <3> QED BY <1>0, <3>1, <3>4 DEF Restored
  <2>4. CASE CalFails(a)
    <3>1. /\ job'[a] = Idle /\ UNCHANGED calib /\ job[a].op \in {"lift", "status"}
      BY <1>0, <2>0, <2>4, JobsAfter DEF CalFails, Finished, Does
    <3>2. CASE job[a].op = "lift"
      <4>1. GivenUp
        BY <2>4, <3>2 DEF GivenUp
      <4> QED BY <1>0, <3>1, <4>1 DEF Restored
    <3>3. CASE job[a].op = "status"
      BY <1>0, <2>d, <3>1, <3>3
    <3> QED BY <3>1, <3>2, <3>3
  <2>5. CASE CalWriteFails(a)
    <3>1. job'[a] = Idle
      BY <1>0, <2>0, <2>5, JobsAfter DEF CalWriteFails
    <3>2. GivenUp
      BY <2>5 DEF GivenUp, CalWriteFails, Does
    <3> QED BY <1>0, <3>1, <3>2 DEF Restored
  <2>6. CASE CalStatus(a)
    <3>1. PICK cal : Becomes(a, [Idle EXCEPT !.op = "status", !.cal = cal])
                     /\ UNCHANGED calib
      BY <2>6 DEF CalStatus
    <3>2. job'[a].op = "status"
      <4>1. job'[a] = [Idle EXCEPT !.op = "status", !.cal = cal]
        BY <1>0, <2>0, <3>1, JobsAfter
      <4> QED BY <4>1, OpsOfJobs
    <3>3. job[a].op = "idle"
      BY <2>6 DEF CalStatus, Calibrates, Does
    <3> QED BY <2>d, <3>1, <3>2, <3>3
  <2>7. CASE CalRestores(a)
    <3>1. job'[a] = WriteJob("restore", calib.saved, NoCal)
      BY <1>0, <2>0, <2>7, JobsAfter DEF CalRestores
    <3>2. UNCHANGED calib /\ calib # NoCal /\ calib.saved # Unknown
      BY <2>7 DEF CalRestores
    <3>3. job[a].op = "idle"
      BY <2>7 DEF CalRestores, Calibrates, Does
    <3> QED BY <2>d, <3>1, <3>2, <3>3, OpsOfJobs
  <2>8. CASE CalForgets(a)
    <3>1. job[a].op = "idle" /\ job'[a].op = "idle" /\ calib.saved = Unknown
      BY <2>8 DEF CalForgets, Calibrates, Does
    <3>2. \A t \in Owed : t = Unknown
      BY <2>a, <2>b, <3>1
    <3> QED BY <3>1, <3>2 DEF Restored
  <2>9. CASE CalRestored(a)
    <3>1. /\ job'[a] = Idle /\ job[a].op = "restore" /\ job[a].todo = {}
          /\ calib' = calib \/ job[a].ok
      BY <1>0, <2>0, <2>9, JobsAfter DEF CalRestored, Finished
    <3>2. CASE calib' = calib
      BY <1>0, <2>d, <3>1, <3>2
    <3>3. CASE job[a].ok
      <4>1. \E n \in present : end[n] = Clamp(calib.saved)
        BY <3>1, <3>3 DEF RestoreJobs
      <4>2. \A t \in Owed : t = calib.saved
        BY <2>a, <2>b, <3>1
      <4> QED BY <1>0, <3>1, <4>1, <4>2 DEF Restored
    <3> QED BY <3>1, <3>2, <3>3
  <2> QED BY <1>3, <2>1, <2>2, <2>3, <2>4, <2>5, <2>6, <2>7, <2>8, <2>9 DEF CalStep
<1>4. ASSUME ~ \E b \in Operators : CalStep(b)
      PROVE  /\ Restored
             /\ \A a \in Operators :
                  job'[a].op = "restore" =>
                    /\ calib' # NoCal /\ calib'.saved # Unknown
                    /\ job'[a].value = Clamp(calib'.saved)
                    /\ job'[a].ok => \E n \in Nodes \ job'[a].todo :
                                       end'[n] = job'[a].value
  <2>1. UNCHANGED calib
    BY <1>4, CalibKept
  <2>2. ASSUME NEW a \in Operators, job'[a].op = "restore", NEW b \in Actors, WriteStep(b)
        PROVE  /\ calib # NoCal /\ calib.saved # Unknown
               /\ job'[a].value = Clamp(calib.saved)
               /\ job'[a].ok => \E n \in Nodes \ job'[a].todo :
                                  end'[n] = job'[a].value
    <3>1. b # Daemon
      BY <2>2, WriteStepJob DEF RestoreJobs, Writing
    <3>2. b = a
      BY <3>1 DEF Actors, OneOperator
    <3>3. PICK n \in Nodes, landed \in BOOLEAN :
            /\ n \in job[a].todo
            /\ job'[a].op = job[a].op /\ job'[a].value = job[a].value
            /\ job'[a].todo = job[a].todo \ {n}
            /\ job'[a].ok = (job[a].ok \/ landed)
            /\ landed => end' = [end EXCEPT ![n] = job[a].value]
            /\ \A m \in Nodes \ {n} : end'[m] = end[m]
      BY <2>2, <3>2, WriteStepJob
    <3>4. /\ calib # NoCal /\ calib.saved # Unknown
          /\ job[a].value = Clamp(calib.saved)
          /\ job[a].ok => \E m \in Nodes \ job[a].todo : end[m] = job[a].value
      BY <2>2, <3>3 DEF RestoreJobs
    <3>5. CASE landed
      <4>1. end'[n] = job[a].value /\ n \in Nodes \ job'[a].todo
        BY <3>3, <3>5 DEF IInv, TypeOK
      <4> QED BY <3>3, <3>4, <4>1
    <3>6. CASE ~ landed
      BY <3>3, <3>4, <3>6
    <3> QED BY <3>5, <3>6
  <2>3. ASSUME NEW a \in Operators, job'[a].op = "restore",
               ~ \E b \in Actors : WriteStep(b)
        PROVE  /\ calib # NoCal /\ calib.saved # Unknown
               /\ job'[a].value = Clamp(calib.saved)
               /\ job'[a].ok => \E n \in Nodes \ job'[a].todo :
                                  end'[n] = job'[a].value
    <3>1. job'[a] = job[a]
      BY <1>4, <2>3, CalOpsKept DEF CalOps
    <3>2. UNCHANGED end
      BY <2>3, HardwareKept DEF RestoreJobs
    <3> QED BY <2>3, <3>1, <3>2 DEF RestoreJobs
  <2>4. Restored
    <3>1. ASSUME NEW a \in Operators, job[a].op \in {"lift", "saving"}
          PROVE  GivenUp \/ (job'[a].op = job[a].op /\ job'[a].cal = job[a].cal)
      <4>1. CASE \E b \in Actors : WriteStep(b)
        BY <1>0, <4>1, WriteStepJob
      <4>2. CASE ~ \E b \in Actors : WriteStep(b)
        BY <1>4, <3>1, <4>2, GoesOn
      <4> QED BY <4>1, <4>2
    <3>2. GivenUp \/ OnRecord \subseteq OnRecord'
      BY <2>1, <3>1 DEF OnRecord, Does
    <3>3. GivenUp \/ Owed \subseteq Owed'
      BY <3>1, <3>2 DEF Owed, Does
    <3> QED BY <3>3 DEF Restored
  <2> QED BY <2>1, <2>2, <2>3, <2>4
<1>5. CASE \E b \in Operators : CalStep(b)
  <2>1. \A a \in Operators : CalStep(a)
    BY <1>5 DEF OneOperator
  <2>2. Restored
    BY <1>3, <1>5
  <2> QED BY <1>1, <1>2, <1>3, <2>1, <2>2 DEF RestoreJobs
<1>6. CASE ~ \E b \in Operators : CalStep(b)
  BY <1>1, <1>2, <1>4, <1>6 DEF RestoreJobs
<1> QED BY <1>5, <1>6

(* One operator calibrates while no limit is saved and no firmware touches the
   thresholds: the threshold found by the start is forgotten only when a battery
   has it back, however many other batteries refused the write or noticed none
   of it (calibrate.rs:141-150), or where a start, or a save between its
   truncation and its write, fails or dies (calibrate.rs:51-57,101-112). *)
THEOREM RestoredHolds ==
  ASSUME OneOperator, QuietFirmware
  PROVE  Spec /\ [](saved = Off) => FinishedMeansRestored
<1>1. Init => CycleJobs /\ RestoreJobs
  BY OpsOfJobs DEF Init, CycleJobs, RestoreJobs, Actors
<1>2. IInv /\ CycleJobs /\ RestoreJobs /\ saved = Off /\ [Next]_vars =>
        CycleJobs' /\ RestoreJobs' /\ [Restored]_vars
  <2>1. IInv /\ CycleJobs /\ RestoreJobs /\ saved = Off /\ Next =>
          CycleJobs' /\ RestoreJobs' /\ Restored
    BY CycleStep, RestoreStep
  <2>2. CycleJobs /\ RestoreJobs /\ UNCHANGED vars => CycleJobs' /\ RestoreJobs'
    BY DEF vars, hardware, CycleJobs, RestoreJobs
  <2> QED BY <2>1, <2>2
<1> QED BY <1>1, <1>2, Invariance, PTL
        DEF Spec, FinishedMeansRestored, Restored

-----------------------------------------------------------------------------
(* What the daemon leaves alone while no limit is saved.                   *)

DaemonRests == job[Daemon].op = "idle"

(* Without a saved limit the daemon begins no write: the safety core of
   OffQuiesces, for any operators, firmware and batteries
   (daemon.rs:416-455). *)
THEOREM OffWritesNothing == Spec /\ [](saved = Off) => []DaemonRests
<1>1. Init => DaemonRests
  BY OpsOfJobs DEF Init, Actors, DaemonRests
<1>2. IInv /\ saved = Off /\ DaemonRests /\ [Next]_vars => DaemonRests'
  <2> SUFFICES ASSUME IInv, saved = Off, DaemonRests, [Next]_vars
               PROVE  DaemonRests'
    OBVIOUS
  <2>1. CASE Next
    BY <2>1, DaemonStaysIdle DEF DaemonRests
  <2>2. CASE UNCHANGED vars
    BY <2>2 DEF vars, DaemonRests
  <2> QED BY <2>1, <2>2
<1> QED BY <1>1, <1>2, Invariance, PTL DEF Spec

(* What changes a threshold is a write of somebody's job, or the world. *)
LEMMA EndChanges ==
  ASSUME IInv, Next, Meddled = {}, NEW n \in Nodes, end'[n] # end[n], end'[n] # 100
  PROVE  \E b \in Actors : WriteStep(b)
<1>0. end \in [Nodes -> Percent]
  BY DEF IInv, TypeOK
<1> SUFFICES ASSUME ~ \E b \in Actors : WriteStep(b) PROVE FALSE
  OBVIOUS
<1>1. ~ (DaemonTick \/ DaemonLifecycle)
  BY DEF DaemonTick, DaemonLifecycle, DaemonLoads, DaemonSatisfied,
         DaemonEnforces, EnforceDone, DaemonStop, DaemonEnds, DaemonCrash,
         DaemonStart, hardware
<1>2. \A b : ~ (CommandStep(b) \/ DashStep(b))
  BY DEF CommandStep, CommandSetsLimit, CommandLimitDone, CommandLoads,
         CommandSaves, CommandDies, DashStep, DashOpens, DashCloses,
         DashSavesOther, DashSetsLimit, DashLimitDone, DashElevates,
         DashElevatedDone, hardware
<1>3. \A b : ~ CalStep(b)
  BY DEF CalStep, CalStart, CalStatus, CalTruncates, CalWrites, CalFails,
         CalWriteFails, CalRestores, CalForgets, CalRestored, hardware
<1>4. PICK m \in Nodes : FirmwareStep(m)
  BY <1>1, <1>2, <1>3 DEF Next
<1>5. NodeAppears(m)
  BY <1>4 DEF FirmwareStep, FirmwareSetsEnd, FirmwareSetsStart, FirmwareTakesOver,
              NodeVanishes
<1> QED BY <1>0, <1>5 DEF NodeAppears

Lifts ==
  \A n \in Nodes :
    calib # NoCal /\ end[n] = 100 /\ end'[n] # 100 =>
      \E a \in Operators : job[a].op \in {"limit", "elevated", "restore"}

(* Where no limit is saved a calibration of one operator keeps every battery
   lifted until somebody sets a threshold or the calibration ends, also where
   batteries come and go: the promise of calibrate.rs:6-9, which a saved limit
   breaks because the daemon re-asserts it. *)
THEOREM LiftedWithoutLimit ==
  ASSUME OneOperator, Meddled = {}
  PROVE  Spec /\ [](saved = Off) => CeilingStaysLifted
<1>1. Init => CycleJobs
  BY OpsOfJobs DEF Init, CycleJobs, Actors
<1>2. IInv /\ CycleJobs /\ [Next]_vars => CycleJobs'
  <2>1. CycleJobs /\ UNCHANGED vars => CycleJobs'
    BY DEF vars, CycleJobs
  <2> QED BY <2>1, CycleStep
<1>3. IInv /\ CycleJobs /\ DaemonRests /\ [Next]_vars => [Lifts]_vars
  <2> SUFFICES ASSUME IInv, CycleJobs, DaemonRests, Next,
                      NEW n \in Nodes, calib # NoCal, end[n] = 100, end'[n] # 100
               PROVE  \E a \in Operators : job[a].op \in {"limit", "elevated", "restore"}
    BY DEF Lifts
  <2>1. PICK b \in Actors : WriteStep(b)
    BY EndChanges
  <2>2. job[b].op \in Writing
    BY <2>1, WriteStepJob
  <2>3. b \in Operators
    BY <2>2 DEF Actors, Writing, DaemonRests
  <2>4. job[b].op # "lift"
    BY <2>3 DEF CycleJobs
  <2>5. job[b].op # "enforce"
    BY <2>3 DEF CycleJobs
  <2> QED BY <2>2, <2>3, <2>4, <2>5 DEF Writing
<1> QED BY <1>1, <1>2, <1>3, Invariance, OffWritesNothing, PTL
        DEF Spec, CeilingStaysLifted, Lifts


-----------------------------------------------------------------------------
(* A ceiling, once in place: the safety half of SavedLimitBinds, for every  *)
(* battery.                                                                *)

(* What a job has read and is about to write is the limit. *)
AimsAt(j, l) ==
  j.op = "check" \/ (j.op \in Writing /\ j.todo # {}) => j.value = l

(* Nobody is about to write anything else. *)
Aims(l) == \A a \in Actors : AimsAt(job[a], l)

AllBind(l) == \A n \in present : Binds(n, l)

(* The pass of the daemon over the nodes, so far. *)
PassBinds(l) ==
  job[Daemon].op = "enforce" =>
    \A n \in present \ job[Daemon].todo : Binds(n, l)

LEMMA NewJobAims ==
  ASSUME NEW l \in Limits
  PROVE  /\ AimsAt(Idle, l)
         /\ \A op : AimsAt(WriteJob(op, l, NoCal), l)
         /\ AimsAt([Idle EXCEPT !.op = "check", !.value = l], l)
         /\ \A v : AimsAt([Idle EXCEPT !.op = "resave", !.value = v], l)
         /\ AimsAt([Idle EXCEPT !.op = "limit"], l)
         /\ AimsAt([Idle EXCEPT !.op = "elevated", !.ok = TRUE], l)
         /\ \A cal : /\ AimsAt([Idle EXCEPT !.op = "status", !.cal = cal], l)
                     /\ AimsAt([Idle EXCEPT !.op = "saving", !.cal = cal], l)
<1>1. Clamp(l) = l
  BY LimitsArePercents
<1>2. \A op : AimsAt(WriteJob(op, l, NoCal), l)
  BY <1>1 DEF AimsAt, WriteJob
<1> QED BY <1>2 DEF AimsAt, Idle, Writing

LEMMA AimsAfter ==
  ASSUME NEW l, Aims(l), job \in [Actors -> Job], NEW a \in Actors, NEW j,
         AimsAt(j, l), Becomes(a, j)
  PROVE  Aims(l)'
<1>1. \A b \in Actors : job'[b] = j \/ job'[b] = job[b]
  BY JobsAfter
<1>2. \A b \in Actors : AimsAt(job'[b], l)
  BY <1>1 DEF Aims
<1> QED BY <1>2 DEF Aims, AimsAt

(* A write nobody interferes with lands: on the value of its job. *)
LEMMA WriteLands ==
  ASSUME IInv, NEW l \in Limits, Aims(l), NEW a \in Actors,
         WriteStep(a), ~ Interference
  PROVE  /\ UNCHANGED <<saved, present>>
         /\ \E n \in job[a].todo :
              /\ end' = [end EXCEPT ![n] = l]
              /\ custom' = [custom EXCEPT ![n] = TRUE]
              /\ Becomes(a, [job[a] EXCEPT !.todo = @ \ {n}, !.ok = TRUE])
<1>0. job \in [Actors -> Job]
  BY DEF IInv, TypeOK
<1>1. WriteNode(a)
  BY DEF WriteStep, Interference
<1>2. PICK n \in Nodes :
        /\ job[a].op \in Writing /\ n \in job[a].todo
        /\ custom' = [custom EXCEPT ![n] = TRUE]
        /\ end' = [end EXCEPT ![n] = job[a].value]
        /\ NodeDone(a, n, TRUE)
        /\ UNCHANGED <<saved, present>>
  BY <1>1 DEF WriteNode, IsFirst
<1>3. job[a].value = l
  BY <1>2 DEF Aims, AimsAt
<1>4. Becomes(a, [job[a] EXCEPT !.todo = @ \ {n}, !.ok = TRUE])
  BY <1>0, <1>2 DEF NodeDone, Becomes, Job
<1> QED BY <1>2, <1>3, <1>4

(* Without interference the other steps leave nodes and thresholds alone. *)
LEMMA NodesKept ==
  ASSUME Next, ~ Interference, ~ \E a \in Actors : WriteStep(a)
  PROVE  UNCHANGED <<present, end, custom>>
<1>1. CASE DaemonTick \/ DaemonLifecycle
  BY <1>1 DEF DaemonTick, DaemonLifecycle, DaemonLoads, DaemonSatisfied,
         DaemonEnforces, EnforceDone, DaemonStop, DaemonEnds, DaemonCrash,
         DaemonStart, hardware
<1>2. ASSUME NEW b \in Operators, CommandStep(b) \/ DashStep(b)
      PROVE  UNCHANGED <<present, end, custom>>
  BY <1>2 DEF CommandStep, CommandSetsLimit, CommandLimitDone, CommandLoads,
         CommandSaves, CommandDies, DashStep, DashOpens, DashCloses,
         DashSavesOther, DashSetsLimit, DashLimitDone, DashElevates,
         DashElevatedDone, hardware
<1>3. ASSUME NEW b \in Operators, CalStep(b)
      PROVE  UNCHANGED <<present, end, custom>>
  BY <1>3 DEF CalStep, CalStart, CalStatus, CalTruncates, CalWrites, CalFails,
         CalWriteFails, CalRestores, CalForgets, CalRestored, hardware
<1>4. ~ \E n \in Nodes : FirmwareStep(n)
  BY DEF Interference
<1> QED BY <1>1, <1>2, <1>3, <1>4 DEF Next, Operators

LEMMA AimsStep ==
  ASSUME IInv, NEW l \in Limits, saved = l, saved' = l, Aims(l),
         Next, ~ Interference
  PROVE  Aims(l)'
<1>0. /\ job \in [Actors -> Job] /\ Daemon \in Actors
      /\ Operators \subseteq Actors /\ Commands \cup Dashboards = Operators
      /\ l # Off
  BY LimitsAssumption, ActorsAssumption DEF IInv, TypeOK, Actors, Operators
<1>1. ASSUME NEW a \in Actors, WriteStep(a)
      PROVE  Aims(l)'
  <2>1. PICK n \in job[a].todo :
          Becomes(a, [job[a] EXCEPT !.todo = @ \ {n}, !.ok = TRUE])
    BY <1>1, WriteLands
  <2>2. job[a].op \in Writing
    BY <1>1, WriteStepJob
  <2>3. AimsAt([job[a] EXCEPT !.todo = @ \ {n}, !.ok = TRUE], l)
    BY <1>0, <2>1, <2>2 DEF Aims, AimsAt, Job
  <2> QED BY <1>0, <2>1, <2>3, AimsAfter
<1>2. CASE DaemonTick
  <2>1. CASE DaemonLoads
    BY <1>0, <2>1, NewJobAims, AimsAfter DEF DaemonLoads
  <2>2. CASE DaemonEnforces
    <3>1. job[Daemon].value = l
      BY <1>0, <2>2 DEF DaemonEnforces, Does, Aims, AimsAt
    <3> QED BY <1>0, <2>2, <3>1, NewJobAims, AimsAfter DEF DaemonEnforces
  <2>3. CASE DaemonSatisfied \/ EnforceDone
    BY <1>0, <2>3, NewJobAims, AimsAfter DEF DaemonSatisfied, EnforceDone
  <2> QED BY <1>2, <2>1, <2>2, <2>3 DEF DaemonTick
<1>3. CASE DaemonLifecycle
  <2>1. UNCHANGED job \/ Becomes(Daemon, Idle)
    BY <1>3 DEF DaemonLifecycle, DaemonStop, DaemonEnds, DaemonCrash, DaemonStart
  <2> QED BY <1>0, <2>1, NewJobAims, AimsAfter DEF Aims, AimsAt
<1>4. ASSUME NEW c \in Commands, CommandStep(c)
      PROVE  Aims(l)'
  <2>0. c \in Actors
    BY <1>0
  <2>1. ASSUME NEW k \in Limits \cup {Off}, CommandSetsLimit(c, k)
        PROVE  Aims(l)'
    <3>1. k = l /\ Becomes(c, WriteJob("limit", l, NoCal))
      BY <1>0, <2>1 DEF CommandSetsLimit
    <3> QED BY <1>0, <2>0, <3>1, NewJobAims, AimsAfter
  <2>2. CASE CommandLoads(c)
    BY <1>0, <2>0, <2>2, NewJobAims, AimsAfter DEF CommandLoads
  <2>3. CASE CommandLimitDone(c) \/ CommandSaves(c) \/ CommandDies(c)
    BY <1>0, <2>0, <2>3, NewJobAims, AimsAfter
       DEF CommandLimitDone, CommandSaves, CommandDies
  <2> QED BY <1>4, <2>1, <2>2, <2>3 DEF CommandStep
<1>5. ASSUME NEW d \in Dashboards, DashStep(d)
      PROVE  Aims(l)'
  <2>0. d \in Actors
    BY <1>0
  <2>1. ASSUME NEW k \in Limits \cup {Off}, DashSetsLimit(d, k)
        PROVE  Aims(l)'
    <3>1. CASE k = Off
      <4>1. Becomes(d, Idle) \/ Becomes(d, [Idle EXCEPT !.op = "limit"])
        BY <2>1, <3>1 DEF DashSetsLimit
      <4> QED BY <1>0, <2>0, <4>1, NewJobAims, AimsAfter
    <3>2. CASE k # Off
      <4>1. k = l
        BY <2>1, <3>2 DEF Interference
      <4>2. Becomes(d, WriteJob("limit", l, NoCal))
        BY <2>1, <3>2, <4>1 DEF DashSetsLimit
      <4> QED BY <1>0, <2>0, <4>2, NewJobAims, AimsAfter
    <3> QED BY <3>1, <3>2
  <2>2. CASE DashOpens(d) \/ DashSavesOther(d)
    BY <2>2 DEF DashOpens, DashSavesOther, Aims, AimsAt
  <2>3. CASE DashCloses(d) \/ DashLimitDone(d) \/ DashElevatedDone(d)
    BY <1>0, <2>0, <2>3, NewJobAims, AimsAfter
       DEF DashCloses, DashLimitDone, DashElevatedDone
  <2>4. CASE DashElevates(d)
    <3>1. job[d].value = l
      BY <2>4 DEF DashElevates
    <3>2. Becomes(d, WriteJob("elevated", l, NoCal))
      BY <1>0, <2>4, <3>1 DEF DashElevates
    <3> QED BY <1>0, <2>0, <3>2, NewJobAims, AimsAfter
  <2> QED BY <1>5, <2>1, <2>2, <2>3, <2>4 DEF DashStep
<1>6. ASSUME NEW a \in Operators, CalStep(a)
      PROVE  Aims(l)'
  <2>0. a \in Actors
    BY <1>0
  <2>1. ~ CalStart(a) /\ ~ CalRestores(a)
    BY DEF Interference
  <2>2. CASE CalStatus(a)
    BY <1>0, <2>0, <2>2, NewJobAims, AimsAfter DEF CalStatus
  <2>3. CASE CalForgets(a)
    BY <2>3 DEF CalForgets, Aims, AimsAt
  <2>4. CASE CalWrites(a) \/ CalFails(a) \/ CalWriteFails(a) \/ CalRestored(a)
    BY <1>0, <2>0, <2>4, NewJobAims, AimsAfter
       DEF CalWrites, CalFails, CalWriteFails, CalRestored
  <2>5. CASE CalTruncates(a)
    BY <1>0, <2>0, <2>5, NewJobAims, AimsAfter DEF CalTruncates
  <2> QED BY <1>6, <2>1, <2>2, <2>3, <2>4, <2>5 DEF CalStep
<1>7. ~ \E n \in Nodes : FirmwareStep(n)
  BY DEF Interference
<1> QED BY <1>1, <1>2, <1>3, <1>4, <1>5, <1>6, <1>7 DEF Next

LEMMA AllBindStep ==
  ASSUME IInv, NEW l \in Limits, Aims(l), AllBind(l), Next, ~ Interference
  PROVE  AllBind(l)'
<1>0. end \in [Nodes -> Percent] /\ custom \in [Nodes -> BOOLEAN] /\ present \subseteq Nodes
  BY DEF IInv, TypeOK
<1>1. ASSUME NEW a \in Actors, WriteStep(a)
      PROVE  AllBind(l)'
  <2>1. PICK n \in job[a].todo :
          /\ end' = [end EXCEPT ![n] = l] /\ custom' = [custom EXCEPT ![n] = TRUE]
          /\ UNCHANGED present
    BY <1>1, WriteLands
  <2> QED BY <1>0, <2>1 DEF AllBind, Binds
<1>2. CASE ~ \E a \in Actors : WriteStep(a)
  BY <1>2, NodesKept DEF AllBind, Binds
<1> QED BY <1>1, <1>2

LEMMA PassStep ==
  ASSUME IInv, NEW l \in Limits, Aims(l), PassBinds(l), Next, ~ Interference
  PROVE  PassBinds(l)'
<1>0. /\ end \in [Nodes -> Percent] /\ custom \in [Nodes -> BOOLEAN]
      /\ present \subseteq Nodes
      /\ job \in [Actors -> Job] /\ Daemon \in Actors /\ Daemon \notin Operators
  BY ActorsAssumption DEF IInv, TypeOK, Actors, Operators
<1>1. ASSUME NEW a \in Actors, WriteStep(a)
      PROVE  PassBinds(l)'
  <2>1. PICK n \in job[a].todo :
          /\ end' = [end EXCEPT ![n] = l] /\ custom' = [custom EXCEPT ![n] = TRUE]
          /\ UNCHANGED present
          /\ Becomes(a, [job[a] EXCEPT !.todo = @ \ {n}, !.ok = TRUE])
    BY <1>1, WriteLands
  <2>2. /\ job'[Daemon].op = job[Daemon].op
        /\ job[Daemon].todo \subseteq job'[Daemon].todo \cup {n}
    <3>1. CASE a = Daemon
      <4>1. job'[Daemon] = [job[Daemon] EXCEPT !.todo = @ \ {n}, !.ok = TRUE]
        BY <1>0, <2>1, <3>1, JobsAfter
      <4> QED BY <1>0, <4>1 DEF Job
    <3>2. CASE a # Daemon
      BY <1>0, <2>1, <3>2, JobsAfter
    <3> QED BY <3>1, <3>2
  <2>3. \A m \in present : m = n \/ Binds(m, l) => end'[m] = l /\ custom'[m]
    BY <1>0, <2>1 DEF Binds
  <2> QED BY <2>1, <2>2, <2>3 DEF PassBinds, Binds
<1>2. ASSUME ~ \E a \in Actors : WriteStep(a)
      PROVE  PassBinds(l)'
  <2>1. UNCHANGED <<present, end, custom>>
    BY <1>2, NodesKept
  <2>2. \/ UNCHANGED job \/ job'[Daemon] = job[Daemon]
        \/ job'[Daemon].op # "enforce"
        \/ job'[Daemon].todo = present
    <3>1. CASE DaemonTick \/ DaemonLifecycle
      <4>1. \/ UNCHANGED job
            \/ Becomes(Daemon, Idle)
            \/ Becomes(Daemon, [Idle EXCEPT !.op = "check", !.value = saved])
            \/ Becomes(Daemon, WriteJob("enforce", job[Daemon].value, NoCal))
        BY <3>1 DEF DaemonTick, DaemonLifecycle, DaemonLoads, DaemonSatisfied,
               DaemonEnforces, EnforceDone, DaemonStop, DaemonEnds, DaemonCrash,
               DaemonStart
      <4>2. ASSUME NEW j, Becomes(Daemon, j)
            PROVE  job'[Daemon] = j
        BY <1>0, <4>2, JobsAfter
      <4>3. /\ Idle.op # "enforce"
            /\ [Idle EXCEPT !.op = "check", !.value = saved].op # "enforce"
            /\ WriteJob("enforce", job[Daemon].value, NoCal).todo = present
        BY OpsOfJobs
      <4> QED BY <4>1, <4>2, <4>3, Zenon
    <3>2. ASSUME NEW b \in Operators, CommandStep(b) \/ DashStep(b) \/ CalStep(b)
          PROVE  UNCHANGED job \/ job'[Daemon] = job[Daemon]
      <4>1. UNCHANGED job \/ \E j : Becomes(b, j)
        BY <3>2 DEF CommandStep, CommandSetsLimit, CommandLimitDone, CommandLoads,
               CommandSaves, CommandDies, DashStep, DashOpens, DashCloses,
               DashSavesOther, DashSetsLimit, DashLimitDone, DashElevates,
               DashElevatedDone, CalStep, CalStart, CalStatus, CalTruncates,
               CalWrites, CalFails, CalWriteFails, CalRestores, CalForgets,
               CalRestored
      <4>2. b \in Actors /\ b # Daemon
        BY <1>0 DEF Actors
      <4> QED BY <1>0, <4>1, <4>2, JobsAfter
    <3>3. ~ \E n \in Nodes : FirmwareStep(n)
      BY DEF Interference
    <3> QED BY <1>2, <3>1, <3>2, <3>3 DEF Next, Operators
  <2> QED BY <2>1, <2>2 DEF PassBinds, Binds
<1> QED BY <1>1, <1>2

LEMMA QuietLimit ==
  ASSUME NEW l \in Limits, IInv, saved = l, saved' = l, Aims(l),
         [Next /\ ~ Interference]_vars
  PROVE  /\ Aims(l)'
         /\ AllBind(l) => AllBind(l)'
         /\ PassBinds(l) => PassBinds(l)'
<1>1. CASE Next /\ ~ Interference
  BY <1>1, AimsStep, AllBindStep, PassStep
<1>2. CASE UNCHANGED vars
  BY <1>2 DEF vars, hardware, Aims, AimsAt, AllBind, PassBinds, Binds
<1> QED BY <1>1, <1>2

(* Every battery that has the saved limit as its ceiling, in a mode where it
   binds, keeps it as long as nobody interferes, whatever commands and
   dashboards do beside the daemon. *)
THEOREM LimitStays ==
  ASSUME NEW l \in Limits
  PROVE  Spec => [](Aims(l) /\ AllBind(l) /\ [](saved = l)
                      /\ [][~ Interference]_vars => []AllBind(l))
<1>1. IInv /\ saved = l /\ (saved = l)' /\ Aims(l) /\ AllBind(l)
        /\ [Next]_vars /\ [~ Interference]_vars => Aims(l)' /\ AllBind(l)'
  BY QuietLimit
<1> QED BY <1>1, Invariance, PTL DEF Spec

Arrives(l) == EnforceDone => AllBind(l)'

(* The first pass of the daemon that nobody interferes with leaves every
   battery with the saved limit as its ceiling, those it never looked at
   included, from whatever ceilings, starts and modes the firmware had set. *)
THEOREM LimitArrives ==
  ASSUME NEW l \in Limits
  PROVE  Spec => [](Aims(l) /\ ~ Does(Daemon, "enforce") /\ [](saved = l)
                      /\ [][~ Interference]_vars => [][Arrives(l)]_vars)
<1>1. IInv /\ saved = l /\ (saved = l)' /\ Aims(l) /\ PassBinds(l)
        /\ [Next]_vars /\ [~ Interference]_vars => Aims(l)' /\ PassBinds(l)'
  BY QuietLimit
<1>2. ~ Does(Daemon, "enforce") => PassBinds(l)
  BY DEF Does, PassBinds
<1>3. IInv /\ PassBinds(l) => Arrives(l)
  BY DEF PassBinds, Arrives, EnforceDone, Finished, AllBind, Binds, hardware
<1> QED BY <1>1, <1>2, <1>3, Invariance, PTL DEF Spec

===============================================================================
