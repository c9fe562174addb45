--------------------------- MODULE LifecycleProofs ---------------------------
(***************************************************************************)
(* Theorems of Lifecycle, for any daemons, profiles and faults.            *)
(***************************************************************************)
EXTENDS Lifecycle, TLAPS

(* An operation under way is at a step of its script, and one that is to apply
   a profile has one. *)
OnScript ==
  /\ job.op # "none" => job.step \in {"return"} \cup DOMAIN Script[job.op]
  /\ job.op \in ProfileOps /\ job.step # "return" => job.who \in Profiles

(* A pass of the ladder begins with the first pass or a tick. *)
LadderPlaces ==
  \A p \in Daemons :
    Applying(p, "ladder") => daemon[p].at \in {"passing", "running", "stopping"}

Quiet == \A p \in Daemons : ~ Applying(p, "ladder")

(* What `stop` has achieved at each of its steps. *)
StopProgress ==
  job.op = "stop" =>
    /\ job.step # "disable" => ~ file.enabled
    /\ job.step = "drain" =>
         \A p \in Daemons : Applying(p, "ladder") => daemon[p].at = "stopping"
    /\ job.step = "return" => Quiet

(* What a reported `stop` leaves behind, and that nothing is under way. *)
StopReported ==
  report = "stop" => job.op = "none" /\ ~ file.enabled /\ Quiet

IInv == TypeOK /\ OnScript /\ LadderPlaces /\ StopProgress /\ StopReported

-----------------------------------------------------------------------------
(* The scripts.                                                            *)

LEMMA OpsAre ==
  Ops = {"start", "stop", "profile", "install", "uninstall",
         "dashStart", "dashStop", "dashProfile", "adjust"}
  BY DEF Ops, Script

(* A step leads to a step of the same script, or returns. *)
LEMMA ScriptCloses ==
  \A op \in Ops : \A st \in DOMAIN Script[op] :
    Script[op][st] \in {"return"} \cup DOMAIN Script[op]
  BY OpsAre DEF Script

LEMMA StepsOf == \A op \in Ops : {"return"} \cup DOMAIN Script[op] \subseteq Steps
  BY DEF Steps

(* Each script begins somewhere. *)
LEMMA ScriptBegins ==
  \A op \in Ops : /\ "begin" \in DOMAIN Script[op]
                  /\ Script[op].begin \in DOMAIN Script[op]
  BY OpsAre DEF Script

(* The steps with a successor of their own. *)
LEMMA Branches ==
  \A op \in Ops :
    /\ "enable" \in DOMAIN Script[op] => "settle" \in DOMAIN Script[op]
    /\ "apply" \in DOMAIN Script[op] =>
         "record" \in DOMAIN Script[op] /\ op \in ProfileOps
  BY OpsAre DEF Script, ProfileOps

(* The script of `stop`, for StopProgress. *)
LEMMA StopScript ==
  /\ DOMAIN Script["stop"] =
       {"begin", "disable", "stopUnit", "await", "kill", "drain"}
  /\ Script["stop"]["begin"] = "disable"
  /\ Script["stop"]["disable"] = "stopUnit"
  /\ Script["stop"]["stopUnit"] = "await"
  /\ Script["stop"]["await"] = "kill"
  /\ Script["stop"]["kill"] = "drain"
  /\ Script["stop"]["drain"] = "return"
  BY DEF Script

(* What Proceed does to a job that is on its script. *)
LEMMA Proceeds ==
  ASSUME TypeOK, OnScript, NEW st, At(st), st # "return", Proceed
  PROVE  /\ job'.op = job.op
         /\ job'.step = Script[job.op][st]
         /\ job'.who = job.who
         /\ job'.todo = job.todo
         /\ st \in DOMAIN Script[job.op]
         /\ job' \in Jobs
         /\ OnScript'
  <1>1. job.op \in Ops /\ st \in DOMAIN Script[job.op] /\ job.step = st
    BY DEF TypeOK, Jobs, OnScript, At
  <1>2. Script[job.op][st] \in {"return"} \cup DOMAIN Script[job.op]
    BY <1>1, ScriptCloses
  <1>3. Script[job.op][st] \in Steps
    BY <1>1, <1>2, StepsOf
  <1>4. job' = [job EXCEPT !.step = Script[job.op][st]]
    BY <1>1 DEF Proceed, Goto
  <1> QED BY <1>1, <1>2, <1>3, <1>4 DEF TypeOK, OnScript, Jobs

-----------------------------------------------------------------------------
(* Daemons: a step that begins no pass of the ladder only lets it die out.  *)

Quieter ==
  \A p \in Daemons :
    Applying(p, "ladder")' =>
      Applying(p, "ladder") /\ daemon'[p].at \in {daemon[p].at, "stopping"}

LEMMA StatesOfDaemons ==
  /\ \A at \in Stations : Rest(at) \in DaemonStates
  /\ \A at \in Stations : Applies(at, "ladder") \in DaemonStates
  /\ \A at \in Stations : \A who \in Profiles : Applies(at, who) \in DaemonStates
  /\ "ladder" \notin Profiles
  /\ {"none", "starting", "acquired", "booting", "passing", "running", "stopping"}
       \subseteq Stations
  BY ProfilesAssumption
     DEF Rest, Applies, DaemonStates, Stations, Holding, Named

LEMMA SigtermQuiets ==
  ASSUME TypeOK, NEW S, Sigterm(S)
  PROVE  Quieter /\ daemon' \in [Daemons -> DaemonStates]
  <1>1. \A p \in Daemons :
          /\ daemon[p] \in DaemonStates
          /\ daemon'[p] \in {daemon[p], Terminated(daemon[p])}
    BY DEF TypeOK, Sigterm
  <1>2. \A d \in DaemonStates :
          /\ Terminated(d) \in DaemonStates
          /\ Terminated(d).at \in {"none", "stopping"}
          /\ Terminated(d).at = "none" => Terminated(d).todo = {}
          /\ Terminated(d).at = "stopping" =>
               Terminated(d).who = d.who /\ Terminated(d).todo = d.todo
    BY StatesOfDaemons DEF Terminated, Rest, DaemonStates
  <1>3. daemon' \in [Daemons -> DaemonStates]
    BY <1>1, <1>2 DEF Sigterm
  <1> QED BY <1>1, <1>2, <1>3 DEF Quieter, Applying

LEMMA MovesQuiet ==
  ASSUME TypeOK, NEW p \in Daemons, NEW d \in DaemonStates, Moves(p, d),
         d.todo = {} \/ d.who # "ladder"
  PROVE  Quieter /\ daemon' \in [Daemons -> DaemonStates]
  BY DEF TypeOK, Moves, Quieter, Applying

LEMMA WriteQuiets ==
  ASSUME TypeOK, NEW p \in Daemons, Write(p)
  PROVE  Quieter /\ daemon' \in [Daemons -> DaemonStates]
  <1>1. PICK k \in daemon[p].todo : Moves(p, Wrote(daemon[p], k))
    BY DEF Write
  <1>2. daemon[p] \in DaemonStates
    BY DEF TypeOK
  <1>3. /\ Wrote(daemon[p], k) \in DaemonStates
        /\ Wrote(daemon[p], k).at = daemon[p].at
        /\ \/ Wrote(daemon[p], k).todo = {}
           \/ Wrote(daemon[p], k).who = daemon[p].who
    BY <1>1, <1>2 DEF Wrote, Rest, DaemonStates
  <1> QED BY <1>1, <1>2, <1>3 DEF TypeOK, Moves, Quieter, Applying

(* What every step does to the daemons. *)
LEMMA DaemonsMove ==
  ASSUME TypeOK, Next
  PROVE  /\ daemon' \in [Daemons -> DaemonStates]
         /\ \/ Quieter
            \/ /\ file.enabled
               /\ \E p \in Daemons : FirstPass(p) \/ Tick(p)
  <1> DEFINE Typed == daemon' \in [Daemons -> DaemonStates]
  <1> USE StatesOfDaemons
  <1>1. CASE UNCHANGED daemon
    BY <1>1 DEF TypeOK, Quieter, Applying
  <1>2. CASE RestartUnit \/ StopUnit \/ Kill
    <2>1. UNCHANGED daemon \/ \E S : Sigterm(S)
      BY <1>2 DEF RestartUnit, StopUnit, Kill
    <2> QED BY <2>1, <1>1, SigtermQuiets
  <1>3. CASE \E p \in Detached : SettleSpawns(p)
    BY <1>3, MovesQuiet DEF SettleSpawns, Moves, Daemons, Rest
  <1>4. CASE UnitRespawns \/ UnitRestarted
    BY <1>4, MovesQuiet DEF UnitRespawns, UnitRestarted, UnitStarts, Daemons, Rest
  <1>5. CASE Reboot
    BY <1>5 DEF Reboot, Rest, Quieter, Applying
  <1>6. ASSUME NEW p \in Daemons, DaemonStep(p) \/ Tick(p) \/ Crash(p)
        PROVE  Typed /\ (Quieter \/ (file.enabled /\ (FirstPass(p) \/ Tick(p))))
    <2>1. CASE Acquire(p)
      BY <2>1, MovesQuiet DEF Acquire, Rest
    <2>2. CASE Refused(p) \/ EnterLoop(p) \/ Ends(p) \/ Crash(p)
      BY <2>2, MovesQuiet DEF Refused, EnterLoop, Ends, Crash, Rest
    <2>3. CASE Boots(p)
      <3>1. CASE file.profile = "none"
        BY <2>3, <3>1, MovesQuiet DEF Boots, Rest
      <3>2. CASE file.profile # "none"
        <4>1. file.profile \in Profiles
          BY <3>2 DEF TypeOK, Settings
        <4>2. Moves(p, Applies("booting", file.profile))
          BY <2>3, <3>2 DEF Boots
        <4>3. Applies("booting", file.profile).who # "ladder"
          BY <4>1 DEF Applies
        <4> QED BY <4>1, <4>2, <4>3, MovesQuiet
      <3> QED BY <3>1, <3>2
    <2>4. CASE FirstPass(p) \/ Tick(p)
      <3>1. PICK at \in Stations : Ladder(p, at)
        BY <2>4 DEF FirstPass, Tick, TypeOK, DaemonStates
      <3>2. CASE file.enabled
        BY <2>4, <3>1, <3>2 DEF Ladder, Moves, TypeOK
      <3>3. CASE ~ file.enabled
        BY <3>1, <3>3, MovesQuiet DEF Ladder, Rest
      <3> QED BY <3>2, <3>3
    <2>5. CASE Write(p)
      BY <2>5, WriteQuiets
    <2> QED BY <1>6, <2>1, <2>2, <2>3, <2>4, <2>5 DEF DaemonStep
  <1>7. CASE BeginAny \/ DashStep
    BY <1>1, <1>7 DEF BeginAny, Begin, DashStep, DashOpens, DashCloses, DashSavesOther
  <1>8. CASE \/ Enable \/ Disable \/ Await \/ Drain \/ SettleSeen
             \/ Apply \/ Record \/ Adjust \/ Install \/ Remove \/ Return
    BY <1>1, <1>8 DEF Enable, Disable, Await, Drain, SettleSeen,
                      Apply, Record, Adjust, Install, Remove, Return
  <1>9. CASE UnitStopped
    BY <1>1, <1>9 DEF UnitStopped
  <1> QED BY <1>2, <1>3, <1>4, <1>5, <1>6, <1>7, <1>8, <1>9
          DEF Next, OperatorStep, SystemdStep

-----------------------------------------------------------------------------
(* Types.                                                                  *)

LEMMA InitInvariant == Init => IInv
  <1> SUFFICES ASSUME Init PROVE IInv
    OBVIOUS
  <1>1. "return" \in Steps
    BY DEF Steps
  <1>2. NoJob \in Jobs
    BY <1>1 DEF NoJob, Jobs
  <1>3. \A p \in Daemons : daemon[p] = Rest("none")
    BY DEF Init
  <1>4. TypeOK
    BY <1>2, StatesOfDaemons DEF Init, TypeOK, Settings, Defaults, Writers
  <1> QED BY <1>3, <1>4 DEF Init, IInv, OnScript, LadderPlaces, StopProgress,
                           StopReported, NoJob, Applying, Rest

LEMMA SettingsUpdates ==
  \A s \in Settings :
    /\ \A b \in BOOLEAN : [s EXCEPT !.enabled = b] \in Settings
    /\ \A w \in Profiles \cup {"none"} : [s EXCEPT !.profile = w] \in Settings
  BY DEF Settings

LEMMA TypeStep ==
  ASSUME TypeOK, OnScript, Next
  PROVE  TypeOK' /\ OnScript'
  <1> DEFINE Others == /\ file' \in Settings /\ mem' \in Settings
                       /\ open' \in BOOLEAN /\ installed' \in BOOLEAN
                       /\ svc' \in {"inactive", "up", "stopping", "restarting"}
                       /\ knob' \in [Knobs -> Writers]
                       /\ report' \in Ops \cup {"none"}
             Job == job' \in Jobs /\ OnScript'
  <1>0. daemon' \in [Daemons -> DaemonStates]
    BY DaemonsMove
  <1>1. CASE BeginAny
    <2>1. PICK op \in Ops, who \in Profiles \cup {"none"} :
            Begin(op, who) /\ (op \in ProfileOps => who \in Profiles)
      BY <1>1, OpsAre DEF BeginAny, ProfileOps
    <2>2. Script[op].begin \in DOMAIN Script[op]
      BY ScriptBegins
    <2>3. Script[op].begin \in Steps
      BY <2>2, StepsOf
    <2>4. Job
      BY <2>1, <2>2, <2>3 DEF Begin, Jobs, OnScript
    <2>5. Others
      BY <2>1 DEF Begin, TypeOK
    <2> QED BY <1>0, <2>4, <2>5 DEF TypeOK
  <1>2. CASE Enable
    <2>1. Edited \in Settings
      BY DEF Edited, TypeOK
    <2>2. Others
      BY <1>2, <2>1, SettingsUpdates DEF Enable, Saves, TypeOK
    <2>3. job.op \in Ops /\ "enable" \in DOMAIN Script[job.op] /\ job.step = "enable"
      BY <1>2 DEF Enable, At, TypeOK, Jobs, OnScript
    <2>4. "settle" \in DOMAIN Script[job.op] /\ "settle" \in Steps
      BY <2>3, Branches, StepsOf
    <2>5. Job
      <3>1. CASE installed
        BY <1>2, <3>1, Proceeds DEF Enable
      <3>2. CASE ~ installed
        BY <1>2, <2>3, <2>4, <3>2 DEF Enable, Goto, TypeOK, Jobs, OnScript
      <3> QED BY <3>1, <3>2
    <2> QED BY <1>0, <2>2, <2>5 DEF TypeOK
  <1>3. CASE Disable
    <2>1. Edited \in Settings
      BY DEF Edited, TypeOK
    <2>2. Others
      BY <1>3, <2>1, SettingsUpdates DEF Disable, Saves, TypeOK
    <2>3. Job
      BY <1>3, Proceeds DEF Disable
    <2> QED BY <1>0, <2>2, <2>3 DEF TypeOK
  <1>4. CASE RestartUnit \/ StopUnit
    <2>1. Others
      BY <1>4 DEF RestartUnit, StopUnit, TypeOK
    <2>2. Job
      BY <1>4, Proceeds DEF RestartUnit, StopUnit
    <2> QED BY <1>0, <2>1, <2>2 DEF TypeOK
  <1>5. CASE Await \/ Kill \/ Drain \/ SettleSeen \/ \E p \in Detached : SettleSpawns(p)
    <2>1. Others
      BY <1>5 DEF Await, Kill, Drain, SettleSeen, SettleSpawns, TypeOK
    <2>2. Job
      BY <1>5, Proceeds DEF Await, Kill, Drain, SettleSeen, SettleSpawns
    <2> QED BY <1>0, <2>1, <2>2 DEF TypeOK
  <1>6. CASE Apply
    <2>1. job.op \in Ops /\ "apply" \in DOMAIN Script[job.op] /\ job.step = "apply"
      BY <1>6 DEF Apply, At, TypeOK, Jobs, OnScript
    <2>2. "record" \in DOMAIN Script[job.op] /\ "record" \in Steps
      BY <2>1, Branches, StepsOf
    <2>3. PICK k \in job.todo :
            /\ knob' = [knob EXCEPT ![k] = job.who]
            /\ job' = [job EXCEPT !.todo = @ \ {k},
                                  !.step = IF job.todo = {k} THEN "record" ELSE @]
      BY <1>6 DEF Apply
    <2>4. Job
      BY <2>1, <2>2, <2>3 DEF TypeOK, Jobs, OnScript
    <2>5. job.who \in Writers
      BY <2>1, Branches DEF OnScript, Writers
    <2>6. Others
      BY <1>6, <2>3, <2>5 DEF Apply, TypeOK, Jobs
    <2> QED BY <1>0, <2>4, <2>6 DEF TypeOK
  <1>7. CASE Record
    <2>1. Edited \in Settings
      BY DEF Edited, TypeOK
    <2>2. job.who \in Profiles \cup {"none"}
      BY DEF TypeOK, Jobs
    <2>3. Others
      BY <1>7, <2>1, <2>2, SettingsUpdates DEF Record, Saves, TypeOK
    <2>4. "return" \in Steps
      BY DEF Steps
    <2>5. Job
      BY <1>7, <2>4 DEF Record, TypeOK, Jobs, OnScript
    <2> QED BY <1>0, <2>3, <2>5 DEF TypeOK
  <1>8. CASE Adjust \/ Install \/ Remove
    <2>1. Others
      BY <1>8 DEF Adjust, Install, Remove, TypeOK, Writers
    <2>2. Job
      BY <1>8, Proceeds DEF Adjust, Install, Remove
    <2> QED BY <1>0, <2>1, <2>2 DEF TypeOK
  <1>9. NoJob \in Jobs
    BY DEF NoJob, Jobs, Steps
  <1>10. CASE Return
    <2>1. Others
      BY <1>10 DEF Return, TypeOK, Jobs
    <2>2. Job
      BY <1>9, <1>10 DEF Return, OnScript, NoJob
    <2> QED BY <1>0, <2>1, <2>2 DEF TypeOK
  <1>11. CASE Reboot
    <2>1. Others
      BY <1>11 DEF Reboot, TypeOK, Settings, Defaults, Writers
    <2>2. Job
      BY <1>9, <1>11 DEF Reboot, OnScript, NoJob
    <2> QED BY <1>0, <2>1, <2>2 DEF TypeOK
  <1>12. CASE DashStep
    <2>1. Defaults \in Settings
      BY DEF Defaults, Settings
    <2>2. Others
      BY <1>12, <2>1 DEF DashStep, DashOpens, DashCloses, DashSavesOther, TypeOK
    <2>3. UNCHANGED job
      BY <1>12 DEF DashStep, DashOpens, DashCloses, DashSavesOther
    <2> QED BY <1>0, <2>2, <2>3 DEF TypeOK, OnScript
  <1>13. CASE SystemdStep
    BY <1>0, <1>13
       DEF SystemdStep, UnitRespawns, UnitStopped, UnitRestarted, TypeOK, OnScript
  <1>14. ASSUME NEW p \in Daemons, Write(p)
         PROVE  TypeOK' /\ OnScript'
    <2>1. PICK k \in daemon[p].todo : knob' = [knob EXCEPT ![k] = daemon[p].who]
      BY <1>14 DEF Write
    <2>2. k \in Knobs /\ daemon[p].who \in Writers
      BY DEF TypeOK, DaemonStates, Writers
    <2> QED BY <1>0, <1>14, <2>1, <2>2 DEF Write, TypeOK, OnScript
  <1>15. ASSUME NEW p \in Daemons, DaemonStep(p) \/ Tick(p) \/ Crash(p), ~ Write(p)
         PROVE  TypeOK' /\ OnScript'
    BY <1>0, <1>15
       DEF DaemonStep, Acquire, Refused, Boots, FirstPass, EnterLoop, Ends, Tick,
           Crash, TypeOK, OnScript
  <1> QED BY <1>1, <1>2, <1>3, <1>4, <1>5, <1>6, <1>7, <1>8, <1>10, <1>11, <1>12,
             <1>13, <1>14, <1>15 DEF Next, OperatorStep

-----------------------------------------------------------------------------
(* The ladder after `stop`.                                                *)

LEMMA PlacesStep ==
  ASSUME TypeOK, LadderPlaces, Next
  PROVE  LadderPlaces'
  <1>1. CASE Quieter
    BY <1>1 DEF LadderPlaces, Quieter
  <1>2. ASSUME NEW p \in Daemons, FirstPass(p) \/ Tick(p)
        PROVE  LadderPlaces'
    <2>1. PICK at \in {"passing", "running", "stopping"} :
            daemon' = [daemon EXCEPT ![p] = IF file.enabled THEN Applies(at, "ladder")
                                                           ELSE Rest(at)]
      BY <1>2 DEF FirstPass, Tick, Ladder, Moves, Reached
    <2>2. daemon'[p].at = at
      BY <2>1 DEF TypeOK, Applies, Rest
    <2>3. \A q \in Daemons \ {p} : daemon'[q] = daemon[q]
      BY <2>1 DEF TypeOK
    <2> QED BY <2>2, <2>3 DEF LadderPlaces, Applying
  <1> QED BY <1>1, <1>2, DaemonsMove

(* A step of an operation keeps the operation and the last report, until it
   returns. *)
LEMMA OperationKept ==
  ASSUME TypeOK, OperatorStep, ~ Return
  PROVE  job.op # "none" /\ job'.op = job.op /\ report' = report
  BY DEF OperatorStep, Return, Enable, Disable, RestartUnit, StopUnit, Await, Kill,
         Drain, SettleSeen, SettleSpawns, Apply, Record, Adjust, Install, Remove,
         At, Proceed, Goto, TypeOK, Jobs

LEMMA StopStep ==
  ASSUME IInv, Next
  PROVE  StopProgress' /\ StopReported'
  <1> USE DEF IInv
  <1>1. ~ file.enabled => Quieter
    BY DaemonsMove
  <1>2. CASE UNCHANGED <<file, job, report>>
    BY <1>1, <1>2 DEF StopProgress, StopReported, Quiet, Quieter
  <1>3. CASE Reboot
    BY <1>3 DEF Reboot, NoJob, StopProgress, StopReported, Quiet, Applying, Rest
  <1>4. CASE BeginAny
    <2>1. PICK op \in Ops, who \in Profiles \cup {"none"} : Begin(op, who)
      BY <1>4, OpsAre DEF BeginAny, ProfileOps
    <2>2. job'.op = op /\ job'.step = Script[op].begin /\ report' = "none"
      BY <2>1 DEF Begin
    <2> QED BY <2>2, StopScript DEF StopProgress, StopReported
  <1>5. CASE DashSavesOther
    BY <1>5 DEF DashSavesOther, NoJob, StopProgress, StopReported
  <1>6. CASE Return
    <2>1. job' = NoJob /\ report' = job.op /\ UNCHANGED <<file, daemon>> /\ At("return")
      BY <1>6 DEF Return
    <2> QED BY <2>1 DEF At, NoJob, StopProgress, StopReported, Quiet, Applying
  <1>7. ASSUME OperatorStep, ~ Return
        PROVE  StopProgress' /\ StopReported'
    <2>1. job.op # "none" /\ job'.op = job.op /\ report' = report
      BY <1>7, OperationKept
    <2>2. StopReported'
      BY <2>1 DEF StopReported
    <2>3. CASE job.op # "stop"
      BY <2>1, <2>2, <2>3 DEF StopProgress
    <2>4. CASE job.op = "stop"
      <3>1. job.step \in {"disable", "stopUnit", "await", "kill", "drain"}
        <4>1. job.step \in {"return"} \cup DOMAIN Script["stop"]
          BY <2>4 DEF OnScript
        <4>2. job.step # "begin" /\ job.step # "return"
          BY <1>7 DEF OperatorStep, Return, Enable, Disable, RestartUnit, StopUnit,
                      Await, Kill, Drain, SettleSeen, SettleSpawns, Apply, Record,
                      Adjust, Install, Remove, At
        <4> QED BY <4>1, <4>2, StopScript
      <3>2. Disable \/ StopUnit \/ Await \/ Kill \/ Drain
        BY <1>7, <3>1 DEF OperatorStep, Return, Enable, RestartUnit, SettleSeen,
                          SettleSpawns, Apply, Record, Adjust, Install, Remove, At
      <3>3. CASE Disable
        <4>1. job'.step = "stopUnit"
          BY <2>4, <3>3, Proceeds, StopScript DEF Disable
        <4>2. ~ file'.enabled
          BY <3>3 DEF Disable, Saves, Edited, TypeOK, Settings
        <4> QED BY <2>2, <4>1, <4>2 DEF StopProgress
      <3>4. CASE StopUnit \/ Await
        <4>1. job'.step \in {"await", "kill"}
          BY <2>4, <3>4, Proceeds, StopScript DEF StopUnit, Await
        <4>2. UNCHANGED file /\ job.step \in {"stopUnit", "await"}
          BY <3>4 DEF StopUnit, Await, At
        <4> QED BY <2>2, <2>4, <4>1, <4>2 DEF StopProgress
      <3>5. CASE Kill
        <4>1. job'.step = "drain" /\ job.step = "kill" /\ UNCHANGED file
          BY <2>4, <3>5, Proceeds, StopScript DEF Kill, At
        <4>2. ASSUME NEW p \in Daemons, Applying(p, "ladder")'
              PROVE  daemon'[p].at = "stopping"
          <5>1. Sigterm({q \in Daemons : daemon[q].at \in Named})
            BY <3>5 DEF Kill
          <5>2. Applying(p, "ladder") /\ daemon'[p].at \in {daemon[p].at, "stopping"}
            BY <4>2, <5>1, SigtermQuiets DEF Quieter
          <5>3. daemon[p].at \in {"passing", "running", "stopping"}
            BY <5>2 DEF LadderPlaces
          <5>4. daemon'[p] = Terminated(daemon[p])
            BY <5>1, <5>3 DEF Sigterm, Named
          <5>5. daemon'[p].at \in {"none", "stopping"}
            BY <5>4 DEF Terminated, TypeOK, DaemonStates, Rest
          <5> QED BY <5>2, <5>3, <5>5
        <4> QED BY <2>2, <2>4, <4>1, <4>2 DEF StopProgress
      <3>6. CASE Drain
        <4>1. job'.step = "return" /\ job.step = "drain" /\ UNCHANGED <<file, daemon>>
          BY <2>4, <3>6, Proceeds, StopScript DEF Drain, At
        <4>2. \A p \in Holders : daemon[p].at # "stopping"
          BY <3>6 DEF Drain, Patience
        <4>3. Quiet
          BY <2>4, <4>1, <4>2 DEF StopProgress, Quiet, Holders, Holding, Named
        <4> QED BY <2>2, <2>4, <4>1, <4>3 DEF StopProgress, Quiet, Applying
      <3> QED BY <3>2, <3>3, <3>4, <3>5, <3>6
    <2> QED BY <2>3, <2>4
  <1>8. CASE DashOpens \/ DashCloses \/ SystemdStep
    BY <1>2, <1>8
       DEF DashOpens, DashCloses, SystemdStep, UnitRespawns, UnitStopped, UnitRestarted
  <1>9. ASSUME NEW p \in Daemons, DaemonStep(p) \/ Tick(p) \/ Crash(p)
        PROVE  UNCHANGED <<file, job, report>>
    BY <1>9 DEF DaemonStep, Acquire, Refused, Boots, FirstPass, EnterLoop, Write,
                Ends, Tick, Crash
  <1> QED BY <1>2, <1>3, <1>4, <1>5, <1>6, <1>7, <1>8, <1>9
          DEF Next, OperatorStep, DashStep

-----------------------------------------------------------------------------
(* Theorems.                                                               *)

LEMMA Invariant == Spec => []IInv
  <1>1. Init => IInv
    BY InitInvariant
  <1>2. IInv /\ [Next]_vars => IInv'
    <2> SUFFICES ASSUME IInv, [Next]_vars PROVE IInv'
      OBVIOUS
    <2>1. CASE Next
      BY <2>1, TypeStep, PlacesStep, StopStep DEF IInv
    <2>2. CASE UNCHANGED vars
      BY <2>2 DEF vars, IInv, TypeOK, OnScript, LadderPlaces, StopProgress,
                  StopReported, Quiet, Applying
    <2> QED BY <2>1, <2>2
  <1> QED BY <1>1, <1>2, PTL DEF Spec

(* Every variable keeps its type, whatever is interrupted where. *)
THEOREM TypeCorrect == Spec => []TypeOK
  <1>1. IInv => TypeOK
    BY DEF IInv
  <1> QED BY <1>1, Invariant, PTL

(* Once `stop` has reported, the ladder neither writes nor begins to, however
   many daemons are still around, crash, or come up again, until the operator
   does something else (main.rs:95-123). *)
THEOREM StoppedIsIdle == Spec => []StoppedMeansIdle
  <1>1. IInv => StoppedMeansIdle
    BY DEF IInv, StopReported, Quiet, StoppedMeansIdle
  <1> QED BY <1>1, Invariant, PTL

-----------------------------------------------------------------------------
(* The unit's daemon after a profile row of the dashboard.                 *)

(* A process that does not exist writes nothing. *)
Gone == \A p \in Daemons : daemon[p].at = "none" => daemon[p].todo = {}

(* Systemd runs a process only for a unit that is installed and not inactive. *)
UnitDown ==
  /\ ~ installed => svc = "inactive"
  /\ svc = "inactive" => daemon[Unit].at = "none"

(* An operation that stops the unit waits until it is down, and a restart is
   only asked for where there is a unit. *)
UnitProgress ==
  /\ job.op # "none" /\ job.step = "restart" => installed
  /\ job.op \in {"uninstall", "dashProfile"} =>
       /\ job.step = "await" => svc \in {"stopping", "inactive"}
       /\ job.step \in {"remove", "apply", "record", "return"} => svc = "inactive"

(* From its second step on a profile row keeps the ladder off, in the file and
   in the memory it will save again with the profile. *)
RowKeepsLadderOff ==
  job.op = "dashProfile" /\ job.step # "disable" =>
    ~ file.enabled /\ ~ mem.enabled

(* What a reported profile row leaves behind: the unit's daemon, when it comes
   up again, has nothing to write but the saved profile. *)
ProfileReported ==
  report = "dashProfile" =>
    /\ job.op = "none" /\ ~ file.enabled
    /\ daemon[Unit].todo # {} => daemon[Unit].who = file.profile

UnitInv ==
  Gone /\ UnitDown /\ UnitProgress /\ RowKeepsLadderOff /\ ProfileReported

LEMMA UnitInit == Init => UnitInv
  BY DEF Init, UnitInv, Gone, UnitDown, UnitProgress, RowKeepsLadderOff,
         ProfileReported, NoJob, Rest, Daemons

(* The scripts that stop the unit, and those that restart it. *)
LEMMA UnitScripts ==
  /\ \A op \in Ops : \A st \in DOMAIN Script[op] :
       Script[op][st] = "restart" => st \in {"enable", "install"}
  /\ \A op \in {"uninstall", "dashProfile"} : \A st \in DOMAIN Script[op] :
       /\ Script[op][st] = "await" => st = "stopUnit"
       /\ Script[op][st] \in {"apply", "remove"} => st = "await"
       /\ Script[op][st] = "record" => st = "apply"
       /\ Script[op][st] = "return" => st \in {"remove", "record"}
       /\ Script[op][st] # "restart"
       /\ Script[op].begin \in {"stopUnit", "disable"}
  /\ \A op \in Ops : Script[op].begin # "restart"
  /\ DOMAIN Script["dashProfile"] =
       {"begin", "disable", "kill", "stopUnit", "await", "apply", "record"}
  /\ Script["dashProfile"].begin = "disable"
  /\ DOMAIN Script["uninstall"] = {"begin", "stopUnit", "await", "remove"}
  BY OpsAre DEF Script

(* The daemons, for any step: a process that begins or ends has nothing to
   write, and only systemd begins the unit's. *)
UnitBegins == UnitRespawns \/ UnitRestarted

UnitMoves ==
  /\ Gone'
  /\ daemon[Unit].at = "none" => daemon'[Unit].at = "none" \/ UnitBegins

LEMMA MovesUnit ==
  ASSUME TypeOK, Gone, NEW p \in Daemons, NEW d \in DaemonStates, Moves(p, d),
         d.at = "none" => d.todo = {},
         p = Unit => daemon[Unit].at # "none" \/ UnitBegins
  PROVE  UnitMoves
  BY DEF TypeOK, Gone, Moves, UnitMoves

LEMMA SigtermUnit ==
  ASSUME TypeOK, Gone, NEW S, Sigterm(S)
  PROVE  UnitMoves
  <1>1. \A p \in Daemons : daemon'[p] \in {daemon[p], Terminated(daemon[p])}
    BY DEF Sigterm
  <1>2. \A d \in DaemonStates :
          /\ Terminated(d).at = "none" => Terminated(d).todo = {}
          /\ d.at = "none" => Terminated(d).at = "none"
    BY DEF Terminated, Rest, DaemonStates
  <1> QED BY <1>1, <1>2 DEF TypeOK, Gone, UnitMoves, Daemons

LEMMA UnitSteps ==
  ASSUME TypeOK, Gone, Next
  PROVE  UnitMoves
  <1> USE StatesOfDaemons
  <1>0. Unit \in Daemons
    BY DEF Daemons
  <1>1. CASE UNCHANGED daemon
    BY <1>1 DEF UnitMoves, Gone
  <1>2. CASE RestartUnit \/ StopUnit \/ Kill
    <2>1. UNCHANGED daemon \/ \E S : Sigterm(S)
      BY <1>2 DEF RestartUnit, StopUnit, Kill
    <2> QED BY <2>1, <1>1, SigtermUnit
  <1>3. ASSUME NEW p \in Detached, SettleSpawns(p)
        PROVE  UnitMoves
    <2>1. p \in Daemons /\ p # Unit
      BY DaemonsAssumption DEF Daemons
    <2>2. Moves(p, Rest("starting"))
      BY <1>3 DEF SettleSpawns, Moves
    <2> QED BY <2>1, <2>2, MovesUnit DEF Rest
  <1>4. CASE UnitBegins
    <2>1. Moves(Unit, Rest("starting"))
      BY <1>4 DEF UnitBegins, UnitRespawns, UnitRestarted, UnitStarts
    <2> QED BY <1>0, <1>4, <2>1, MovesUnit DEF Rest
  <1>5. CASE Reboot
    BY <1>0, <1>5 DEF Reboot, Rest, UnitMoves, Gone
  <1>6. ASSUME NEW p \in Daemons, DaemonStep(p) \/ Tick(p) \/ Crash(p)
        PROVE  UnitMoves
    <2>0. daemon[p] \in DaemonStates
      BY DEF TypeOK
    <2>1. daemon[p].at # "none"
      <3>1. CASE Write(p)
        BY <3>1 DEF Write, Gone
      <3>2. CASE ~ Write(p)
        BY <1>6, <3>2 DEF DaemonStep, Acquire, Refused, Boots, FirstPass,
                          EnterLoop, Ends, Tick, Crash, Reached
      <3> QED BY <3>1, <3>2
    <2>2. CASE Refused(p) \/ Ends(p) \/ Crash(p) \/ Acquire(p) \/ EnterLoop(p)
      BY <2>1, <2>2, MovesUnit DEF Refused, Ends, Crash, Acquire, EnterLoop, Rest
    <2>3. CASE Boots(p)
      <3>1. CASE file.profile = "none"
        BY <2>1, <2>3, <3>1, MovesUnit DEF Boots, Rest
      <3>2. CASE file.profile # "none"
        <4>1. file.profile \in Profiles
          BY <3>2 DEF TypeOK, Settings
        <4>2. Moves(p, Applies("booting", file.profile))
          BY <2>3, <3>2 DEF Boots
        <4>3. Applies("booting", file.profile).at # "none"
          BY DEF Applies
        <4> QED BY <2>1, <4>1, <4>2, <4>3, MovesUnit
      <3> QED BY <3>1, <3>2
    <2>4. CASE FirstPass(p) \/ Tick(p)
      <3>1. PICK at \in Stations \ {"none"} : Ladder(p, at)
        BY <2>0, <2>1, <2>4 DEF FirstPass, Tick, DaemonStates
      <3>2. CASE file.enabled
        BY <2>1, <3>1, <3>2, MovesUnit DEF Ladder, Applies
      <3>3. CASE ~ file.enabled
        BY <2>1, <3>1, <3>3, MovesUnit DEF Ladder, Rest
      <3> QED BY <3>2, <3>3
    <2>5. CASE Write(p)
      <3>1. PICK k \in daemon[p].todo : Moves(p, Wrote(daemon[p], k))
        BY <2>5 DEF Write
      <3>2. /\ Wrote(daemon[p], k) \in DaemonStates
            /\ Wrote(daemon[p], k).at = daemon[p].at
        BY <2>0, <3>1 DEF Wrote, Rest, DaemonStates
      <3> QED BY <2>1, <3>1, <3>2, MovesUnit
    <2> QED BY <1>6, <2>2, <2>3, <2>4, <2>5 DEF DaemonStep
  <1>7. CASE BeginAny \/ DashStep
    BY <1>1, <1>7 DEF BeginAny, Begin, DashStep, DashOpens, DashCloses, DashSavesOther
  <1>8. CASE \/ Enable \/ Disable \/ Await \/ Drain \/ SettleSeen
             \/ Apply \/ Record \/ Adjust \/ Install \/ Remove \/ Return
    BY <1>1, <1>8 DEF Enable, Disable, Await, Drain, SettleSeen,
                      Apply, Record, Adjust, Install, Remove, Return
  <1>9. CASE UnitStopped
    BY <1>1, <1>9 DEF UnitStopped
  <1> QED BY <1>2, <1>3, <1>4, <1>5, <1>6, <1>7, <1>8, <1>9
          DEF Next, OperatorStep, SystemdStep, UnitBegins

(* An operation goes on along its script. *)
LEMMA OperatorGoes ==
  ASSUME TypeOK, OnScript, OperatorStep, ~ Return
  PROVE  /\ job.op \in Ops /\ job.step \in DOMAIN Script[job.op]
         /\ job'.op = job.op /\ report' = report
         /\ \/ job'.step = Script[job.op][job.step]
            \/ job.step = "apply" /\ job'.step = "apply"
            \/ job.step = "enable" /\ job'.step = "settle"
  <1>1. job.op \in Ops /\ job'.op = job.op /\ report' = report
    BY OperationKept DEF TypeOK, Jobs
  <1>2. job.step # "return"
    BY DEF OperatorStep, Return, Enable, Disable, RestartUnit, StopUnit, Await,
           Kill, Drain, SettleSeen, SettleSpawns, Apply, Record, Adjust, Install,
           Remove, At
  <1>3. job.step \in DOMAIN Script[job.op]
    BY <1>1, <1>2, OpsAre DEF OnScript
  <1>4. CASE Enable
    <2>1. CASE installed
      BY <1>1, <1>3, <1>4, <2>1, Proceeds DEF Enable, At
    <2>2. CASE ~ installed
      <3>1. job' = [job EXCEPT !.step = "settle"]
        BY <1>4, <2>2 DEF Enable, Goto
      <3> QED BY <1>1, <1>3, <1>4, <3>1 DEF Enable, At, TypeOK, Jobs
    <2> QED BY <2>1, <2>2
  <1>5. CASE Apply
    <2>1. Script[job.op]["apply"] = "record"
      <3>1. job.op \in ProfileOps
        BY <1>1, <1>3, <1>5, Branches DEF Apply, At
      <3>2. \A op \in ProfileOps : Script[op]["apply"] = "record"
        BY DEF ProfileOps, Script
      <3> QED BY <3>1, <3>2
    <2> QED BY <1>1, <1>3, <1>5, <2>1 DEF Apply, At, TypeOK, Jobs
  <1>6. CASE Record
    <2>1. Script[job.op]["record"] = "return"
      <3>1. \A op \in Ops : "record" \in DOMAIN Script[op] =>
              Script[op]["record"] = "return"
        BY OpsAre DEF Script
      <3> QED BY <1>1, <1>3, <1>6, <3>1 DEF Record, At
    <2> QED BY <1>1, <1>3, <1>6, <2>1 DEF Record, At, TypeOK, Jobs
  <1>7. CASE OperatorStep /\ ~ Enable /\ ~ Apply /\ ~ Record
    <2>1. job.op # "none" /\ Proceed
      BY <1>7 DEF OperatorStep, Return, Disable, RestartUnit, StopUnit, Await,
                  Kill, Drain, SettleSeen, SettleSpawns, Adjust, Install,
                  Remove, At
    <2> QED BY <1>1, <1>2, <1>3, <2>1, Proceeds DEF At
  <1> QED BY <1>1, <1>3, <1>4, <1>5, <1>6, <1>7

(* What the operation under way does to the unit. *)
LEMMA UnitOperated ==
  ASSUME TypeOK, OnScript, UnitDown, UnitProgress, OperatorStep, ~ Return
  PROVE  /\ svc' = svc \/ RestartUnit \/ (StopUnit /\ svc' = "stopping" /\ installed)
         /\ installed' = installed \/ Install \/ Remove
         /\ RestartUnit => installed /\ installed' /\ svc' = "restarting"
         /\ Install => installed' /\ svc' = svc
         /\ Remove => svc = "inactive" /\ svc' = svc
  <1>1. CASE Remove
    <2>1. job.op = "uninstall"
      <3>1. job.op \in Ops /\ "remove" \in DOMAIN Script[job.op]
        BY <1>1, OperatorGoes DEF Remove, At
      <3> QED BY <3>1, OpsAre DEF Script
    <2> QED BY <1>1, <2>1 DEF Remove, At, UnitProgress, Install, RestartUnit
  <1>2. CASE RestartUnit
    BY <1>2 DEF RestartUnit, At, UnitProgress, Install, Remove
  <1>3. CASE StopUnit
    BY <1>3 DEF StopUnit, At, RestartUnit, Install, Remove
  <1>4. CASE OperatorStep /\ ~ Remove /\ ~ RestartUnit /\ ~ StopUnit
    BY <1>4 DEF OperatorStep, Return, Enable, Disable, Await, Kill, Drain,
                SettleSeen, SettleSpawns, Apply, Record, Adjust, Install
  <1> QED BY <1>1, <1>2, <1>3, <1>4

(* What any step does to the unit. *)
LEMMA UnitTouched ==
  ASSUME TypeOK, OnScript, UnitDown, UnitProgress, Next
  PROVE  \/ Reboot
         \/ OperatorStep /\ ~ Return
         \/ UNCHANGED <<installed, svc>>
         \/ UNCHANGED <<installed, job>> /\ UnitStopped
         \/ UNCHANGED <<installed, job>> /\ UnitRestarted
  <1>1. CASE Return \/ BeginAny \/ DashStep
    BY <1>1 DEF Return, BeginAny, Begin, DashStep, DashOpens, DashCloses,
                DashSavesOther
  <1>2. ASSUME NEW p \in Daemons, DaemonStep(p) \/ Tick(p) \/ Crash(p)
        PROVE  UNCHANGED <<installed, svc>>
    BY <1>2 DEF DaemonStep, Acquire, Refused, Boots, FirstPass, EnterLoop, Write,
                Ends, Tick, Crash
  <1>3. CASE SystemdStep
    BY <1>3 DEF SystemdStep, UnitRespawns, UnitStopped, UnitRestarted
  <1> QED BY <1>1, <1>2, <1>3 DEF Next

LEMMA UnitDownStep ==
  ASSUME TypeOK, OnScript, Gone, UnitDown, UnitProgress, Next
  PROVE  UnitDown'
  <1>1. daemon[Unit].at = "none" => daemon'[Unit].at = "none" \/ UnitBegins
    BY UnitSteps DEF UnitMoves
  <1>2. UnitBegins => svc' = "up" /\ installed' = installed /\ svc \in {"up", "restarting"}
    BY DEF UnitBegins, UnitRespawns, UnitRestarted
  <1>3. CASE Reboot
    BY <1>3 DEF Reboot, UnitDown, Rest, Daemons
  <1>4. CASE OperatorStep /\ ~ Return
    BY <1>1, <1>2, <1>4, UnitOperated DEF UnitDown
  <1>5. CASE UNCHANGED <<installed, svc>>
    BY <1>1, <1>2, <1>5 DEF UnitDown
  <1>6. CASE UnitStopped \/ UnitRestarted
    BY <1>6 DEF UnitStopped, UnitRestarted, UnitDown
  <1> QED BY <1>3, <1>4, <1>5, <1>6, UnitTouched

(* The step an operation is at is the action it takes. *)
LEMMA ActionOfStep ==
  ASSUME OperatorStep
  PROVE  /\ job.step = "enable" => Enable
         /\ job.step = "install" => Install
         /\ job.step = "disable" => Disable
         /\ job.step = "kill" => Kill
         /\ job.step = "stopUnit" => StopUnit
         /\ job.step = "await" => Await
         /\ job.step = "apply" => Apply
         /\ job.step = "record" => Record
         /\ job.step = "remove" => Remove
         /\ job.step = "return" => Return
  BY DEF OperatorStep, Return, Enable, Disable, RestartUnit, StopUnit, Await, Kill,
         Drain, SettleSeen, SettleSpawns, Apply, Record, Adjust, Install, Remove, At

LEMMA UnitProgressStep ==
  ASSUME TypeOK, OnScript, UnitDown, UnitProgress, Next
  PROVE  UnitProgress'
  <1>1. CASE Reboot \/ Return
    BY <1>1 DEF Reboot, Return, NoJob, UnitProgress
  <1>2. CASE BeginAny
    <2>1. PICK op \in Ops, who \in Profiles \cup {"none"} : Begin(op, who)
      BY <1>2, OpsAre DEF BeginAny, ProfileOps
    <2>2. job'.op = op /\ job'.step = Script[op].begin /\ UNCHANGED <<installed, svc>>
      BY <2>1 DEF Begin
    <2> QED BY <2>2, UnitScripts DEF UnitProgress
  <1>3. CASE UNCHANGED <<installed, svc, job>>
    BY <1>3 DEF UnitProgress
  <1>4. CASE UNCHANGED <<installed, job>> /\ UnitStopped
    BY <1>4 DEF UnitStopped, UnitProgress
  <1>5. CASE UNCHANGED <<installed, job>> /\ UnitRestarted
    BY <1>5 DEF UnitRestarted, UnitProgress
  <1>6. CASE OperatorStep /\ ~ Return
    <2> DEFINE next == job'.step
    <2>1. /\ job.op \in Ops /\ job.step \in DOMAIN Script[job.op]
          /\ job'.op = job.op
          /\ \/ next = Script[job.op][job.step]
             \/ job.step = "apply" /\ next = "apply"
             \/ job.step = "enable" /\ next = "settle"
      BY <1>6, OperatorGoes
    <2>2. ASSUME next = "restart" PROVE installed'
      <3>1. job.step \in {"enable", "install"}
        BY <2>1, <2>2, UnitScripts
      <3>2. CASE Install
        BY <3>2 DEF Install
      <3>3. CASE Enable
        <4>1. CASE installed
          BY <3>3, <4>1 DEF Enable
        <4>2. CASE ~ installed
          <5>1. job' = [job EXCEPT !.step = "settle"]
            BY <3>3, <4>2 DEF Enable, Goto
          <5> QED BY <2>2, <5>1 DEF TypeOK, Jobs
        <4> QED BY <4>1, <4>2
      <3> QED BY <1>6, <3>1, <3>2, <3>3, ActionOfStep
    <2>3. ASSUME job.op \in {"uninstall", "dashProfile"}
          PROVE  /\ next = "await" => svc' \in {"stopping", "inactive"}
                 /\ next \in {"remove", "apply", "record", "return"} =>
                      svc' = "inactive"
      <3>1. CASE next = "await"
        <4>1. job.step = "stopUnit"
          BY <2>1, <2>3, <3>1, UnitScripts
        <4>2. StopUnit
          BY <1>6, <4>1, ActionOfStep
        <4> QED BY <3>1, <4>2 DEF StopUnit, UnitDown, TypeOK
      <3>2. CASE next \in {"remove", "apply", "record", "return"}
        <4>1. job.step \in {"await", "apply", "remove", "record"}
          BY <2>1, <2>3, <3>2, UnitScripts
        <4>2. Await \/ Apply \/ Remove \/ Record
          BY <1>6, <4>1, ActionOfStep
        <4>3. UNCHANGED svc
          BY <4>2 DEF Await, Apply, Remove, Record
        <4>4. svc = "inactive"
          BY <2>3, <4>1, <4>2 DEF UnitProgress, Await, Apply, Remove, Record, At
        <4> QED BY <3>2, <4>3, <4>4
      <3> QED BY <3>1, <3>2
    <2> QED BY <2>1, <2>2, <2>3 DEF UnitProgress
  <1>7. Return \/ BeginAny \/ UNCHANGED job \/ OperatorStep \/ Reboot
    <2>1. ASSUME NEW p \in Daemons, DaemonStep(p) \/ Tick(p) \/ Crash(p)
          PROVE  UNCHANGED job
      BY <2>1 DEF DaemonStep, Acquire, Refused, Boots, FirstPass, EnterLoop, Write,
                  Ends, Tick, Crash
    <2>2. CASE DashStep \/ SystemdStep
      BY <2>2 DEF DashStep, DashOpens, DashCloses, DashSavesOther, SystemdStep,
                  UnitRespawns, UnitStopped, UnitRestarted
    <2> QED BY <2>1, <2>2 DEF Next
  <1> QED BY <1>1, <1>2, <1>3, <1>4, <1>5, <1>6, <1>7, UnitTouched

(* A step of a profile row keeps the ladder off once it has been saved off. *)
LEMMA RowKeepsOffStep ==
  ASSUME TypeOK, OnScript, RowKeepsLadderOff, Next
  PROVE  RowKeepsLadderOff'
  <1>1. CASE Reboot \/ Return
    BY <1>1 DEF Reboot, Return, NoJob, RowKeepsLadderOff
  <1>2. CASE BeginAny
    <2>1. PICK op \in Ops, who \in Profiles \cup {"none"} : Begin(op, who)
      BY <1>2, OpsAre DEF BeginAny, ProfileOps
    <2>2. job'.op = op /\ job'.step = Script[op].begin
      BY <2>1 DEF Begin
    <2> QED BY <2>2, UnitScripts DEF RowKeepsLadderOff
  <1>3. CASE DashStep
    BY <1>3 DEF DashStep, DashOpens, DashCloses, DashSavesOther, NoJob,
                RowKeepsLadderOff
  <1>4. ASSUME OperatorStep, ~ Return, job.op = "dashProfile"
        PROVE  ~ file'.enabled /\ ~ mem'.enabled
    <2>1. job.step \in {"disable", "kill", "stopUnit", "await", "apply", "record"}
      <3>1. job.step \in DOMAIN Script["dashProfile"] /\ job.step # "begin"
        <4>1. job.step \in DOMAIN Script["dashProfile"]
          BY <1>4, OperatorGoes
        <4>2. job.step # "begin"
          BY <1>4 DEF OperatorStep, Return, Enable, Disable, RestartUnit, StopUnit,
                      Await, Kill, Drain, SettleSeen, SettleSpawns, Apply, Record,
                      Adjust, Install, Remove, At
        <4> QED BY <4>1, <4>2
      <3> QED BY <3>1, UnitScripts
    <2>2. Disable \/ Kill \/ StopUnit \/ Await \/ Apply \/ Record
      BY <1>4, <2>1, ActionOfStep
    <2>3. CASE Disable
      BY <1>4, <2>3 DEF Disable, Saves, Edited, DashOps, TypeOK, Settings
    <2>4. CASE Record
      BY <1>4, <2>4 DEF Record, At, Saves, Edited, DashOps, TypeOK, Settings,
                        RowKeepsLadderOff
    <2>5. CASE Kill \/ StopUnit \/ Await \/ Apply
      BY <1>4, <2>5 DEF Kill, StopUnit, Await, Apply, At, RowKeepsLadderOff
    <2> QED BY <2>2, <2>3, <2>4, <2>5
  <1>5. CASE OperatorStep /\ ~ Return
    <2>1. job'.op = job.op
      BY <1>5, OperationKept
    <2> QED BY <1>4, <1>5, <2>1 DEF RowKeepsLadderOff
  <1>6. ASSUME NEW p \in Daemons, DaemonStep(p) \/ Tick(p) \/ Crash(p)
        PROVE  UNCHANGED <<job, file, mem>>
    BY <1>6 DEF DaemonStep, Acquire, Refused, Boots, FirstPass, EnterLoop, Write,
                Ends, Tick, Crash
  <1>7. SystemdStep => UNCHANGED <<job, file, mem>>
    BY DEF SystemdStep, UnitRespawns, UnitStopped, UnitRestarted
  <1>8. CASE UNCHANGED <<job, file, mem>>
    BY <1>8 DEF RowKeepsLadderOff
  <1> QED BY <1>1, <1>2, <1>3, <1>5, <1>6, <1>7, <1>8 DEF Next

(* While the ladder is off the unit's daemon goes on with what it had to write,
   or begins with the saved profile. *)
LEMMA UnitOwes ==
  ASSUME TypeOK, ~ file.enabled, NEW p \in Daemons,
         DaemonStep(p) \/ Tick(p) \/ Crash(p), daemon'[Unit].todo # {}
  PROVE  \/ daemon'[Unit].who = file.profile
         \/ daemon[Unit].todo # {} /\ daemon'[Unit].who = daemon[Unit].who
  <1>0. Unit \in Daemons /\ daemon[p] \in DaemonStates
    BY DEF Daemons, TypeOK
  <1>1. CASE p # Unit
    <2>1. \E d : Moves(p, d)
      BY DEF DaemonStep, Acquire, Refused, Boots, FirstPass, EnterLoop, Write, Ends,
             Tick, Crash, Ladder
    <2> QED BY <1>0, <1>1, <2>1 DEF Moves, TypeOK
  <1>2. CASE p = Unit
    <2>1. \A d : Moves(p, d) => daemon'[Unit] = d
      BY <1>0, <1>2 DEF Moves, TypeOK
    <2>2. CASE Acquire(p) \/ Refused(p) \/ EnterLoop(p) \/ Ends(p) \/ Crash(p)
      <3>1. \E at : Moves(p, Rest(at))
        BY <2>2 DEF Acquire, Refused, EnterLoop, Ends, Crash
      <3> QED BY <2>1, <3>1 DEF Rest
    <2>3. CASE Boots(p)
      <3>1. Moves(p, Rest("booting")) \/ Moves(p, Applies("booting", file.profile))
        BY <2>3 DEF Boots
      <3> QED BY <2>1, <3>1 DEF Rest, Applies
    <2>4. CASE FirstPass(p) \/ Tick(p)
      <3>1. \E at : Moves(p, Rest(at))
        BY <2>4 DEF FirstPass, Tick, Ladder
      <3> QED BY <2>1, <3>1 DEF Rest
    <2>5. CASE Write(p)
      <3>1. PICK k \in daemon[p].todo : Moves(p, Wrote(daemon[p], k))
        BY <2>5 DEF Write
      <3>2. daemon'[Unit] = Wrote(daemon[Unit], k)
        BY <1>2, <2>1, <3>1
      <3>3. \/ Wrote(daemon[Unit], k).todo = {}
            \/ Wrote(daemon[Unit], k).who = daemon[Unit].who
        BY <1>0, <1>2 DEF Wrote, Rest, DaemonStates
      <3> QED BY <1>2, <3>1, <3>2, <3>3
    <2> QED BY <2>2, <2>3, <2>4, <2>5 DEF DaemonStep
  <1> QED BY <1>1, <1>2

LEMMA ProfileReportedStep ==
  ASSUME TypeOK, OnScript, UnitInv, Next
  PROVE  ProfileReported'
  <1> USE DEF UnitInv
  <1>0. Unit \in Daemons
    BY DEF Daemons
  <1>1. CASE Return
    <2>1. /\ job' = NoJob /\ report' = job.op /\ UNCHANGED <<file, daemon>>
          /\ job.step = "return"
      BY <1>1 DEF Return, At
    <2>2. ASSUME job.op = "dashProfile"
          PROVE  ~ file.enabled /\ daemon[Unit].todo = {}
      <3>1. ~ file.enabled /\ svc = "inactive"
        BY <2>1, <2>2 DEF RowKeepsLadderOff, UnitProgress
      <3> QED BY <1>0, <3>1 DEF UnitDown, Gone
    <2> QED BY <2>1, <2>2 DEF ProfileReported, NoJob
  <1>2. CASE BeginAny \/ DashSavesOther
    BY <1>2 DEF BeginAny, Begin, DashSavesOther, ProfileReported
  <1>3. CASE OperatorStep /\ ~ Return
    BY <1>3, OperationKept DEF ProfileReported
  <1>4. CASE Reboot
    BY <1>0, <1>4 DEF Reboot, ProfileReported, NoJob, Rest
  <1>5. ASSUME NEW p \in Daemons, DaemonStep(p) \/ Tick(p) \/ Crash(p)
        PROVE  ProfileReported'
    <2>1. UNCHANGED <<file, job, report>>
      BY <1>5 DEF DaemonStep, Acquire, Refused, Boots, FirstPass, EnterLoop, Write,
                  Ends, Tick, Crash
    <2>2. ASSUME report = "dashProfile", daemon'[Unit].todo # {}
          PROVE  daemon'[Unit].who = file.profile
      <3>1. ~ file.enabled
        BY <2>2 DEF ProfileReported
      <3>2. \/ daemon'[Unit].who = file.profile
            \/ daemon[Unit].todo # {} /\ daemon'[Unit].who = daemon[Unit].who
        BY <1>5, <2>2, <3>1, UnitOwes
      <3> QED BY <2>2, <3>2 DEF ProfileReported
    <2> QED BY <2>1, <2>2 DEF ProfileReported
  <1>6. CASE DashOpens \/ DashCloses \/ UnitStopped
    BY <1>6 DEF DashOpens, DashCloses, UnitStopped, ProfileReported
  <1>7. CASE UnitBegins
    <2>1. UNCHANGED <<file, job, report>> /\ daemon' = [daemon EXCEPT ![Unit] = Rest("starting")]
      BY <1>7 DEF UnitBegins, UnitRespawns, UnitRestarted, UnitStarts, Moves
    <2>2. daemon'[Unit].todo = {}
      BY <1>0, <2>1 DEF TypeOK, Rest
    <2> QED BY <2>1, <2>2 DEF ProfileReported
  <1> QED BY <1>1, <1>2, <1>3, <1>4, <1>5, <1>6, <1>7
          DEF Next, DashStep, SystemdStep, UnitBegins

(* Nothing but the daemons writes after a report. *)
LEMMA WritesAreDaemons ==
  ASSUME TypeOK, UnitInv, Next, report = "dashProfile", NEW k \in Knobs,
         knob'[k] \notin {knob[k], "firmware"}
  PROVE  \E p \in Daemons : daemon[p].todo # {} /\ knob'[k] = daemon[p].who
  <1>1. job.op = "none"
    BY DEF UnitInv, ProfileReported
  <1>2. ~ OperatorStep
    BY <1>1 DEF OperatorStep, Return, Enable, Disable, RestartUnit, StopUnit, Await,
                Kill, Drain, SettleSeen, SettleSpawns, Apply, Record, Adjust,
                Install, Remove, At
  <1>3. ~ BeginAny /\ ~ DashStep /\ ~ SystemdStep
    BY DEF BeginAny, Begin, DashStep, DashOpens, DashCloses, DashSavesOther,
           SystemdStep, UnitRespawns, UnitStopped, UnitRestarted
  <1>4. ~ Reboot
    BY DEF Reboot
  <1>5. PICK p \in Daemons : DaemonStep(p) \/ Tick(p) \/ Crash(p)
    BY <1>2, <1>3, <1>4 DEF Next
  <1>6. Write(p)
    BY <1>5 DEF DaemonStep, Acquire, Refused, Boots, FirstPass, EnterLoop, Ends, Tick,
                Crash
  <1>7. PICK l \in daemon[p].todo : knob' = [knob EXCEPT ![l] = daemon[p].who]
    BY <1>6 DEF Write
  <1> QED BY <1>7 DEF TypeOK

-----------------------------------------------------------------------------
(* Theorems about the unit.                                                *)

LEMMA UnitInvariant == Spec => []UnitInv
  <1>1. Init => UnitInv
    BY UnitInit
  <1>2. IInv /\ UnitInv /\ [Next]_vars => UnitInv'
    <2> SUFFICES ASSUME IInv, UnitInv, [Next]_vars PROVE UnitInv'
      OBVIOUS
    <2>1. CASE Next
      <3>1. TypeOK /\ OnScript /\ Gone /\ UnitDown /\ UnitProgress /\ RowKeepsLadderOff
        BY DEF IInv, UnitInv
      <3>2. Gone'
        BY <2>1, <3>1, UnitSteps DEF UnitMoves
      <3> QED BY <2>1, <3>1, <3>2, UnitDownStep, UnitProgressStep, RowKeepsOffStep,
                 ProfileReportedStep DEF UnitInv
    <2>2. CASE UNCHANGED vars
      BY <2>2 DEF vars, UnitInv, Gone, UnitDown, UnitProgress, RowKeepsLadderOff,
                  ProfileReported
    <2> QED BY <2>1, <2>2
  <1> QED BY <1>1, <1>2, Invariant, PTL DEF Spec

(* Once a profile row of the dashboard has reported, only the saved profile is
   still written, whatever crashes and however often systemd starts the unit
   again, except by a detached daemon that was in the middle of something
   (app.rs:377-389, app.rs:741-750). *)
THEOREM ProfileStaysHolds == Spec => ProfileStays
  <1> DEFINE Stays ==
        \A k \in Knobs :
          /\ report = "dashProfile"
          /\ knob'[k] \notin {knob[k], file.profile, "firmware"}
          => \E p \in Detached : daemon[p].todo # {}
  <1>1. IInv /\ UnitInv /\ [Next]_vars => [Stays]_vars
    <2> SUFFICES ASSUME IInv, UnitInv, Next, NEW k \in Knobs, report = "dashProfile",
                        knob'[k] \notin {knob[k], file.profile, "firmware"}
                 PROVE  \E p \in Detached : daemon[p].todo # {}
      OBVIOUS
    <2>1. PICK p \in Daemons : daemon[p].todo # {} /\ knob'[k] = daemon[p].who
      BY WritesAreDaemons DEF IInv
    <2>2. p # Unit
      BY <2>1 DEF UnitInv, ProfileReported
    <2> QED BY <2>1, <2>2 DEF Daemons
  <1> QED BY <1>1, Invariant, UnitInvariant, PTL DEF Spec, ProfileStays

(* No unit file, no unit. *)
UninstalledIsDown == ~ installed => svc = "inactive" /\ daemon[Unit].at = "none"

(* Once the unit file is gone no process of the unit is left, so nothing of it
   writes after `service uninstall`: the file is removed only when systemd has
   stopped the unit (service.rs uninstall). *)
THEOREM UninstalledIsDownHolds == Spec => []UninstalledIsDown
  <1>1. UnitInv => UninstalledIsDown
    BY DEF UnitInv, UnitDown, UninstalledIsDown
  <1> QED BY <1>1, UnitInvariant, PTL

(* Between its stop and the end of its save a profile row is alone. *)
ProfileAppliesAlone ==
  job.op = "dashProfile" /\ job.step \in {"apply", "record"} =>
    daemon[Unit].at = "none" /\ ~ file.enabled

(* While a profile row applies its profile the unit's daemon does not exist, and
   none comes before the row has saved the profile (app.rs:741-750). *)
THEOREM ProfileAppliesAloneHolds == Spec => []ProfileAppliesAlone
  <1>1. UnitInv => ProfileAppliesAlone
    BY DEF UnitInv, UnitDown, UnitProgress, RowKeepsLadderOff, ProfileAppliesAlone
  <1> QED BY <1>1, UnitInvariant, PTL

-----------------------------------------------------------------------------
(* The lock as Lifecycle has it, taken and given up in one step, is the one that
   InstanceLock implements. *)
Lock == INSTANCE SingleInstance WITH Pids <- Daemons, serving <- Holders

OneHolder == \A p, q \in Holders : p = q

(* Nobody holds the lock who has not held it before. *)
NoneJoins == Holders' \subseteq Holders

LEMMA MovesJoinNone ==
  ASSUME TypeOK, NEW p \in Daemons, NEW d, Moves(p, d),
         d.at \in Holding => daemon[p].at \in Holding
  PROVE  NoneJoins
  BY DEF TypeOK, Moves, NoneJoins, Holders

LEMMA SigtermJoinsNone ==
  ASSUME TypeOK, NEW S, Sigterm(S)
  PROVE  NoneJoins
  <1>1. \A p \in Daemons : daemon'[p] \in {daemon[p], Terminated(daemon[p])}
    BY DEF Sigterm
  <1>2. \A d \in DaemonStates : Terminated(d).at \in Holding => d.at \in Holding
    BY DEF Terminated, Rest, DaemonStates, Holding, Named
  <1> QED BY <1>1, <1>2 DEF TypeOK, NoneJoins, Holders

(* Every step but the one that takes the lock. *)
LEMMA HoldersShrink ==
  ASSUME TypeOK, Next, ~ \E p \in Daemons : Acquire(p)
  PROVE  NoneJoins
  <1>0. Unit \in Daemons /\ "none" \notin Holding /\ "starting" \notin Holding
    BY DEF Daemons, Holding, Named
  <1>1. CASE UNCHANGED daemon
    BY <1>1 DEF NoneJoins, Holders
  <1>2. CASE RestartUnit \/ StopUnit \/ Kill
    <2>1. UNCHANGED daemon \/ \E S : Sigterm(S)
      BY <1>2 DEF RestartUnit, StopUnit, Kill
    <2> QED BY <2>1, <1>1, SigtermJoinsNone
  <1>3. CASE UnitBegins \/ \E p \in Detached : SettleSpawns(p)
    <2>1. \E p \in Daemons : Moves(p, Rest("starting"))
      BY <1>3 DEF UnitBegins, UnitRespawns, UnitRestarted, UnitStarts,
                  SettleSpawns, Moves, Daemons
    <2> QED BY <1>0, <2>1, MovesJoinNone DEF Rest
  <1>4. CASE Reboot
    BY <1>0, <1>4 DEF Reboot, Rest, NoneJoins, Holders
  <1>5. ASSUME NEW p \in Daemons, DaemonStep(p) \/ Tick(p) \/ Crash(p)
        PROVE  NoneJoins
    <2>1. CASE Refused(p) \/ Ends(p) \/ Crash(p)
      BY <1>0, <2>1, MovesJoinNone DEF Refused, Ends, Crash, Rest
    <2>2. CASE Boots(p) \/ FirstPass(p) \/ EnterLoop(p)
      <3>1. daemon[p].at \in Holding
        BY <2>2 DEF Boots, FirstPass, EnterLoop, Reached, Holding, Named
      <3>2. \E d : Moves(p, d)
        BY <2>2 DEF Boots, FirstPass, EnterLoop, Ladder
      <3> QED BY <3>1, <3>2, MovesJoinNone
    <2>3. CASE Tick(p)
      <3>1. daemon[p].at \in Holding /\ \E d : Moves(p, d)
        BY <2>3 DEF Tick, Reached, Ladder, Holding, Named
      <3> QED BY <3>1, MovesJoinNone
    <2>4. CASE Write(p)
      <3>1. PICK k \in daemon[p].todo : Moves(p, Wrote(daemon[p], k))
        BY <2>4 DEF Write
      <3>2. Wrote(daemon[p], k).at = daemon[p].at
        BY DEF TypeOK, Wrote, Rest, DaemonStates
      <3> QED BY <3>1, <3>2, MovesJoinNone
    <2> QED BY <1>5, <2>1, <2>2, <2>3, <2>4 DEF DaemonStep
  <1>6. CASE BeginAny \/ DashStep
    BY <1>1, <1>6 DEF BeginAny, Begin, DashStep, DashOpens, DashCloses, DashSavesOther
  <1>7. CASE \/ Enable \/ Disable \/ Await \/ Drain \/ SettleSeen
             \/ Apply \/ Record \/ Adjust \/ Install \/ Remove \/ Return
    BY <1>1, <1>7 DEF Enable, Disable, Await, Drain, SettleSeen,
                      Apply, Record, Adjust, Install, Remove, Return
  <1>8. CASE UnitStopped
    BY <1>1, <1>8 DEF UnitStopped
  <1> QED BY <1>2, <1>3, <1>4, <1>5, <1>6, <1>7, <1>8
          DEF Next, OperatorStep, SystemdStep, UnitBegins

LEMMA LockStep ==
  ASSUME TypeOK, OneHolder, Next
  PROVE  OneHolder' /\ (Lock!Next \/ UNCHANGED Holders)
  <1>1. ASSUME NEW p \in Daemons, Acquire(p)
        PROVE  OneHolder' /\ Lock!Begin(p)
    <2>1. Holders = {} /\ daemon' = [daemon EXCEPT ![p] = Rest("acquired")]
      BY <1>1 DEF Acquire, Moves, IsRunning
    <2>2. daemon'[p].at = "acquired" /\ \A q \in Daemons \ {p} : daemon'[q] = daemon[q]
      BY <2>1 DEF TypeOK, Rest
    <2>3. Holders' = {p}
      BY <2>1, <2>2 DEF Holders, Holding
    <2> QED BY <2>1, <2>3 DEF OneHolder, Lock!Begin
  <1>2. CASE ~ \E p \in Daemons : Acquire(p)
    <2>1. Holders' \subseteq Holders
      BY <1>2, HoldersShrink DEF NoneJoins
    <2>2. Holders' = Holders \/ (Holders # {} /\ Holders' = {})
      BY <2>1 DEF OneHolder
    <2> QED BY <2>1, <2>2 DEF OneHolder, Lock!Next, Lock!End
  <1> QED BY <1>1, <1>2 DEF Lock!Next

(* The daemons of Lifecycle serve one after the other exactly as SingleInstance
   has it, which InstanceLock implements with system calls: what is shown of the
   lock there may be used here (daemon.rs:514, pid.rs:96-125). *)
THEOREM LockIsSingleInstance == Spec => Lock!Spec
  <1>1. Init => OneHolder /\ Lock!Init
    BY DEF Init, OneHolder, Lock!Init, Holders, Rest, Holding, Named
  <1>2. IInv /\ OneHolder /\ [Next]_vars => OneHolder' /\ [Lock!Next]_Holders
    <2>1. IInv /\ OneHolder /\ Next => OneHolder' /\ (Lock!Next \/ UNCHANGED Holders)
      BY LockStep DEF IInv
    <2>2. OneHolder /\ UNCHANGED vars => OneHolder' /\ UNCHANGED Holders
      BY DEF vars, OneHolder, Holders
    <2> QED BY <2>1, <2>2
  <1> QED BY <1>1, <1>2, Invariant, PTL DEF Spec, Lock!Spec


-----------------------------------------------------------------------------
(* The ladder after `start`: the safety half of StartEngages.              *)

StartOps == {"start", "dashStart"}

(* A start turns the ladder on, and leaves it on. *)
StartProgress ==
  job.op \in StartOps /\ job.step \notin {"begin", "enable"} => file.enabled

StartReported ==
  report \in StartOps => job.op = "none" /\ file.enabled

(* Who does not hold the lock has nothing to write. *)
Waits == \A p \in Daemons : daemon[p].at \notin Holding => daemon[p].todo = {}

StartInv == StartProgress /\ StartReported /\ Waits /\ OneHolder

LEMMA StartScripts ==
  \A op \in StartOps :
    /\ op \in Ops
    /\ DOMAIN Script[op] = {"begin", "enable", "restart", "await", "settle"}
    /\ Script[op].begin = "enable"
BY OpsAre DEF Script, StartOps

(* A step of a start other than the first leaves the file alone. *)
LEMMA StartOperated ==
  ASSUME IInv, StartProgress, OperatorStep, ~ Return, job.op \in StartOps
  PROVE  file'.enabled
<1>1. job.step \in {"return", "begin", "enable", "restart", "await", "settle"}
  BY StartScripts DEF IInv, OnScript, StartOps
<1>2. CASE Enable
  <2>1. Edited \in Settings
    BY DEF Edited, IInv, TypeOK
  <2> QED BY <1>2, <2>1 DEF Enable, Saves, Settings
<1>3. CASE ~ Enable
  <2>1. /\ UNCHANGED file
        /\ job.step \notin {"begin", "enable"}
    BY <1>1, <1>3 DEF OperatorStep, Return, Disable, RestartUnit, StopUnit,
         Await, Kill, Drain, SettleSeen, SettleSpawns, Apply, Record, Adjust,
         Install, Remove, At
  <2> QED BY <2>1 DEF StartProgress
<1> QED BY <1>2, <1>3

LEMMA StartStep ==
  ASSUME IInv, StartProgress, StartReported, Next
  PROVE  StartProgress' /\ StartReported'
<1>1. CASE UNCHANGED <<file, job, report>>
  BY <1>1 DEF StartProgress, StartReported
<1>2. CASE Reboot
  BY <1>2 DEF Reboot, NoJob, StartProgress, StartReported, StartOps
<1>3. CASE BeginAny
  <2>1. PICK op \in Ops, who \in Profiles \cup {"none"} : Begin(op, who)
    BY <1>3, OpsAre DEF BeginAny, ProfileOps
  <2>2. job'.op = op /\ job'.step = Script[op].begin /\ report' = "none"
    BY <2>1 DEF Begin
  <2> QED BY <2>2, StartScripts DEF StartProgress, StartReported, StartOps
<1>4. CASE DashSavesOther
  BY <1>4 DEF DashSavesOther, NoJob, StartProgress, StartReported, StartOps
<1>5. CASE Return
  <2>1. job' = NoJob /\ report' = job.op /\ UNCHANGED file /\ job.step = "return"
    BY <1>5 DEF Return, At
  <2> QED BY <2>1 DEF NoJob, StartProgress, StartReported, StartOps
<1>6. ASSUME OperatorStep, ~ Return
      PROVE  StartProgress' /\ StartReported'
  <2>1. job.op # "none" /\ job'.op = job.op /\ report' = report
    BY <1>6, OperationKept DEF IInv
  <2>2. StartReported'
    BY <2>1 DEF StartReported
  <2>3. job.op \in StartOps => file'.enabled
    BY <1>6, StartOperated
  <2> QED BY <2>1, <2>2, <2>3 DEF StartProgress
<1>7. CASE DashOpens \/ DashCloses \/ SystemdStep
  BY <1>1, <1>7
     DEF DashOpens, DashCloses, SystemdStep, UnitRespawns, UnitStopped, UnitRestarted
<1>8. ASSUME NEW p \in Daemons, DaemonStep(p) \/ Tick(p) \/ Crash(p)
      PROVE  UNCHANGED <<file, job, report>>
  BY <1>8 DEF DaemonStep, Acquire, Refused, Boots, FirstPass, EnterLoop, Write,
              Ends, Tick, Crash
<1> QED BY <1>1, <1>2, <1>3, <1>4, <1>5, <1>6, <1>7, <1>8
        DEF Next, DashStep

LEMMA MovesWaits ==
  ASSUME TypeOK, Waits, NEW p \in Daemons, NEW d, Moves(p, d),
         d.at \notin Holding => d.todo = {}
  PROVE  Waits'
BY DEF TypeOK, Waits, Moves

LEMMA WaitsStep ==
  ASSUME TypeOK, Waits, Next
  PROVE  Waits'
<1>0. /\ Unit \in Daemons
      /\ \A at : Rest(at).todo = {} /\ Rest(at).at = at
      /\ {"booting", "passing", "running", "stopping"} \subseteq Holding
      /\ \A at, who : Applies(at, who).at = at
  BY DEF Daemons, Rest, Holding, Named, Applies
<1>1. CASE UNCHANGED daemon
  BY <1>1 DEF Waits
<1>2. CASE RestartUnit \/ StopUnit \/ Kill
  <2>1. CASE \E S : Sigterm(S)
    <3>1. \A p \in Daemons : daemon'[p] \in {daemon[p], Terminated(daemon[p])}
      BY <2>1 DEF Sigterm
    <3>2. \A d \in DaemonStates : Terminated(d).at \notin Holding => Terminated(d).todo = {}
      BY DEF Terminated, Rest, DaemonStates, Holding, Named
    <3> QED BY <3>1, <3>2 DEF TypeOK, Waits
  <2>2. UNCHANGED daemon \/ \E S : Sigterm(S)
    BY <1>2 DEF RestartUnit, StopUnit, Kill
  <2> QED BY <1>1, <2>1, <2>2
<1>3. CASE UnitBegins \/ \E p \in Detached : SettleSpawns(p)
  <2>1. \E p \in Daemons : Moves(p, Rest("starting"))
    BY <1>3 DEF UnitBegins, UnitRespawns, UnitRestarted, UnitStarts,
                SettleSpawns, Moves, Daemons
  <2> QED BY <1>0, <2>1, MovesWaits
<1>4. CASE Reboot
  BY <1>0, <1>4 DEF Reboot, Waits
<1>5. ASSUME NEW p \in Daemons, DaemonStep(p) \/ Tick(p) \/ Crash(p)
      PROVE  Waits'
  <2>1. CASE Acquire(p) \/ Refused(p) \/ EnterLoop(p) \/ Ends(p) \/ Crash(p)
    <3>1. PICK at : Moves(p, Rest(at))
      BY <2>1 DEF Acquire, Refused, EnterLoop, Ends, Crash
    <3> QED BY <1>0, <3>1, MovesWaits
  <2>2. CASE Boots(p)
    <3>1. \/ Moves(p, Rest("booting"))
          \/ Moves(p, Applies("booting", file.profile))
      BY <2>2 DEF Boots
    <3> QED BY <1>0, <3>1, MovesWaits
  <2>3. CASE FirstPass(p) \/ Tick(p)
    <3>1. PICK at \in {"passing", "running", "stopping"} : Ladder(p, at)
      BY <2>3 DEF FirstPass, Tick, Reached
    <3>2. Moves(p, Rest(at)) \/ Moves(p, Applies(at, "ladder"))
      BY <3>1 DEF Ladder
    <3> QED BY <1>0, <3>1, <3>2, MovesWaits
  <2>4. CASE Write(p)
    <3>1. PICK k \in daemon[p].todo : Moves(p, Wrote(daemon[p], k))
      BY <2>4 DEF Write
    <3>2. Wrote(daemon[p], k).at = daemon[p].at
      BY DEF TypeOK, Wrote, Rest, DaemonStates
    <3>3. daemon[p].at \in Holding
      BY <3>1 DEF Waits
    <3> QED BY <3>1, <3>2, <3>3, MovesWaits
  <2> QED BY <1>5, <2>1, <2>2, <2>3, <2>4 DEF DaemonStep
<1>6. CASE BeginAny \/ DashStep
  BY <1>1, <1>6 DEF BeginAny, Begin, DashStep, DashOpens, DashCloses, DashSavesOther
<1>7. CASE \/ Enable \/ Disable \/ Await \/ Drain \/ SettleSeen
           \/ Apply \/ Record \/ Adjust \/ Install \/ Remove \/ Return
  BY <1>1, <1>7 DEF Enable, Disable, Await, Drain, SettleSeen,
                    Apply, Record, Adjust, Install, Remove, Return
<1>8. CASE UnitStopped
  BY <1>1, <1>8 DEF UnitStopped
<1> QED BY <1>2, <1>3, <1>4, <1>5, <1>6, <1>7, <1>8
        DEF Next, OperatorStep, SystemdStep, UnitBegins

LEMMA StartInvariant == Spec => []StartInv
<1>1. Init => StartInv
  BY DEF Init, StartInv, StartProgress, StartReported, StartOps, Waits, OneHolder,
         Holders, Holding, Named, NoJob, Rest
<1>2. IInv /\ StartInv /\ [Next]_vars => StartInv'
  <2>1. IInv /\ StartInv /\ Next => StartInv'
    BY StartStep, WaitsStep, LockStep DEF IInv, StartInv
  <2>2. StartInv /\ UNCHANGED vars => StartInv'
    BY DEF vars, StartInv, StartProgress, StartReported, Waits, OneHolder, Holders
  <2> QED BY <2>1, <2>2
<1> QED BY <1>1, <1>2, Invariant, PTL DEF Spec

LadderRules == \A k \in Knobs : knob[k] = "ladder"

(* From when p has the lock and until a signal: what it has to write, and, from
   its first pass on, that the ladder has everything p has no more to write. *)
Serves(p) ==
  /\ daemon[p].at \in {"acquired", "booting", "passing", "running"}
  /\ daemon[p].at \in {"passing", "running"} =>
       /\ daemon[p].todo # {} => daemon[p].who = "ladder"
       /\ \A k \in Knobs :
            \/ knob[k] = "ladder"
            \/ daemon[p].at = "passing" /\ k \in daemon[p].todo

(* What still moves once a start has reported and nothing is disturbed: the
   daemon that has the lock, others that ask for it, and systemd. *)
LEMMA AfterStart ==
  ASSUME IInv, StartInv, NEW p \in Daemons, daemon[p].at \in Holding,
         report = "start", report' = "start", Next, ~ Disturbance
  PROVE  \/ DaemonStep(p) \/ Tick(p)
         \/ daemon'[p] = daemon[p] /\ UNCHANGED knob
<1>0. file.enabled /\ job.op = "none" /\ IsRunning /\ daemon \in [Daemons -> DaemonStates]
  BY DEF StartInv, StartReported, StartOps, IsRunning, Holders, IInv, TypeOK
<1>1. ~ OperatorStep
  BY <1>0 DEF OperatorStep, Enable, Disable, RestartUnit, StopUnit, Await, Kill,
         Drain, SettleSeen, SettleSpawns, Apply, Record, Adjust, Install, Remove,
         Return, At
<1>2. ~ BeginAny
  BY DEF BeginAny, Begin
<1>3. CASE DashStep
  BY <1>3 DEF DashStep, DashOpens, DashCloses, DashSavesOther
<1>4. ASSUME NEW q \in Daemons \ {p}, DaemonStep(q) \/ Tick(q)
      PROVE  daemon'[p] = daemon[p] /\ UNCHANGED knob
  <2>1. daemon[q].at \notin Holding
    BY DEF StartInv, OneHolder, Holders
  <2>2. daemon[q].todo = {}
    BY <2>1 DEF StartInv, Waits
  <2>3. Refused(q)
    BY <1>0, <1>4, <2>1, <2>2
       DEF DaemonStep, Acquire, Boots, FirstPass, EnterLoop, Write, Ends, Tick,
           Reached, Holding, Named
  <2> QED BY <1>0, <2>3 DEF Refused, Moves
<1>5. CASE SystemdStep
  <2>1. UNCHANGED daemon \/ (daemon[Unit].at = "none" /\ Moves(Unit, Rest("starting")))
    BY <1>5 DEF SystemdStep, UnitRespawns, UnitStopped, UnitRestarted, UnitStarts
  <2>2. UNCHANGED knob
    BY <1>5 DEF SystemdStep, UnitRespawns, UnitStopped, UnitRestarted
  <2>3. "none" \notin Holding
    BY DEF Holding, Named
  <2> QED BY <1>0, <2>1, <2>2, <2>3 DEF Moves
<1> QED BY <1>1, <1>2, <1>3, <1>4, <1>5 DEF Next, Disturbance

LEMMA ServesStep ==
  ASSUME IInv, StartInv, NEW p \in Daemons, Serves(p),
         report = "start", report' = "start", Next, ~ Disturbance
  PROVE  Serves(p)'
<1>0. /\ file.enabled /\ IsRunning
      /\ daemon \in [Daemons -> DaemonStates] /\ knob \in [Knobs -> Writers]
      /\ daemon[p].at \in Holding
  BY DEF StartInv, StartReported, StartOps, IsRunning, Holders, IInv, TypeOK, Serves,
         Holding, Named
<1>1. CASE daemon'[p] = daemon[p] /\ UNCHANGED knob
  BY <1>1 DEF Serves
<1>2. CASE Boots(p)
  <2>1. \/ daemon' = [daemon EXCEPT ![p] = Rest("booting")]
        \/ daemon' = [daemon EXCEPT ![p] = Applies("booting", file.profile)]
    BY <1>2 DEF Boots, Moves
  <2>2. daemon'[p].at = "booting"
    BY <1>0, <2>1 DEF Rest, Applies
  <2> QED BY <2>2 DEF Serves
<1>3. CASE FirstPass(p)
  <2>1. daemon' = [daemon EXCEPT ![p] = Applies("passing", "ladder")]
    BY <1>0, <1>3 DEF FirstPass, Ladder, Moves
  <2>2. daemon'[p] = Applies("passing", "ladder")
    BY <1>0, <2>1
  <2> QED BY <2>2 DEF Serves, Applies
<1>4. CASE EnterLoop(p)
  <2>1. /\ daemon' = [daemon EXCEPT ![p] = Rest("running")] /\ UNCHANGED knob
        /\ daemon[p].at = "passing" /\ daemon[p].todo = {}
    BY <1>4 DEF EnterLoop, Moves, Reached
  <2>2. daemon'[p] = Rest("running")
    BY <1>0, <2>1
  <2> QED BY <2>1, <2>2 DEF Serves, Rest
<1>5. CASE Tick(p)
  <2>1. /\ daemon[p].at = "running" /\ UNCHANGED knob
        /\ daemon' = [daemon EXCEPT ![p] = Applies("running", "ladder")]
    BY <1>0, <1>5 DEF Tick, Ladder, Moves, Reached, Serves
  <2>2. daemon'[p] = Applies("running", "ladder")
    BY <1>0, <2>1
  <2> QED BY <2>1, <2>2 DEF Serves, Applies
<1>6. CASE Write(p)
  <2>1. PICK k \in daemon[p].todo :
          /\ knob' = [knob EXCEPT ![k] = daemon[p].who]
          /\ daemon' = [daemon EXCEPT ![p] = Wrote(daemon[p], k)]
    BY <1>6 DEF Write, Moves
  <2>2. daemon'[p] = Wrote(daemon[p], k) /\ daemon[p] \in DaemonStates
    BY <1>0, <2>1
  <2>3. /\ daemon'[p].at = daemon[p].at
        /\ daemon'[p].todo = daemon[p].todo \ {k}
        /\ daemon'[p].todo # {} => daemon'[p].who = daemon[p].who
    BY <2>2 DEF Wrote, Rest, DaemonStates
  <2>4. k \in Knobs
    BY <2>1, <2>2 DEF DaemonStates
  <2>5. ASSUME daemon[p].at \in {"passing", "running"}, NEW m \in Knobs
        PROVE  \/ knob'[m] = "ladder"
               \/ daemon'[p].at = "passing" /\ m \in daemon'[p].todo
    <3>1. daemon[p].who = "ladder"
      BY <2>1, <2>5 DEF Serves
    <3> QED BY <1>0, <2>1, <2>3, <2>5, <3>1 DEF Serves
  <2> QED BY <2>3, <2>5 DEF Serves
<1>7. ~ (Acquire(p) \/ Refused(p) \/ Ends(p))
  BY DEF Acquire, Refused, Ends, Reached, Serves
<1> QED BY <1>0, <1>1, <1>2, <1>3, <1>4, <1>5, <1>6, <1>7, AfterStart DEF DaemonStep

LEMMA ServesOn ==
  ASSUME IInv, StartInv, NEW p \in Daemons, Serves(p),
         report = "start", report' = "start", [Next /\ ~ Disturbance]_vars
  PROVE  Serves(p)'
<1>1. CASE Next /\ ~ Disturbance
  BY <1>1, ServesStep
<1>2. CASE UNCHANGED vars
  BY <1>2 DEF vars, Serves
<1> QED BY <1>1, <1>2

Getting(p) == daemon[p].at \in {"acquired", "booting"}

Rules(p) == daemon[p].at = "running" /\ LadderRules

(* After a reported start the daemon that gets the lock next, the unit's or a
   detached one, has put the ladder in control of everything when it enters its
   loop, whatever profile it has applied at boot and whoever else is started
   meanwhile (main.rs:58-92, daemon.rs:514-560). *)
THEOREM StartArrives ==
  ASSUME NEW p \in Daemons
  PROVE  Spec => [](Getting(p) /\ [](report = "start") /\ [][~ Disturbance]_vars
                      => [](Getting(p) \/ daemon[p].at = "passing" \/ Rules(p)))
<1>1. Getting(p) => Serves(p)
  BY DEF Getting, Serves
<1>2. IInv /\ StartInv /\ Serves(p) /\ report = "start" /\ (report = "start")'
        /\ [Next]_vars /\ [~ Disturbance]_vars => Serves(p)'
  BY ServesOn
<1>3. Serves(p) => Getting(p) \/ daemon[p].at = "passing" \/ Rules(p)
  BY DEF Serves, Getting, Rules, LadderRules
<1> QED BY <1>1, <1>2, <1>3, Invariant, StartInvariant, PTL DEF Spec

Pure(p) == daemon[p].todo = {} \/ daemon[p].who = "ladder"

(* ... and it stays in control: no daemon that systemd or anybody starts gets
   as far as its saved profile. *)
THEOREM StartStays ==
  ASSUME NEW p \in Daemons
  PROVE  Spec => [](Rules(p) /\ Pure(p) /\ [](report = "start")
                      /\ [][~ Disturbance]_vars => []Rules(p))
<1>1. Rules(p) /\ Pure(p) => Serves(p) /\ ~ Getting(p)
  BY DEF Rules, Pure, LadderRules, Serves, Getting
<1>2. IInv /\ StartInv /\ Serves(p) /\ Rules(p) /\ report = "start"
        /\ (report = "start")' /\ [Next]_vars /\ [~ Disturbance]_vars
        => Serves(p)' /\ Rules(p)'
  <2> SUFFICES ASSUME IInv, StartInv, Serves(p), Rules(p), report = "start",
                      report' = "start", [Next /\ ~ Disturbance]_vars
               PROVE  Serves(p)' /\ Rules(p)'
    OBVIOUS
  <2>1. Serves(p)'
    BY ServesOn
  <2>2. daemon'[p].at = "running"
    <3>0. daemon \in [Daemons -> DaemonStates] /\ daemon[p].at \in Holding
      BY DEF IInv, TypeOK, Rules, Holding, Named
    <3>1. CASE Next /\ ~ Disturbance
      <4>1. CASE DaemonStep(p) \/ Tick(p)
        <5>1. Tick(p) \/ Write(p)
          BY <4>1 DEF DaemonStep, Acquire, Refused, Boots, FirstPass, EnterLoop,
                      Ends, Reached, Rules
        <5>2. CASE Tick(p)
          BY <3>0, <5>2 DEF Tick, Ladder, Moves, Rules, Applies, Rest
        <5>3. CASE Write(p)
          BY <3>0, <5>3 DEF Write, Moves, Wrote, Rest, DaemonStates, Rules
        <5> QED BY <5>1, <5>2, <5>3
      <4>2. CASE daemon'[p] = daemon[p]
        BY <4>2 DEF Rules
      <4> QED BY <3>0, <3>1, <4>1, <4>2, AfterStart
    <3>2. CASE UNCHANGED vars
      BY <3>2 DEF vars, Rules
    <3> QED BY <3>1, <3>2
  <2>3. LadderRules'
    BY <2>1, <2>2 DEF Serves, LadderRules
  <2> QED BY <2>1, <2>2, <2>3 DEF Rules
<1> QED BY <1>1, <1>2, Invariant, StartInvariant, PTL DEF Spec

===============================================================================
