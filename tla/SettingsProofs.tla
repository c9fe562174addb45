---------------------------- MODULE SettingsProofs ----------------------------
(***************************************************************************)
(* What holds of the configuration file however many commands, users,       *)
(* dashboards and settings there are.                                       *)
(***************************************************************************)
EXTENDS Settings, FiniteSetTheorems, TLAPS

-----------------------------------------------------------------------------
(* The inductive invariant, in parts.                                      *)

Known(c) == \A f \in Fields : c[f] => f \in asked

(* A setting that is on anywhere was turned on by somebody. *)
NothingUnasked ==
  /\ Known(view)
  /\ text # Torn => Known(text)
  /\ \A a \in Actors : Known(job[a].mem) /\ (job[a].value => job[a].field \in asked)
  /\ \A d \in Dashboards : dash[d] # Closed => Known(dash[d])

(* Without an excuse one save at a time is between its two calls, and it
   writes to an empty file. *)
OneWriter ==
  ~ excuse => /\ \A a, b \in Writing : a = b
              /\ Writing # {} => size = 0
              /\ Writing = {} => text # Torn

(* What is being saved has the setting that was asked for, and is the copy of
   the dashboard that saves it. *)
Memory ==
  /\ \A a \in Actors :
       job[a].stage \in {"loaded", "truncated"} => job[a].mem[job[a].field] = job[a].value
  /\ \A d \in Dashboards :
       /\ job[d].stage \in {"idle", "loaded", "truncated"}
       /\ job[d].stage # "idle" => dash[d] = job[d].mem

HasSaved(a) == text # Torn /\ text[job[a].field] = job[a].value

(* Whoever is not raced goes by what the file says. *)
Current(a) ==
  /\ At(a, "loaded") =>
       \A f \in Fields \ {job[a].field} : job[a].mem[f] = Parsed(text)[f]
  /\ At(a, "truncated") => text = Torn /\ size = 0
  /\ At(a, "saved") => HasSaved(a)
  /\ a \in Commands /\ At(a, "done") /\ job[a].ok /\ job[a].field \notin Careless => HasSaved(a)
  /\ a \in Dashboards /\ At(a, "idle") /\ dash[a] # Closed => dash[a] = Parsed(text)

UpToDate == \A a \in Actors : a \notin raced => Current(a)

Inv == TypeOK /\ NothingUnasked /\ OneWriter /\ Memory /\ UpToDate

-----------------------------------------------------------------------------
(* Configurations and jobs.                                                *)

LEMMA LengthType == ASSUME NEW c \in Config PROVE Length(c) \in Nat \ {0}
<1>1. Cardinality({f \in Fields : ~ c[f]}) \in Nat
  BY FS_CardinalityType, FS_Subset, KindsOfFields
<1> QED BY <1>1 DEF Length

LEMMA DefaultType == Default \in Config
BY DEF Default, Config

LEMMA ParsedType == ASSUME NEW t \in Config \cup {Torn} PROVE Parsed(t) \in Config
BY DefaultType DEF Parsed

LEMMA IdleType ==
  /\ Idle \in Job
  /\ Idle.stage = "idle" /\ Idle.mem = Default /\ Idle.value = FALSE
BY DefaultType, KindsOfFields DEF Idle, Job, Stages, Escalators

LEMMA ChangeOfJob ==
  ASSUME TypeOK, NEW a \in Actors, NEW j \in Job, job' = [job EXCEPT ![a] = j]
  PROVE  /\ job' \in [Actors -> Job]
         /\ job'[a] = j
         /\ \A b \in Actors : b # a => job'[b] = job[b]
BY DEF TypeOK

(* What the end of a save makes of a job. *)
LEMMA AfterType ==
  ASSUME NEW j \in Job, NEW ok \in BOOLEAN
  PROVE  /\ After(j, ok) \in Job
         /\ After(j, ok).field = j.field /\ After(j, ok).value = j.value
         /\ After(j, ok).mem \in {j.mem, Default}
         /\ After(j, ok).stage \in {"elevating", "done"}
         /\ After(j, ok).stage = "done" => After(j, ok).ok = ok
BY DefaultType, KindsOfFields DEF After, Idle, Job, Stages, Escalators


-----------------------------------------------------------------------------
(* Steps that only move a job to a stage without a file in it.             *)

(* A job that is idle, elevating, starting, or done without a success has
   nothing to keep. *)
Resting(a, j) ==
  /\ j.stage \in {"idle", "elevating", "starting", "done"}
  /\ j.stage = "done" => ~ j.ok \/ j.field \in Careless
  /\ a \in Dashboards => j.stage = "idle" /\ (dash'[a] = Closed \/ a \in raced')

LEMMA RestingStep ==
  ASSUME Inv, NEW a \in Actors, NEW j \in Job, job' = [job EXCEPT ![a] = j],
         Resting(a, j),
         j.mem \in {job[a].mem, Default},
         j.value => j.field \in asked',
         asked \subseteq asked', asked' \subseteq Fields,
         raced \ {a} \subseteq raced', raced' \subseteq Actors,
         excuse' = (excuse \/ At(a, "truncated")),
         \A d \in Dashboards : dash'[d] \in {dash[d], Closed} /\ (d # a => dash'[d] = dash[d]),
         dash' \in [Dashboards -> Config \cup {Closed}],
         UNCHANGED <<text, size, view>>
  PROVE  Inv'
<1>j. /\ job' \in [Actors -> Job] /\ job'[a] = j
      /\ \A b \in Actors : b # a => job'[b] = job[b]
  BY ChangeOfJob DEF Inv
<1>d. Dashboards \subseteq Actors
  BY DEF Actors
<1>1. TypeOK'
  BY <1>j DEF Inv, TypeOK
<1>2. NothingUnasked'
  <2>1. Known(Default)'
    BY DEF Known, Default
  <2>2. \A b \in Actors : Known(job[b].mem)'
    BY <1>j, <2>1 DEF Inv, NothingUnasked, Known
  <2>3. \A b \in Actors : job'[b].value => job'[b].field \in asked'
    BY <1>j DEF Inv, NothingUnasked
  <2>4. Known(view)' /\ (text' # Torn => Known(text)')
    BY DEF Inv, NothingUnasked, Known
  <2>5. \A d \in Dashboards : dash'[d] # Closed => Known(dash[d])'
    BY DEF Inv, NothingUnasked, Known
  <2> QED BY <2>2, <2>3, <2>4, <2>5 DEF NothingUnasked
<1>3. OneWriter'
  <2>1. CASE At(a, "truncated")
    BY <2>1 DEF OneWriter, Inv, TypeOK
  <2>2. CASE ~ At(a, "truncated")
    <3>1. Writing' = Writing
      BY <1>j, <2>2 DEF Writing, At, Resting
    <3> QED BY <2>2, <3>1 DEF OneWriter, Inv, TypeOK
  <2> QED BY <2>1, <2>2
<1>4. Memory'
  BY <1>j, <1>d DEF Memory, Inv, Resting
<1>5. UpToDate'
  <2> SUFFICES ASSUME NEW b \in Actors, b \notin raced' PROVE Current(b)'
    BY DEF UpToDate
  <2>1. CASE b = a
    BY <2>1, <1>j DEF Current, At, Resting
  <2>2. CASE b # a
    <3>1. b \notin raced /\ Current(b)
      BY <2>2 DEF Inv, UpToDate
    <3> QED BY <3>1, <2>2, <1>j DEF Current, At, HasSaved, Parsed
  <2> QED BY <2>1, <2>2
<1> QED BY <1>1, <1>2, <1>3, <1>4, <1>5 DEF Inv

LEMMA BeginKeeps ==
  ASSUME Inv, NEW c \in Commands, NEW f \in Fields, NEW v \in BOOLEAN, Begin(c, f, v)
  PROVE  Inv'
<1> DEFINE elevates == c \in Users /\ f \in Elevating
           j == [Idle EXCEPT !.stage = IF elevates THEN "elevating" ELSE "starting",
                             !.field = f, !.value = v,
                             !.how = IF elevates THEN "sudo -n" ELSE "none"]
<1>1. c \in Actors /\ c \notin Dashboards
  BY ActorsDiffer DEF Actors
<1>2. /\ j \in Job /\ j.stage \in {"elevating", "starting"} /\ j.mem = Default
      /\ j.field = f /\ j.value = v
  BY DefaultType DEF Idle, Job, Stages, Escalators
<1>3. job' = [job EXCEPT ![c] = j]
  BY DEF Begin
<1>4. At(c, "idle") /\ UNCHANGED <<text, size, dash, view, raced, excuse>>
  BY DEF Begin
<1>5. asked' = IF v THEN asked \cup {f} ELSE asked
  BY DEF Begin, Remembers
<1>6. ~ At(c, "truncated")
  BY <1>4 DEF At
<1> HIDE DEF j
<1>7. Resting(c, j)
  BY <1>1, <1>2 DEF Resting
<1> QED
  BY <1>1, <1>2, <1>3, <1>4, <1>5, <1>6, <1>7, RestingStep DEF Inv, TypeOK

LEMMA AuthorisedKeeps ==
  ASSUME Inv, NEW c \in Commands, Authorised(c)  PROVE Inv'
<1> DEFINE j == [job[c] EXCEPT !.stage = "starting"]
<1>1. c \in Actors /\ c \notin Dashboards
  BY ActorsDiffer DEF Actors
<1>2. job[c] \in Job
  BY <1>1 DEF Inv, TypeOK
<1>3. /\ j \in Job /\ j.stage = "starting" /\ j.mem = job[c].mem
      /\ j.field = job[c].field /\ j.value = job[c].value
  BY <1>2 DEF Job, Stages
<1>4. job' = [job EXCEPT ![c] = j]
  BY <1>1 DEF Authorised, Goes, Inv, TypeOK
<1>5. ~ At(c, "truncated") /\ UNCHANGED <<text, size, dash, view, asked, raced, excuse>>
  BY DEF Authorised, At
<1> HIDE DEF j
<1>6. Resting(c, j) /\ (j.value => j.field \in asked)
  BY <1>1, <1>3 DEF Resting, Inv, NothingUnasked
<1> QED
  BY <1>1, <1>3, <1>4, <1>5, <1>6, RestingStep DEF Inv, TypeOK

LEMMA TriesNextKeeps ==
  ASSUME Inv, NEW c \in Commands, TriesNext(c)  PROVE Inv'
<1> DEFINE j == [job[c] EXCEPT !.how = Following[@]]
<1>1. c \in Actors /\ c \notin Dashboards
  BY ActorsDiffer DEF Actors
<1>2. job[c] \in Job /\ job[c].how \in {"sudo -n", "sudo"} /\ job[c].stage = "elevating"
  BY <1>1 DEF Inv, TypeOK, TriesNext, At
<1>3. Following[job[c].how] \in Escalators
  BY <1>2 DEF Following, Escalators
<1>4. /\ j \in Job /\ j.stage = "elevating" /\ j.mem = job[c].mem
      /\ j.field = job[c].field /\ j.value = job[c].value
  BY <1>2, <1>3 DEF Job
<1>5. job' = [job EXCEPT ![c] = j]
  BY <1>1 DEF TriesNext, Inv, TypeOK
<1>6. ~ At(c, "truncated") /\ UNCHANGED <<text, size, dash, view, asked, raced, excuse>>
  BY DEF TriesNext, At
<1> HIDE DEF j
<1>7. Resting(c, j) /\ (j.value => j.field \in asked)
  BY <1>1, <1>4 DEF Resting, Inv, NothingUnasked
<1> QED
  BY <1>1, <1>4, <1>5, <1>6, <1>7, RestingStep DEF Inv, TypeOK

LEMMA RefusedKeeps ==
  ASSUME Inv, NEW c \in Commands, Refused(c)  PROVE Inv'
<1> DEFINE j == [job[c] EXCEPT !.stage = "done", !.ok = FALSE]
<1>1. c \in Actors /\ c \notin Dashboards
  BY ActorsDiffer DEF Actors
<1>2. job[c] \in Job
  BY <1>1 DEF Inv, TypeOK
<1>3. /\ j \in Job /\ j.stage = "done" /\ j.ok = FALSE /\ j.mem = job[c].mem
      /\ j.field = job[c].field /\ j.value = job[c].value
  BY <1>2 DEF Job, Stages
<1>4. job' = [job EXCEPT ![c] = j]
  BY <1>1 DEF Refused, Inv, TypeOK
<1>5. ~ At(c, "truncated") /\ UNCHANGED <<text, size, dash, view, asked, raced, excuse>>
  BY DEF Refused, At
<1> HIDE DEF j
<1>6. Resting(c, j) /\ (j.value => j.field \in asked)
  BY <1>1, <1>3 DEF Resting, Inv, NothingUnasked
<1> QED
  BY <1>1, <1>3, <1>4, <1>5, <1>6, RestingStep DEF Inv, TypeOK

(* A job that becomes idle, and a copy that is closed or races. *)
LEMMA IdleStep ==
  ASSUME Inv, NEW a \in Actors, job' = [job EXCEPT ![a] = Idle],
         raced \ {a} \subseteq raced', raced' \subseteq Actors,
         a \in Dashboards => dash'[a] = Closed \/ a \in raced',
         excuse' = (excuse \/ At(a, "truncated")),
         \A d \in Dashboards : dash'[d] \in {dash[d], Closed} /\ (d # a => dash'[d] = dash[d]),
         dash' \in [Dashboards -> Config \cup {Closed}],
         UNCHANGED <<text, size, view, asked>>
  PROVE  Inv'
<1>1. Resting(a, Idle)
  BY IdleType DEF Resting
<1> QED
  BY <1>1, IdleType, RestingStep DEF Inv, TypeOK

LEMMA EndsKeeps == ASSUME Inv, NEW c \in Commands, Ends(c)  PROVE Inv'
<1>1. c \in Actors /\ c \notin Dashboards
  BY ActorsDiffer DEF Actors
<1> QED
  BY <1>1, IdleStep DEF Ends, At, Inv, TypeOK

LEMMA DiesKeeps == ASSUME Inv, NEW a \in Actors, Dies(a)  PROVE Inv'
<1>1. dash' \in [Dashboards -> Config \cup {Closed}]
  BY DEF Dies, Inv, TypeOK
<1>2. \A d \in Dashboards : dash'[d] = IF d = a THEN Closed ELSE dash[d]
  BY DEF Dies
<1> QED
  BY <1>1, <1>2, IdleStep DEF Dies, Inv, TypeOK

(* A save that ends badly. *)
LEMMA FailedSave ==
  ASSUME Inv, NEW a \in Actors, SaveEnds(a, FALSE),
         At(a, "loaded") \/ At(a, "truncated"),
         raced' = raced \cup ({a} \cap Dashboards),
         excuse' = (excuse \/ At(a, "truncated")),
         UNCHANGED <<text, size, dash, view, asked>>
  PROVE  Inv'
<1>1. CASE a \in Dashboards
  BY <1>1, IdleStep DEF SaveEnds, Inv, TypeOK
<1>2. CASE a \notin Dashboards
  <2> DEFINE ok == FALSE \/ job[a].field \in Careless
             j == After(job[a], ok)
  <2>1. job[a] \in Job /\ job' = [job EXCEPT ![a] = j]
    BY <1>2 DEF SaveEnds, Inv, TypeOK
  <2>2. ok \in BOOLEAN /\ (ok => job[a].field \in Careless)
    OBVIOUS
  <2> HIDE DEF ok
  <2>3. /\ j \in Job /\ j.field = job[a].field /\ j.value = job[a].value
        /\ j.mem \in {job[a].mem, Default} /\ j.stage \in {"elevating", "done"}
        /\ j.stage = "done" => j.ok = ok
    BY <2>1, <2>2, AfterType
  <2> HIDE DEF j
  <2>4. Resting(a, j) /\ (j.value => j.field \in asked)
    BY <1>2, <2>2, <2>3 DEF Resting, Inv, NothingUnasked
  <2> QED
    BY <2>1, <2>3, <2>4, RestingStep DEF Inv, TypeOK
<1> QED BY <1>1, <1>2

LEMMA CannotOpenKeeps == ASSUME Inv, NEW a \in Actors, CannotOpen(a)  PROVE Inv'
<1>1. ~ At(a, "truncated")
  BY DEF CannotOpen, At
<1> QED
  BY <1>1, FailedSave DEF CannotOpen, Inv, TypeOK

LEMMA WriteFailsKeeps == ASSUME Inv, NEW a \in Actors, WriteFails(a)  PROVE Inv'
BY FailedSave DEF WriteFails, Inv, TypeOK

-----------------------------------------------------------------------------
(* Loading, and setting a row of a dashboard.                              *)

LEMMA LoadedStep ==
  ASSUME Inv, NEW a \in Actors, NEW j \in Job, job' = [job EXCEPT ![a] = j],
         j.stage = "loaded", j.mem[j.field] = j.value,
         ~ At(a, "truncated"),
         a \notin raced' => \A f \in Fields \ {j.field} : j.mem[f] = Parsed(text)[f],
         \A f \in Fields : j.mem[f] => f \in asked',
         j.value => j.field \in asked',
         asked \subseteq asked', asked' \subseteq Fields,
         raced \ {a} \subseteq raced', raced' \subseteq Actors,
         dash' \in [Dashboards -> Config \cup {Closed}],
         \A d \in Dashboards : IF d = a THEN dash'[d] = j.mem ELSE dash'[d] = dash[d],
         UNCHANGED <<text, size, view, excuse>>
  PROVE  Inv'
<1>j. /\ job' \in [Actors -> Job] /\ job'[a] = j
      /\ \A b \in Actors : b # a => job'[b] = job[b]
  BY ChangeOfJob DEF Inv
<1>d. Dashboards \subseteq Actors
  BY DEF Actors
<1>1. TypeOK'
  BY <1>j DEF Inv, TypeOK
<1>2. NothingUnasked'
  <2>1. \A b \in Actors : Known(job[b].mem)'
    BY <1>j DEF Inv, NothingUnasked, Known
  <2>2. \A b \in Actors : job'[b].value => job'[b].field \in asked'
    BY <1>j DEF Inv, NothingUnasked
  <2>3. Known(view)' /\ (text' # Torn => Known(text)')
    BY DEF Inv, NothingUnasked, Known
  <2>4. \A d \in Dashboards : dash'[d] # Closed => Known(dash[d])'
    BY DEF Inv, NothingUnasked, Known
  <2> QED BY <2>1, <2>2, <2>3, <2>4 DEF NothingUnasked
<1>3. OneWriter'
  <2>1. Writing' = Writing
    BY <1>j DEF Writing, At
  <2> QED BY <2>1 DEF OneWriter, Inv
<1>4. Memory'
  BY <1>j, <1>d DEF Memory, Inv
<1>5. UpToDate'
  <2> SUFFICES ASSUME NEW b \in Actors, b \notin raced' PROVE Current(b)'
    BY DEF UpToDate
  <2>1. CASE b = a
    BY <2>1, <1>j DEF Current, At, Parsed
  <2>2. CASE b # a
    <3>1. b \notin raced /\ Current(b)
      BY <2>2 DEF Inv, UpToDate
    <3> QED BY <3>1, <2>2, <1>j DEF Current, At, HasSaved, Parsed
  <2> QED BY <2>1, <2>2
<1> QED BY <1>1, <1>2, <1>3, <1>4, <1>5 DEF Inv

LEMMA LoadKeeps == ASSUME Inv, NEW c \in Commands, Load(c)  PROVE Inv'
<1> DEFINE mem == [Parsed(text) EXCEPT ![job[c].field] = job[c].value]
           j == [job[c] EXCEPT !.stage = "loaded", !.mem = mem]
<1>1. c \in Actors /\ c \notin Dashboards
  BY ActorsDiffer DEF Actors
<1>2. job[c] \in Job /\ Parsed(text) \in Config
  BY <1>1, ParsedType DEF Inv, TypeOK
<1>3. job[c].field \in Fields /\ job[c].value \in BOOLEAN
  BY <1>2 DEF Job
<1>4. /\ mem \in Config /\ mem[job[c].field] = job[c].value
      /\ \A f \in Fields \ {job[c].field} : mem[f] = Parsed(text)[f]
  BY <1>2, <1>3 DEF Config
<1>5. Known(mem) /\ (job[c].value => job[c].field \in asked)
  <2>1. Known(Parsed(text)) /\ (job[c].value => job[c].field \in asked)
    BY <1>1 DEF Inv, NothingUnasked, Known, Parsed, Default
  <2> QED BY <2>1, <1>3, <1>4 DEF Known
<1> HIDE DEF mem
<1>6. /\ j \in Job /\ j.stage = "loaded" /\ j.mem = mem
      /\ j.field = job[c].field /\ j.value = job[c].value
  BY <1>2, <1>4 DEF Job, Stages
<1>7. job' = [job EXCEPT ![c] = j]
  BY DEF Load, mem
<1>8. /\ ~ At(c, "truncated") /\ raced' = raced \ {c}
      /\ UNCHANGED <<text, size, dash, view, asked, excuse>>
  BY DEF Load, At
<1> HIDE DEF j
<1>9. \A f \in Fields : j.mem[f] => f \in asked'
  BY <1>5, <1>6, <1>8 DEF Known
<1> QED
  BY <1>1, <1>4, <1>5, <1>6, <1>7, <1>8, <1>9, LoadedStep DEF Inv, TypeOK

LEMMA DashSetsKeeps ==
  ASSUME Inv, NEW d \in Dashboards, NEW f \in Fields, NEW v \in BOOLEAN, DashSets(d, f, v)
  PROVE  Inv'
<1> DEFINE mem == [dash[d] EXCEPT ![f] = v]
           j == [job[d] EXCEPT !.stage = "loaded", !.field = f, !.value = v, !.mem = mem]
<1>1. d \in Actors /\ d \notin Commands
  BY ActorsDiffer DEF Actors
<1>2. At(d, "idle") /\ dash[d] # Closed /\ dash[d] \in Config /\ job[d] \in Job
  BY <1>1 DEF DashSets, Inv, TypeOK
<1>3. /\ mem \in Config /\ mem[f] = v
      /\ \A g \in Fields \ {f} : mem[g] = dash[d][g]
  BY <1>2 DEF Config
<1>4. dash' = [dash EXCEPT ![d] = mem]
  BY DEF DashSets, Inv, TypeOK
<1>5. dash' \in [Dashboards -> Config \cup {Closed}] /\ dash'[d] = mem
  BY <1>3, <1>4 DEF Inv, TypeOK
<1>6. job' = [job EXCEPT ![d] = j]
  BY <1>5 DEF DashSets
<1>7. /\ asked' = IF v THEN asked \cup {f} ELSE asked
      /\ UNCHANGED <<text, size, view, raced, excuse>>
  BY DEF DashSets, Remembers
<1>8. \A g \in Fields : mem[g] => g \in asked'
  <2>1. Known(dash[d])
    BY <1>2 DEF Inv, NothingUnasked
  <2> QED BY <2>1, <1>3, <1>7 DEF Known
<1>9. d \notin raced => \A g \in Fields \ {f} : mem[g] = Parsed(text)[g]
  BY <1>1, <1>2, <1>3 DEF Inv, UpToDate, Current
<1>10. \A e \in Dashboards : IF e = d THEN dash'[e] = mem ELSE dash'[e] = dash[e]
  BY <1>4, <1>5 DEF Inv, TypeOK
<1>11. ~ At(d, "truncated")
  BY <1>2 DEF At
<1> HIDE DEF mem
<1>12. /\ j \in Job /\ j.stage = "loaded" /\ j.mem = mem
       /\ j.field = f /\ j.value = v
  BY <1>2, <1>3 DEF Job, Stages
<1> HIDE DEF j
<1>13. \A g \in Fields : j.mem[g] => g \in asked'
  BY <1>8, <1>12
<1>14. asked \subseteq asked' /\ asked' \subseteq Fields /\ raced \subseteq Actors
  BY <1>7 DEF Inv, TypeOK
<1>15. v => f \in asked'
  BY <1>7
<1>16. j.mem[j.field] = j.value /\ (j.value => j.field \in asked')
  BY <1>3, <1>12, <1>15
<1>17. d \notin raced' => \A g \in Fields \ {j.field} : j.mem[g] = Parsed(text)[g]
  BY <1>7, <1>9, <1>12
<1>18. \A e \in Dashboards : IF e = d THEN dash'[e] = j.mem ELSE dash'[e] = dash[e]
  BY <1>10, <1>12
<1> QED
  BY <1>1, <1>5, <1>6, <1>7, <1>11, <1>12, <1>13, <1>14, <1>16, <1>17, <1>18, LoadedStep

-----------------------------------------------------------------------------
(* Saving.                                                                 *)

(* Who is not raced after a save by somebody else goes by nothing. *)
LEMMA OthersRace ==
  ASSUME Inv, NEW a \in Actors, Races(a), dash' = dash,
         NEW b \in Actors, b # a, b \notin raced', job'[b] = job[b]
  PROVE  Current(b)'
<1>1. b \notin GoesByFile
  BY DEF Races
<1>2. /\ job[b].stage \in {"idle", "elevating", "starting"}
      /\ b \in Dashboards => dash[b] = Closed
  BY <1>1 DEF GoesByFile
<1> QED BY <1>2 DEF Current, At

LEMMA RacesType ==
  ASSUME Inv, NEW a \in Actors, Races(a)
  PROVE  raced' \subseteq Actors /\ (a \notin raced' => a \notin raced)
BY DEF Races, GoesByFile, Actors, Inv, TypeOK

LEMMA TruncateKeeps == ASSUME Inv, NEW a \in Actors, Truncate(a)  PROVE Inv'
<1> DEFINE j == [job[a] EXCEPT !.stage = "truncated"]
<1>1. job[a] \in Job /\ job[a].stage = "loaded"
  BY DEF Inv, TypeOK, Truncate, At
<1>2. /\ j \in Job /\ j.stage = "truncated" /\ j.mem = job[a].mem
      /\ j.field = job[a].field /\ j.value = job[a].value
  BY <1>1 DEF Job, Stages
<1>3. job' = [job EXCEPT ![a] = j]
  BY DEF Truncate, Goes, Inv, TypeOK
<1> HIDE DEF j
<1>j. /\ job' \in [Actors -> Job] /\ job'[a] = j
      /\ \A b \in Actors : b # a => job'[b] = job[b]
  BY <1>2, <1>3, ChangeOfJob DEF Inv
<1>d. Dashboards \subseteq Actors
  BY DEF Actors
<1>4. /\ text' = Torn /\ size' = 0 /\ Races(a) /\ excuse' = (excuse \/ Writing # {})
      /\ UNCHANGED <<dash, view, asked>>
  BY DEF Truncate
<1>5. TypeOK'
  <2>1. excuse' \in BOOLEAN
    BY <1>4
  <2> QED BY <2>1, <1>j, <1>4, RacesType DEF Inv, TypeOK
<1>6. NothingUnasked'
  BY <1>2, <1>j, <1>4 DEF Inv, NothingUnasked, Known
<1>7. OneWriter'
  <2> SUFFICES ASSUME ~ excuse' PROVE Writing' = {a}
    BY <1>4 DEF OneWriter
  <2>1. Writing = {}
    BY <1>4
  <2> QED BY <2>1, <1>2, <1>j DEF Writing, At
<1>8. Memory'
  BY <1>1, <1>2, <1>j, <1>4, <1>d DEF Memory, Inv
<1>9. UpToDate'
  <2> SUFFICES ASSUME NEW b \in Actors, b \notin raced' PROVE Current(b)'
    BY DEF UpToDate
  <2>1. CASE b = a
    BY <2>1, <1>2, <1>j, <1>4 DEF Current, At
  <2>2. CASE b # a
    BY <2>2, <1>j, <1>4, OthersRace
  <2> QED BY <2>1, <2>2
<1> QED BY <1>5, <1>6, <1>7, <1>8, <1>9 DEF Inv

(* The whole text, or a torn one; j is the job when it has been written. *)
LEMMA WriteStep ==
  ASSUME Inv, NEW a \in Actors, Write(a),
         NEW j \in Job, job' = [job EXCEPT ![a] = j],
         j.mem \in {job[a].mem, Default},
         j.value => j.field \in asked,
         IF a \in Dashboards THEN j.stage = "idle"
         ELSE /\ j.stage \in {"saved", "done", "elevating"}
              /\ j.field = job[a].field /\ j.value = job[a].value
  PROVE  Inv'
<1>j. /\ job' \in [Actors -> Job] /\ job'[a] = j
      /\ \A b \in Actors : b # a => job'[b] = job[b]
  BY ChangeOfJob DEF Inv
<1>d. Dashboards \subseteq Actors
  BY DEF Actors
<1> DEFINE whole == Length(job[a].mem) >= size
<1>1. /\ text' = IF whole THEN job[a].mem ELSE Torn
      /\ size' = IF whole THEN Length(job[a].mem) ELSE size
      /\ excuse' = (excuse /\ ~ (whole /\ Writing = {a}))
      /\ Races(a) /\ UNCHANGED <<dash, view, asked>>
  BY DEF Write
<1>2. At(a, "truncated") /\ job[a].mem \in Config /\ Length(job[a].mem) \in Nat \ {0}
  BY LengthType DEF Write, Inv, TypeOK, Job
<1>3. size = 0 => whole
  BY <1>2
<1>4. whole \in BOOLEAN
  OBVIOUS
<1> HIDE DEF whole
<1>5. TypeOK'
  <2>1. excuse' \in BOOLEAN
    BY <1>1
  <2>2. text' \in Config \cup {Torn} /\ size' \in Nat
    BY <1>1, <1>2 DEF Inv, TypeOK
  <2> QED BY <2>1, <2>2, <1>j, <1>1, RacesType DEF Inv, TypeOK
<1>6. NothingUnasked'
  <2>1. Known(job[a].mem) /\ Known(Default)
    BY DEF Inv, NothingUnasked, Known, Default
  <2> QED BY <2>1, <1>j, <1>1 DEF Inv, NothingUnasked, Known
<1>7. OneWriter'
  <2> SUFFICES ASSUME ~ excuse' PROVE Writing' = {} /\ text' # Torn
    BY DEF OneWriter
  <2>1. a \in Writing /\ Writing' = Writing \ {a}
    BY <1>2, <1>j DEF Writing, At
  <2>2. Writing = {a} /\ whole
    <3>1. CASE ~ excuse
      BY <3>1, <2>1, <1>3 DEF Inv, OneWriter
    <3>2. CASE excuse
      BY <3>2, <1>1, <1>4
    <3> QED BY <3>1, <3>2
  <2> QED BY <2>1, <2>2, <1>1, <1>2, TornIsNoConfig
<1>8. Memory'
  BY <1>j, <1>1, <1>d DEF Memory, Inv
<1>9. UpToDate'
  <2> SUFFICES ASSUME NEW b \in Actors, b \notin raced' PROVE Current(b)'
    BY DEF UpToDate
  <2>1. CASE b = a
    <3>1. text' = job[a].mem /\ text' # Torn
      <4>1. size = 0
        BY <2>1, <1>1, <1>2, RacesType DEF Inv, UpToDate, Current
      <4> QED BY <4>1, <1>1, <1>2, <1>3, TornIsNoConfig
    <3>2. job[a].mem[job[a].field] = job[a].value
      BY <1>2 DEF Inv, Memory, At
    <3>3. a \in Dashboards => dash'[a] = text'
      BY <3>1, <1>1, <1>2 DEF Inv, Memory, At
    <3> QED
      BY <3>1, <3>2, <3>3, <2>1, <1>j, ActorsDiffer DEF Current, At, HasSaved, Parsed
  <2>2. CASE b # a
    BY <2>2, <1>j, <1>1, OthersRace
  <2> QED BY <2>1, <2>2
<1> QED BY <1>5, <1>6, <1>7, <1>8, <1>9 DEF Inv

LEMMA WriteKeeps == ASSUME Inv, NEW a \in Actors, Write(a)  PROVE Inv'
<1>1. job[a] \in Job /\ (job[a].value => job[a].field \in asked)
  BY DEF Inv, TypeOK, NothingUnasked
<1>2. CASE a \in Commands /\ job[a].field \in Elevating
  <2> DEFINE j == [job[a] EXCEPT !.stage = "saved"]
  <2>1. /\ j \in Job /\ j.stage = "saved" /\ j.mem = job[a].mem
        /\ j.field = job[a].field /\ j.value = job[a].value
    BY <1>1 DEF Job, Stages
  <2>2. job' = [job EXCEPT ![a] = j]
    BY <1>2 DEF Write, Goes, Inv, TypeOK
  <2> HIDE DEF j
  <2> QED BY <1>1, <1>2, <2>1, <2>2, ActorsDiffer, WriteStep
<1>3. CASE a \in Dashboards
  <2>1. job' = [job EXCEPT ![a] = Idle]
    BY <1>3, ActorsDiffer DEF Write, SaveEnds, Inv, TypeOK
  <2> QED BY <1>3, <2>1, IdleType, WriteStep
<1>4. CASE a \notin Dashboards /\ job[a].field \notin Elevating
  <2> DEFINE ok == TRUE \/ job[a].field \in Careless
             j == After(job[a], ok)
  <2>1. job' = [job EXCEPT ![a] = j]
    BY <1>4 DEF Write, SaveEnds, Inv, TypeOK
  <2>2. ok \in BOOLEAN
    OBVIOUS
  <2> HIDE DEF ok
  <2>3. /\ j \in Job /\ j.field = job[a].field /\ j.value = job[a].value
        /\ j.mem \in {job[a].mem, Default} /\ j.stage \in {"elevating", "done"}
    BY <1>1, <2>2, AfterType
  <2> HIDE DEF j
  <2> QED BY <1>1, <1>4, <2>1, <2>3, WriteStep
<1> QED BY <1>2, <1>3, <1>4 DEF Actors

-----------------------------------------------------------------------------
(* What comes after a save, and what touches no job.                       *)

LEMMA AppliesKeeps == ASSUME Inv, NEW c \in Commands, Applies(c)  PROVE Inv'
<1>1. c \in Actors /\ c \notin Dashboards
  BY ActorsDiffer DEF Actors
<1>2. job[c] \in Job /\ (job[c].value => job[c].field \in asked) /\ job[c].stage = "saved"
  BY <1>1 DEF Inv, TypeOK, NothingUnasked, Applies, At
<1>3. PICK hw \in BOOLEAN : SaveEnds(c, hw)
  BY DEF Applies
<1> DEFINE ok == hw \/ job[c].field \in Careless
           j == After(job[c], ok)
<1>4. job' = [job EXCEPT ![c] = j]
  BY <1>1, <1>3 DEF SaveEnds, Inv, TypeOK
<1>5. ok \in BOOLEAN
  BY <1>3
<1> HIDE DEF ok
<1>6. /\ j \in Job /\ j.field = job[c].field /\ j.value = job[c].value
      /\ j.mem \in {job[c].mem, Default} /\ j.stage \in {"elevating", "done"}
  BY <1>2, <1>5, AfterType
<1> HIDE DEF j
<1>j. /\ job' \in [Actors -> Job] /\ job'[c] = j
      /\ \A b \in Actors : b # c => job'[b] = job[b]
  BY <1>1, <1>4, <1>6, ChangeOfJob DEF Inv
<1>d. Dashboards \subseteq Actors
  BY DEF Actors
<1>7. UNCHANGED <<text, size, dash, view, asked, raced, excuse>>
  BY DEF Applies
<1>8. TypeOK'
  BY <1>7, <1>j DEF Inv, TypeOK
<1>9. NothingUnasked'
  <2>1. Known(Default)
    BY DEF Known, Default
  <2> QED BY <2>1, <1>2, <1>6, <1>j, <1>7 DEF Inv, NothingUnasked, Known
<1>10. OneWriter'
  <2>1. Writing' = Writing
    BY <1>2, <1>6, <1>j DEF Writing, At
  <2> QED BY <2>1, <1>7 DEF OneWriter, Inv
<1>11. Memory'
  BY <1>1, <1>6, <1>j, <1>7, <1>d DEF Memory, Inv
<1>12. UpToDate'
  <2> SUFFICES ASSUME NEW b \in Actors, b \notin raced' PROVE Current(b)'
    BY DEF UpToDate
  <2>1. b \notin raced /\ Current(b)
    BY <1>7 DEF Inv, UpToDate
  <2>2. CASE b = c
    BY <2>1, <2>2, <1>1, <1>2, <1>6, <1>j, <1>7 DEF Current, At, HasSaved
  <2>3. CASE b # c
    BY <2>1, <2>3, <1>j, <1>7 DEF Current, At, HasSaved, Parsed
  <2> QED BY <2>2, <2>3
<1> QED BY <1>8, <1>9, <1>10, <1>11, <1>12 DEF Inv

(* Steps that leave the file and every job alone. *)
LEMMA QuietStep ==
  ASSUME Inv, UNCHANGED <<text, size, job, asked, excuse>>,
         view' \in Config, Known(view)',
         dash' \in [Dashboards -> Config \cup {Closed}],
         raced' \subseteq Actors,
         \A d \in Dashboards :
           dash'[d] # dash[d] => At(d, "idle") /\ dash'[d] \in {Closed, Parsed(text)},
         \A a \in Actors : a \in raced \ raced' =>
           a \in Dashboards /\ At(a, "idle") /\ dash'[a] = Closed
  PROVE  Inv'
<1>d. Dashboards \subseteq Actors
  BY DEF Actors
<1>1. TypeOK'
  BY DEF Inv, TypeOK
<1>2. NothingUnasked'
  <2>1. Known(Parsed(text))
    BY DEF Inv, NothingUnasked, Known, Parsed, Default
  <2>2. \A d \in Dashboards : dash'[d] # Closed => Known(dash[d])'
    BY <2>1 DEF Inv, NothingUnasked, Known
  <2> QED BY <2>2 DEF Inv, NothingUnasked, Known
<1>3. OneWriter'
  BY DEF Inv, OneWriter, Writing, At
<1>4. Memory'
  BY <1>d DEF Inv, Memory, At
<1>5. UpToDate'
  <2> SUFFICES ASSUME NEW a \in Actors, a \notin raced' PROVE Current(a)'
    BY DEF UpToDate
  <2>1. CASE a \in raced
    BY <2>1, ActorsDiffer DEF Current, At
  <2>2. CASE a \notin raced
    <3>1. Current(a)
      BY <2>2 DEF Inv, UpToDate
    <3> QED BY <3>1 DEF Current, At, HasSaved, Parsed
  <2> QED BY <2>1, <2>2
<1> QED BY <1>1, <1>2, <1>3, <1>4, <1>5 DEF Inv

LEMMA QuietSteps ==
  ASSUME Inv,
         DaemonReads \/ (\E d \in Dashboards : DashOpens(d) \/ DashCloses(d)) \/ UNCHANGED vars
  PROVE  Inv'
<1>1. Parsed(text) \in Config /\ Known(Parsed(text))
  <2>1. Known(Parsed(text))
    BY DEF Inv, NothingUnasked, Known, Parsed, Default
  <2> QED BY <2>1, ParsedType DEF Inv, TypeOK
<1>2. view \in Config /\ Known(view) /\ raced \subseteq Actors
      /\ dash \in [Dashboards -> Config \cup {Closed}]
  BY DEF Inv, TypeOK, NothingUnasked
<1>3. CASE DaemonReads
  <2>1. Known(view)'
    BY <1>1, <1>3 DEF DaemonReads, Known
  <2> QED BY <2>1, <1>1, <1>2, <1>3, QuietStep DEF DaemonReads
<1>4. CASE UNCHANGED vars
  <2>1. Known(view)'
    BY <1>2, <1>4 DEF Known, vars
  <2> QED BY <2>1, <1>2, <1>4, QuietStep DEF vars
<1>5. ASSUME NEW d \in Dashboards, DashOpens(d)  PROVE Inv'
  <2>1. Known(view)'
    BY <1>2, <1>5 DEF Known, DashOpens
  <2>2. d \in Actors /\ job[d] \in Job /\ At(d, "idle")
    BY <1>5, ClosedIsNoConfig DEF DashOpens, Inv, TypeOK, Memory, Actors, At, Job
  <2> QED BY <2>1, <2>2, <1>1, <1>2, <1>5, QuietStep DEF DashOpens
<1>6. ASSUME NEW d \in Dashboards, DashCloses(d)  PROVE Inv'
  <2>1. Known(view)'
    BY <1>2, <1>6 DEF Known, DashCloses
  <2> QED BY <2>1, <1>2, <1>6, QuietStep DEF DashCloses
<1> QED BY <1>3, <1>4, <1>5, <1>6

-----------------------------------------------------------------------------
(* The theorems.                                                           *)

LEMMA InvInit == Init => Inv
<1> SUFFICES ASSUME Init PROVE Inv
  OBVIOUS
<1>1. \A a \in Actors : job[a] = Idle
  BY DEF Init
<1>2. job \in [Actors -> Job]
  BY IdleType DEF Init
<1>3. TypeOK
  BY <1>2, DefaultType DEF Init, TypeOK
<1>4. NothingUnasked
  BY <1>1, IdleType DEF Init, NothingUnasked, Known, Default
<1>5. OneWriter
  BY DEF Init, OneWriter
<1>6. Memory
  BY <1>1, IdleType DEF Init, Memory, Actors
<1>7. UpToDate
  BY <1>1, IdleType DEF Init, UpToDate, Current, At
<1> QED BY <1>3, <1>4, <1>5, <1>6, <1>7 DEF Inv

LEMMA InvNext == Inv /\ [Next]_vars => Inv'
<1> SUFFICES ASSUME Inv, [Next]_vars PROVE Inv'
  OBVIOUS
<1>a. Commands \subseteq Actors /\ Dashboards \subseteq Actors
  BY DEF Actors
<1>1. ASSUME NEW a \in Actors, Save(a)  PROVE Inv'
  BY <1>1, TruncateKeeps, CannotOpenKeeps, WriteKeeps, WriteFailsKeeps DEF Save
<1>2. ASSUME NEW c \in Commands, CommandStep(c)  PROVE Inv'
  BY <1>a, <1>1, <1>2, BeginKeeps, AuthorisedKeeps, TriesNextKeeps, RefusedKeeps,
     LoadKeeps, AppliesKeeps, EndsKeeps, DiesKeeps DEF CommandStep
<1>3. ASSUME NEW d \in Dashboards, DashStep(d)  PROVE Inv'
  BY <1>a, <1>1, <1>3, QuietSteps, DashSetsKeeps, DiesKeeps DEF DashStep
<1> QED BY <1>2, <1>3, QuietSteps DEF Next

THEOREM InvHolds == Spec => []Inv
BY InvInit, InvNext, PTL DEF Spec

(* Every variable keeps its type, whatever text the file is left with. *)
THEOREM TypeCorrect == Spec => []TypeOK
<1>1. Inv => TypeOK
  BY DEF Inv
<1> QED BY <1>1, InvHolds, PTL

(* The daemon acts on no setting that nobody has ever turned on: a file that
   is torn or missing gives the defaults, and no save adds anything. *)
THEOREM OnlyAskedHolds == Spec => []OnlyAsked
<1>1. Inv => OnlyAsked
  BY DEF Inv, NothingUnasked, Known, OnlyAsked
<1> QED BY <1>1, InvHolds, PTL

(* However many save, the file is torn only while one of them does, or if two
   saves met or one was lost halfway. *)
THEOREM TornNeedsExcuseHolds == Spec => []TornNeedsExcuse
<1>1. Inv => TornNeedsExcuse
  BY DEF Inv, OneWriter, TornNeedsExcuse
<1> QED BY <1>1, InvHolds, PTL

(* A command that reports success and was not raced has saved its setting. *)
THEOREM SuccessMeansSavedHolds == Spec => []SuccessMeansSaved
<1>1. Inv => SuccessMeansSaved
  BY DEF Inv, UpToDate, Current, HasSaved, SuccessMeansSaved, Actors
<1> QED BY <1>1, InvHolds, PTL

(* A save that was not raced keeps every setting but its own. *)
THEOREM LoneSaveKeepsRestHolds == Spec => LoneSaveKeepsRest
<1>1. Inv =>
        [\A a \in Actors :
           At(a, "loaded") /\ job'[a].stage = "truncated" /\ a \notin raced =>
             \A f \in Fields \ {job[a].field} : job[a].mem[f] = Parsed(text)[f]]_vars
  BY DEF Inv, UpToDate, Current
<1> QED BY <1>1, InvHolds, PTL DEF LoneSaveKeepsRest

-----------------------------------------------------------------------------
(* The file as a store.                                                    *)

(* The last save to truncate the file comes before every other one. *)
AtMostOneInTime == \A a, b \in Writing \ raced : a = b

LEMMA NotTruncated ==
  ASSUME Inv, NEW a \in Actors, NEW j \in Job, job' = [job EXCEPT ![a] = j],
         j.stage # "truncated"
  PROVE  Writing' = Writing \ {a}
BY ChangeOfJob DEF Inv, Writing, At

(* Steps of somebody who does not write, and leaves the file alone. *)
LEMMA AsideStep ==
  ASSUME Inv, NEW a \in Actors, NEW j \in Job, job' = [job EXCEPT ![a] = j],
         ~ At(a, "truncated"), j.stage # "truncated", text' = text
  PROVE  Writing' = Writing /\ Stored' = Stored
<1>1. Writing' = Writing /\ a \notin Writing
  BY NotTruncated DEF Writing
<1>2. \A b \in Writing : job'[b] = job[b]
  BY <1>1, ChangeOfJob DEF Inv, Writing
<1>3. CASE Writing = {}
  BY <1>1, <1>3 DEF Stored, Parsed
<1>4. CASE Writing # {}
  <2>1. (CHOOSE b \in Writing : TRUE) \in Writing
    BY <1>4
  <2> QED BY <1>1, <1>2, <1>4, <2>1 DEF Stored
<1> QED BY <1>3, <1>4

(* Steps that move no job. *)
LEMMA StillStep ==
  ASSUME UNCHANGED <<text, job>>
  PROVE  Writing' = Writing /\ Stored' = Stored
BY DEF Writing, At, Stored, Parsed

(* The end of a save leaves nothing to write. *)
LEMMA SaveEndsJob ==
  ASSUME Inv, NEW a \in Actors, NEW ok \in BOOLEAN, SaveEnds(a, ok)
  PROVE  \E j \in Job : job' = [job EXCEPT ![a] = j] /\ j.stage # "truncated"
<1>1. CASE a \in Dashboards
  BY <1>1, IdleType DEF SaveEnds, Inv, TypeOK
<1>2. CASE a \notin Dashboards
  <2> DEFINE good == ok \/ job[a].field \in Careless
             j == After(job[a], good)
  <2>1. job[a] \in Job /\ job' = [job EXCEPT ![a] = j]
    BY <1>2 DEF SaveEnds, Inv, TypeOK
  <2>2. good \in BOOLEAN
    OBVIOUS
  <2> HIDE DEF good
  <2>3. j \in Job /\ j.stage \in {"elevating", "done"}
    BY <2>1, <2>2, AfterType
  <2> QED BY <2>1, <2>3
<1> QED BY <1>1, <1>2

(* A job that has tried to save, or has died, is not writing any more. *)
LEMMA SaveLeaves ==
  ASSUME Inv, NEW a \in Actors,
         Write(a) \/ WriteFails(a) \/ CannotOpen(a) \/ Dies(a)
  PROVE  Writing' = Writing \ {a} /\ raced \ {a} \subseteq raced'
<1>1. CASE Write(a)
  <2>1. \E j \in Job : job' = [job EXCEPT ![a] = j] /\ j.stage # "truncated"
    <3>1. CASE Goes(a, "saved")
      <4>1. job[a] \in Job
        BY DEF Inv, TypeOK
      <4>2. [job[a] EXCEPT !.stage = "saved"] \in Job
        BY <4>1 DEF Job, Stages
      <4>3. [job[a] EXCEPT !.stage = "saved"].stage = "saved"
        BY <4>1 DEF Job
      <4>4. job' = [job EXCEPT ![a] = [job[a] EXCEPT !.stage = "saved"]]
        BY <3>1 DEF Goes, Inv, TypeOK
      <4> QED BY <4>2, <4>3, <4>4
    <3>2. CASE SaveEnds(a, TRUE)
      BY <3>2, SaveEndsJob
    <3> QED BY <1>1, <3>1, <3>2 DEF Write
  <2> QED BY <1>1, <2>1, NotTruncated DEF Write, Races
<1>2. CASE WriteFails(a) \/ CannotOpen(a) \/ Dies(a)
  <2>1. \E j \in Job : job' = [job EXCEPT ![a] = j] /\ j.stage # "truncated"
    BY <1>2, SaveEndsJob, IdleType DEF WriteFails, CannotOpen, Dies
  <2> QED BY <1>2, <2>1, NotTruncated DEF WriteFails, CannotOpen, Dies
<1> QED BY <1>1, <1>2

(* Whoever writes and has not been overtaken writes alone, to an empty file. *)
LEMMA WritesAlone ==
  ASSUME Inv, AtMostOneInTime, NobodyOvertaken, NEW a \in Actors, At(a, "truncated")
  PROVE  Writing = {a} /\ Stored = job[a].mem /\ text = Torn /\ size = 0
<1>1. a \in Writing /\ Writing \ raced = Writing /\ a \notin raced
  BY DEF Writing, NobodyOvertaken
<1>2. Writing = {a}
  BY <1>1 DEF AtMostOneInTime
<1>3. Stored = job[a].mem
  BY <1>2 DEF Stored
<1>4. text = Torn /\ size = 0
  BY <1>1 DEF Inv, UpToDate, Current
<1> QED BY <1>2, <1>3, <1>4

LEMMA TruncateSets ==
  ASSUME Inv, NobodyOvertaken', NEW a \in Actors, Truncate(a)
  PROVE  Store!Sets
<1> DEFINE j == [job[a] EXCEPT !.stage = "truncated"]
<1>1. job[a] \in Job /\ At(a, "loaded") /\ Races(a)
  BY DEF Inv, TypeOK, Truncate
<1>2. j \in Job /\ j.stage = "truncated" /\ j.mem = job[a].mem
  BY <1>1 DEF Job, Stages
<1>3. job' = [job EXCEPT ![a] = j]
  BY DEF Truncate, Goes, Inv, TypeOK
<1> HIDE DEF j
<1>4. job'[a] = j /\ \A b \in Actors : b # a => job'[b] = job[b]
  BY <1>2, <1>3, ChangeOfJob DEF Inv
<1>5. Writing' = Writing \cup {a} /\ a \notin Writing
  BY <1>1, <1>2, <1>4 DEF Writing, At
<1>6. Writing \subseteq GoesByFile
  BY DEF Writing, GoesByFile, At
<1>7. Writing = {}
  BY <1>1, <1>5, <1>6 DEF NobodyOvertaken, Races
<1>8. a \notin raced
  BY <1>1, <1>5 DEF NobodyOvertaken, Races
<1>9. Stored = Parsed(text) /\ Stored' = job[a].mem
  BY <1>2, <1>4, <1>5, <1>7 DEF Stored
<1>10. /\ job[a].mem \in Config /\ job[a].field \in Fields /\ job[a].value \in BOOLEAN
       /\ job[a].mem[job[a].field] = job[a].value
       /\ \A f \in Fields \ {job[a].field} : job[a].mem[f] = Parsed(text)[f]
  BY <1>1, <1>8 DEF Inv, UpToDate, Current, Memory, Job, At
<1>11. Parsed(text) \in Config
  BY ParsedType DEF Inv, TypeOK
<1>12. job[a].mem = [Parsed(text) EXCEPT ![job[a].field] = job[a].value]
  BY <1>10, <1>11 DEF Config
<1> QED BY <1>9, <1>10, <1>12 DEF Store!Sets, Store!Set

LEMMA WriteStores ==
  ASSUME Inv, AtMostOneInTime, NobodyOvertaken, NEW a \in Actors, Write(a)
  PROVE  Stored' = Stored
<1>1. At(a, "truncated")
  BY DEF Write
<1>2. Writing = {a} /\ Stored = job[a].mem /\ size = 0
  BY <1>1, WritesAlone
<1>3. job[a].mem \in Config /\ Length(job[a].mem) \in Nat \ {0}
  BY LengthType DEF Inv, TypeOK, Job
<1>4. text' = job[a].mem
  BY <1>2, <1>3 DEF Write
<1>5. Writing' = {}
  BY <1>2, SaveLeaves
<1> QED BY <1>2, <1>3, <1>4, <1>5, TornIsNoConfig DEF Stored, Parsed

LEMMA LostForgets ==
  ASSUME Inv, AtMostOneInTime, NobodyOvertaken, NEW a \in Actors,
         At(a, "truncated"), WriteFails(a) \/ Dies(a)
  PROVE  Store!Forgets
<1>1. Writing = {a} /\ text = Torn
  BY WritesAlone
<1>2. Writing' = {} /\ text' = Torn
  BY <1>1, SaveLeaves DEF WriteFails, Dies
<1> QED BY <1>2 DEF Stored, Parsed, Default, Store!Forgets, Store!Default

(* Everything else. *)
LEMMA ElseAside ==
  ASSUME Inv, NEW a \in Actors, ~ At(a, "truncated"),
         CannotOpen(a) \/ Dies(a)
  PROVE  Writing' = Writing /\ Stored' = Stored
<1>1. \E j \in Job : job' = [job EXCEPT ![a] = j] /\ j.stage # "truncated"
  BY SaveEndsJob, IdleType DEF CannotOpen, Dies
<1> QED BY <1>1, AsideStep DEF CannotOpen, Dies

LEMMA CommandAside ==
  ASSUME Inv, NEW c \in Commands,
         \/ \E f \in Fields, v \in BOOLEAN : Begin(c, f, v)
         \/ Authorised(c) \/ TriesNext(c) \/ Refused(c) \/ Load(c)
         \/ Applies(c) \/ Ends(c)
  PROVE  Writing' = Writing /\ Stored' = Stored /\ raced \cap Writing \subseteq raced'
<1>1. c \in Actors /\ job[c] \in Job
  BY DEF Actors, Inv, TypeOK
<1>2. ~ At(c, "truncated") /\ text' = text
  BY DEF At, Begin, Authorised, TriesNext, Refused, Load, Applies, Ends
<1>3. \E j \in Job : job' = [job EXCEPT ![c] = j] /\ j.stage # "truncated"
  <2>1. ASSUME NEW f \in Fields, NEW v \in BOOLEAN, Begin(c, f, v)
        PROVE  \E j \in Job : job' = [job EXCEPT ![c] = j] /\ j.stage # "truncated"
    <3> DEFINE elevates == c \in Users /\ f \in Elevating
               j == [Idle EXCEPT !.stage = IF elevates THEN "elevating" ELSE "starting",
                                 !.field = f, !.value = v,
                                 !.how = IF elevates THEN "sudo -n" ELSE "none"]
    <3>1. j \in Job /\ j.stage \in {"elevating", "starting"}
      BY DefaultType DEF Idle, Job, Stages, Escalators
    <3>2. job' = [job EXCEPT ![c] = j]
      BY <2>1 DEF Begin
    <3> HIDE DEF j
    <3> QED BY <3>1, <3>2
  <2>2. ASSUME Authorised(c)
        PROVE  \E j \in Job : job' = [job EXCEPT ![c] = j] /\ j.stage # "truncated"
    <3> DEFINE j == [job[c] EXCEPT !.stage = "starting"]
    <3>1. j \in Job /\ j.stage = "starting"
      BY <1>1 DEF Job, Stages
    <3>2. job' = [job EXCEPT ![c] = j]
      BY <2>2, <1>1 DEF Authorised, Goes, Inv, TypeOK
    <3> HIDE DEF j
    <3> QED BY <3>1, <3>2
  <2>3. ASSUME TriesNext(c)
        PROVE  \E j \in Job : job' = [job EXCEPT ![c] = j] /\ j.stage # "truncated"
    <3> DEFINE j == [job[c] EXCEPT !.how = Following[@]]
    <3>1. job[c].how \in {"sudo -n", "sudo"} /\ job[c].stage = "elevating"
      BY <2>3 DEF TriesNext, At
    <3>2. Following[job[c].how] \in Escalators
      BY <3>1 DEF Following, Escalators
    <3>3. j \in Job /\ j.stage = "elevating"
      BY <1>1, <3>1, <3>2 DEF Job
    <3>4. job' = [job EXCEPT ![c] = j]
      BY <1>1, <2>3 DEF TriesNext, Inv, TypeOK
    <3> HIDE DEF j
    <3> QED BY <3>3, <3>4
  <2>4. ASSUME Refused(c)
        PROVE  \E j \in Job : job' = [job EXCEPT ![c] = j] /\ j.stage # "truncated"
    <3> DEFINE j == [job[c] EXCEPT !.stage = "done", !.ok = FALSE]
    <3>1. j \in Job /\ j.stage = "done"
      BY <1>1 DEF Job, Stages
    <3>2. job' = [job EXCEPT ![c] = j]
      BY <1>1, <2>4 DEF Refused, Inv, TypeOK
    <3> HIDE DEF j
    <3> QED BY <3>1, <3>2
  <2>5. ASSUME Load(c)
        PROVE  \E j \in Job : job' = [job EXCEPT ![c] = j] /\ j.stage # "truncated"
    <3> DEFINE mem == [Parsed(text) EXCEPT ![job[c].field] = job[c].value]
               j == [job[c] EXCEPT !.stage = "loaded", !.mem = mem]
    <3>1. Parsed(text) \in Config /\ job[c].field \in Fields /\ job[c].value \in BOOLEAN
      BY <1>1, ParsedType DEF Inv, TypeOK, Job
    <3>2. mem \in Config
      BY <3>1 DEF Config
    <3>3. job' = [job EXCEPT ![c] = j]
      BY <2>5 DEF Load
    <3> HIDE DEF mem
    <3>4. j \in Job /\ j.stage = "loaded"
      BY <1>1, <3>2 DEF Job, Stages
    <3> HIDE DEF j
    <3> QED BY <3>3, <3>4
  <2>6. ASSUME Applies(c)
        PROVE  \E j \in Job : job' = [job EXCEPT ![c] = j] /\ j.stage # "truncated"
    BY <1>1, <2>6, SaveEndsJob DEF Applies
  <2>7. ASSUME Ends(c)
        PROVE  \E j \in Job : job' = [job EXCEPT ![c] = j] /\ j.stage # "truncated"
    BY <1>1, <2>7, IdleType DEF Ends
  <2> QED BY <2>1, <2>2, <2>3, <2>4, <2>5, <2>6, <2>7
<1>4. raced \cap Writing \subseteq raced'
  BY DEF Begin, Authorised, TriesNext, Refused, Load, Applies, Ends, Writing, At
<1> QED BY <1>1, <1>2, <1>3, <1>4, AsideStep

LEMMA DashAside ==
  ASSUME Inv, NEW d \in Dashboards,
         \/ DashOpens(d) \/ DashCloses(d)
         \/ \E f \in Fields, v \in BOOLEAN : DashSets(d, f, v)
  PROVE  Writing' = Writing /\ Stored' = Stored /\ raced \cap Writing \subseteq raced'
<1>1. d \in Actors /\ job[d] \in Job
  BY DEF Actors, Inv, TypeOK
<1>2. ASSUME NEW f \in Fields, NEW v \in BOOLEAN, DashSets(d, f, v)
      PROVE  Writing' = Writing /\ Stored' = Stored
  <2> DEFINE mem == [dash[d] EXCEPT ![f] = v]
             j == [job[d] EXCEPT !.stage = "loaded", !.field = f, !.value = v, !.mem = mem]
  <2>1. At(d, "idle") /\ dash[d] \in Config /\ text' = text
    BY <1>2 DEF DashSets, Inv, TypeOK
  <2>2. mem \in Config
    BY <2>1 DEF Config
  <2>3. dash'[d] = mem
    BY <1>2, <2>1 DEF DashSets, Inv, TypeOK
  <2>4. job' = [job EXCEPT ![d] = j]
    BY <1>2, <2>3 DEF DashSets
  <2> HIDE DEF mem
  <2>5. j \in Job /\ j.stage = "loaded"
    BY <1>1, <2>2 DEF Job, Stages
  <2>6. ~ At(d, "truncated")
    BY <2>1 DEF At
  <2> HIDE DEF j
  <2> QED BY <1>1, <2>1, <2>4, <2>5, <2>6, AsideStep
<1>3. ASSUME DashOpens(d) \/ DashCloses(d)
      PROVE  Writing' = Writing /\ Stored' = Stored
  BY <1>3, StillStep DEF DashOpens, DashCloses
<1>4. raced \cap Writing \subseteq raced'
  BY DEF DashOpens, DashCloses, DashSets, Writing, At
<1> QED BY <1>2, <1>3, <1>4

LEMMA StoreStep ==
  ASSUME Inv, AtMostOneInTime, NobodyOvertaken, NobodyOvertaken', [Next]_vars
  PROVE  \/ Store!Sets
         \/ Store!Forgets /\ SaveLost
         \/ Stored' = Stored
<1>a. Commands \subseteq Actors /\ Dashboards \subseteq Actors
  BY DEF Actors
<1> DEFINE Goal == Store!Sets \/ (Store!Forgets /\ SaveLost) \/ Stored' = Stored
<1>1. ASSUME NEW a \in Actors, Save(a) \/ Dies(a)  PROVE Goal
  <2>1. CASE At(a, "truncated") /\ (WriteFails(a) \/ Dies(a))
    BY <2>1, LostForgets DEF SaveLost
  <2>2. CASE Truncate(a)
    BY <2>2, TruncateSets
  <2>3. CASE Write(a)
    BY <2>3, WriteStores
  <2>4. CASE CannotOpen(a)
    <3>1. ~ At(a, "truncated")
      BY <2>4 DEF CannotOpen, At
    <3> QED BY <2>4, <3>1, ElseAside
  <2>5. CASE Dies(a) /\ ~ At(a, "truncated")
    BY <2>5, ElseAside
  <2>6. WriteFails(a) => At(a, "truncated")
    BY DEF WriteFails
  <2> QED BY <1>1, <2>1, <2>2, <2>3, <2>4, <2>5, <2>6 DEF Save
<1>2. ASSUME NEW c \in Commands, CommandStep(c)  PROVE Goal
  BY <1>a, <1>1, <1>2, CommandAside DEF CommandStep
<1>3. ASSUME NEW d \in Dashboards, DashStep(d)  PROVE Goal
  BY <1>a, <1>1, <1>3, DashAside DEF DashStep
<1>4. CASE DaemonReads \/ UNCHANGED vars
  BY <1>4, StillStep DEF DaemonReads, vars
<1> QED BY <1>2, <1>3, <1>4 DEF Next

(* Truncating the file comes before everybody who is about to write. *)
LEMMA OneInTimeNext ==
  ASSUME Inv, AtMostOneInTime, [Next]_vars
  PROVE  AtMostOneInTime'
<1>a. Commands \subseteq Actors /\ Dashboards \subseteq Actors
  BY DEF Actors
<1> DEFINE Fewer == Writing' \ raced' \subseteq Writing \ raced
<1>1. ASSUME NEW a \in Actors, Truncate(a)  PROVE AtMostOneInTime'
  <2>1. Writing' \subseteq Writing \cup {a}
    BY <1>1, ChangeOfJob DEF Truncate, Goes, Writing, At, Inv, TypeOK
  <2>2. Writing \subseteq GoesByFile
    BY DEF Writing, GoesByFile, At
  <2> QED BY <1>1, <2>1, <2>2 DEF Truncate, Races, AtMostOneInTime
<1>2. ASSUME NEW a \in Actors, Write(a) \/ WriteFails(a) \/ CannotOpen(a) \/ Dies(a)
      PROVE  Fewer
  BY <1>2, SaveLeaves
<1>3. ASSUME NEW c \in Commands, CommandStep(c)  PROVE Fewer \/ AtMostOneInTime'
  BY <1>a, <1>1, <1>2, <1>3, CommandAside DEF CommandStep, Save
<1>4. ASSUME NEW d \in Dashboards, DashStep(d)  PROVE Fewer \/ AtMostOneInTime'
  BY <1>a, <1>1, <1>2, <1>4, DashAside DEF DashStep, Save
<1>5. ASSUME DaemonReads \/ UNCHANGED vars  PROVE Fewer
  BY <1>5, StillStep DEF DaemonReads, vars
<1>6. Fewer => AtMostOneInTime'
  BY DEF AtMostOneInTime
<1> QED BY <1>3, <1>4, <1>5, <1>6 DEF Next

LEMMA OneInTimeAlways == Spec => [](Inv /\ AtMostOneInTime)
<1>1. Init => AtMostOneInTime
  BY IdleType DEF Init, AtMostOneInTime, Writing, At
<1>2. Inv /\ AtMostOneInTime /\ [Next]_vars => AtMostOneInTime'
  BY OneInTimeNext
<1> QED BY <1>1, <1>2, InvHolds, PTL DEF Spec

LEMMA StoreInit == Init => Store!Init
<1> SUFFICES ASSUME Init PROVE Store!Init
  OBVIOUS
<1>1. Writing = {}
  BY IdleType DEF Init, Writing, At
<1> QED BY <1>1 DEF Init, Stored, Parsed, Default, Store!Init, Store!Default

(* As long as no save overtakes another one, the file, which is truncated and
   written in two calls by whoever likes and locked by nobody, is a record of
   which one setting changes at a time, or which a lost save resets. *)
THEOREM FileIsLossyStore == Spec /\ []NobodyOvertaken => Store!Lossy
<1>1. Inv /\ AtMostOneInTime /\ NobodyOvertaken /\ NobodyOvertaken' /\ [Next]_vars
        => [Store!Sets \/ Store!Forgets]_Stored
  BY StoreStep
<1> QED BY <1>1, StoreInit, OneInTimeAlways, PTL DEF Spec, Store!Lossy

(* If no save is lost halfway either, it forgets nothing: the store that the
   models of the daemon load and save in one step. *)
THEOREM FileIsStore ==
  Spec /\ []NobodyOvertaken /\ [][~ SaveLost]_vars => Store!Spec
<1>1. Inv /\ AtMostOneInTime /\ NobodyOvertaken /\ NobodyOvertaken'
        /\ [Next]_vars /\ [~ SaveLost]_vars => [Store!Sets]_Stored
  <2> SUFFICES ASSUME Inv, AtMostOneInTime, NobodyOvertaken, NobodyOvertaken',
                      [Next]_vars, [~ SaveLost]_vars
               PROVE  [Store!Sets]_Stored
    OBVIOUS
  <2>1. CASE ~ SaveLost
    BY <2>1, StoreStep
  <2>2. CASE UNCHANGED vars
    BY <2>2, StillStep DEF vars
  <2> QED BY <2>1, <2>2
<1> QED BY <1>1, StoreInit, OneInTimeAlways, PTL DEF Spec, Store!Spec

===============================================================================
