------------------------------ MODULE Settings ------------------------------
(***************************************************************************)
(* The configuration file and everybody who reads and saves it: the         *)
(* commands, which load it, change one setting and save the whole           *)
(* (cli/main.rs), elevating themselves where they must                      *)
(* (platform/privilege.rs); the dashboards, which save the copy they loaded *)
(* when they were opened; and the daemon, which reads it on every tick.     *)
(* Nobody locks it, and saving is two system calls: fs::write truncates the *)
(* file, then writes it (core/config.rs).                                   *)
(***************************************************************************)
EXTENDS Naturals, FiniteSets

CONSTANTS
  Fields,      \* the settings of Config
  Elevating,   \* those whose command elevates itself: the charge limit
  Careless,    \* those whose command ignores a failed save: auto-brightness,
               \* and auto_extreme_enabled, which start and stop set
  Commands,    \* command processes
  Users,       \* those of them that are not root
  Dashboards,
  Torn,        \* the text of a file that does not parse, or is not there
  Closed       \* the copy of a dashboard that is not open

ASSUME KindsOfFields ==
  /\ Fields # {} /\ IsFiniteSet(Fields)
  /\ Elevating \subseteq Fields /\ Careless \subseteq Fields
ASSUME UsersAreCommands == Users \subseteq Commands
ASSUME ActorsDiffer == Commands \cap Dashboards = {}

VARIABLES
  text,      \* what a reader finds in the file: a configuration, or Torn
  size,      \* the length of the file
  job,       \* what each command and dashboard is in the middle of
  dash,      \* the copy in the memory of each dashboard
  view,      \* the configuration the daemon goes by
  asked,     \* history: the settings somebody has ever turned on
  raced,     \* history: who goes by something the file may no longer say
  excuse     \* history: there is a reason for the file to be torn

vars == <<text, size, job, dash, view, asked, raced, excuse>>

Actors == Commands \cup Dashboards

(* A setting is on or, by default, off: every Option and flag of Config. *)
Config == [Fields -> BOOLEAN]
Default == [f \in Fields |-> FALSE]

(* Mutant: a file that does not parse turns everything on. *)
ParsedAsOn(t) == IF t = Torn THEN [f \in Fields |-> TRUE] ELSE t

(* load_or_default. *)
Parsed(t) == IF t = Torn THEN Default ELSE t

ASSUME TornIsNoConfig == Torn \notin Config
ASSUME ClosedIsNoConfig == Closed \notin Config

(* What matters of the length of the JSON text: false and null are longer than
   true and a number, so a setting that is off takes more room. *)
Length(c) == 1 + Cardinality({f \in Fields : ~ c[f]})

Escalators == {"none", "sudo -n", "sudo", "pkexec"}

Stages == {"idle", "elevating", "starting", "loaded", "truncated", "saved",
           "done"}

(* how: as whom the command runs, or which escalator is next while it is
   elevating; mem: what it is about to save; ok: what it is about to report. *)
Job == [stage : Stages, field : Fields, value : BOOLEAN, how : Escalators,
        mem : Config, ok : BOOLEAN]

Idle == [stage |-> "idle", field |-> CHOOSE f \in Fields : TRUE,
         value |-> FALSE, how |-> "none", mem |-> Default, ok |-> FALSE]

TypeOK ==
  /\ text \in Config \cup {Torn}
  /\ size \in Nat
  /\ job \in [Actors -> Job]
  /\ dash \in [Dashboards -> Config \cup {Closed}]
  /\ view \in Config
  /\ asked \subseteq Fields
  /\ raced \subseteq Actors
  /\ excuse \in BOOLEAN

At(a, stage) == job[a].stage = stage

Goes(a, stage) == job' = [job EXCEPT ![a].stage = stage]

(* Who still goes by what the file said when it was loaded. *)
GoesByFile ==
  {a \in Actors : job[a].stage \notin {"idle", "elevating", "starting"}}
    \cup {d \in Dashboards : dash[d] # Closed}

Writing == {a \in Actors : At(a, "truncated")}

(* Nothing has been saved yet: the file is missing. *)
Init ==
  /\ text = Torn
  /\ size = 0
  /\ job = [a \in Actors |-> Idle]
  /\ dash = [d \in Dashboards |-> Closed]
  /\ view = Default
  /\ asked = {}
  /\ raced = {}
  /\ excuse = TRUE

-----------------------------------------------------------------------------
(* Commands.                                                               *)

Remembers(f, v) == asked' = IF v THEN asked \cup {f} ELSE asked

(* The arms of cli::run.  A user's command that neither elevates itself nor
   can do without root says so and ends: no step. *)
Begin(c, f, v) ==
  /\ At(c, "idle")
  /\ c \in Users => f \in Elevating \cup Careless
  /\ LET elevates == c \in Users /\ f \in Elevating
     IN job' = [job EXCEPT ![c] =
                  [Idle EXCEPT !.stage = IF elevates THEN "elevating"
                                                     ELSE "starting",
                               !.field = f,
                               !.value = v,
                               !.how = IF elevates THEN "sudo -n" ELSE "none"]]
  /\ Remembers(f, v)
  /\ UNCHANGED <<text, size, dash, view, raced, excuse>>

(* rerun_elevated: the next escalator lets the command through ... *)
Authorised(c) ==
  /\ At(c, "elevating")
  /\ Goes(c, "starting")
  /\ UNCHANGED <<text, size, dash, view, asked, raced, excuse>>

(* ... or there is no such program, no terminal to prompt on, or sudo -n
   refuses. *)
Following == [s \in {"sudo -n", "sudo"} |->
               IF s = "sudo -n" THEN "sudo" ELSE "pkexec"]

TriesNext(c) ==
  /\ At(c, "elevating")
  /\ job[c].how \in {"sudo -n", "sudo"}
  /\ job' = [job EXCEPT ![c].how = Following[@]]
  /\ UNCHANGED <<text, size, dash, view, asked, raced, excuse>>

(* A password that is wrong, a dialog that is dismissed, no pkexec. *)
Refused(c) ==
  /\ At(c, "elevating")
  /\ job[c].how \in {"sudo", "pkexec"}
  /\ job' = [job EXCEPT ![c].stage = "done", ![c].ok = FALSE]
  /\ UNCHANGED <<text, size, dash, view, asked, raced, excuse>>

(* Mutant: the command starts from the defaults. *)
LoadsNothing(c) ==
  /\ At(c, "starting")
  /\ job' = [job EXCEPT ![c] =
       [@ EXCEPT !.stage = "loaded",
                 !.mem = [Default EXCEPT ![job[c].field] = job[c].value]]]
  /\ raced' = raced \ {c}
  /\ UNCHANGED <<text, size, dash, view, asked, excuse>>

(* load_or_default, and the assignment to the one field. *)
Load(c) ==
  /\ At(c, "starting")
  /\ job' = [job EXCEPT ![c] =
       [@ EXCEPT !.stage = "loaded",
                 !.mem = [Parsed(text) EXCEPT ![job[c].field] = job[c].value]]]
  /\ raced' = raced \ {c}
  /\ UNCHANGED <<text, size, dash, view, asked, excuse>>

-----------------------------------------------------------------------------
(* Saving, step by step.                                                   *)

(* Everybody else now goes by what the file no longer says. *)
Races(a) == raced' = raced \cup (GoesByFile \ {a})

(* What a command does with the exit code of its inner run: sudo -n that ends
   with 1 counts as a refusal, whoever said 1. *)
After(j, ok) ==
  IF j.how = "sudo -n" /\ ~ ok
  THEN [Idle EXCEPT !.stage = "elevating", !.how = "sudo",
                    !.field = j.field, !.value = j.value]
  ELSE [j EXCEPT !.stage = "done", !.ok = ok]

(* Mutant: the result of a save is ignored everywhere. *)
SaveEndsWell(a, ok) ==
  job' = [job EXCEPT ![a] =
            IF a \in Dashboards THEN Idle ELSE After(@, TRUE)]

(* The end of a save, for better or worse.  A dashboard ignores which, and so
   do the brightness command, start and stop. *)
SaveEnds(a, ok) ==
  job' = [job EXCEPT ![a] =
            IF a \in Dashboards THEN Idle
            ELSE After(@, ok \/ job[a].field \in Careless)]

(* Mutant: the file is opened without being truncated. *)
OpenOnly(a) ==
  /\ At(a, "loaded")
  /\ a \in Users => job[a].how # "none"
  /\ Goes(a, "truncated")
  /\ Races(a)
  /\ UNCHANGED <<text, size, dash, view, asked, excuse>>

(* fs::write opens the file and truncates it ... *)
Truncate(a) ==
  /\ At(a, "loaded")
  /\ a \in Users => job[a].how # "none"
  /\ text' = Torn
  /\ size' = 0
  /\ Goes(a, "truncated")
  /\ Races(a)
  /\ excuse' = (excuse \/ Writing # {})
  /\ UNCHANGED <<dash, view, asked>>

(* ... or may not.  A dashboard keeps what it could not save in its copy. *)
CannotOpen(a) ==
  /\ At(a, "loaded")
  /\ SaveEnds(a, FALSE)
  /\ raced' = raced \cup ({a} \cap Dashboards)
  /\ UNCHANGED <<text, size, dash, view, asked, excuse>>

(* The text goes over what another save has written since, and is followed by
   what that one was longer. *)
Write(a) ==
  /\ At(a, "truncated")
  /\ LET whole == Length(job[a].mem) >= size
     IN /\ text' = IF whole THEN job[a].mem ELSE Torn
        /\ size' = IF whole THEN Length(job[a].mem) ELSE size
        /\ excuse' = (excuse /\ ~ (whole /\ Writing = {a}))
  /\ Races(a)
  /\ IF a \in Commands /\ job[a].field \in Elevating
     THEN Goes(a, "saved") ELSE SaveEnds(a, TRUE)
  /\ UNCHANGED <<dash, view, asked>>

(* The disk is full: the file stays empty. *)
WriteFails(a) ==
  /\ At(a, "truncated")
  /\ SaveEnds(a, FALSE)
  /\ raced' = raced \cup ({a} \cap Dashboards)
  /\ excuse' = TRUE
  /\ UNCHANGED <<text, size, dash, view, asked>>

(* set_charge_limit goes on to the hardware, which may have no threshold. *)
Applies(c) ==
  /\ At(c, "saved")
  /\ \E ok \in BOOLEAN : SaveEnds(c, ok)
  /\ UNCHANGED <<text, size, dash, view, asked, raced, excuse>>

Ends(c) ==
  /\ At(c, "done")
  /\ job' = [job EXCEPT ![c] = Idle]
  /\ raced' = raced \ {c}
  /\ UNCHANGED <<text, size, dash, view, asked, excuse>>

(* Killed at any point. *)
Dies(a) ==
  /\ ~ At(a, "idle")
  /\ job' = [job EXCEPT ![a] = Idle]
  /\ dash' = [d \in Dashboards |-> IF d = a THEN Closed ELSE dash[d]]
  /\ raced' = raced \ {a}
  /\ excuse' = (excuse \/ At(a, "truncated"))
  /\ UNCHANGED <<text, size, view, asked>>

-----------------------------------------------------------------------------
(* Dashboards and the daemon.                                              *)

DashOpens(d) ==
  /\ dash[d] = Closed
  /\ dash' = [dash EXCEPT ![d] = Parsed(text)]
  /\ UNCHANGED <<text, size, job, view, asked, raced, excuse>>

(* A row changes its setting in the copy and persists the copy. *)
DashSets(d, f, v) ==
  /\ At(d, "idle")
  /\ dash[d] # Closed
  /\ dash' = [dash EXCEPT ![d][f] = v]
  /\ job' = [job EXCEPT ![d] =
       [@ EXCEPT !.stage = "loaded", !.field = f, !.value = v,
                 !.mem = dash'[d]]]
  /\ Remembers(f, v)
  /\ UNCHANGED <<text, size, view, raced, excuse>>

DashCloses(d) ==
  /\ At(d, "idle")
  /\ dash[d] # Closed
  /\ dash' = [dash EXCEPT ![d] = Closed]
  /\ raced' = raced \ {d}
  /\ UNCHANGED <<text, size, job, view, asked, excuse>>

(* DaemonRunner::config, at the start of every tick. *)
DaemonReads ==
  /\ view' = Parsed(text)
  /\ UNCHANGED <<text, size, job, dash, asked, raced, excuse>>

-----------------------------------------------------------------------------
Save(a) == Truncate(a) \/ CannotOpen(a) \/ Write(a) \/ WriteFails(a)

CommandStep(c) ==
  \/ \E f \in Fields, v \in BOOLEAN : Begin(c, f, v)
  \/ Authorised(c)
  \/ TriesNext(c)
  \/ Refused(c)
  \/ Load(c)
  \/ Save(c)
  \/ Applies(c)
  \/ Ends(c)
  \/ Dies(c)

DashStep(d) ==
  \/ DashOpens(d)
  \/ \E f \in Fields, v \in BOOLEAN : DashSets(d, f, v)
  \/ Save(d)
  \/ DashCloses(d)
  \/ Dies(d)

Next ==
  \/ \E c \in Commands : CommandStep(c)
  \/ \E d \in Dashboards : DashStep(d)
  \/ DaemonReads

Spec == Init /\ [][Next]_vars

-----------------------------------------------------------------------------
(* Properties.                                                             *)

(* "Opt-in": whatever has become of the file, torn, garbled or missing, the
   daemon acts on no setting that nobody has ever turned on
   (config.rs:144-146). *)
OnlyAsked == \A f \in Fields : view[f] => f \in asked

(* The file is torn only while somebody saves it, or because it was never
   saved, a save died or failed halfway, or two saves met; and one save that
   is left alone repairs it. *)
TornNeedsExcuse == text = Torn => excuse \/ Writing # {}

(* A save that nobody has come before since its load changes one setting and
   keeps every other one (main.rs:201-205, 249-263, 287-306). *)
LoneSaveKeepsRest ==
  [][\A a \in Actors :
       At(a, "loaded") /\ job'[a].stage = "truncated" /\ a \notin raced =>
         \A f \in Fields \ {job[a].field} : job[a].mem[f] = Parsed(text)[f]]_vars

(* A command that reports success has saved its setting: elevated or not,
   unless somebody else has saved since it loaded the file, the file says what
   was asked for.  The brightness command, start and stop, which ignore a failed
   save, are the exceptions. *)
SuccessMeansSaved ==
  \A c \in Commands :
    /\ At(c, "done")
    /\ job[c].ok
    /\ job[c].field \notin Careless
    /\ c \notin raced
    => text # Torn /\ text[job[c].field] = job[c].value

-----------------------------------------------------------------------------
(* The file as a store: what SettingsProofs shows it to implement.         *)

(* What has been saved: from the moment the file is truncated on, what is
   being written. *)
Stored == IF Writing = {} THEN Parsed(text)
          ELSE job[CHOOSE a \in Writing : TRUE].mem

Store == INSTANCE ConfigStore WITH config <- Stored

(* Nobody writes who has been come before since it loaded the file. *)
NobodyOvertaken == Writing \cap raced = {}

(* A save that is lost halfway: the disk is full, or its process dies. *)
SaveLost == \E a \in Actors : At(a, "truncated") /\ (WriteFails(a) \/ Dies(a))

===============================================================================
