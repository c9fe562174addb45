------------------------------ MODULE Telemetry ------------------------------
(***************************************************************************)
(* The daemon's battery log and temperature warnings                        *)
(* (maybe_sample_health, daemon/daemon.rs), and the reports of `health` and *)
(* the dashboard, over a battery that is swapped, plugged in and heats up   *)
(* between any two reads.  Ages are in ticks of five seconds, and count     *)
(* what the clock says, which may be set.                                   *)
(***************************************************************************)
EXTENDS Gauge, Calendar

CONSTANTS
  Interval,    \* HEALTH_LOG_INTERVAL_SECS
  WarnGap,     \* TEMP_WARN_INTERVAL_SECS
  Back,        \* how far the clock may be set back
  Batteries,   \* what may be in the bay, or that it is empty
  Temps,       \* the values of battery_temp_warn_c
  NoLimit,     \* None
  NoRow,       \* it has appended none
  Never        \* the stamp 0

ASSUME Gaps == Interval \in Nat \ {0} /\ WarnGap \in 1..Interval /\ Back \in Nat
ASSUME NeverIsNoNumber == Never \notin Int

VARIABLES
  battery,     \* what is in the bay
  online,      \* a supply is online
  logging,     \* battery_health_log
  limit,       \* battery_temp_warn_c
  daemon,      \* "on" or "off"
  found,       \* LinuxBattery.discovered of the daemon: what the bay held when
               \* it was started
  due,         \* a tick is due
  job,         \* the call of maybe_sample_health under way
  sinceLog,    \* now - last_health_log
  sinceWarn,   \* now - last_temp_warn
  row,         \* the line the call under way has appended
  gap,         \* history: ticks since the last attempt to append, as they are
  setClock     \* history: the clock was set since

settings == <<logging, limit>>
world == <<battery, online>>
stamps == <<sinceLog, sinceWarn>>
history == <<gap, setClock>>
vars == <<world, settings, daemon, found, due, job, stamps, row, history>>

Ages == (- Back)..Interval \cup {Never}

Limits == Temps \cup {NoLimit}

(* Is its directory there, and what does it tell: its leaves, and those that
   have one source. *)
Battery == [present : BOOLEAN, reading : Reading, capacity : Numbers, temp : Numbers]

ASSUME BatteriesAssumption == Batteries \subseteq Battery

Pairs == [full : Sizes, design : Sizes]
Row == [pair : Pairs, health : Sizes, temp : Numbers, charging : BOOLEAN,
        capacity : 0..100]

Stations == {"idle", "charging", "logging", "appending", "warning"}

(* The local variables of a call. *)
Job == [at : Stations, logs : BOOLEAN, warns : Limits, pair : Pairs,
        temp : Numbers, charging : BOOLEAN]

Idle == [at |-> "idle", logs |-> FALSE, warns |-> NoLimit, pair |-> NoPair,
         temp |-> NoReading, charging |-> FALSE]

TypeOK ==
  /\ battery \in Batteries
  /\ online \in BOOLEAN
  /\ logging \in BOOLEAN
  /\ limit \in Limits
  /\ daemon \in {"on", "off"}
  /\ found \in BOOLEAN
  /\ due \in BOOLEAN
  /\ job \in Job
  /\ sinceLog \in Ages
  /\ sinceWarn \in Ages
  /\ row \in Row \cup {NoRow}
  /\ gap \in 0..Interval
  /\ setClock \in BOOLEAN

Init ==
  /\ battery \in Batteries
  /\ online \in BOOLEAN
  /\ logging \in BOOLEAN
  /\ limit \in Limits
  /\ daemon = "off"
  /\ found = FALSE
  /\ due = FALSE
  /\ job = Idle
  /\ sinceLog = Never
  /\ sinceWarn = Never
  /\ row = NoRow
  /\ gap = Interval
  /\ setClock = FALSE

-----------------------------------------------------------------------------
(* The daemon.                                                             *)

(* temp_exceeds_limit; the leaf is in tenths of a degree. *)
Exceeds(temp, warns, charging) ==
  charging /\ temp # NoReading /\ warns # NoLimit /\ temp > 10 * warns

Due(since, after) == since # Never => since >= after

(* health(): a battery that was not there when the daemon was started tells
   nothing, whatever is in the bay now (battery.rs:246-253). *)
PairNow == IF found THEN HealthPair(battery.reading) ELSE NoPair
TempNow == IF found THEN battery.temp ELSE NoReading

(* maybe_sample_health loads the configuration; a torn file reads as both
   off.  With both off nothing is read. *)
SampleBegins ==
  /\ daemon = "on"
  /\ due
  /\ job.at = "idle"
  /\ due' = FALSE
  /\ \E torn \in BOOLEAN :
       LET logs == logging /\ ~ torn
           warns == IF torn THEN NoLimit ELSE limit
       IN job' = IF ~ logs /\ warns = NoLimit THEN Idle
                 ELSE [Idle EXCEPT !.at = "charging",
                                   !.logs = logs,
                                   !.warns = warns,
                                   !.pair = PairNow,
                                   !.temp = TempNow]
  /\ UNCHANGED <<world, settings, daemon, found, stamps, row, history>>

(* Mutant: nothing is sampled on battery. *)
ReadsChargingOnly ==
  /\ job.at = "charging"
  /\ \E status \in {"Charging", "Discharging", "Full"} :
       job' = IF Charging(online, status)
              THEN [job EXCEPT !.at = "logging", !.charging = TRUE]
              ELSE Idle
  /\ UNCHANGED <<world, settings, daemon, found, due, stamps, row, history>>

(* The plug may have been pulled since the temperature was read. *)
ReadsCharging ==
  /\ job.at = "charging"
  /\ \E status \in {"Charging", "Discharging", "Full"} :
       job' = [job EXCEPT !.at = "logging",
                          !.charging = Charging(online, status)]
  /\ UNCHANGED <<world, settings, daemon, found, due, stamps, row, history>>

LogsNothing ==
  /\ job.at = "logging"
  /\ ~ (job.logs /\ Due(sinceLog, Interval))
  /\ job' = [job EXCEPT !.at = "warning"]
  /\ UNCHANGED <<world, settings, daemon, found, due, stamps, row, history>>

(* Mutant: the stamp is forgotten. *)
LogsUnstamped ==
  /\ job.at = "logging"
  /\ job.logs
  /\ Due(sinceLog, Interval)
  /\ gap' = 0
  /\ setClock' = FALSE
  /\ job' = [job EXCEPT !.at = "appending"]
  /\ UNCHANGED <<world, settings, daemon, found, due, stamps, row>>

(* The time is stored before the line is appended ... *)
Stamps ==
  /\ job.at = "logging"
  /\ job.logs
  /\ Due(sinceLog, Interval)
  /\ sinceLog' = 0
  /\ gap' = 0
  /\ setClock' = FALSE
  /\ job' = [job EXCEPT !.at = "appending"]
  /\ UNCHANGED <<world, settings, daemon, found, due, sinceWarn, row>>

(* ... with the percentage of now and the rest of before.  Without a battery
   found the percentage is that of BAT0, which may be another bay ... *)
Appends ==
  /\ job.at = "appending"
  /\ \E capacity \in {battery.capacity} \cup (IF found THEN {} ELSE {NoReading}) :
       row' = [pair |-> job.pair, health |-> HealthPct(job.pair),
               temp |-> job.temp, charging |-> job.charging,
               capacity |-> Percentage(capacity)]
  /\ job' = [job EXCEPT !.at = "warning"]
  /\ UNCHANGED <<world, settings, daemon, found, due, stamps, history>>

(* ... which may fail, and is not tried again before its time. *)
AppendFails ==
  /\ job.at = "appending"
  /\ job' = [job EXCEPT !.at = "warning"]
  /\ UNCHANGED <<world, settings, daemon, found, due, stamps, row, history>>

(* Mutant: one warning and no more. *)
WarnableOnce ==
  Exceeds(job.temp, job.warns, job.charging) /\ sinceWarn = Never

Warnable ==
  Exceeds(job.temp, job.warns, job.charging) /\ Due(sinceWarn, WarnGap)

Warns ==
  /\ job.at = "warning"
  /\ Warnable
  /\ sinceWarn' = 0
  /\ job' = Idle
  /\ row' = NoRow
  /\ UNCHANGED <<world, settings, daemon, found, due, sinceLog, history>>

KeepsQuiet ==
  /\ job.at = "warning"
  /\ ~ Warnable
  /\ job' = Idle
  /\ row' = NoRow
  /\ UNCHANGED <<world, settings, daemon, found, due, stamps, history>>

(* DaemonRunner::new: the battery is looked for, now and never again, the
   stamps start at 0, and run samples at once. *)
DaemonStarts ==
  /\ daemon = "off"
  /\ daemon' = "on"
  /\ found' = battery.present
  /\ due' = TRUE
  /\ sinceLog' = Never
  /\ sinceWarn' = Never
  /\ gap' = Interval
  /\ setClock' = FALSE
  /\ UNCHANGED <<world, settings, job, row>>

(* Stopped between two ticks or killed in the middle of one. *)
DaemonEnds ==
  /\ daemon = "on"
  /\ daemon' = "off"
  /\ found' = FALSE
  /\ due' = FALSE
  /\ job' = Idle
  /\ row' = NoRow
  /\ UNCHANGED <<world, settings, stamps, history>>

-----------------------------------------------------------------------------
(* The clock, the battery and the user.                                    *)

(* What an age becomes k ticks later by the clock: beyond the interval and
   before -Back it makes no difference. *)
Older(age, k) ==
  IF age = Never THEN Never
  ELSE IF age + k > Interval THEN Interval
  ELSE IF age + k < - Back THEN - Back ELSE age + k

TimePasses ==
  /\ ~ due
  /\ job.at = "idle"
  /\ due' = (daemon = "on")
  /\ sinceLog' = Older(sinceLog, 1)
  /\ sinceWarn' = Older(sinceWarn, 1)
  /\ gap' = IF gap = Interval THEN gap ELSE gap + 1
  /\ UNCHANGED <<world, settings, daemon, found, job, row, setClock>>

(* Somebody, or the network time, sets the clock. *)
ClockIsSet ==
  /\ \E k \in {- Back, Interval} :
       /\ sinceLog' = Older(sinceLog, k)
       /\ sinceWarn' = Older(sinceWarn, k)
  /\ setClock' = TRUE
  /\ UNCHANGED <<world, settings, daemon, found, due, job, row, gap>>

WorldChanges ==
  /\ \/ battery' \in Batteries /\ UNCHANGED online
     \/ online' = ~ online /\ UNCHANGED battery
  /\ UNCHANGED <<settings, daemon, found, due, job, stamps, row, history>>

SettingsChange ==
  /\ \/ logging' = ~ logging /\ UNCHANGED limit
     \/ limit' \in Limits /\ UNCHANGED logging
  /\ UNCHANGED <<world, daemon, found, due, job, stamps, row, history>>

-----------------------------------------------------------------------------
SampleGoesOn ==
  \/ ReadsCharging
  \/ LogsNothing
  \/ Stamps
  \/ Appends
  \/ AppendFails
  \/ Warns
  \/ KeepsQuiet

Next ==
  \/ SampleBegins
  \/ SampleGoesOn
  \/ DaemonStarts
  \/ DaemonEnds
  \/ TimePasses
  \/ ClockIsSet
  \/ WorldChanges
  \/ SettingsChange

Spec == Init /\ [][Next]_vars

(* Time passes, a tick that is due comes, and a call that has begun ends. *)
Fairness ==
  /\ WF_vars(TimePasses)
  /\ WF_vars(SampleBegins)
  /\ WF_vars(SampleGoesOn)

FairSpec == Spec /\ Fairness

-----------------------------------------------------------------------------
(* Properties.                                                             *)

(* "append a battery health sample (CSV) to the health log every hour"
   (config.rs:157): a daemon tries once in an interval, whatever is switched
   on and off in between and whether or not the line could be written, unless
   somebody sets the clock (daemon.rs:488-490). *)
SamplesAreSpaced ==
  [][job.at = "logging" /\ job'.at = "appending" =>
       gap = Interval \/ setClock]_vars

(* Health is never computed from the full capacity of one source and the
   design capacity of another: charges and energies do not mix
   (battery.rs:255-283). *)
RowKeepsPairsApart ==
  row # NoRow =>
    \E b \in Batteries, i \in 1..4 :
      row.pair \in {PairOf(b.reading, HealthOrder[i]), NoPair}

(* The hours that are left are worked out at the consumption that is shown
   beside them: two functions with different orders of sources agree on every
   battery whose uevent repeats its files, but for one that tells a power and
   no energy, where the hours go by current and voltage while the power is shown
   (battery.rs:152-237).  Both read at one moment. *)
TimeAgreesWithWatts ==
  LET r == battery.reading
      f == r["file"]
  IN Mirrored(r) /\ Flows(r) =>
       Remaining(r).power =
         IF f["power_now"] # NoReading /\ f["energy_now"] = NoReading
         THEN Magnitude(f["current_now"]) * f["voltage_now"]
         ELSE Watts(r)

(* The stamps that lines get follow the civil calendar, through eras, leap years
   and years that begin in March (daemon.rs:93-108).  This is DatesFollow, a fact
   of that arithmetic, evaluated where a line is written: a row has no date here,
   and of the day of sampling nothing is said. *)
LinesAreDated == row # NoRow => DatesFollow

(* What keeps samples and warnings away: restarts, a clock set again and again
   and configurations that do not parse. *)
Disturbance ==
  \/ ClockIsSet
  \/ DaemonEnds
  \/ SampleBegins /\ logging # job'.logs /\ logging
  \/ SampleBegins /\ limit # job'.warns

(* The log goes on for as long as it is asked for: after lines that could not
   be written, and after the clock was set back, however far. *)
LogGoesOn ==
  <>[](logging /\ daemon = "on") =>
    \/ []<><<Disturbance>>_vars
    \/ []<><<Appends \/ AppendFails>>_vars

(* A pack that stays over the limit while it charges is warned about again and
   again, not once (daemon.rs:500-509), provided there was one in the bay when
   the daemon was started: it does not look for one again. *)
HotIsReported ==
  <>[](/\ daemon = "on" /\ found
       /\ online
       /\ Exceeds(battery.temp, limit, TRUE)) =>
    \/ []<><<Disturbance>>_vars
    \/ []<><<Warns>>_vars
=============================================================================
