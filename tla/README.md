# WattWarden in TLA+

Specifications, model checks and proofs for WattWarden
(`src/crates/wattwarden-*`), a power manager for laptops: a root daemon, a
command line and a terminal dashboard that all write the same sysfs nodes and
the same files, and coordinate through almost nothing.

## The system

| Component | State it keeps | Operations | Shares with others | What makes it correct |
|---|---|---|---|---|
| Instance lock, `daemon/pid.rs` | an `flock` on `/var/run/wattwarden.pid`; the PID written inside | `acquire`, `release`, `is_running`, `read_pid` | the lock and the file, with every probe and stop command | one daemon at a time; no remnant of a dead one blocks the next; probes tell the truth |
| Daemon runner, `daemon/daemon.rs` | last applied brightness, times of last sample and warnings | `run`: acquire, boot settings, a 5 s tick (ladder, charge limit, health), a 300 ms tick (brightness), shutdown on a signal | configuration (re-read on every tick), sysfs | applies what the saved configuration says and nothing else |
| Configuration, `core/config.rs` | `/etc/wattwarden/config.json` | `load_or_default`, `save` (whole file, not atomic, no lock) | read and written by commands, dashboards and (read) the daemon | a setting stays until somebody changes it |
| Charge threshold, `platform/linux/threshold.rs` | sysfs: end, start and charging mode of each battery | `charge_threshold`, `set_charge_threshold` | daemon, commands, dashboard, firmware | the ceiling lands and stays on every battery |
| Calibration, `core/calibrate.rs` | `/var/lib/wattwarden/calibration.json`: threshold to restore, phase | `start`, `status`, `finish` | the threshold nodes | lifts the ceiling, and gives back what was there |
| CLI, `cli/cli.rs`, `cli/main.rs` | none between runs | one-shot commands, elevation, start/stop of the daemon | all of the above | each command does what it reports |
| Dashboard, `tui/app.rs`, `tui/run.rs` | a copy of the configuration from when it was opened, selection, caches, history | rows that change settings or hardware, stop or start the daemon | all of the above | shows and saves the present, not the past |
| Service, `cli/service.rs`, `daemon/spawn.rs` | unit file, installed binary | install, uninstall, detached spawn | the daemon | keeps one daemon running (`Restart=always`) |
| Ladder and drivers, `platform/linux/{cpu,rapl,gpu,tweaks,...}.rs` | sysfs | scaled or fixed writes | sysfs | targets inside the discovered ranges; a profile lands on every node it means |
| Battery telemetry, `platform/linux/battery.rs`, `daemon/daemon.rs` | times of the last sample and warning | reads with fallbacks, CSV log, warnings | sysfs, the clock | no sources mixed; the log and the warnings go on |
| Elevation, `platform/privilege.rs` | none | `sudo -n`, `sudo`, `pkexec` in this order | reruns the command as root | the command runs, and its outcome is reported |
| Terminal, `tui/ui.rs` | scroll offset | one frame: banner, summary, menu, plot, question | the dashboard's state, the terminal's size | nothing overlaps; the selected row is visible |
| Brightness, `platform/linux/backlight.rs`, `hyprland.rs` | sysfs; the path of the compositor's socket | read and set percent, class of the window | daemon and manual changes | the automatic level arrives while it is on, and ends when it is off |

Hard to get right here: nothing takes a lock around the configuration, the
calibration state or the nodes; every operation is a few system calls that
other processes can come between; processes are killed by signals at any
point; the dashboard works from a copy; probing the instance lock takes it;
PIDs are recycled; batteries, firmware modes and nodes come and go.
`PROJECT.json` lists the hazards at their lines.

## Modules

| Module | Models |
|---|---|
| `SingleInstance` | what the instance lock promises: daemons serve one after the other |
| `InstanceLock` | the lock at the level of system calls |
| `InstanceLockProofs` | its theorems |
| `Lifecycle` | start, stop, profiles, manual adjustments and the service: who is in control of the hardware |
| `LifecycleProofs` | its theorems |
| `ChargeCeiling` | threshold nodes, saved limit and calibration with all their writers |
| `ChargeCeilingProofs` | its theorems |
| `Ladder` | a tick of the Auto Extreme ladder, write by write, and the rows that write the same nodes |
| `MCLadder` | the machine it is checked on |
| `Panel` | the backlight device: raw levels and percentages |
| `Brightness` | auto-brightness against every manual way to set the backlight |
| `AutoExtremeProofs` | the theorems of `Ladder`, of `Panel` and of `Brightness` |
| `ConfigStore` | what the configuration file is taken for: settings that change one at a time |
| `Settings` | the configuration file system call by system call, elevation, and everybody's copies |
| `SettingsProofs` | its theorems |
| `Gauge` | what the battery driver makes of its leaves |
| `Calendar` | the date of a line of the log |
| `Telemetry` | the daemon's log and warnings, over `Gauge` and `Calendar` |
| `MCTelemetry` | the packs it is checked with |
| `TelemetryProofs` | the theorems of `Telemetry`, with those of `Gauge` and `Calendar` they rest on |
| `Hardware` | what each call of a driver does to the nodes, and reads from them |
| `Profiles` | profiles, ticks and rows as sequences of such calls |
| `MCProfiles` | the machines it is checked on |
| `ProfilesProofs` | the theorems of `Profiles`, with those of `Hardware` they rest on |
| `Screen` | the layout of a frame as arithmetic |
| `Dashboard` | the loop of the dashboard: frames, keys, caches, resizing |
| `DashboardProofs` | its theorems, and those about `Screen`, for any size |
| `MCDashboard` | the sizes it is checked with |

### InstanceLock

`proc[p]` is the station of process id `p` in `DaemonRunner::run`: *starting*
(before the lock), *locked* and *truncated* (between the system calls of
`acquire`), *booting* (first pass, no signal handler yet: `wait_for_shutdown`
installs them at its first poll), *running*, *stopping* and *exiting* (the
lock is released). `free` is no such process, `foreign` an unrelated program
that was given the number of a dead daemon. `lock` is the owner of the
`flock`, `pidFile` what `read_pid` returns. Each client has the lock for an
instant (`probing`), the last `answer` of `is_running`, and the PID it has
read but not yet signalled (`target`). Clients are dashboards and commands of
root, and `wattwarden status`, which anybody may run. One action is one system call or the
part of `run` between two of them; `Crash` can come at any station. Clients
not in `RootClients` can neither open the file for writing nor signal.

### Lifecycle

`Script` gives each operation its steps in the order of its function:
`start_background_daemon` and `stop_background_daemon` of the CLI, `profile`,
`service install` and `uninstall`, and the rows of the dashboard that start or
stop the daemon, apply a profile (after stopping it) or adjust the hardware
(after a SIGTERM). Every step is an action, so crashes, reboots, systemd and
the daemons come between any two. `job` is the operation under way, `report`
the last one that returned. `file` holds the two settings that decide who is in
control, `mem` the dashboard's copy while it is `open`.

`svc` is the unit as systemd sees it: *up* (and started again whenever its
process ends, `Restart=always`), *stopping*, *restarting*, *inactive*.
`daemon[p]` is where a daemon is in `DaemonRunner::run` and, in the boot
settings, the first pass or a tick, on whose behalf it writes (`who`) and what
it has yet to write (`todo`). `knob` says who wrote the cores and the RAPL
limits last; the ladder writes RAPL first, `apply_profile` the cores.

Abstractions. One operator does one thing at a time. A load or save of the
configuration is one step and succeeds, also the one of `stop`, whose failure the
program ignores (`main.rs:100`): after it the next daemon would apply the ladder
again, so `StoppedMeansIdle` supposes a file that can be written. The write of the
PID succeeds too.
`enable --now` followed by `restart` is a restart. The rows that start and
stop the daemon choose by what `is_running` said up to `DAEMON_STATE_TTL` ago,
so either may happen at any time. A tick in progress when `stop` signals ends
within the three seconds it waits (`Patience`). The instance lock is taken and
given up in one step: `LockIsSingleInstance` proves that its holders behave as
`SingleInstance` has it, and so does `InstanceLock` at the level of system calls.

### ChargeCeiling

`saved` is `battery_charge_limit` in the file, `calib` the calibration state
file, `end`, `start`, `custom` and `present` the sysfs nodes (`custom[n]`: the
charging mode is one in which the thresholds bind). `dash[d]` is the limit in
the memory of dashboard `d`. `job[a]` holds the local variables of an actor in
the middle of something: the operation, the value it was called with, the
nodes still to write (`todo`, discovered when the operation began), whether
one accepted it (`ok`, the `applied > 0` of `set_charge_threshold`), and the
calibration state to be saved.

- `WriteNode`, `WriteNodeOnly`, `WriteFails` are `write_node` for one node:
  all of it, with a mode that silently stays, and with any of the writes or
  the read-back failing. Writes to two nodes are separate steps.
- `DaemonLoads`, `DaemonSatisfied`, `DaemonEnforces`, `EnforceDone` are
  `enforce_charge_limit` in a tick; `DaemonStop`, `DaemonEnds`, `DaemonCrash`
  and `DaemonStart` the daemon's life.
- `Command*` are `charge-limit` and, as one read-modify-write, every other
  command that saves a setting. `Dash*` are the Charge Limit row with its
  elevated helper (Left and Right, `NextLimits`, and Enter, `Toggled`) and, as one
  save, every other row.
- `Cal*` are the calls of `core/calibrate.rs`, from commands or from a dashboard,
  which sends the daemon a SIGTERM first. `save` is `fs::write`, two system calls:
  `CalTruncates` leaves an empty file, which `load` takes for no calibration, and
  `CalWrites` or, on a full disk, `CalWriteFails` comes later, unless the process
  dies in between. `CalFails` is a start or a status call that cannot open the
  file or of which no node took the 100%. That the file cannot be removed goes
  unnoticed (`CalForgets`, `CalRestored`).
- `Firmware*`, `NodeVanishes` and `NodeAppears` are the world outside.

Abstractions. A percentage is a number of a small set. Every command and
dashboard that writes runs as root. Saving the configuration is one step here,
which `FileIsStore` justifies where no save overtakes another and none is lost; a
failed save is a step not taken, except in the Charge Limit row, which goes on;
what becomes of the configuration file between its two system calls is in
`Settings`. A torn state file is an absent one, which is how it is read. The Charge Limit row goes through `Steps` and off
in a circle (`NextLimits`), in the code 55..100 by fives; a limit that is not
among these, which the CLI accepts, counts as off (Left goes to 100). The daemon's boot settings
are a tick like any other. The elevated helper of a dashboard runs while its
dashboard waits and is one of its steps.

### Ladder

The scale of `apply_logic_step` is in operators over integers: a load is in
thirds of all cores, as the code quantises it, a level's ceiling in tenths.
`CoreRamp`, `FreqTargets`, `WattTargets` and `TurboGate` are its targets;
`Truncated` allows for 0.7 not being a double, which makes some whole quotients
one smaller. `online`, `limit`, `watts` and `turbo` are the nodes: cores,
`scaling_max_freq` of each, one RAPL constraint of each zone, boost. `job[a]` is
what the tick (`daemon`) or the row under way (`row`) is in the middle of.

- `TickBegins` discovers the ranges and computes every target; `SetWatts`,
  `Switch` (one core), `Inherit`, `SetLimit` and `SetTurbo` write them in the
  order of the code. `Crash` ends a tick anywhere.
- `RowCores` and `RowFreq` begin a row of the dashboard, which goes through the
  same steps of the driver while the tick goes on: the row's SIGTERM lets a tick
  in progress finish, and the unit's next daemon ticks again (see `Lifecycle`).
- `LoadChanges` and `LevelChanges` come at any time.

Abstractions. Auto Extreme is enabled. Each core has a cpufreq policy of its
own, which keeps its limit and can be neither read nor written while the core
is off. The loops over cores in `set_freq_limit` and over zones in
`write_constraint` are one step each. Writes are accepted. PL2, the GPU limit,
governor, EPP, the peripherals and the other rows are in `Profiles`.

### Panel and Brightness

`raw` is the backlight of the one device, in its own levels `0..MaxRaw`;
`Percent` and `Raw` of `Panel` are the driver's integer divisions, and `Written`
adds what `brightnessctl` may make of the same percentage (`Rounds`). The daemon
is content with a level that was written for its percentage or that reads as it
(`AsAsked`): on a device of 150 levels it leaves a 19 that was set as 13% alone,
since it reads as 12%, though it would write 18. `file` and `dash`
are the two settings that matter, in the file and in a dashboard's memory;
`last` is `last_applied_brightness`.

- `TickBegins`, `TickCompares` and `TickWrites` are `apply_brightness_step`
  between its loads, reads and writes.
- `CmdSets` and `CmdSaves` are `brightness <n>`, which writes first; `CmdAuto`
  and `CmdLevel` the commands that change a setting.
- `DashLeft` and `DashRight` are the keys on the Brightness row, followed by
  `DashAdjusted`; `DashSaves` every row that saves the dashboard's copy.
- `TickAims` asks the compositor for the window, `TickTimesOut` gives up after
  its 50 ms. `session` says whether there is a graphical session and whether the
  daemon has its socket: `HyprlandMonitor` looks for one when it is built, that
  is when the daemon starts, and never again. A session that starts later is
  *missed*, and its windows count as terminals.
- `Hotkey`, `WindowChanges`, `SessionStarts`, `SessionEnds` and
  `DaemonRestarts` are the world outside.

Abstractions. Windows are the three kinds the code sorts them into. The load
and save of a command are one step and succeed; so are the reading and writing
of a row. `xdotool`, which is asked where there is no socket, is taken to tell a
system service nothing. A detached daemon that was started from a graphical
session has its display and may be told: that is a session that was *found*.

### Settings

`text` is what a reader finds in the file: a configuration, or `Torn`, which
stands for everything that does not parse, the empty and the missing file
included. `job[a]` is where a command or a dashboard is between its load and the
end of its save, and which escalator is next while it elevates; `dash[d]` the
copy a dashboard saves, `view` the configuration the daemon goes by. A setting
is on or off, off by default, as every flag and `Option` of `Config` is;
switching one off makes the text longer (`Length`), which is all that matters of
the JSON.

- `Begin`, `Authorised`, `TriesNext`, `Refused` and `Applies` are the arms of
  `cli::run` with `rerun_elevated`; `Load`, `Truncate`, `CannotOpen`, `Write`,
  `WriteFails` and `SaveEnds` a read-modify-write down to the two system calls
  of `fs::write`; `Dies` a kill or a power cut anywhere.
- `DashOpens`, `DashSets` and `DashCloses` are a dashboard that loads once and
  saves its copy with every row. `DaemonReads` is `config()` in a tick.
- `asked`, `raced` and `excuse` are history: who may have lost what to whom.

`Stored` is the configuration the file stands for: what it parses to, or, while
one actor is between truncate and write, what that actor is about to write. So
seen it implements `ConfigStore`, in which a load and a save are one step
(`FileIsLossyStore`, `FileIsStore`).

Abstractions. `Careless` names the settings whose commands ignore a failed save
(`brightness` for auto-brightness, start and stop for Auto Extreme), and
`Elevating` those that elevate themselves. A write to a file in which another
writer has put a longer text meanwhile leaves a torn file (`Length`).

### Gauge, Calendar and Telemetry

`Gauge` reads a battery leaf by leaf with the fallbacks of
`platform/linux/battery.rs`: watts from power or from current and voltage, the
time left, the pair of capacities health is computed from, the percentage.
A leaf has a value in sysfs and one in the uevent, either may be missing
(`NoReading`). `Calendar` is `unix_to_iso_utc` up to the day.

`Telemetry` is `maybe_sample_health` between its reads: `SampleBegins` loads the
configuration and reads health, `ReadsCharging` the supply, `Stamps` stores the
time, `Appends` or `AppendFails` the line, `Warns` or `KeepsQuiet` ends it.
`sinceLog` and `sinceWarn` are ages by the clock, negative after it was set
back; `gap` and `setClock` are history. The pack, the plug, the clock and both
settings change between any two steps. `found` is `discovered` of the driver: was
there a battery when the daemon was started? If not, `health()` tells nothing
(`PairNow`, `TempNow`), whatever is in the bay by then; if so, the path stays, and
an emptied bay reads as missing leaves.

Abstractions. There is one bay, with a battery or without: a machine whose daemon
found its second battery and gets a first one later is not modelled. Ages stop at the interval and
at `-Back`: beyond, nothing depends on them.

### Hardware and Profiles

`machine` is what discovery finds on a machine: packages with their power
limits, cards, core ranges, the lists of preferences, governors and policies the
kernel accepts, and the nodes behind every switch. `nodes` are the values.
`Hardware` gives for every call of a driver the nodes after it (`SetCores`,
`SetFreq`, `SetWatts`, `SetGpu`, `SetPref`, `SetSwitch`, ...): clamping to each
zone's range, the order of minimum and maximum on the GPU, the nearest
preference (`ResolvePref`) and the governor, which is written also where there
are no preferences, all devices of a switch. It also says what each row
reads. `Profiles` gives profiles, the ladder's tick and the rows as sets of
calls, made in the order of the code (`Order`, `Due`: the first that is left;
`Makes`: its effect); the daemon and the user's operation go through
theirs call by call, in any interleaving, and may die in between. `landed` is
history: the last job of the user that nobody disturbed.
`ProfileLands` says of a profile that has landed what the machine is like, knob
by knob (`CoresLand`, `LimitsLand`, `SwitchesLand`, `RestLands`).

Two assumptions say what kind of machine there is. `Sound`: nodes hold numbers
or the kernel's words. `Regular`: the cores are numbered from 0, either all of
them tell their frequencies or none does (one cpufreq driver serves them all),
the kernel lists *default* among its ASPM policies as it always does, no node
stands behind two switches, and turbo is one node (`intel_pstate/no_turbo` or
`cpufreq/boost`) or none.

Abstractions. One call of a driver is one step (`Ladder` has the writes inside
`set_online_cores`). A write to a node that exists succeeds, except a preference
that the kernel refuses under the governor *performance* (`busy`). Amounts are
small numbers with the order of the real ones. `iw`, `rfkill` and `blueutil`
are nodes that are there or not.

### Screen and Dashboard

`Screen` is `tui/ui.rs` as arithmetic over the width and height: banner,
summary, menu and plot beside or above each other, footer, scroll offset and
scrollbar, the question's box, the sample of each column and the dots of each
bar. `Dashboard` is `run_loop`: `Frame` draws (with `ReadsRows` and
`ReadsDaemon`, the caches and their times to live), `Polled` waits for a key,
the keys are actions (`Moves`, `Marks`, `EnterStops`, `Asks`, `Switches`,
`Adjusts`, `Restores`, `Quits`; `Answered` and `Ignored` while the question is open), and
outside them the terminal is resized, daemons come and go, hardware changes and
a signal arrives (`told`). `shown` is the last frame, `behind` what has changed
since the rows were read.

Abstractions. Time passes in rounds of the loop without a key; the two times to
live are numbers of such rounds, so rows may only be fresher in the program. A
toast is not part of a frame: for three seconds it is drawn over the third row
from below (`ui.rs:259-276`), which can be the last of the menu, and hides the
middle of it, be it the selected one. `is_running` is taken to tell the truth:
that it may answer true because of another probe (`pid.rs:77-83`) is in
`InstanceLock`, and such an answer stays in the label until the next reading. The
menu is that of one system (`System`); of what rows say, only whether a daemon
runs is modelled (`label`).

## What is checked

Every property has a mutant: a plausible slip in a named definition under
which the run must fail.

| Run | Bounds | Properties | Shows |
|---|---|---|---|
| `lock_safety` | 3 process ids, a root and a user client | `MutualExclusion`, `PidFileNamesHolder`, `ProbeDownIsTruthful`, `ImplementsSingleInstance`, `NeverWedged` | two daemons contend while the number of a third is recycled and a probe and SIGTERMs are under way; a stale file never keeps the daemon from running |
| `lifecycle` | the unit and 1 detached daemon, 1 dashboard, profile normal, crashes and reboots | `StoppedMeansIdle`, `ProfileStays`, `StartEngages` | a stop that has reported is final for the ladder; a profile row is not overwritten by the unit's daemon; a start with the unit installed ends with the ladder in control |
| `ceiling_safety` | 1 node with start and mode, hot-plugged, meddled with; 2 limits, 1 dashboard | `TypeOK`, `NoWriteBlockedByStart` | overlapping saves and elevations write nothing but what users may pick, and the start threshold is out of the way of every write |
| `calibration` | 2 nodes, 1 operator, failing writes, torn state files and crashes | `CalibrationIsOneCycle`, `FinishedMeansRestored` | the threshold to restore is never another one, and is given up before a battery has it only where a start, or a save of the state, is cut short |
| `ceiling_live` | 1 node with start, hot-plugged, meddled with; 2 limits, 1 command | `SavedLimitBinds`, `OffQuiesces` | the ceiling of the battery the daemon compares comes back; off ends the writing |
| `ladder` | 3 cores of two kinds, 2 zones with different ranges, levels high and low, idle and full load, both rows, crashes | `AimsInRange`, `PowerReturns`, `IdleSinks` | from whatever mixture of half-done ticks and rows, the ladder reaches its ends: nothing it has lowered is mistaken for the hardware's range |
| `brightness` | 25 raw levels, rounding `brightnessctl`, 2 windows, 2 levels, 1 manual percentage, 1 dashboard, sessions that come and go | `RightRaises`, `AutoSettles` | auto-brightness wins back a screen changed behind its back; a press of Right is never swallowed |
| `settings` | 2 settings, one that elevates and one that is careless; a user's command and a dashboard, crashes and full disks | `OnlyAsked`, `TornNeedsExcuse`, `SuccessMeansSaved`, `LoneSaveKeepsRest` | what a save may lose and when the file may be torn; a torn file never turns anything on |
| `telemetry` | 3 packs (one counts in charge and shows part of its energies, one in energy, one tells a power and no energy) and an empty bay, interval 3, warnings 2, the clock set back by 1 or forward, a limit of 45 degrees; dates up to day 160000 (2408) | `TypeOK`, `RowKeepsPairsApart`, `TimeAgreesWithWatts`, `LinesAreDated`, `SamplesAreSpaced`, `LogGoesOn`, `HotIsReported` | the log is spaced and goes on; the dates it uses follow each other; health mixes no sources; a hot pack is reported again and again where there was one when the daemon started |
| `profiles` | 11 machines, idle and full load, level low, 4 profiles, 10 rows | `TypeOK`, `NothingInvented`, `ProfileLands`, `PreferenceLands`, `RowsShowTheirEffect`, `LadderSettles` | a profile lands on every node whatever was there before; limits are those of the hardware; rows tell the truth; the savings arrive |
| `dashboard` | the menu of macOS, 4 sizes, times to live of 1 and 2 rounds, peaks of 8.3 and 600 W | `FrameIsTidy`, `SelectedIsShown`, `RowsAreFresh`, `LabelSettles` | every frame can be read and acted on, and says what is the case |
| `lifted` | 1 node, 1 limit | `CeilingStaysLifted` | expected to fail, see below |

Three process ids are two live contenders and one recycled number; the lock
has one holder, so more contenders only wait longer. `SavedLimitBinds` is about
the first readable node, the only one that `enforce_charge_limit` compares, and
about its number, not its mode; that a pass which nobody interferes with leaves
every battery bound is `LimitArrives`, for any number. Two nodes are enough for
a first one that is looked at and another that is not; two limits for a stale
one and a new one; one node suffices where a property is about a single
`write_node`. One detached daemon is enough to be in the way of the unit's, to
survive a stop, and to hold the lock when systemd starts its own; *normal* is
the profile that the CLI and the dashboard save differently. Three cores are cpu0,
another and a last one with a higher range than both, whose comings and goings
change what is discovered; loads and levels between the ends only give targets
between them, which `AimsStayInRange` proves to be in range. 25 raw levels are
the fewest for which `RightRaises` holds, the tightest case of the theorem. `RoomForDaemon`
(InstanceLock) leaves one number unused by foreign programs, without which no
daemon could ever start. Two settings are one that is being saved and one that
gets lost; one command and one dashboard are two writers, of which the command
ends and starts again as often as it likes. An interval of three ticks has one
at its beginning, one within and one at its end; the 160000 days have a century
without a leap day, one with, and the end of an era of 400 years. Each machine
of `MCProfiles` has few controls, so that many combinations of their values are
reached, and between them they have every control. The menu of macOS is longer
than the windows of the small sizes and keeps the pairs of scroll offset and
selection few; the theorems cover the other menus, all sizes and times. No counter is bounded but the ages: the
others are none.

Deadlock is checked in all of them but `dashboard`, which closes. The type
invariants that no run checks are theorems (below).

### Where the code and its documents disagree

The run `lifted` finds `CeilingStaysLifted` violated: the daemon's tick re-asserts
the saved limit (`daemon.rs:438`) in the middle of a calibration, which is said
to lift the ceiling to 100% until the cycle is done (`calibrate.rs:6`).

More consequences are reachable in the models and excepted from the properties,
or stated by none:

- A manual adjustment signals the process in the PID file only (`app.rs:361`):
  systemd brings the unit's daemon back, or it was still booting, and the ladder
  overrides the user whom `app.rs:80` promises control.
- A dashboard saves its copy from when it was opened (`app.rs:770`), and a limit
  cleared by `charge-limit off` is back, of which `cli.rs:402` says that it will
  not be touched.
- `enforce_charge_limit` compares the first readable node (`daemon.rs:438`): a
  second battery that has lost its ceiling stays at 100%, against
  `src/README.md:143`.
- `brightness <n>` writes the backlight before it saves that auto-brightness is
  off (`main.rs:299`): a tick in flight writes last, and nobody corrects it.
- Two saves that overlap, a full disk or a crash between truncate and write
  leave a torn file, which reads as all defaults until the next save, and a
  command that loads it then saves the defaults with its own setting.
- Exit code 1 of `sudo -n` counts as a refusal, also when it is the command's
  own, which then runs a second time. `brightness <n>` reports success although
  its save failed; `charge-limit` on hardware without a threshold reports an
  error although it has saved the limit.
- A compositor that is started or restarted after the daemon is never found
  (`hyprland.rs:32`): the screen gets the level of a terminal until the daemon
  restarts. One that takes longer than 50 ms makes one tick do the same.
- A line of the log says `capacity=0` and `charging=false` where the leaves are
  missing, although `daemon.rs:112` says that it never invents a value. After the
  clock was set back by some hours there are neither samples nor warnings for as
  long.
- The battery is looked for once, when the daemon starts (`battery.rs:36`): one
  that was started with an empty bay logs no health of a pack that is put in later
  and never warns of its temperature (`OnlyFoundIsWarned`), until it is restarted.
- The remaining time of a pack that tells `power_now` but no `energy_now` goes by
  current and voltage, while the consumption beside it is `power_now`
  (`TimeAgreesWithWatts` grants it). Where the uevent does not repeat the files
  the two may come from different moments.
- `set_profile` sets the preference before the governor: from Performance to
  another profile a kernel that refuses preferences under the governor
  *performance* keeps the old one until the profile is applied again.
- Normal and Performance do not bring the keyboard light back. The savings of
  the ladder stay after plugging in, although `daemon.rs:388` says that the
  machine then keeps its normal behaviour.
- A power limit row reads the first zone that has the limit and writes all, each
  clamped to its own range; it reports a value even where none is written, and
  Right can lower a limit that firmware has set above the range. The audio row
  reads on where there is no node, autosuspend off where there are only PCI
  devices. On a Mac without `blueutil` the Bluetooth row reads the key it has
  written itself while the radio stays.
- On a terminal of 3 to 7 rows the banner and the summary may leave no row for
  the menu, although `src/README.md:36` speaks of split panes of 20x5, and keys
  act on a selection that is not shown; the answers of the question are cut off
  or under the footer. For 24 to 39 columns rows are kept free for a plot that
  is not drawn.
- When the terminal grows, the scroll offset stays: blank rows at the end of the
  menu, and the scrollbar below its track. While the question is open `q` and
  Ctrl-C are ignored (a signal is not). An answer does not mark the rows as
  dirty, so they may be as old as their time to live. A peak above 416 W loses
  the free sixth of the plot.
- Without permission to open the PID file for writing, `status` reports a live
  daemon as not running (`ProbeCannotOpen`).
- An `is_running` that meets another probe's lock answers that a daemon is live
  (`ProbeFindsLocked`); a daemon that starts in that instant exits as "already
  active", and `NeverWedged` needs its retry.
- A daemon that has just been spawned is missed by a stop that reports success:
  it has not written its PID yet. The ladder stays off all the same
  (`StoppedMeansIdle`).
- The tick that a detached daemon is in when a profile row signals it
  overwrites the profile (the exception in `ProfileStays`); `profile` of the
  CLI does not stop the ladder at all.
- A second `calibrate start` between the check and the save of a first one
  remembers 100% as the threshold to restore (the run `calibration` has one
  operator).
- A crash or a full disk while the calibration state is being saved, by `start` or
  by any `status` call, leaves a torn file, which reads as no calibration
  (`calibrate.rs:46-57`): the ceiling stays at 100%, `calibrate done` says that none
  is in progress, and the threshold is lost (`GivenUp`). So it is when a start dies
  between lifting the ceiling and saving.
- A firmware that leaves Custom mode and keeps the number goes unnoticed
  (`FirmwareTakesOver`).
- An operation on several batteries of which one accepted the value counts as
  done (`NodeDone`), so `finish` can forget the threshold while another battery
  stays at 100%.
- `set_online_cores` ends by giving every core the limit of cpu0 (`Inherit`). On
  a machine with big and small cores each tick therefore takes a big core down
  to the small one's limit until `SetLimit`, even under full load at level low
  (`PowerReturns` has to except that moment), and after the Cores row big cores
  keep it.
- On the Brightness row, a dashboard whose copy says that auto-brightness is
  off does not clear it in the file (`DashAdjusted`), so the daemon undoes the
  step. On a panel with fewer than 25 levels Right can be swallowed, and Left
  can reach raw level 0. On one whose levels are not a multiple of 100 the
  target may not survive the round trip through `Percent`, and the daemon
  writes it again on every tick.

The table of levels in the repository's README (`src/README.md:43-49`) says that
the ceiling under full load is never lowered and names idle cores and gates
that are not the code's: `Ceiling`, `CoreRamp` and `TurboGate` follow the code
(40%, 70% and 100% of the range), which is why `PowerReturns` is about `low`.

### Fairness

Only steps the program or its supervisor takes by itself are fair: a process
that runs goes on (weak fairness of `DaemonStep`, of the writes of an
operation under way, of the daemon's tick), a guard in scope drops
(`ProbeDropsLock`), systemd restarts the daemon (`Restart=always`,
`StartLimitIntervalSec=0` in `service.rs`; `Respawn`, `DaemonStart`,
`SystemdStep`), an operation that has begun goes on (`OperatorStep`; `CmdSaves`,
`DashAdjusted`; the writes of a row; the calls of a job in `Profiles`; a sample
that has begun), the tickers fire every five seconds and every 300 ms (`Daemon`
of `Ladder` and of `Brightness`, `SampleBegins`, `Tick`), and time passes
(`TimePasses`). The end
of a daemon that has been signalled is strongly fair (`Ends`): `select!` picks
at random between the signal and a tick that is due. Taking
the instance lock is strongly fair: a start that meets a probe exits and is
retried every three seconds for ever, a probe lasts microseconds, so an
endless series of collisions is not a behaviour to plan for. Nobody is assumed
to press a key, type a command, or let a crash happen. `NeverWedged`,
`StartEngages` and `SavedLimitBinds` are stated against `Disturbance` and
`Interference`: they promise nothing while daemons are killed or writes fail again and again.
In the same way `PowerReturns` and `IdleSinks` promise nothing to somebody who
keeps using the rows or killing the daemon (`Interference`), and `AutoSettles`
nothing to somebody who keeps setting the screen (`Meddling`); `LogGoesOn` and
`HotIsReported` nothing where daemons are restarted, clocks set or files torn
again and again, and `LadderSettles` nothing while the user goes on writing. `Settings` and
`Dashboard` state no liveness. No line of the log and no escalator is assumed to
succeed.

## What is proved

For all values of the constants, from the named assumptions on them, and the
hypotheses a theorem states, only.

*Instance lock* (`InstanceLockProofs`). `MutualExclusion` is not inductive:
the invariant `IInv` adds that the process or probe at a holding station *is*
the owner of the lock (`LockAgrees`), and that while a daemon has truncated
the file and serves, the file is empty or names it (`FileAgrees`). From it
follow `TypeCorrect`, `MutualExclusionHolds`, `PidFileHolds`,
`ProbeDownHolds` (for clients that are root; others
cannot open the file and answer false whatever is true) and `Refinement`: every step is a `Begin`, an `End`
or a stutter of `SingleInstance`. `RefusedByTheLiving` and `HolderGoesOn` are
what `NeverWedged` rests on, without time: a daemon is turned away only while a
live daemon or probe holds the lock, and one that has it can be stopped by a
signal, a crash or an I/O error only.

*Lifecycle* (`LifecycleProofs`). `StoppedMeansIdle` is not inductive: `IInv`
adds what `stop` has achieved at each of its steps (`StopProgress`): from the
second on the file keeps the ladder off, at *drain* every pass of it that is
still going on belongs to a daemon that has been signalled, and on return there
is none. That needs to know where such a pass can be (`LadderPlaces`) and that
operations keep to their scripts (`OnScript`). Steps of daemons are summed up
in one lemma: a step either begins a pass of the ladder, which takes an enabled
file, or lets it die out (`Quieter`).

The unit has an invariant of its own, `UnitInv`: a process of it exists only
while it is installed and not inactive (`UnitDown`), an operation that stops it
goes on only when it is down (`UnitProgress`), a profile row keeps the ladder off
in the file and in the memory it will save again (`RowKeepsLadderOff`), and once
the row has reported the unit's daemon has nothing to write but the saved profile
(`ProfileReported`). From it follow `ProfileStaysHolds`, `UninstalledIsDownHolds`
(nothing of the unit is left after an uninstall) and `ProfileAppliesAloneHolds`.
`LockIsSingleInstance` needs that there is one holder at most (`OneHolder`) and
that only a daemon that finds none joins.

`StartInv` does for `start` what `StopProgress` does for `stop`: the file enables
the ladder from its save on (`StartProgress`, `StartReported`), and a daemon that
waits for the lock has nothing yet to write (`Waits`). `StartArrives`: after a reported start the
daemon that gets the lock next, be it the unit's or a detached one, has the ladder
in control of everything when it enters its loop. `StartStays`: from then on
nobody started beside it gets as far as its saved profile.

*Charge ceiling* (`ChargeCeilingProofs`). `TypeOK` is not inductive: a job of
type `Job` might carry any value, and saving it would break the type of
`saved`. `ClampedJobs` says which values go with which operation: 20..100
while nodes are still to be written, a limit the user may pick in what will be
saved, a calibration state in what will be stored. `TypeCorrect` follows, and
`NoWriteBlocked`: with any firmware, `value - 5` (at least 1) is below the
value that is written, because `set_charge_threshold` clamps it to 20 or more.
(`NoCalAssumption`: the value for a missing state file is not a state.)

Calibrations are safe with one operator (`OneOperator`, a hypothesis and not an
assumption of the model), because each call is a load, a look at the hardware
and a save without a lock; two can overwrite each other. `CycleJobs` relates what
an operator is about to save to the file: a start still finds no calibration, a
status call saves the state it found with its phase or the next, and while a save
is between its two system calls what it will write is all there is on record
(`OnRecord`). `CycleHolds`
needs no more, whatever daemon, firmware and nodes do. `RestoredHolds`, which
counts a threshold as owed from the moment a start has read it (`Owed`) and
excepts exactly the steps that cut a start or a save short (`GivenUp`), needs as
well that no limit is saved and that firmware and hot-plugging stay away
(`QuietFirmware`), each of which can take the threshold from the battery again
between its write and the end of `finish`; `RestoreJobs` says that after one node
has accepted the value one of those done holds it. `OffWritesNothing`: without a
saved limit the daemon begins no write. `LiftedWithoutLimit`: without a saved
limit what the run `lifted` refutes is true, also where batteries come and go, so
that the re-asserted limit is the one cause.

`LimitArrives` and `LimitStays` are `SavedLimitBinds` without time, and for every
battery instead of the first: the first pass of the daemon that nobody interferes
with leaves all of them bound (`PassBinds`: those it is done with), and a bound
one stays bound. Both suppose that nobody is about to write another value
(`Aims`), which `Interference` keeps true. They say nothing of a pass that does
not begin: the daemon looks at the first battery only, and that is why
`SavedLimitBinds` is no stronger.

*Ladder* (`AutoExtremeProofs`). For any number of cores and zones, any ranges, loads
and levels: `TypeCorrect` and `AimsStayInRange`. The invariant is `TypeOK` with
`AimsInRange`; the work is in the operators: the ramp stays between 1 and the
core ceiling (`RampRange`), scaled values between the ends of the discovered
range although the division truncates, and the range found over the cores
online lies in the range of the machine. `RampMonotone`: a higher load never
gets fewer cores. That a set of cores has a largest element (`LargestOf`), which
would be an induction over its size, is shown by the smallest counterexample: the
naturals are well-founded. `PowerStays` and `IdleStays` are the safety halves of
`PowerReturns` and `IdleSinks`: once everything is back (`Restored`), or taken
(`Sunk`), with a tick in progress that aims at the same, no tick that nobody
interferes with departs from it. They rest on `ScaleEnds` and `ScaleStarts`: at
full load and level low every target is exactly the top of its range, at no load
exactly the bottom, whatever the truncation does. `Arriving` says what a tick has
brought about at each of its steps, and `TickArrives` what it leaves: the cores,
watts and frequencies it aimed at and nothing of the ticks before it.
`FirstTickLifts` and `SecondTickRestores` are the way back up: a tick that begins
with cores offline aims at the range of those that are online, so the first
brings back cores, zones and turbo, and only the second the frequencies. On the
way down one is enough (`FirstTickSinks`), as idle targets are the bottom of any
range. What is left to TLC is that ticks do come.

*Brightness* (`AutoExtremeProofs`). `TypeCorrect`, for any panel and any
percentage: what is written is one of the device's levels. It needs one fact
more, that a dashboard with a step yet to save is open. `RightAlwaysRaises`: on
every panel with at least 25 levels each press of Right raises the level until
it is at the highest; 25 is the point where the five percent of a step outweigh
what both divisions round away. `OnCourse` says what a tick has found out at each
of its steps; from it follow `FirstTickSettles`, that one whole tick brings the
screen to what window and level ask, and `AutoStays`, that no later one takes it
elsewhere. On a panel of any size, since being as asked allows for the round trip
(`AsAsked`).

*Settings* (`SettingsProofs`). For any settings, commands and dashboards. `TornNeedsExcuse` is not inductive: `OneWriter` adds that without an excuse at
most one actor is between truncate and write, and that it writes to an empty
file. Whoever has not been raced goes by what the file says at each of its steps
(`UpToDate`, `Current`), from which `LoneSaveKeepsRest` and `SuccessMeansSaved`
follow; `NothingUnasked` follows every copy of a setting that is on (file, jobs,
dashboards, daemon) back to somebody who asked. `FileIsLossyStore` and `FileIsStore`
show that the file implements `ConfigStore`: while no save overtakes another one
(`NobodyOvertaken`), at most one actor is between truncate and write
(`AtMostOneInTime`), the truncation is the step that sets the setting and the write
a stutter; a save that is lost halfway forgets everything, and without such losses
(`SaveLost`) nothing is forgotten. This is what the models that load and save in one
step rest on; both hypotheses fail in some behaviours of the run `settings`.

*Screen* (`DashboardProofs`). Arithmetic for every width and height: the blocks do
not overlap (`LayoutIsTidy`), the menu has a row except on 3 to 7
(`MenuHasRoom`), the new scroll offset shows the selection whatever the old one
was (`ScrolledShows`), a line is as wide as its region (`LineFits`), and
scrollbar, question, samples and bars stay inside theirs.

*Dashboard* (`DashboardProofs`). On any system, for any sizes and times to live.
`RowsAreFresh` and `LabelSettles` are not inductive: the invariant adds what
holds of the caches before the next frame (`KeysAreRead`, `Truthful`: once the
daemon has been steady for longer than the flag is old, the flag is true) and
what the last frame says (`Picture`). The properties of frames follow from the
theorems about `Screen`; `ActsOnWhatIsShown` because keys are only taken
between a frame and the next change.

*Telemetry* (`TelemetryProofs`). For any packs, intervals and clocks. The
invariant adds to `TypeOK` where the pair of a sample under way comes from
(`PairIsTold`: one source of one battery, though it may be another by the time
the line is written) and what was known when the sampler stamped its time
(`StampAgrees`). `TypeCorrect`, `RowKeepsPairsApartHolds` and
`SamplesAreSpacedHolds` follow. `TimeAgreesWithWattsHolds` is about the two
functions of `Gauge`, on readings whose uevent repeats the files.
`DatesFollowHolds` is arithmetic: a day has exactly one place in eras,
centuries, cycles of four years and years, and the next day is at the next place,
so dates follow each other for every day, not only up to
the run's last; `LinesAreDated` is that fact evaluated where a line is written.
`OnlyFoundIsWarned`: a sample of a daemon that found no battery has no temperature
(`TempIsFound`), so it never warns. `NoLineOverdue` and `NoWarningOverdue` are `LogGoesOn` and
`HotIsReported` without time: a call that begins while nothing keeps samples away
does not end with a line, or a warning of a hot pack that was found, overdue;
`LogCourse` and
`HotCourse` say what it has read by then.

*Profiles* (`ProfilesProofs`). For any machines that are `Sound` and `Regular`,
any loads, levels, profiles and rows. `Shaped` says that jobs are what the
operations begin: rows, profiles and ticks with the calls of their kind still to
make. With it `TypeCorrect` and `NothingInventedHolds` are inductive;
`RowsShowTheirEffectHolds` adds that a row asks only for what its hardware has
(`RowAsks`). `PreferenceLandsHolds` and `ProfileLandsHolds` are about the end of a
sequence of fifteen calls, and `Kept` says what is true in the middle: for every
call that an undisturbed job has behind it, or never had because there is no node
for it, the knob is where the call puts it. Each call must land what it is for and
spare the rest, and the cores must come first, since a core that comes online
brings its old preference and limit along. `SavingsArrive`: on battery, one tick with
the user idle switches every saving on, on all devices (`Passed`: what the tick has
behind it, or never had a node for, is saved). `SavingsStay`: nothing but the user
takes them back, plugging in included.

Outside the prover's reach, and only model-checked, are the liveness properties:
`NeverWedged`, `StartEngages`, `SavedLimitBinds`, `OffQuiesces`, `PowerReturns`,
`IdleSinks`, `AutoSettles`, `LogGoesOn`, `HotIsReported` and `LadderSettles`.
They rest on fairness, which needs `ENABLED`. For each there are theorems that say
what a pass or a tick brings about, or may not leave; that it comes is what TLC adds.

## Not modelled

What could come next: several operators that calibrate at once, machines with
two battery bays, and the toast as part of a frame.

Left out for good: the texts of help, `status`, `health` and rows, string
parsers and colours (no state and no decisions), toasts, the speed of refreshing
and the history of samples (nothing else depends on them), the telemetry of
macOS and the fallback backend (wrappers and stubs), how radios are reached, the
copying of the installed binary.
