------------------------------- MODULE Profiles -------------------------------
(***************************************************************************)
(* Who writes the hardware, call by call: apply_profile, which a command or *)
(* a dashboard runs (platform/linux/mod.rs), the daemon's ladder            *)
(* (daemon.rs), and the rows of the dashboard, which read, step and write   *)
(* (tui/app.rs).  They share the nodes and no lock.  How the ladder computes *)
(* its numbers is Ladder's subject; what the setters do is Hardware's.      *)
(***************************************************************************)
EXTENDS Hardware

CONSTANTS
  Machines,   \* the machines there are
  Loads,      \* loads that occur, in thirds of all cores
  Levels,     \* levels the user picks from
  Named,      \* the profiles that are applied
  Rows,       \* the rows that are used: numbers and switches
  Stepped     \* the intervals of writeback from which its row is stepped

ASSUME MachinesAssumption == \A m \in Machines : Sound(m) /\ Regular(m)
ASSUME LoadsAndLevels ==
  Loads \subseteq 0 .. 3 /\ Levels \subseteq {"high", "medium", "low"}
ASSUME NamedProfiles ==
  Named \subseteq {"performance", "normal", "extreme", "auto"}

ASSUME SteppedAssumption == Stepped \subseteq 100 .. 6000

VARIABLES
  machine,    \* the machine it runs on; never changes
  nodes,      \* what its nodes hold
  world,      \* load, level, is it charging?
  job,        \* what the daemon and the user are in the middle of
  landed      \* history: the last job, if nobody disturbed it

vars == <<machine, nodes, world, job, landed>>

Actors == {"daemon", "user"}
Calls ==
  <<"cores", "freq", "turbo", "pref", "long_term", "short_term", "gpu", "aspm",
    "bright", "kbd", "wifi_save", "audio_save", "autosuspend", "watchdog",
    "writeback">>

(* Would this call find anything to write? *)
Touches(m, op) ==
  CASE op = "cores" -> Cardinality(Cores(m)) > 1
    [] op = "freq" -> \E c \in Cores(m) : m.cpus[c].max # 0
    [] op = "pref" -> m.pref \/ m.governor
    [] op \in Kinds -> \E z \in DOMAIN m.zones : m.zones[z][op].named
    [] op = "gpu" -> HasCard(m)
    [] op = "aspm" -> m.policies # {}
    [] op = "bright" -> m.backlight
    [] op = "writeback" -> m.writeback
    [] op \in Switches -> m.nodes[op] # <<>>

(* apply_profile.  The keyboard light only goes off, and AutoExtreme only
   sets a preference; on a Mac every profile sets the mode. *)
ProfileCalls(m, p) ==
  IF m.mac THEN Items(MacCalls)
  ELSE {op \in IF p = "auto" THEN {"pref"} ELSE Items(Calls) :
          Touches(m, op) /\ (op = "kbd" => p = "extreme")}

(* The same setters in another order; brightness has a step of its own. *)
LadderOrder ==
  <<"long_term", "short_term", "cores", "freq", "gpu", "pref", "turbo", "aspm",
    "wifi_save", "kbd", "audio_save", "autosuspend", "watchdog", "writeback">>
Peripheral ==
  {"aspm", "wifi_save", "kbd", "audio_save", "autosuspend", "watchdog", "writeback"}

(* Mutant: the peripherals follow the cable the wrong way round. *)
LadderCallsPluggedIn(m, charging) ==
  {op \in Items(LadderOrder) :
     ~ m.mac /\ Touches(m, op) /\ (op \in Peripheral => charging)}

(* apply_logic_step: the peripherals only on battery. *)
LadderCalls(m, charging) ==
  {op \in Items(LadderOrder) :
     ~ m.mac /\ Touches(m, op) /\ (op \in Peripheral => ~ charging)}

-----------------------------------------------------------------------------
(* Jobs.  what: a profile, "ladder" or "row"; calls: those still to make;   *)
(* saving: does it save power?  num, value: what a row was stepped to;      *)
(* stale: the kernel may refuse the preference; alone: nobody else has      *)
(* written since it began.                                                  *)

Whats == {"performance", "normal", "extreme", "auto", "ladder", "row"}

Job == [what : Whats, calls : SUBSET (Items(Calls) \cup Switches),
        saving : BOOLEAN, pref : Items(Prefs), num : Nat, value : BOOLEAN,
        stale : BOOLEAN, alone : BOOLEAN]

NoJob == [what |-> "row", calls |-> {}, saving |-> FALSE, pref |-> "default",
          num |-> 0, value |-> FALSE, stale |-> FALSE, alone |-> FALSE]

Idle(a) == job[a].calls = {}
Other(a) == IF a = "daemon" THEN "user" ELSE "daemon"

(* The call a job makes next: none before it is left. *)
Order(what) ==
  IF machine.mac THEN MacCalls ELSE IF what = "ladder" THEN LadderOrder ELSE Calls
Due(j) ==
  IF j.what = "row" THEN j.calls
  ELSE LET order == Order(j.what)
           first == {i \in DOMAIN order : /\ order[i] \in j.calls
                                          /\ \A k \in 1 .. i - 1 : order[k] \notin j.calls}
       IN {order[i] : i \in first}

Nodes(m) ==
  [online : SUBSET Cores(m), freq : [Cores(m) -> Nat],
   pref : [Cores(m) -> Items(Prefs)], gov : [Cores(m) -> Governors],
   watts : [DOMAIN m.zones -> [Kinds -> Nat]], gpu : [min : Nat, max : Nat],
   aspm : {"default", "performance", "powersave"},
   on : [m.switched -> BOOLEAN], bright : 0 .. 100, writeback : 100 .. 6000]

TypeOK ==
  /\ machine \in Machines
  /\ nodes \in Nodes(machine) /\ 0 \in nodes.online
  /\ world \in [load : Loads, level : Levels, charging : BOOLEAN]
  /\ job \in [Actors -> Job]
  /\ landed \in Job

(* The machine as it boots.  Firmware sets limits as it likes, and another
   program may have raised the minimum of the graphics card. *)
Boot(m, raised) ==
  [online |-> Cores(m), freq |-> [c \in Cores(m) |-> m.cpus[c].max],
   pref |-> [c \in Cores(m) |-> "balance_performance"],
   gov |-> [c \in Cores(m) |-> "powersave"],
   watts |-> [z \in DOMAIN m.zones |-> [k \in Kinds |-> m.boot[z][k]]],
   gpu |-> IF HasCard(m)
           THEN [min |-> IF raised THEN GpuMax(m) ELSE GpuMin(m), max |-> GpuMax(m)]
           ELSE [min |-> 0, max |-> 0],
   aspm |-> "default",
   on |-> [n \in m.switched |-> n \in {"led", "rfkill", "watchdog", "boost", "usb2",
                                 "keepalive", "display", "key", "radio", "airport"}],
   bright |-> 50, writeback |-> 500]

Init ==
  /\ machine \in Machines
  /\ \E raised \in BOOLEAN : nodes = Boot(machine, raised)
  /\ world \in [load : Loads, level : Levels, charging : BOOLEAN]
  /\ job = [a \in Actors |-> NoJob]
  /\ landed = NoJob

-----------------------------------------------------------------------------
(* One call.                                                               *)

(* write_vm_writeback_centisecs takes any number, and keeps it in here. *)
Centisecs(v) == Clamp(v, 100, 6000)

(* The number a call is given.  For the ladder any in the range will do. *)
Wanted(j, op) ==
  LET m == machine
      n == Cardinality(Cores(m))
      Of(known, lo, hi) ==
        IF ~ known THEN {0}
        ELSE IF j.what = "ladder" THEN lo .. hi
        ELSE IF j.saving THEN {lo} ELSE {hi}
  IN IF j.what = "row" THEN {j.num}
     ELSE CASE op = "cores" -> Of(TRUE, IF j.what = "ladder" THEN 1 ELSE Lower(2, n), n)
            [] op = "freq" -> Of(FreqKnown(m, nodes), FreqMin(m, nodes), FreqMax(m, nodes))
            [] op \in Kinds -> Of(Ranged(m, op) # {}, WattMin(m, op), WattMax(m, op))
            [] op = "gpu" -> Of(GpuKnown(m), GpuMin(m), GpuMax(m))
            [] op = "bright" -> {IF j.saving THEN 10 ELSE 100}
            [] op = "writeback" -> {Centisecs(100 * IF j.saving THEN 60 ELSE 5)}
            [] OTHER -> {0}

(* How a call turns a switch. *)
Turned(j, op) ==
  IF j.what = "row" THEN {j.value}
  ELSE IF op = "turbo" /\ j.what = "ladder" THEN BOOLEAN
  ELSE IF op \in {"turbo", "kbd", "watchdog", "keepalive", "display"} THEN {~ j.saving} ELSE {j.saving}

Policy(j) == IF j.saving THEN "powersave"
             ELSE IF j.what = "performance" THEN "performance" ELSE "default"

Called(j, op, w, v) ==
  CASE op = "cores" -> SetCores(machine, nodes, w)
    [] op = "freq" -> [nodes EXCEPT !.freq = SetFreq(machine, nodes, w)]
    [] op = "pref" -> SetPref(machine, nodes, j.pref)
    [] op \in Kinds -> [nodes EXCEPT !.watts = SetWatts(machine, nodes, op, w)]
    [] op = "gpu" -> [nodes EXCEPT !.gpu = SetGpu(machine, nodes, w)]
    [] op = "aspm" -> [nodes EXCEPT !.aspm = SetAspm(machine, nodes, Policy(j))]
    [] op = "bright" -> [nodes EXCEPT !.bright = w]
    [] op = "writeback" -> [nodes EXCEPT !.writeback = w]
    [] op \in Switches -> [nodes EXCEPT !.on = SetSwitch(machine, nodes, op, v)]

Makes(a, op) ==
  /\ LET j == job[a]
         rest == [j EXCEPT !.calls = @ \ {op}]
     IN /\ \E w \in Wanted(j, op), v \in Turned(j, op) : nodes' = Called(j, op, w, v)
        /\ IF rest.calls # {}
           THEN job' = [job EXCEPT ![a] = rest] /\ UNCHANGED landed
           ELSE /\ job' = [job EXCEPT ![a] = NoJob]
                /\ landed' = IF j.alone THEN rest ELSE landed
  /\ UNCHANGED <<machine, world>>

Call(a) == \E op \in Due(job[a]) : Makes(a, op)

-----------------------------------------------------------------------------
(* What begins a job.                                                      *)

Begin(a, j) ==
  /\ Idle(a) /\ j.calls # {}
  /\ job' = [job EXCEPT
               ![a] = [j EXCEPT !.alone = Idle(Other(a)),
                                !.stale = machine.busy /\ \E c \in Cores(machine) :
                                                nodes.gov[c] = "performance"],
               ![Other(a)] = [@ EXCEPT !.alone = FALSE]]
  /\ landed' = NoJob
  /\ UNCHANGED <<machine, nodes, world>>

ProfilePref(p) ==
  CASE p = "performance" -> "performance"
    [] p = "normal" -> "default"
    [] p = "extreme" -> "power"
    [] p = "auto" -> "balance_power"

(* `wattwarden profile`, or Enter on a row of the dashboard. *)
ApplyProfile ==
  \E p \in Named :
    Begin("user", [NoJob EXCEPT !.what = p, !.calls = ProfileCalls(machine, p),
                               !.saving = (p = "extreme"), !.pref = ProfilePref(p)])

LadderPref(w) ==
  IF w.level # "low" THEN "power"
  ELSE IF 2 * w.load < 3 THEN "balance_power" ELSE "balance_performance"

(* The daemon, with auto_extreme_enabled. *)
Tick ==
  Begin("daemon", [NoJob EXCEPT !.what = "ladder", !.saving = TRUE,
                               !.calls = LadderCalls(machine, world.charging),
                               !.pref = LadderPref(world)])

(* row_info: what the rows of the hardware show. *)
RowShows(op) ==
  CASE op = "cores" -> Cardinality(nodes.online)
    [] op = "freq" -> FreqLimit(nodes)
    [] op = "gpu" -> nodes.gpu.max
    [] op \in Kinds -> ReadWatts(machine, nodes, op)
    [] op = "pref" -> nodes.pref[0]
    [] op = "aspm" -> nodes.aspm
    [] op = "bright" -> nodes.bright
    [] op = "writeback" -> nodes.writeback
    [] op \in Switches -> ReadSwitch(machine, nodes, op)

Row(op, n, v) ==
  /\ op \in Rows
  /\ Begin("user", [NoJob EXCEPT !.calls = {op}, !.num = n, !.value = v])

(* Left and Right on a power limit, in steps of 2 W. *)
WattsLeft ==
  \E k \in Kinds :
    /\ Touches(machine, k)
    /\ Row(k, Higher(Minus(ReadWatts(machine, nodes, k), 2), ShownMin(machine)), FALSE)

WattsRight ==
  \E k \in Kinds :
    /\ Touches(machine, k)
    /\ Row(k, Lower(ReadWatts(machine, nodes, k) + 2, ShownMax(machine)), FALSE)

(* A step of 50 MHz is 1. *)
GpuLeft ==
  /\ HasCard(machine)
  /\ Row("gpu", Higher(Minus(nodes.gpu.max, 1), GpuShownMin(machine, nodes)), FALSE)

GpuRight ==
  /\ HasCard(machine)
  /\ Row("gpu", Lower(nodes.gpu.max + 1, GpuShownMax(machine, nodes)), FALSE)

(* A step is 1 of the node's centiseconds. *)
WritebackRow(to) ==
  /\ machine.writeback /\ nodes.writeback \in Stepped
  /\ Row("writeback", Centisecs(to), FALSE)

WritebackLeft == WritebackRow(nodes.writeback - 1)
WritebackRight == WritebackRow(nodes.writeback + 1)

(* toggle_boolean: the opposite of what is read. *)
Toggle ==
  \E k \in Switches :
    machine.nodes[k] # <<>> /\ Row(k, 0, ~ ReadSwitch(machine, nodes, k))

(* Killed between two calls; what it has written stays. *)
Dies(a) ==
  /\ ~ Idle(a)
  /\ job' = [job EXCEPT ![a] = NoJob]
  /\ UNCHANGED <<machine, nodes, world, landed>>

WorldChanges ==
  /\ world' \in [load : Loads, level : Levels, charging : BOOLEAN]
  /\ UNCHANGED <<machine, nodes, job, landed>>

User ==
  \/ ApplyProfile \/ Toggle
  \/ WattsLeft \/ WattsRight \/ GpuLeft \/ GpuRight
  \/ WritebackLeft \/ WritebackRight

Next ==
  \/ Tick \/ Call("daemon")
  \/ User \/ Call("user")
  \/ \E a \in Actors : Dies(a)
  \/ WorldChanges

Spec == Init /\ [][Next]_vars

(* The daemon ticks every five seconds and runs a tick to its end, and so
   does the user's process. *)
FairSpec == Spec /\ WF_vars(Tick \/ Call("daemon")) /\ WF_vars(Call("user"))

-----------------------------------------------------------------------------
(* Properties.                                                             *)

(* Nobody ever writes a limit that was not discovered.  A power limit is what
   firmware set or in its own zone's range, and it is untouched where no range
   was found; the card's limit is in its range; and preference, governor and
   policy are among those the kernel lists. *)
NothingInvented ==
  /\ \A z \in DOMAIN machine.zones, k \in Kinds :
       LET c == machine.zones[z][k] IN
       \/ nodes.watts[z][k] = machine.boot[z][k]
       \/ HasRange(c) /\ nodes.watts[z][k] \in c.min .. c.max
  /\ GpuKnown(machine) => nodes.gpu.max \in GpuMin(machine) .. GpuMax(machine)
  /\ machine.prefs # <<>> =>
       \A c \in Cores(machine) : nodes.pref[c] \in Items(machine.prefs) \cup {"balance_performance"}
  /\ machine.govs # {} =>
       \A c \in Cores(machine) : nodes.gov[c] \in machine.govs \cup {"powersave"}
  /\ machine.policies # {} => nodes.aspm \in machine.policies

Writable(z, k) == HasRange(machine.zones[z][k]) /\ machine.zones[z][k].node
AllSwitches(k, v) ==
  \A n \in Items(machine.nodes[k]) : nodes.on[n] = (v # (n = "no_turbo"))

CoresLand(full) ==
  IF full \/ machine.mac THEN nodes.online = Cores(machine)
  ELSE Cardinality(nodes.online) = Lower(2, Cardinality(Cores(machine)))
LimitsLand(full) ==
  /\ FreqKnown(machine, nodes) =>
       \A c \in nodes.online :
         nodes.freq[c] = IF full THEN machine.cpus[c].max
                         ELSE Higher(machine.cpus[c].min, FreqMin(machine, nodes))
  /\ \A z \in DOMAIN machine.zones, k \in Kinds :
       Writable(z, k) => nodes.watts[z][k] = IF full THEN machine.zones[z][k].max
                                                     ELSE machine.zones[z][k].min
  /\ GpuKnown(machine) =>
       nodes.gpu = [min |-> GpuMin(machine),
                    max |-> IF full THEN GpuMax(machine) ELSE GpuMin(machine)]
SwitchesLand(full) ==
  /\ \A k \in {"wifi_save", "audio_save", "autosuspend", "lowpower"} : AllSwitches(k, ~ full)
  /\ \A k \in {"turbo", "watchdog", "keepalive", "display"} : AllSwitches(k, full)
  /\ ~ full => AllSwitches("kbd", FALSE)
RestLands(full) ==
  /\ machine.writeback => nodes.writeback = IF full THEN 500 ELSE 6000
  /\ machine.backlight => nodes.bright = IF full THEN 100 ELSE 10

(* A whole profile that nobody disturbed leaves the machine as it promises,
   whatever it was like before: every core online and every limit at its own
   ceiling, the savings off; or two cores and every limit at its own floor,
   the savings on.  On a Mac that is its mode. *)
ProfileLands ==
  landed.what \in {"performance", "normal", "extreme"} =>
    LET full == landed.what # "extreme" IN
    CoresLand(full) /\ LimitsLand(full) /\ SwitchesLand(full) /\ RestLands(full)

(* After an undisturbed job every core that is online has a preference than
   which the kernel lists none nearer to the one meant.  The exception: a
   kernel that takes no other preference under the governor "performance",
   which the drivers only leave after they have set the preference. *)
PreferenceLands ==
  landed.what # "row" /\ machine.pref /\ ~ landed.stale =>
    \A c \in nodes.online, p \in Items(machine.prefs) :
      Apart(nodes.pref[c], landed.pref) <= Apart(p, landed.pref)

Shows(op) ==
  LET j == job["user"] IN
  j.what = "row" /\ op \in Due(j) /\ Makes("user", op) =>
    /\ op \in Switches /\ Looked(machine, op) # {} => RowShows(op)' = j.value
    /\ op = "writeback" \/ (op = "gpu" /\ GpuKnown(machine)) => RowShows(op)' = j.num
    /\ op \in Kinds =>
         LET z == Min({y \in DOMAIN machine.zones : machine.zones[y][op].named})
             c == machine.zones[z][op]
         IN Writable(z, op) /\ j.num \in c.min .. c.max => RowShows(op)' = j.num

(* What a row has written it shows: a switch the opposite of what it showed,
   however many devices are behind it, mixed as they may be; a number the one it
   has stepped to, whatever the ladder has written since the row read it.  The
   exceptions: a card without a range, and a power limit outside the range of
   the first zone that has it, or that cannot be written there. *)
RowsShowTheirEffect == [][\A op \in Rows : Shows(op)]_vars

(* On battery with the ladder on, and nobody else writing, the savings arrive
   and every core that is online comes to the preference of the ladder, even
   if the kernel refused it on the first tick. *)
LadderSettles ==
  \A w \in [load : Loads, level : Levels, charging : {FALSE}] :
    <>[](world = w /\ Idle("user")) /\ <>[][~ Dies("daemon")]_vars =>
      <>[](/\ \A k \in {"wifi_save", "audio_save", "autosuspend"} : AllSwitches(k, TRUE)
           /\ AllSwitches("kbd", FALSE) /\ AllSwitches("watchdog", FALSE)
           /\ machine.pref =>
                \A c \in nodes.online, p \in Items(machine.prefs) :
                  Apart(nodes.pref[c], LadderPref(w)) <= Apart(p, LadderPref(w)))

=============================================================================
