------------------------------- MODULE Dashboard ------------------------------
(***************************************************************************)
(* The loop of the dashboard: tick, draw a frame, wait for a key, handle it *)
(* (tui/run.rs), over the state it keeps for that (tui/app.rs): the row     *)
(* selected, the scroll position, the question before Extreme Mode, and the *)
(* copies it shows of the hardware and of whether a daemon runs.  What the  *)
(* keys do to hardware, files and processes is the subject of other modules; *)
(* here they make the copies stale.                                         *)
(***************************************************************************)
EXTENDS Screen, Sequences, FiniteSetsExt

CONSTANTS
  System,     \* os_name
  Sizes,      \* the sizes the terminal takes: [w, h]
  Peaks,      \* the highest draws in the history, in tenths of W
  RowsTtl,    \* ROWS_TTL, in rounds of the loop without a key (100 ms)
  DaemonTtl   \* DAEMON_STATE_TTL

ASSUME SizesAssumption == Sizes # {} /\ Sizes \subseteq [w : Nat, h : Nat]
ASSUME PeaksAssumption == Peaks \subseteq Nat
ASSUME TtlAssumption == RowsTtl \in Nat \ {0} /\ DaemonTtl \in Nat \ {0}

VARIABLES
  selected,  \* the row of the menu, from 0
  scroll,    \* scroll_offset
  asking,    \* confirm_extreme
  seen,      \* daemon_active
  seenAge,   \* time since daemon_checked
  label,     \* does the cached row say that a daemon runs?
  dirty,     \* rows_dirty
  rowsAge,   \* time since rows_checked
  shown,     \* history: what the last frame has put on the screen
  behind,    \* history: who has changed what the cached rows say
  runs,      \* does a daemon run?
  steady,    \* history: how long nobody has changed that
  told,      \* has a signal asked the dashboard to end?
  phase      \* where the loop is

vars == <<selected, scroll, asking, seen, seenAge, label, dirty, rowsAge,
          shown, behind, runs, steady, told, phase>>

-----------------------------------------------------------------------------
(* build_menu.  A header cannot be selected.                               *)

Header == "Header"

Common ==
  <<Header, "ProfilePerformance", "ProfileExtreme", "ProfileAutoExtreme",
    "AutoExtremeLevel", "AutoBrightness", "ProfileRestore", Header, Header,
    "HealthLine", "CycleLine", "TempLine", "ChargeLimit", "Calibration",
    "Calibrate", "CalibRestore", Header>>

OfLinux ==
  <<Header, "Cores", "FreqLimit", "GpuFreq", "RaplPl1", "RaplPl2",
    "Turbo", "Epp", "Aspm", Header, Header, "Brightness",
    "KbdBacklight", "Bluetooth", "WifiEnable", Header, Header,
    "WifiPowerSave", "AudioPowerSave", "Autosuspend", "Watchdog",
    "VmWriteback", "ProcessPurge">>

OfMacOS ==
  <<Header, "Brightness", "WifiEnable", "Bluetooth", Header, Header,
    "ProcessPurge">>

Own == CASE System = "Linux" -> OfLinux
         [] System = "macOS" -> OfMacOS
         [] OTHER -> << >>

Items == Common \o Own

Rows == 0 .. Len(Items) - 1
Item(row) == Items[row + 1]
Selectable == {row \in Rows : Item(row) # Header}

(* stops_daemon_on_adjust *)
Adjustable ==
  {"Cores", "FreqLimit", "GpuFreq", "RaplPl1", "RaplPl2", "Turbo",
   "KbdBacklight", "Bluetooth", "WifiEnable", "WifiPowerSave",
   "AudioPowerSave", "Autosuspend", "Watchdog", "VmWriteback"}

(* step_selection: headers are skipped, and it stops at both ends. *)
Step(forward) ==
  LET onward == {row \in Selectable : IF forward THEN row > selected ELSE row < selected}
  IN IF onward = {} THEN selected ELSE IF forward THEN Min(onward) ELSE Max(onward)

-----------------------------------------------------------------------------
Phases == {"top", "shown", "closed"}
Changers == {"key", "answer", "others"}
Longest == DaemonTtl + RowsTtl - 1

(* What a frame shows: which row is marked, whether that row is on the screen,
   whether the question is, and the size it was drawn for. *)
Frames == [selected : Selectable, visible : BOOLEAN, asking : BOOLEAN, size : Sizes]

TypeOK ==
  /\ selected \in Selectable
  /\ scroll \in Rows
  /\ {asking, seen, label, dirty, runs, told} \subseteq BOOLEAN
  /\ seenAge \in 0 .. DaemonTtl
  /\ rowsAge \in 0 .. RowsTtl
  /\ shown \in Frames
  /\ behind \subseteq Changers
  /\ steady \in 0 .. Longest
  /\ phase \in Phases

(* App::new: everything is read before the first frame. *)
Init ==
  /\ selected = Min(Selectable)
  /\ scroll = 0
  /\ asking = FALSE /\ seen = FALSE /\ seenAge = DaemonTtl
  /\ label = FALSE /\ dirty = TRUE /\ rowsAge = RowsTtl
  /\ \E size \in Sizes :
       shown = [selected |-> selected, visible |-> FALSE, asking |-> FALSE, size |-> size]
  /\ behind = {}
  /\ runs \in BOOLEAN /\ steady = 0
  /\ told = FALSE
  /\ phase = "top"

MenuHeight(size) == Menu(size.w, size.h).h

(* Mutant: once read, the rows are only read again after a key. *)
ReadsRowsIfDirty(now) ==
  IF dirty
  THEN label' = now /\ dirty' = FALSE /\ rowsAge' = 0 /\ behind' = {}
  ELSE UNCHANGED <<label, dirty, rowsAge, behind>>

(* refresh_rows_if_stale; now is what daemon_active is by then. *)
ReadsRows(now) ==
  IF dirty \/ rowsAge >= RowsTtl
  THEN label' = now /\ dirty' = FALSE /\ rowsAge' = 0 /\ behind' = {}
  ELSE UNCHANGED <<label, dirty, rowsAge, behind>>

(* Mutant: a daemon that was not there is not looked for again. *)
ReadsDaemonWhileSeen ==
  IF seen /\ seenAge >= DaemonTtl THEN seen' = runs /\ seenAge' = 0
                                  ELSE UNCHANGED <<seen, seenAge>>

(* refresh_daemon_state.  is_running is taken to tell the truth, which it may
   not while another probe holds the lock: that is InstanceLock's. *)
ReadsDaemon ==
  IF seenAge >= DaemonTtl THEN seen' = runs /\ seenAge' = 0
                          ELSE UNCHANGED <<seen, seenAge>>

(* tick, then draw, for the size the terminal has by then: the menu scrolls to
   the row selected if it has any rows. *)
Frame ==
  /\ phase = "top" /\ ~ told
  /\ ReadsDaemon
  /\ ReadsRows(seen')
  /\ \E size \in Sizes :
       LET v == MenuHeight(size) IN
       /\ scroll' = IF v >= 1 THEN Scrolled(selected, scroll, v) ELSE scroll
       /\ shown' = [selected |-> selected, asking |-> asking, size |-> size,
                    visible |-> Menu(size.w, size.h).w > 0 /\ Shows(selected, scroll', v)]
  /\ phase' = "shown"
  /\ UNCHANGED <<selected, asking, runs, steady, told>>

(* The handler has only set a flag; the loop sees it at the top. *)
Closes ==
  /\ phase = "top" /\ told
  /\ phase' = "closed"
  /\ UNCHANGED <<selected, scroll, asking, seen, seenAge, label, dirty,
                 rowsAge, shown, behind, runs, steady, told>>

(* No key within POLL_INTERVAL. *)
Polled ==
  /\ phase = "shown"
  /\ phase' = "top"
  /\ seenAge' = Lower(seenAge + 1, DaemonTtl)
  /\ rowsAge' = Lower(rowsAge + 1, RowsTtl)
  /\ steady' = Lower(steady + 1, Longest)
  /\ UNCHANGED <<selected, scroll, asking, seen, label, dirty, shown,
                 behind, runs, told>>

-----------------------------------------------------------------------------
(* Keys.                                                                   *)

Alone == UNCHANGED <<scroll, label, rowsAge, shown, told>>
KeepsDaemon == UNCHANGED <<seen, seenAge, runs, steady>>

(* Any key but those the question takes: mark_rows_dirty. *)
Handled(changes) ==
  /\ phase = "shown" /\ ~ asking
  /\ phase' = "top"
  /\ dirty' = TRUE
  /\ behind' = behind \cup IF changes THEN {"key"} ELSE {}

(* stop_daemon: a signal, on which the daemon ends or, if it is another
   user's, does not. *)
Stops ==
  /\ seen' = FALSE /\ seenAge' = 0
  /\ runs' \in {runs, FALSE} /\ steady' = 0

(* start_daemon: restart the unit, or else spawn; the child may not live. *)
Starts ==
  /\ seen' \in BOOLEAN /\ seenAge' = 0
  /\ runs' \in BOOLEAN /\ (~ seen' => ~ runs') /\ steady' = 0

Moves ==
  /\ Handled(FALSE)
  /\ \E forward \in BOOLEAN : selected' = Step(forward)
  /\ UNCHANGED asking /\ KeepsDaemon /\ Alone

(* '+' and '-', keys without a meaning, and those that do nothing on the row:
   the rows are marked all the same. *)
Marks ==
  /\ Handled(FALSE)
  /\ UNCHANGED <<selected, asking>> /\ KeepsDaemon /\ Alone

Quits ==
  /\ phase = "shown" /\ ~ asking
  /\ phase' = "closed"
  /\ UNCHANGED <<selected, asking, dirty, behind>> /\ KeepsDaemon /\ Alone

(* 'r', and Enter on the rows that stop the daemon first. *)
Restores ==
  /\ Handled(TRUE)
  /\ Stops
  /\ UNCHANGED <<selected, asking>> /\ Alone

EnterStops ==
  /\ Item(selected) \in {"ProfilePerformance", "ProfileRestore", "Calibrate", "CalibRestore"}
  /\ Restores

Asks ==
  /\ Handled(FALSE)
  /\ Item(selected) = "ProfileExtreme"
  /\ asking' = TRUE
  /\ UNCHANGED selected /\ KeepsDaemon /\ Alone

(* Enter on Auto Extreme: refresh_daemon_state, then the opposite. *)
Switches ==
  /\ Handled(TRUE)
  /\ Item(selected) = "ProfileAutoExtreme"
  /\ LET active == IF seenAge >= DaemonTtl THEN runs ELSE seen
     IN IF active THEN Stops ELSE Starts
  /\ UNCHANGED <<selected, asking>> /\ Alone

(* Left and Right on a limit or a switch. *)
Adjusts ==
  /\ Handled(TRUE)
  /\ Item(selected) \in Adjustable
  /\ Stops
  /\ UNCHANGED <<selected, asking>> /\ Alone

(* The rows that leave the daemon alone. *)
Sets(row) ==
  /\ Handled(TRUE)
  /\ Item(selected) = row
  /\ UNCHANGED <<selected, asking, runs, steady>> /\ Alone

SetsLevel == Sets("AutoExtremeLevel") /\ UNCHANGED <<seen, seenAge>>
TogglesAuto == Sets("AutoBrightness") /\ UNCHANGED <<seen, seenAge>>
Dims == Sets("Brightness") /\ UNCHANGED <<seen, seenAge>>
Purges == Sets("ProcessPurge") /\ UNCHANGED <<seen, seenAge>>

(* set_charge_limit asks for the daemon if it cannot write the limit itself. *)
Limits == Sets("ChargeLimit") /\ (ReadsDaemon \/ UNCHANGED <<seen, seenAge>>)

(* The question takes every key, and none marks the rows. *)
Answered ==
  /\ phase = "shown" /\ asking
  /\ phase' = "top"
  /\ UNCHANGED <<selected, dirty>> /\ Alone

(* confirm_extreme_mode *)
Yes ==
  /\ Answered
  /\ asking' = FALSE
  /\ Stops
  /\ behind' = behind \cup {"answer"}

No ==
  /\ Answered
  /\ asking' = FALSE
  /\ UNCHANGED behind /\ KeepsDaemon

Ignored ==
  /\ Answered
  /\ UNCHANGED <<asking, behind>> /\ KeepsDaemon

Key == Moves \/ Marks \/ Quits \/ Restores \/ EnterStops \/ Asks \/ Switches \/ Adjusts
       \/ SetsLevel \/ TogglesAuto \/ Dims \/ Purges \/ Limits \/ Yes \/ No \/ Ignored

-----------------------------------------------------------------------------
(* The world.                                                              *)

DaemonChanges ==
  /\ phase # "closed"
  /\ runs' = ~ runs /\ steady' = 0
  /\ UNCHANGED <<selected, scroll, asking, seen, seenAge, label, dirty,
                 rowsAge, shown, behind, told, phase>>

HardwareChanges ==
  /\ phase # "closed"
  /\ behind' = behind \cup {"others"}
  /\ UNCHANGED <<selected, scroll, asking, seen, seenAge, label, dirty,
                 rowsAge, shown, runs, steady, told, phase>>

Signalled ==
  /\ phase # "closed"
  /\ told' = TRUE
  /\ UNCHANGED <<selected, scroll, asking, seen, seenAge, label, dirty,
                 rowsAge, shown, behind, runs, steady, phase>>

Loop == Frame \/ Closes \/ Polled

Next == Loop \/ Key \/ DaemonChanges \/ HardwareChanges \/ Signalled

Spec == Init /\ [][Next]_vars

-----------------------------------------------------------------------------
(* Properties.                                                             *)

(* However the terminal is resized, the frame is tidy, with or without the
   question, and the scrollbar and every sample and bar of the plot are inside
   theirs, the newest at the right.  The exception: a menu that has grown keeps
   its scroll position, and may end in blank rows with its scrollbar below
   them. *)
FrameIsTidy ==
  LET w == shown.size.w
      h == shown.size.h
      n == Len(Items)
      v == MenuHeight(shown.size)
      p == PlotWidth(Graph(w, h).w)
  IN phase = "shown" =>
       /\ Tidy(w, h)
       /\ v \in 1 .. n - 1 /\ scroll <= n - v => BarFits(n, v, scroll)
       /\ HasGraph(w, h) =>
            \A samples \in {1, 7, 400} :
              /\ \A i \in 0 .. p - 1 : Sample(samples, p, i) \in 0 .. samples
              /\ Sample(samples, p, p - 1) = samples
       /\ HasGraph(w, h) => \A peak \in Peaks : BarsFit(peak, Graph(w, h).h)
       /\ shown.asking => Asked(w, h)
       /\ LineWidth(Menu(w, h).w) = Menu(w, h).w

(* Every frame draws the row that keys act on.  The exceptions: on 3 to 7 rows
   the banner and the summary may leave the menu none, and 4 columns are its
   margins.  A toast is not part of the frames here: for three seconds it may
   cover the middle of the menu's last row. *)
SelectedIsShown ==
  phase = "shown" /\ shown.size.h \notin {0} \cup 3 .. 7 /\ shown.size.w > 4 =>
    shown.visible

(* A key acts on the row, and answers the question, that the last frame has
   shown: no key is handled between a change of them and the frame. *)
ActsOnWhatIsShown ==
  [][Key => selected = shown.selected /\ asking = shown.asking]_vars

(* No frame shows rows from before a key was handled, or older than ROWS_TTL.
   The exception: what the answer to the question changes may be missing for
   that long. *)
RowsAreFresh ==
  phase = "shown" => "key" \notin behind /\ (behind # {} => rowsAge < RowsTtl)

(* A frame shows whether a daemon runs as it is once nobody has changed it for
   DAEMON_STATE_TTL and ROWS_TTL: what a key has assumed of its own effect is
   not kept. *)
LabelSettles ==
  phase = "shown" /\ steady >= Longest => label = runs

=============================================================================
