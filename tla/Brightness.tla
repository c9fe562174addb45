------------------------------ MODULE Brightness ------------------------------
(***************************************************************************)
(* Auto-brightness, a tick every 300 ms, against the `brightness` command, *)
(* the rows of a dashboard and the keys of the machine.  One backlight     *)
(* device; raw levels are its own, 0..MaxRaw, percentages what the code    *)
(* makes of them (Panel).                                                  *)
(***************************************************************************)
EXTENDS Panel

CONSTANTS
  Classes,       \* kinds of the active window
  Levels,        \* auto-extreme levels the user picks from
  Manual,        \* percentages the command is called with
  Closed         \* no dashboard

(* What the device, the windows, the levels and the percentages may be. *)
Sensible ==
  /\ MaxRaw \in Nat \ {0}
  /\ Rounds \in BOOLEAN
  /\ Classes \subseteq {"terminal", "heavy", "other"}
  /\ Levels \subseteq {"high", "medium", "low"}
  /\ Manual \subseteq 1 .. 100

ASSUME BacklightAssumption == Sensible

VARIABLES
  file,       \* auto_brightness and auto_extreme_level in config.json
  dash,       \* the same in the memory of the dashboard, or Closed
  adjusted,   \* has the Brightness row written, and not yet saved?
  cmd,        \* the percentage a command has written and not yet saved, or 0
  class,      \* the active window
  session,    \* is a compositor running, and has the daemon its socket?
  last,       \* last_applied_brightness, 0 for none
  tick        \* what the tick is in the middle of

vars == <<file, dash, adjusted, cmd, class, session, raw, last, tick>>

-----------------------------------------------------------------------------
(* What the window asks for.                                               *)

Target(c, l) ==
  (CASE c = "terminal" -> 12 [] c = "heavy" -> 30 [] c = "other" -> 20) +
  (CASE l = "high" -> 0 [] l = "medium" -> 10 [] l = "low" -> 20)

-----------------------------------------------------------------------------
Settings == [auto : BOOLEAN, level : Levels]
Rest == [step |-> "rest", target |-> 0]
Sessions == {"none", "found", "missed"}

(* active_window_class: without an answer of the compositor, and without one
   of xdotool, which has no display to ask in a service of the system, the
   class is empty, and that is sorted with the terminals.  (A detached daemon
   started from a graphical session inherits its display: its answers are those
   of a session that was found.) *)
Seen == IF session = "found" THEN class ELSE "terminal"

TypeOK ==
  /\ file \in Settings
  /\ dash \in Settings \cup {Closed}
  /\ adjusted \in BOOLEAN
  /\ cmd \in Manual \cup {0}
  /\ class \in Classes
  /\ session \in Sessions
  /\ raw \in 0 .. MaxRaw
  /\ last \in 0 .. 100
  /\ tick \in [step : {"rest", "compare", "write"}, target : 0 .. 100]

Init ==
  /\ file \in [auto : {FALSE}, level : Levels]
  /\ dash = Closed
  /\ adjusted = FALSE
  /\ cmd = 0
  /\ class \in Classes
  /\ session = "none"
  /\ raw = MaxRaw
  /\ last = 0
  /\ tick = Rest

-----------------------------------------------------------------------------
(* The daemon.                                                             *)

(* apply_brightness_step loads the configuration and asks for the window. *)
TickAims(c) ==
  /\ tick = Rest
  /\ file.auto
  /\ tick' = [step |-> "compare", target |-> Target(c, file.level)]
  /\ UNCHANGED <<file, dash, adjusted, cmd, class, session, raw, last>>

TickBegins == TickAims(Seen)

(* A busy compositor does not answer in the 50 ms it is given. *)
TickTimesOut == session = "found" /\ TickAims("terminal")

(* Mutant: what was applied last is taken for what is there. *)
TickComparesLast ==
  /\ tick.step = "compare"
  /\ tick' = IF last # tick.target THEN [tick EXCEPT !.step = "write"] ELSE Rest
  /\ UNCHANGED <<file, dash, adjusted, cmd, class, session, raw, last>>

TickCompares ==
  /\ tick.step = "compare"
  /\ tick' = IF last # tick.target \/ Percent(raw) # tick.target
             THEN [tick EXCEPT !.step = "write"] ELSE Rest
  /\ UNCHANGED <<file, dash, adjusted, cmd, class, session, raw, last>>

TickWrites ==
  /\ tick.step = "write"
  /\ raw' \in Written(tick.target)
  /\ last' = tick.target
  /\ tick' = Rest
  /\ UNCHANGED <<file, dash, adjusted, cmd, class, session>>

(* Stopped or killed, and started again.  HyprlandIpc looks for the socket
   here and never again, and takes the first it comes across: it may be one
   that a session before left behind. *)
DaemonRestarts ==
  /\ last' = 0
  /\ tick' = Rest
  /\ session' \in IF session = "none" THEN {"none"} ELSE {"found", "missed"}
  /\ UNCHANGED <<file, dash, adjusted, cmd, class, raw>>

-----------------------------------------------------------------------------
(* Commands.                                                               *)

(* `brightness <n>` *)
CmdSets ==
  /\ cmd = 0
  /\ \E p \in Manual : cmd' = p /\ raw' \in Written(p)
  /\ UNCHANGED <<file, dash, adjusted, class, session, last, tick>>

CmdSaves ==
  /\ cmd # 0
  /\ file' = [file EXCEPT !.auto = FALSE]
  /\ cmd' = 0
  /\ UNCHANGED <<dash, adjusted, class, session, raw, last, tick>>

(* `brightness on|off` and `auto-extreme-level`: load, change, save. *)
CmdAuto ==
  /\ \E b \in BOOLEAN : file' = [file EXCEPT !.auto = b]
  /\ UNCHANGED <<dash, adjusted, cmd, class, session, raw, last, tick>>

CmdLevel ==
  /\ \E l \in Levels : file' = [file EXCEPT !.level = l]
  /\ UNCHANGED <<dash, adjusted, cmd, class, session, raw, last, tick>>

-----------------------------------------------------------------------------
(* The dashboard, which saves the configuration it has in memory.          *)

DashOpens ==
  /\ dash = Closed
  /\ dash' = file
  /\ UNCHANGED <<file, adjusted, cmd, class, session, raw, last, tick>>

DashCloses ==
  /\ dash # Closed /\ ~adjusted
  /\ dash' = Closed
  /\ UNCHANGED <<file, adjusted, cmd, class, session, raw, last, tick>>

(* The Auto Brightness row flips it, the level row sets a level, and the rows
   of other settings save both as they are. *)
DashSaves ==
  /\ dash # Closed /\ ~adjusted
  /\ \E s \in {[dash EXCEPT !.auto = b] : b \in BOOLEAN} \cup
              {[dash EXCEPT !.level = l] : l \in Levels} :
       dash' = s /\ file' = s
  /\ UNCHANGED <<adjusted, cmd, class, session, raw, last, tick>>

DashAdjusts(next) ==
  /\ dash # Closed /\ ~adjusted
  /\ raw' \in Written(next)
  /\ adjusted' = TRUE
  /\ UNCHANGED <<file, dash, cmd, class, session, last, tick>>

DashLeft == DashAdjusts(StepDown(raw))
DashRight == DashAdjusts(StepUp(raw))

(* Auto-brightness is cleared if the dashboard's own copy has it. *)
DashAdjusted ==
  /\ adjusted
  /\ adjusted' = FALSE
  /\ dash' = [dash EXCEPT !.auto = FALSE]
  /\ file' = IF dash.auto THEN [dash EXCEPT !.auto = FALSE] ELSE file
  /\ UNCHANGED <<cmd, class, session, raw, last, tick>>

-----------------------------------------------------------------------------
(* The world.                                                              *)

Hotkey ==
  /\ raw' = MaxRaw
  /\ UNCHANGED <<file, dash, adjusted, cmd, class, session, last, tick>>

WindowChanges ==
  /\ class' \in Classes
  /\ UNCHANGED <<file, dash, adjusted, cmd, session, raw, last, tick>>

(* A compositor makes itself a new socket, which the daemon does not know. *)
SessionStarts ==
  /\ session = "none"
  /\ session' = "missed"
  /\ UNCHANGED <<file, dash, adjusted, cmd, class, raw, last, tick>>

SessionEnds ==
  /\ session # "none"
  /\ session' = "none"
  /\ UNCHANGED <<file, dash, adjusted, cmd, class, raw, last, tick>>

-----------------------------------------------------------------------------
Daemon == TickBegins \/ TickCompares \/ TickWrites
Meddling == TickTimesOut \/ DaemonRestarts \/ CmdSets \/ DashLeft \/ DashRight \/ Hotkey

Next ==
  \/ Daemon
  \/ Meddling
  \/ CmdSaves \/ CmdAuto \/ CmdLevel
  \/ DashOpens \/ DashCloses \/ DashSaves \/ DashAdjusted
  \/ WindowChanges \/ SessionStarts \/ SessionEnds

Spec == Init /\ [][Next]_vars

(* The ticker fires every 300 ms; what has begun is finished. *)
FairSpec ==
  /\ Spec
  /\ WF_vars(Daemon)
  /\ WF_vars(CmdSaves) /\ WF_vars(DashAdjusted)

-----------------------------------------------------------------------------
(* Properties.                                                             *)

(* The brightness is p, as it is written or as it is read back. *)
AsAsked(p) == raw \in Written(p) \/ Percent(raw) = p

(* With auto-brightness on, a window that stays and nobody meddling, the
   screen comes to the brightness for that window and level, also when what
   was applied last is that brightness and somebody has changed it since.  In
   a session the daemon has not found it comes to that of a terminal, whatever
   the window. *)
AutoSettles ==
  \A c \in Classes \cup {"terminal"}, l \in Levels :
    /\ <>[](file.auto /\ file.level = l /\ Seen = c)
    /\ <>[][~Meddling]_vars
    => <>[]AsAsked(Target(c, l))

===============================================================================
