-------------------------------- MODULE Panel ---------------------------------
(***************************************************************************)
(* The backlight device, its raw levels, 0..MaxRaw, and the percentages     *)
(* the code makes of them with integer division.                            *)
(***************************************************************************)
EXTENDS Integers

CONSTANTS
  MaxRaw,        \* max_brightness
  Rounds         \* does brightnessctl, if installed, round a half up?

VARIABLE raw     \* brightness

Percentage(v) == IF v < 1 THEN 1 ELSE IF v > 100 THEN 100 ELSE v

(* brightness_percent *)
Percent(r) == (r * 100) \div MaxRaw

(* What set_brightness_percent writes itself. *)
Raw(p) == (Percentage(p) * MaxRaw) \div 100

(* What it may leave: brightnessctl is asked for the same percentage. *)
Written(p) ==
  {Raw(p)} \cup {r \in {(Percentage(p) * MaxRaw + 50) \div 100} : Rounds}

StepDown(r) == Percentage(Percent(r) - 5)

(* Mutant: a step of one, as in the row below. *)
StepUpOne(r) == Percentage(Percent(r) + 1)

StepUp(r) == Percentage(Percent(r) + 5)

-----------------------------------------------------------------------------
(* The Right key on the Brightness row makes the screen brighter, unless it
   is at its brightest: the detour through whole percentages does not swallow
   the step.  (What the handler reads and writes, before brightnessctl.) *)
RightRaises ==
  raw < MaxRaw => Raw(StepUp(raw)) > raw

===============================================================================
