-------------------------------- MODULE Screen --------------------------------
(***************************************************************************)
(* Where the dashboard puts what, for a terminal of w columns and h rows,   *)
(* and which part of the menu and of the history it shows there (tui/ui.rs). *)
(* Rows and columns count from 0.                                           *)
(***************************************************************************)
EXTENDS Integers

Lower(a, b) == IF a < b THEN a ELSE b
Higher(a, b) == IF a > b THEN a ELSE b
Clamp(v, lo, hi) == IF v < lo THEN lo ELSE IF v > hi THEN hi ELSE v
Minus(a, b) == IF a > b THEN a - b ELSE 0

Region == [x : Nat, y : Nat, w : Nat, h : Nat]
Nowhere == [x |-> 0, y |-> 0, w |-> 0, h |-> 0]

-----------------------------------------------------------------------------
(* layout.  From the top: banner, summary, content, a blank row, footer.    *)

Large(w, h) == w >= 72 /\ h >= 28
Titled(w, h) == w >= 16 /\ h >= 4

Banner(w, h) ==
  IF Large(w, h) THEN [x |-> (w - 68) \div 2, y |-> 1, w |-> 68, h |-> 6]
  ELSE IF Titled(w, h) THEN [x |-> (w - 10) \div 2, y |-> 1, w |-> 10, h |-> 1]
  ELSE Nowhere

UnderBanner(w, h) == IF Large(w, h) THEN 8 ELSE IF Titled(w, h) THEN 3 ELSE 0

HasSummary(w, h) == w >= 24 /\ h >= UnderBanner(w, h) + 3
SummaryRow(w, h) == UnderBanner(w, h)
Top(w, h) == UnderBanner(w, h) + IF HasSummary(w, h) THEN 2 ELSE 0

HasFooter(h) == h >= 3
FooterRow(h) == h - 1
Bottom(h) == IF HasFooter(h) THEN h - 2 ELSE h

Content(w, h) == Minus(Bottom(h), Top(w, h))

(* Mutant: the caption, the axis and the blank row are forgotten. *)
MenuShareTight(c) ==
  IF c < 7 THEN c
  ELSE c - Clamp(IF c >= 26 THEN Lower(c \div 2, 20)
                 ELSE IF c >= 16 THEN c \div 3 ELSE c \div 4, 3, c - 4)

(* split_vertical: the rows of the plot, and those left to the menu. *)
PlotShare(c) ==
  IF c < 7 THEN 0
  ELSE Clamp(IF c >= 26 THEN Lower(c \div 2, 20)
             ELSE IF c >= 16 THEN c \div 3 ELSE c \div 4, 3, c - 4)
MenuShare(c) == IF c < 7 THEN c ELSE Minus(c, PlotShare(c) + 3)

(* A wide terminal has the plot beside the menu, another above it. *)
Wide(w, h) == w >= 110 /\ Content(w, h) >= 5
MenuColumns(w) == Clamp((w * 45) \div 100, 44, 72)
PlotColumns(w) == Minus(w, 2 + MenuColumns(w) + 2 + 2)
Beside(w, h) == Wide(w, h) /\ PlotColumns(w) >= 34 /\ Minus(Content(w, h), 2) >= 3
Above(w, h) == ~ Wide(w, h) /\ PlotShare(Content(w, h)) >= 3 /\ w >= 40

Graph(w, h) ==
  IF Beside(w, h)
  THEN [x |-> 2 + MenuColumns(w) + 2, y |-> Top(w, h),
        w |-> PlotColumns(w), h |-> Minus(Content(w, h), 2)]
  ELSE IF Above(w, h)
  THEN [x |-> 2, y |-> Top(w, h), w |-> Minus(w, 4), h |-> PlotShare(Content(w, h))]
  ELSE Nowhere
HasGraph(w, h) == Beside(w, h) \/ Above(w, h)

Menu(w, h) ==
  [x |-> 2,
   y |-> Top(w, h) + IF Above(w, h) THEN PlotShare(Content(w, h)) + 3 ELSE 0,
   w |-> IF Beside(w, h) THEN MenuColumns(w) ELSE Minus(w, 4),
   h |-> IF Wide(w, h) THEN Content(w, h) ELSE MenuShare(Content(w, h))]

(* The rows that say there is more of the menu. *)
MoreAbove(w, h) == Minus(Menu(w, h).y, 1)
MoreBelow(w, h) == Menu(w, h).y + Menu(w, h).h

(* draw_extreme_modal: the box over everything but the footer, and the row of
   the keys that answer it. *)
Box(w, h) ==
  LET bw == Higher(Lower(62, w), 3)
      bh == Higher(Lower(9, h), 1)
  IN [x |-> Minus(w, bw) \div 2, y |-> Minus(h, bh) \div 2, w |-> bw, h |-> bh]

AnswersRow(w, h) == Box(w, h).y + 6

-----------------------------------------------------------------------------
(* draw_menu, of n items, in a menu of v rows.                              *)

(* Mutant: the row below the last that fits counts as visible. *)
ScrolledLate(selected, scroll, v) ==
  IF selected < scroll THEN selected
  ELSE IF selected > scroll + v THEN selected - v + 1 ELSE scroll

(* The first row shown, given the one of the last frame. *)
Scrolled(selected, scroll, v) ==
  IF selected < scroll THEN selected
  ELSE IF selected >= scroll + v THEN selected - v + 1 ELSE scroll

(* The scrollbar, where not everything fits. *)
BarHeight(n, v) == Higher((v * v) \div n, 1)
BarPos(n, v, scroll) ==
  (scroll * Minus(v, BarHeight(n, v))) \div Higher(Minus(n, v), 1)

(* menu_line: marker (3 wide), name and value in w columns. *)
ValueWidth(w) == Lower(Clamp(w \div 3, 5, 15), Minus(w, 1))
NameWidth(w) == Higher(Minus(w, Lower(3, w) + ValueWidth(w) + 1), 1)
LineWidth(w) == IF w = 0 THEN 0 ELSE Lower(3 + NameWidth(w) + 1 + ValueWidth(w), w)

-----------------------------------------------------------------------------
(* draw_bar_graph: which of n samples, from 1, is in column i of the plot;  *)
(* 0: none.                                                                 *)

PlotWidth(w) == Minus(w, 14)
Sample(n, p, i) ==
  IF n > p THEN n - p + i + 1 ELSE IF i < p - n THEN 0 ELSE i - (p - n) + 1

(* graph_scale: the ceiling of the plot in W for a peak in tenths of W. *)
Steps == {5, 10, 15, 20, 25, 30, 40, 50, 60, 80, 100, 120, 150, 200, 300, 500}

Scale(peak) ==
  LET fits == {step \in Steps : 100 * step >= 12 * peak}
  IN IF peak = 0 THEN 15
     ELSE IF fits = {} THEN 500
     ELSE CHOOSE step \in fits : \A other \in fits : step <= other

(* The height of a bar in eighths of a row, in a plot of h rows, and how much
   of row y, from the bottom, it fills. *)
Dots(watts, scale, h) == (Lower(watts, 10 * scale) * (8 * h)) \div (10 * scale)
Filled(dots, y) == Lower(Minus(dots, 8 * y), 8)

-----------------------------------------------------------------------------
(* Properties.                                                             *)

(* The blocks lie inside the screen, from top to bottom, and none over
   another: the menu with its scrollbar beside the plot, or under the plot
   with its caption and its axis, and free rows for what says that there is
   more of the menu. *)
Tidy(w, h) ==
  LET menu == Menu(w, h)
      graph == Graph(w, h)
      banner == Banner(w, h)
  IN /\ banner.y + banner.h <= UnderBanner(w, h) /\ banner.x + banner.w <= w
     /\ HasSummary(w, h) => SummaryRow(w, h) < Top(w, h)
     /\ menu.h > 0 => /\ Top(w, h) <= menu.y
                      /\ menu.y + menu.h <= h
                      /\ HasFooter(h) => MoreBelow(w, h) < FooterRow(h)
                      /\ HasSummary(w, h) => SummaryRow(w, h) < MoreAbove(w, h)
     /\ HasGraph(w, h) =>
          /\ graph.x + graph.w <= w
          /\ graph.y + graph.h + 2 <= Bottom(h)
          /\ \/ menu.x + menu.w < graph.x
             \/ graph.y + graph.h + 2 <= MoreAbove(w, h)

(* The row selected is one of the v that are shown from the first one on. *)
Shows(selected, first, v) == selected \in first .. first + v - 1

(* The question lies inside the screen, and above the footer with what answers
   it.  The exceptions: fewer than 3 columns, and 7 rows or fewer, on which the
   answers are cut off or under the footer. *)
Asked(w, h) ==
  LET box == Box(w, h) IN
  /\ w >= 3 => box.x + box.w <= w
  /\ h >= 1 => box.y + box.h <= h
  /\ h >= 8 => AnswersRow(w, h) < Lower(box.y + box.h, FooterRow(h))

(* The bars end below the top of a plot of h rows, and leave a sixth of it free
   unless the peak is above the highest scale; a row is only filled over full
   ones. *)
BarsFit(peak, h) ==
  LET top == Dots(peak, Scale(peak), h) IN
  /\ top <= 8 * h
  /\ 12 * peak <= 50000 => 6 * top <= 40 * h
  /\ \A y \in 1 .. h : Filled(top, y) > 0 => Filled(top, y - 1) = 8

(* The scrollbar ends above the row under its track. *)
BarFits(n, v, scroll) == BarPos(n, v, scroll) + BarHeight(n, v) <= v

===============================================================================
