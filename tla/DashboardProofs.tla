---------------------------- MODULE DashboardProofs ---------------------------
(***************************************************************************)
(* The layout of the screen for a terminal of any size, and its menu,       *)
(* scrollbar and plot for any number of items and samples; and what holds   *)
(* of the loop of the dashboard on every system, whatever sizes the terminal *)
(* takes and however long the copies it shows are kept.                     *)
(***************************************************************************)
EXTENDS Dashboard, TLAPS, SequenceTheorems, WellFoundedInduction

-----------------------------------------------------------------------------
(* The screen.                                                             *)

LEMMA ClampBounds ==
  ASSUME NEW v \in Int, NEW lo \in Int, NEW hi \in Int, lo <= hi
  PROVE  Clamp(v, lo, hi) \in lo .. hi
BY DEF Clamp

LEMMA UnderBannerType ==
  ASSUME NEW w \in Nat, NEW h \in Nat
  PROVE  /\ UnderBanner(w, h) \in {0, 3, 8}
         /\ h < 4 => UnderBanner(w, h) = 0
         /\ UnderBanner(w, h) = 8 => h >= 28
         /\ Banner(w, h).y + Banner(w, h).h <= UnderBanner(w, h)
         /\ Banner(w, h).x + Banner(w, h).w <= w
BY DEF UnderBanner, Banner, Large, Titled, Nowhere

LEMMA TopType ==
  ASSUME NEW w \in Nat, NEW h \in Nat
  PROVE  /\ Top(w, h) \in Nat
         /\ HasSummary(w, h) => /\ SummaryRow(w, h) < Top(w, h)
                                /\ SummaryRow(w, h) + 2 = Top(w, h)
         /\ Content(w, h) \in Nat /\ Content(w, h) <= h
         /\ Bottom(h) \in Nat /\ Bottom(h) <= h
         /\ HasFooter(h) => Bottom(h) < FooterRow(h)
         /\ Content(w, h) > 0 => Top(w, h) + Content(w, h) = Bottom(h)
BY UnderBannerType DEF Top, HasSummary, SummaryRow, Content, Bottom, HasFooter, FooterRow, Minus

(* split_vertical: plot, caption, axis, a blank row and the menu fit, and the
   menu is left a row. *)
LEMMA SharesFit ==
  ASSUME NEW c \in Nat
  PROVE  /\ PlotShare(c) \in Nat /\ MenuShare(c) \in Nat
         /\ c < 7 => PlotShare(c) = 0 /\ MenuShare(c) = c
         /\ c >= 7 => /\ PlotShare(c) >= 3 /\ MenuShare(c) >= 1
                      /\ PlotShare(c) + 3 + MenuShare(c) = c
<1>1. CASE c < 7
  BY <1>1 DEF PlotShare, MenuShare
<1>2. CASE c >= 7
  <2> DEFINE third == IF c >= 26 THEN Lower(c \div 2, 20)
                      ELSE IF c >= 16 THEN c \div 3 ELSE c \div 4
  <2>1. third \in Nat
    BY DEF Lower
  <2> HIDE DEF third
  <2>2. Clamp(third, 3, c - 4) \in 3 .. c - 4
    BY <1>2, <2>1, ClampBounds
  <2>3. PlotShare(c) = Clamp(third, 3, c - 4)
    BY <1>2 DEF PlotShare, third
  <2> QED BY <1>2, <2>2, <2>3 DEF MenuShare, Minus
<1> QED BY <1>1, <1>2

LEMMA MenuColumnsType ==
  ASSUME NEW w \in Nat, w >= 110
  PROVE  /\ MenuColumns(w) \in 44 .. 72
         /\ PlotColumns(w) \in Nat
         /\ 2 + MenuColumns(w) + 2 + PlotColumns(w) <= w
<1>1. (w * 45) \div 100 \in Int
  OBVIOUS
<1>2. MenuColumns(w) \in 44 .. 72
  <2> DEFINE share == (w * 45) \div 100
  <2>1. share \in Int
    BY <1>1
  <2> HIDE DEF share
  <2>2. Clamp(share, 44, 72) \in 44 .. 72
    BY <2>1 DEF Clamp
  <2> QED BY <2>2 DEF MenuColumns, share
<1> QED BY <1>2 DEF PlotColumns, Minus

(* Whatever the size of the terminal, nothing lies outside the screen or over
   anything else (ui.rs layout, whose test tries the sizes up to 240 x 80). *)
THEOREM LayoutIsTidy == \A w, h \in Nat : Tidy(w, h)
<1> SUFFICES ASSUME NEW w \in Nat, NEW h \in Nat PROVE Tidy(w, h)
  OBVIOUS
<1> DEFINE c == Content(w, h)
<1>1. /\ Banner(w, h).y + Banner(w, h).h <= UnderBanner(w, h)
      /\ Banner(w, h).x + Banner(w, h).w <= w
      /\ HasSummary(w, h) => SummaryRow(w, h) < Top(w, h)
  BY UnderBannerType, TopType
<1>0. ASSUME Top(w, h) <= Menu(w, h).y, Menu(w, h).y \in Nat
      PROVE  HasSummary(w, h) => SummaryRow(w, h) < MoreAbove(w, h)
  <2> SUFFICES ASSUME HasSummary(w, h) PROVE SummaryRow(w, h) < MoreAbove(w, h)
    OBVIOUS
  <2>1. SummaryRow(w, h) \in Nat
    BY UnderBannerType DEF SummaryRow
  <2>2. SummaryRow(w, h) + 2 = Top(w, h)
    BY TopType
  <2> DEFINE row == SummaryRow(w, h)
             y == Menu(w, h).y
  <2>3. row \in Nat /\ y \in Nat /\ row + 2 <= y
    BY <1>0, <2>1, <2>2
  <2>4. MoreAbove(w, h) = Minus(y, 1)
    BY DEF MoreAbove
  <2> HIDE DEF row, y
  <2>5. row < Minus(y, 1)
    BY <2>3 DEF Minus
  <2> QED BY <2>4, <2>5 DEF row
<1>2. CASE Wide(w, h)
  <2>1. w >= 110 /\ c >= 5
    BY <1>2 DEF Wide
  <2>2. /\ Menu(w, h).y = Top(w, h) /\ Menu(w, h).h = c /\ Menu(w, h).x = 2
        /\ Beside(w, h) => Menu(w, h).w = MenuColumns(w)
    BY <1>2, TopType DEF Menu, Above
  <2>3. /\ HasGraph(w, h) => Beside(w, h)
        /\ Beside(w, h) => /\ Graph(w, h).x = 2 + MenuColumns(w) + 2
                           /\ Graph(w, h).y = Top(w, h)
                           /\ Graph(w, h).w = PlotColumns(w)
                           /\ Graph(w, h).h = c - 2
    BY <1>2, <2>1, TopType DEF HasGraph, Above, Graph, Minus
  <2>4. /\ c \in Nat /\ Top(w, h) \in Nat /\ Bottom(h) \in Nat /\ Bottom(h) <= h
        /\ HasFooter(h) => Bottom(h) < FooterRow(h)
        /\ Top(w, h) + c = Bottom(h)
    BY <2>1, TopType
  <2>5. MenuColumns(w) \in Nat /\ PlotColumns(w) \in Nat
        /\ 2 + MenuColumns(w) + 2 + PlotColumns(w) <= w
    BY <2>1, MenuColumnsType
  <2> HIDE DEF c
  <2>6. /\ Top(w, h) <= Menu(w, h).y
        /\ Menu(w, h).y + Menu(w, h).h <= h
        /\ HasFooter(h) => MoreBelow(w, h) < FooterRow(h)
        /\ HasSummary(w, h) => SummaryRow(w, h) < MoreAbove(w, h)
    <3>1. Menu(w, h).y \in Nat /\ Top(w, h) <= Menu(w, h).y
      BY <2>2, <2>4
    <3>2. MoreBelow(w, h) = Menu(w, h).y + Menu(w, h).h
      BY DEF MoreBelow
    <3> QED BY <1>0, <2>2, <2>4, <3>1, <3>2
  <2>7. ASSUME HasGraph(w, h)
        PROVE  /\ Graph(w, h).x + Graph(w, h).w <= w
               /\ Graph(w, h).y + Graph(w, h).h + 2 <= Bottom(h)
               /\ Menu(w, h).x + Menu(w, h).w < Graph(w, h).x
    BY <2>1, <2>2, <2>3, <2>4, <2>5, <2>7
  <2> QED BY <1>1, <2>6, <2>7 DEF Tidy
<1>3. CASE ~ Wide(w, h)
  <2>1. /\ Menu(w, h).y = Top(w, h) + IF Above(w, h) THEN PlotShare(c) + 3 ELSE 0
        /\ Menu(w, h).h = MenuShare(c)
    BY <1>3 DEF Menu, Wide
  <2>2. /\ HasGraph(w, h) => Above(w, h)
        /\ Above(w, h) => /\ Graph(w, h).x = 2 /\ Graph(w, h).y = Top(w, h)
                          /\ Graph(w, h).w = Minus(w, 4) /\ Graph(w, h).h = PlotShare(c)
                          /\ w >= 40 /\ PlotShare(c) >= 3
    BY <1>3 DEF HasGraph, Beside, Above, Graph
  <2>3. c \in Nat /\ (c > 0 => Top(w, h) + c = Bottom(h))
    BY TopType
  <2>4. Above(w, h) => c >= 7
    BY <2>2, <2>3, SharesFit
  <2>5. /\ Top(w, h) \in Nat /\ Bottom(h) \in Nat /\ Bottom(h) <= h
        /\ HasFooter(h) => Bottom(h) < FooterRow(h)
    BY TopType
  <2>6. /\ PlotShare(c) \in Nat /\ MenuShare(c) \in Nat
        /\ c < 7 => PlotShare(c) = 0 /\ MenuShare(c) = c
        /\ c >= 7 => MenuShare(c) >= 1 /\ PlotShare(c) + 3 + MenuShare(c) = c
    BY <2>3, SharesFit
  <2> HIDE DEF c
  <2>7. ASSUME Menu(w, h).h > 0
        PROVE  /\ Top(w, h) <= Menu(w, h).y
               /\ Menu(w, h).y + Menu(w, h).h <= h
               /\ HasFooter(h) => MoreBelow(w, h) < FooterRow(h)
               /\ HasSummary(w, h) => SummaryRow(w, h) < MoreAbove(w, h)
    <3>1. c > 0
      BY <2>1, <2>3, <2>6, <2>7
    <3>2. Menu(w, h).y + Menu(w, h).h <= Bottom(h)
      BY <3>1, <2>1, <2>3, <2>4, <2>5, <2>6
    <3>3. FooterRow(h) \in Int
      BY DEF FooterRow
    <3>4. Menu(w, h).y \in Nat /\ Top(w, h) <= Menu(w, h).y
      BY <2>1, <2>5, <2>6
    <3>5. MoreBelow(w, h) = Menu(w, h).y + Menu(w, h).h
      BY DEF MoreBelow
    <3> QED BY <1>0, <3>2, <3>3, <3>4, <3>5, <2>1, <2>5, <2>6
  <2>8. ASSUME HasGraph(w, h)
        PROVE  /\ Graph(w, h).x + Graph(w, h).w <= w
               /\ Graph(w, h).y + Graph(w, h).h + 2 <= Bottom(h)
               /\ Graph(w, h).y + Graph(w, h).h + 2 <= MoreAbove(w, h)
    <3>1. /\ Graph(w, h).x + Graph(w, h).w <= w
          /\ Graph(w, h).y + Graph(w, h).h + 2 <= Bottom(h)
          /\ Graph(w, h).y + Graph(w, h).h + 2 < Menu(w, h).y
          /\ Menu(w, h).y \in Nat
          /\ Graph(w, h).y + Graph(w, h).h + 2 \in Nat
      BY <2>1, <2>2, <2>3, <2>4, <2>5, <2>6, <2>8 DEF Minus
    <3> QED BY <3>1 DEF MoreAbove, Minus
  <2> QED BY <1>1, <2>7, <2>8 DEF Tidy
<1> QED BY <1>2, <1>3

(* The menu has room for a row on every terminal of 8 rows or more, and on
   those of 1 or 2; it has columns from 5 on. *)
THEOREM MenuHasRoom ==
  \A w, h \in Nat :
    /\ h \notin {0} \cup 3 .. 7 => Menu(w, h).h >= 1
    /\ w > 4 => Menu(w, h).w >= 1
<1> SUFFICES ASSUME NEW w \in Nat, NEW h \in Nat
             PROVE  /\ h \notin {0} \cup 3 .. 7 => Menu(w, h).h >= 1
                    /\ w > 4 => Menu(w, h).w >= 1
  OBVIOUS
<1>1. h \notin {0} \cup 3 .. 7 => Content(w, h) >= 1
  BY DEF Content, Bottom, HasFooter, Top, HasSummary, UnderBanner, Large, Titled, Minus
<1>2. Menu(w, h).h = IF Wide(w, h) THEN Content(w, h) ELSE MenuShare(Content(w, h))
  BY DEF Menu
<1>3. Content(w, h) >= 1 => MenuShare(Content(w, h)) >= 1
  BY SharesFit, TopType
<1>4. Menu(w, h).w = IF Beside(w, h) THEN MenuColumns(w) ELSE Minus(w, 4)
  BY DEF Menu
<1>5. Beside(w, h) => w >= 110
  BY DEF Beside, Wide
<1> QED BY <1>1, <1>2, <1>3, <1>4, <1>5, MenuColumnsType DEF Minus

(* However the menu was scrolled, the next frame shows the row selected, and
   scrolls no further than that takes (ui.rs draw_menu). *)
THEOREM ScrolledShows ==
  \A sel, off, v \in Nat :
    v >= 1 => /\ Scrolled(sel, off, v) \in Nat
              /\ Shows(sel, Scrolled(sel, off, v), v)
              /\ Shows(sel, off, v) => Scrolled(sel, off, v) = off
              /\ Scrolled(sel, off, v) \in {off} \cup sel - v + 1 .. sel
BY DEF Scrolled, Shows

(* The value and the name of a row and the gaps fill its columns exactly. *)
THEOREM LineFits == \A w \in Nat : LineWidth(w) = w
<1> SUFFICES ASSUME NEW w \in Nat, w > 0 PROVE LineWidth(w) = w
  BY DEF LineWidth
<1> DEFINE third == w \div 3
<1>1. third \in Int
  OBVIOUS
<1> HIDE DEF third
<1>2. Clamp(third, 5, 15) \in 5 .. 15
  BY <1>1 DEF Clamp
<1>3. ValueWidth(w) = Lower(Clamp(third, 5, 15), Minus(w, 1))
  BY DEF ValueWidth, third
<1>4. ValueWidth(w) \in 0 .. w - 1
  BY <1>2, <1>3 DEF Lower, Minus
<1>5. NameWidth(w) \in Nat /\ 3 + NameWidth(w) + 1 + ValueWidth(w) >= w
  BY <1>4 DEF NameWidth, Lower, Higher, Minus
<1> QED BY <1>4, <1>5 DEF LineWidth, Lower

(* Every column of the plot shows a sample or none, never one twice, the
   newest at the right, whatever the number of samples and columns. *)
THEOREM SamplesFit ==
  \A n, p \in Nat \ {0} :
    /\ Sample(n, p, p - 1) = n
    /\ \A i \in 0 .. p - 1 : Sample(n, p, i) \in 0 .. n
    /\ \A i, j \in 0 .. p - 1 :
         i < j => Sample(n, p, i) < Sample(n, p, j) \/ Sample(n, p, i) = 0
BY DEF Sample

LEMMA Scaling ==
  ASSUME NEW a \in Nat, NEW b \in Nat, NEW k \in Nat \ {0}, a <= k
  PROVE  /\ a * b <= k * b
         /\ (a * b) \div k \in Nat
         /\ (a * b) \div k <= b
<1>1. a * b <= k * b /\ a * b \in Nat
  OBVIOUS
<1> DEFINE p == a * b
           q == p \div k
<1>2. q \in Nat /\ k * q <= p
  BY <1>1
<1> HIDE DEF q
<1>3. k * q <= k * b
  BY <1>1, <1>2
<1>4. q <= b
  <2>1. CASE q >= b + 1
    <3>1. k * q >= k * (b + 1)
      BY <1>2, <2>1
    <3>2. k * (b + 1) = k * b + k /\ k * b \in Nat /\ k * q \in Nat
      BY <1>2
    <3> QED BY <1>3, <3>1, <3>2
  <2> QED BY <1>2, <2>1
<1> QED BY <1>1, <1>2, <1>4 DEF q

(* Where not all n items fit into the v rows of the menu and the last frame
   did not leave rows blank, the scrollbar lies inside its track
   (ui.rs draw_menu). *)
THEOREM ScrollbarFits ==
  \A n, v, off \in Nat : v \in 1 .. n - 1 /\ off <= n - v => BarFits(n, v, off)
<1> SUFFICES ASSUME NEW n \in Nat, NEW v \in Nat, NEW off \in Nat,
                    v \in 1 .. n - 1, off <= n - v
             PROVE  BarFits(n, v, off)
  OBVIOUS
<1>1. BarHeight(n, v) \in 1 .. v
  <2>1. (v * v) \div n \in Nat /\ (v * v) \div n <= v
    BY Scaling
  <2> DEFINE part == (v * v) \div n
  <2>2. part \in Nat /\ part <= v
    BY <2>1
  <2>3. BarHeight(n, v) = Higher(part, 1)
    BY DEF BarHeight
  <2> HIDE DEF part
  <2> QED BY <2>2, <2>3 DEF Higher
<1> DEFINE free == v - BarHeight(n, v)
           left == n - v
<1>2. free \in Nat /\ left \in Nat \ {0} /\ off <= left
  BY <1>1
<1>3. BarPos(n, v, off) = (off * free) \div left
  BY <1>1 DEF BarPos, Higher, Minus
<1> HIDE DEF left
<1>4. BarPos(n, v, off) \in Nat /\ BarPos(n, v, off) <= free
  <2> HIDE DEF free
  <2> QED BY <1>2, <1>3, Scaling
<1> QED BY <1>1, <1>4 DEF BarFits

(* The question before Extreme Mode: its box lies inside every screen of 3
   columns or more, and its answers over the footer on 8 rows or more. *)
THEOREM QuestionFits == \A w, h \in Nat : Asked(w, h)
<1> SUFFICES ASSUME NEW w \in Nat, NEW h \in Nat PROVE Asked(w, h)
  OBVIOUS
<1> DEFINE bw == Higher(Lower(62, w), 3)
           bh == Higher(Lower(9, h), 1)
<1>1. /\ Box(w, h).w = bw /\ Box(w, h).x = Minus(w, bw) \div 2
      /\ Box(w, h).h = bh /\ Box(w, h).y = Minus(h, bh) \div 2
  BY DEF Box
<1>2. bw \in Nat /\ bh \in Nat /\ (w >= 3 => bw <= w) /\ (h >= 1 => bh <= h)
      /\ (h >= 9 => bh = 9) /\ (h = 8 => bh = 8)
  BY DEF Higher, Lower
<1> HIDE DEF bw, bh
<1>3. w >= 3 => Box(w, h).x + Box(w, h).w <= w
  BY <1>1, <1>2 DEF Minus
<1>4. h >= 1 => Box(w, h).y + Box(w, h).h <= h
  BY <1>1, <1>2 DEF Minus
<1>5. h >= 8 => AnswersRow(w, h) < Lower(Box(w, h).y + Box(w, h).h, FooterRow(h))
  <2>1. CASE h >= 9
    <3>1. Box(w, h).h = 9 /\ Box(w, h).y = (h - 9) \div 2
      BY <1>1, <1>2, <2>1 DEF Minus
    <3>2. (h - 9) \div 2 \in Nat /\ (h - 9) \div 2 <= h - 9
      BY <2>1
    <3> QED BY <2>1, <3>1, <3>2 DEF AnswersRow, Lower, FooterRow
  <2>2. CASE h = 8
    <3>1. Box(w, h).h = 8 /\ Box(w, h).y = 0
      BY <1>1, <1>2, <2>2 DEF Minus
    <3> QED BY <2>2, <3>1 DEF AnswersRow, Lower, FooterRow
  <2> QED BY <2>1, <2>2
<1> QED BY <1>3, <1>4, <1>5 DEF Asked

(* The ceiling of the plot is a step, and has room for the peak and a fifth
   more unless the peak is above the highest. *)
LEMMA ScaleFits ==
  ASSUME NEW peak \in Nat
  PROVE  /\ Scale(peak) \in 5 .. 500
         /\ 12 * peak <= 50000 => 12 * peak <= 100 * Scale(peak)
<1> DEFINE fits == {step \in Steps : 100 * step >= 12 * peak}
           Lowest(step) == \A other \in fits : step <= other
<1>1. fits \subseteq 5 .. 500 /\ \A step \in fits : 100 * step >= 12 * peak
  BY DEF Steps
<1>2. 12 * peak <= 50000 => 500 \in fits
  BY DEF Steps
<1>3. CASE peak = 0
  BY <1>3 DEF Scale
<1>4. CASE peak # 0 /\ fits = {}
  BY <1>2, <1>4 DEF Scale
<1>5. CASE peak # 0 /\ fits # {}
  <2>1. \E step \in fits : Lowest(step)
    <3>1. PICK k \in fits : \A j \in Nat : j < k => j \notin fits
      BY <1>1, <1>5 DEF Steps
    <3> HIDE DEF fits
    <3>2. Lowest(k)
      BY <1>1, <3>1
    <3> QED BY <3>2
  <2>2. Scale(peak) = CHOOSE step \in fits : Lowest(step)
    BY <1>5 DEF Scale
  <2>3. Scale(peak) \in fits
    BY <2>1, <2>2
  <2> QED BY <1>1, <2>3
<1> QED BY <1>3, <1>4, <1>5

(* Five sixths of a height, in whole eighths of a row. *)
LEMMA FiveSixths ==
  ASSUME NEW a \in Nat, NEW b \in Nat, NEW k \in Nat \ {0}, 6 * a <= 5 * k
  PROVE  6 * ((a * b) \div k) <= 5 * b
<1> DEFINE p == a * b
           q == p \div k
<1>1. p \in Nat /\ q \in Nat /\ k * q <= p
  <2>1. p \in Nat
    OBVIOUS
  <2> HIDE DEF p
  <2> QED BY <2>1
<1>2. 6 * p <= k * (5 * b)
  <2>1. (6 * a) * b <= (5 * k) * b
    OBVIOUS
  <2>2. (6 * a) * b = 6 * p /\ (5 * k) * b = k * (5 * b)
    OBVIOUS
  <2> QED BY <2>1, <2>2
<1> HIDE DEF p, q
<1>3. k * (6 * q) <= k * (5 * b)
  <2>1. k * (6 * q) = 6 * (k * q) /\ k * q \in Nat
    BY <1>1
  <2> QED BY <1>1, <1>2, <2>1
<1>4. ~ (6 * q >= 5 * b + 1)
  <2> SUFFICES ASSUME 6 * q >= 5 * b + 1 PROVE FALSE
    OBVIOUS
  <2>1. k * (5 * b + 1) <= k * (6 * q)
    BY <1>1
  <2>2. k * (5 * b + 1) = k * (5 * b) + k /\ k * (5 * b) \in Nat /\ k * (6 * q) \in Nat
    BY <1>1
  <2> QED BY <1>3, <2>1, <2>2
<1> QED BY <1>1, <1>4 DEF q, p

(* The bars of any history fit any plot, and leave a sixth of it free unless
   the peak is over the highest step of the scale (ui.rs graph_scale: "the
   peak draw with 20% headroom"). *)
THEOREM BarsFitPlot == \A peak, h \in Nat : BarsFit(peak, h)
<1> SUFFICES ASSUME NEW peak \in Nat, NEW h \in Nat PROVE BarsFit(peak, h)
  OBVIOUS
<1> DEFINE k == 10 * Scale(peak)
           a == Lower(peak, k)
           top == Dots(peak, Scale(peak), h)
<1>1. k \in Nat \ {0} /\ (12 * peak <= 50000 => 12 * peak <= 10 * k)
  <2> DEFINE scale == Scale(peak)
  <2>1. scale \in 5 .. 500 /\ (12 * peak <= 50000 => 12 * peak <= 100 * scale)
    BY ScaleFits
  <2> HIDE DEF scale
  <2>2. 10 * scale \in Nat \ {0} /\ 10 * (10 * scale) = 100 * scale
    BY <2>1
  <2> QED BY <2>1, <2>2 DEF scale
<1>2. top = (a * (8 * h)) \div k
  BY DEF Dots
<1> HIDE DEF k, top
<1>3. a \in Nat /\ a <= k /\ a <= peak
  BY <1>1 DEF Lower
<1> HIDE DEF a
<1>4. top \in Nat /\ top <= 8 * h
  <2>1. 8 * h \in Nat
    OBVIOUS
  <2> QED BY <1>1, <1>2, <1>3, <2>1, Scaling
<1>5. 12 * peak <= 50000 => 6 * top <= 40 * h
  <2> SUFFICES ASSUME 12 * peak <= 50000 PROVE 6 * top <= 40 * h
    OBVIOUS
  <2>1. 6 * a <= 5 * k
    BY <1>1, <1>3
  <2>2. 8 * h \in Nat /\ 5 * (8 * h) = 40 * h
    OBVIOUS
  <2>3. 6 * ((a * (8 * h)) \div k) <= 5 * (8 * h)
    BY <1>1, <1>3, <2>1, <2>2, FiveSixths
  <2> QED BY <1>2, <2>2, <2>3
<1>6. \A y \in 1 .. h : Filled(top, y) > 0 => Filled(top, y - 1) = 8
  BY <1>4 DEF Filled, Lower, Minus
<1> QED BY <1>4, <1>5, <1>6 DEF BarsFit, top

-----------------------------------------------------------------------------
(* The menu.                                                               *)

Names ==
  {"Header", "ProfilePerformance", "ProfileExtreme", "ProfileAutoExtreme",
   "AutoExtremeLevel", "AutoBrightness", "ProfileRestore", "HealthLine",
   "CycleLine", "TempLine", "ChargeLimit", "Calibration", "Calibrate",
   "CalibRestore", "Cores", "FreqLimit", "GpuFreq", "RaplPl1", "RaplPl2",
   "Turbo", "Epp", "Aspm", "Brightness", "KbdBacklight", "Bluetooth",
   "WifiEnable", "WifiPowerSave", "AudioPowerSave", "Autosuspend", "Watchdog",
   "VmWriteback", "ProcessPurge"}

LEMMA SecondOfBoth ==
  ASSUME NEW S, NEW s \in Seq(S), NEW t \in Seq(S)
  PROVE  /\ s \o t \in Seq(S) /\ Len(s \o t) = Len(s) + Len(t)
         /\ Len(s) >= 2 => (s \o t)[2] = s[2]
<1>1. s \o t \in Seq(S)
  OBVIOUS
<1>2. Len(s \o t) = Len(s) + Len(t)
  OBVIOUS
<1>3. \A i \in 1 .. Len(s) + Len(t) :
        (s \o t)[i] = IF i <= Len(s) THEN s[i] ELSE t[i - Len(s)]
  BY ConcatProperties, Zenon
<1>4. Len(t) \in Nat
  OBVIOUS
<1>5. ASSUME Len(s) >= 2 PROVE (s \o t)[2] = s[2]
  <2>1. 2 \in 1 .. Len(s) + Len(t) /\ 2 <= Len(s) /\ Len(s) \in Nat
    BY <1>4, <1>5
  <2>2. (s \o t)[2] = IF 2 <= Len(s) THEN s[2] ELSE t[2 - Len(s)]
    BY <1>3, <2>1, Zenon
  <2> QED BY <2>1, <2>2, Zenon
<1> QED BY <1>1, <1>2, <1>5

LEMMA ItemsType ==
  /\ Items \in Seq(Names) /\ Len(Items) \in Nat /\ Len(Items) >= 17
  /\ Items[2] = "ProfilePerformance"
<1>1. Common \in Seq(Names) /\ Len(Common) = 17 /\ Common[2] = "ProfilePerformance"
  BY DEF Common, Header, Names
<1>2. OfLinux \in Seq(Names) /\ OfMacOS \in Seq(Names) /\ << >> \in Seq(Names)
  BY DEF OfLinux, OfMacOS, Header, Names
<1>3. Own \in {OfLinux, OfMacOS, << >>}
  BY Zenon DEF Own
<1>4. Own \in Seq(Names)
  BY <1>2, <1>3
<1>5. Len(Own) \in Nat
  BY <1>4
<1>6. Items = Common \o Own
  BY DEF Items
<1>7. Items \in Seq(Names) /\ Len(Items) = Len(Common) + Len(Own)
  BY <1>1, <1>4, <1>6, SecondOfBoth, Zenon
<1>8. Len(Common) >= 2 => Items[2] = Common[2]
  BY <1>1, <1>4, <1>6, SecondOfBoth, Zenon
<1> HIDE DEF Names
<1> QED BY <1>1, <1>5, <1>7, <1>8

LEMMA SelectableType ==
  /\ Selectable \subseteq Rows /\ Rows \subseteq Nat /\ 1 \in Selectable
  /\ \A n \in Rows, m \in Nat : m <= n => m \in Rows
BY ItemsType DEF Selectable, Rows, Item, Header

LEMMA MinOfRows == ASSUME NEW S \in SUBSET Rows, S # {} PROVE Min(S) \in S
<1>1. S \subseteq Nat
  BY SelectableType
<1>2. PICK x \in S : \A y \in S : ~ (<<y, x>> \in OpToRel(<, Nat))
  BY <1>1, NatLessThanWellFounded, WFMin
<1>3. \A y \in S : x <= y
  <2>1. \A y \in S : ~ (y < x)
    BY <1>1, <1>2 DEF OpToRel
  <2> QED BY <1>1, <2>1
<1> QED BY <1>3 DEF Min

LEMMA MaxOfRows == ASSUME NEW S \in SUBSET Rows, S # {} PROVE Max(S) \in S
<1> DEFINE n == Len(Items)
           T == {n - x : x \in S}
<1>1. n \in Nat /\ S \subseteq 0 .. n - 1
  BY ItemsType DEF Rows
<1>2. T \subseteq Nat /\ T # {}
  <2>1. \A x \in S : n - x \in Nat
    <3> HIDE DEF n
    <3> QED BY <1>1
  <2>2. T \subseteq Nat
    <3> HIDE DEF n
    <3> QED BY <2>1
  <2>3. T # {}
    <3> HIDE DEF n
    <3> QED OBVIOUS
  <2> QED BY <2>2, <2>3
<1>3. PICK t \in T : \A u \in T : ~ (<<u, t>> \in OpToRel(<, Nat))
  BY <1>2, NatLessThanWellFounded, WFMin
<1>4. PICK x \in S : t = n - x
  BY <1>3
<1>5. \A y \in S : n - x <= n - y
  <2>1. \A u \in T : ~ (u < t)
    BY <1>2, <1>3 DEF OpToRel
  <2>2. \A y \in S : ~ (n - y < n - x)
    BY <2>1, <1>4
  <2> HIDE DEF n, T
  <2> QED BY <1>1, <2>2
<1>6. \A y \in S : x >= y
  BY <1>1, <1>5
<1> QED BY <1>6 DEF Max

(* Up and Down reach a row that is no header, or stay. *)
LEMMA StepSelects ==
  ASSUME selected \in Selectable, NEW forward \in BOOLEAN
  PROVE  Step(forward) \in Selectable
<1> DEFINE onward == {row \in Selectable : IF forward THEN row > selected ELSE row < selected}
<1>1. onward \subseteq Selectable /\ onward \in SUBSET Rows
  BY SelectableType
<1>2. onward # {} => Min(onward) \in onward /\ Max(onward) \in onward
  BY <1>1, MinOfRows, MaxOfRows
<1>3. Step(forward) = IF onward = {} THEN selected
                      ELSE IF forward THEN Min(onward) ELSE Max(onward)
  BY DEF Step
<1> HIDE DEF onward
<1> QED BY <1>1, <1>2, <1>3

-----------------------------------------------------------------------------
(* The inductive invariant.                                                *)

(* The frame on the screen is the one for the state the keys will act on, and
   its copies were fresh. *)
Picture ==
  phase = "shown" =>
    /\ shown.selected = selected /\ shown.asking = asking
    /\ ~ dirty /\ rowsAge < RowsTtl /\ seenAge < DaemonTtl

(* What is known of the daemon was read after it last changed, if that is
   longer ago than the reading; and the rows were filled with what was known
   then. *)
Truthful ==
  /\ steady > seenAge => seen = runs
  /\ steady >= rowsAge + DaemonTtl => label = runs

KeysAreRead == "key" \in behind => dirty

Inv == TypeOK /\ SelectedIsShown /\ Picture /\ Truthful /\ KeysAreRead

LEMMA TtlType ==
  /\ RowsTtl \in Nat /\ DaemonTtl \in Nat /\ RowsTtl >= 1 /\ DaemonTtl >= 1
  /\ Longest \in Nat /\ Longest >= DaemonTtl /\ Longest = DaemonTtl + RowsTtl - 1
BY TtlAssumption DEF Longest

LEMMA MenuType ==
  ASSUME NEW size \in Sizes
  PROVE  /\ size.w \in Nat /\ size.h \in Nat
         /\ MenuHeight(size) \in Nat
         /\ size.h \notin {0} \cup 3 .. 7 => MenuHeight(size) >= 1
         /\ size.w > 4 => Menu(size.w, size.h).w > 0
<1>1. size.w \in Nat /\ size.h \in Nat
  BY SizesAssumption
<1>2. Menu(size.w, size.h).h \in Nat
  BY <1>1, TopType, SharesFit DEF Menu
<1>3. size.w > 4 => Menu(size.w, size.h).w >= 1
  BY <1>1, MenuHasRoom
<1>4. Menu(size.w, size.h).w \in Nat
  BY <1>1, MenuColumnsType DEF Menu, Beside, Wide, Minus
<1>5. size.h \notin {0} \cup 3 .. 7 => Menu(size.w, size.h).h >= 1
  BY <1>1, MenuHasRoom
<1> QED BY <1>1, <1>2, <1>3, <1>4, <1>5 DEF MenuHeight

LEMMA PlotHasColumns ==
  ASSUME NEW w \in Nat, NEW h \in Nat
  PROVE  /\ Menu(w, h).w \in Nat
         /\ HasGraph(w, h) => /\ PlotWidth(Graph(w, h).w) \in Nat \ {0}
                              /\ Graph(w, h).h \in Nat
<1>1. Menu(w, h).w = IF Beside(w, h) THEN MenuColumns(w) ELSE Minus(w, 4)
  BY DEF Menu
<1>2. HasGraph(w, h) =>
        Graph(w, h).w = IF Beside(w, h) THEN PlotColumns(w) ELSE Minus(w, 4)
  BY DEF HasGraph, Graph
<1>3. Beside(w, h) => w >= 110 /\ PlotColumns(w) >= 34
  BY DEF Beside, Wide
<1>4. HasGraph(w, h) /\ ~ Beside(w, h) => w >= 40
  BY DEF HasGraph, Above
<1>5. HasGraph(w, h) =>
        Graph(w, h).h = IF Beside(w, h) THEN Minus(Content(w, h), 2)
                        ELSE PlotShare(Content(w, h))
  BY DEF HasGraph, Graph
<1>6. Content(w, h) \in Nat /\ PlotShare(Content(w, h)) \in Nat
  BY TopType, SharesFit
<1>7. HasGraph(w, h) => Graph(w, h).h \in Nat
  BY <1>5, <1>6 DEF Minus
<1>8. HasGraph(w, h) => PlotWidth(Graph(w, h).w) \in Nat \ {0}
  BY <1>2, <1>3, <1>4, MenuColumnsType DEF PlotWidth, Minus
<1> QED BY <1>1, <1>3, <1>7, <1>8, MenuColumnsType DEF Minus

LEMMA RowsClosed ==
  ASSUME NEW row \in Rows, NEW old \in Rows, NEW v \in Nat, v >= 1
  PROVE  Scrolled(row, old, v) \in Rows /\ Shows(row, Scrolled(row, old, v), v)
<1>1. row \in Nat /\ old \in Nat
  BY SelectableType
<1>2. /\ Scrolled(row, old, v) \in Nat /\ Shows(row, Scrolled(row, old, v), v)
      /\ Scrolled(row, old, v) = old \/ Scrolled(row, old, v) <= row
  BY <1>1 DEF Scrolled, Shows
<1> QED BY <1>1, <1>2, SelectableType

LEMMA InvInit == Init => Inv
<1> SUFFICES ASSUME Init PROVE Inv
  OBVIOUS
<1>1. selected \in Selectable
  <2>1. Selectable \in SUBSET Rows /\ Selectable # {}
    BY SelectableType
  <2> QED BY <2>1, MinOfRows DEF Init
<1>2. scroll \in Rows
  BY SelectableType DEF Init
<1>3. shown \in Frames
  BY <1>1 DEF Init, Frames
<1>4. TypeOK
  <2>1. /\ asking \in BOOLEAN /\ seen \in BOOLEAN /\ label \in BOOLEAN
        /\ dirty \in BOOLEAN /\ runs \in BOOLEAN /\ told \in BOOLEAN
    BY DEF Init
  <2>2. {asking, seen, label, dirty, runs, told} \subseteq BOOLEAN
    BY <2>1
  <2>3. /\ seenAge \in 0 .. DaemonTtl /\ rowsAge \in 0 .. RowsTtl
        /\ steady \in 0 .. Longest /\ behind \subseteq Changers /\ phase \in Phases
    BY TtlType DEF Init, Phases
  <2> QED BY <1>1, <1>2, <1>3, <2>2, <2>3 DEF TypeOK
<1>5. SelectedIsShown /\ Picture /\ KeysAreRead
  BY DEF Init, SelectedIsShown, Picture, KeysAreRead
<1>6. Truthful
  BY TtlType DEF Init, Truthful
<1> QED BY <1>4, <1>5, <1>6 DEF Inv

-----------------------------------------------------------------------------
(* The loop.                                                               *)

(* refresh_daemon_state leaves what is known fresh and, if nobody has changed
   anything since, true. *)
LEMMA ReadsDaemonFreshens ==
  ASSUME Inv, ReadsDaemon
  PROVE  /\ seen' \in BOOLEAN /\ seenAge' \in 0 .. DaemonTtl /\ seenAge' < DaemonTtl
         /\ steady > seenAge' => seen' = runs
BY TtlType DEF Inv, TypeOK, Truthful, ReadsDaemon

LEMMA FrameKeeps == ASSUME Inv, Frame  PROVE Inv'
<1>1. /\ seen' \in BOOLEAN /\ seenAge' \in 0 .. DaemonTtl /\ seenAge' < DaemonTtl
      /\ steady > seenAge' => seen' = runs
  BY ReadsDaemonFreshens DEF Frame
<1>2. /\ label' \in BOOLEAN /\ rowsAge' \in 0 .. RowsTtl /\ dirty' = FALSE
      /\ rowsAge' < RowsTtl /\ behind' \subseteq Changers /\ "key" \notin behind'
      /\ steady >= rowsAge' + DaemonTtl => label' = runs
  <2>1. CASE dirty \/ rowsAge >= RowsTtl
    <3>1. label' = seen' /\ dirty' = FALSE /\ rowsAge' = 0 /\ behind' = {}
      BY <2>1 DEF Frame, ReadsRows
    <3> QED BY <3>1, <1>1, TtlType DEF Inv, TypeOK
  <2>2. CASE ~ (dirty \/ rowsAge >= RowsTtl)
    <3>1. UNCHANGED <<label, dirty, rowsAge, behind>>
      BY <2>2 DEF Frame, ReadsRows
    <3> QED BY <3>1, <2>2, TtlType DEF Inv, TypeOK, Truthful, KeysAreRead
  <2> QED BY <2>1, <2>2
<1>3. PICK size \in Sizes :
        /\ scroll' = IF MenuHeight(size) >= 1
                     THEN Scrolled(selected, scroll, MenuHeight(size)) ELSE scroll
        /\ shown' = [selected |-> selected, asking |-> asking, size |-> size,
                     visible |-> /\ Menu(size.w, size.h).w > 0
                                 /\ Shows(selected, scroll', MenuHeight(size))]
  BY Zenon DEF Frame
<1>4. selected \in Rows /\ scroll \in Rows /\ MenuHeight(size) \in Nat
  BY SelectableType, MenuType DEF Inv, TypeOK
<1>5. /\ scroll' \in Rows
      /\ MenuHeight(size) >= 1 => Shows(selected, scroll', MenuHeight(size))
  BY <1>3, <1>4, RowsClosed
<1> DEFINE visible == /\ Menu(size.w, size.h).w > 0
                      /\ Shows(selected, scroll', MenuHeight(size))
<1>6. /\ visible \in BOOLEAN
      /\ size.h \notin {0} \cup 3 .. 7 /\ size.w > 4 => visible
  BY <1>5, MenuType
<1>7. shown' = [selected |-> selected, asking |-> asking, size |-> size, visible |-> visible]
  BY <1>3
<1> HIDE DEF visible
<1>8. /\ phase' = "shown" /\ UNCHANGED <<selected, asking, runs, steady, told>>
  BY DEF Frame
<1>9. TypeOK'
  <2>1. shown' \in Frames
    BY <1>6, <1>7 DEF Inv, TypeOK, Frames
  <2>2. {asking, seen, label, dirty, runs, told}' \subseteq BOOLEAN
    BY <1>1, <1>2, <1>8 DEF Inv, TypeOK
  <2> QED BY <2>1, <2>2, <1>1, <1>2, <1>5, <1>8 DEF Inv, TypeOK, Phases
<1>10. SelectedIsShown'
  BY <1>6, <1>7 DEF SelectedIsShown
<1>11. Picture'
  BY <1>1, <1>2, <1>7, <1>8 DEF Picture
<1>12. Truthful' /\ KeysAreRead'
  BY <1>1, <1>2, <1>8 DEF Truthful, KeysAreRead
<1> QED BY <1>9, <1>10, <1>11, <1>12 DEF Inv

LEMMA PolledKeeps == ASSUME Inv, Polled  PROVE Inv'
<1>1. /\ seenAge < DaemonTtl /\ rowsAge < RowsTtl
      /\ seenAge \in Nat /\ rowsAge \in Nat /\ steady \in 0 .. Longest
  BY TtlType DEF Inv, TypeOK, Polled, Picture
<1>2. /\ seenAge' = seenAge + 1 /\ rowsAge' = rowsAge + 1
      /\ steady' = IF steady < Longest THEN steady + 1 ELSE steady
  BY <1>1, TtlType DEF Polled, Lower
<1>3. TypeOK'
  BY <1>1, <1>2, TtlType DEF Inv, TypeOK, Polled, Phases
<1>4. Truthful'
  BY <1>1, <1>2, TtlType DEF Inv, Truthful, Polled
<1>5. SelectedIsShown' /\ Picture' /\ KeysAreRead'
  BY DEF SelectedIsShown, Picture, Polled, Inv, KeysAreRead
<1> QED BY <1>3, <1>4, <1>5 DEF Inv

-----------------------------------------------------------------------------
(* Keys and the world.                                                     *)

(* A step that ends in no frame: what is known of the daemon is kept, read or
   assumed with nobody having waited since. *)
LEMMA StepKeeps ==
  ASSUME Inv,
         selected' \in Selectable, asking' \in BOOLEAN, dirty' \in BOOLEAN,
         seen' \in BOOLEAN, seenAge' \in 0 .. DaemonTtl, runs' \in BOOLEAN,
         told' \in BOOLEAN, steady' \in 0 .. Longest,
         behind' \subseteq Changers, "key" \in behind' => dirty',
         phase' \in Phases,
         phase' = "shown" =>
           phase = "shown" /\ UNCHANGED <<selected, asking, dirty, seenAge>>,
         steady' = 0 \/ (runs' = runs /\ steady' = steady
                         /\ (steady > seenAge' => seen' = runs)),
         UNCHANGED <<scroll, label, rowsAge, shown>>
  PROVE  Inv'
<1>1. TypeOK'
  <2>1. {asking, seen, label, dirty, runs, told}' \subseteq BOOLEAN
    BY DEF Inv, TypeOK
  <2> QED BY <2>1 DEF Inv, TypeOK
<1>2. Truthful'
  <2>1. CASE steady' = 0
    BY <2>1, TtlType DEF Truthful, Inv, TypeOK
  <2>2. CASE steady' # 0
    BY <2>2 DEF Truthful, Inv, TypeOK
  <2> QED BY <2>1, <2>2
<1>3. SelectedIsShown' /\ Picture' /\ KeysAreRead'
  BY DEF Inv, SelectedIsShown, Picture, KeysAreRead
<1> QED BY <1>1, <1>2, <1>3 DEF Inv

(* What every key keeps the types of. *)
LEMMA Kept ==
  ASSUME Inv
  PROVE  /\ selected \in Selectable
         /\ asking \in BOOLEAN /\ dirty \in BOOLEAN /\ seen \in BOOLEAN
         /\ runs \in BOOLEAN /\ told \in BOOLEAN
         /\ seenAge \in 0 .. DaemonTtl /\ 0 \in 0 .. DaemonTtl
         /\ steady \in 0 .. Longest /\ 0 \in 0 .. Longest
         /\ behind \subseteq Changers /\ phase \in Phases
         /\ steady > seenAge => seen = runs
         /\ "key" \in behind => dirty
BY TtlType DEF Inv, TypeOK, Truthful, KeysAreRead

LEMMA HandledType ==
  ASSUME Inv, NEW changes \in BOOLEAN, Handled(changes)
  PROVE  /\ dirty' = TRUE /\ phase' = "top" /\ behind' \subseteq Changers
         /\ phase = "shown"
BY Kept DEF Handled, Changers

LEMMA StopsType ==
  ASSUME Inv, Stops \/ Starts
  PROVE  /\ seen' \in BOOLEAN /\ seenAge' \in 0 .. DaemonTtl /\ runs' \in BOOLEAN
         /\ steady' = 0 /\ steady' \in 0 .. Longest
BY Kept DEF Stops, Starts

LEMMA MovesKeeps == ASSUME Inv, Moves  PROVE Inv'
<1>1. selected' \in Selectable
  BY Kept, StepSelects DEF Moves
<1>2. dirty' = TRUE /\ phase' = "top" /\ behind' \subseteq Changers
  BY HandledType DEF Moves
<1> QED BY <1>1, <1>2, Kept, StepKeeps DEF Moves, KeepsDaemon, Alone, Phases

LEMMA MarksKeeps == ASSUME Inv, Marks  PROVE Inv'
<1>1. dirty' = TRUE /\ phase' = "top" /\ behind' \subseteq Changers
  BY HandledType DEF Marks
<1> QED BY <1>1, Kept, StepKeeps DEF Marks, KeepsDaemon, Alone, Phases

LEMMA ChangesDaemon ==
  ASSUME Inv, Handled(TRUE), Stops \/ Starts, UNCHANGED <<selected, asking>>, Alone
  PROVE  Inv'
<1>1. dirty' = TRUE /\ phase' = "top" /\ behind' \subseteq Changers
  BY HandledType
<1> QED BY <1>1, StopsType, Kept, StepKeeps DEF Alone, Phases

LEMMA SetsKeeps ==
  ASSUME Inv, NEW row, Sets(row), ReadsDaemon \/ UNCHANGED <<seen, seenAge>>
  PROVE  Inv'
<1>1. dirty' = TRUE /\ phase' = "top" /\ behind' \subseteq Changers
  BY HandledType DEF Sets
<1>2. /\ seen' \in BOOLEAN /\ seenAge' \in 0 .. DaemonTtl
      /\ steady > seenAge' => seen' = runs
  <2>1. CASE ReadsDaemon
    BY <2>1, ReadsDaemonFreshens
  <2>2. CASE UNCHANGED <<seen, seenAge>>
    BY <2>2, Kept
  <2> QED BY <2>1, <2>2
<1>3. UNCHANGED <<selected, asking, runs, steady>> /\ Alone
  BY DEF Sets
<1> QED BY <1>1, <1>2, <1>3, Kept, StepKeeps DEF Alone, Phases

LEMMA AnswersKeep == ASSUME Inv, Yes \/ No \/ Ignored  PROVE Inv'
<1>1. phase' = "top" /\ UNCHANGED <<selected, dirty>> /\ Alone
  BY DEF Yes, No, Ignored, Answered
<1>2. asking' \in BOOLEAN
  BY Kept DEF Yes, No, Ignored
<1>3. CASE Yes
  <2>1. behind' \subseteq Changers /\ ("key" \in behind' => dirty')
    BY <1>1, <1>3, Kept DEF Yes, Changers
  <2> QED BY <1>1, <1>2, <1>3, <2>1, Kept, StopsType, StepKeeps DEF Yes, Alone, Phases
<1>4. CASE No \/ Ignored
  <2>1. UNCHANGED behind /\ KeepsDaemon
    BY <1>4 DEF No, Ignored
  <2> QED BY <1>1, <1>2, <2>1, Kept, StepKeeps DEF KeepsDaemon, Alone, Phases
<1> QED BY <1>3, <1>4

LEMMA KeyKeeps == ASSUME Inv, Key  PROVE Inv'
<1>1. CASE Quits
  BY <1>1, Kept, StepKeeps DEF Quits, KeepsDaemon, Alone, Phases
<1>2. CASE Restores \/ EnterStops \/ Switches \/ Adjusts
  BY <1>2, ChangesDaemon DEF Restores, EnterStops, Switches, Adjusts
<1>3. CASE Asks
  <2>1. dirty' = TRUE /\ phase' = "top" /\ behind' \subseteq Changers
    BY <1>3, HandledType DEF Asks
  <2> QED BY <1>3, <2>1, Kept, StepKeeps DEF Asks, KeepsDaemon, Alone, Phases
<1>4. CASE SetsLevel \/ TogglesAuto \/ Dims \/ Purges \/ Limits
  BY <1>4, SetsKeeps DEF SetsLevel, TogglesAuto, Dims, Purges, Limits
<1> QED BY <1>1, <1>2, <1>3, <1>4, MovesKeeps, MarksKeeps, AnswersKeep DEF Key

LEMMA WorldKeeps ==
  ASSUME Inv, Closes \/ DaemonChanges \/ HardwareChanges \/ Signalled \/ UNCHANGED vars
  PROVE  Inv'
<1>1. CASE Closes
  BY <1>1, Kept, StepKeeps DEF Closes, Phases
<1>2. CASE DaemonChanges
  <2>1. runs' \in BOOLEAN
    BY <1>2, Zenon DEF DaemonChanges
  <2> QED BY <1>2, <2>1, Kept, StepKeeps DEF DaemonChanges
<1>3. CASE HardwareChanges
  BY <1>3, Kept, StepKeeps DEF HardwareChanges, Changers
<1>4. CASE Signalled
  BY <1>4, Kept, StepKeeps DEF Signalled
<1>5. CASE UNCHANGED vars
  BY <1>5, Kept, StepKeeps DEF vars
<1> QED BY <1>1, <1>2, <1>3, <1>4, <1>5

-----------------------------------------------------------------------------
(* The theorems.                                                           *)

THEOREM InvHolds == Spec => []Inv
<1>1. Inv /\ [Next]_vars => Inv'
  BY FrameKeeps, PolledKeeps, KeyKeeps, WorldKeeps DEF Next, Loop
<1> QED BY <1>1, InvInit, PTL DEF Spec

(* Every variable keeps its type: the selection is never on a header. *)
THEOREM TypeCorrect == Spec => []TypeOK
<1>1. Inv => TypeOK
  BY DEF Inv
<1> QED BY <1>1, InvHolds, PTL

(* Every frame is tidy, for terminals of any sizes. *)
THEOREM FrameIsTidyHolds == Spec => []FrameIsTidy
<1>1. Inv => FrameIsTidy
  <2> SUFFICES ASSUME Inv PROVE FrameIsTidy
    OBVIOUS
  <2> DEFINE w == shown.size.w
             h == shown.size.h
             n == Len(Items)
             v == MenuHeight(shown.size)
             p == PlotWidth(Graph(w, h).w)
  <2>1. shown.size \in Sizes
    BY DEF Inv, TypeOK, Frames
  <2>2. w \in Nat /\ h \in Nat /\ v \in Nat /\ n \in Nat /\ scroll \in Nat
    BY <2>1, MenuType, ItemsType, SelectableType DEF Inv, TypeOK
  <2>3. Tidy(w, h)
    BY <2>2, LayoutIsTidy
  <2>4. v \in 1 .. n - 1 /\ scroll <= n - v => BarFits(n, v, scroll)
    BY <2>2, ScrollbarFits
  <2>5. HasGraph(w, h) => p \in Nat \ {0}
    <3> HIDE DEF w, h
    <3> QED BY <2>2, PlotHasColumns
  <2>6. LineWidth(Menu(w, h).w) = Menu(w, h).w
    <3>1. Menu(w, h).w \in Nat
      <4> HIDE DEF w, h
      <4> QED BY <2>2, PlotHasColumns
    <3> QED BY <3>1, LineFits
  <2>7. HasGraph(w, h) =>
          \A samples \in {1, 7, 400} :
            /\ \A i \in 0 .. p - 1 : Sample(samples, p, i) \in 0 .. samples
            /\ Sample(samples, p, p - 1) = samples
    <3> HIDE DEF p
    <3> QED BY <2>5, SamplesFit
  <2>8. Asked(w, h)
    BY <2>2, QuestionFits
  <2>9. HasGraph(w, h) => \A peak \in Peaks : BarsFit(peak, Graph(w, h).h)
    <3> HIDE DEF w, h
    <3>1. HasGraph(w, h) => Graph(w, h).h \in Nat
      BY <2>2, PlotHasColumns
    <3> QED BY <3>1, PeaksAssumption, BarsFitPlot
  <2> HIDE DEF w, h, n, v, p
  <2> QED BY <2>3, <2>4, <2>6, <2>7, <2>8, <2>9 DEF FrameIsTidy, w, h, n, v, p
<1> QED BY <1>1, InvHolds, PTL

(* Every frame shows the row selected, where the menu has room at all. *)
THEOREM SelectedIsShownHolds == Spec => []SelectedIsShown
<1>1. Inv => SelectedIsShown
  BY DEF Inv
<1> QED BY <1>1, InvHolds, PTL

(* No frame shows rows from before a key, or older than ROWS_TTL. *)
THEOREM RowsAreFreshHolds == Spec => []RowsAreFresh
<1>1. Inv => RowsAreFresh
  BY DEF Inv, Picture, KeysAreRead, RowsAreFresh
<1> QED BY <1>1, InvHolds, PTL

(* Whatever a key has assumed of the daemon, the label is right once nothing
   has changed for as long as both copies are kept. *)
THEOREM LabelSettlesHolds == Spec => []LabelSettles
<1>1. Inv => LabelSettles
  BY TtlType DEF Inv, TypeOK, Picture, Truthful, LabelSettles
<1> QED BY <1>1, InvHolds, PTL

(* No key acts on a selection, or answers a question, the user has not seen. *)
THEOREM ActsOnWhatIsShownHolds == Spec => ActsOnWhatIsShown
<1>1. Inv => [Key => selected = shown.selected /\ asking = shown.asking]_vars
  <2>1. Key => phase = "shown"
    BY DEF Key, Moves, Marks, Quits, Restores, EnterStops, Asks, Switches, Adjusts, Sets,
           SetsLevel, TogglesAuto, Dims, Purges, Limits, Yes, No, Ignored, Handled, Answered
  <2> QED BY <2>1 DEF Inv, Picture
<1> QED BY <1>1, InvHolds, PTL DEF ActsOnWhatIsShown

===============================================================================
