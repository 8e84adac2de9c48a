---------------------------- MODULE SwingStructure ----------------------------
(***************************************************************************)
(* The market structure of a symbol, kept twice.  The feature engine keeps *)
(* it bar by bar (features/structure.py, retest.py, zones.py and ict.py,   *)
(* called in that order by engine._apply_completed_1m_bar): it remembers   *)
(* the last bars and the current swings, gaps, blocks, zones and retest,   *)
(* and forgets all but the bars in a restart.  The chart's geometry        *)
(* (services/api, smc_geometry.py) computes swings, gaps and blocks again  *)
(* from all the bars stored, in a second implementation of the same rules. *)
(*                                                                         *)
(* Prices are steps of a grid from 1, and 0 is None.  The range (ATR) does *)
(* not change: a tenth of it, the buffer of a break, is less than a step,  *)
(* and a quarter of it is Band steps.  A bar is named by its place in the  *)
(* day.  UpdateStructureSlack is a faulty variant, kept to see the         *)
(* properties fail.                                                        *)
(***************************************************************************)
EXTENDS Integers, SequencesExt, FiniteSetsExt

CONSTANTS
  Shapes,        \* the bars there can be: [o, h, l, c, v]
  Left, Right,   \* bars before and after a pivot
  KeptBars,      \* length of recent_1m_bars
  SeedBars,      \* stored bars that a new state is seeded with
  GapTouches,    \* FVG_REBALANCE_TOUCHES
  Band,          \* the retest's band, in steps
  RetestTtl,     \* RETEST_TTL_BARS
  VolumeBars,    \* RETEST_VOLUME_LOOKBACK
  MaxBars,       \* bound: bars in a behaviour
  MaxRestarts    \* bound: restarts of the feature engine

Window == Left + Right + 1

ASSUME SwingAssumption ==
  /\ Shapes \subseteq [o : Nat \ {0}, h : Nat \ {0}, l : Nat \ {0},
                       c : Nat \ {0}, v : Nat \ {0}]
  /\ \A b \in Shapes : b.l <= b.o /\ b.l <= b.c /\ b.o <= b.h /\ b.c <= b.h
  /\ {Left, Right, GapTouches, VolumeBars} \subseteq Nat \ {0}
  /\ KeptBars \in Nat /\ KeptBars >= Window
  /\ {SeedBars, Band, RetestTtl, MaxBars, MaxRestarts} \subseteq Nat

VARIABLES
  bars,       \* the completed bars of the symbol, as the api reads them
  recent,     \* recent_1m_bars
  swing,      \* the two last swings of each side, the trend and the last break
  retest,     \* the retest of the last break
  zones,      \* the supply and the demand zone
  ict,        \* the sweep of this bar, the gaps and the order blocks
  restarts

swingVars == <<bars, recent, swing, retest, zones, ict, restarts>>

None == 0
NoSpan == [low |-> None, high |-> None, at |-> 0, marks |-> 0]

NoSwing ==
  [high1 |-> None, high2 |-> None, low1 |-> None, low2 |-> None, trend |-> 0,
   label |-> "None", brokenHigh |-> None, brokenLow |-> None, event |-> FALSE]

NoRetest == [status |-> "NO_BREAKOUT", level |-> None, side |-> 0, armed |-> 0]
NoZones == [supply |-> NoSpan, demand |-> NoSpan]

NoIct ==
  [sweep |-> "none", gapUp |-> NoSpan, gapDown |-> NoSpan,
   blockUp |-> NoSpan, blockDown |-> NoSpan]

Mirror(b) == [b EXCEPT !.h = -b.l, !.l = -b.h, !.o = -b.o, !.c = -b.c]

Lowest(a, b) == IF a < b THEN a ELSE b
LastOf(n, s) == SubSeq(s, Len(s) - Lowest(n, Len(s)) + 1, Len(s))

-----------------------------------------------------------------------------
(* Swings: a bar is one when it is the strict extreme of its window. *)

IsPivotHigh(win) ==
  \A i \in DOMAIN win \ {Left + 1} : win[i].h < win[Left + 1].h

IsPivotLow(win) ==
  \A i \in DOMAIN win \ {Left + 1} : win[i].l > win[Left + 1].l

Pivots(s, win) ==
  LET high == IF IsPivotHigh(win)
              THEN [s EXCEPT !.high2 = s.high1, !.high1 = win[Left + 1].h]
              ELSE s
  IN  IF IsPivotLow(win)
      THEN [high EXCEPT !.low2 = s.low1, !.low1 = win[Left + 1].l]
      ELSE high

\* A close beyond the last swing breaks it, once for each price of a swing.
Broken(s, close) ==
  LET up == s.high1 # None /\ close > s.high1 /\ s.brokenHigh # s.high1
      down == s.low1 # None /\ close < s.low1 /\ s.brokenLow # s.low1
  IN  CASE up ->
             [s EXCEPT !.label = IF s.trend = -1 THEN "Bullish CHOCH" ELSE "Bullish BOS",
                       !.trend = 1, !.brokenHigh = s.high1, !.event = TRUE]
        [] down /\ ~up ->
             [s EXCEPT !.label = IF s.trend = 1 THEN "Bearish CHOCH" ELSE "Bearish BOS",
                       !.trend = -1, !.brokenLow = s.low1, !.event = TRUE]
        [] OTHER -> s

\* The first full window is passed over.
UpdateStructureSlack(s, items) ==
  LET quiet == [s EXCEPT !.event = FALSE]
  IN  IF Len(items) <= Window
      THEN quiet
      ELSE Broken(Pivots(quiet, LastOf(Window, items)), Last(items).c)

\* update_structure on the last bars.
UpdateStructure(s, items) ==
  LET quiet == [s EXCEPT !.event = FALSE]
  IN  IF Len(items) < Window
      THEN quiet
      ELSE Broken(Pivots(quiet, LastOf(Window, items)), Last(items).c)

-----------------------------------------------------------------------------
(* The retest of a broken level. *)

\* More than 1.2 times the mean volume of the bars before.
Expanding(items) ==
  LET before == LastOf(VolumeBars, Front(items))
      volume == FoldLeft(LAMBDA sum, b : sum + b.v, 0, before)
  IN  volume > 0 /\ 10 * Len(before) * Last(items).v >= 12 * volume

\* A break arms the retest of its level, whatever was being tracked.
Armed(s, at) ==
  [status |-> "PENDING_RETEST", side |-> s.trend, armed |-> at,
   level |-> IF s.trend = 1 THEN s.brokenHigh ELSE s.brokenLow]

\* A close on the wrong side of the level ends the retest; so does a touch
\* of the band with volume.
Tested(r, items) ==
  LET bar == IF r.side = 1 THEN Last(items) ELSE Mirror(Last(items))
      level == r.side * r.level
  IN  CASE bar.c < level -> [r EXCEPT !.status = "RETEST_FAILED", !.side = 0]
        [] bar.c >= level /\ bar.l <= level + Band /\ Expanding(items) ->
             [r EXCEPT !.status = "RETEST_HELD", !.side = 0]
        [] OTHER -> r

\* update_retest, after the swings of the same bar.
UpdateRetest(r, s, items, at) ==
  CASE s.event -> Armed(s, at)
    [] ~s.event /\ r.side = 0 -> r
    [] ~s.event /\ r.side # 0 /\ at - r.armed > RetestTtl -> NoRetest
    [] OTHER -> Tested(r, items)

-----------------------------------------------------------------------------
(* Zones: the base of a candle of 1.8 times the body of the opposite one   *)
(* before it.  A demand zone is the supply zone of the mirrored prices,    *)
(* and is kept as one; so are a gap downwards and a bearish block below.   *)

Body(b) == IF b.c > b.o THEN b.c - b.o ELSE b.o - b.c

\* A zone is left at the first close through it.
Supply(zone, cur, prev, at) ==
  LET made == IF prev.c > prev.o /\ cur.c < cur.o /\ 5 * Body(cur) >= 9 * Body(prev)
              THEN [low |-> prev.o, high |-> prev.h, at |-> at, marks |-> 0]
              ELSE zone
  IN  IF made.at # 0 /\ cur.c > made.high THEN NoSpan ELSE made

\* update_zones.
UpdateZones(z, items, at) ==
  LET cur == Last(items)
      prev == items[Len(items) - 1]
  IN  IF Len(items) < 2
      THEN z
      ELSE [supply |-> Supply(z.supply, cur, prev, at),
            demand |-> Supply(z.demand, Mirror(cur), Mirror(prev), at)]

-----------------------------------------------------------------------------
(* Gaps, sweeps and order blocks. *)

\* The last bar trades below the swing low and closes above it.
SweptLow(bar, low) == low # None /\ bar.l < low /\ bar.c > low

\* A gap is left between a bar and the next but one; it goes when a close falls
\* through it, or with the last of its touches.
Gap(gap, first, cur, at) ==
  LET made == IF first.h < cur.l
              THEN [low |-> first.h, high |-> cur.l, at |-> at, marks |-> 0]
              ELSE gap
      inside == made.low <= cur.c /\ cur.c <= made.high
  IN  CASE made.at = 0 -> NoSpan
        [] made.at # 0 /\ cur.c < made.low -> NoSpan
        [] made.at # 0 /\ inside /\ made.marks + 1 >= GapTouches -> NoSpan
        [] made.at # 0 /\ inside /\ made.marks + 1 < GapTouches ->
             [made EXCEPT !.marks = @ + 1]
        [] OTHER -> made

\* A candle against the sweep is a block to be; a close above it makes it one
\* (marks = 1), and a close below its middle, or its low before that, ends it.
Block(block, swept, cur, at) ==
  LET made == IF swept /\ cur.c < cur.o /\ block.marks = 0
              THEN [low |-> cur.l, high |-> cur.h, at |-> at, marks |-> 0]
              ELSE block
  IN  CASE made.at = 0 -> NoSpan
        [] made.at # 0 /\ made.marks = 0 /\ cur.c > made.high -> [made EXCEPT !.marks = 1]
        [] made.at # 0 /\ made.marks = 0 /\ cur.c < made.low -> NoSpan
        [] made.at # 0 /\ made.marks = 1 /\ 2 * cur.c < made.low + made.high -> NoSpan
        [] OTHER -> made

\* The gaps and blocks after the last of three bars, with the swings s.
Concepts(i, s, first, cur, at) ==
  LET sell == SweptLow(cur, s.low1)
      buy == s.high1 # None /\ SweptLow(Mirror(cur), -s.high1)
  IN  [sweep |-> CASE sell -> "sellside" [] ~sell /\ buy -> "buyside" [] OTHER -> "none",
       gapUp |-> Gap(i.gapUp, first, cur, at),
       gapDown |-> Gap(i.gapDown, Mirror(first), Mirror(cur), at),
       blockUp |-> Block(i.blockUp, sell, cur, at),
       blockDown |-> Block(i.blockDown, buy, Mirror(cur), at)]

\* update_ict, after the swings of the same bar.
UpdateIct(i, s, items, at) ==
  IF Len(items) < 3
  THEN [i EXCEPT !.sweep = "none"]
  ELSE Concepts(i, s, items[Len(items) - 2], Last(items), at)

-----------------------------------------------------------------------------
(* The feature engine. *)

\* recent_1m_bars forgets its oldest bars.
Remembered(items) == LastOf(KeptBars, items)

SwingInit ==
  /\ bars = <<>>
  /\ recent = <<>>
  /\ swing = NoSwing
  /\ retest = NoRetest
  /\ zones = NoZones
  /\ ict = NoIct
  /\ restarts = 0

\* A bar is completed: every part of the structure moves, in this order.
CompleteBar ==
  /\ Len(bars) < MaxBars
  /\ \E b \in Shapes : bars' = Append(bars, b)
  /\ recent' = Remembered(Append(recent, Last(bars')))
  /\ swing' = UpdateStructure(swing, recent')
  /\ retest' = UpdateRetest(retest, swing', recent', Len(bars'))
  /\ zones' = UpdateZones(zones, recent', Len(bars'))
  /\ ict' = UpdateIct(ict, swing', recent', Len(bars'))
  /\ UNCHANGED restarts

\* A restart: the new state is seeded with the stored bars, whose structure is
\* not computed.
RestartEngine ==
  /\ restarts < MaxRestarts
  /\ restarts' = restarts + 1
  /\ recent' = Remembered(LastOf(SeedBars, bars))
  /\ swing' = NoSwing
  /\ retest' = NoRetest
  /\ zones' = NoZones
  /\ ict' = NoIct
  /\ UNCHANGED bars

SwingNext == CompleteBar \/ RestartEngine

SwingSpec == SwingInit /\ [][SwingNext]_swingVars

-----------------------------------------------------------------------------
(* The chart. *)

\* compute_smc_geometry after its j-th bar.
ChartBar(g, stored, j) ==
  LET quiet == [g.swing EXCEPT !.event = FALSE]
      s == IF j < Window
           THEN quiet
           ELSE Broken(Pivots(quiet, SubSeq(stored, j - Window + 1, j)), stored[j].c)
  IN  [swing |-> s,
       ict |-> IF j < 3 THEN g.ict ELSE Concepts(g.ict, s, stored[j - 2], stored[j], j)]

\* The geometry of the bars the chart shows.
ComputeSmcGeometry(stored) ==
  FoldLeftDomain(LAMBDA g, j : ChartBar(g, stored, j),
                 [swing |-> NoSwing, ict |-> NoIct], stored)

-----------------------------------------------------------------------------
(* Properties. *)

Spans(top) == [low : -top..top, high : -top..top, at : 0..MaxBars, marks : 0..GapTouches]

Top == IF bars = <<>> THEN 0 ELSE Max({bars[i].h : i \in DOMAIN bars})

\* Type invariant of the structure that the feature engine keeps.
SwingTypeOK ==
  /\ bars \in Seq(Shapes) /\ Len(bars) <= MaxBars
  /\ recent \in Seq(Shapes) /\ Len(recent) <= KeptBars
  /\ {swing.high1, swing.high2, swing.low1, swing.low2,
      swing.brokenHigh, swing.brokenLow, retest.level} \subseteq 0..Top
  /\ swing.trend \in -1..1 /\ swing.event \in BOOLEAN
  /\ swing.label \in {"None", "Bullish BOS", "Bullish CHOCH", "Bearish BOS", "Bearish CHOCH"}
  /\ retest.status \in {"NO_BREAKOUT", "PENDING_RETEST", "RETEST_HELD", "RETEST_FAILED"}
  /\ retest.side \in -1..1 /\ retest.armed \in 0..MaxBars
  /\ {zones.supply, zones.demand, ict.gapUp, ict.gapDown, ict.blockUp, ict.blockDown}
       \subseteq Spans(Top)
  /\ ict.sweep \in {"none", "sellside", "buyside"}
  /\ restarts \in 0..MaxRestarts

\* The chart and the feature engine tell the same story of the same bars, as
\* both modules promise of each other, unless the engine has been restarted:
\* it keeps only the last bars and the chart reads all of them, and the rules
\* are written twice.
ChartMatchesEngine ==
  restarts = 0 /\ Len(bars) >= Window =>
    ComputeSmcGeometry(bars) = [swing |-> swing, ict |-> ict]

\* A span of a bearish rule is kept in mirrored prices.
Close(i, side) == side * bars[i].c

\* The bars from the one that made a span to the last one.
Since(span) == span.at..Len(bars)

\* A gap that is still shown has never been closed through since the bar that
\* made it, and fewer closes than it takes to fill it have been inside.
GapStands(gap, side) ==
  gap.at # 0 =>
    /\ \A i \in Since(gap) : Close(i, side) >= gap.low
    /\ Cardinality({i \in Since(gap) : Close(i, side) <= gap.high}) < GapTouches

GapsStand == GapStands(ict.gapUp, 1) /\ GapStands(ict.gapDown, -1)

\* A block that counts as valid was confirmed by a close beyond its candle, not
\* by a wick; no close was on its far side before that, and none has been
\* beyond its middle since.
BlockStands(block, side) ==
  block.marks = 1 =>
    \E v \in Since(block) :
      /\ Close(v, side) > block.high
      /\ \A i \in block.at..v : Close(i, side) >= block.low
      /\ \A i \in v..Len(bars) : 2 * Close(i, side) >= block.low + block.high

BlocksStand == BlockStands(ict.blockUp, 1) /\ BlockStands(ict.blockDown, -1)

\* While a retest is pending no close has been on the wrong side of its level
\* since the break, the break is not older than its limit, and the level is
\* the one that the structure broke last.
PendingRetestStands ==
  retest.status = "PENDING_RETEST" =>
    /\ retest.side = swing.trend
    /\ retest.level = IF swing.trend = 1 THEN swing.brokenHigh ELSE swing.brokenLow
    /\ Len(bars) - retest.armed <= RetestTtl
    /\ \A i \in retest.armed..Len(bars) :
         Close(i, retest.side) >= retest.side * retest.level

\* No close has gone through a zone since the candle that made it.
ZonesStand ==
  \A side \in {1, -1} :
    LET zone == IF side = 1 THEN zones.supply ELSE zones.demand
    IN  \A i \in Since(zone) : zone.at # 0 => Close(i, side) <= zone.high

\* What is drawn of the structure still stands, on the chart and in the engine.
StructureStands ==
  /\ SwingTypeOK
  /\ ChartMatchesEngine
  /\ GapsStand
  /\ BlocksStand
  /\ PendingRetestStands
  /\ ZonesStand
=============================================================================
