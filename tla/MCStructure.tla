------------------------------ MODULE MCStructure ------------------------------
(***************************************************************************)
(* The bars and settings that the market structure and its backtest are    *)
(* checked with.                                                           *)
(***************************************************************************)
EXTENDS StructureReplay

Candle(o_, h_, l_, c_, v_) == [o |-> o_, h |-> h_, l |-> l_, c |-> c_, v |-> v_]

\* Five bars that between them make and break swings, gaps, blocks and zones.
MCShapes ==
  {Candle(1, 2, 1, 2, 1), Candle(3, 5, 3, 5, 2), Candle(3, 3, 1, 1, 2),
   Candle(2, 5, 2, 3, 2), Candle(4, 4, 1, 3, 1)}

\* A bar with a wick on either side, a breakout, a breakdown, and a run after the
\* breakout that touches the stops of most trades as well.
MCReplayShapes ==
  {Candle(38, 40, 32, 38, 1), Candle(38, 43, 38, 42, 1), Candle(36, 36, 29, 30, 1),
   Candle(38, 72, 29, 50, 1)}

Setting(m, s, strict_, day) == [mode |-> m, side |-> s, strict |-> strict_, intraday |-> day]

MCConfigs ==
  {Setting("hybrid", "BOTH", FALSE, TRUE), Setting("swing_zone", "SHORT_ONLY", FALSE, FALSE),
   Setting("fast_range", "LONG_ONLY", TRUE, TRUE), Setting("trendline", "BOTH", FALSE, TRUE)}

\* A lead of either side, by enough or by all seven, and one without quality.
MCScores ==
  {[bull |-> 5, bear |-> 1], [bull |-> 1, bear |-> 7], [bull |-> 3, bear |-> 4]}

MCRatios == <<1, 2, 3>>
=============================================================================
