---------------------------- MODULE StructureReplay ----------------------------
(***************************************************************************)
(* The backtest of the structure suite (services/api): structure_signal.py *)
(* decides a signal from the bars up to one bar, and structure_backtest.py *)
(* replays the bars of a symbol through it, with one position at a time.   *)
(* _replay_symbol_timeframe and _replay_with_precomputed are the same loop. *)
(* The swings are those of the chart's geometry.                           *)
(*                                                                         *)
(* Left open: the seven conditions behind the two scores, and where the    *)
(* trend line through two swings is at the bar, any price.  Prices are     *)
(* whole numbers, without rounding, and the range (ATR), the slippage and  *)
(* the fee do not change.  Everything about a short is kept in mirrored    *)
(* prices, as that of a long.  Bars are counted from 1.                    *)
(*                                                                         *)
(* ExitTargetFirst is a faulty variant, kept to see the properties fail.   *)
(***************************************************************************)
EXTENDS SwingStructure

CONSTANTS
  ReplayShapes,   \* the bars there can be
  ReplayBars,     \* the number of bars
  WarmupBars,     \* MIN_WARMUP_BARS
  SessionBars,    \* bars of a session
  AtClose,        \* the bars, by number, that begin at 15:30 or later
  Configs,        \* [mode, side, strict, intraday], some of them
  Scores,         \* [bull, bear]: conditions that hold, of seven
  Lines,          \* prices of the trend line
  MinQuality,     \* min_setup_quality
  MinEdge,        \* min_bias_edge
  Lookback,       \* fast_trigger_lookback
  Buffer,         \* atr_breakout_buffer, of the range
  MaxStop,        \* strict_stop_max_atr, of the range
  Ratios,         \* tp1_r, tp2_r and tp3_r
  Slip,           \* slippage of a fill
  Fee             \* brokerage

Modes == {"fast_range", "swing_zone", "trendline", "hybrid"}
Sides == {"LONG_ONLY", "SHORT_ONLY", "BOTH"}

ASSUME ReplayAssumption ==
  /\ ReplayShapes \subseteq [o : Nat \ {0}, h : Nat \ {0}, l : Nat \ {0},
                             c : Nat \ {0}, v : Nat \ {0}]
  /\ \A b \in ReplayShapes : b.l <= b.o /\ b.l <= b.c /\ b.o <= b.h /\ b.c <= b.h
  /\ {ReplayBars, WarmupBars, Slip, Fee} \subseteq Nat
  /\ {SessionBars, MinEdge, Lookback, Buffer, MaxStop} \subseteq Nat \ {0}
  /\ AtClose \subseteq Nat
  /\ Configs \subseteq [mode : Modes, side : Sides, strict : BOOLEAN, intraday : BOOLEAN]
  /\ Scores \subseteq [bull : 0..7, bear : 0..7]
  /\ Lines \subseteq Nat \ {0} /\ MinQuality \in 0..7
  /\ Ratios \in Seq(Nat \ {0}) /\ Len(Ratios) = 3
  /\ Ratios[1] < Ratios[2] /\ Ratios[2] < Ratios[3]

VARIABLES
  config,     \* the replay's settings
  tape,       \* the bars replayed so far
  position,   \* open_position
  trades,     \* the trades so far
  diag        \* ReplayDiagnostics

replayVars == <<config, tape, position, trades, diag>>

NoPosition == [side |-> 0]

Buckets == {"no_bias", "low_quality", "no_trigger", "candle_not_confirmed", "armed_setups"}

ReplayInit ==
  /\ config \in Configs
  /\ tape = <<>>
  /\ position = NoPosition
  /\ trades = <<>>
  /\ diag = [b \in Buckets \cup {"bars_evaluated"} |-> 0]

-----------------------------------------------------------------------------
(* The signal of the last bar. *)

Oriented(b, side) == IF side = 1 THEN b ELSE Mirror(b)

\* _combine_subscores
Combined(count) == IF config.strict /\ count < 7 THEN 0 ELSE count

\* compute_dominant_bias
Bias(score) ==
  LET edge == Combined(score.bull) - Combined(score.bear)
  IN  CASE edge >= MinEdge -> 1
        [] -edge >= MinEdge -> -1
        [] OTHER -> 0

Candidate(price, source) == [price |-> price, source |-> source]

\* _fast_range_trigger: the range of the last bars.
FastRange(b, side) ==
  IF Len(b) < Lookback THEN {}
  ELSE {Candidate(Max({Oriented(x, side).h : x \in Range(LastOf(Lookback, b))}) + Buffer,
                  "fast_range")}

\* _swing_zone_trigger: the last swing in the direction of the bias.
SwingZone(g, side) ==
  LET level == IF side = 1 THEN g.high1 ELSE g.low1
  IN  IF level = None THEN {} ELSE {Candidate(side * level + Buffer, "swing_zone")}

\* _trendline_trigger: the line of the opposite trend, not yet crossed.
Trendline(g, line, ltp, side) ==
  IF g.trend = -side /\ side * line > ltp
  THEN {Candidate(side * line, "trendline")} ELSE {}

\* The order in which min looks at them.
Sources == <<"fast_range", "swing_zone", "trendline">>
Place(source) == CHOOSE i \in DOMAIN Sources : Sources[i] = source

Nearer(t, u, ltp) ==
  LET d == Body([o |-> t.price, c |-> ltp])
      e == Body([o |-> u.price, c |-> ltp])
  IN  d < e \/ (d = e /\ Place(t.source) <= Place(u.source))

\* select_breakout_trigger, as a set of at most one.
Trigger(b, g, line, side) ==
  LET ltp == side * Last(b).c
      found == FastRange(b, side) \cup SwingZone(g, side) \cup Trendline(g, line, ltp, side)
      allowed == {t \in found : config.mode \in {t.source, "hybrid"}}
  IN  {t \in allowed : \A u \in allowed : Nearer(t, u, ltp)}

\* candle_confirms, with the default ratios.
Confirms(bar, price) ==
  LET range == bar.h - bar.l
  IN  /\ range > 0
      /\ 100 * Body(bar) >= 45 * range
      /\ 100 * (bar.c - bar.l) >= 75 * range
      /\ bar.c > price /\ bar.c > bar.o

\* compute_risk_levels: the structure may tighten the stop.
Stop(g, entry, side) ==
  LET level == IF side = 1 THEN g.low1 ELSE g.high1
  IN  IF level = None THEN entry - MaxStop ELSE Max({side * level, entry - MaxStop})

HasRisk(stop, entry) == entry > stop

\* Which of its buckets the bar goes to; compute_trade_readiness.
BucketOf(score, bias, found, b) ==
  LET quality == Combined(IF bias = 1 THEN score.bull ELSE score.bear)
  IN  CASE bias = 0 -> "no_bias"
        [] bias # 0 /\ quality < MinQuality -> "low_quality"
        [] bias # 0 /\ quality >= MinQuality /\ found = {} -> "no_trigger"
        [] bias # 0 /\ quality >= MinQuality /\ found # {} ->
             IF \E t \in found : Confirms(Oriented(Last(b), bias), t.price)
             THEN "armed_setups" ELSE "candle_not_confirmed"

SideAllowed(bias) ==
  /\ config.side = "LONG_ONLY" => bias = 1
  /\ config.side = "SHORT_ONLY" => bias = -1

\* An _OpenPosition.
Position(g, bias, source, b) ==
  LET entry == bias * Last(b).c
      stop == Stop(g, entry, bias)
  IN  [side |-> bias, at |-> Len(b), source |-> source,
       entry |-> entry + Slip, sl |-> stop,
       tp |-> [k \in 1..3 |-> entry + (entry - stop) * Ratios[k]]]

-----------------------------------------------------------------------------
(* The replay. *)

\* _check_exit with the targets before the stop.
ExitTargetFirst(p, bar) ==
  LET hit == {k \in 1..3 : bar.h >= p.tp[k]}
  IN  CASE hit # {} -> [reason |-> <<"TP1", "TP2", "TP3">>[Max(hit)],
                        price |-> p.tp[Max(hit)] - Slip]
        [] hit = {} /\ bar.l <= p.sl -> [reason |-> "SL_HIT", price |-> p.sl - Slip]
        [] OTHER -> [reason |-> "none"]

\* _check_exit: the stop first, then the farthest target.
Exit(p, bar) ==
  LET hit == {k \in 1..3 : bar.h >= p.tp[k]}
  IN  CASE bar.l <= p.sl -> [reason |-> "SL_HIT", price |-> p.sl - Slip]
        [] bar.l > p.sl /\ hit # {} ->
             [reason |-> <<"TP1", "TP2", "TP3">>[Max(hit)], price |-> p.tp[Max(hit)] - Slip]
        [] OTHER -> [reason |-> "none"]

SessionOf(i) == (i - 1) \div SessionBars

\* _is_session_close_bar
IsSessionCloseBar(i) ==
  i \in AtClose \/ i = ReplayBars \/ SessionOf(i + 1) # SessionOf(i)

\* _finalize_trade
Trade(p, at, exit) ==
  [side |-> p.side, source |-> p.source, from |-> p.at, to |-> at,
   entry |-> p.entry, sl |-> p.sl, tp |-> p.tp, reason |-> exit.reason,
   pnl |-> exit.price - p.entry - Fee]

\* bars_evaluated is counted before anything is known of the bar.
Evaluated == 1

NextBar ==
  /\ Len(tape) < ReplayBars
  /\ \E b \in ReplayShapes : tape' = Append(tape, b)

\* The bars before the first one that is evaluated.
WarmUp ==
  /\ Len(tape) < WarmupBars
  /\ NextBar
  /\ UNCHANGED <<config, position, trades, diag>>

\* The bar is looked at for a setup, and may open a position.
Decide ==
  \E g \in {ComputeSmcGeometry(tape').swing}, score \in Scores, line \in Lines :
    LET bias == Bias(score)
        found == IF bias = 0 THEN {} ELSE Trigger(tape', g, line, bias)
        bucket == BucketOf(score, bias, found, tape')
        entry == bias * Last(tape').c
    IN  /\ diag' = [diag EXCEPT ![bucket] = @ + 1, !["bars_evaluated"] = @ + Evaluated]
        /\ IF /\ bucket = "armed_setups"
              /\ SideAllowed(bias)
              /\ HasRisk(Stop(g, entry, bias), entry)
           THEN \E t \in found : position' = Position(g, bias, t.source, tape')
           ELSE position' = NoPosition

DecideSetup ==
  /\ Len(tape) >= WarmupBars /\ position = NoPosition
  /\ NextBar
  /\ Decide
  /\ UNCHANGED <<config, trades>>

\* The position is closed by the bar, or at the end of the session.
ExitOrClose(i, bar) ==
  LET exit == Exit(position, Oriented(bar, position.side))
  IN  CASE exit.reason # "none" -> <<Trade(position, i, exit)>>
        [] exit.reason = "none" /\ config.intraday /\ IsSessionCloseBar(i) ->
             <<Trade(position, i, [reason |-> "SESSION_CLOSE", price |-> position.side * bar.c])>>
        [] OTHER -> <<>>

HoldPosition ==
  /\ Len(tape) >= WarmupBars /\ position # NoPosition
  /\ NextBar
  /\ LET closed == ExitOrClose(Len(tape'), Last(tape'))
     IN  /\ trades' = trades \o closed
         /\ position' = IF closed = <<>> THEN position ELSE NoPosition
  /\ diag' = [diag EXCEPT !["bars_evaluated"] = @ + Evaluated]
  /\ UNCHANGED config

\* What is still open after the last bar is closed at its close.
CloseAtEnd ==
  /\ Len(tape) = ReplayBars /\ position # NoPosition
  /\ trades' = Append(trades, Trade(position, ReplayBars,
       [reason |-> "SESSION_CLOSE", price |-> position.side * Last(tape).c]))
  /\ position' = NoPosition
  /\ UNCHANGED <<config, tape, diag>>

ReplayNext == WarmUp \/ DecideSetup \/ HoldPosition \/ CloseAtEnd

ReplaySpec == ReplayInit /\ [][ReplayNext]_replayVars

-----------------------------------------------------------------------------
(* Properties. *)

Opened == Range(trades) \cup ({position} \ {NoPosition})

\* Type invariant; stop, entry and targets are in their order.
ReplayTypeOK ==
  /\ config \in Configs
  /\ tape \in Seq(ReplayShapes) /\ Len(tape) <= ReplayBars
  /\ \A p \in Opened :
       /\ p.side \in {1, -1} /\ p.source \in Range(Sources)
       /\ p.sl < p.entry /\ p.sl < p.tp[1] /\ p.tp[1] < p.tp[2] /\ p.tp[2] < p.tp[3]
  /\ \A t \in Range(trades) :
       t.reason \in {"SL_HIT", "TP1", "TP2", "TP3", "SESSION_CLOSE"}
  /\ \A b \in DOMAIN diag : diag[b] \in 0..ReplayBars

\* Only the last swing ever arms a setup, in whatever mode: the last bar is in
\* the range that its close would have to leave, and a line that the close has
\* crossed is no candidate.  ("Now a REAL config knob", says the comment on
\* trigger_source_mode; the modes fast_range and trendline never trade.)
OnlySwingZoneArms ==
  /\ \A p \in Opened : p.source = "swing_zone"
  /\ config.mode \in {"fast_range", "trendline"} => diag["armed_setups"] = 0

\* "One open position at a time": no position is opened before the bar after
\* the one that closed the last.
TradesDisjoint ==
  /\ \A i, j \in DOMAIN trades : i < j => trades[i].to < trades[j].from
  /\ position # NoPosition => \A i \in DOMAIN trades : trades[i].to < position.at

\* In a replay within the day a position is held into another session only if
\* the last bar of a session has opened it, and then not beyond that one.
OvernightFromLastBar ==
  config.intraday =>
    \A t \in Range(trades) :
      SessionOf(t.from) # SessionOf(t.to) =>
        IsSessionCloseBar(t.from) /\ SessionOf(t.to) = SessionOf(t.from) + 1

Bars(t) == [i \in (t.from + 1)..t.to |-> Oriented(tape[i], t.side)]

\* "SL is checked before TP on any bar where both could technically have been
\* touched": the first bar that touches the stop or a target closes the
\* trade, and with a loss if it touches the stop.
FirstBarDecides ==
  \A t \in Range(trades) :
    LET stopped == {i \in DOMAIN Bars(t) : Bars(t)[i].l <= t.sl}
        reached == {i \in DOMAIN Bars(t) : Bars(t)[i].h >= t.tp[1]}
    IN  /\ stopped \cup reached \subseteq {t.to}
        /\ t.reason = "SL_HIT" <=> stopped # {}
        /\ t.reason \in {"TP1", "TP2", "TP3"} <=> stopped = {} /\ reached # {}

\* "Real structure can only ever TIGHTEN the stop, never widen it past the ATR
\* cap": no trade loses more than that, its costs apart, not even when the
\* price jumps over the stop, which is filled at the stop all the same.
LossCapped ==
  \A t \in Range(trades) : t.pnl >= -(MaxStop + 2 * Slip + Fee)

Held == MapThenSumSet(LAMBDA i : trades[i].to - trades[i].from, DOMAIN trades)

\* Every evaluated bar is in one bucket, or a position was held through it.
BarsAccounted ==
  diag["bars_evaluated"] =
    diag["no_bias"] + diag["low_quality"] + diag["no_trigger"]
      + diag["candle_not_confirmed"] + diag["armed_setups"]
      + Held + (IF position = NoPosition THEN 0 ELSE Len(tape) - position.at)

\* The trades of a replay, and its account of the bars it did not trade on.
ReplaySafe ==
  /\ ReplayTypeOK
  /\ OnlySwingZoneArms
  /\ TradesDisjoint
  /\ OvernightFromLastBar
  /\ FirstBarDecides
  /\ LossCapped
  /\ BarsAccounted
=============================================================================
