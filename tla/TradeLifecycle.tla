---------------------------- MODULE TradeLifecycle ----------------------------
(***************************************************************************)
(* How an open row of the journal comes to its outcome                     *)
(* (services/api, lifecycle_monitor.py).  The price moves by one tick at a *)
(* time; a minute's ticks become a bar, which feature-engine writes when   *)
(* the minute is over, up to a minute late; the monitor looks, whenever it *)
(* runs, at the bars written since the row was created, and closes the row *)
(* at the stop, at a target, or when its time is over.                     *)
(*                                                                         *)
(* The row is created in minute 0, with the price at entry.  The bar of    *)
(* that minute is older than the row and is not looked at.  What the price *)
(* really did is kept as history: the minute of the first touch of every   *)
(* level.                                                                  *)
(* WalkPastStop is a faulty variant, kept to see the properties fail.      *)
(***************************************************************************)
EXTENDS Integers, Sequences, FiniteSetsExt

CONSTANTS
  Prices,        \* an interval of prices
  Plans,         \* [entry, stop, targets, bearish]: T1 before T2 before T3
  LifecycleTTL,  \* LIFECYCLE_TTL_MIN, in minutes of the model
  MaxMinutes,    \* bound
  MaxMoves       \* bound: ticks in a minute; the last minute has none

ASSUME LifecycleAssumption ==
  /\ Prices \subseteq Int
  /\ \A p \in Plans :
       /\ {p.entry, p.stop} \subseteq Prices /\ p.bearish \in BOOLEAN
       /\ p.targets \in Seq(Prices) /\ Len(p.targets) \in 1..3
       /\ \A i \in DOMAIN p.targets :
            IF p.bearish THEN p.targets[i] < p.entry /\ p.entry < p.stop
                         ELSE p.stop < p.entry /\ p.entry < p.targets[i]
  /\ LifecycleTTL \in Nat /\ MaxMinutes \in Nat /\ MaxMinutes > LifecycleTTL
  /\ MaxMoves \in Nat

VARIABLES
  plan,      \* the row's levels
  price,     \* the last tick
  moment,    \* minutes since the row was created
  moves,     \* ticks in this minute
  forming,   \* the bar of this minute, NoBar before its first tick
  due,       \* the bar of the minute before, if it is not written yet
  written,   \* infusion:ohlc:{symbol}:1m, a set ordered by time
  verdict,   \* the row's outcome
  closedAt,  \* the minute of the sweep that closed the row
  touchedAt  \* history: per level, the minute in which the price first touched it

tradeVars == <<plan, price, moment, moves, forming, due, written, verdict,
               closedAt, touchedAt>>

STOP == 0
TargetsOf == DOMAIN plan.targets
Walked == {STOP} \cup TargetsOf
Level(l) == IF l = STOP THEN plan.stop ELSE plan.targets[l]
Never == -1

Open == "OPEN"
Missed == "MISSED"
Loss == "LOSS"
Win(k) == <<"WIN_T1", "WIN_T2", "WIN_T3">>[k]
Wins == {Win(k) : k \in TargetsOf}
Depth(outcome) == CHOOSE k \in TargetsOf : Win(k) = outcome

\* A price that opens a bar lies between its low and its high.
Bars ==
  {b \in [open : Prices, low : Prices, high : Prices, at : 0..MaxMinutes] :
     b.low <= b.open /\ b.open <= b.high}
NoBar == <<>>

TradeTypeOK ==
  /\ plan \in Plans /\ price \in Prices
  /\ moment \in 0..MaxMinutes /\ moves \in 0..MaxMoves
  /\ {forming, due} \subseteq Bars \cup {NoBar}
  /\ written \subseteq Bars
  /\ \A b, c \in written : b.at = c.at => b = c
  /\ verdict \in {Open, Missed, Loss} \cup Wins
  /\ closedAt \in {Never} \cup 0..moment
  /\ touchedAt \in [Walked -> {Never} \cup 1..moment]

TradeInit ==
  /\ plan \in Plans
  /\ price = plan.entry
  /\ moment = 0 /\ moves = 0
  /\ forming = NoBar /\ due = NoBar /\ written = {}
  /\ verdict = Open
  /\ closedAt = Never
  /\ touchedAt = [l \in Walked |-> Never]

-----------------------------------------------------------------------------
(* The price and its bars. *)

\* How a bar with this low and high meets a level: resolve_bar_touch.touches.
Reaches(low, high, l) ==
  IF (l = STOP) = plan.bearish THEN high >= Level(l) ELSE low <= Level(l)

Tick(p) ==
  /\ moves < MaxMoves /\ moment < MaxMinutes
  /\ p \in Prices /\ p - price \in {-1, 1}
  /\ price' = p
  /\ moves' = moves + 1
  /\ forming' = IF forming = NoBar
                  THEN [open |-> p, low |-> p, high |-> p, at |-> moment]
                  ELSE [forming EXCEPT !.low = Min({@, p}), !.high = Max({@, p})]
  /\ touchedAt' = [l \in Walked |->
       IF moment > 0 /\ touchedAt[l] = Never /\ Reaches(p, p, l)
         THEN moment ELSE touchedAt[l]]
  /\ UNCHANGED <<plan, moment, due, written, verdict, closedAt>>

EndMinute ==
  /\ moment < MaxMinutes /\ due = NoBar
  /\ moment' = moment + 1
  /\ moves' = 0
  /\ due' = forming
  /\ forming' = NoBar
  /\ UNCHANGED <<plan, price, written, verdict, closedAt, touchedAt>>

\* feature-engine writes the completed bar.
WriteBar ==
  /\ due # NoBar
  /\ written' = written \cup {due}
  /\ due' = NoBar
  /\ UNCHANGED <<plan, price, moment, moves, forming, verdict, closedAt, touchedAt>>

-----------------------------------------------------------------------------
(* The walk over the bars. *)

NoLevel == -1
Apart(a, b) == IF a > b THEN a - b ELSE b - a

\* resolve_bar_touch: the deepest target, or the stop if it is nearer to the
\* open than that target.
BarTouch(b) ==
  LET hit == {l \in TargetsOf : Reaches(b.low, b.high, l)}
      deepest == Max(hit)
      stopped == Reaches(b.low, b.high, STOP)
  IN  IF hit = {} THEN IF stopped THEN STOP ELSE NoLevel
      ELSE IF stopped /\ Apart(plan.stop, b.open) < Apart(Level(deepest), b.open)
        THEN STOP ELSE deepest

\* The bars that are stopped, and the targets banked before the first of them.
Stops(bars) == {b \in bars : BarTouch(b) = STOP}
BankedBy(bars) == {BarTouch(b) : b \in bars} \ {STOP, NoLevel}
Banked(bars) == BankedBy({b \in bars : \A s \in Stops(bars) : b.at < s.at})

\* Where the walk ends: at the deepest target banked, or else at the stop.
WalkEnd(banked, stopped) ==
  CASE banked # {} -> Max(banked)
    [] banked = {} /\ stopped -> STOP
    [] OTHER -> NoLevel

WalkPastStop(bars) == WalkEnd(BankedBy(bars), Stops(bars) # {})

\* walk_trade: the deepest target that is banked before a bar that is stopped.
Walk(bars) == WalkEnd(Banked(bars), Stops(bars) # {})

\* The bars that are not older than the row.
Relevant == {b \in written : b.at > 0}
TimeIsOver == moment >= LifecycleTTL

Outcome(level) == IF level = STOP THEN Loss ELSE Win(level)

\* resolve_trade.
ResolveTrade ==
  LET level == Walk(Relevant)
  IN  CASE level # NoLevel -> Outcome(level)
        [] level = NoLevel /\ TimeIsOver -> Missed
        [] OTHER -> Open

\* A sweep of the monitor comes to the row.
SweepRow ==
  /\ verdict = Open
  /\ verdict' = ResolveTrade
  /\ verdict' # Open
  /\ closedAt' = moment
  /\ UNCHANGED <<plan, price, moment, moves, forming, due, written, touchedAt>>

TradeNext ==
  \/ \E p \in Prices : Tick(p)
  \/ EndMinute
  \/ WriteBar
  \/ SweepRow

\* Time passes, bars are written, and the monitor runs now and then.
TradeSpec ==
  /\ TradeInit /\ [][TradeNext]_tradeVars
  /\ WF_tradeVars(EndMinute \/ WriteBar) /\ WF_tradeVars(SweepRow)

-----------------------------------------------------------------------------
(* Properties. *)

Touched(l) == touchedAt[l] # Never

\* A loss is a loss to the minute: the price did touch the stop, and no target
\* in a minute before.
LossComesFirst ==
  verdict = Loss =>
    /\ Touched(STOP)
    /\ \A k \in TargetsOf : Touched(k) => touchedAt[k] >= touchedAt[STOP]

\* A win was there to be taken: the price touched that target, and it touched
\* one no later than the minute in which it touched the stop.
WinIsReal ==
  verdict \in Wins =>
    /\ Touched(Depth(verdict))
    /\ Touched(STOP) =>
         \E k \in TargetsOf : Touched(k) /\ touchedAt[k] <= touchedAt[STOP]

\* A missed setup was missed: when the row was closed the price had touched no
\* level, but for the minute whose bar was due and the one after it.
MissedWasUntouched ==
  verdict = Missed =>
    \A l \in Walked : Touched(l) => touchedAt[l] >= closedAt - 1

\* When the monitor looks matters only for how deep the win is: the bars that
\* come later never turn a loss into a win, a win into a loss or into less.
VerdictHolds ==
  verdict \notin {Open, Missed} =>
    LET level == Walk(Relevant)
    IN  IF verdict = Loss THEN level = STOP ELSE level >= Depth(verdict)

\* What the monitor says of a trade is what the price did.
TradeSafe ==
  /\ TradeTypeOK
  /\ LossComesFirst
  /\ WinIsReal
  /\ MissedWasUntouched
  /\ VerdictHolds

\* No row is open for ever.
TradeCloses == <>(verdict # Open)
=============================================================================
