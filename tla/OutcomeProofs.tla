---------------------------- MODULE OutcomeProofs ----------------------------
(* What the archiver's judgements of past signals promise, for every value of the
   constants: the life of a single trade and the verdict the outcome tracker gives of
   it (TradeLifecycle), the day of rows, the tracker's sweeps and the recap
   (OutcomeTracker), and the searches that pick a setting from a finished backtest
   run (StructureRuns).  The three share no state; each has an inductive invariant,
   proved over its own specification. *)
EXTENDS OutcomeTracker, TradeLifecycle, StructureRuns, SetLemmas, SequenceTheorems

-----------------------------------------------------------------------------
(* The outcome of a trade. *)

\* All bars of the row's lifetime, whether written, due or still forming.
Lived == {b \in written \cup ({due, forming} \ {NoBar}) : b.at > 0}

\* A written bar is of an earlier minute than the bar that is due, and that of
\* an earlier minute than the one that is forming.
BarsInPlace ==
  /\ forming # NoBar => forming.at = moment
  /\ due # NoBar => due.at = moment - 1
  /\ \A b \in written : b.at < moment /\ (due # NoBar => b.at < moment - 1)

Shows(b, l) == Reaches(b.low, b.high, l)

\* The history agrees with the bars: a level was first touched in the minute of
\* the first bar that shows it.
TouchesAreShown ==
  \A l \in Walked :
    /\ \A b \in Lived : Shows(b, l) => Touched(l) /\ touchedAt[l] <= b.at
    /\ Touched(l) => \E b \in Lived : b.at = touchedAt[l] /\ Shows(b, l)

\* The bars that were read when the verdict was given still give it.
VerdictStands ==
  /\ verdict = Loss => Stops(Relevant) # {} /\ Banked(Relevant) = {}
  /\ verdict \in Wins => Depth(verdict) \in Banked(Relevant)
  /\ verdict = Missed => closedAt # Never

\* The inductive invariant of the trade.
TradeIInv ==
  /\ TradeTypeOK
  /\ BarsInPlace
  /\ TouchesAreShown
  /\ VerdictStands
  /\ MissedWasUntouched

\* A plan has up to three targets, numbered from 1, and a stop.
LEMMA PlanFacts ==
  ASSUME plan \in Plans
  PROVE  /\ \E n \in 1..3 : TargetsOf = 1..n
         /\ \A k \in TargetsOf : k \in {1, 2, 3}
         /\ \A l \in Walked : l \in Int /\ Level(l) \in Prices /\ Level(l) \in Int
         /\ Prices \subseteq Int /\ plan.bearish \in BOOLEAN
<1>1. /\ plan.targets \in Seq(Prices) /\ plan.bearish \in BOOLEAN
      /\ plan.stop \in Prices /\ Prices \subseteq Int
  BY LifecycleAssumption
<1> DEFINE n == Len(plan.targets)
<1>2. n \in 1..3
  BY LifecycleAssumption
<1>3. TargetsOf = 1..n /\ \A i \in TargetsOf : plan.targets[i] \in Prices
  BY <1>1, ElementOfSeq, LenProperties DEF TargetsOf
<1> HIDE DEF n
<1>4. \A k \in TargetsOf : k \in {1, 2, 3}
  BY <1>2, <1>3
<1>5. Level(STOP) = plan.stop /\ \A k \in TargetsOf : Level(k) = plan.targets[k]
  BY <1>4 DEF Level, STOP
<1>6. \A l \in Walked : Level(l) \in Prices
  BY <1>1, <1>3, <1>5 DEF Walked
<1>7. \A l \in Walked : l \in Int
  BY <1>4 DEF Walked, STOP
<1> QED
  BY <1>1, <1>2, <1>3, <1>4, <1>6, <1>7

\* Outcomes of different depth differ.
LEMMA DepthOfWin ==
  ASSUME plan \in Plans
  PROVE  /\ \A k \in TargetsOf : Win(k) \in Wins /\ Depth(Win(k)) = k
         /\ {Open, Missed, Loss} \cap Wins = {}
         /\ \A w \in Wins : Depth(w) \in TargetsOf /\ Win(Depth(w)) = w
<1>1. \A k \in TargetsOf : k \in {1, 2, 3}
  BY PlanFacts
<1>2. Win(1) = "WIN_T1" /\ Win(2) = "WIN_T2" /\ Win(3) = "WIN_T3"
  BY DEF Win
<1>3. \A j, k \in TargetsOf : Win(j) = Win(k) => j = k
  BY <1>1, <1>2
<1>4. \A w \in Wins : \E k \in TargetsOf : Win(k) = w
  BY DEF Wins
<1> QED
  BY <1>1, <1>2, <1>3, <1>4 DEF Wins, Depth, Open, Missed, Loss

\* What a bar touches is a level that it shows, and it touches one if it shows any.
LEMMA BarTouchFacts ==
  ASSUME plan \in Plans, NEW b
  PROVE  /\ BarTouch(b) \in Walked \cup {NoLevel}
         /\ BarTouch(b) \in Walked => Shows(b, BarTouch(b))
         /\ \A l \in Walked : Shows(b, l) => BarTouch(b) # NoLevel
<1> DEFINE hit == {l \in TargetsOf : Reaches(b.low, b.high, l)}
<1>1. hit # {} => Max(hit) \in hit
  <2>1. \E n \in Nat : hit \in SUBSET (1..n)
    BY PlanFacts
  <2>2. hit \in SUBSET Int /\ IsFiniteSet(hit)
    BY <2>1, FinitePlaces
  <2> HIDE DEF hit
  <2> QED
    BY <2>2, GreatestInteger
<1>2. BarTouch(b) \in {STOP, NoLevel, Max(hit)} 
  BY DEF BarTouch
<1>3. /\ BarTouch(b) = STOP => Reaches(b.low, b.high, STOP)
      /\ BarTouch(b) = NoLevel => hit = {} /\ ~Reaches(b.low, b.high, STOP)
      /\ BarTouch(b) \notin {STOP, NoLevel} => hit # {} /\ BarTouch(b) = Max(hit)
  <2>1. CASE hit = {}
    BY <2>1 DEF BarTouch, STOP, NoLevel
  <2>2. CASE hit # {}
    <3>1. Max(hit) \notin {STOP, NoLevel}
      BY <1>1, <2>2, PlanFacts DEF STOP, NoLevel
    <3> QED
      BY <2>2, <3>1 DEF BarTouch, STOP, NoLevel
  <2> QED
    BY <2>1, <2>2
<1>4. STOP \notin TargetsOf /\ NoLevel \notin Walked
  BY PlanFacts DEF STOP, NoLevel, Walked
<1>5. BarTouch(b) \in TargetsOf => BarTouch(b) = Max(hit) /\ Max(hit) \in hit
  BY <1>1, <1>3, <1>4 DEF Walked
<1>6. BarTouch(b) \in Walked \cup {NoLevel}
  <2>1. BarTouch(b) \in {STOP, NoLevel} \/ BarTouch(b) \in hit
    BY <1>1, <1>3
  <2> QED
    BY <2>1 DEF Walked
<1> QED
  BY <1>3, <1>4, <1>5, <1>6 DEF Walked, Shows

\* Banked are targets, so the deepest of them is one of them.
LEMMA BankedFacts ==
  ASSUME plan \in Plans, NEW seen
  PROVE  /\ Banked(seen) \subseteq TargetsOf
         /\ Banked(seen) # {} =>
              Max(Banked(seen)) \in Banked(seen)
                /\ \A k \in Banked(seen) : k <= Max(Banked(seen))
<1>1. Banked(seen) \subseteq TargetsOf
  BY BarTouchFacts DEF Banked, BankedBy, Walked
<1>2. Banked(seen) \in SUBSET Int /\ IsFiniteSet(Banked(seen))
  <2>1. \E n \in Nat : Banked(seen) \in SUBSET (1..n)
    BY <1>1, PlanFacts
  <2> QED
    BY <2>1, FinitePlaces
<1> QED
  BY <1>1, <1>2, GreatestInteger

\* What a bar adds that is later than all others.
LEMMA LaterBar ==
  ASSUME NEW seen, NEW b, b.at \in Int, \A c \in seen : c.at \in Int /\ c.at < b.at
  PROVE  /\ Stops(seen) \subseteq Stops(seen \cup {b})
         /\ Banked(seen) \subseteq Banked(seen \cup {b})
         /\ Stops(seen) # {} => Banked(seen \cup {b}) = Banked(seen)
<1> DEFINE Free(s) == {c \in s : \A x \in Stops(s) : c.at < x.at}
<1>1. Stops(seen) \subseteq Stops(seen \cup {b}) /\ Stops(seen \cup {b}) \subseteq Stops(seen) \cup {b}
  BY DEF Stops
<1>2. Free(seen) \subseteq Free(seen \cup {b})
  BY <1>1
<1>3. Stops(seen) # {} => Free(seen \cup {b}) \subseteq Free(seen)
  <2> SUFFICES ASSUME NEW s \in Stops(seen), NEW c \in Free(seen \cup {b})
               PROVE  c \in Free(seen)
    OBVIOUS
  <2>1. s \in seen /\ c.at < s.at /\ c # b
    BY <1>1 DEF Stops
  <2> QED
    BY <1>1, <2>1
<1> QED
  BY <1>1, <1>2, <1>3 DEF Banked, BankedBy

\* What a bar touches depends on the plan alone.
LEMMA SamePlan ==
  ASSUME plan' = plan
  PROVE  /\ TargetsOf' = TargetsOf /\ Walked' = Walked /\ Wins' = Wins
         /\ \A w : Depth(w)' = Depth(w)
         /\ \A b, l : Shows(b, l)' = Shows(b, l)
         /\ \A seen : Stops(seen)' = Stops(seen) /\ Banked(seen)' = Banked(seen)
<1>1. TargetsOf' = TargetsOf /\ Walked' = Walked /\ Wins' = Wins
  BY DEF TargetsOf, Walked, Wins
<1>2. \A low, high, l : Reaches(low, high, l)' = Reaches(low, high, l)
  BY DEF Reaches, Level
<1>3. \A b : BarTouch(b)' = BarTouch(b)
  BY <1>1, <1>2 DEF BarTouch, Level
<1>4. \A seen : Stops(seen)' = Stops(seen)
  BY <1>3 DEF Stops
<1>5. \A seen : BankedBy(seen)' = BankedBy(seen)
  BY <1>3 DEF BankedBy
<1> QED
  BY <1>1, <1>2, <1>4, <1>5 DEF Depth, Shows, Banked

LEMMA TradeInitHolds == TradeInit => TradeIInv
<1> SUFFICES ASSUME TradeInit
             PROVE  TradeIInv
  OBVIOUS
<1> USE DEF TradeInit
<1>1. plan \in Plans /\ plan.entry \in Prices
  BY LifecycleAssumption
<1>2. Open \notin {Missed, Loss} \cup Wins
  BY <1>1, DepthOfWin DEF Open, Missed, Loss
<1>3. TradeTypeOK
  BY <1>1, LifecycleAssumption DEF TradeTypeOK
<1>4. Lived = {}
  BY DEF Lived
<1> QED
  BY <1>2, <1>3, <1>4
     DEF TradeIInv, BarsInPlace, TouchesAreShown, VerdictStands, MissedWasUntouched, Touched

\* Prices, minutes and the times of bars are numbers.
LEMMA TradeNumbers ==
  ASSUME TradeTypeOK
  PROVE  /\ Prices \subseteq Int /\ price \in Int /\ moment \in Nat /\ moves \in Nat
         /\ MaxMinutes \in Nat /\ MaxMoves \in Nat
         /\ \A b \in Bars :
              /\ b.low \in Int /\ b.high \in Int /\ b.open \in Int
              /\ b.at \in Int /\ b.at >= 0 /\ b # NoBar
         /\ \A b \in Lived : b \in Bars /\ b.at \in Int
<1>1. Prices \subseteq Int /\ MaxMinutes \in Nat /\ MaxMoves \in Nat
  BY LifecycleAssumption
<1>2. price \in Int /\ moment \in Nat /\ moves \in Nat
  BY <1>1 DEF TradeTypeOK
<1>3. ASSUME NEW b \in Bars
      PROVE  /\ b.low \in Int /\ b.high \in Int /\ b.open \in Int
             /\ b.at \in Int /\ b.at >= 0 /\ b # NoBar
  <2>1. /\ b.low \in Prices /\ b.high \in Prices /\ b.open \in Prices
        /\ b.at \in 0..MaxMinutes
    BY DEF Bars
  <2>2. "open" \in DOMAIN b
    BY DEF Bars
  <2>3. DOMAIN NoBar = {}
    BY DEF NoBar
  <2>4. b.low \in Int /\ b.high \in Int /\ b.open \in Int
    BY <1>1, <2>1
  <2>5. b.at \in Int /\ b.at >= 0
    BY <1>1, <2>1
  <2>6. b # NoBar
    BY <2>2, <2>3
  <2> QED
    BY <2>4, <2>5, <2>6
<1>4. \A b \in Lived : b \in Bars
  BY DEF Lived, TradeTypeOK
<1> QED
  BY <1>1, <1>2, <1>3, <1>4

\* The bar of this minute after a tick: it shows what it showed, and what the tick
\* touches.
LEMMA TickBar ==
  ASSUME TradeIInv, NEW p \in Prices, Tick(p)
  PROVE  /\ forming' \in Bars /\ forming'.at = moment /\ forming' # NoBar
         /\ \A l \in Walked :
              Shows(forming', l) <=>
                Reaches(p, p, l) \/ (forming # NoBar /\ Shows(forming, l))
<1>1. /\ TradeTypeOK /\ BarsInPlace /\ Prices \subseteq Int /\ moment \in 0..MaxMinutes
      /\ plan \in Plans /\ p \in Int
  BY TradeNumbers DEF TradeIInv, TradeTypeOK
<1>2. \A l \in Walked : Level(l) \in Int
  BY <1>1, PlanFacts
<1>3. CASE forming = NoBar
  <2>1. forming' = [open |-> p, low |-> p, high |-> p, at |-> moment]
    BY <1>3 DEF Tick
  <2>2. forming' \in Bars /\ forming'.at = moment /\ forming' # NoBar
    BY <1>1, <2>1 DEF Bars, NoBar
  <2>3. forming'.low = p /\ forming'.high = p
    BY <2>1
  <2> QED
    BY <1>3, <2>2, <2>3 DEF Shows
<1>4. CASE forming # NoBar
  <2>1. forming \in Bars /\ forming.at = moment /\ forming.low \in Int /\ forming.high \in Int
    BY <1>1, <1>4, TradeNumbers DEF TradeTypeOK, BarsInPlace
  <2>2. forming' = [forming EXCEPT !.low = Min({forming.low, p}),
                                   !.high = Max({forming.high, p})]
    BY <1>4 DEF Tick
  <2>3. /\ Min({forming.low, p}) = IF forming.low <= p THEN forming.low ELSE p
        /\ Max({forming.high, p}) = IF forming.high >= p THEN forming.high ELSE p
    BY <1>1, <2>1 DEF Min, Max
  <2>4. forming' \in Bars /\ forming'.at = moment /\ forming' # NoBar
    <3> DEFINE lo == IF forming.low <= p THEN forming.low ELSE p
               hi == IF forming.high >= p THEN forming.high ELSE p
    <3>1. /\ forming \in [open : Prices, low : Prices, high : Prices, at : 0..MaxMinutes]
          /\ forming.low <= forming.open /\ forming.open <= forming.high
          /\ forming.open \in Int
      BY <1>1, <2>1 DEF Bars
    <3>2. lo \in Prices /\ hi \in Prices /\ lo <= forming.open /\ forming.open <= hi
      BY <1>1, <2>1, <3>1
    <3>3. forming' = [forming EXCEPT !.low = lo, !.high = hi]
      BY <2>2, <2>3
    <3> HIDE DEF lo, hi
    <3>4. /\ forming' \in [open : Prices, low : Prices, high : Prices, at : 0..MaxMinutes]
          /\ forming'.low = lo /\ forming'.high = hi /\ forming'.open = forming.open
          /\ forming'.at = forming.at
      BY <3>1, <3>2, <3>3
    <3>5. forming' \in Bars
      BY <3>2, <3>4 DEF Bars
    <3>6. forming' # NoBar
      BY <1>1, <3>5, TradeNumbers
    <3> QED
      BY <2>1, <3>4, <3>5, <3>6
  <2>5. /\ forming'.low = IF forming.low <= p THEN forming.low ELSE p
        /\ forming'.high = IF forming.high >= p THEN forming.high ELSE p
    BY <2>1, <2>2, <2>3 DEF Bars
  <2>6. ASSUME NEW l \in Walked
        PROVE  Reaches(forming'.low, forming'.high, l) <=>
                 Reaches(p, p, l) \/ Reaches(forming.low, forming.high, l)
    <3>1. Level(l) \in Int
      BY <1>2
    <3> QED
      BY <1>1, <2>1, <2>5, <3>1 DEF Reaches
  <2> QED
    BY <1>4, <2>4, <2>6 DEF Shows
<1> QED
  BY <1>3, <1>4

\* While no bar is written, what was read for the verdict stays.
LEMMA VerdictKept ==
  ASSUME VerdictStands, plan' = plan, written' = written, verdict' = verdict,
         closedAt' = closedAt
  PROVE  VerdictStands'
<1>1. Relevant' = Relevant
  BY DEF Relevant
<1> QED
  BY <1>1, SamePlan DEF VerdictStands

LEMMA TickHolds ==
  ASSUME TradeIInv, NEW p \in Prices, Tick(p)
  PROVE  TradeIInv'
<1>1. /\ TradeTypeOK /\ BarsInPlace /\ TouchesAreShown /\ VerdictStands /\ MissedWasUntouched
      /\ moment \in Nat /\ moves \in Nat /\ MaxMoves \in Nat /\ MaxMinutes \in Nat
      /\ plan \in Plans
  BY TradeNumbers DEF TradeIInv, TradeTypeOK
<1>2. /\ plan' = plan /\ moment' = moment /\ due' = due /\ written' = written
      /\ verdict' = verdict /\ closedAt' = closedAt
  BY DEF Tick
<1>3. /\ forming' \in Bars /\ forming'.at = moment /\ forming' # NoBar
      /\ \A l \in Walked :
           Shows(forming', l) <=>
             Reaches(p, p, l) \/ (forming # NoBar /\ Shows(forming, l))
  BY TickBar
<1>4. /\ Walked' = Walked /\ Wins' = Wins
      /\ \A b, l : Shows(b, l)' = Shows(b, l)
  BY <1>2, SamePlan
<1>5. touchedAt' = [l \in Walked |->
        IF moment > 0 /\ touchedAt[l] = Never /\ Reaches(p, p, l)
          THEN moment ELSE touchedAt[l]]
  BY DEF Tick
<1>6. TradeTypeOK'
  <2>1. touchedAt' \in [Walked -> {Never} \cup 1..moment]
    BY <1>1, <1>5 DEF TradeTypeOK
  <2>2. moves' \in 0..MaxMoves /\ price' \in Prices
    BY <1>1 DEF Tick
  <2> QED
    BY <1>1, <1>2, <1>3, <1>4, <2>1, <2>2 DEF TradeTypeOK
<1>7. BarsInPlace'
  BY <1>1, <1>2, <1>3 DEF BarsInPlace
<1>8. TouchesAreShown'
  <2> SUFFICES ASSUME NEW l \in Walked
               PROVE  /\ \A b \in Lived' : Shows(b, l) => touchedAt'[l] # Never /\ touchedAt'[l] <= b.at
                      /\ touchedAt'[l] # Never => \E b \in Lived' : b.at = touchedAt'[l] /\ Shows(b, l)
    BY <1>4 DEF TouchesAreShown, Touched
  <2>1. /\ \A b \in Lived : Shows(b, l) => touchedAt[l] # Never /\ touchedAt[l] <= b.at
        /\ touchedAt[l] # Never => \E b \in Lived : b.at = touchedAt[l] /\ Shows(b, l)
        /\ touchedAt[l] \in {Never} \cup 1..moment
    BY <1>1 DEF TouchesAreShown, Touched, TradeTypeOK
  <2>2. /\ \A b \in Lived' : b \in Lived \/ (b = forming' /\ moment > 0)
        /\ \A b \in Lived : b \in Lived' \/ (b = forming /\ forming # NoBar)
        /\ moment > 0 => forming' \in Lived'
        /\ forming # NoBar /\ moment > 0 => forming \in Lived /\ forming.at = moment
        /\ \A b \in Lived : b.at \in Int /\ b.at > 0
    BY <1>1, <1>2, <1>3, TradeNumbers DEF Lived, BarsInPlace
  <2>3. moment \in Int /\ Never \in Int /\ \A b \in Lived : b = forming /\ forming # NoBar => b.at = moment
    BY <1>1 DEF BarsInPlace, Never
  <2>4. CASE moment > 0 /\ touchedAt[l] = Never /\ Reaches(p, p, l)
    <3>1. touchedAt'[l] = moment /\ moment # Never
      BY <1>5, <2>4 DEF Never
    <3>2. \A b \in Lived : ~Shows(b, l)
      BY <2>1, <2>4
    <3>3. Shows(forming', l)
      BY <1>3, <2>4
    <3> QED
      BY <1>3, <2>2, <2>3, <2>4, <3>1, <3>2, <3>3
  <2>5. CASE ~(moment > 0 /\ touchedAt[l] = Never /\ Reaches(p, p, l))
    <3>1. touchedAt'[l] = touchedAt[l]
      BY <1>5, <2>5
    <3>2. moment > 0 /\ Shows(forming', l) => touchedAt[l] # Never /\ touchedAt[l] <= moment
      BY <1>1, <1>3, <2>1, <2>2, <2>5 DEF Never
    <3>3. ASSUME NEW b \in Lived, Shows(b, l)
          PROVE  \E c \in Lived' : c.at = b.at /\ Shows(c, l)
      <4>1. CASE b = forming /\ forming # NoBar
        <5>1. b.at = moment /\ moment > 0 /\ Shows(forming', l)
          BY <1>3, <2>2, <2>3, <3>3, <4>1
        <5> QED
          BY <1>3, <2>2, <5>1
      <4>2. CASE ~(b = forming /\ forming # NoBar)
        BY <2>2, <3>3, <4>2
      <4> QED
        BY <4>1, <4>2
    <3> QED
      BY <1>3, <2>1, <2>2, <3>1, <3>2, <3>3
  <2> QED
    BY <2>4, <2>5
<1>9. MissedWasUntouched'
  <2> SUFFICES ASSUME verdict = Missed, NEW l \in Walked, touchedAt'[l] # Never
               PROVE  touchedAt'[l] >= closedAt - 1
    BY <1>2, <1>4 DEF MissedWasUntouched, Touched
  <2>1. closedAt \in 0..moment
    BY <1>1 DEF TradeTypeOK, VerdictStands
  <2>2. touchedAt[l] # Never => touchedAt[l] >= closedAt - 1
    BY <1>1 DEF MissedWasUntouched, Touched
  <2>3. touchedAt'[l] = moment \/ touchedAt'[l] = touchedAt[l]
    BY <1>5
  <2> QED
    BY <1>1, <2>1, <2>2, <2>3
<1>10. VerdictStands'
  BY <1>1, <1>2, VerdictKept
<1> QED
  BY <1>6, <1>7, <1>8, <1>9, <1>10 DEF TradeIInv

LEMMA EndMinuteHolds ==
  ASSUME TradeIInv, EndMinute
  PROVE  TradeIInv'
<1>1. /\ TradeTypeOK /\ BarsInPlace /\ TouchesAreShown /\ VerdictStands /\ MissedWasUntouched
      /\ moment \in Nat /\ MaxMoves \in Nat /\ MaxMinutes \in Nat
  BY TradeNumbers, LifecycleAssumption DEF TradeIInv
<1>2. /\ plan' = plan /\ moment' = moment + 1 /\ moment < MaxMinutes /\ due = NoBar
      /\ due' = forming /\ forming' = NoBar /\ written' = written /\ price' = price
      /\ verdict' = verdict /\ closedAt' = closedAt /\ touchedAt' = touchedAt /\ moves' = 0
  BY DEF EndMinute
<1>3. /\ Walked' = Walked /\ Wins' = Wins
      /\ \A b, l : Shows(b, l)' = Shows(b, l)
  BY <1>2, SamePlan
<1>4. 1..moment \subseteq 1..moment' /\ 0..moment \subseteq 0..moment' /\ moment' \in 0..MaxMinutes
  BY <1>1, <1>2
<1>5. TradeTypeOK'
  <2>1. touchedAt' \in [Walked' -> {Never} \cup 1..moment']
    BY <1>1, <1>2, <1>3, <1>4 DEF TradeTypeOK
  <2> QED
    BY <1>1, <1>2, <1>3, <1>4, <2>1 DEF TradeTypeOK
<1>6. BarsInPlace'
  <2>1. \A b \in written : b.at \in Int /\ b.at < moment
    BY <1>1, TradeNumbers DEF BarsInPlace, TradeTypeOK
  <2> QED
    BY <1>1, <1>2, <2>1 DEF BarsInPlace
<1>7. Lived' = Lived
  BY <1>2 DEF Lived
<1>8. TouchesAreShown' /\ MissedWasUntouched'
  BY <1>1, <1>2, <1>3, <1>7 DEF TouchesAreShown, MissedWasUntouched, Touched
<1> QED
  BY <1>1, <1>2, <1>5, <1>6, <1>8, VerdictKept DEF TradeIInv

LEMMA WriteBarHolds ==
  ASSUME TradeIInv, WriteBar
  PROVE  TradeIInv'
<1>1. /\ TradeTypeOK /\ BarsInPlace /\ TouchesAreShown /\ VerdictStands /\ MissedWasUntouched
      /\ moment \in Nat /\ plan \in Plans
  BY TradeNumbers DEF TradeIInv, TradeTypeOK
<1>2. /\ plan' = plan /\ moment' = moment /\ due # NoBar /\ moves' = moves
      /\ due' = NoBar /\ forming' = forming /\ written' = written \cup {due} /\ price' = price
      /\ verdict' = verdict /\ closedAt' = closedAt /\ touchedAt' = touchedAt
  BY DEF WriteBar
<1>3. /\ Walked' = Walked /\ Wins' = Wins
      /\ \A b, l : Shows(b, l)' = Shows(b, l)
      /\ \A seen : Stops(seen)' = Stops(seen) /\ Banked(seen)' = Banked(seen)
      /\ \A w : Depth(w)' = Depth(w)
  BY <1>2, SamePlan
<1>4. /\ due \in Bars /\ due.at = moment - 1 /\ due.at \in Int
      /\ \A b \in written : b.at \in Int /\ b.at < due.at
  BY <1>1, <1>2, TradeNumbers DEF BarsInPlace, TradeTypeOK
<1>5. TradeTypeOK'
  <2>1. \A b, c \in written' : b.at = c.at => b = c
    BY <1>1, <1>2, <1>4 DEF TradeTypeOK
  <2> QED
    BY <1>1, <1>2, <1>3, <1>4, <2>1 DEF TradeTypeOK
<1>6. BarsInPlace'
  <2>1. \A b \in written' : b.at < moment
    BY <1>1, <1>2, <1>4
  <2> QED
    BY <1>1, <1>2, <2>1 DEF BarsInPlace
<1>7. Lived' = Lived
  BY <1>2 DEF Lived
<1>8. TouchesAreShown' /\ MissedWasUntouched'
  BY <1>1, <1>2, <1>3, <1>7 DEF TouchesAreShown, MissedWasUntouched, Touched
<1>9. VerdictStands'
  <2>1. CASE due.at > 0
    <3>1. Relevant' = Relevant \cup {due} /\ \A c \in Relevant : c.at \in Int /\ c.at < due.at
      BY <1>2, <1>4, <2>1 DEF Relevant
    <3>2. /\ Stops(Relevant) \subseteq Stops(Relevant')
          /\ Banked(Relevant) \subseteq Banked(Relevant')
          /\ Stops(Relevant) # {} => Banked(Relevant') = Banked(Relevant)
      BY <1>4, <3>1, LaterBar
    <3>3. Stops(Relevant)' = Stops(Relevant') /\ Banked(Relevant)' = Banked(Relevant')
      BY <1>3
    <3> QED
      BY <1>1, <1>2, <1>3, <3>2, <3>3 DEF VerdictStands
  <2>2. CASE ~(due.at > 0)
    <3>1. Relevant' = Relevant
      BY <1>2, <2>2 DEF Relevant
    <3> QED
      BY <1>1, <1>2, <1>3, <3>1 DEF VerdictStands
  <2> QED
    BY <2>1, <2>2
<1> QED
  BY <1>5, <1>6, <1>8, <1>9 DEF TradeIInv

\* Where nothing was banked and nothing stopped, no written bar shows a level.
LEMMA NothingShown ==
  ASSUME plan \in Plans, NEW seen, Stops(seen) = {}, Banked(seen) = {}
  PROVE  \A b \in seen, l \in Walked : ~Shows(b, l)
<1>1. \A b \in seen : BarTouch(b) \in {STOP, NoLevel}
  BY DEF Banked, BankedBy
<1>2. \A b \in seen : BarTouch(b) # STOP
  BY DEF Stops
<1> QED
  BY <1>1, <1>2, BarTouchFacts

\* Where the walk ends.
LEMMA FirstTouchFacts ==
  ASSUME plan \in Plans, NEW seen
  PROVE  /\ Banked(seen) # {} => Walk(seen) \in Banked(seen) /\ Walk(seen) \in TargetsOf
                                  /\ \A k \in Banked(seen) : k <= Walk(seen)
         /\ Banked(seen) = {} /\ Stops(seen) # {} => Walk(seen) = STOP
         /\ Banked(seen) = {} /\ Stops(seen) = {} => Walk(seen) = NoLevel
         /\ STOP \notin TargetsOf /\ NoLevel \notin TargetsOf /\ NoLevel # STOP
<1>1. STOP \notin TargetsOf /\ NoLevel \notin TargetsOf /\ NoLevel # STOP
  BY PlanFacts DEF STOP, NoLevel
<1> QED
  BY <1>1, BankedFacts DEF Walk, WalkEnd

LEMMA SweepRowHolds ==
  ASSUME TradeIInv, SweepRow
  PROVE  TradeIInv'
<1>1. /\ TradeTypeOK /\ BarsInPlace /\ TouchesAreShown /\ VerdictStands /\ MissedWasUntouched
      /\ moment \in Nat /\ plan \in Plans
  BY TradeNumbers DEF TradeIInv, TradeTypeOK
<1>2. /\ plan' = plan /\ moment' = moment /\ moves' = moves /\ verdict = Open
      /\ due' = due /\ forming' = forming /\ written' = written /\ price' = price
      /\ verdict' = ResolveTrade /\ verdict' # Open /\ closedAt' = moment
      /\ touchedAt' = touchedAt
  BY DEF SweepRow
<1>3. /\ Walked' = Walked /\ Wins' = Wins
      /\ \A b, l : Shows(b, l)' = Shows(b, l)
      /\ \A seen : Stops(seen)' = Stops(seen) /\ Banked(seen)' = Banked(seen)
      /\ \A w : Depth(w)' = Depth(w)
      /\ Relevant' = Relevant /\ Lived' = Lived
  BY <1>2, SamePlan DEF Relevant, Lived
<1>4. closedAt' # Never /\ closedAt' \in 0..moment
  BY <1>1, <1>2 DEF Never
<1>5. TouchesAreShown' /\ BarsInPlace'
  BY <1>1, <1>2, <1>3 DEF TouchesAreShown, BarsInPlace, Touched
<1>6. TradeTypeOK' \/ verdict' \notin {Open, Missed, Loss} \cup Wins
  BY <1>1, <1>2, <1>3, <1>4 DEF TradeTypeOK
<1> DEFINE level == Walk(Relevant)
<1>7. CASE Banked(Relevant) # {}
  <2>1. level \in Banked(Relevant) /\ level \in TargetsOf /\ level # STOP /\ level # NoLevel
    BY <1>1, <1>7, FirstTouchFacts
  <2>2. verdict' = Win(level) /\ Win(level) \in Wins /\ Depth(Win(level)) = level
    BY <1>1, <1>2, <2>1, DepthOfWin DEF ResolveTrade, Outcome
  <2> HIDE DEF level
  <2>3. verdict' \notin {Open, Missed, Loss} /\ verdict' \in Wins
    BY <1>1, <2>2, DepthOfWin
  <2> QED
    BY <1>2, <1>3, <1>4, <1>5, <1>6, <2>1, <2>2, <2>3
       DEF TradeIInv, VerdictStands, MissedWasUntouched
<1>8. CASE Banked(Relevant) = {} /\ Stops(Relevant) # {}
  <2>1. level = STOP /\ level # NoLevel
    BY <1>1, <1>8, FirstTouchFacts
  <2>2. verdict' = Loss
    BY <1>2, <2>1 DEF ResolveTrade, Outcome
  <2>3. Loss \notin Wins /\ Loss # Missed
    BY <1>1, DepthOfWin DEF Loss, Missed
  <2> QED
    BY <1>2, <1>3, <1>4, <1>5, <1>6, <1>8, <2>2, <2>3
       DEF TradeIInv, VerdictStands, MissedWasUntouched
<1>9. CASE Banked(Relevant) = {} /\ Stops(Relevant) = {}
  <2>1. level = NoLevel
    BY <1>1, <1>9, FirstTouchFacts
  <2>2. verdict' = Missed
    BY <1>2, <2>1 DEF ResolveTrade
  <2>3. Missed \notin Wins /\ Loss # Missed
    BY <1>1, DepthOfWin DEF Loss, Missed
  <2>4. ASSUME NEW l \in Walked, touchedAt[l] # Never
        PROVE  touchedAt[l] >= moment - 1
    <3>1. PICK b \in Lived : b.at = touchedAt[l] /\ Shows(b, l)
      BY <1>1, <2>4 DEF TouchesAreShown, Touched
    <3>2. b \notin Relevant
      BY <1>1, <1>9, <3>1, NothingShown
    <3>3. (b = due /\ due # NoBar) \/ (b = forming /\ forming # NoBar)
      BY <3>2 DEF Lived, Relevant
    <3> QED
      BY <1>1, <3>1, <3>3 DEF BarsInPlace
  <2>5. MissedWasUntouched'
    BY <1>2, <1>3, <2>4 DEF MissedWasUntouched, Touched
  <2> QED
    BY <1>2, <1>3, <1>4, <1>5, <1>6, <2>2, <2>3, <2>5
       DEF TradeIInv, VerdictStands
<1> QED
  BY <1>7, <1>8, <1>9

\* The inductive invariant of the trade, for every plan.
THEOREM TradeInvariant == TradeSpec => []TradeIInv
<1>1. TradeInit => TradeIInv
  BY TradeInitHolds
<1>2. TradeIInv /\ [TradeNext]_tradeVars => TradeIInv'
  <2> SUFFICES ASSUME TradeIInv, [TradeNext]_tradeVars
               PROVE  TradeIInv'
    OBVIOUS
  <2>1. CASE TradeNext
    BY <2>1, TickHolds, EndMinuteHolds, WriteBarHolds, SweepRowHolds DEF TradeNext
  <2>2. CASE UNCHANGED tradeVars
    <3>1. /\ plan' = plan /\ moment' = moment /\ moves' = moves /\ verdict' = verdict
          /\ due' = due /\ forming' = forming /\ written' = written /\ price' = price
          /\ closedAt' = closedAt /\ touchedAt' = touchedAt
      BY <2>2 DEF tradeVars
    <3>2. /\ Walked' = Walked /\ Wins' = Wins
          /\ \A b, l : Shows(b, l)' = Shows(b, l)
      BY <3>1, SamePlan
    <3>3. Lived' = Lived
      BY <3>1 DEF Lived
    <3>4. TradeTypeOK' /\ BarsInPlace'
      BY <3>1, <3>2 DEF TradeIInv, TradeTypeOK, BarsInPlace
    <3>5. TouchesAreShown' /\ MissedWasUntouched'
      BY <3>1, <3>2, <3>3 DEF TradeIInv, TouchesAreShown, MissedWasUntouched, Touched
    <3>6. VerdictStands'
      BY <3>1, VerdictKept DEF TradeIInv
    <3> QED
      BY <3>4, <3>5, <3>6 DEF TradeIInv
  <2> QED
    BY <2>1, <2>2
<1> QED
  BY <1>1, <1>2, PTL DEF TradeSpec

\* A loss is a loss to the minute.
LEMMA LossIsFirst ==
  ASSUME TradeIInv
  PROVE  LossComesFirst
<1> SUFFICES ASSUME verdict = Loss
             PROVE  /\ Touched(STOP)
                    /\ \A k \in TargetsOf : Touched(k) => touchedAt[k] >= touchedAt[STOP]
  BY DEF LossComesFirst
<1>1. /\ TouchesAreShown /\ BarsInPlace /\ Banked(Relevant) = {} /\ Stops(Relevant) # {}
      /\ plan \in Plans /\ moment \in Int
      /\ \A b \in Lived : b.at \in Int /\ b.at > 0
  BY TradeNumbers DEF TradeIInv, VerdictStands, TradeTypeOK, Lived
<1>2. Relevant \subseteq Lived /\ STOP \in Walked /\ TargetsOf \subseteq Walked
  BY DEF Relevant, Lived, Walked
<1> DEFINE ats == {s.at : s \in Stops(Relevant)}
<1>3. PICK s \in Stops(Relevant) : \A x \in Stops(Relevant) : s.at <= x.at
  <2>1. Stops(Relevant) \subseteq Lived
    BY <1>2 DEF Stops
  <2>2. ats \in SUBSET Nat /\ ats # {}
    BY <1>1, <2>1
  <2>3. PICK n \in ats : \A k \in ats : n <= k
    <3> HIDE DEF ats
    <3> QED
      BY <2>2, LeastNatural
  <2> QED
    BY <2>3
<1>4. s \in Relevant /\ BarTouch(s) = STOP /\ Shows(s, STOP) /\ s.at < moment
  <2>1. s \in Relevant /\ BarTouch(s) = STOP
    BY DEF Stops
  <2>2. Shows(s, STOP)
    BY <1>1, <1>2, <2>1, BarTouchFacts
  <2> QED
    BY <1>1, <2>1, <2>2 DEF BarsInPlace, Relevant
<1>5. ASSUME NEW b \in Relevant, NEW l \in Walked, Shows(b, l)
      PROVE  b.at >= s.at
  <2> SUFFICES ASSUME b.at < s.at
               PROVE  FALSE
    BY <1>1, <1>2, <1>4
  <2>1. BarTouch(b) # NoLevel
    BY <1>1, <1>5, BarTouchFacts
  <2>2. BarTouch(b) # STOP
    BY <1>1, <1>2, <1>3, <1>4 DEF Stops
  <2>3. \A x \in Stops(Relevant) : b.at < x.at
    <3> TAKE x \in Stops(Relevant)
    <3>1. x \in Lived /\ s.at <= x.at
      BY <1>2, <1>3 DEF Stops
    <3> QED
      BY <1>1, <1>2, <1>4, <3>1
  <2>4. BarTouch(b) \in Banked(Relevant)
    BY <2>1, <2>2, <2>3 DEF Banked, BankedBy
  <2> QED
    BY <1>1, <2>4
<1>6. Touched(STOP) /\ touchedAt[STOP] <= s.at
  BY <1>1, <1>2, <1>4 DEF TouchesAreShown
<1>7. ASSUME NEW k \in Walked, Touched(k)
      PROVE  touchedAt[k] >= s.at
  <2>1. PICK b \in Lived : b.at = touchedAt[k] /\ Shows(b, k)
    BY <1>1, <1>7 DEF TouchesAreShown
  <2>2. CASE b \in Relevant
    BY <1>5, <2>1, <2>2
  <2>3. CASE b \notin Relevant
    <3>1. (b = due /\ due # NoBar) \/ (b = forming /\ forming # NoBar)
      BY <2>3 DEF Lived, Relevant
    <3>2. s \in written
      BY <1>4 DEF Relevant
    <3> QED
      BY <1>1, <1>2, <1>4, <2>1, <3>1, <3>2 DEF BarsInPlace
  <2> QED
    BY <2>2, <2>3
<1>8. touchedAt[STOP] \in Int /\ \A k \in TargetsOf : touchedAt[k] \in Int
  <2>1. \A k \in Walked : touchedAt[k] \in {Never} \cup 1..moment
    BY DEF TradeIInv, TradeTypeOK
  <2> QED
    BY <1>1, <1>2, <2>1 DEF Never
<1>9. s.at \in Int
  BY <1>1, <1>2, <1>4
<1> QED
  BY <1>2, <1>6, <1>7, <1>8, <1>9

\* A win was there to be taken.
LEMMA WinWasReal ==
  ASSUME TradeIInv
  PROVE  WinIsReal
<1> SUFFICES ASSUME verdict \in Wins
             PROVE  /\ Touched(Depth(verdict))
                    /\ Touched(STOP) =>
                         \E k \in TargetsOf : Touched(k) /\ touchedAt[k] <= touchedAt[STOP]
  BY DEF WinIsReal
<1> DEFINE d == Depth(verdict)
<1>1. /\ TouchesAreShown /\ BarsInPlace /\ d \in Banked(Relevant)
      /\ plan \in Plans /\ moment \in Int
      /\ \A b \in Lived : b.at \in Int /\ b.at > 0
  BY TradeNumbers DEF TradeIInv, VerdictStands, TradeTypeOK, Lived
<1>2. Relevant \subseteq Lived /\ STOP \in Walked /\ TargetsOf \subseteq Walked
  BY DEF Relevant, Lived, Walked
<1>3. PICK b \in Relevant : BarTouch(b) = d /\ \A s \in Stops(Relevant) : b.at < s.at
  BY <1>1 DEF Banked, BankedBy
<1>4. d \in TargetsOf
  BY <1>1, BankedFacts
<1>5. Shows(b, d) /\ b \in Lived /\ b.at \in Int /\ b.at < moment /\ b \in written
  <2>1. Shows(b, d)
    BY <1>1, <1>2, <1>3, <1>4, BarTouchFacts
  <2> QED
    BY <1>1, <1>2, <1>3, <2>1 DEF Relevant, BarsInPlace
<1>6. Touched(d) /\ touchedAt[d] <= b.at
  BY <1>1, <1>2, <1>4, <1>5 DEF TouchesAreShown
<1> HIDE DEF d
<1>7. \A k \in Walked : touchedAt[k] \in Int
  <2>1. \A k \in Walked : touchedAt[k] \in {Never} \cup 1..moment
    BY DEF TradeIInv, TradeTypeOK
  <2> QED
    BY <1>1, <2>1 DEF Never
<1>8. ASSUME Touched(STOP)
      PROVE  \E k \in TargetsOf : Touched(k) /\ touchedAt[k] <= touchedAt[STOP]
  <2>1. PICK c \in Lived : c.at = touchedAt[STOP] /\ Shows(c, STOP)
    BY <1>1, <1>2, <1>8 DEF TouchesAreShown
  <2>2. CASE c.at >= b.at
    BY <1>1, <1>2, <1>4, <1>5, <1>6, <1>7, <2>1, <2>2
  <2>3. CASE c.at < b.at
    <3>1. c \in Relevant
      <4>1. ~(c = due /\ due # NoBar) /\ ~(c = forming /\ forming # NoBar)
        BY <1>1, <1>5, <2>3 DEF BarsInPlace
      <4> QED
        BY <2>1, <4>1 DEF Lived, Relevant
    <3>2. BarTouch(c) # NoLevel
      BY <1>1, <1>2, <2>1, BarTouchFacts
    <3>3. BarTouch(c) # STOP
      <4> SUFFICES ASSUME BarTouch(c) = STOP
                   PROVE  FALSE
        OBVIOUS
      <4>1. b.at < c.at
        BY <1>3, <3>1 DEF Stops
      <4> QED
        BY <1>1, <1>5, <2>3, <4>1
    <3>4. BarTouch(c) \in TargetsOf /\ Shows(c, BarTouch(c))
      BY <1>1, <3>2, <3>3, BarTouchFacts DEF Walked
    <3>5. Touched(BarTouch(c)) /\ touchedAt[BarTouch(c)] <= c.at
      BY <1>1, <1>2, <3>4 DEF TouchesAreShown
    <3> QED
      BY <2>1, <3>4, <3>5
  <2> QED
    BY <1>1, <1>5, <2>2, <2>3
<1> QED
  BY <1>6, <1>8 DEF d

\* The bars that came later give the verdict again, or a deeper win.
LEMMA VerdictIsUpheld ==
  ASSUME TradeIInv
  PROVE  VerdictHolds
<1>1. plan \in Plans /\ VerdictStands /\ verdict \in {Open, Missed, Loss} \cup Wins
  BY DEF TradeIInv, TradeTypeOK
<1>2. verdict = Loss => Walk(Relevant) = STOP
  BY <1>1, FirstTouchFacts DEF VerdictStands
<1>3. verdict \in Wins => Walk(Relevant) >= Depth(verdict)
  <2> SUFFICES ASSUME verdict \in Wins
               PROVE  Walk(Relevant) >= Depth(verdict)
    OBVIOUS
  <2>1. Depth(verdict) \in Banked(Relevant) /\ Depth(verdict) <= Walk(Relevant)
    BY <1>1, FirstTouchFacts DEF VerdictStands
  <2>2. Depth(verdict) \in Int /\ Walk(Relevant) \in Int
    BY <1>1, <2>1, FirstTouchFacts, BankedFacts, PlanFacts DEF Walked
  <2> QED
    BY <2>1, <2>2
<1>4. Loss \notin Wins
  BY <1>1, DepthOfWin
<1> QED
  BY <1>1, <1>2, <1>3, <1>4 DEF VerdictHolds

\* What the monitor says of a trade is what the price did, for every plan, range of
\* prices and time to live, and however late the monitor looks.
THEOREM TradeIsJudgedRight == TradeSpec => []TradeSafe
<1>1. TradeIInv => TradeSafe
  BY LossIsFirst, WinWasReal, VerdictIsUpheld DEF TradeSafe, TradeIInv
<1> QED
  BY <1>1, TradeInvariant, PTL

-----------------------------------------------------------------------------
(* The tracker: the invariant. *)

Results == [label : Outcomes \cup {"NONE"}, bar : Int]

Rows == [created : Minutes, outcome : Results]

DayTypes ==
  /\ minute \in Minutes
  /\ tape \in [0..(minute - 1) -> {Flat} \cup TouchingBars]
  /\ late \subseteq 0..(minute - 1) /\ bars \subseteq 0..(minute - 1)
  /\ signals \in Seq(Rows) /\ Len(signals) <= MaxSignals
  /\ polled \in BOOLEAN /\ lastRecap \in BOOLEAN
  /\ recaps \in Nat /\ dayFaults \in 0..MaxDayFaults

\* What is not written by the end of the next minute is late.
BarsInTime == \A m \in DOMAIN tape : m < minute - 1 => m \in bars \cup late

CreatedInOrder ==
  \A i \in DOMAIN signals :
    /\ signals[i].created <= minute
    /\ \A j \in DOMAIN signals : i <= j => signals[i].created <= signals[j].created

\* Whatever result a row has, or is about to get, the tape bears it out.
BorneOut(i, result) ==
  /\ result \in Results
  /\ result.label \in {"TARGET_HIT", "STOP_HIT"} =>
       /\ result.bar \in bars
       /\ late = {} => \A m \in DOMAIN tape :
            signals[i].created < m /\ m < result.bar => tape[m] = Flat
  /\ result.label = "EXPIRED" =>
       /\ signals[i].created + SignalTTL <= minute
       /\ late = {} => \A m \in DOMAIN tape :
            signals[i].created < m /\ m < signals[i].created + SignalTTL - 1 => tape[m] = Flat

ResultsBorneOut == \A i \in DOMAIN signals : BorneOut(i, signals[i].outcome)

AheadOf(i, rows) == {j \in rows : j < i}

\* A cycle holds rows that are still untracked, ends in the minute it began in, and
\* passes over an older row only for FetchLimit rows in front of it.
CycleHolds ==
  /\ cycle = [step |-> cycle.step, now |-> cycle.now, rows |-> cycle.rows,
              updates |-> cycle.updates]
  /\ cycle.step \in {"asleep", "fetched", "walked"}
  /\ cycle.step = "asleep" => cycle = NoCycle
  /\ cycle.step # "asleep" =>
       /\ ~polled /\ IsMarketHours /\ cycle.now = minute
       /\ cycle.rows \subseteq Untracked(minute - Lookback)
       /\ Cardinality(cycle.rows) <= FetchLimit
       /\ \A i \in Untracked(minute - Lookback) \ cycle.rows :
            signals[i].created < minute => Cardinality(AheadOf(i, cycle.rows)) >= FetchLimit
  /\ cycle.step = "walked" =>
       \A i \in cycle.rows :
         /\ BorneOut(i, cycle.updates[i])
         /\ signals[i].created + SignalTTL <= minute => cycle.updates[i] # NoOutcome

Ahead(i) == Cardinality(AheadOf(i, Untracked(minute - Lookback)))

\* The turn of the minute that is running.
Turn == IF polled THEN 1 ELSE 0

\* Every turn of the tracker since the row could have expired was a fault, or
\* FetchLimit of the rows in front of it went.
KeepsPace(i) ==
  (~IsTracked(i) /\ IsMarketHours /\ signals[i].created + SignalTTL <= minute
     /\ minute <= signals[i].created + Lookback) =>
    (Ahead(i) \div FetchLimit) + (minute - (signals[i].created + SignalTTL))
      + Turn <= ((i - 1) \div FetchLimit) + dayFaults

\* A row that fell out of the query has cost more than the margin.
FellOutForCause(i) ==
  (~IsTracked(i) /\ signals[i].created + Lookback < minute
     /\ signals[i].created + Lookback <= Close + CloseGrace) =>
    Lookback - SignalTTL < ((i - 1) \div FetchLimit) + dayFaults

RecapsCounted == recaps <= dayFaults + (IF lastRecap THEN 1 ELSE 0)

RowsKeepPace == \A i \in DOMAIN signals : KeepsPace(i) /\ FellOutForCause(i)

DayIInv ==
  /\ DayTypes /\ BarsInTime /\ CreatedInOrder /\ ResultsBorneOut
  /\ CycleHolds /\ RowsKeepPace /\ RecapsCounted

LEMMA RowFacts ==
  ASSUME DayTypes
  PROVE  /\ Len(signals) \in Nat /\ DOMAIN signals = 1..Len(signals)
         /\ \A i \in DOMAIN signals :
              /\ signals[i] \in Rows
              /\ signals[i].created \in Nat /\ i \in Nat \ {0}
         /\ minute \in Nat /\ DOMAIN tape = 0..(minute - 1)
<1>1. LastMinute \in Nat /\ Minutes \subseteq Nat
  BY OutcomeAssumption DEF Minutes, LastMinute
<1>2. minute \in Nat /\ DOMAIN tape = 0..(minute - 1)
  BY <1>1 DEF DayTypes
<1>3. signals \in Seq(Rows)
  BY DEF DayTypes
<1>4. Len(signals) \in Nat /\ DOMAIN signals = 1..Len(signals)
  BY <1>3
<1>5. \A i \in DOMAIN signals : signals[i] \in Rows
  BY <1>3
<1>6. \A i \in DOMAIN signals : signals[i].created \in Nat
  BY <1>1, <1>5 DEF Rows
<1>7. \A i \in DOMAIN signals : i \in Nat \ {0}
  BY <1>4
<1> QED
  BY <1>2, <1>4, <1>5, <1>6, <1>7

\* Rows in front of a row: a finite set, smaller than its place.
LEMMA AheadFacts ==
  ASSUME NEW n \in Nat, NEW rows \in SUBSET (1..n), NEW i \in 1..n
  PROVE  /\ IsFiniteSet(AheadOf(i, rows)) /\ Cardinality(AheadOf(i, rows)) \in Nat
         /\ Cardinality(AheadOf(i, rows)) <= i - 1
<1>1. i - 1 \in Nat /\ i \in Nat
  OBVIOUS
<1>a. AheadOf(i, rows) \in SUBSET (1..(i - 1))
  <2>1. \A j \in AheadOf(i, rows) : j \in 1..n /\ j < i
    BY DEF AheadOf
  <2> QED
    BY <1>1, <2>1
<1>2. IsFiniteSet(1..(i - 1)) /\ Cardinality(1..(i - 1)) = i - 1
  BY <1>1, FS_Interval
<1>3. Cardinality(AheadOf(i, rows)) <= Cardinality(1..(i - 1))
  BY <1>a, <1>2, FS_Subset
<1> QED
  BY <1>1, <1>a, <1>2, <1>3, FinitePlaces

\* A subset has no more elements.
LEMMA FewerPlaces ==
  ASSUME NEW n \in Nat, NEW S \in SUBSET (1..n), NEW R \in SUBSET S
  PROVE  Cardinality(R) <= Cardinality(S) /\ Cardinality(R) \in Nat /\ Cardinality(S) \in Nat
<1>1. IsFiniteSet(S)
  BY FinitePlaces
<1>2. Cardinality(R) <= Cardinality(S)
  BY <1>1, FS_Subset
<1>3. R \in SUBSET (1..n)
  OBVIOUS
<1>4. Cardinality(R) \in Nat /\ Cardinality(S) \in Nat
  BY <1>3, FinitePlaces
<1> QED
  BY <1>2, <1>4

LEMMA BorneOutStays ==
  ASSUME DayTypes, bars \subseteq bars', late \subseteq late', minute' \in {minute, minute + 1},
         DOMAIN tape' = 0..(minute' - 1), \A m \in DOMAIN tape : tape'[m] = tape[m],
         NEW i \in DOMAIN signals, signals'[i].created = signals[i].created,
         NEW r, BorneOut(i, r)
  PROVE  BorneOut(i, r)'
<1>1. /\ signals[i].created \in Nat /\ minute \in Nat /\ DOMAIN tape = 0..(minute - 1)
      /\ bars \subseteq 0..(minute - 1) /\ SignalTTL \in Nat
  BY RowFacts, OutcomeAssumption DEF DayTypes
<1>2. late' = {} => late = {}
  OBVIOUS
<1>3. \A m \in DOMAIN tape' : m \in DOMAIN tape \/ m = minute
  BY <1>1
<1>4. CASE r.label = "EXPIRED"
  <2>1. signals[i].created + SignalTTL <= minute
    BY <1>4 DEF BorneOut
  <2> QED
    BY <1>1, <1>2, <1>3, <1>4, <2>1 DEF BorneOut
<1>5. CASE r.label \in {"TARGET_HIT", "STOP_HIT"}
  <2>0. r.bar \in bars
    BY <1>5 DEF BorneOut
  <2>a. r.bar \in 0..(minute - 1) /\ r.bar \in bars'
    BY <1>1, <2>0
  <2>b. r.bar \in Nat /\ r.bar < minute
    BY <1>1, <2>a
  <2>1. r.bar \in bars /\ r.bar \in bars' /\ r.bar \in Nat /\ r.bar < minute
    BY <2>0, <2>a, <2>b
  <2>2. r.label # "EXPIRED" /\ r \in Results
    BY <1>5 DEF BorneOut
  <2>3. late' = {} => \A m \in DOMAIN tape' :
          signals'[i].created < m /\ m < r.bar => tape'[m] = Flat
    BY <1>1, <1>2, <1>3, <1>5, <2>1 DEF BorneOut
  <2> QED
    BY <2>1, <2>2, <2>3 DEF BorneOut
<1>6. CASE r.label \notin {"TARGET_HIT", "STOP_HIT", "EXPIRED"}
  BY <1>6 DEF BorneOut
<1> QED
  BY <1>4, <1>5, <1>6

LEMMA InitDay == OutcomeInit => DayIInv
<1> SUFFICES ASSUME OutcomeInit
             PROVE  DayIInv
  OBVIOUS
<1> USE DEF OutcomeInit
<1>1. tape \in [0..(minute - 1) -> {Flat} \cup TouchingBars]
  <2>1. 0..(0 - 1) = {}
    OBVIOUS
  <2>2. DOMAIN tape = {}
    OBVIOUS
  <2> QED
    BY <2>1, <2>2
<1>3. DOMAIN signals = {} /\ Len(signals) = 0
  OBVIOUS
<1>2. DayTypes
  <2>1. minute \in Minutes /\ MaxSignals \in Nat /\ MaxDayFaults \in Nat
    BY OutcomeAssumption DEF Minutes, LastMinute
  <2>2. signals \in Seq(Rows)
    OBVIOUS
  <2>3. Len(signals) <= MaxSignals
    BY <1>3, <2>1
  <2>4. dayFaults \in 0..MaxDayFaults
    BY <2>1
  <2> QED
    BY <1>1, <2>1, <2>2, <2>3, <2>4 DEF DayTypes
<1>4. CycleHolds
  BY DEF CycleHolds, NoCycle
<1>5. DOMAIN tape = {}
  OBVIOUS
<1> QED
  BY <1>2, <1>3, <1>4, <1>5 DEF DayIInv, BarsInTime, CreatedInOrder, ResultsBorneOut, RowsKeepPace,
     RecapsCounted

\* How far a row is behind, in whole queries.
LEMMA AheadType ==
  ASSUME DayTypes, NEW i \in DOMAIN signals
  PROVE  /\ Untracked(minute - Lookback) \in SUBSET (1..Len(signals))
         /\ Ahead(i) \in Nat /\ Ahead(i) <= i - 1 /\ i - 1 \in Nat
         /\ Ahead(i) \div FetchLimit \in Nat /\ (i - 1) \div FetchLimit \in Nat
<1>1. Untracked(minute - Lookback) \in SUBSET (1..Len(signals))
  BY RowFacts DEF Untracked
<1>2. i \in 1..Len(signals) /\ Len(signals) \in Nat
  BY RowFacts
<1>3. Ahead(i) \in Nat /\ Ahead(i) <= i - 1
  BY <1>1, <1>2, AheadFacts DEF Ahead
<1>4. i - 1 \in Nat
  BY <1>2
<1> QED
  BY <1>1, <1>3, <1>4, DivType, OutcomeAssumption

LEMMA MinutePassesKeeps ==
  ASSUME DayIInv, MinutePasses
  PROVE  DayIInv'
<1> USE DEF DayIInv
<1>1. /\ minute \in Nat /\ minute' = minute + 1 /\ minute < LastMinute /\ LastMinute = Close + CloseGrace + 1
      /\ Close \in Nat /\ CloseGrace \in Nat /\ Lookback \in Nat /\ SignalTTL \in Nat \ {0}
      /\ SignalTTL < Lookback /\ FetchLimit \in Nat \ {0} /\ DOMAIN tape = 0..(minute - 1)
  BY RowFacts, OutcomeAssumption DEF MinutePasses, LastMinute
<1>2. IsMarketHours /\ polled /\ polled' = FALSE /\ cycle.step = "asleep"
  BY <1>1 DEF MinutePasses, IsMarketHours, CycleHolds
<1>a. Turn = 1 /\ Turn' = 0
  BY <1>2 DEF Turn
<1>3. /\ late' = late /\ bars' = bars /\ signals' = signals /\ cycle' = cycle
      /\ lastRecap' = lastRecap /\ recaps' = recaps /\ dayFaults' = dayFaults
  BY DEF MinutePasses
<1>4. PICK bar \in {Flat} \cup TouchingBars :
        tape' = [m \in DOMAIN tape \cup {minute} |-> IF m = minute THEN bar ELSE tape[m]]
  <2>1. \A S : {Flat} \cup (IF S THEN TouchingBars ELSE {}) \subseteq {Flat} \cup TouchingBars
    OBVIOUS
  <2> QED
    BY <2>1 DEF MinutePasses
<1>5. DOMAIN tape \cup {minute} = 0..minute /\ minute' - 1 = minute
  BY <1>1
<1>6. /\ DOMAIN tape' = 0..(minute' - 1)
      /\ \A m \in DOMAIN tape : tape'[m] = tape[m]
  BY <1>1, <1>4, <1>5
<1>7. DayTypes'
  <2>1. minute' \in Minutes
    BY <1>1 DEF Minutes
  <2>2. tape' \in [0..(minute' - 1) -> {Flat} \cup TouchingBars]
    <3>1. \A m \in DOMAIN tape : tape[m] \in {Flat} \cup TouchingBars
      BY DEF DayTypes
    <3> QED
      BY <1>4, <1>5, <3>1
  <2>3. 0..(minute - 1) \subseteq 0..(minute' - 1)
    BY <1>1
  <2>4. late' \subseteq 0..(minute' - 1) /\ bars' \subseteq 0..(minute' - 1)
    BY <1>3, <2>3 DEF DayTypes
  <2> HIDE <1>1
  <2> QED
    BY <1>2, <1>3, <2>1, <2>2, <2>4 DEF DayTypes
<1>8. BarsInTime'
  <2>1. \A m \in DOMAIN tape : m \in bars \cup late
    BY DEF MinutePasses
  <2>2. \A m \in DOMAIN tape' : m < minute' - 1 => m \in DOMAIN tape
    BY <1>1, <1>5, <1>6
  <2> QED
    BY <1>3, <2>1, <2>2 DEF BarsInTime
<1>9. CreatedInOrder'
  BY <1>1, <1>3, RowFacts DEF CreatedInOrder
<1>10. ResultsBorneOut'
  BY <1>1, <1>3, <1>6, BorneOutStays DEF ResultsBorneOut
<1>11. CycleHolds'
  BY <1>2, <1>3 DEF CycleHolds
<1>12. RecapsCounted'
  BY <1>3 DEF RecapsCounted
<1>13. ASSUME NEW i \in DOMAIN signals
       PROVE  KeepsPace(i)' /\ FellOutForCause(i)'
  <2> DEFINE a == Ahead(i) \div FetchLimit
             b == Ahead(i)' \div FetchLimit
             c == (i - 1) \div FetchLimit
             t == signals[i].created
  <2>1. a \in Nat /\ c \in Nat /\ t \in Nat /\ dayFaults \in Nat
    <3>1. FetchLimit \in Nat \ {0} /\ MaxDayFaults \in Nat
      BY OutcomeAssumption
    <3>2. Ahead(i) \in Nat /\ i - 1 \in Nat
      BY AheadType
    <3>3. a \in Nat /\ c \in Nat
      BY <3>1, <3>2, DivType
    <3>4. t \in Nat
      BY RowFacts
    <3>5. dayFaults \in Nat
      BY <3>1 DEF DayTypes
    <3> QED
      BY <3>3, <3>4, <3>5
  <2>3. Ahead(i)' <= Ahead(i) /\ Ahead(i)' \in Nat
    <3>1. AheadOf(i, Untracked(minute - Lookback))' \subseteq AheadOf(i, Untracked(minute - Lookback))
      BY <1>1, <1>3, RowFacts DEF AheadOf, Untracked, IsTracked
    <3>2. AheadOf(i, Untracked(minute - Lookback)) \in SUBSET (1..Len(signals)) /\ Len(signals) \in Nat
      BY AheadType, RowFacts DEF AheadOf
    <3> QED
      BY <3>1, <3>2, FewerPlaces DEF Ahead
  <2>2. /\ Ahead(i)' \in Nat /\ Ahead(i)' <= i - 1 /\ Ahead(i)' \div FetchLimit \in Nat
    <3>1. Ahead(i)' \in Nat /\ Ahead(i)' <= Ahead(i)
      BY <2>3
    <3>2. Ahead(i) \in Nat /\ Ahead(i) <= i - 1 /\ i - 1 \in Nat
      BY AheadType
    <3>3. Ahead(i)' <= i - 1
      BY <3>1, <3>2
    <3> QED
      BY <1>1, <3>1, <3>3, DivType
  <2>4. b <= a /\ b <= c
    BY <1>1, <2>2, <2>3, AheadType, DivMonotone
  <2>5. KeepsPace(i) /\ FellOutForCause(i)
    BY DEF RowsKeepPace
  <2>6. IsTracked(i)' = IsTracked(i) /\ signals'[i].created = t
    BY <1>3 DEF IsTracked
  <2>7. KeepsPace(i)'
    <3> SUFFICES ASSUME ~IsTracked(i), IsMarketHours', t + SignalTTL <= minute', minute' <= t + Lookback
                 PROVE  b + (minute' - (t + SignalTTL)) <= c + dayFaults
      <4>1. Turn' = 0 /\ dayFaults' = dayFaults /\ Len(signals') = Len(signals)
        BY <1>a, <1>3 DEF Turn
      <4>2. b + (minute' - (t + SignalTTL)) + 0 = b + (minute' - (t + SignalTTL))
        BY <1>1, <2>1, <2>2
      <4> HIDE DEF a, b, c, t
      <4> QED
        BY <2>6, <4>1, <4>2 DEF KeepsPace, b, c, t
    <3>1. CASE t + SignalTTL <= minute
      <4>1. a + (minute - (t + SignalTTL)) + 1 <= c + dayFaults
        BY <1>1, <1>2, <1>a, <2>1, <2>5, <3>1 DEF KeepsPace
      <4> HIDE DEF a, b, c, t
      <4> QED
        BY <1>1, <2>1, <2>2, <2>4, <4>1 DEF b
    <3>2. CASE minute < t + SignalTTL
      <4> HIDE DEF a, c, t
      <4>1. b \in Nat
        BY <2>2
      <4> HIDE DEF b
      <4> QED
        BY <1>1, <2>1, <2>4, <3>2, <4>1
    <3> QED
      BY <1>1, <2>1, <3>1, <3>2
  <2>8. FellOutForCause(i)'
    <3> SUFFICES ASSUME ~IsTracked(i), t + Lookback < minute', t + Lookback <= Close + CloseGrace
                 PROVE  Lookback - SignalTTL < c + dayFaults
      BY <1>3, <2>6 DEF FellOutForCause
    <3>1. CASE t + Lookback < minute
      BY <2>5, <3>1 DEF FellOutForCause
    <3>2. CASE t + Lookback = minute
      <4>1. a + (minute - (t + SignalTTL)) + 1 <= c + dayFaults
        <5>1. t + SignalTTL <= minute
          BY <1>1, <2>1, <3>2
        <5> QED
          BY <1>1, <1>2, <1>a, <2>1, <2>5, <3>2, <5>1 DEF KeepsPace
      <4> HIDE DEF a, c, t
      <4> QED
        BY <1>1, <2>1, <3>2, <4>1
    <3>3. t + Lookback < minute \/ t + Lookback = minute
      <4> HIDE DEF t
      <4> QED
        BY <1>1, <2>1
    <3> QED
      BY <3>1, <3>2, <3>3
  <2> QED
    BY <2>7, <2>8
<1>14. RowsKeepPace'
  BY <1>3, <1>13 DEF RowsKeepPace
<1> QED
  BY <1>7, <1>8, <1>9, <1>10, <1>11, <1>12, <1>14

\* Time stands still and so do the rows: what they may be behind is what faults
\* have cost.
LEMMA PaceStays ==
  ASSUME DayTypes, RowsKeepPace, minute' = minute, signals' = signals,
         \/ dayFaults' = dayFaults /\ Turn' = Turn
         \/ dayFaults' = dayFaults + 1
  PROVE  RowsKeepPace'
<1> SUFFICES ASSUME NEW i \in DOMAIN signals
             PROVE  KeepsPace(i)' /\ FellOutForCause(i)'
  BY DEF RowsKeepPace
<1> DEFINE a == Ahead(i) \div FetchLimit
           c == (i - 1) \div FetchLimit
           t == signals[i].created
<1>1. /\ a \in Nat /\ c \in Nat /\ t \in Nat /\ dayFaults \in Nat /\ minute \in Nat
      /\ SignalTTL \in Nat /\ Lookback \in Nat
  <2>1. a \in Nat /\ c \in Nat
    BY AheadType
  <2>2. t \in Nat /\ minute \in Nat
    BY RowFacts
  <2>3. SignalTTL \in Nat /\ Lookback \in Nat /\ MaxDayFaults \in Nat
    BY OutcomeAssumption
  <2>4. dayFaults \in Nat
    BY <2>3 DEF DayTypes
  <2> QED
    BY <2>1, <2>2, <2>3, <2>4
<1>2. Ahead(i)' = Ahead(i) /\ IsTracked(i)' = IsTracked(i)
  BY DEF Ahead, AheadOf, Untracked, IsTracked
<1>3. KeepsPace(i) /\ FellOutForCause(i)
  BY DEF RowsKeepPace
<1>4. Turn \in 0..1 /\ Turn' \in 0..1
  BY DEF Turn
<1>5. KeepsPace(i)'
  <2> SUFFICES ASSUME ~IsTracked(i), IsMarketHours, t + SignalTTL <= minute,
                      minute <= t + Lookback
               PROVE  a + (minute - (t + SignalTTL)) + Turn' <= c + dayFaults'
    BY <1>1, <1>2 DEF KeepsPace, IsMarketHours
  <2>1. a + (minute - (t + SignalTTL)) + Turn <= c + dayFaults
    BY <1>1, <1>3 DEF KeepsPace
  <2> DEFINE u == Turn
             v == Turn'
             f == dayFaults
             g == dayFaults'
             d == minute - (t + SignalTTL)
  <2>2. /\ a \in Nat /\ c \in Nat /\ d \in Int /\ u \in Int /\ v \in Int /\ f \in Int /\ g \in Int
        /\ f + v <= g + u /\ a + d + u <= c + f
    <3>1. a \in Nat /\ c \in Nat /\ d \in Int
      BY <1>1
    <3>2. u \in 0..1 /\ v \in 0..1 /\ f \in Nat /\ ((g = f /\ v = u) \/ g = f + 1)
      BY <1>1, <1>4
    <3>3. u \in Int /\ v \in Int /\ f \in Int /\ g \in Int /\ f + v <= g + u
      <4> HIDE DEF u, v, f, g
      <4> QED
        BY <3>2
    <3> QED
      BY <2>1, <3>1, <3>2, <3>3
  <2> HIDE DEF a, c, t, u, v, f, g, d
  <2>3. a + d + v <= c + g
    BY <2>2
  <2> QED
    BY <2>3 DEF d, v, g
<1>6. FellOutForCause(i)'
  <2> SUFFICES ASSUME ~IsTracked(i), t + Lookback < minute, t + Lookback <= Close + CloseGrace
               PROVE  Lookback - SignalTTL < c + dayFaults'
    BY <1>1, <1>2 DEF FellOutForCause
  <2>1. Lookback - SignalTTL < c + dayFaults
    BY <1>1, <1>3 DEF FellOutForCause
  <2> DEFINE f == dayFaults
             g == dayFaults'
  <2>2. f \in Nat /\ (g = f \/ g = f + 1)
    BY <1>1
  <2> HIDE DEF c, f, g
  <2> QED
    BY <1>1, <2>1, <2>2 DEF f, g
<1> QED
  BY <1>5, <1>6

\* The query: at most FetchLimit rows, and who is passed over has as many in front.
LEMMA FetchFacts ==
  ASSUME DayTypes
  PROVE  LET rows == Untracked(minute - Lookback)
         IN  /\ Fetch \subseteq rows /\ Cardinality(Fetch) <= FetchLimit
             /\ \A i \in rows \ Fetch : Cardinality(AheadOf(i, Fetch)) >= FetchLimit
             /\ Fetch = {} => rows = {}
<1> DEFINE rows == Untracked(minute - Lookback)
<1>1. rows \in SUBSET (1..Len(signals)) /\ Len(signals) \in Nat /\ FetchLimit \in Nat \ {0}
  BY RowFacts, OutcomeAssumption DEF Untracked
<1>2. Fetch = {i \in rows : Cardinality(AheadOf(i, rows)) < FetchLimit}
  BY DEF Fetch, AheadOf
<1> HIDE DEF rows
<1>a. PICK n \in Nat : rows \in SUBSET (1..n)
  BY <1>1
<1>b. FetchLimit \in Nat \ {0}
  BY <1>1
<1>3. ASSUME NEW i \in rows \ Fetch
      PROVE  Cardinality(AheadOf(i, Fetch)) >= FetchLimit
  <2> DEFINE missed == rows \ Fetch
  <2>0. rows \in SUBSET Nat
    BY <1>a
  <2>1. missed \in SUBSET Nat /\ missed # {}
    BY <2>0
  <2>2. PICK k \in missed : \A y \in missed : k <= y
    <3> HIDE DEF missed
    <3> QED
      BY <2>1, LeastNatural
  <2>3. AheadOf(k, rows) \subseteq AheadOf(i, Fetch)
    <3>1. k <= i /\ k \in Nat /\ i \in Nat
      BY <2>1, <2>2
    <3>2. \A j \in rows : j < k => j \in Fetch /\ j < i
      BY <1>a, <1>b, <2>2, <3>1
    <3> QED
      BY <3>2 DEF AheadOf
  <2>4. AheadOf(i, Fetch) \in SUBSET (1..n)
    BY <1>a, <1>b, <1>2 DEF AheadOf
  <2>5. Cardinality(AheadOf(k, rows)) <= Cardinality(AheadOf(i, Fetch)) /\ Cardinality(AheadOf(k, rows)) \in Nat
        /\ Cardinality(AheadOf(i, Fetch)) \in Nat
    BY <1>a, <1>b, <2>3, <2>4, FewerPlaces
  <2>6. ~(Cardinality(AheadOf(k, rows)) < FetchLimit)
    BY <1>2, <2>2
  <2> QED
    BY <1>a, <1>b, <2>5, <2>6
<1>4. Cardinality(Fetch) <= FetchLimit
  <2>1. Fetch \in SUBSET (1..n)
    BY <1>a, <1>b, <1>2
  <2>2. Fetch \in SUBSET Int /\ IsFiniteSet(Fetch) /\ Cardinality(Fetch) \in Nat
    BY <1>a, <1>b, <2>1, FinitePlaces
  <2>3. CASE Fetch = {}
    BY <1>a, <1>b, <2>3, FS_EmptySet
  <2>4. CASE Fetch # {}
    <3>1. PICK x \in Fetch : \A y \in Fetch : y <= x
      BY <2>2, <2>4, GreatestInteger
    <3>2. Fetch \ {x} \subseteq AheadOf(x, rows)
      <4>1. \A y \in Fetch : y \in rows /\ y \in Int /\ x \in Int /\ y <= x
        BY <1>2, <2>2, <3>1
      <4>2. \A y \in Fetch \ {x} : y \in rows /\ y < x
        BY <4>1
      <4> QED
        BY <4>2 DEF AheadOf
    <3>3. AheadOf(x, rows) \in SUBSET (1..n)
      BY <1>a, <1>b DEF AheadOf
    <3>4. /\ Cardinality(Fetch \ {x}) <= Cardinality(AheadOf(x, rows))
          /\ Cardinality(Fetch \ {x}) \in Nat /\ Cardinality(AheadOf(x, rows)) \in Nat
      BY <1>a, <1>b, <3>2, <3>3, FewerPlaces
    <3>5. Cardinality(Fetch \ {x}) = Cardinality(Fetch) - 1
      BY <2>2, <3>1, FS_RemoveElement
    <3>6. Cardinality(AheadOf(x, rows)) < FetchLimit
      BY <1>2, <3>1
    <3> QED
      BY <1>a, <1>b, <2>2, <3>4, <3>5, <3>6
  <2> QED
    BY <2>3, <2>4
<1>5. ASSUME Fetch = {}
      PROVE  rows = {}
  <2> SUFFICES ASSUME NEW i \in rows
               PROVE  FALSE
    OBVIOUS
  <2>1. AheadOf(i, Fetch) = {}
    BY <1>5 DEF AheadOf
  <2>2. Cardinality(AheadOf(i, Fetch)) = 0
    BY <2>1, FS_EmptySet
  <2> QED
    BY <1>a, <1>b, <1>3, <1>5, <2>2
<1> QED
  BY <1>2, <1>3, <1>4, <1>5 DEF rows

\* As many recaps, and no day of a recap forgotten without a fault.
LEMMA RecapsStay ==
  ASSUME DayTypes, RecapsCounted, recaps' = recaps,
         \/ dayFaults' = dayFaults /\ lastRecap' = lastRecap
         \/ dayFaults' = dayFaults + 1
  PROVE  RecapsCounted'
<1> DEFINE f == dayFaults
           g == dayFaults'
           u == IF lastRecap THEN 1 ELSE 0
           v == IF lastRecap' THEN 1 ELSE 0
           n == recaps
<1>1. f \in Nat /\ n \in Nat /\ u \in 0..1 /\ v \in 0..1 /\ n <= f + u
  BY OutcomeAssumption DEF DayTypes, RecapsCounted
<1>2. (g = f /\ v = u) \/ g = f + 1
  OBVIOUS
<1>3. n <= g + v
  <2> HIDE DEF f, g, u, v, n
  <2> QED
    BY <1>1, <1>2
<1> QED
  BY <1>3 DEF RecapsCounted

\* A bar is written, or late.
LEMMA BarsKeep ==
  ASSUME DayIInv, BarWritten \/ BarIsLate
  PROVE  DayIInv'
<1> USE DEF DayIInv
<1>1. /\ minute' = minute /\ tape' = tape /\ signals' = signals /\ cycle' = cycle /\ polled' = polled
      /\ lastRecap' = lastRecap /\ recaps' = recaps
  BY DEF BarWritten, BarIsLate
<1>2. bars \subseteq bars' /\ late \subseteq late'
  BY DEF BarWritten, BarIsLate
<1>3. bars' \subseteq 0..(minute - 1) /\ late' \subseteq 0..(minute - 1)
  BY RowFacts DEF BarWritten, BarIsLate, DayTypes
<1>a. dayFaults' \in 0..MaxDayFaults
  BY OutcomeAssumption DEF BarWritten, BarIsLate, DayTypes
<1>4. dayFaults' = dayFaults \/ dayFaults' = dayFaults + 1
  BY DEF BarWritten, BarIsLate
<1>5. DayTypes'
  BY <1>1, <1>3, <1>a DEF DayTypes
<1>6. BarsInTime' /\ CreatedInOrder'
  BY <1>1, <1>2 DEF BarsInTime, CreatedInOrder
<1>7. ASSUME NEW i \in DOMAIN signals, NEW r, BorneOut(i, r)
      PROVE  BorneOut(i, r)'
  BY <1>1, <1>2, <1>7, RowFacts, BorneOutStays
<1>8. ResultsBorneOut'
  BY <1>1, <1>7 DEF ResultsBorneOut
<1>9. CycleHolds'
  <2>1. Untracked(minute - Lookback)' = Untracked(minute - Lookback) /\ IsMarketHours' = IsMarketHours
    BY <1>1 DEF Untracked, IsTracked, IsMarketHours
  <2>2. cycle.step = "walked" => \A i \in cycle.rows : BorneOut(i, cycle.updates[i])'
    <3>1. cycle.step = "walked" => cycle.rows \subseteq DOMAIN signals
      BY DEF CycleHolds, Untracked
    <3> QED
      BY <1>1, <1>7, <3>1 DEF CycleHolds, BorneOut
  <2> QED
    BY <1>1, <2>1, <2>2 DEF CycleHolds
<1>10. RowsKeepPace'
  <2>1. Turn' = Turn
    BY <1>1 DEF Turn
  <2> QED
    BY <1>1, <1>4, <2>1, PaceStays
<1>11. RecapsCounted'
  BY <1>1, <1>4, RecapsStay
<1> QED
  BY <1>5, <1>6, <1>8, <1>9, <1>10, <1>11

\* A bar touches a level exactly if it is not flat.
LEMMA TouchFacts ==
  ASSUME NEW bar \in {Flat} \cup TouchingBars
  PROVE  /\ FirstTouch(bar) \in {"TARGET_HIT", "STOP_HIT", "NONE"}
         /\ FirstTouch(bar) = "NONE" <=> bar = Flat
  BY DEF Flat, TouchingBars, FirstTouch, Distance, Stop, Entry, Target

\* What the walk of a row finds in the bars that are there.
LEMMA LadderWalkFacts ==
  ASSUME DayTypes, NEW i \in DOMAIN signals
  PROVE  /\ Touches(i) # {} =>
              /\ Min(Touches(i)) \in Since(i) /\ FirstTouch(tape[Min(Touches(i))]) # "NONE"
              /\ \A m \in Since(i) : m < Min(Touches(i)) => tape[m] = Flat
         /\ Touches(i) = {} => \A m \in Since(i) : tape[m] = Flat
         /\ Since(i) \subseteq DOMAIN tape
<1>1. Since(i) \in SUBSET Nat /\ Since(i) \subseteq DOMAIN tape
  <2>1. bars \subseteq 0..(minute - 1) /\ DOMAIN tape = 0..(minute - 1)
    BY DEF DayTypes
  <2>2. Since(i) \subseteq bars
    BY DEF Since
  <2>3. 0..(minute - 1) \subseteq Nat
    BY RowFacts
  <2>4. Since(i) \subseteq 0..(minute - 1)
    BY <2>1, <2>2
  <2> QED
    BY <2>1, <2>3, <2>4
<1>2. \A m \in Since(i) : tape[m] \in {Flat} \cup TouchingBars
  BY <1>1 DEF DayTypes
<1>3. ASSUME Touches(i) # {}
      PROVE  /\ Min(Touches(i)) \in Since(i) /\ FirstTouch(tape[Min(Touches(i))]) # "NONE"
             /\ \A m \in Since(i) : m < Min(Touches(i)) => tape[m] = Flat
  <2>1. Touches(i) \in SUBSET Nat
    BY <1>1 DEF Touches
  <2>2. Min(Touches(i)) \in Touches(i)
    BY <1>3, <2>1, LeastNatural
  <2> QED
    BY <1>2, <2>2, TouchFacts DEF Touches
<1>4. ASSUME Touches(i) = {}, NEW m \in Since(i), tape[m] # Flat
      PROVE  FALSE
  <2> DEFINE touching == {n \in Since(i) : FirstTouch(tape[n]) # "NONE"}
  <2>1. touching \in SUBSET Nat /\ touching # {}
    BY <1>1, <1>2, <1>4, TouchFacts
  <2>2. PICK k \in touching : \A y \in touching : k <= y
    <3> HIDE DEF touching
    <3> QED
      BY <2>1, LeastNatural
  <2>3. \A n \in Since(i) : n < k => FirstTouch(tape[n]) = "NONE"
    BY <1>1, <2>2
  <2>4. k \in Touches(i)
    BY <2>2, <2>3 DEF Touches
  <2> QED
    BY <1>4, <2>4
<1> QED
  BY <1>1, <1>3, <1>4

\* What a cycle decides for a row the tape bears out, and a row that is over is decided.
LEMMA ResolveFacts ==
  ASSUME DayTypes, BarsInTime, CreatedInOrder, cycle.now = minute, NEW i \in DOMAIN signals
  PROVE  /\ BorneOut(i, Resolve(i))
         /\ signals[i].created + SignalTTL <= minute => Resolve(i) # NoOutcome
<1> DEFINE t == signals[i].created
           b == Min(Touches(i))
<1>1. /\ t \in Nat /\ minute \in Nat /\ SignalTTL \in Nat /\ DOMAIN tape = 0..(minute - 1)
      /\ t <= minute
  BY RowFacts, OutcomeAssumption DEF CreatedInOrder
<1>2. IsOver(i) <=> t + SignalTTL <= minute
  BY <1>1 DEF IsOver
<1>3. ASSUME late = {}, NEW m \in DOMAIN tape, t < m, m < minute - 1
      PROVE  m \in Since(i)
  BY <1>3 DEF BarsInTime, Since
<1>4. CASE Touches(i) # {}
  <2>1. Resolve(i) = [label |-> FirstTouch(tape[b]), bar |-> b]
    BY <1>4 DEF Resolve
  <2>2. /\ b \in Since(i) /\ b \in DOMAIN tape /\ FirstTouch(tape[b]) # "NONE"
        /\ \A m \in Since(i) : m < b => tape[m] = Flat
    BY <1>4, LadderWalkFacts
  <2>3. tape[b] \in {Flat} \cup TouchingBars
    BY <2>2 DEF DayTypes
  <2>4. FirstTouch(tape[b]) \in {"TARGET_HIT", "STOP_HIT"}
    BY <2>2, <2>3, TouchFacts
  <2> HIDE DEF b
  <2>5. b \in bars /\ b \in Nat /\ b < minute
    <3>1. b \in bars /\ b \in 0..(minute - 1)
      BY <1>1, <2>2 DEF Since
    <3> QED
      BY <1>1, <3>1
  <2>6. ASSUME late = {}, NEW m \in DOMAIN tape, t < m, m < b
        PROVE  tape[m] = Flat
    <3>1. m < minute - 1 /\ m \in Int
      BY <1>1, <2>5, <2>6
    <3> QED
      BY <1>3, <2>2, <2>6, <3>1
  <2>7. Resolve(i) \in Results /\ Resolve(i).label # "EXPIRED" /\ Resolve(i) # NoOutcome
    BY <2>1, <2>4, <2>5 DEF Results, Outcomes, NoOutcome
  <2> QED
    BY <2>1, <2>5, <2>6, <2>7 DEF BorneOut
<1>5. CASE Touches(i) = {} /\ IsOver(i)
  <2>1. Resolve(i) = [label |-> "EXPIRED", bar |-> -1]
    BY <1>5 DEF Resolve
  <2>2. \A m \in Since(i) : tape[m] = Flat
    BY <1>5, LadderWalkFacts
  <2>3. ASSUME late = {}, NEW m \in DOMAIN tape, t < m, m < t + SignalTTL - 1
        PROVE  tape[m] = Flat
    <3>1. m < minute - 1 /\ m \in Int
      BY <1>1, <1>2, <1>5, <2>3
    <3> QED
      BY <1>3, <2>2, <2>3, <3>1
  <2>4. Resolve(i) \in Results /\ Resolve(i).label = "EXPIRED" /\ Resolve(i) # NoOutcome
    BY <2>1 DEF Results, Outcomes, NoOutcome
  <2> QED
    BY <1>2, <1>5, <2>3, <2>4 DEF BorneOut
<1>6. CASE Touches(i) = {} /\ ~IsOver(i)
  <2>1. Resolve(i) = NoOutcome
    BY <1>6 DEF Resolve
  <2>2. NoOutcome \in Results /\ NoOutcome.label = "NONE"
    BY DEF NoOutcome, Results
  <2> QED
    BY <1>2, <1>6, <2>1, <2>2 DEF BorneOut
<1> QED
  BY <1>4, <1>5, <1>6

\* Time, bars and rows stand still.
LEMMA DayStands ==
  ASSUME DayIInv, UNCHANGED <<market, signals>>
  PROVE  /\ BarsInTime' /\ CreatedInOrder' /\ ResultsBorneOut'
         /\ \A i \in DOMAIN signals : \A r : BorneOut(i, r) => BorneOut(i, r)'
         /\ Untracked(minute - Lookback)' = Untracked(minute - Lookback)
         /\ IsMarketHours' = IsMarketHours
  BY DEF DayIInv, market, BarsInTime, CreatedInOrder, ResultsBorneOut, BorneOut, Untracked,
     IsTracked, IsMarketHours

\* A cycle begins with the rows of the query.
LEMMA StartKeeps ==
  ASSUME DayIInv, StartCycle
  PROVE  DayIInv'
<1> USE DEF DayIInv
<1>1. /\ UNCHANGED <<market, signals>> /\ polled' = polled /\ lastRecap' = lastRecap
      /\ recaps' = recaps /\ dayFaults' = dayFaults /\ Turn' = Turn
  BY DEF StartCycle, Turn
<1>2. DayTypes'
  BY <1>1 DEF DayTypes, market
<1>3. CycleHolds'
  <2>1. /\ cycle'.step = "fetched" /\ cycle'.now = minute /\ cycle'.rows = Fetch
        /\ cycle' = [step |-> cycle'.step, now |-> cycle'.now, rows |-> cycle'.rows,
                     updates |-> cycle'.updates]
    BY DEF StartCycle, NoCycle
  <2>2. minute' = minute /\ signals' = signals /\ ~polled /\ IsMarketHours
    BY <1>1 DEF market, StartCycle
  <2> QED
    BY <1>1, <2>1, <2>2, FetchFacts, DayStands DEF CycleHolds
<1>4. RowsKeepPace' /\ RecapsCounted'
  BY <1>1, PaceStays, RecapsStay DEF market
<1> QED
  BY <1>1, <1>2, <1>3, <1>4, DayStands

\* The tracker has its turn, and finds nothing.
LEMMA NothingKeeps ==
  ASSUME DayIInv, NothingToTrack
  PROVE  DayIInv'
<1> USE DEF DayIInv
<1>1. /\ UNCHANGED <<market, signals>> /\ polled' = TRUE /\ lastRecap' = lastRecap
      /\ recaps' = recaps /\ dayFaults' = dayFaults /\ cycle' = cycle /\ cycle.step = "asleep"
      /\ minute' = minute /\ signals' = signals
  BY DEF NothingToTrack, market
<1>2. DayTypes'
  BY <1>1 DEF DayTypes, market
<1>3. CycleHolds'
  BY <1>1 DEF CycleHolds
<1>4. ASSUME NEW i \in DOMAIN signals
      PROVE  KeepsPace(i)' /\ FellOutForCause(i)'
  <2>1. FellOutForCause(i)'
    BY <1>1 DEF RowsKeepPace, FellOutForCause, IsTracked
  <2>2. ~IsMarketHours \/ Untracked(minute - Lookback) = {}
    BY FetchFacts DEF NothingToTrack
  <2>3. KeepsPace(i)'
    <3> SUFFICES ASSUME ~IsTracked(i), IsMarketHours, minute <= signals[i].created + Lookback
                 PROVE  FALSE
      BY <1>1 DEF KeepsPace, IsTracked, IsMarketHours
    <3>1. signals[i].created >= minute - Lookback
      BY RowFacts, OutcomeAssumption
    <3> QED
      BY <2>2, <3>1 DEF Untracked
  <2> QED
    BY <2>1, <2>3
<1>5. RowsKeepPace' /\ RecapsCounted'
  BY <1>1, <1>4, RecapsStay DEF RowsKeepPace
<1> QED
  BY <1>1, <1>2, <1>3, <1>5, DayStands

\* The walk: what is decided is borne out.
LEMMA WalkKeeps ==
  ASSUME DayIInv, WalkBars
  PROVE  DayIInv'
<1> USE DEF DayIInv
<1>1. /\ UNCHANGED <<market, signals>> /\ polled' = polled /\ lastRecap' = lastRecap
      /\ recaps' = recaps /\ dayFaults' = dayFaults /\ Turn' = Turn
      /\ minute' = minute /\ signals' = signals
  BY DEF WalkBars, Turn, market
<1>2. DayTypes'
  BY <1>1 DEF DayTypes, market
<1>3. CycleHolds'
  <2>1. /\ cycle'.step = "walked" /\ cycle'.now = cycle.now /\ cycle'.rows = cycle.rows
        /\ cycle'.updates = [i \in cycle.rows |-> Resolve(i)]
        /\ cycle' = [step |-> cycle'.step, now |-> cycle'.now, rows |-> cycle'.rows,
                     updates |-> cycle'.updates]
    BY DEF WalkBars, CycleHolds
  <2>2. cycle.step = "fetched" /\ cycle.now = minute /\ cycle.rows \subseteq DOMAIN signals
    BY DEF WalkBars, CycleHolds, Untracked
  <2>3. ASSUME NEW i \in cycle.rows
        PROVE  /\ BorneOut(i, cycle.updates[i])'
               /\ signals[i].created + SignalTTL <= minute => cycle'.updates[i] # NoOutcome
    <3>1. i \in DOMAIN signals /\ cycle'.updates[i] = Resolve(i)
      BY <2>1, <2>2
    <3> DEFINE r == Resolve(i)
    <3>2. BorneOut(i, r) /\ (signals[i].created + SignalTTL <= minute => r # NoOutcome)
      BY <2>2, <3>1, ResolveFacts
    <3> HIDE DEF r
    <3>3. cycle'.updates[i] = r
      BY <3>1 DEF r
    <3>4. BorneOut(i, cycle.updates[i])'
      BY <1>1, <3>2, <3>3 DEF BorneOut, market
    <3> QED
      BY <3>2, <3>3, <3>4
  <2> QED
    BY <1>1, <2>1, <2>2, <2>3, DayStands DEF CycleHolds
<1>4. RowsKeepPace' /\ RecapsCounted'
  BY <1>1, PaceStays, RecapsStay
<1> QED
  BY <1>1, <1>2, <1>3, <1>4, DayStands

\* A cycle that fails has cost a fault, and so has a restart.
LEMMA FailureKeeps ==
  ASSUME DayIInv, CycleFails \/ ArchiverRestarts
  PROVE  DayIInv'
<1> USE DEF DayIInv
<1>1. /\ UNCHANGED <<market, signals>> /\ recaps' = recaps /\ dayFaults' = dayFaults + 1
      /\ minute' = minute /\ signals' = signals /\ cycle' = NoCycle
  BY DEF CycleFails, ArchiverRestarts, EndCycle, market
<1>2. /\ polled' \in BOOLEAN /\ lastRecap' \in BOOLEAN
  BY DEF CycleFails, ArchiverRestarts, EndCycle, DayTypes
<1>3. DayTypes'
  <2>1. dayFaults' \in 0..MaxDayFaults
    BY OutcomeAssumption DEF CycleFails, ArchiverRestarts, DayTypes
  <2> QED
    BY <1>1, <1>2, <2>1 DEF DayTypes, market
<1>4. CycleHolds'
  BY <1>1 DEF CycleHolds, NoCycle
<1>5. RowsKeepPace' /\ RecapsCounted'
  BY <1>1, PaceStays, RecapsStay
<1> QED
  BY <1>1, <1>3, <1>4, <1>5, DayStands

\* The recap is published, and perhaps nobody learns of it.
LEMMA RecapKeeps ==
  ASSUME DayIInv, PublishRecap \/ RecapReplyLost
  PROVE  DayIInv'
<1> USE DEF DayIInv
<1>1. /\ UNCHANGED <<market, signals>> /\ recaps' = recaps + 1 /\ polled' = polled
      /\ minute' = minute /\ signals' = signals /\ cycle' = cycle /\ lastRecap = FALSE /\ Turn' = Turn
  BY DEF PublishRecap, RecapReplyLost, market, DayTypes, Turn
<1>2. \/ dayFaults' = dayFaults /\ lastRecap' = TRUE
      \/ dayFaults' = dayFaults + 1 /\ lastRecap' = FALSE
  BY <1>1 DEF PublishRecap, RecapReplyLost
<1>3. DayTypes'
  <2>1. dayFaults' \in 0..MaxDayFaults
    BY OutcomeAssumption DEF PublishRecap, RecapReplyLost, DayTypes
  <2>2. lastRecap' \in BOOLEAN
    BY <1>2
  <2>3. recaps \in Nat
    BY DEF DayTypes
  <2>4. recaps' \in Nat
    BY <1>1, <2>3
  <2> QED
    BY <1>1, <2>1, <2>2, <2>4 DEF DayTypes, market
<1>4. CycleHolds'
  <2>1. cycle.step = "walked" => \A i \in cycle.rows : BorneOut(i, cycle.updates[i])'
    <3>1. cycle.step = "walked" => cycle.rows \subseteq DOMAIN signals
      BY DEF CycleHolds, Untracked
    <3> QED
      BY <1>1, <3>1, DayStands DEF CycleHolds, BorneOut
  <2> QED
    BY <1>1, <2>1, DayStands DEF CycleHolds
<1>5. RowsKeepPace'
  BY <1>1, <1>2, PaceStays
<1>6. RecapsCounted'
  <2>1. recaps \in Nat /\ dayFaults \in Nat
    BY OutcomeAssumption DEF DayTypes
  <2>2. recaps <= dayFaults + 0
    BY <1>1, <2>1 DEF RecapsCounted
  <2>3. recaps + 1 <= dayFaults + 1
    BY <2>1, <2>2
  <2> QED
    BY <1>1, <1>2, <2>1, <2>3 DEF RecapsCounted
<1> QED
  BY <1>1, <1>3, <1>4, <1>5, <1>6, DayStands

\* A new row is the youngest, and not over.
LEMMA SignalKeeps ==
  ASSUME DayIInv, SignalFires
  PROVE  DayIInv'
<1> USE DEF DayIInv
<1> DEFINE n == Len(signals)
           row == [created |-> minute, outcome |-> NoOutcome]
<1>1. /\ UNCHANGED market /\ recaps' = recaps /\ dayFaults' = dayFaults /\ cycle' = cycle
      /\ polled' = polled /\ lastRecap' = lastRecap /\ minute' = minute /\ Turn' = Turn
      /\ tape' = tape /\ bars' = bars /\ late' = late
  BY DEF SignalFires, market, Turn
<1>2. row \in Rows
  BY DEF Rows, Results, NoOutcome, DayTypes
<1>3. /\ signals' \in Seq(Rows) /\ Len(signals') = n + 1
      /\ \A i \in 1..n : signals'[i] = signals[i]
      /\ signals'[n + 1] = row
  <2>1. signals \in Seq(Rows) /\ signals' = Append(signals, row)
    BY DEF DayTypes, SignalFires
  <2> HIDE DEF row
  <2> QED
    BY <1>2, <2>1, AppendProperties
<1>4. n \in Nat /\ DOMAIN signals = 1..n /\ DOMAIN signals' = 1..(n + 1)
  <2>1. n \in Nat /\ DOMAIN signals = 1..n
    BY RowFacts
  <2>2. DOMAIN signals' = 1..Len(signals')
    BY <1>3
  <2> QED
    BY <1>3, <2>1, <2>2
<1>5. n + 1 <= MaxSignals
  BY <1>4, OutcomeAssumption DEF SignalFires
<1>6. /\ minute \in Nat /\ SignalTTL \in Nat \ {0} /\ Lookback \in Nat /\ FetchLimit \in Nat
      /\ \A i \in DOMAIN signals : signals[i].created \in Nat /\ signals[i].created <= minute
  BY RowFacts, OutcomeAssumption DEF CreatedInOrder
<1> HIDE DEF n
<1>7. DayTypes'
  BY <1>1, <1>3, <1>5 DEF DayTypes
<1>8. BarsInTime' /\ RecapsCounted'
  BY <1>1 DEF BarsInTime, RecapsCounted
<1>a. \A i \in 1..(n + 1) : i = n + 1 \/ i \in 1..n
  BY <1>4
<1>b. row.created = minute /\ row.outcome = NoOutcome /\ n + 1 \notin 1..n /\ n + 1 \in 1..(n + 1)
      /\ \A i \in 1..n : i < n + 1 /\ i \in 1..(n + 1)
  BY <1>4
<1> HIDE DEF row
<1>9. CreatedInOrder'
  <2> SUFFICES ASSUME NEW i \in 1..(n + 1), NEW j \in 1..(n + 1)
               PROVE  /\ signals'[i].created <= minute
                      /\ i <= j => signals'[i].created <= signals'[j].created
    BY <1>1, <1>4 DEF CreatedInOrder
  <2>1. CASE i \in 1..n /\ j \in 1..n
    BY <1>3, <1>4, <2>1 DEF CreatedInOrder
  <2>2. CASE i \in 1..n /\ j = n + 1
    BY <1>3, <1>4, <1>6, <1>b, <2>2
  <2>3. CASE i = n + 1
    <3>1. i <= j => j = n + 1
      BY <1>4, <2>3
    <3> QED
      BY <1>3, <1>6, <1>b, <2>3, <3>1
  <2> QED
    BY <1>a, <2>1, <2>2, <2>3
<1>10. ASSUME NEW i \in DOMAIN signals, NEW r, BorneOut(i, r)
       PROVE  BorneOut(i, r)'
  BY <1>1, <1>3, <1>4, <1>10 DEF BorneOut
<1>11. ResultsBorneOut'
  <2> SUFFICES ASSUME NEW i \in 1..(n + 1)
               PROVE  BorneOut(i, signals[i].outcome)'
    BY <1>4 DEF ResultsBorneOut
  <2>1. CASE i \in 1..n
    <3>1. BorneOut(i, signals[i].outcome)
      BY <1>4, <2>1 DEF ResultsBorneOut
    <3> QED
      BY <1>1, <1>3, <1>4, <2>1, <3>1 DEF BorneOut
  <2>2. CASE i = n + 1
    <3>1. NoOutcome \in Results /\ NoOutcome.label = "NONE"
      BY DEF NoOutcome, Results
    <3> QED
      BY <1>3, <1>b, <2>2, <3>1 DEF BorneOut
  <2> QED
    BY <1>a, <2>1, <2>2
<1>12. Untracked(minute - Lookback)' = Untracked(minute - Lookback) \cup {n + 1}
  <2>1. Untracked(minute - Lookback)' =
          {i \in 1..(n + 1) : signals'[i].outcome = NoOutcome /\ signals'[i].created >= minute - Lookback}
    BY <1>1, <1>4 DEF Untracked, IsTracked
  <2>2. Untracked(minute - Lookback) =
          {i \in 1..n : signals[i].outcome = NoOutcome /\ signals[i].created >= minute - Lookback}
    BY <1>4 DEF Untracked, IsTracked
  <2>3. minute >= minute - Lookback
    BY <1>6
  <2> QED
    BY <1>3, <1>a, <1>b, <2>1, <2>2, <2>3
<1>13. CycleHolds'
  <2>1. cycle.rows \subseteq DOMAIN signals \/ cycle.rows = {}
    BY DEF CycleHolds, Untracked, NoCycle
  <2>2. \A i \in cycle.rows : signals'[i] = signals[i] /\ i \in DOMAIN signals
    BY <1>3, <1>4, <2>1
  <2>3. cycle.step = "walked" =>
          \A i \in cycle.rows :
            /\ BorneOut(i, cycle.updates[i])'
            /\ signals'[i].created + SignalTTL <= minute => cycle.updates[i] # NoOutcome
    BY <1>1, <1>10, <2>2 DEF CycleHolds, BorneOut
  <2>4. cycle.step # "asleep" =>
          \A i \in Untracked(minute - Lookback)' \ cycle.rows :
            signals'[i].created < minute => Cardinality(AheadOf(i, cycle.rows)) >= FetchLimit
    <3>1. \A i \in Untracked(minute - Lookback)' : signals'[i].created < minute =>
            i \in Untracked(minute - Lookback) /\ signals'[i] = signals[i]
      BY <1>3, <1>4, <1>6, <1>12, <1>b DEF Untracked
    <3> QED
      BY <3>1 DEF CycleHolds
  <2>5. IsMarketHours' = IsMarketHours
    BY <1>1 DEF IsMarketHours
  <2> QED
    BY <1>1, <1>12, <2>3, <2>4, <2>5 DEF CycleHolds
<1>14. ASSUME NEW i \in 1..(n + 1)
       PROVE  KeepsPace(i)' /\ FellOutForCause(i)'
  <2>1. CASE i \in 1..n
    <3>1. AheadOf(i, Untracked(minute - Lookback))' = AheadOf(i, Untracked(minute - Lookback))
      BY <1>4, <1>12, <2>1 DEF AheadOf
    <3>2. Ahead(i)' = Ahead(i) /\ IsTracked(i)' = IsTracked(i) /\ signals'[i] = signals[i]
          /\ IsMarketHours' = IsMarketHours
      BY <1>1, <1>3, <2>1, <3>1 DEF Ahead, IsTracked, IsMarketHours
    <3>3. KeepsPace(i) /\ FellOutForCause(i)
      BY <1>4, <2>1 DEF RowsKeepPace
    <3> QED
      BY <1>1, <3>2, <3>3 DEF KeepsPace, FellOutForCause
  <2>2. CASE i = n + 1
    <3>1. signals'[i].created = minute
      BY <1>3, <1>b, <2>2
    <3> QED
      BY <1>1, <1>6, <3>1 DEF KeepsPace, FellOutForCause
  <2> QED
    BY <1>a, <2>1, <2>2
<1>15. RowsKeepPace'
  BY <1>4, <1>14 DEF RowsKeepPace
<1> QED
  BY <1>7, <1>8, <1>9, <1>11, <1>13, <1>15

\* The results are written: every row of the cycle that was over is gone from the query.
LEMMA UpdateKeeps ==
  ASSUME DayIInv, UpdateOutcomes
  PROVE  DayIInv'
<1> USE DEF DayIInv
<1> DEFINE n == Len(signals)
           rows == cycle.rows
<1>1. /\ UNCHANGED market /\ recaps' = recaps /\ dayFaults' = dayFaults /\ cycle' = NoCycle
      /\ polled' = TRUE /\ lastRecap' = lastRecap /\ minute' = minute
      /\ tape' = tape /\ bars' = bars /\ late' = late
  BY DEF UpdateOutcomes, EndCycle, market
<1>2. /\ cycle.step = "walked" /\ ~polled /\ IsMarketHours /\ rows \subseteq Untracked(minute - Lookback)
      /\ \A i \in Untracked(minute - Lookback) \ rows :
           signals[i].created < minute => Cardinality(AheadOf(i, rows)) >= FetchLimit
      /\ \A i \in rows : /\ BorneOut(i, cycle.updates[i])
                         /\ signals[i].created + SignalTTL <= minute => cycle.updates[i] # NoOutcome
  BY DEF UpdateOutcomes, CycleHolds
<1>3. n \in Nat /\ DOMAIN signals = 1..n /\ rows \in SUBSET (1..n)
      /\ Untracked(minute - Lookback) \in SUBSET (1..n)
  BY <1>2, RowFacts, AheadType DEF Untracked
<1>4. /\ minute \in Nat /\ SignalTTL \in Nat \ {0} /\ Lookback \in Nat /\ FetchLimit \in Nat \ {0}
      /\ \A i \in DOMAIN signals : signals[i] \in Rows /\ signals[i].created \in Nat
      /\ dayFaults \in Nat
  BY RowFacts, OutcomeAssumption DEF DayTypes
<1>5. signals' = [i \in 1..n |->
        IF i \in rows THEN [signals[i] EXCEPT !.outcome = cycle.updates[i]] ELSE signals[i]]
  BY <1>3 DEF UpdateOutcomes
<1> HIDE DEF n, rows
<1>6. ASSUME NEW i \in 1..n
      PROVE  /\ signals'[i] \in Rows /\ signals'[i].created = signals[i].created
             /\ signals'[i].outcome = IF i \in rows THEN cycle.updates[i] ELSE signals[i].outcome
  <2>1. signals[i] \in Rows
    BY <1>3, <1>4
  <2>2. CASE i \in rows
    <3>1. cycle.updates[i] \in Results
      BY <1>2, <2>2 DEF BorneOut
    <3>2. signals'[i] = [signals[i] EXCEPT !.outcome = cycle.updates[i]]
      BY <1>5, <2>2
    <3> QED
      BY <2>1, <2>2, <3>1, <3>2 DEF Rows
  <2>3. CASE i \notin rows
    BY <1>5, <2>1, <2>3
  <2> QED
    BY <2>2, <2>3
<1>7. /\ signals' \in Seq(Rows) /\ Len(signals') = n /\ DOMAIN signals' = 1..n
  <2>1. signals' \in [1..n -> Rows]
    <3>1. DOMAIN signals' = 1..n
      BY <1>5
    <3>2. signals' = [i \in 1..n |-> signals'[i]]
      BY <1>5
    <3> QED
      BY <1>6, <3>1, <3>2
  <2>2. signals' \in Seq(Rows)
    BY <1>3, <2>1, SeqDef
  <2> QED
    BY <1>3, <2>1, <2>2, LenProperties
<1>8. DayTypes'
  BY <1>1, <1>7 DEF DayTypes, n
<1>9. BarsInTime' /\ RecapsCounted'
  BY <1>1 DEF BarsInTime, RecapsCounted
<1>10. CreatedInOrder'
  BY <1>1, <1>3, <1>6, <1>7 DEF CreatedInOrder
<1>11. ResultsBorneOut'
  <2> SUFFICES ASSUME NEW i \in 1..n
               PROVE  BorneOut(i, signals[i].outcome)'
    BY <1>7 DEF ResultsBorneOut
  <2> DEFINE r == IF i \in rows THEN cycle.updates[i] ELSE signals[i].outcome
  <2>1. BorneOut(i, r)
    BY <1>2, <1>3 DEF ResultsBorneOut, rows
  <2>2. signals'[i].outcome = r /\ signals'[i].created = signals[i].created
    BY <1>6
  <2> HIDE DEF r
  <2> QED
    BY <1>1, <2>1, <2>2 DEF BorneOut
<1>12. CycleHolds'
  BY <1>1 DEF CycleHolds, NoCycle
<1>13. ASSUME NEW i \in 1..n
       PROVE  KeepsPace(i)' /\ FellOutForCause(i)'
  <2> DEFINE t == signals[i].created
             U == Untracked(minute - Lookback)
             a == Ahead(i) \div FetchLimit
             b == Ahead(i)' \div FetchLimit
             c == (i - 1) \div FetchLimit
  <2>1. t \in Nat /\ signals'[i].created = t
    BY <1>3, <1>4, <1>6
  <2>2. ASSUME ~IsTracked(i)'
        PROVE  /\ ~IsTracked(i)
               /\ t + SignalTTL <= minute => i \notin rows
    <3>1. i \in rows => signals[i].outcome = NoOutcome
      BY <1>2 DEF Untracked, IsTracked
    <3>2. i \in rows /\ t + SignalTTL <= minute => cycle.updates[i] # NoOutcome
      BY <1>2
    <3> QED
      BY <1>6, <2>2, <3>1, <3>2 DEF IsTracked
  <2>3. FellOutForCause(i)'
    <3>1. FellOutForCause(i)
      BY <1>3 DEF RowsKeepPace
    <3> QED
      BY <1>1, <2>1, <2>2, <3>1 DEF FellOutForCause
  <2>4. ASSUME ~IsTracked(i)', t + SignalTTL <= minute, minute <= t + Lookback
        PROVE  b + (minute - (t + SignalTTL)) + 1 <= c + dayFaults
    <3>1. ~IsTracked(i) /\ i \notin rows /\ i \in DOMAIN signals
      BY <1>3, <2>2, <2>4
    <3>2. i \in U \ rows /\ t < minute
      <4>1. t >= minute - Lookback
        BY <1>4, <2>1, <2>4
      <4> QED
        BY <1>4, <2>1, <2>4, <3>1, <4>1 DEF Untracked
    <3>3. Cardinality(AheadOf(i, rows)) >= FetchLimit
      BY <1>2, <3>2
    <3> DEFINE A == AheadOf(i, U)
               G == AheadOf(i, rows)
    <3>4. A \in SUBSET (1..n) /\ G \subseteq A
      BY <1>2, <1>3 DEF AheadOf
    <3>5. AheadOf(i, Untracked(minute - Lookback))' \subseteq A \ G
      <4> SUFFICES ASSUME NEW j \in (Untracked(minute - Lookback))', j < i
                   PROVE  j \in A \ G
        BY DEF AheadOf
      <4>1. /\ j \in 1..n /\ signals'[j].outcome = NoOutcome
            /\ signals'[j].created >= minute - Lookback
        BY <1>1, <1>7 DEF Untracked, IsTracked
      <4>2. signals[j].created <= t /\ signals'[j].created = signals[j].created /\ signals[j].created \in Nat
        BY <1>3, <1>4, <1>6, <4>1 DEF CreatedInOrder
      <4>3. signals[j].created + SignalTTL <= minute
        BY <1>4, <2>1, <2>4, <4>2
      <4>4. j \notin rows
        BY <1>2, <1>6, <4>1, <4>3
      <4>5. signals[j].outcome = NoOutcome
        BY <1>6, <4>1, <4>4
      <4>6. j \in U
        BY <1>3, <4>1, <4>2, <4>5 DEF Untracked, IsTracked
      <4> QED
        BY <4>4, <4>6 DEF AheadOf
    <3>6. Cardinality(A \ G) = Cardinality(A) - Cardinality(G) /\ Cardinality(A) \in Nat
          /\ Cardinality(G) \in Nat
      <4>1. IsFiniteSet(A) /\ Cardinality(A) \in Nat
        BY <1>3, <3>4, FinitePlaces
      <4>2. IsFiniteSet(G) /\ Cardinality(G) \in Nat /\ A \cap G = G
        BY <1>3, <3>4, FinitePlaces
      <4> HIDE DEF A, G
      <4>3. Cardinality(A \ G) = Cardinality(A) - Cardinality(A \cap G)
        BY <4>1, FS_Difference
      <4> QED
        BY <4>1, <4>2, <4>3
    <3>7. /\ Ahead(i)' \in Nat /\ Ahead(i)' <= Cardinality(A \ G)
      <4>1. A \ G \in SUBSET (1..n)
        BY <3>4
      <4> HIDE DEF A, G
      <4> QED
        BY <1>3, <3>5, <4>1, FewerPlaces DEF Ahead
    <3>8. Ahead(i) = Cardinality(A)
      BY DEF Ahead
    <3>9. Ahead(i)' + FetchLimit <= Ahead(i) /\ Ahead(i) \in Nat
      <4> DEFINE x == Ahead(i)'
                 y == Cardinality(A \ G)
                 z == Cardinality(A)
                 g == Cardinality(G)
                 l == FetchLimit
      <4>1. x \in Nat /\ x <= y /\ y = z - g /\ z \in Nat /\ g \in Nat /\ g >= l /\ l \in Nat
        BY <1>4, <3>3, <3>6, <3>7
      <4> HIDE DEF x, y, z, g, l
      <4>2. x + l <= z
        BY <4>1
      <4> QED
        BY <3>8, <4>1, <4>2 DEF x, z, l
    <3>10. b + 1 <= a /\ a \in Nat /\ b \in Nat
      BY <1>4, <3>7, <3>9, DivOneLess, DivType
    <3>11. c \in Nat
      BY <3>1, AheadType
    <3>12. a + (minute - (t + SignalTTL)) + 0 <= c + dayFaults
      <4>1. KeepsPace(i) /\ Turn = 0
        BY <1>2, <3>1 DEF RowsKeepPace, Turn
      <4> QED
        BY <1>2, <2>1, <2>4, <3>1, <4>1 DEF KeepsPace
    <3> HIDE DEF a, b, c, t
    <3> QED
      BY <1>4, <2>1, <3>10, <3>11, <3>12
  <2>5. KeepsPace(i)'
    <3>1. Turn' = 1 /\ IsMarketHours' = IsMarketHours
      BY <1>1 DEF Turn, IsMarketHours
    <3> HIDE DEF t
    <3> QED
      BY <1>1, <2>1, <2>4, <3>1 DEF KeepsPace
  <2> QED
    BY <2>3, <2>5
<1>14. RowsKeepPace'
  BY <1>7, <1>13 DEF RowsKeepPace
<1> QED
  BY <1>8, <1>9, <1>10, <1>11, <1>12, <1>14

LEMMA DayStep == DayIInv /\ [OutcomeNext]_dayVars => DayIInv'
<1> SUFFICES ASSUME DayIInv, [OutcomeNext]_dayVars
             PROVE  DayIInv'
  OBVIOUS
<1>1. CASE TrackerStep
  BY <1>1, StartKeeps, NothingKeeps, WalkKeeps, UpdateKeeps DEF TrackerStep
<1>2. CASE UNCHANGED dayVars
  <2>1. UNCHANGED <<minute, tape, late, bars, signals, cycle, polled, lastRecap, recaps, dayFaults>>
    BY <1>2 DEF dayVars, market
  <2>2. CycleHolds' /\ RowsKeepPace'
    BY <2>1 DEF DayIInv, CycleHolds, RowsKeepPace, KeepsPace, FellOutForCause, Ahead, AheadOf, Turn,
       Untracked, IsTracked, IsMarketHours, BorneOut
  <2> QED
    BY <2>1, <2>2 DEF DayIInv, DayTypes, BarsInTime, CreatedInOrder, ResultsBorneOut, BorneOut,
       RecapsCounted
<1> QED
  BY <1>1, <1>2, MinutePassesKeeps, BarsKeep, SignalKeeps, FailureKeeps, RecapKeeps DEF OutcomeNext

\* The invariant of the archiver's day holds in every state: bars and rows are of their
\* time, rows are in the order of their creation, every decided row is borne out by the
\* bars its walk read, a row that the tracker still has to decide loses no place to the
\* rows ahead of it, and the recap counted what was decided.
THEOREM DayInvariant == OutcomeSpec => []DayIInv
<1> QED
  BY InitDay, DayStep, PTL DEF OutcomeSpec

\* While no bar came late, the tracker decides a row by the first bar after it that
\* touches a level, and gives up as expired only what no bar touched; no row falls out of
\* its query unresolved while failing cycles and the rows in front have not used up the
\* margin; and the recap is sent again only after a failure or a restart.
THEOREM OutcomesAreRight == OutcomeSpec => []OutcomeSafe
<1>1. ASSUME DayIInv
      PROVE  OutcomeSafe
  <2> USE <1>1 DEF DayIInv
  <2>1. ASSUME NEW i \in DOMAIN signals
        PROVE  BorneOut(i, signals[i].outcome)
    BY DEF ResultsBorneOut
  <2>2. DecidedByFirstTouch
    BY <2>1 DEF DecidedByFirstTouch, Decided, BorneOut
  <2>3. ExpiredUntouched
    BY <2>1 DEF ExpiredUntouched, BorneOut
  <2>4. NoneFallsOut
    <3> SUFFICES ASSUME NEW i \in DOMAIN signals, ~IsTracked(i),
                        dayFaults + (Len(signals) - 1) \div FetchLimit <= Lookback - SignalTTL,
                        signals[i].created + Lookback < minute,
                        signals[i].created + Lookback <= Close + CloseGrace
                 PROVE  FALSE
      BY DEF NoneFallsOut
    <3> DEFINE c == (i - 1) \div FetchLimit
               d == (Len(signals) - 1) \div FetchLimit
    <3>1. Lookback - SignalTTL < c + dayFaults
      BY DEF RowsKeepPace, FellOutForCause
    <3>2. i - 1 \in Nat /\ Len(signals) - 1 \in Nat /\ i - 1 <= Len(signals) - 1
      BY RowFacts
    <3>3. c <= d /\ c \in Nat /\ d \in Nat
      BY <3>2, DivMonotone, DivType, OutcomeAssumption
    <3>4. Lookback \in Nat /\ SignalTTL \in Nat /\ dayFaults \in Nat
      BY OutcomeAssumption DEF DayTypes
    <3> HIDE DEF c
    <3>5. dayFaults + d <= Lookback - SignalTTL
      OBVIOUS
    <3> HIDE DEF d
    <3> QED
      BY <3>1, <3>3, <3>4, <3>5
  <2>5. RecapPerFault
    BY OutcomeAssumption DEF RecapPerFault, RecapsCounted, DayTypes
  <2>6. OutcomeTypeOK
    <3>1. DOMAIN tape = {m \in Minutes : m < minute}
      BY RowFacts, OutcomeAssumption DEF DayTypes, Minutes, LastMinute
    <3>2. late \subseteq DOMAIN tape /\ bars \subseteq DOMAIN tape
      BY DEF DayTypes
    <3>3. ASSUME NEW i \in DOMAIN signals
          PROVE  /\ signals[i].created \in 0..minute
                 /\ signals[i].outcome.label \in Outcomes \cup {"NONE"}
                 /\ signals[i].outcome.label \in {"TARGET_HIT", "STOP_HIT"}
                      => signals[i].outcome.bar \in bars
      <4>1. signals[i].created \in 0..minute
        BY RowFacts DEF CreatedInOrder
      <4> QED
        BY <2>1, <4>1 DEF BorneOut, Results
    <3>4. cycle.rows \subseteq DOMAIN signals /\ Cardinality(cycle.rows) <= FetchLimit
      <4>1. CASE cycle.step = "asleep"
        <5>1. cycle.rows = {}
          BY <4>1 DEF CycleHolds, NoCycle
        <5>2. Cardinality(cycle.rows) = 0
          BY <5>1, FS_EmptySet
        <5>3. FetchLimit \in Nat
          BY OutcomeAssumption
        <5> QED
          BY <5>1, <5>2, <5>3
      <4>2. CASE cycle.step # "asleep"
        BY <4>2 DEF CycleHolds, Untracked
      <4> QED
        BY <4>1, <4>2
    <3> QED
      BY <3>1, <3>2, <3>3, <3>4 DEF OutcomeTypeOK, DayTypes, CycleHolds
  <2> QED
    BY <2>2, <2>3, <2>4, <2>5, <2>6 DEF OutcomeSafe
<1> QED
  BY <1>1, DayInvariant, PTL

-----------------------------------------------------------------------------
(* The searches over a backtest run. *)

StoredRows == [score : Int, rejected : BOOLEAN, rank : Nat]

\* Survivors have a rank and only they; and for every survivor that was kept, one of
\* rank 1 and at least its score was.
Ranked(rows) ==
  /\ rows \subseteq StoredRows /\ IsFiniteSet(rows)
  /\ \A p \in rows : p.rank = Unranked <=> p.rejected
  /\ \A p \in rows : ~p.rejected => \E q \in rows : q.rank = 1 /\ p.score <= q.score

VisitStates ==
  [at : {"idle", "visiting", "searching", "summing"}]
    \cup [at : {"storing"}, found : {rows \in SUBSET StoredRows : Ranked(rows)}]

RunIInv ==
  /\ run \in {"none", "RUNNING", "DONE", "FAILED"}
  /\ simulated \in BOOLEAN /\ meta \in BOOLEAN
  /\ task \in {"none", "replaying", "closing", "failing", "ended"}
  /\ visit \in [Visitors -> VisitStates]
  /\ Ranked(profiles)
  /\ searches \in 0..MaxSearches /\ runFaults \in 0..MaxRunFaults
  /\ apiCrashes \in 0..MaxApiCrashes
  /\ task \in {"replaying", "closing", "failing"} => run = "RUNNING"
  /\ task = "closing" => simulated
  /\ run = "DONE" => simulated
  /\ SearchedIsDone
  /\ SummaryUnlessTorn

\* The order of the profiles of a search.
LEMMA BeforeFacts ==
  ASSUME NEW t \in Seq([score : Int, rejected : BOOLEAN])
  PROVE  /\ Len(t) \in Nat /\ DOMAIN t = 1..Len(t)
         /\ \A i \in DOMAIN t : t[i].score \in Int /\ t[i].rejected \in BOOLEAN /\ i \in Nat
         /\ \A i \in DOMAIN t : ~Before(t, i, i)
         /\ \A i, j, k \in DOMAIN t : Before(t, i, j) /\ Before(t, j, k) => Before(t, i, k)
         /\ \A i, j \in DOMAIN t : i # j => Before(t, i, j) \/ Before(t, j, i)
<1> DEFINE Entries == [score : Int, rejected : BOOLEAN]
<1>1. t \in Seq(Entries)
  OBVIOUS
<1> HIDE DEF Entries
<1>2. Len(t) \in Nat /\ DOMAIN t = 1..Len(t) /\ \A i \in DOMAIN t : t[i] \in Entries
  BY <1>1
<1>3. \A i \in DOMAIN t : t[i].score \in Int /\ t[i].rejected \in BOOLEAN
  BY <1>2 DEF Entries
<1>4. \A i \in DOMAIN t : i \in Nat
  BY <1>2
<1>5. \A i \in DOMAIN t : ~Before(t, i, i)
  BY <1>3, <1>4 DEF Before
<1>6. \A i, j, k \in DOMAIN t : Before(t, i, j) /\ Before(t, j, k) => Before(t, i, k)
  BY <1>3, <1>4 DEF Before
<1>7. \A i, j \in DOMAIN t : i # j => Before(t, i, j) \/ Before(t, j, i)
  BY <1>3, <1>4 DEF Before
<1> QED
  BY <1>2, <1>3, <1>4, <1>5, <1>6, <1>7

\* Who is not behind another has no later place.
LEMMA PlaceFacts ==
  ASSUME NEW t \in Seq([score : Int, rejected : BOOLEAN]), NEW among \in SUBSET DOMAIN t,
         NEW i \in DOMAIN t
  PROVE  /\ Place(t, among, i) \in Nat \ {0}
         /\ (\A j \in among : ~Before(t, j, i)) => Place(t, among, i) = 1
         /\ \A k \in DOMAIN t : Before(t, k, i) => Place(t, among, k) <= Place(t, among, i)
<1> DEFINE Better(k) == {j \in among : Before(t, j, k)}
<1>1. PICK n \in Nat : DOMAIN t = 1..n
  BY BeforeFacts
<1>2. \A k \in DOMAIN t : Better(k) \in SUBSET (1..n)
  BY <1>1
<1>3. \A k \in DOMAIN t : IsFiniteSet(Better(k)) /\ Cardinality(Better(k)) \in Nat
  <2> HIDE DEF Better
  <2> QED
    BY <1>2, FinitePlaces
<1>4. Place(t, among, i) = Cardinality(Better(i)) + 1
  BY DEF Place
<1>5. ASSUME \A j \in among : ~Before(t, j, i)
      PROVE  Place(t, among, i) = 1
  <2>1. Better(i) = {}
    BY <1>5
  <2>2. Cardinality(Better(i)) = 0
    BY <2>1, FS_EmptySet
  <2> QED
    BY <1>4, <2>2
<1>6. ASSUME NEW k \in DOMAIN t, Before(t, k, i)
      PROVE  Place(t, among, k) <= Place(t, among, i)
  <2>1. Better(k) \subseteq Better(i)
    BY <1>6, BeforeFacts
  <2>2. Cardinality(Better(k)) <= Cardinality(Better(i))
    BY <1>3, <2>1, FS_Subset
  <2>3. Place(t, among, k) = Cardinality(Better(k)) + 1
    BY DEF Place
  <2> HIDE DEF Better
  <2> QED
    BY <1>3, <1>4, <2>2, <2>3
<1>7. Place(t, among, i) \in Nat \ {0}
  <2> HIDE DEF Better
  <2> QED
    BY <1>3, <1>4
<1> QED
  BY <1>5, <1>6, <1>7

\* The best of some profiles comes before all others of them.
LEMMA BestComesFirst ==
  ASSUME NEW t \in Seq([score : Int, rejected : BOOLEAN]), NEW among \in SUBSET DOMAIN t,
         among # {}
  PROVE  \E k \in among : \A j \in among : ~Before(t, j, k)
<1> DEFINE Bad == {S \in SUBSET among : S # {} /\ \A k \in S : \E j \in S : Before(t, j, k)}
           Good == (SUBSET among) \ Bad
<1>1. IsFiniteSet(among)
  BY BeforeFacts, FinitePlaces
<1>2. {} \in Good /\ Good \in SUBSET (SUBSET among)
  OBVIOUS
<1>3. ASSUME NEW S \in SUBSET among, S # {}, \A x \in S : S \ {x} \in Good
      PROVE  S \in Good
  <2>1. PICK a \in S : TRUE
    BY <1>3
  <2>2. CASE S \ {a} = {}
    <3>1. \A j \in S : ~Before(t, j, a)
      BY <2>1, <2>2, BeforeFacts
    <3> QED
      BY <2>1, <3>1
  <2>3. CASE S \ {a} # {}
    <3>1. PICK b \in S \ {a} : \A j \in S \ {a} : ~Before(t, j, b)
      BY <1>3, <2>1, <2>3
    <3>2. CASE Before(t, a, b)
      <4>1. \A j \in S : ~Before(t, j, a)
        BY <3>1, <3>2, BeforeFacts
      <4> QED
        BY <2>1, <4>1
    <3>3. CASE ~Before(t, a, b)
      <4>1. \A j \in S : ~Before(t, j, b)
        BY <3>1, <3>3
      <4> QED
        BY <3>1, <4>1
    <3> QED
      BY <3>2, <3>3
  <2> QED
    BY <2>2, <2>3
<1>4. among \in Good
  <2> HIDE DEF Good
  <2>1. \A s \in SUBSET among : s # {} /\ (\A x \in s : s \ {x} \in Good) => s \in Good
    BY <1>3
  <2>2. among \in SUBSET among
    OBVIOUS
  <2> QED
    BY <1>1, <1>2, <2>1, <2>2, SubsetInduction
<1> QED
  BY <1>4

\* What a search finds is ranked: if a survivor is kept, so is the first of them.
LEMMA CandidatesRanked ==
  ASSUME NEW t \in Tables
  PROVE  Candidates(t) \in SUBSET StoredRows /\ Ranked(Candidates(t))
<1> DEFINE row(i) == [score |-> t[i].score, rejected |-> t[i].rejected,
                      rank |-> IF t[i].rejected THEN Unranked ELSE Rank(t, i)]
<1>1. t \in Seq([score : Int, rejected : BOOLEAN])
  BY StructureRunsAssumption
<1>2. /\ KeptPlaces(t) \in SUBSET DOMAIN t /\ Survivors(t) \in SUBSET DOMAIN t
      /\ KeptProfiles \in Nat
  BY StructureRunsAssumption DEF KeptPlaces, Survivors
<1>3. Candidates(t) = {row(i) : i \in KeptPlaces(t)}
  BY DEF Candidates
<1>4. ASSUME NEW i \in DOMAIN t
      PROVE  Rank(t, i) \in Nat \ {0} /\ row(i) \in StoredRows
  <2>1. Rank(t, i) \in Nat \ {0}
    BY <1>1, <1>2, PlaceFacts DEF Rank
  <2>2. t[i].score \in Int /\ t[i].rejected \in BOOLEAN
    BY <1>1, BeforeFacts
  <2> QED
    BY <2>1, <2>2 DEF StoredRows, Unranked
<1>5. Candidates(t) \subseteq StoredRows
  <2> HIDE DEF row
  <2> QED
    BY <1>2, <1>3, <1>4
<1>6. IsFiniteSet(Candidates(t))
  <2>1. PICK n \in Nat : DOMAIN t = 1..n
    BY <1>1, BeforeFacts
  <2>2. KeptPlaces(t) \in SUBSET (1..n)
    BY <1>2, <2>1
  <2>3. IsFiniteSet(KeptPlaces(t))
    BY <2>2, FinitePlaces
  <2> DEFINE f == [i \in KeptPlaces(t) |-> row(i)]
  <2>4. IsFiniteSet({f[i] : i \in KeptPlaces(t)})
    <3> HIDE DEF f
    <3> QED
      BY <2>3, FiniteImage
  <2>5. Candidates(t) = {f[i] : i \in KeptPlaces(t)}
    BY <1>3
  <2> QED
    BY <2>4, <2>5
<1>7. \A p \in Candidates(t) : p.rank = Unranked <=> p.rejected
  <2> SUFFICES ASSUME NEW i \in KeptPlaces(t)
               PROVE  row(i).rank = Unranked <=> row(i).rejected
    BY <1>3
  <2>1. Rank(t, i) \in Nat \ {0} /\ t[i].rejected \in BOOLEAN
    BY <1>1, <1>2, <1>4, BeforeFacts
  <2> QED
    BY <2>1 DEF Unranked
<1>8. ASSUME NEW i \in KeptPlaces(t), ~t[i].rejected
      PROVE  \E k \in KeptPlaces(t) : /\ ~t[k].rejected /\ Rank(t, k) = 1
                                       /\ t[i].score <= t[k].score
  <2>1. i \in Survivors(t) /\ i \in DOMAIN t
    BY <1>2, <1>8 DEF Survivors
  <2>2. PICK k \in Survivors(t) : \A j \in Survivors(t) : ~Before(t, j, k)
    BY <1>1, <1>2, <2>1, BestComesFirst
  <2>3. k \in DOMAIN t /\ ~t[k].rejected
    BY <2>2 DEF Survivors
  <2>4. Rank(t, k) = 1
    BY <1>1, <1>2, <2>2, <2>3, PlaceFacts DEF Rank
  <2>5. k = i \/ Before(t, k, i)
    BY <1>1, <2>1, <2>2, <2>3, BeforeFacts
  <2>6. t[i].score <= t[k].score /\ t[i].score \in Int /\ t[k].score \in Int
    BY <1>1, <2>1, <2>3, <2>5, BeforeFacts DEF Before
  <2>7. k \in KeptPlaces(t)
    <3>1. DOMAIN t \in SUBSET DOMAIN t
      OBVIOUS
    <3>2. /\ Place(t, DOMAIN t, k) \in Nat /\ Place(t, DOMAIN t, i) \in Nat
          /\ k = i \/ Place(t, DOMAIN t, k) <= Place(t, DOMAIN t, i)
      BY <1>1, <2>1, <2>3, <2>5, <3>1, PlaceFacts
    <3>3. Place(t, DOMAIN t, i) <= KeptProfiles
      BY <1>8 DEF KeptPlaces
    <3> QED
      BY <1>2, <2>3, <3>2, <3>3 DEF KeptPlaces
  <2> QED
    BY <2>3, <2>4, <2>6, <2>7
<1>9. \A p \in Candidates(t) : ~p.rejected => \E q \in Candidates(t) : q.rank = 1 /\ p.score <= q.score
  <2> SUFFICES ASSUME NEW i \in KeptPlaces(t), ~t[i].rejected
               PROVE  \E q \in Candidates(t) : q.rank = 1 /\ t[i].score <= q.score
    BY <1>3
  <2>1. PICK k \in KeptPlaces(t) : /\ ~t[k].rejected /\ Rank(t, k) = 1
                                   /\ t[i].score <= t[k].score
    BY <1>8
  <2>2. row(k) \in Candidates(t) /\ row(k).rank = 1 /\ row(k).score = t[k].score
    BY <1>3, <2>1
  <2> HIDE DEF row
  <2> QED
    BY <2>1, <2>2
<1> QED
  BY <1>5, <1>6, <1>7, <1>9 DEF Ranked

\* Searches add up.
LEMMA RankedTogether ==
  ASSUME NEW R, NEW S, Ranked(R), Ranked(S)
  PROVE  Ranked(R \cup S)
<1>1. IsFiniteSet(R \cup S)
  BY FS_Union DEF Ranked
<1>2. R \cup S \subseteq StoredRows
  BY DEF Ranked
<1>3. \A p \in R \cup S : p.rank = Unranked <=> p.rejected
  BY DEF Ranked
<1>4. \A p \in R \cup S : ~p.rejected => \E q \in R \cup S : q.rank = 1 /\ p.score <= q.score
  BY DEF Ranked
<1> QED
  BY <1>1, <1>2, <1>3, <1>4 DEF Ranked

\* The cached answer is the best survivor of what is stored.
LEMMA CachedFacts ==
  ASSUME Ranked(profiles)
  PROVE  CachedIsBest
<1> DEFINE alive == {p \in profiles : ~p.rejected}
           first == {p \in profiles : p.rank = 1}
           cached == CachedRecommendation(profiles)
<1>1. /\ \A p \in profiles : p.score \in Int /\ p.rejected \in BOOLEAN /\ p.rank \in Nat
      /\ IsFiniteSet(profiles)
  BY DEF Ranked, StoredRows
<1>2. first \subseteq alive
  BY <1>1 DEF Ranked, Unranked
<1>3. \A p \in alive : \E q \in first : p.score <= q.score
  BY DEF Ranked
<1>4. cached = IF first = {} THEN NoProfile ELSE CHOOSE p \in first : \A q \in first : q.score <= p.score
  BY DEF CachedRecommendation
<1>5. CASE alive = {}
  <2>1. first = {}
    BY <1>2, <1>5
  <2> QED
    BY <1>4, <1>5, <2>1 DEF CachedIsBest
<1>6. CASE alive # {}
  <2>1. first # {}
    BY <1>3, <1>6
  <2>2. \E p \in first : \A q \in first : q.score <= p.score
    <3> DEFINE scores == {p.score : p \in first}
    <3>1. IsFiniteSet(first)
      <4>1. first \in SUBSET profiles
        OBVIOUS
      <4> HIDE DEF first
      <4> QED
        BY <1>1, <4>1, FS_Subset
    <3>2. IsFiniteSet(scores)
      <4> DEFINE f == [p \in first |-> p.score]
      <4>1. IsFiniteSet({f[p] : p \in first})
        <5> HIDE DEF f, first
        <5> QED
          BY <3>1, FiniteImage
      <4>2. scores = {f[p] : p \in first}
        OBVIOUS
      <4> QED
        BY <4>1, <4>2
    <3>3. scores \in SUBSET Int /\ scores # {}
      BY <1>1, <2>1
    <3>4. PICK m \in scores : \A y \in scores : y <= m
      <4> HIDE DEF scores
      <4> QED
        BY <3>2, <3>3, GreatestInteger
    <3>5. PICK p \in first : p.score = m
      OBVIOUS
    <3>6. \A q \in first : q.score \in scores
      OBVIOUS
    <3> HIDE DEF scores, first
    <3> QED
      BY <3>4, <3>5, <3>6
  <2>3. cached \in first /\ \A q \in first : q.score <= cached.score
    <3> HIDE DEF first, cached
    <3> QED
      BY <1>4, <2>1, <2>2
  <2>4. \A p \in alive : p.score <= cached.score
    <3> SUFFICES ASSUME NEW p \in alive
                 PROVE  p.score <= cached.score
      OBVIOUS
    <3>1. PICK q \in first : p.score <= q.score
      BY <1>3
    <3>2. q.score <= cached.score
      BY <2>3
    <3>3. p.score \in Int /\ q.score \in Int /\ cached.score \in Int
      BY <1>1, <2>3
    <3> HIDE DEF cached
    <3> QED
      BY <3>1, <3>2, <3>3
  <2> HIDE DEF cached
  <2> QED
    BY <1>2, <1>6, <2>3, <2>4 DEF CachedIsBest, cached
<1> QED
  BY <1>5, <1>6

LEMMA InitRun == RunInit => RunIInv
<1> SUFFICES ASSUME RunInit
             PROVE  RunIInv
  OBVIOUS
<1> USE DEF RunInit
<1>1. Ranked(profiles)
  BY FS_EmptySet DEF Ranked
<1>2. visit \in [Visitors -> VisitStates]
  BY DEF VisitStates, Nowhere
<1>3. searches \in 0..MaxSearches /\ runFaults \in 0..MaxRunFaults /\ apiCrashes \in 0..MaxApiCrashes
  BY StructureRunsAssumption
<1>4. SearchedIsDone /\ SummaryUnlessTorn
  BY DEF SearchedIsDone, SummaryUnlessTorn
<1> QED
  BY <1>1, <1>2, <1>3, <1>4 DEF RunIInv

\* The steps of the run and its task.
LEMMA TaskKeeps ==
  ASSUME RunIInv, CreateRun \/ TaskStep \/ TaskRaises \/ MarkFailedRaises
  PROVE  RunIInv'
<1> USE DEF RunIInv
<1>1. visit' = visit /\ profiles' = profiles /\ meta' = meta /\ searches' = searches
      /\ apiCrashes' = apiCrashes
  BY DEF CreateRun, TaskStep, PersistTrades, CloseRun, MarkFailed, TaskRaises, MarkFailedRaises,
     Fault, runCounts
<1>2. runFaults' \in 0..MaxRunFaults /\ (runFaults' = runFaults \/ runFaults' = runFaults + 1)
  BY StructureRunsAssumption DEF CreateRun, TaskStep, PersistTrades, CloseRun, MarkFailed, TaskRaises,
     MarkFailedRaises, Fault, runCounts
<1>3. /\ run' \in {"none", "RUNNING", "DONE", "FAILED"}
      /\ simulated' \in BOOLEAN
      /\ task' \in {"none", "replaying", "closing", "failing", "ended"}
      /\ task' \in {"replaying", "closing", "failing"} => run' = "RUNNING"
      /\ task' = "closing" => simulated'
      /\ run' = "DONE" => simulated'
      /\ run = "DONE" => run' = "DONE"
  BY DEF CreateRun, TaskStep, PersistTrades, CloseRun, MarkFailed, TaskRaises, MarkFailedRaises
<1>4. Ranked(profiles)' /\ visit' \in [Visitors -> VisitStates]
  BY <1>1
<1>5. SearchedIsDone'
  BY <1>1, <1>3 DEF SearchedIsDone
<1>6. SummaryUnlessTorn'
  <2>1. runFaults \in Nat /\ apiCrashes \in Nat
    BY StructureRunsAssumption
  <2>2. runFaults + apiCrashes > 0 => runFaults' + apiCrashes' > 0
    <3> DEFINE f == runFaults
               g == runFaults'
               c == apiCrashes
    <3>1. f \in Nat /\ c \in Nat /\ (g = f \/ g = f + 1) /\ apiCrashes' = c
      BY <1>1, <1>2, <2>1
    <3>2. f + c > 0 => g + c > 0
      <4> HIDE DEF f, g, c
      <4> QED
        BY <3>1
    <3> QED
      BY <3>1, <3>2
  <2> QED
    BY <1>1, <2>2 DEF SummaryUnlessTorn
<1> QED
  BY <1>1, <1>2, <1>3, <1>4, <1>5, <1>6

\* The steps of a visitor.
LEMMA VisitorKeeps ==
  ASSUME RunIInv, NEW v \in Visitors,
         Visit(v) \/ AnswerCached(v) \/ BeginSearch(v) \/ VisitStep(v) \/ VisitFails(v)
  PROVE  RunIInv'
<1> USE DEF RunIInv
<1>1. run' = run /\ simulated' = simulated /\ task' = task /\ apiCrashes' = apiCrashes
  BY DEF Visit, AnswerCached, BeginSearch, VisitStep, EndSearch, StoreProfiles, StoreMeta, VisitFails,
     Fault, runCounts
<1>2. visit[v] \in VisitStates /\ Nowhere \in VisitStates
  BY DEF VisitStates, Nowhere
<1>3. visit[v] # Nowhere => run = "DONE" /\ simulated
  BY DEF SearchedIsDone
<1>4. run = "DONE" /\ simulated
  <2>1. visit[v].at \in {"visiting", "searching", "storing", "summing"} => visit[v] # Nowhere
    BY DEF Nowhere
  <2> QED
    BY <1>3, <2>1 DEF Visit, AnswerCached, BeginSearch, VisitStep, EndSearch, StoreProfiles, StoreMeta,
       VisitFails
<1>5. SearchedIsDone'
  BY <1>1, <1>4 DEF SearchedIsDone
<1>6. searches' \in 0..MaxSearches /\ runFaults' \in 0..MaxRunFaults /\ apiCrashes' \in 0..MaxApiCrashes
  BY <1>1, StructureRunsAssumption DEF Visit, AnswerCached, BeginSearch, VisitStep, EndSearch,
     StoreProfiles, StoreMeta, VisitFails, Fault, runCounts
<1>7. \E s \in VisitStates : visit' = [visit EXCEPT ![v] = s]
  <2>1. CASE Visit(v) \/ BeginSearch(v) \/ StoreProfiles(v)
    <3>1. \A a \in {"visiting", "searching", "summing"} : [at |-> a] \in VisitStates
      BY DEF VisitStates
    <3> QED
      BY <2>1, <3>1 DEF Visit, BeginSearch, StoreProfiles
  <2>2. CASE AnswerCached(v) \/ StoreMeta(v) \/ VisitFails(v)
    BY <1>2, <2>2 DEF AnswerCached, StoreMeta, VisitFails
  <2>3. CASE EndSearch(v)
    <3>1. PICK t \in Tables : visit' = [visit EXCEPT ![v] = [at |-> "storing", found |-> Candidates(t)]]
      BY <2>3 DEF EndSearch
    <3> DEFINE c == Candidates(t)
    <3>2. c \in {rows \in SUBSET StoredRows : Ranked(rows)}
      BY CandidatesRanked
    <3> HIDE DEF c
    <3>3. [at |-> "storing", found |-> c] \in VisitStates
      BY <3>2 DEF VisitStates
    <3> QED
      BY <3>1, <3>3 DEF c
  <2> QED
    BY <2>1, <2>2, <2>3 DEF VisitStep
<1>8. visit' \in [Visitors -> VisitStates]
  BY <1>7
<1>9. Ranked(profiles)' /\ meta' \in BOOLEAN
  <2>1. CASE StoreProfiles(v)
    <3>1. visit[v].at = "storing" /\ profiles' = profiles \cup visit[v].found /\ meta' = meta
      BY <2>1 DEF StoreProfiles
    <3>2. visit[v].found \in {rows \in SUBSET StoredRows : Ranked(rows)}
      BY <1>2, <3>1 DEF VisitStates
    <3>3. Ranked(profiles \cup visit[v].found)
      BY <3>2, RankedTogether
    <3> QED
      BY <3>1, <3>3
  <2>2. CASE ~StoreProfiles(v)
    <3>1. profiles' = profiles /\ meta' \in BOOLEAN
      BY <2>2 DEF Visit, AnswerCached, BeginSearch, VisitStep, EndSearch, StoreMeta, VisitFails
    <3> QED
      BY <3>1
  <2> QED
    BY <2>1, <2>2
<1>10. SummaryUnlessTorn'
  <2>1. runFaults \in Nat /\ apiCrashes \in Nat
    BY StructureRunsAssumption
  <2>2. CASE StoreProfiles(v)
    <3>1. visit'[v].at = "summing"
      BY <2>2 DEF StoreProfiles
    <3> QED
      BY <3>1 DEF SummaryUnlessTorn
  <2>3. CASE StoreMeta(v)
    BY <2>3 DEF StoreMeta, SummaryUnlessTorn
  <2>4. CASE VisitFails(v)
    <3>1. runFaults' + apiCrashes' > 0
      BY <1>1, <2>1, <2>4 DEF VisitFails, Fault
    <3> QED
      BY <3>1 DEF SummaryUnlessTorn
  <2>5. CASE Visit(v) \/ AnswerCached(v) \/ BeginSearch(v) \/ EndSearch(v)
    <3>1. /\ profiles' = profiles /\ meta' = meta /\ runFaults' = runFaults
          /\ \A w \in Visitors : w # v => visit'[w] = visit[w]
          /\ visit[v].at # "summing"
      BY <2>5 DEF Visit, AnswerCached, BeginSearch, EndSearch, runCounts, Nowhere
    <3> QED
      BY <1>1, <3>1 DEF SummaryUnlessTorn
  <2> QED
    BY <2>2, <2>3, <2>4, <2>5 DEF VisitStep
<1> QED
  BY <1>1, <1>4, <1>5, <1>6, <1>8, <1>9, <1>10

\* A crash loses the task and the visitors, and not what is stored.
LEMMA CrashKeepsRun ==
  ASSUME RunIInv, ApiCrash
  PROVE  RunIInv'
<1> USE DEF RunIInv, ApiCrash
<1>1. visit' \in [Visitors -> VisitStates] /\ \A v \in Visitors : visit'[v] = Nowhere
  BY DEF VisitStates, Nowhere
<1>2. apiCrashes' \in 0..MaxApiCrashes /\ apiCrashes' > 0 /\ runFaults \in Nat /\ apiCrashes' \in Nat
  BY StructureRunsAssumption
<1>3. Ranked(profiles)'
  OBVIOUS
<1>4. SearchedIsDone'
  BY <1>1 DEF SearchedIsDone
<1>5. SummaryUnlessTorn'
  BY <1>2 DEF SummaryUnlessTorn
<1>6. task' \in {"none", "ended"}
  OBVIOUS
<1> QED
  BY <1>1, <1>2, <1>3, <1>4, <1>5, <1>6

LEMMA RunStep == RunIInv /\ [RunNext]_runVars => RunIInv'
<1> SUFFICES ASSUME RunIInv, [RunNext]_runVars
             PROVE  RunIInv'
  OBVIOUS
<1>1. CASE UNCHANGED runVars
  BY <1>1 DEF RunIInv, runVars, runCounts, SearchedIsDone, SummaryUnlessTorn
<1> QED
  BY <1>1, TaskKeeps, VisitorKeeps, CrashKeepsRun DEF RunNext

\* The invariant of a backtest run and its searches holds in every state: the profiles
\* stored, and those a visitor is about to store, have ranks that belong together.
THEOREM RunInvariant == RunSpec => []RunIInv
<1> QED
  BY InitRun, RunStep, PTL DEF RunSpec

\* A search is over a run that has ended well; however many searches have stored their
\* profiles, a cached answer recommends the best survivor of all that are stored; and
\* stored profiles have a search's summary, unless a failure or a crash tore the two apart
\* or it is still being stored.
THEOREM RunsAreSafe == RunSpec => []RunSafe
<1>1. ASSUME RunIInv
      PROVE  RunSafe
  <2> USE <1>1 DEF RunIInv
  <2>1. CachedIsBest
    BY CachedFacts
  <2>2. \A v \in Visitors : visit[v].at \in Places
    BY DEF VisitStates, Places
  <2>3. \A p \in profiles : p.rank \in Nat /\ (p.rank = Unranked <=> p.rejected)
    BY DEF Ranked, StoredRows
  <2>4. RunTypeOK
    BY <2>2, <2>3 DEF RunTypeOK
  <2> QED
    BY <2>1, <2>4 DEF RunSafe
<1> QED
  BY <1>1, RunInvariant, PTL

=============================================================================
