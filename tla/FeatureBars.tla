------------------------------ MODULE FeatureBars ------------------------------
(***************************************************************************)
(* How the feature engine makes bars of ticks (services/feature-engine,    *)
(* engine.py and bar_builder.py).  Three tasks share one symbol's state:   *)
(*   main     the stream loop: it buffers a tick, acknowledges it, and     *)
(*            flushes the buffer when it is full;                          *)
(*   flusher  flush_timer, which flushes every few milliseconds;           *)
(*   closer   bar_flush_timer, which closes a bar some seconds after its   *)
(*            end when no tick of a later one has.                         *)
(* The lock is held only while the buffer is taken, or the list of states  *)
(* copied, so two flushes overlap wherever they wait for Redis: for the    *)
(* loaders of a new symbol, for the bar that is written, for the ticks of  *)
(* other symbols.                                                          *)
(*                                                                         *)
(* One symbol in one session and one of the three timeframes, which share  *)
(* their code.  A tick is its exchange time; its price is left out, and    *)
(* the day's volume, which grows with time, is taken to be the time.  A    *)
(* bar keeps the ticks it was made of in place of open, high, low, close.  *)
(*                                                                         *)
(* update_bars hands on a bar it has just replaced, which nobody changes   *)
(* any more.  force_close_stale_bars hands on the very object that stays   *)
(* in the state, and on_bar reads it only when it is called: at once where *)
(* the bar is the first of its pass, but after the bar of a shorter        *)
(* timeframe has been written where there is one.  Until then a late tick  *)
(* of the same period goes into the bar that the closer holds.             *)
(* CompletedDropped and StaleSingle are faulty variants, kept to see the   *)
(* properties fail.                                                        *)
(***************************************************************************)
EXTENDS Integers, FiniteSets, SequencesExt, FiniteSetsExt

CONSTANTS
  BarLength,     \* a timeframe
  Grace,         \* FORCE_CLOSE_GRACE_MS
  BatchMax,      \* batch_max_ticks
  MaxTicks,      \* bound: ticks in a behaviour
  MaxClock,      \* bound: the wall clock
  MaxBarFaults   \* bound: crashes and calls to Redis that raise

ASSUME FeatureBarsAssumption ==
  /\ BarLength \in Nat \ {0}
  /\ Grace \in Nat
  /\ BatchMax \in Nat \ {0}
  /\ MaxTicks \in Nat
  /\ MaxClock \in Nat /\ BarLength <= MaxClock
  /\ MaxBarFaults \in Nat

Flushers == {"main", "flusher"}
NoState == "none"
Times == BarLength..MaxClock

VARIABLES
  clock,      \* the wall clock, and the latest time the exchange can stamp
  ticks,      \* the ticks received, by their exchange time
  batch,      \* FeatureEngine._buffer
  states,     \* FeatureEngine._states: who created the symbol's state
  state,      \* the states there are: their open bar and last volume
  job,        \* per flushing task: where it is, with which tick and state
  closer,     \* bar_flush_timer: where it is, with which state and time
  emitted,    \* the bars written to Redis, in order
  applied,    \* history: ticks computed in this life, with the time
  life,       \* history: restarts so far
  barFaults

barMemory == <<batch, states, state, job, closer, applied>>
barVars == <<clock, ticks, barMemory, emitted, life, barFaults>>

Idle == [step |-> "idle", tick |-> 0, of |-> NoState, bars |-> <<>>]
Asleep == [step |-> "asleep", of |-> NoState, now |-> 0, bars |-> <<>>]

NewSymbolState ==
  [start |-> 0, count |-> 0, ticks |-> {}, volume |-> 0, previous |-> 0]

BarsTypeOK ==
  /\ clock \in Times
  /\ ticks \in Seq(Times) /\ Len(ticks) <= MaxTicks
  /\ \A i \in DOMAIN batch : batch[i] \in DOMAIN ticks
  /\ Len(batch) < BatchMax
  /\ states \in Flushers \cup {NoState}
  /\ \A t \in Flushers : state[t].ticks \subseteq DOMAIN ticks
  /\ \A t \in Flushers :
       /\ job[t].step \in {"idle", "lookup", "load", "seed", "write", "dead"}
       /\ job[t].step \in {"seed", "write"} => job[t].of # NoState
  /\ closer.step \in {"asleep", "close", "held", "write", "dead"}
  /\ closer.step = "held" => closer.of # NoState
  /\ barFaults \in 0..MaxBarFaults

BarsInit ==
  /\ clock = BarLength
  /\ ticks = <<>>
  /\ batch = <<>>
  /\ states = NoState
  /\ state = [t \in Flushers |-> NewSymbolState]
  /\ job = [t \in Flushers |-> Idle]
  /\ closer = Asleep
  /\ emitted = <<>>
  /\ applied = <<>>
  /\ life = 0
  /\ barFaults = 0

-----------------------------------------------------------------------------
(* Bars. *)

StartOf(time) == (time \div BarLength) * BarLength

\* _compute: the reference follows the tick, down as well as up.
VolumeDelta(s, volume) ==
  IF s.previous = 0 \/ volume < s.previous THEN 0 ELSE volume - s.previous

\* update_bars: the state after tick i.  A tick of any other period, a later
\* or an earlier one, begins a new bar, another object.
SameBar(s, i) == s.start \in {0, StartOf(ticks[i])}

UpdateBars(s, i) ==
  LET same == SameBar(s, i)
      delta == VolumeDelta(s, ticks[i])
  IN  [start |-> StartOf(ticks[i]),
       count |-> IF same THEN s.count + 1 ELSE 1,
       ticks |-> IF same THEN s.ticks \cup {i} ELSE {i},
       volume |-> IF same THEN s.volume + delta ELSE delta,
       previous |-> ticks[i]]

Bar(s, of, by) ==
  [start |-> s.start, ticks |-> s.ticks, volume |-> s.volume, of |-> of,
   life |-> life, by |-> by]

\* update_bars: the bar that tick i closes.
CompletedDropped(s, i, of) == <<>>

Completed(s, i, of) ==
  IF ~SameBar(s, i) /\ s.count > 0
    THEN <<Bar(s, of, "tick")>> ELSE <<>>

StaleSingle(s, now) == s.count > 1 /\ now >= s.start + BarLength + Grace

\* force_close_stale_bars.
Stale(s, now) == s.count > 0 /\ now >= s.start + BarLength + Grace

Spent(s) == [s EXCEPT !.count = 0]

\* The bar of a state as on_bar reads it for the closer: a tick that has come
\* since it was closed has counted again.
Handed(s, of) == Bar(s, of, IF s.count > 0 THEN "late" ELSE "closer")

\* What the closer has in hand.  A bar that it holds without having read it is
\* the one in the state, until a tick of another period replaces that.
CloserBars ==
  IF closer.step = "held" /\ closer.bars = <<>>
    THEN <<Handed(state[closer.of], closer.of)>>
    ELSE closer.bars

-----------------------------------------------------------------------------
(* The flushing tasks. *)

Begin(t, i) == job' = [job EXCEPT ![t] = [Idle EXCEPT !.step = "lookup", !.tick = i]]

\* ingest: the tick is acknowledged as soon as the flush, if there is one,
\* returns.  Of the ticks in a batch only the last one is computed.
Ingest ==
  /\ job["main"].step = "idle"
  /\ Len(ticks) < MaxTicks
  /\ \E time \in BarLength..clock : ticks' = Append(ticks, time)
  /\ LET i == Len(ticks')
     IN  IF Len(batch) + 1 >= BatchMax
           THEN batch' = <<>> /\ Begin("main", i)
           ELSE batch' = Append(batch, i) /\ UNCHANGED job
  /\ UNCHANGED <<clock, states, state, closer, applied, emitted, life, barFaults>>

\* flush_timer finds ticks in the buffer.
TimedFlush ==
  /\ job["flusher"].step = "idle"
  /\ batch # <<>>
  /\ Begin("flusher", batch[Len(batch)])
  /\ batch' = <<>>
  /\ UNCHANGED <<clock, ticks, states, state, closer, applied, emitted, life, barFaults>>

\* _get_or_create_state: a symbol that is not there gets a state, which is
\* registered when its profile has been loaded.
Lookup(t) ==
  /\ job[t].step = "lookup"
  /\ job' = [job EXCEPT ![t] =
       IF states = NoState
         THEN [@ EXCEPT !.step = "load", !.of = t]
         ELSE [@ EXCEPT !.step = "seed", !.of = states]]
  /\ UNCHANGED <<clock, ticks, batch, states, state, closer, applied, emitted, life, barFaults>>

Register(t) ==
  /\ job[t].step = "load"
  /\ states' = t
  /\ job' = [job EXCEPT ![t] = [@ EXCEPT !.step = "seed"]]
  /\ UNCHANGED <<clock, ticks, batch, state, closer, applied, emitted, life, barFaults>>

\* _compute, when the history and the delivery data have been looked at.
Compute(t) ==
  /\ job[t].step = "seed"
  /\ LET of == job[t].of
         i == job[t].tick
     IN  /\ state' = [state EXCEPT ![of] = UpdateBars(@, i)]
         /\ job' = [job EXCEPT ![t] =
              [@ EXCEPT !.step = "write", !.bars = Completed(state[of], i, of)]]
         /\ applied' = Append(applied, [tick |-> i, of |-> of, at |-> clock])
         /\ closer' = IF closer.of = of /\ ~SameBar(state[of], i)
                        THEN [closer EXCEPT !.bars = CloserBars] ELSE closer
  /\ UNCHANGED <<clock, ticks, batch, states, emitted, life, barFaults>>

\* on_bar for the bar that was closed, and on_feature.
Finish(t) ==
  /\ job[t].step = "write"
  /\ emitted' = emitted \o job[t].bars
  /\ job' = [job EXCEPT ![t] = Idle]
  /\ UNCHANGED <<clock, ticks, batch, states, state, closer, applied, life, barFaults>>

-----------------------------------------------------------------------------
(* bar_flush_timer. *)

\* The wall clock and the states are read first; the ones of other symbols
\* may be written before it comes to this one.
CloserWakes ==
  /\ closer.step = "asleep"
  /\ states # NoState
  /\ closer' = [Asleep EXCEPT !.step = "close", !.of = states, !.now = clock]
  /\ UNCHANGED <<clock, ticks, batch, states, state, job, applied, emitted, life, barFaults>>

\* A bar that is the first of the pass is read at once; before any other one
\* the bars of the shorter timeframes are written.
CloserCloses ==
  /\ closer.step = "close"
  /\ LET s == state[closer.of]
     IN  IF Stale(s, closer.now)
           THEN /\ state' = [state EXCEPT ![closer.of] = Spent(s)]
                /\ \/ closer' = [closer EXCEPT !.step = "write",
                                   !.bars = <<Handed(Spent(s), closer.of)>>]
                   \/ closer' = [closer EXCEPT !.step = "held"]
           ELSE closer' = Asleep /\ UNCHANGED state
  /\ UNCHANGED <<clock, ticks, batch, states, job, applied, emitted, life, barFaults>>

\* on_bar reads the bar, and sends it to Redis.
CloserReads ==
  /\ closer.step = "held"
  /\ closer' = [closer EXCEPT !.step = "write", !.bars = CloserBars]
  /\ UNCHANGED <<clock, ticks, batch, states, state, job, applied, emitted, life, barFaults>>

CloserWrites ==
  /\ closer.step = "write"
  /\ emitted' = emitted \o closer.bars
  /\ closer' = Asleep
  /\ UNCHANGED <<clock, ticks, batch, states, state, job, applied, life, barFaults>>

-----------------------------------------------------------------------------
(* Failures. *)

Working == {"load", "seed", "write"}

\* Redis raises, before or after it has executed the write: of this bar or,
\* where the closer holds it, of the one before it.  Neither timer catches
\* anything: its task ends, and nobody looks at it.
TimerDies ==
  /\ barFaults < MaxBarFaults
  /\ barFaults' = barFaults + 1
  /\ \/ /\ job["flusher"].step \in Working
        /\ emitted' \in {emitted, emitted \o job["flusher"].bars}
        /\ job' = [job EXCEPT !["flusher"] = [@ EXCEPT !.step = "dead"]]
        /\ UNCHANGED closer
     \/ /\ closer.step \in {"held", "write"}
        /\ \/ UNCHANGED emitted
           \/ closer.step = "write" /\ emitted' = emitted \o closer.bars
        /\ closer' = [closer EXCEPT !.step = "dead", !.bars = CloserBars]
        /\ UNCHANGED job
  /\ UNCHANGED <<clock, ticks, batch, states, state, applied, life>>

\* The process is killed, or an exception leaves its main loop; Docker starts
\* it again.  Everything but the stream and the bars was in memory.
BarsRestart ==
  /\ barFaults < MaxBarFaults
  /\ barFaults' = barFaults + 1
  /\ batch' = <<>>
  /\ states' = NoState
  /\ state' = [t \in Flushers |-> NewSymbolState]
  /\ job' = [t \in Flushers |-> Idle]
  /\ closer' = Asleep
  /\ applied' = <<>>
  /\ life' = life + 1
  /\ UNCHANGED <<clock, ticks, emitted>>

ClockTicks ==
  /\ clock < MaxClock
  /\ clock' = clock + 1
  /\ UNCHANGED <<ticks, barMemory, emitted, life, barFaults>>

FlushStep(t) == Lookup(t) \/ Register(t) \/ Compute(t) \/ Finish(t)

CloserStep == CloserWakes \/ CloserCloses \/ CloserReads \/ CloserWrites

BarsNext ==
  \/ Ingest
  \/ TimedFlush
  \/ \E t \in Flushers : FlushStep(t)
  \/ CloserStep
  \/ TimerDies
  \/ BarsRestart
  \/ ClockTicks

\* Redis answers, the timers fire and time passes.
BarsFairness ==
  /\ WF_barVars(FlushStep("main"))
  /\ WF_barVars(FlushStep("flusher") \/ TimedFlush)
  /\ WF_barVars(CloserStep)
  /\ WF_barVars(ClockTicks)

BarsSpec == BarsInit /\ [][BarsNext]_barVars /\ BarsFairness

-----------------------------------------------------------------------------
(* Properties. *)

\* Both tasks have created a state for the symbol.
Split == \E i, j \in DOMAIN applied : applied[i].of # applied[j].of

\* The ticks of this life were computed in the order of the exchange.
InExchangeOrder ==
  \A i, j \in DOMAIN applied :
    i <= j => ticks[applied[i].tick] <= ticks[applied[j].tick]

\* ... and before the closer was allowed to close their bar.
BeforeGrace ==
  \A i \in DOMAIN applied :
    applied[i].at < StartOf(ticks[applied[i].tick]) + BarLength + Grace

PendingBars ==
  Range(job["main"].bars) \cup Range(job["flusher"].bars) \cup Range(CloserBars)

\* The bars of this life's states, written or being written.
WrittenBars ==
  {emitted[i] : i \in {j \in DOMAIN emitted : emitted[j].life = life}}
    \cup PendingBars

\* No tick falls between two bars, whichever task closes them and in whatever
\* order the flushes overtake each other: it is in the open bar of its period
\* or in a bar of its period that is written, about to be, or was about to be
\* when its task died.
NoTickBetweenBars ==
  \A i \in DOMAIN applied :
    LET t == applied[i].tick
        s == state[applied[i].of]
    IN  \/ t \in s.ticks /\ s.start = StartOf(ticks[t])
        \/ \E b \in WrittenBars : t \in b.ticks /\ b.start = StartOf(ticks[t])

\* Two bars share a tick only if they are of one period, one of them reopened
\* by a tick that came too late.  The same ticks are written twice only where
\* such a tick came between the closing of the bar and its reading: then the
\* closer writes the bar with the tick in it, and so does who closes it next,
\* and that is all.  No bar is read late as long as the ticks of the life have
\* come in time (engine.py has it that nothing is emitted twice at all).
WrittenOnceUnlessReopened ==
  /\ \A i, j \in DOMAIN emitted :
       (i < j /\ emitted[i].ticks \cap emitted[j].ticks # {}) =>
         /\ emitted[i].start = emitted[j].start
         /\ emitted[i].ticks = emitted[j].ticks =>
              (emitted[i].by = "late") # (emitted[j].by = "late")
  /\ \A i \in DOMAIN emitted :
       emitted[i].by = "late" /\ emitted[i].life = life => ~BeforeGrace

\* Where ticks are computed in order and in time, the bars of a life come out
\* in order, one for each period, whether ticks or the timer close them.
PunctualBars ==
  (InExchangeOrder /\ BeforeGrace /\ ~Split) =>
    \A i, j \in DOMAIN emitted :
      (i < j /\ emitted[i].life = life /\ emitted[j].life = life)
        => emitted[i].start # emitted[j].start

\* The volume in the written bars.
Traded == MapThenSumSet(LAMBDA b : b.volume, WrittenBars)

\* Where ticks are computed in order, the bars hold the volume traded between
\* the first tick and the last, no more and no less, across all boundaries.
VolumeAddsUp ==
  (InExchangeOrder /\ BeforeGrace /\ ~Split /\ applied # <<>>) =>
    LET s == state[applied[1].of]
    IN  Traded + (IF s.count > 0 THEN s.volume ELSE 0) = s.previous - ticks[applied[1].tick]

\* The bars of a symbol: no tick is lost between two of them, and none is
\* written again but for ticks that came too late.
BarsSafe ==
  /\ BarsTypeOK
  /\ NoTickBetweenBars
  /\ WrittenOnceUnlessReopened
  /\ PunctualBars
  /\ VolumeAddsUp

\* The symbol's bar is open, and the clock will pass its end.
BarIsOpen ==
  /\ states # NoState
  /\ state[states].count > 0
  /\ state[states].start + BarLength + Grace <= MaxClock

\* A bar is closed in the end although no tick of a later period comes, unless
\* the closing task has ended.
EveryBarCloses == BarIsOpen ~> (~BarIsOpen \/ closer.step = "dead")

\* Ticks do not stay in the buffer, unless the flushing task has ended.
BufferDrains == (batch # <<>>) ~> (batch = <<>> \/ job["flusher"].step = "dead")
=============================================================================
