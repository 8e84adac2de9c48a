---------------------------- MODULE OutcomeTracker ----------------------------
(***************************************************************************)
(* How the archiver finds out what became of a signal (services/archiver,  *)
(* tracker.py), and the recap it sends after the close (main.py,           *)
(* recap.py).  Every half a minute of market hours the tracker fetches the *)
(* rows that have no outcome yet, reads the one-minute bars that the       *)
(* feature engine has written since they were created, and walks them in   *)
(* order to the first that touches the target or the stop; a row that is   *)
(* older than its time to live and was not touched is EXPIRED.  The wall   *)
(* clock, the bars, the rows and the tracker move on their own.            *)
(*                                                                         *)
(* Time is counted in minutes from the open; a bar is named by its minute. *)
(* One day and one symbol; all signals are bullish and share their levels. *)
(* The extremes and the times that a row keeps along with its outcome are  *)
(* left out.                                                               *)
(* TouchesBackwards is a faulty variant, kept to see the properties fail.  *)
(***************************************************************************)
EXTENDS Integers, SequencesExt, FiniteSetsExt

CONSTANTS
  SignalTTL,      \* signal_ttl_min
  Lookback,       \* tracker_lookback_min
  FetchLimit,     \* LIMIT of the SELECT
  Close,          \* market_close
  CloseGrace,     \* minutes after the close that still count
  RecapTime,      \* _RECAP_HOUR and _RECAP_MINUTE
  MaxSignals,     \* bound: signals in a behaviour
  MaxTouches,     \* bound: bars that are not flat
  MaxDayFaults    \* bound: bars that come late, cycles that fail, restarts

ASSUME OutcomeAssumption ==
  /\ SignalTTL \in Nat \ {0}
  /\ Lookback \in Nat /\ Lookback > SignalTTL
  /\ FetchLimit \in Nat \ {0}
  /\ Close \in Nat /\ CloseGrace \in Nat
  /\ RecapTime \in Close..(Close + CloseGrace)
  /\ MaxSignals \in Nat /\ MaxTouches \in Nat /\ MaxDayFaults \in Nat

LastMinute == Close + CloseGrace + 1
Minutes == 0..LastMinute

\* Prices: the stop, the entry and the target.
Stop == 1
Entry == 2
Target == 3

\* The bars that first_touch tells apart: flat, up, down, and one that spans
\* both levels and opened at an equal distance.
Flat == [o |-> Entry, h |-> Entry, l |-> Entry]
TouchingBars ==
  {[o |-> Entry, h |-> Target, l |-> Entry], [o |-> Entry, h |-> Entry, l |-> Stop],
   [o |-> Entry, h |-> Target, l |-> Stop]}

VARIABLES
  minute,      \* the wall clock
  tape,        \* the bars of the minutes that are over
  late,        \* minutes whose bar is late
  bars,        \* the minutes whose bar is in Redis
  signals,     \* the signals by the time they were created: their rows
  cycle,       \* the tracking cycle: where it is, its rows and its updates
  polled,      \* whether the tracker has had its turn in this minute
  lastRecap,   \* whether last_recap_date is today
  recaps,      \* history: recaps published
  dayFaults

market == <<minute, tape, late, bars>>
dayVars == <<market, signals, cycle, polled, lastRecap, recaps, dayFaults>>

Outcomes == {"TARGET_HIT", "STOP_HIT", "EXPIRED"}
NoOutcome == [label |-> "NONE", bar |-> -1]
NoCycle == [step |-> "asleep", now |-> 0, rows |-> {}, updates |-> <<>>]

OutcomeTypeOK ==
  /\ minute \in Minutes
  /\ DOMAIN tape = {m \in Minutes : m < minute}
  /\ late \subseteq DOMAIN tape /\ bars \subseteq DOMAIN tape
  /\ Len(signals) <= MaxSignals
  /\ \A i \in DOMAIN signals :
       /\ signals[i].created \in 0..minute
       /\ signals[i].outcome.label \in Outcomes \cup {"NONE"}
       /\ signals[i].outcome.label \in {"TARGET_HIT", "STOP_HIT"}
            => signals[i].outcome.bar \in bars
  /\ cycle.step \in {"asleep", "fetched", "walked"}
  /\ cycle.rows \subseteq DOMAIN signals /\ Cardinality(cycle.rows) <= FetchLimit
  /\ dayFaults \in 0..MaxDayFaults

OutcomeInit ==
  /\ minute = 0
  /\ tape = <<>>
  /\ late = {}
  /\ bars = {}
  /\ signals = <<>>
  /\ cycle = NoCycle
  /\ polled = FALSE
  /\ lastRecap = FALSE
  /\ recaps = 0
  /\ dayFaults = 0

-----------------------------------------------------------------------------
(* The world around the tracker. *)

IsMarketHours == minute <= Close + CloseGrace

Touching == {m \in DOMAIN tape : tape[m] # Flat}

\* A minute is over: its bar is known.  The feature engine has written the
\* bar of the minute before by then, and the tracker has had a turn.
MinutePasses ==
  /\ minute < LastMinute
  /\ polled \/ ~IsMarketHours
  /\ \A m \in DOMAIN tape : m \in bars \cup late
  /\ minute' = minute + 1
  /\ \E bar \in {Flat} \cup
               (IF Cardinality(Touching) < MaxTouches /\ minute <= Close
                  THEN TouchingBars ELSE {}) :
       tape' = [m \in DOMAIN tape \cup {minute} |->
                  IF m = minute THEN bar ELSE tape[m]]
  /\ polled' = FALSE
  /\ UNCHANGED <<late, bars, signals, cycle, lastRecap, recaps, dayFaults>>

\* on_bar of the feature engine.
BarWritten ==
  /\ \E m \in DOMAIN tape \ bars : bars' = bars \cup {m}
  /\ UNCHANGED <<minute, tape, late, signals, cycle, polled, lastRecap, recaps, dayFaults>>

\* The feature engine is restarted, or lags behind: a bar comes late or never.
BarIsLate ==
  /\ dayFaults < MaxDayFaults
  /\ dayFaults' = dayFaults + 1
  /\ \E m \in DOMAIN tape \ (bars \cup late) : late' = late \cup {m}
  /\ UNCHANGED <<minute, tape, bars, signals, cycle, polled, lastRecap, recaps>>

\* The archiver inserts the row some seconds later.
SignalFires ==
  /\ minute <= Close
  /\ Len(signals) < MaxSignals
  /\ signals' = Append(signals, [created |-> minute, outcome |-> NoOutcome])
  /\ UNCHANGED <<market, cycle, polled, lastRecap, recaps, dayFaults>>

-----------------------------------------------------------------------------
(* The tracker. *)

IsTracked(i) == signals[i].outcome # NoOutcome

Untracked(from) ==
  {i \in DOMAIN signals :
     ~IsTracked(i) /\ signals[i].created >= from}

\* _FETCH_UNTRACKED_SQL: the oldest rows, up to the limit.
Fetch ==
  LET rows == Untracked(minute - Lookback)
  IN  {i \in rows : Cardinality({j \in rows : j < i}) < FetchLimit}

StartCycle ==
  /\ cycle.step = "asleep"
  /\ ~polled
  /\ IsMarketHours
  /\ Fetch # {}
  /\ cycle' = [NoCycle EXCEPT !.step = "fetched", !.now = minute, !.rows = Fetch]
  /\ UNCHANGED <<market, signals, polled, lastRecap, recaps, dayFaults>>

\* No row, or not market hours.
NothingToTrack ==
  /\ cycle.step = "asleep"
  /\ ~polled
  /\ ~IsMarketHours \/ Fetch = {}
  /\ polled' = TRUE
  /\ UNCHANGED <<market, signals, cycle, lastRecap, recaps, dayFaults>>

Distance(a, b) == IF a < b THEN b - a ELSE a - b

\* first_touch.
FirstTouch(bar) ==
  LET hit_target == bar.h >= Target
      hit_stop == bar.l <= Stop
  IN  CASE hit_target /\ hit_stop ->
             IF Distance(bar.o, Stop) < Distance(bar.o, Target)
               THEN "STOP_HIT" ELSE "TARGET_HIT"
        [] hit_target /\ ~hit_stop -> "TARGET_HIT"
        [] ~hit_target /\ hit_stop -> "STOP_HIT"
        [] OTHER -> "NONE"

\* The bars the walk sees: the bar of the minute of the signal began before it.
Since(i) == {m \in bars : m > signals[i].created}

TouchesBackwards(i) ==
  {m \in Since(i) : /\ FirstTouch(tape[m]) # "NONE"
                    /\ \A n \in Since(i) : n > m => FirstTouch(tape[n]) = "NONE"}

\* The bar that the walk of row i stops at.
Touches(i) ==
  {m \in Since(i) : /\ FirstTouch(tape[m]) # "NONE"
                    /\ \A n \in Since(i) : n < m => FirstTouch(tape[n]) = "NONE"}

IsOver(i) == cycle.now - signals[i].created >= SignalTTL

\* What _track_cycle decides for row i.
Resolve(i) ==
  CASE Touches(i) # {} ->
         [label |-> FirstTouch(tape[Min(Touches(i))]), bar |-> Min(Touches(i))]
    [] Touches(i) = {} /\ IsOver(i) -> [label |-> "EXPIRED", bar |-> -1]
    [] OTHER -> NoOutcome

\* _get_bars_since, and the walk.
WalkBars ==
  /\ cycle.step = "fetched"
  /\ cycle' = [cycle EXCEPT !.step = "walked",
                            !.updates = [i \in cycle.rows |-> Resolve(i)]]
  /\ UNCHANGED <<market, signals, polled, lastRecap, recaps, dayFaults>>

EndCycle ==
  /\ cycle' = NoCycle
  /\ polled' = TRUE

\* executemany: all the rows in one transaction.
UpdateOutcomes ==
  /\ cycle.step = "walked"
  /\ signals' = [i \in DOMAIN signals |->
       IF i \in cycle.rows
         THEN [signals[i] EXCEPT !.outcome = cycle.updates[i]] ELSE signals[i]]
  /\ EndCycle
  /\ UNCHANGED <<market, lastRecap, recaps, dayFaults>>

\* Postgres or Redis raises: _run_loop logs it and sleeps.
CycleFails ==
  /\ dayFaults < MaxDayFaults
  /\ cycle.step = "asleep" => IsMarketHours /\ ~polled
  /\ dayFaults' = dayFaults + 1
  /\ EndCycle
  /\ UNCHANGED <<market, signals, lastRecap, recaps>>

-----------------------------------------------------------------------------
(* The recap. *)

\* _recap_scheduler and generate_and_publish_recap.
PublishRecap ==
  /\ minute >= RecapTime /\ ~lastRecap
  /\ lastRecap' = TRUE
  /\ recaps' = recaps + 1
  /\ UNCHANGED <<market, signals, cycle, polled, dayFaults>>

\* The XADD raises after it was executed: half a minute later it is repeated.
RecapReplyLost ==
  /\ minute >= RecapTime /\ ~lastRecap
  /\ dayFaults < MaxDayFaults
  /\ recaps' = recaps + 1
  /\ dayFaults' = dayFaults + 1
  /\ UNCHANGED <<market, signals, cycle, polled, lastRecap>>

\* The archiver is restarted: the cycle is lost, and so is the day of the recap.
ArchiverRestarts ==
  /\ dayFaults < MaxDayFaults
  /\ dayFaults' = dayFaults + 1
  /\ cycle' = NoCycle
  /\ lastRecap' = FALSE
  /\ UNCHANGED <<market, signals, polled, recaps>>

TrackerStep == StartCycle \/ NothingToTrack \/ WalkBars \/ UpdateOutcomes

OutcomeNext ==
  \/ MinutePasses
  \/ BarWritten
  \/ BarIsLate
  \/ SignalFires
  \/ TrackerStep
  \/ CycleFails
  \/ PublishRecap
  \/ RecapReplyLost
  \/ ArchiverRestarts

\* Time passes, and the tasks of the archiver run.
OutcomeFairness ==
  /\ WF_dayVars(MinutePasses \/ BarWritten \/ TrackerStep)
  /\ WF_dayVars(PublishRecap)

OutcomeSpec == OutcomeInit /\ [][OutcomeNext]_dayVars /\ OutcomeFairness

-----------------------------------------------------------------------------
(* Properties. *)

Decided(i) == signals[i].outcome.label \in {"TARGET_HIT", "STOP_HIT"}

\* "stopping at the first bar that resolves it - same price data, same outcome,
\* with no dependency on exactly when a poll happened to land": whichever cycle
\* decides a row, and however many failed before, it decides by the first bar
\* of the tape that touches a level after the signal, unless a bar came late.
DecidedByFirstTouch ==
  late = {} =>
    \A i \in DOMAIN signals :
      Decided(i) => \A m \in DOMAIN tape :
        (signals[i].created < m /\ m < signals[i].outcome.bar) => tape[m] = Flat

\* A row is not given up as EXPIRED although the price touched a level in its
\* lifetime, however late the cycle comes that looks at it: only the last two
\* minutes, whose bars may not be there yet, can be missed.
ExpiredUntouched ==
  late = {} =>
    \A i \in DOMAIN signals :
      signals[i].outcome.label = "EXPIRED" =>
        \A m \in DOMAIN tape :
          (signals[i].created < m /\ m < signals[i].created + SignalTTL - 1)
            => tape[m] = Flat

\* "must exceed signal_ttl_min or a still-open signal would fall out of the
\* query before reaching its TTL" (tracker_lookback_min): no row falls out of
\* the query unresolved, unless the market closes first or failing cycles and
\* the rows in front of it in the query have used up the margin.
NoneFallsOut ==
  (dayFaults + (Len(signals) - 1) \div FetchLimit <= Lookback - SignalTTL) =>
    \A i \in DOMAIN signals :
      (/\ signals[i].created + Lookback < minute
       /\ signals[i].created + Lookback <= Close + CloseGrace)
      => IsTracked(i)

\* The day gets its recap, although its XADD fails or the archiver restarts.
RecapIsSent == (minute = RecapTime) ~> (recaps > 0)

\* A recap is sent again only after a failure or a restart.
RecapPerFault == recaps <= 1 + dayFaults

\* What the tracker says of a signal is what the tape says of it.
OutcomeSafe ==
  /\ OutcomeTypeOK
  /\ DecidedByFirstTouch
  /\ ExpiredUntouched
  /\ NoneFallsOut
  /\ RecapPerFault
=============================================================================
