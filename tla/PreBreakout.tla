----------------------------- MODULE PreBreakout -----------------------------
(***************************************************************************)
(* The pre-breakout state machine of one symbol (pre_breakout.py): which   *)
(* state it is in, the counters its transitions read, the time it entered  *)
(* the state, and the Redis key that shows the state to the dashboard.     *)
(* The numbers of a bar are abstracted to the thresholds they are compared *)
(* with: the Bollinger width to five zones and its trend, the relative     *)
(* volume to four levels, the RSI to three.                                *)
(*                                                                         *)
(* update sets the state in memory before it writes to Redis, and the      *)
(* write is HSET then EXPIRE: a failing command ends the handler between   *)
(* any two of these.  A restart clears the memory and leaves the key.      *)
(* TimedOutForgotten and DecliningKept are faulty variants, kept to see    *)
(* the properties fail.                                                    *)
(***************************************************************************)
EXTENDS RedisKeys

CONSTANTS
  CompressTicks,  \* pb_compress_ticks
  ReversalTicks,  \* pb_reversal_ticks
  MaxState,       \* pb_max_state_sec, in ticks
  StateTtl        \* pb_state_ttl_sec, in ticks

ASSUME PreBreakoutAssumption ==
  /\ CompressTicks \in Nat \ {0}
  /\ ReversalTicks \in Nat \ {0}
  /\ MaxState \in Nat \ {0}
  /\ StateTtl \in Nat
  /\ MaxState < StateTtl

\* bb_width: 0, below pb_coiled_bb_max, below pb_compress_bb_max, equal to it,
\* above it.
Zones == 0..4

\* rel_vol: below 1, below pb_accumulate_rel_vol, below pb_coiled_rel_vol, rest.
Volumes == 0..3

Rsis == {"sweet", "normal", "extreme"}

\* A bar: width, its trend against the previous bar (down, up by at most 2 %,
\* up by more), volume, RSI.
Bars == [width: Zones, trend: {"down", "flat", "up"}, vol: Volumes, rsi: Rsis]

ActiveStates == {"compressing", "accumulating", "coiled"}
States == {"idle", "triggered", "expired"} \cup ActiveStates

Unset == -1

VARIABLES
  st,         \* pre_breakout_state
  entered,    \* ticks since pre_breakout_entered_us, or Unset
  declining,  \* bb_width_declining_count, capped at CompressTicks
  ticks,      \* ticks_in_pre_breakout, capped at ReversalTicks
  prevWidth,  \* zone of prev_bb_width
  key,        \* the hash of the symbol: the state it shows and its life
  stale,      \* history: the last write was cut short, or memory was lost
  reset,      \* history: bars since the symbol was last set to idle or
              \* expired, or started, capped at CompressTicks
  quiet       \* history: no bar since time last passed

memory == <<st, entered, declining, ticks, prevWidth>>
setupVars == <<memory, key, stale, reset, quiet>>

SetupTypeOK ==
  /\ st \in States
  /\ entered \in {Unset} \cup 0..(MaxState + 1)
  /\ declining \in 0..CompressTicks
  /\ ticks \in 0..ReversalTicks
  /\ prevWidth \in Zones
  /\ key \in [state: ActiveStates \cup {"none"}, life: Life(StateTtl)]
  /\ stale \in BOOLEAN
  /\ reset \in 0..CompressTicks
  /\ quiet \in BOOLEAN

SetupInit ==
  /\ st = "idle"
  /\ entered = Unset
  /\ declining = 0
  /\ ticks = 0
  /\ prevWidth = 0
  /\ key = [state |-> "none", life |-> Absent]
  /\ stale = FALSE
  /\ reset = 0
  /\ quiet = FALSE

UpTo(max, n) == IF n < max THEN n ELSE max

-----------------------------------------------------------------------------
(* What a bar leads to. *)

\* The zone and the trend of a bar agree with the previous width.  The third
\* zone is a single value.
Plausible(bar) ==
  prevWidth > 0 /\ bar.width > 0 =>
    IF bar.trend = "down"
      THEN bar.width <= prevWidth /\ ~(bar.width = 3 /\ prevWidth = 3)
      ELSE bar.width >= prevWidth
             /\ (bar.trend = "up" => ~(bar.width = 3 /\ prevWidth = 3))

Declining(bar) ==
  IF prevWidth = 0 \/ bar.width = 0 THEN declining
  ELSE CASE bar.trend = "down" -> UpTo(CompressTicks, declining + 1)
         [] bar.trend = "flat" -> declining
         [] bar.trend = "up" -> 0

TicksHere == UpTo(ReversalTicks, ticks + 1)

TimedOutForgotten == FALSE

TimedOut == st # "idle" /\ entered > MaxState

\* _evaluate: the state the bar leads to when the present one has not timed out.
Evaluated(bar) ==
  CASE st = "idle" ->
         IF Declining(bar) >= CompressTicks /\ bar.width \in 1..2
           THEN "compressing" ELSE "idle"
    [] st = "compressing" ->
         IF bar.vol >= 2 THEN "accumulating"
         ELSE IF Declining(bar) = 0 /\ TicksHere >= ReversalTicks
           THEN "expired" ELSE "compressing"
    [] st = "accumulating" ->
         IF bar.width <= 1 /\ bar.vol = 3 /\ bar.rsi = "sweet" THEN "coiled"
         ELSE IF bar.vol = 0 \/ bar.width = 4
           THEN "expired" ELSE "accumulating"
    [] st = "coiled" ->
         IF bar.width = 4 \/ bar.vol = 0 \/ bar.rsi = "extreme"
           THEN "expired" ELSE "coiled"
    [] st \in {"triggered", "expired"} -> "idle"

NewState(bar) == IF TimedOut THEN "expired" ELSE Evaluated(bar)

\* update calls _transition: a timeout always does, even out of expired.
Transits(bar) == TimedOut \/ Evaluated(bar) # st

Ends(s) == s \in {"idle", "expired"}

-----------------------------------------------------------------------------
(* The key. *)

\* _persist: DEL, or HSET and EXPIRE.
Persist(s) ==
  key' = IF Ends(s) THEN [state |-> "none", life |-> Absent]
                    ELSE [state |-> s, life |-> StateTtl]

\* The HSET is done and the EXPIRE is not.
PersistHalf(s) ==
  /\ ~Ends(s)
  /\ key' = [state |-> s, life |-> Touched(key.life)]

-----------------------------------------------------------------------------
(* The actions. *)

DecliningKept(bar) == declining' = Declining(bar)

DecliningAfter(bar) ==
  declining' = IF Transits(bar) /\ Ends(NewState(bar)) THEN 0 ELSE Declining(bar)

\* What update does to the memory.
Remember(bar) ==
  /\ Plausible(bar)
  /\ DecliningAfter(bar)
  /\ st' = NewState(bar)
  /\ IF Transits(bar) THEN entered' = 0 /\ ticks' = 0
                      ELSE entered' = entered /\ ticks' = TicksHere
  /\ reset' = IF Transits(bar) /\ Ends(NewState(bar)) THEN 0
              ELSE UpTo(CompressTicks, reset + 1)
  /\ quiet' = FALSE

\* A transition is written to Redis; no other bar touches the key.
Written(bar) ==
  IF Transits(bar) THEN Persist(NewState(bar)) /\ stale' = FALSE
                   ELSE UNCHANGED <<key, stale>>

\* A bar is processed to the end: update, the strategies, then
\* update_from_features.
Bar(bar) ==
  /\ Remember(bar)
  /\ Written(bar)
  /\ prevWidth' = bar.width

\* A command fails and ends the handler, in _persist or after update: the
\* previous width is not updated.
BarFails(bar) ==
  /\ Remember(bar)
  /\ \/ Written(bar)
     \/ /\ Transits(bar)
        /\ PersistHalf(NewState(bar)) \/ key' = key
        /\ stale' = TRUE
  /\ UNCHANGED prevWidth

\* mark_triggered: a chaseable signal has been published, whatever the state.
MarkTriggered ==
  /\ st' = "triggered"
  /\ ticks' = 0
  /\ UNCHANGED <<entered, declining, prevWidth, key, stale, reset, quiet>>

\* A bar whose indicators are not warm only updates the previous width.
WarmUp(width) ==
  /\ prevWidth' = width
  /\ UNCHANGED <<st, entered, declining, ticks, key, stale, reset, quiet>>

SetupRestart ==
  /\ st' = "idle"
  /\ entered' = Unset
  /\ declining' = 0
  /\ ticks' = 0
  /\ prevWidth' = 0
  /\ stale' = TRUE
  /\ reset' = 0
  /\ UNCHANGED <<key, quiet>>

SetupTick ==
  /\ entered' = IF entered = Unset THEN Unset ELSE UpTo(MaxState + 1, entered + 1)
  /\ key' = IF Aged(key.life) = Absent THEN [state |-> "none", life |-> Absent]
            ELSE [key EXCEPT !.life = Aged(@)]
  /\ quiet' = TRUE
  /\ UNCHANGED <<st, declining, ticks, prevWidth, stale, reset>>

BarStep == \E bar \in Bars : Bar(bar) \/ BarFails(bar)

SetupNext ==
  \/ BarStep
  \/ MarkTriggered
  \/ \E width \in Zones : WarmUp(width)
  \/ SetupRestart
  \/ SetupTick

\* In a session time passes and bars keep coming.
SetupSpec == SetupInit /\ [][SetupNext]_setupVars /\ WF_setupVars(SetupTick) /\ []<>(~quiet)

-----------------------------------------------------------------------------
(* Properties. *)

\* The dashboard shows no setup that is over: unless a write was cut short or
\* the scanner has restarted, an idle or expired symbol has no key.
FinishedHasNoKey ==
  Ends(st) /\ ~stale => key.state = "none"

\* It shows every setup that is not: the key of an active state is there until
\* the state itself is due to time out.
ActiveIsShown ==
  st \in ActiveStates /\ ~stale /\ entered <= MaxState =>
    key.state = st /\ key.life > 0

\* A setup that has ended starts from nothing: what counts for the next one are
\* bars that came after the end, never those of the setup before it.
OwnBarsOnly == declining <= reset

\* What the memory of the symbol and the key say, across failing writes, expiring
\* keys and restarts.
SetupSafe ==
  /\ SetupTypeOK
  /\ FinishedHasNoKey
  /\ ActiveIsShown
  /\ OwnBarsOnly

\* No setup stays in one state for ever, whatever the bars look like.
NoStateForever ==
  \A s \in ActiveStates : (st = s) ~> (st # s)

-----------------------------------------------------------------------------
(* What makes SetupSafe inductive. *)

\* Only a transition leads to an active state, and it stores when.
ActiveWasEntered == st \in ActiveStates => entered # Unset

\* The key loses a tick of its life for every tick of the state's.
KeyOutlivesState ==
  st \in ActiveStates /\ ~stale /\ entered <= MaxState =>
    key.state = st /\ key.life >= StateTtl - entered

SetupIInv ==
  /\ SetupTypeOK
  /\ FinishedHasNoKey
  /\ ActiveWasEntered
  /\ KeyOutlivesState
  /\ OwnBarsOnly
=============================================================================
