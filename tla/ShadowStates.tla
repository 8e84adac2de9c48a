----------------------------- MODULE ShadowStates -----------------------------
(***************************************************************************)
(* The shadow state machine of the api service (ebie_state_queue.py): a    *)
(* sweep that maps what the other services say of a symbol to one of nine  *)
(* canonical states for one direction, logs a row in Postgres where that   *)
(* state is not the one cached in Redis for the symbol and direction,      *)
(* writes the cache, and then a verdict for the symbol.  The rows are      *)
(* inserted one by one; the cache is a pipeline that is no transaction; an *)
(* exception ends the sweep, and a minute later the next one starts.       *)
(*                                                                         *)
(* One symbol is modelled: no sweep relates two of them, except that the   *)
(* rows of one may be in when those of another raise, which is what        *)
(* SweepRaises does.                                                       *)
(* CacheAfterShared is a faulty variant, kept to see the properties fail.  *)
(***************************************************************************)
EXTENDS Integers, SequencesExt, FiniteSetsExt

CONSTANTS
  Evidence,        \* what _build_ticks says of a symbol, see IsEvidence
  MaxShadowSweeps, \* bound: sweeps in a behaviour
  MaxShadowFaults  \* bound: statements that raise, and cached states that expire

BreakoutTiers == {"NO_CHASE", "EARLY_WATCH", "RETEST_ENTRY", "BREAKOUT_NOW", "OPTION_READY"}
SetupStates == {"IDLE", "COMPRESSING", "ACCUMULATING", "COILED", "TRIGGERED", "EXPIRED"}
Directions == {"BULLISH", "BEARISH"}

IsEvidence(e) ==
  /\ e.tier \in BreakoutTiers /\ e.setup \in SetupStates
  /\ e.direction \in Directions
  /\ {e.clean, e.chased, e.reliable} \subseteq BOOLEAN

ASSUME ShadowAssumption ==
  /\ \A e \in Evidence : IsEvidence(e)
  /\ MaxShadowSweeps \in Nat /\ MaxShadowFaults \in Nat

CANONICAL_STATES == {"IDLE", "DEVELOPING", "PRE_BREAKOUT", "PRE_BREAKDOWN", "READY",
                     "ARMED", "TRIGGERED", "CONFIRMED", "FAILED"}
NoShadow == "none"

VARIABLES
  shadowStep,   \* asleep, signal (rows read), mapped, logged, cached
  entry,        \* the row this sweep works with
  mapped,       \* the state it has mapped it to
  before,       \* the state it has found cached
  shadowCache,  \* KEY_EBIE_STATE_PREFIX, per direction
  log,          \* ebie_state_transitions of the symbol
  verdictLite,  \* KEY_EBIE_VERDICT_LITE_PREFIX
  shadowSweeps,
  shadowFaults

shadowVars == <<shadowStep, entry, mapped, before, shadowCache, log,
                verdictLite, shadowSweeps, shadowFaults>>

Verdicts == {"NO_TRADE", "WATCH_LONG", "WATCH_SHORT", "LONG_DEVELOPING",
  "SHORT_DEVELOPING", "LONG_READY", "SHORT_READY", "BREAKOUT_ARMED",
  "BREAKDOWN_ARMED", "AVOID_TRAP_RISK", "DATA_UNRELIABLE"}

States == CANONICAL_STATES \cup {NoShadow}
Rows == [direction : Directions, state : CANONICAL_STATES, prev : States]
VerdictLites ==
  [label : Verdicts \cup {NoShadow}, state : States, direction : Directions \cup {NoShadow}]

ShadowTypeOK ==
  /\ entry \in Evidence
  /\ shadowStep \in {"asleep", "signal", "mapped", "logged", "cached"}
  /\ mapped \in States /\ before \in States
  /\ shadowCache \in [Directions -> States]
  /\ log \in Seq(Rows)
  /\ \A i \in DOMAIN log : log[i].prev # log[i].state
  /\ verdictLite \in VerdictLites

ShadowInit ==
  /\ shadowStep = "asleep"
  /\ entry \in Evidence
  /\ mapped = NoShadow /\ before = NoShadow
  /\ shadowCache = [d \in Directions |-> NoShadow]
  /\ log = <<>>
  /\ verdictLite = [label |-> NoShadow, state |-> NoShadow, direction |-> NoShadow]
  /\ shadowSweeps = 0
  /\ shadowFaults = 0

-----------------------------------------------------------------------------
(* Pure functions. *)

Watching(e) == IF e.direction = "BEARISH" THEN "PRE_BREAKDOWN" ELSE "PRE_BREAKOUT"

\* map_ebie_state: what the evidence comes to, without a signal.
FromEvidence(e) ==
  CASE e.setup = "TRIGGERED" -> "TRIGGERED"
    [] e.tier = "OPTION_READY" \/ (e.tier = "BREAKOUT_NOW" /\ e.clean) -> "ARMED"
    [] e.tier \in {"RETEST_ENTRY", "BREAKOUT_NOW"} -> "READY"
    [] e.tier = "EARLY_WATCH" \/ e.setup = "COILED" -> Watching(e)
    [] e.setup \in {"COMPRESSING", "ACCUMULATING"} -> "DEVELOPING"
    [] e.setup = "EXPIRED" -> "FAILED"
    [] OTHER -> "IDLE"

\* map_ebie_state.
MapSymbol(e, hasSignal) == IF hasSignal THEN "CONFIRMED" ELSE FromEvidence(e)

Sided(direction, long, short) == IF direction = "BULLISH" THEN long ELSE short

StateLabel(e, state) ==
  CASE state \in {"IDLE", "FAILED"} -> "NO_TRADE"
    [] state = "DEVELOPING" -> Sided(e.direction, "LONG_DEVELOPING", "SHORT_DEVELOPING")
    [] state = "PRE_BREAKOUT" -> "WATCH_LONG"
    [] state = "PRE_BREAKDOWN" -> "WATCH_SHORT"
    [] state = "READY" -> Sided(e.direction, "LONG_READY", "SHORT_READY")
    [] OTHER -> Sided(e.direction, "BREAKOUT_ARMED", "BREAKDOWN_ARMED")

TrapStates == {"READY", "ARMED", "TRIGGERED", "CONFIRMED"}

\* compute_lightweight_verdict.
Label(e, state) ==
  CASE ~e.reliable -> "DATA_UNRELIABLE"
    [] e.chased /\ state \in TrapStates -> "AVOID_TRAP_RISK"
    [] OTHER -> StateLabel(e, state)

-----------------------------------------------------------------------------
(* One sweep. *)

\* The other services go on meanwhile: any row may be found, and a signal may
\* or may not be there when it is looked up.
ReadTicks ==
  /\ shadowStep = "asleep" /\ shadowSweeps < MaxShadowSweeps
  /\ shadowSweeps' = shadowSweeps + 1
  /\ entry' \in Evidence
  /\ shadowStep' = "signal"
  /\ UNCHANGED <<mapped, before, shadowCache, log, verdictLite, shadowFaults>>

\* The signal is looked up, the row mapped, and the cached state read.
MapRow ==
  /\ shadowStep = "signal"
  /\ \E signal \in BOOLEAN : mapped' = MapSymbol(entry, signal)
  /\ before' = shadowCache[entry.direction]
  /\ shadowStep' = "mapped"
  /\ UNCHANGED <<entry, shadowCache, log, verdictLite, shadowSweeps, shadowFaults>>

NewTransition == [direction |-> entry.direction, state |-> mapped, prev |-> before]

LogRow == log' = IF before = mapped THEN log ELSE Append(log, NewTransition)

InsertRow ==
  /\ shadowStep = "mapped"
  /\ LogRow
  /\ shadowStep' = "logged"
  /\ UNCHANGED <<entry, mapped, before, shadowCache, verdictLite,
                 shadowSweeps, shadowFaults>>

CacheAfterShared == [d \in Directions |-> mapped]

\* What _write_states leaves.
CacheAfter == [shadowCache EXCEPT ![entry.direction] = mapped]

WriteCache ==
  /\ shadowStep = "logged"
  /\ shadowCache' = CacheAfter
  /\ shadowStep' = "cached"
  /\ UNCHANGED <<entry, mapped, before, log, verdictLite,
                 shadowSweeps, shadowFaults>>

WriteVerdict ==
  /\ shadowStep = "cached"
  /\ verdictLite' = [label |-> Label(entry, mapped), state |-> mapped,
                     direction |-> entry.direction]
  /\ shadowStep' = "asleep"
  /\ UNCHANGED <<entry, mapped, before, shadowCache, log,
                 shadowSweeps, shadowFaults>>

\* A statement raises, or the api is restarted, before or after it has been
\* executed; what was written stays.
SweepRaises ==
  /\ shadowStep # "asleep" /\ shadowFaults < MaxShadowFaults
  /\ shadowFaults' = shadowFaults + 1
  /\ shadowStep' = "asleep"
  /\ \/ UNCHANGED <<log, shadowCache>>
     \/ shadowStep = "mapped" /\ LogRow /\ UNCHANGED shadowCache
     \/ shadowStep = "logged" /\ shadowCache' = CacheAfter /\ UNCHANGED log
  /\ UNCHANGED <<entry, mapped, before, verdictLite, shadowSweeps>>

\* EBIE_STATE_TTL_SEC is over for a direction that was not written for a day.
CacheExpires(d) ==
  /\ shadowFaults < MaxShadowFaults
  /\ shadowCache[d] # NoShadow
  /\ shadowFaults' = shadowFaults + 1
  /\ shadowCache' = [shadowCache EXCEPT ![d] = NoShadow]
  /\ UNCHANGED <<shadowStep, entry, mapped, before, log, verdictLite, shadowSweeps>>

ShadowNext ==
  \/ ReadTicks \/ MapRow \/ InsertRow \/ WriteCache \/ WriteVerdict
  \/ SweepRaises
  \/ \E d \in Directions : CacheExpires(d)

ShadowSpec == ShadowInit /\ [][ShadowNext]_shadowVars

-----------------------------------------------------------------------------
(* Properties. *)

\* What the last of the first n rows about a direction says of it.
Said(rows, d, n) ==
  LET about == {j \in 1..n : rows[j].direction = d}
  IN  IF about = {} THEN NoShadow
      ELSE rows[CHOOSE j \in about : \A k \in about : k <= j].state

\* The rows of a direction form a chain: each starts where the one before it
\* ended, however often the other direction came between; and between sweeps
\* the last of them says what the cache says.
LogIsAChain ==
  shadowFaults = 0 =>
    /\ \A i \in DOMAIN log : log[i].prev = Said(log, log[i].direction, i - 1)
    /\ shadowStep = "asleep" =>
         \A d \in Directions : shadowCache[d] = Said(log, d, Len(log))

\* The rows about a direction that say what the one before them said.
Repeats(d) ==
  {i \in DOMAIN log : log[i].direction = d /\ log[i].state = Said(log, d, i - 1)}

\* A state is logged twice in a row for a direction only where a sweep has
\* raised or a cached state has expired, and once for each time.
RepeatsPerFault ==
  \A d \in Directions : Cardinality(Repeats(d)) <= shadowFaults

Long == {"WATCH_LONG", "LONG_DEVELOPING", "LONG_READY", "BREAKOUT_ARMED"}
Short == {"WATCH_SHORT", "SHORT_DEVELOPING", "SHORT_READY", "BREAKDOWN_ARMED"}

\* The verdict shown is on the side of its direction, and its state was logged
\* for that direction before it was shown.
VerdictIsLogged ==
  LET d == verdictLite.direction
  IN  d # NoShadow =>
        /\ verdictLite.label \notin Sided(d, Short, Long)
        /\ \E i \in DOMAIN log : log[i].direction = d /\ log[i].state = verdictLite.state

\* The log of the shadow states, their cache and the verdict shown agree.
ShadowSafe == ShadowTypeOK /\ LogIsAChain /\ RepeatsPerFault /\ VerdictIsLogged
=============================================================================
