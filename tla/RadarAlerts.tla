----------------------------- MODULE RadarAlerts -----------------------------
(***************************************************************************)
(* The sweep of the api service that turns breakout tiers into alerts      *)
(* (services/api, radar_alert_queue.py): it compares the tier of every     *)
(* symbol with the one it left in Redis a sweep ago, opens a row of        *)
(* radar_alerts when the symbol has crossed the threshold, and revisits    *)
(* the open row otherwise.  Every statement is a transaction of its own;   *)
(* the tiers are written when all symbols are done; an exception ends the  *)
(* sweep where it is, and a minute later the next one starts.              *)
(* Time is counted in sweeps.  A symbol may be missing from the ticks.     *)
(* OpenRowsAny and ExpirePresent are faulty variants, kept to see the      *)
(* properties fail.                                                        *)
(***************************************************************************)
EXTENDS Integers, SequencesExt, FiniteSetsExt

CONSTANTS
  RadarSymbols,
  RadarStale,      \* RADAR_ALERT_STALE_HOURS, in sweeps
  TierTTL,         \* TIER_STATE_TTL_SEC, in sweeps
  MaxSweeps,       \* bound: sweeps in a behaviour
  MaxRadarFaults   \* bound: statements that raise

ASSUME RadarAssumption ==
  /\ IsFiniteSet(RadarSymbols)
  /\ RadarStale \in Nat
  /\ TierTTL \in Nat /\ TierTTL > RadarStale
  /\ MaxSweeps \in Nat
  /\ MaxRadarFaults \in Nat

\* NO_CHASE, EARLY_WATCH or RETEST_ENTRY, BREAKOUT_NOW or OPTION_READY; and
\* what _rank makes of a tier that is not there.
Tiers == 0..2
NoTier == -1
ALERT_THRESHOLD_RANK == 1
GRADUATION_THRESHOLD_RANK == 2

VARIABLES
  sweeps,      \* sweeps started
  radarStep,   \* asleep, rows (going through the symbols), ends
  tiers,       \* the tiers this sweep has computed
  previous,    \* the tiers it has read from Redis
  todo,        \* symbols it has not come to
  cache,       \* per symbol: the tier in Redis, and the sweep it is from
  rows,        \* radar_alerts, in the order of their ids
  below,       \* history: last sweep to leave the symbol below the threshold
  radarFaults

sweep == <<radarStep, tiers, previous, todo>>
radarVars == <<sweeps, sweep, cache, rows, below, radarFaults>>

Labels == {"PENDING", "GRADUATED", "FADED", "EXPIRED"}

Alerts == [symbol: RadarSymbols, fire: Tiers, best: Tiers, label: Labels, fired: Nat]

RadarTypeOK ==
  /\ sweeps \in 0..MaxSweeps
  /\ radarStep \in {"asleep", "rows", "ends"}
  /\ DOMAIN tiers \subseteq RadarSymbols /\ tiers \in [DOMAIN tiers -> Tiers]
  /\ previous \in [DOMAIN tiers -> Tiers \cup {NoTier}]
  /\ todo \subseteq DOMAIN tiers
  /\ cache \in [RadarSymbols -> [tier: Tiers \cup {NoTier}, at: Nat]]
  /\ rows \in Seq(Alerts)
  /\ \A i \in DOMAIN rows :
       /\ rows[i].fire <= rows[i].best
       /\ rows[i].fired \in 1..sweeps
  /\ below \in [RadarSymbols -> 0..sweeps]
  /\ radarFaults \in 0..MaxRadarFaults

RadarInit ==
  /\ sweeps = 0
  /\ radarStep = "asleep"
  /\ tiers = <<>>
  /\ previous = <<>>
  /\ todo = {}
  /\ cache = [s \in RadarSymbols |-> [tier |-> NoTier, at |-> 0]]
  /\ rows = <<>>
  /\ below = [s \in RadarSymbols |-> 0]
  /\ radarFaults = 0

-----------------------------------------------------------------------------
(* One sweep. *)

\* _read_tier_state.
Cached(s) ==
  IF cache[s].at + TierTTL >= sweeps THEN cache[s].tier ELSE NoTier

WithTiers(at) ==
  [s \in RadarSymbols |->
     IF s \in DOMAIN tiers THEN [tier |-> tiers[s], at |-> at] ELSE cache[s]]

\* The first part of sweep_once: _build_ticks and the cached tiers.

StartSweep ==
  /\ radarStep = "asleep" /\ sweeps < MaxSweeps
  /\ sweeps' = sweeps + 1
  /\ \E present \in SUBSET RadarSymbols : tiers' \in [present -> Tiers]
  /\ previous' = [s \in DOMAIN tiers' |-> Cached(s)]
  /\ todo' = DOMAIN tiers'
  /\ radarStep' = "rows"
  /\ UNCHANGED <<cache, rows, below, radarFaults>>

OpenRowsAny(s) == {i \in DOMAIN rows : rows[i].symbol = s}

OpenRows(s) ==
  {i \in DOMAIN rows : rows[i].symbol = s /\ rows[i].label = "PENDING"}

\* The INSERT: a new row is pending, whatever its tier.
Insert(s) ==
  Append(rows, [symbol |-> s, fire |-> tiers[s], best |-> tiers[s],
                label |-> "PENDING", fired |-> sweeps])

Better(i, tier) == IF tier > rows[i].best THEN tier ELSE rows[i].best

Verdict(tier) ==
  CASE tier >= GRADUATION_THRESHOLD_RANK -> "GRADUATED"
    [] tier < ALERT_THRESHOLD_RANK -> "FADED"
    [] OTHER -> "PENDING"

\* The rows after the symbol's newest open row has been looked at.
Revisit(s) ==
  LET i == Max(OpenRows(s))
  IN  [rows EXCEPT ![i] = [[@ EXCEPT !.best = Better(i, tiers[s])]
                             EXCEPT !.label = Verdict(tiers[s])]]

WasAlerted(s) == previous[s] >= ALERT_THRESHOLD_RANK
IsAlerted(s) == tiers[s] >= ALERT_THRESHOLD_RANK

\* What the sweep does to the rows for symbol s.  A symbol that was above the
\* threshold and has no open row gets one, even if it has dropped below.
RowsAfter(s) ==
  CASE ~WasAlerted(s) /\ ~IsAlerted(s) -> rows
    [] ~WasAlerted(s) /\ IsAlerted(s) -> Insert(s)
    [] WasAlerted(s) /\ OpenRows(s) = {} -> Insert(s)
    [] OTHER -> Revisit(s)

VisitSymbol(s) ==
  /\ radarStep = "rows"
  /\ s \in todo
  /\ rows' = RowsAfter(s)
  /\ todo' = todo \ {s}
  /\ UNCHANGED <<sweeps, radarStep, tiers, previous, cache, below, radarFaults>>

ExpirePresent(i) ==
  /\ rows[i].label = "PENDING" /\ rows[i].fired + RadarStale < sweeps
  /\ rows[i].symbol \in DOMAIN tiers

\* What the last UPDATE is about.
Expire(i) == rows[i].label = "PENDING" /\ rows[i].fired + RadarStale < sweeps

ExpireRows ==
  /\ radarStep = "rows" /\ todo = {}
  /\ rows' = [i \in DOMAIN rows |->
       IF Expire(i) THEN [rows[i] EXCEPT !.label = "EXPIRED"] ELSE rows[i]]
  /\ radarStep' = "ends"
  /\ UNCHANGED <<sweeps, tiers, previous, todo, cache, below, radarFaults>>

SweepOver ==
  /\ radarStep' = "asleep"
  /\ tiers' = <<>>
  /\ previous' = <<>>
  /\ todo' = {}

\* _write_tier_state, and the sleep.
EndSweep ==
  /\ radarStep = "ends"
  /\ cache' = WithTiers(sweeps)
  /\ below' = [s \in RadarSymbols |->
       IF s \in DOMAIN tiers /\ ~IsAlerted(s) THEN sweeps ELSE below[s]]
  /\ SweepOver
  /\ UNCHANGED <<sweeps, rows, radarFaults>>

\* A statement raises, or the process is restarted, before or after it has
\* been executed: radar_alert_loop goes on with the next sweep.  Between the
\* two UPDATEs of one row only its best tier is recorded.
SweepFails ==
  /\ radarStep # "asleep"
  /\ radarFaults < MaxRadarFaults
  /\ radarFaults' = radarFaults + 1
  /\ \/ UNCHANGED rows
     \/ \E s \in todo :
          \/ rows' = RowsAfter(s)
          \/ /\ WasAlerted(s) /\ OpenRows(s) # {}
             /\ rows' = [rows EXCEPT ![Max(OpenRows(s))].best =
                            Better(Max(OpenRows(s)), tiers[s])]
  /\ SweepOver
  /\ UNCHANGED <<sweeps, cache, below>>

\* The api is down for longer than the tiers are kept, or Redis loses them.
TiersLost ==
  /\ radarStep = "asleep"
  /\ radarFaults < MaxRadarFaults
  /\ radarFaults' = radarFaults + 1
  /\ cache' = [s \in RadarSymbols |-> [tier |-> NoTier, at |-> 0]]
  /\ UNCHANGED <<sweeps, sweep, rows, below>>

SweepStep ==
  \/ StartSweep
  \/ \E s \in RadarSymbols : VisitSymbol(s)
  \/ ExpireRows
  \/ EndSweep

RadarNext == SweepStep \/ SweepFails \/ TiersLost

\* The loop sleeps a minute and nothing stops it.
RadarSpec == RadarInit /\ [][RadarNext]_radarVars /\ WF_radarVars(SweepStep)

-----------------------------------------------------------------------------
(* Properties. *)

\* A row was opened for the symbol after it was last seen below the threshold.
AlertedSince(s) == \E i \in DOMAIN rows : rows[i].symbol = s /\ rows[i].fired > below[s]

\* Nobody misses the moment a symbol became interesting: when a sweep has left
\* it above the threshold, a row was opened since it was last below, even if
\* sweeps between failed at any statement.
CrossingIsAlerted ==
  \A s \in RadarSymbols :
    cache[s].tier >= ALERT_THRESHOLD_RANK => AlertedSince(s)

\* A verdict stands: later sweeps change neither the label of a resolved row
\* nor the best tier it was resolved with.
VerdictStands ==
  [][\A i \in DOMAIN rows : rows[i].label # "PENDING" => rows'[i] = rows[i]]_radarVars

\* The radar opens a row for every crossing and keeps what it has said.
RadarSafe == []RadarTypeOK /\ []CrossingIsAlerted /\ VerdictStands

\* A row does not stay pending, not the row behind a newer one either, which
\* no sweep revisits, nor that of a symbol that has left the ticks.
RowResolves ==
  \A n \in 1..(MaxSweeps - RadarStale - MaxRadarFaults - 1) :
    (\E i \in DOMAIN rows : rows[i].label = "PENDING" /\ rows[i].fired <= n)
      ~> (\A i \in DOMAIN rows : rows[i].fired <= n => rows[i].label # "PENDING")

\* "Any previously open row for this symbol has already been resolved [...] by
\* the time it could drop back below the threshold and cross up again" and
\* "the tier-state cache and the PENDING-row lifecycle move in lockstep by
\* construction" (sweep_once), where no statement ever fails.
OneOpenRow ==
  radarFaults = 0 => \A s \in RadarSymbols : Cardinality(OpenRows(s)) <= 1

-----------------------------------------------------------------------------
(* What makes RadarSafe inductive. *)

\* A sweep is younger than what the sweeps before it have left.
SweepIsNew ==
  radarStep # "asleep" => \A s \in RadarSymbols : below[s] < sweeps

\* What a sweep has read of a symbol is still in Redis while it goes through the
\* symbols, or was too old when it was read.
PreviousWasCached ==
  \A s \in DOMAIN tiers : previous[s] \in {cache[s].tier, NoTier}

\* A symbol that this sweep has come to and found above the threshold has a row.
VisitedIsAlerted ==
  \A s \in DOMAIN tiers \ todo : IsAlerted(s) => AlertedSince(s)

AllVisited ==
  /\ radarStep = "ends" => todo = {}
  /\ radarStep = "asleep" => DOMAIN tiers = {}

RadarIInv ==
  /\ RadarTypeOK
  /\ SweepIsNew
  /\ PreviousWasCached
  /\ CrossingIsAlerted
  /\ VisitedIsAlerted
  /\ AllVisited
=============================================================================
