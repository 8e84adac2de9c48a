---------------------------- MODULE SectorStrength ----------------------------
(***************************************************************************)
(* The sector layer of the scanner (services/scanner, sector.py): every    *)
(* feature of a symbol recomputes the strength of its sector, every fifth  *)
(* one and a timer rank the sectors and write them to Redis, the index     *)
(* sets the market's regime, and a signal's conviction is adjusted by all  *)
(* of these.                                                               *)
(* The strength takes a bonus from its own last change, so it depends on   *)
(* the past; a restart reads the features back from Redis and loses that   *)
(* past.                                                                   *)
(*                                                                         *)
(* Strength is in hundredths of a point, a change in percent and a volume  *)
(* ratio in hundredths.  A feature says of a price only whether it is      *)
(* above the VWAP and the EMA20.  The averages, the counts and the time    *)
(* stamps that are written beside the strength are left out.               *)
(* RecomputedKept is a faulty variant, kept to see the properties fail.    *)
(***************************************************************************)
EXTENDS Integers, FiniteSetsExt, Functions

CONSTANTS
  Members,         \* the symbols of the sectors
  NSectors,        \* the sectors, in the order of the symbol master
  SectorOf,        \* the sector of each symbol
  Readings,        \* what a feature can say of a symbol
  IndexReadings,   \* what a feature can say of the index
  RankEvery,       \* updates between two rankings, 5
  MaxUpdates,      \* bound: features of symbols
  MaxSectorFaults  \* bound: restarts and failing writes

SectorIds == 1..NSectors

ASSUME SectorAssumption ==
  /\ NSectors \in Nat \ {0}
  /\ IsFiniteSet(Members)
  /\ SectorOf \in [Members -> SectorIds]
  /\ Readings \subseteq
       [vwap: BOOLEAN, ema: BOOLEAN, change: Int, rsi: Int, volume: Nat]
  /\ IndexReadings \subseteq [vwap: BOOLEAN, change10: Int, rsi: Int]
  /\ RankEvery \in Nat \ {0}
  /\ MaxUpdates \in Nat
  /\ MaxSectorFaults \in Nat

VARIABLES
  stored,     \* infusion:feature:{symbol}: the last feature of each symbol
  snapshot,   \* SectorState.constituents
  strength,   \* strength_score of each sector
  delta,      \* strength_delta of each sector
  rank,       \* rank of each sector
  regime,     \* the market's regime
  updates,    \* _updates
  published,  \* what Redis says of each sector
  quiet,      \* history: the recomputations of a sector since its features changed
  seen,       \* history: the features so far
  sectorFaults

sectorScores == <<strength, delta>>
sectorVars ==
  <<stored, snapshot, strength, delta, rank, regime, updates, published, quiet,
    seen, sectorFaults>>

Unread == [unread |-> TRUE]
Regimes == {"risk_on", "neutral", "risk_off"}
Trends == {"improving", "stable", "deteriorating"}

\* More recomputations than the strength remembers.
QuietEnough == 4

-----------------------------------------------------------------------------
(* _recompute_sector: what the features alone say of a sector. *)

Clip(x, low, high) == IF x < low THEN low ELSE IF x > high THEN high ELSE x

Constituents(s, shot) == {m \in Members : SectorOf[m] = s /\ shot[m] # Unread}

Total(s, shot, F(_)) == MapThenSumSet(LAMBDA m : F(shot[m]), Constituents(s, shot))

Share(s, shot, P(_)) ==
  LET all == Constituents(s, shot)
  IN  (100 * Cardinality({m \in all : P(shot[m])})) \div Cardinality(all)

\* breadth_score, in hundredths of a point.
Breadth(s, shot) ==
  IF Constituents(s, shot) = {} THEN 0
  ELSE 40 * Share(s, shot, LAMBDA r : r.vwap)
       + 30 * Share(s, shot, LAMBDA r : r.ema)
       + 30 * Share(s, shot, LAMBDA r : r.change > 0)

\* Breadth 35, volume 20, RSI 20 and change 15 of a hundred.
Base(s, shot) ==
  LET n == Cardinality(Constituents(s, shot))
      volume == Clip((Total(s, shot, LAMBDA r : r.volume) * 10) \div n, 0, 2000)
      rsi == Clip(((Total(s, shot, LAMBDA r : r.rsi) - 30 * n) * 50) \div n, 0, 2000)
      change == Clip(((Total(s, shot, LAMBDA r : r.change) + 2 * n) * 375) \div n, 0, 1500)
  IN  IF n = 0 THEN 0
      ELSE (35 * Breadth(s, shot)) \div 100 + volume + rsi + change

\* momentum_bonus, ten of a hundred: the last change, up to ten points.
Momentum(d) == Clip(d, 0, 1000)

RecomputedKept(s, shot, str, dlt) ==
  LET now == Clip(Base(s, shot) + Momentum(dlt), 0, 10000)
  IN  IF Constituents(s, shot) = {} THEN [strength |-> str, delta |-> dlt]
      ELSE [strength |-> now, delta |-> IF now = str THEN dlt ELSE now - str]

\* The strength and its change after a recomputation.
Recomputed(s, shot, str, dlt) ==
  LET now == Clip(Base(s, shot) + Momentum(dlt), 0, 10000)
  IN  IF Constituents(s, shot) = {} THEN [strength |-> str, delta |-> dlt]
      ELSE [strength |-> now, delta |-> now - str]

Trend(d) ==
  IF d > 200 THEN "improving" ELSE IF d < -200 THEN "deteriorating" ELSE "stable"

\* _recalculate_rankings: sorted, strongest first, ties in the given order.
Ranking(str) ==
  [s \in SectorIds |->
     1 + Cardinality({t \in SectorIds :
                        str[t] > str[s] \/ (str[t] = str[s] /\ t < s)})]

\* _persist_all: one pipeline.
Persisted(str, dlt, rnk) ==
  [s \in SectorIds |->
     [strength |-> str[s], delta |-> dlt[s], rank |-> rnk[s], trend |-> Trend(dlt[s])]]

-----------------------------------------------------------------------------

\* _classify_regime
Regime(index) ==
  IF index.rsi < 40 \/ index.change10 < -15 THEN "risk_off"
  ELSE IF index.rsi > 55 /\ index.change10 > 0 /\ index.vwap THEN "risk_on"
  ELSE "neutral"

Scores == 0..10000
Changes == -10000..10000

Published == [strength: Int, delta: Int, rank: SectorIds, trend: Trends]

\* Two sectors never share a rank.
SectorTypeOK ==
  /\ stored \in [Members -> Readings \cup {Unread}]
  /\ snapshot \in [Members -> Readings \cup {Unread}]
  /\ strength \in [SectorIds -> Scores]
  /\ delta \in [SectorIds -> Changes]
  /\ rank \in [SectorIds -> SectorIds] /\ IsInjective(rank)
  /\ regime \in Regimes
  /\ updates \in 0..MaxUpdates
  /\ published \in [SectorIds -> Published]
  /\ quiet \in [SectorIds -> 0..QuietEnough]
  /\ seen \in 0..MaxUpdates
  /\ sectorFaults \in 0..MaxSectorFaults

\* startup: the constituents are read from Redis and every sector is computed
\* from a strength of 0.
Seeded(shot) ==
  [s \in SectorIds |-> Recomputed(s, shot, 0, 0)]

Boot(shot) ==
  LET str == [s \in SectorIds |-> Seeded(shot)[s].strength]
      dlt == [s \in SectorIds |-> Seeded(shot)[s].delta]
  IN  [strength |-> str, delta |-> dlt, rank |-> Ranking(str),
       published |-> Persisted(str, dlt, Ranking(str))]

SectorInit ==
  /\ stored \in [Members -> Readings \cup {Unread}]
  /\ snapshot = stored
  /\ \E boot \in {Boot(stored)} :
       /\ strength = boot.strength
       /\ delta = boot.delta
       /\ rank = boot.rank
       /\ published = boot.published
  /\ regime = "neutral"
  /\ updates = 0
  /\ quiet = [s \in SectorIds |-> 0]
  /\ seen = 0
  /\ sectorFaults = 0

-----------------------------------------------------------------------------
(* A feature arrives. *)

\* The ranking and what is written of it, after a fifth update.

RankAndPersist ==
  /\ rank' = Ranking(strength')
  /\ published' = Persisted(strength', delta', rank')

\* The pipeline fails: the ranks are new, Redis is as it was, and the error ends
\* the handling of the feature.
RankAndFail ==
  /\ sectorFaults < MaxSectorFaults
  /\ sectorFaults' = sectorFaults + 1
  /\ rank' = Ranking(strength')
  /\ UNCHANGED published

\* update_symbol of a constituent.  The feature engine has written the same
\* feature to Redis.
UpdateSymbol(m, r) ==
  /\ seen < MaxUpdates
  /\ seen' = seen + 1
  /\ stored' = [stored EXCEPT ![m] = r]
  /\ snapshot' = [snapshot EXCEPT ![m] = r]
  /\ LET s == SectorOf[m] IN
       \E new \in {Recomputed(s, snapshot', strength[s], delta[s])} :
         /\ strength' = [strength EXCEPT ![s] = new.strength]
         /\ delta' = [delta EXCEPT ![s] = new.delta]
         /\ quiet' = [quiet EXCEPT ![s] =
                         IF snapshot[m] = r THEN Clip(@ + 1, 0, QuietEnough) ELSE 0]
  /\ updates' = updates + 1
  /\ UNCHANGED regime
  /\ IF updates' % RankEvery # 0
       THEN UNCHANGED <<rank, published, sectorFaults>>
       ELSE RankAndFail \/ (RankAndPersist /\ UNCHANGED sectorFaults)

\* sector_persist_loop, every minute: the error of a failing pipeline is logged.
PersistTick ==
  /\ UNCHANGED <<stored, snapshot, sectorScores, regime, updates, quiet, seen>>
  /\ RankAndFail \/ (RankAndPersist /\ UNCHANGED sectorFaults)

\* _update_index
UpdateIndex(index) ==
  /\ regime' = Regime(index)
  /\ UNCHANGED <<stored, snapshot, sectorScores, rank, updates, published, quiet,
                 seen, sectorFaults>>

\* The scanner is started again: only what Redis holds of the features is left.
SectorRestart ==
  /\ sectorFaults < MaxSectorFaults
  /\ sectorFaults' = sectorFaults + 1
  /\ snapshot' = stored
  /\ \E boot \in {Boot(stored)} :
       /\ strength' = boot.strength
       /\ delta' = boot.delta
       /\ rank' = boot.rank
       /\ published' = boot.published
  /\ regime' = "neutral"
  /\ updates' = 0
  /\ quiet' = [s \in SectorIds |-> 0]
  /\ UNCHANGED <<stored, seen>>

SectorNext ==
  \/ \E m \in Members, r \in Readings : UpdateSymbol(m, r)
  \/ \E index \in IndexReadings : UpdateIndex(index)
  \/ PersistTick
  \/ SectorRestart

SectorSpec == SectorInit /\ [][SectorNext]_sectorVars

-----------------------------------------------------------------------------
(* compute_sector_adjustment: what a signal's conviction is given. *)

StrengthPoints(points) ==
  IF points >= 7000 THEN 8
  ELSE IF points >= 5000 THEN 3
  ELSE IF points < 3000 THEN -10
  ELSE 0

BreadthPoints(points) ==
  IF points >= 7000 THEN 5 ELSE IF points < 3000 THEN -5 ELSE 0

\* get_relative_strength against one percent either way.
RelativePoints(m, shot) ==
  LET s == SectorOf[m]
      n == Cardinality(Constituents(s, shot))
      ahead == n * shot[m].change - Total(s, shot, LAMBDA r : r.change)
  IN  IF shot[m] = Unread THEN 0
      ELSE IF ahead > n THEN 5 ELSE IF ahead < -n THEN -5 ELSE 0

TrendPoints(trend) ==
  IF trend = "improving" THEN 2 ELSE IF trend = "deteriorating" THEN -3 ELSE 0

RegimePoints ==
  IF regime = "risk_on" THEN 3 ELSE IF regime = "risk_off" THEN -10 ELSE 0

\* What the features and the index alone are worth.
FeaturePoints(m) ==
  BreadthPoints(Breadth(SectorOf[m], snapshot)) + RelativePoints(m, snapshot)
    + RegimePoints

\* In quarters of a point, for the bearish side takes three quarters of it with
\* the sign turned.
Adjustment(direction, features, str, trend) ==
  LET sum == features + StrengthPoints(str) + TrendPoints(trend)
  IN  Clip(IF direction = "bearish" THEN -3 * sum ELSE 4 * sum, -80, 60)

-----------------------------------------------------------------------------
(* Properties. *)

\* "Deterministic", and fed back on itself: a strength that is computed again
\* and again from the same features comes to rest on what those features say,
\* within three computations, and one more calls the trend stable.
StrengthSettles ==
  \A s \in SectorIds :
    /\ quiet[s] >= 3 => strength[s] = Base(s, snapshot)
    /\ quiet[s] >= 4 => delta[s] = 0 /\ Trend(delta[s]) = "stable"

\* What the sector's past can add to a signal's conviction or take from it: with
\* the same features and a sector at rest it would be at most twelve points
\* lower or three higher.
PastIsBounded ==
  \A m \in {x \in Members : snapshot[x] # Unread} :
    LET s == SectorOf[m]
        features == FeaturePoints(m)
        base == Base(s, snapshot)
        gain(direction) ==
          Adjustment(direction, features, strength[s], Trend(delta[s]))
            - Adjustment(direction, features, base, "stable")
    IN  gain("bullish") \in -12..48 /\ gain("bearish") \in -36..9

\* What Redis says of the sectors is of one moment: the stronger is ranked
\* first, and no two share a rank, whatever failed in between.
PublishedAtOnce ==
  \A s, t \in SectorIds :
    /\ published[s].rank = published[t].rank => s = t
    /\ published[s].strength > published[t].strength
         => published[s].rank < published[t].rank

\* Same features, same rankings: sectors at rest are ranked as they would be
\* if the scanner were started now, once a ranking has been made.
RanksFollowFeatures ==
  (/\ updates % RankEvery = 0
   /\ \A s \in SectorIds : quiet[s] >= 3)
    => rank = Ranking([s \in SectorIds |-> Base(s, snapshot)])

\* The strength, the ranks and what is published of them follow the features.
SectorSafe ==
  /\ SectorTypeOK
  /\ StrengthSettles
  /\ PastIsBounded
  /\ PublishedAtOnce
  /\ RanksFollowFeatures
=============================================================================
