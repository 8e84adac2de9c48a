------------------------------ MODULE ApiProofs ------------------------------
(***************************************************************************)
(* What three jobs of the api, and the scoring of the news it collects,    *)
(* promise for any symbols, signals, positions, windows, articles, lives   *)
(* of the keys and number of failures.                                     *)
(***************************************************************************)
EXTENDS RadarAlerts, TradeJournal, PositionWarnings, NewsSentiment,
        FiniteSetTheorems, SequenceTheorems, WellFoundedInduction, TLAPS

-----------------------------------------------------------------------------
(* The rows of the radar. *)

\* What Max picks of some places in a list is the last of them.
LEMMA MaxIsThere ==
  ASSUME NEW n \in Nat, NEW S \in SUBSET (1..n), S # {}
  PROVE  Max(S) \in S /\ \A i \in S : i <= Max(S)
<1> DEFINE T == {n - i : i \in S}
<1>1. T \subseteq Nat /\ T # {}
  <2>1. \A i \in S : i \in Nat /\ n - i \in Nat
    OBVIOUS
  <2>2. PICK i \in S : TRUE
    OBVIOUS
  <2>3. n - i \in T
    BY <2>2
  <2> QED
    BY <2>1, <2>3
<1>2. \E x \in T : \A y \in T : ~(<<y, x>> \in OpToRel(<, Nat))
  BY <1>1, NatLessThanWellFounded, WFMin
<1>3. PICK x \in T : \A y \in T : ~(<<y, x>> \in OpToRel(<, Nat))
  BY <1>2
<1>4. \A y \in T : ~(y < x)
  BY <1>1, <1>3 DEF OpToRel
<1>5. PICK m \in S : x = n - m
  OBVIOUS
<1>6. \A i \in S : i <= m
  <2> TAKE i \in S
  <2>1. n - i \in T /\ i \in Int /\ m \in Int
    OBVIOUS
  <2> QED
    BY <1>4, <1>5, <2>1
<1> QED
  BY <1>6 DEF Max

\* What later statements may do to the rows: a row keeps its symbol and its sweep,
\* and a verdict stands.
Keeps(old, new) ==
  /\ DOMAIN old \subseteq DOMAIN new
  /\ \A i \in DOMAIN old :
       /\ new[i].symbol = old[i].symbol /\ new[i].fired = old[i].fired
       /\ old[i].label # "PENDING" => new[i] = old[i]

\* What RadarTypeOK asks of the rows.
GoodRows(list) ==
  /\ list \in Seq(Alerts)
  /\ \A i \in DOMAIN list : list[i].fire <= list[i].best /\ list[i].fired \in 1..sweeps

LEMMA InsertHolds ==
  ASSUME RadarTypeOK, sweeps > 0, NEW s \in DOMAIN tiers
  PROVE  /\ GoodRows(Insert(s)) /\ Keeps(rows, Insert(s))
         /\ \E i \in DOMAIN Insert(s) :
              Insert(s)[i].symbol = s /\ Insert(s)[i].fired = sweeps
<1> DEFINE new == [symbol |-> s, fire |-> tiers[s], best |-> tiers[s],
                   label |-> "PENDING", fired |-> sweeps]
<1>1. tiers[s] \in Tiers /\ s \in RadarSymbols /\ sweeps \in Nat /\ tiers[s] \in Int
  BY RadarAssumption DEF RadarTypeOK, Tiers
<1>2. new \in Alerts
  BY <1>1 DEF Alerts, Labels
<1>3. rows \in Seq(Alerts) /\ Len(rows) \in Nat /\ DOMAIN rows = 1..Len(rows)
  BY LenProperties DEF RadarTypeOK
<1>4. /\ new.symbol = s /\ new.fired = sweeps /\ new.fire = tiers[s] /\ new.best = tiers[s]
  OBVIOUS
<1> HIDE DEF new
<1>5. /\ Append(rows, new) \in Seq(Alerts) /\ Len(Append(rows, new)) = Len(rows) + 1
      /\ Append(rows, new)[Len(rows) + 1] = new
      /\ \A i \in 1..Len(rows) : Append(rows, new)[i] = rows[i]
      /\ DOMAIN Append(rows, new) = 1..(Len(rows) + 1)
  BY <1>2, <1>3, AppendProperties, LenProperties
<1>6. Insert(s) = Append(rows, new)
  BY DEF Insert, new
<1>7. \A i \in 1..(Len(rows) + 1) : i \in 1..Len(rows) \/ i = Len(rows) + 1
  BY <1>3
<1>8. GoodRows(Insert(s))
  BY <1>1, <1>3, <1>4, <1>5, <1>6, <1>7 DEF GoodRows, RadarTypeOK
<1>9. Keeps(rows, Insert(s))
  BY <1>3, <1>5, <1>6 DEF Keeps
<1> QED
  BY <1>3, <1>4, <1>5, <1>6, <1>8, <1>9

\* The newest open row is one of the rows, and open.
LEMMA NewestIsOpen ==
  ASSUME RadarTypeOK, NEW s, OpenRows(s) # {}
  PROVE  Max(OpenRows(s)) \in DOMAIN rows /\ rows[Max(OpenRows(s))].label = "PENDING"
<1>1. Len(rows) \in Nat /\ DOMAIN rows = 1..Len(rows)
  BY LenProperties DEF RadarTypeOK
<1>2. OpenRows(s) \in SUBSET (1..Len(rows))
  BY <1>1 DEF OpenRows
<1> QED
  BY <1>1, <1>2, MaxIsThere DEF OpenRows

\* An open row may get a better tier and a label.
LEMMA ChangeHolds ==
  ASSUME RadarTypeOK, NEW k \in DOMAIN rows, rows[k].label = "PENDING",
         NEW tier \in Tiers, NEW label \in Labels
  PROVE  LET best == [rows[k] EXCEPT !.best = Better(k, tier)]
             new == [best EXCEPT !.label = label]
         IN  /\ GoodRows([rows EXCEPT ![k] = best]) /\ Keeps(rows, [rows EXCEPT ![k] = best])
             /\ GoodRows([rows EXCEPT ![k] = new]) /\ Keeps(rows, [rows EXCEPT ![k] = new])
<1> DEFINE best == [rows[k] EXCEPT !.best = Better(k, tier)]
           new == [best EXCEPT !.label = label]
<1>1. /\ rows \in Seq(Alerts) /\ Len(rows) \in Nat /\ DOMAIN rows = 1..Len(rows)
      /\ rows[k] \in Alerts
  BY LenProperties, ElementOfSeq DEF RadarTypeOK
<1>2. Better(k, tier) \in Tiers /\ rows[k].fire <= Better(k, tier)
  BY <1>1 DEF Better, Alerts, Tiers, RadarTypeOK
<1>3. /\ best \in Alerts /\ best.symbol = rows[k].symbol /\ best.fired = rows[k].fired
      /\ best.fire <= best.best
  BY <1>1, <1>2 DEF Alerts
<1>4. /\ new \in Alerts /\ new.symbol = rows[k].symbol /\ new.fired = rows[k].fired
      /\ new.fire <= new.best
  BY <1>3 DEF Alerts
<1> HIDE DEF best, new
<1>5. ASSUME NEW r \in Alerts, r.symbol = rows[k].symbol, r.fired = rows[k].fired,
             r.fire <= r.best
      PROVE  GoodRows([rows EXCEPT ![k] = r]) /\ Keeps(rows, [rows EXCEPT ![k] = r])
  <2>1. [rows EXCEPT ![k] = r] \in Seq(Alerts)
    BY <1>1, ExceptSeq
  <2>2. DOMAIN [rows EXCEPT ![k] = r] = DOMAIN rows
    OBVIOUS
  <2>3. \A i \in DOMAIN rows :
          [rows EXCEPT ![k] = r][i] = IF i = k THEN r ELSE rows[i]
    OBVIOUS
  <2> HIDE DEF best, new
  <2>4. GoodRows([rows EXCEPT ![k] = r])
    BY <1>5, <2>1, <2>2, <2>3 DEF GoodRows, RadarTypeOK
  <2>5. Keeps(rows, [rows EXCEPT ![k] = r])
    BY <1>5, <2>2, <2>3 DEF Keeps
  <2> QED
    BY <2>4, <2>5
<1>6. GoodRows([rows EXCEPT ![k] = best]) /\ Keeps(rows, [rows EXCEPT ![k] = best])
  BY <1>3, <1>5
<1>7. GoodRows([rows EXCEPT ![k] = new]) /\ Keeps(rows, [rows EXCEPT ![k] = new])
  BY <1>4, <1>5
<1> QED
  BY <1>6, <1>7 DEF best, new

\* What a symbol's turn does to the rows.
LEMMA RowsAfterHolds ==
  ASSUME RadarTypeOK, sweeps > 0, NEW s \in DOMAIN tiers
  PROVE  /\ GoodRows(RowsAfter(s)) /\ Keeps(rows, RowsAfter(s))
         /\ ~WasAlerted(s) /\ IsAlerted(s) =>
              \E i \in DOMAIN RowsAfter(s) :
                RowsAfter(s)[i].symbol = s /\ RowsAfter(s)[i].fired = sweeps
<1>1. GoodRows(rows) /\ Keeps(rows, rows)
  BY DEF GoodRows, Keeps, RadarTypeOK
<1>2. tiers[s] \in Tiers
  BY DEF RadarTypeOK
<1>3. CASE ~WasAlerted(s) /\ ~IsAlerted(s)
  BY <1>1, <1>3 DEF RowsAfter
<1>4. CASE ~WasAlerted(s) /\ IsAlerted(s)
  <2>1. RowsAfter(s) = Insert(s)
    BY <1>4 DEF RowsAfter
  <2> QED
    BY <2>1, InsertHolds
<1>5. CASE WasAlerted(s) /\ OpenRows(s) = {}
  <2>1. RowsAfter(s) = Insert(s)
    BY <1>5 DEF RowsAfter
  <2> QED
    BY <1>5, <2>1, InsertHolds
<1>6. CASE WasAlerted(s) /\ OpenRows(s) # {}
  <2>1. RowsAfter(s) = Revisit(s)
    BY <1>6 DEF RowsAfter
  <2>2. Verdict(tiers[s]) \in Labels
    BY DEF Verdict, Labels
  <2>3. GoodRows(Revisit(s)) /\ Keeps(rows, Revisit(s))
    BY <1>2, <1>6, <2>2, NewestIsOpen, ChangeHolds DEF Revisit
  <2> QED
    BY <1>6, <2>1, <2>3
<1> QED
  BY <1>3, <1>4, <1>5, <1>6

\* What ExpireRows does to them.
LEMMA ExpireHolds ==
  ASSUME RadarTypeOK, ExpireRows
  PROVE  GoodRows(rows') /\ Keeps(rows, rows')
<1>1. rows \in Seq(Alerts) /\ Len(rows) \in Nat /\ DOMAIN rows = 1..Len(rows)
  BY LenProperties DEF RadarTypeOK
<1>2. \A i \in DOMAIN rows : rows[i] \in Alerts
  BY <1>1, ElementOfSeq
<1>3. DOMAIN rows' = DOMAIN rows
  BY DEF ExpireRows
<1>4. ASSUME NEW i \in DOMAIN rows
      PROVE  /\ rows'[i] \in Alerts
             /\ rows'[i].symbol = rows[i].symbol /\ rows'[i].fired = rows[i].fired
             /\ rows'[i].fire = rows[i].fire /\ rows'[i].best = rows[i].best
             /\ rows[i].label # "PENDING" => rows'[i] = rows[i]
  <2>1. CASE Expire(i)
    <3>1. rows'[i] = [rows[i] EXCEPT !.label = "EXPIRED"]
      BY <2>1 DEF ExpireRows
    <3> QED
      BY <1>2, <2>1, <3>1 DEF Expire, Alerts, Labels
  <2>2. CASE ~Expire(i)
    <3>1. rows'[i] = rows[i]
      BY <2>2 DEF ExpireRows
    <3> QED
      BY <1>2, <3>1
  <2> QED
    BY <2>1, <2>2
<1>5. rows' \in Seq(Alerts)
  <2>1. rows' = [i \in 1..Len(rows) |-> rows'[i]]
    BY <1>1, <1>3 DEF ExpireRows
  <2> QED
    BY <1>1, <1>4, <2>1, IsASeq
<1> QED
  BY <1>3, <1>4, <1>5 DEF GoodRows, Keeps, RadarTypeOK

\* What was alerted stays alerted, whatever is done to the rows, as long as the
\* symbol is not seen below the threshold.
LEMMA StaysAlerted ==
  ASSUME Keeps(rows, rows'), NEW s, below'[s] = below[s], AlertedSince(s)
  PROVE  AlertedSince(s)'
BY DEF Keeps, AlertedSince

-----------------------------------------------------------------------------
(* The radar. *)

LEMMA RadarInitHolds == RadarInit => RadarIInv
<1> SUFFICES ASSUME RadarInit PROVE RadarIInv
  OBVIOUS
<1> USE RadarAssumption DEF RadarInit
<1>1. DOMAIN tiers = {} /\ DOMAIN rows = {} /\ rows \in Seq(Alerts)
  OBVIOUS
<1>2. cache \in [RadarSymbols -> [tier: Tiers \cup {NoTier}, at: Nat]]
  OBVIOUS
<1>3. tiers \in [DOMAIN tiers -> Tiers] /\ previous \in [DOMAIN tiers -> Tiers \cup {NoTier}]
  BY <1>1
<1>4. RadarTypeOK
  BY <1>1, <1>2, <1>3 DEF RadarTypeOK
<1>5. CrossingIsAlerted
  BY DEF CrossingIsAlerted, NoTier, ALERT_THRESHOLD_RANK
<1> QED
  BY <1>1, <1>4, <1>5 DEF RadarIInv, SweepIsNew, PreviousWasCached, VisitedIsAlerted, AllVisited

LEMMA StartSweepHolds == RadarIInv /\ StartSweep => RadarIInv'
<1> SUFFICES ASSUME RadarIInv, StartSweep PROVE RadarIInv'
  OBVIOUS
<1> USE RadarAssumption DEF RadarIInv, StartSweep
<1>1. sweeps \in Nat /\ sweeps' = sweeps + 1 /\ sweeps' \in 0..MaxSweeps
  BY DEF RadarTypeOK
<1>2. DOMAIN tiers' \subseteq RadarSymbols /\ tiers' \in [DOMAIN tiers' -> Tiers]
  OBVIOUS
<1>3. \A s \in RadarSymbols : cache[s].tier \in Tiers \cup {NoTier}
  BY DEF RadarTypeOK
<1>4. \A s \in DOMAIN tiers' : previous'[s] \in {cache[s].tier, NoTier}
  BY DEF Cached
<1>5. previous' \in [DOMAIN tiers' -> Tiers \cup {NoTier}]
  BY <1>2, <1>3, <1>4
<1>6. \A s \in RadarSymbols : below[s] \in 0..sweeps' /\ below[s] < sweeps'
  BY <1>1 DEF RadarTypeOK
<1>7. \A i \in DOMAIN rows : rows[i].fire <= rows[i].best /\ rows[i].fired \in 1..sweeps'
  BY <1>1 DEF RadarTypeOK
<1>8. RadarTypeOK'
  BY <1>1, <1>2, <1>5, <1>6, <1>7 DEF RadarTypeOK
<1>9. CrossingIsAlerted'
  BY DEF CrossingIsAlerted, AlertedSince
<1> QED
  BY <1>4, <1>6, <1>8, <1>9 DEF SweepIsNew, PreviousWasCached, VisitedIsAlerted, AllVisited

\* The part of RadarTypeOK about rows holds of good ones.
LEMMA RowsOnly ==
  ASSUME RadarTypeOK, GoodRows(rows'),
         UNCHANGED <<sweeps, tiers, previous, cache, below, radarFaults>>,
         radarStep' \in {"asleep", "rows", "ends"}, todo' \subseteq DOMAIN tiers
  PROVE  RadarTypeOK'
BY DEF RadarTypeOK, GoodRows

LEMMA VisitHolds ==
  ASSUME RadarIInv, NEW s \in RadarSymbols, VisitSymbol(s)
  PROVE  RadarIInv' /\ Keeps(rows, rows')
<1> USE RadarAssumption DEF RadarIInv, VisitSymbol
<1>1. /\ s \in DOMAIN tiers /\ below[s] \in 0..sweeps /\ below[s] < sweeps
      /\ sweeps \in Nat
  BY DEF RadarTypeOK, SweepIsNew
<1>2. sweeps > 0
  BY <1>1
<1>3. GoodRows(rows') /\ Keeps(rows, rows')
  BY <1>1, <1>2, RowsAfterHolds
<1>4. RadarTypeOK'
  BY <1>3, RowsOnly DEF RadarTypeOK
<1>5. \A r \in RadarSymbols : AlertedSince(r) => AlertedSince(r)'
  BY <1>3, StaysAlerted
<1>6. CrossingIsAlerted'
  BY <1>5 DEF CrossingIsAlerted
<1>7. IsAlerted(s) => AlertedSince(s)'
  <2>1. CASE WasAlerted(s)
    <3>1. cache[s].tier >= ALERT_THRESHOLD_RANK
      BY <1>1, <2>1 DEF WasAlerted, PreviousWasCached, NoTier, ALERT_THRESHOLD_RANK
    <3> QED
      BY <1>5, <3>1 DEF CrossingIsAlerted
  <2>2. CASE ~WasAlerted(s)
    <3> SUFFICES ASSUME IsAlerted(s) PROVE AlertedSince(s)'
      OBVIOUS
    <3>1. \E i \in DOMAIN rows' : rows'[i].symbol = s /\ rows'[i].fired = sweeps
      BY <1>1, <1>2, <2>2, RowsAfterHolds
    <3> QED
      BY <1>1, <3>1 DEF AlertedSince
  <2> QED
    BY <2>1, <2>2
<1>8. VisitedIsAlerted'
  BY <1>1, <1>5, <1>7 DEF VisitedIsAlerted, IsAlerted, RadarTypeOK
<1> QED
  BY <1>3, <1>4, <1>6, <1>8 DEF SweepIsNew, PreviousWasCached, AllVisited

LEMMA ExpireRowsHolds ==
  ASSUME RadarIInv, ExpireRows
  PROVE  RadarIInv' /\ Keeps(rows, rows')
<1> USE DEF RadarIInv
<1>1. GoodRows(rows') /\ Keeps(rows, rows')
  BY ExpireHolds
<1>2. /\ UNCHANGED <<sweeps, tiers, previous, todo, cache, below, radarFaults>>
      /\ radarStep = "rows" /\ todo = {} /\ radarStep' = "ends"
  BY DEF ExpireRows
<1>3. RadarTypeOK'
  BY <1>1, <1>2, RowsOnly DEF RadarTypeOK
<1>4. \A r \in RadarSymbols : AlertedSince(r) => AlertedSince(r)'
  BY <1>1, <1>2, StaysAlerted
<1>5. CrossingIsAlerted'
  BY <1>2, <1>4 DEF CrossingIsAlerted
<1>6. VisitedIsAlerted'
  BY <1>2, <1>4 DEF VisitedIsAlerted, IsAlerted, RadarTypeOK
<1> QED
  BY <1>1, <1>2, <1>3, <1>5, <1>6 DEF SweepIsNew, PreviousWasCached, AllVisited

LEMMA SweepOverHolds ==
  ASSUME SweepOver
  PROVE  /\ DOMAIN tiers' = {} /\ tiers' \in [DOMAIN tiers' -> Tiers]
         /\ previous' \in [DOMAIN tiers' -> Tiers \cup {NoTier}]
         /\ todo' = {} /\ radarStep' = "asleep"
BY DEF SweepOver

LEMMA EndSweepHolds ==
  ASSUME RadarIInv, EndSweep
  PROVE  RadarIInv' /\ Keeps(rows, rows')
<1> USE RadarAssumption DEF RadarIInv, EndSweep
<1>1. Keeps(rows, rows')
  BY DEF Keeps
<1>2. DOMAIN tiers \subseteq RadarSymbols /\ sweeps \in Nat
  BY DEF RadarTypeOK
<1>3. ASSUME NEW s \in RadarSymbols
      PROVE  /\ cache'[s] = IF s \in DOMAIN tiers THEN [tier |-> tiers[s], at |-> sweeps]
                                                  ELSE cache[s]
             /\ below'[s] = IF s \in DOMAIN tiers /\ ~IsAlerted(s) THEN sweeps ELSE below[s]
  BY DEF WithTiers
<1>4. cache' \in [RadarSymbols -> [tier: Tiers \cup {NoTier}, at: Nat]]
  <2>1. \A s \in RadarSymbols :
          (IF s \in DOMAIN tiers THEN [tier |-> tiers[s], at |-> sweeps] ELSE cache[s])
            \in [tier: Tiers \cup {NoTier}, at: Nat]
    BY <1>2 DEF RadarTypeOK
  <2> QED
    BY <2>1 DEF WithTiers
<1>5. below' \in [RadarSymbols -> 0..sweeps]
  BY <1>2 DEF RadarTypeOK
<1>6. RadarTypeOK'
  BY <1>4, <1>5, SweepOverHolds DEF RadarTypeOK
<1>7. CrossingIsAlerted'
  <2> SUFFICES ASSUME NEW s \in RadarSymbols, cache'[s].tier >= ALERT_THRESHOLD_RANK
               PROVE  AlertedSince(s)'
    BY DEF CrossingIsAlerted
  <2>1. CASE s \in DOMAIN tiers
    <3>0. cache'[s] = [tier |-> tiers[s], at |-> sweeps]
      BY <1>3, <2>1
    <3>1. IsAlerted(s)
      BY <3>0 DEF IsAlerted
    <3>2. AlertedSince(s)
      BY <2>1, <3>1 DEF VisitedIsAlerted, AllVisited
    <3> QED
      BY <1>3, <3>1, <3>2 DEF AlertedSince
  <2>2. CASE s \notin DOMAIN tiers
    <3>1. AlertedSince(s)
      BY <1>3, <2>2 DEF CrossingIsAlerted
    <3> QED
      BY <1>3, <2>2, <3>1 DEF AlertedSince
  <2> QED
    BY <2>1, <2>2
<1> QED
  BY <1>1, <1>6, <1>7, SweepOverHolds DEF SweepIsNew, PreviousWasCached, VisitedIsAlerted, AllVisited

LEMMA SweepFailsHolds ==
  ASSUME RadarIInv, SweepFails
  PROVE  RadarIInv' /\ Keeps(rows, rows')
<1> USE RadarAssumption DEF RadarIInv
<1>1. GoodRows(rows') /\ Keeps(rows, rows')
  <2>1. CASE UNCHANGED rows
    BY <2>1 DEF GoodRows, Keeps, RadarTypeOK
  <2>2. ASSUME NEW s \in todo, rows' = RowsAfter(s)
        PROVE  GoodRows(rows') /\ Keeps(rows, rows')
    <3>1. s \in DOMAIN tiers /\ s \in RadarSymbols /\ below[s] \in 0..sweeps /\ below[s] < sweeps
      BY <2>2 DEF RadarTypeOK, SweepIsNew, SweepFails
    <3>2. sweeps > 0
      BY <3>1 DEF RadarTypeOK
    <3> QED
      BY <2>2, <3>1, <3>2, RowsAfterHolds
  <2>3. ASSUME NEW s \in todo, OpenRows(s) # {},
               rows' = [rows EXCEPT ![Max(OpenRows(s))].best =
                          Better(Max(OpenRows(s)), tiers[s])]
        PROVE  GoodRows(rows') /\ Keeps(rows, rows')
    <3>1. tiers[s] \in Tiers
      BY <2>3 DEF RadarTypeOK
    <3>2. PICK k \in DOMAIN rows : k = Max(OpenRows(s)) /\ rows[k].label = "PENDING"
      BY <2>3, NewestIsOpen
    <3>3. rows' = [rows EXCEPT ![k] = [rows[k] EXCEPT !.best = Better(k, tiers[s])]]
      BY <2>3, <3>2
    <3> QED
      BY <3>1, <3>2, <3>3, ChangeHolds DEF Labels
  <2> QED
    BY <2>1, <2>2, <2>3 DEF SweepFails
<1>2. UNCHANGED <<sweeps, cache, below>> /\ radarFaults' \in 0..MaxRadarFaults /\ SweepOver
  BY DEF SweepFails, RadarTypeOK
<1>3. RadarTypeOK'
  BY <1>1, <1>2, SweepOverHolds DEF RadarTypeOK, GoodRows
<1>4. CrossingIsAlerted'
  BY <1>1, <1>2, StaysAlerted DEF CrossingIsAlerted
<1> QED
  BY <1>1, <1>2, <1>3, <1>4, SweepOverHolds
     DEF SweepIsNew, PreviousWasCached, VisitedIsAlerted, AllVisited

LEMMA TiersLostHolds ==
  ASSUME RadarIInv, TiersLost
  PROVE  RadarIInv' /\ Keeps(rows, rows')
<1> USE RadarAssumption DEF RadarIInv, TiersLost, sweep
<1>1. Keeps(rows, rows')
  BY DEF Keeps
<1>2. cache' \in [RadarSymbols -> [tier: Tiers \cup {NoTier}, at: Nat]]
  OBVIOUS
<1>3. RadarTypeOK'
  BY <1>2 DEF RadarTypeOK
<1>4. CrossingIsAlerted'
  BY DEF CrossingIsAlerted, NoTier, ALERT_THRESHOLD_RANK
<1> QED
  BY <1>1, <1>3, <1>4 DEF SweepIsNew, PreviousWasCached, VisitedIsAlerted, AllVisited,
     AlertedSince, IsAlerted

\* Every step of a sweep leaves the rows and what is known of them in order.
LEMMA RadarNextHolds ==
  ASSUME RadarIInv, [RadarNext]_radarVars
  PROVE  RadarIInv' /\ Keeps(rows, rows')
<1>1. CASE StartSweep
  <2>1. Keeps(rows, rows')
    BY <1>1 DEF StartSweep, Keeps
  <2> QED
    BY <1>1, <2>1, StartSweepHolds
<1>2. ASSUME NEW s \in RadarSymbols, VisitSymbol(s)
      PROVE  RadarIInv' /\ Keeps(rows, rows')
  BY <1>2, VisitHolds
<1>3. CASE ExpireRows
  BY <1>3, ExpireRowsHolds
<1>4. CASE EndSweep
  BY <1>4, EndSweepHolds
<1>5. CASE SweepFails
  BY <1>5, SweepFailsHolds
<1>6. CASE TiersLost
  BY <1>6, TiersLostHolds
<1>7. CASE UNCHANGED radarVars
  BY <1>7 DEF radarVars, sweep, RadarIInv, RadarTypeOK, SweepIsNew, PreviousWasCached,
     CrossingIsAlerted, VisitedIsAlerted, AllVisited, AlertedSince, IsAlerted, Keeps
<1> QED
  BY <1>1, <1>2, <1>3, <1>4, <1>5, <1>6, <1>7 DEF RadarNext, SweepStep

\* sweep_once: the tiers, the cache and the rows agree at every statement.
THEOREM RadarInvariant == RadarSpec => []RadarIInv
<1>1. RadarIInv /\ [RadarNext]_radarVars => RadarIInv'
  BY RadarNextHolds
<1> QED
  BY <1>1, RadarInitHolds, PTL DEF RadarSpec

\* Every crossing of the threshold has its alert, whatever statement raises and
\* whenever the cached tiers are lost, and what a sweep has made of a row stands.
THEOREM RadarIsSafe == RadarSpec => RadarSafe
<1>1. RadarIInv => RadarTypeOK /\ CrossingIsAlerted
  BY DEF RadarIInv
<1>2. RadarIInv /\ [RadarNext]_radarVars =>
        [\A i \in DOMAIN rows : rows[i].label # "PENDING" => rows'[i] = rows[i]]_radarVars
  BY RadarNextHolds DEF Keeps
<1> QED
  BY <1>1, <1>2, RadarInvariant, PTL DEF RadarSpec, RadarSafe, VerdictStands

-----------------------------------------------------------------------------
(* The warnings about positions. *)

\* The committed windows can be counted.
LEMMA CommittedCount ==
  ASSUME NEW p
  PROVE  /\ IsFiniteSet(Committed(p))
         /\ Cardinality(Committed(p)) \in Nat /\ Cardinality(Windows) \in Nat
         /\ Cardinality(Committed(p)) <= Cardinality(Windows)
<1>1. IsFiniteSet(Windows) /\ Committed(p) \in SUBSET Windows
  BY WarningAssumption DEF Committed
<1> QED
  BY <1>1, FS_Subset, FS_CardinalityType

LEMMA WarningInitHolds == WarningInit => WarningIInv
<1> SUFFICES ASSUME WarningInit PROVE WarningIInv
  OBVIOUS
<1> USE WarningAssumption DEF WarningInit, NoRequest, None
<1>1. \A w \in Windows : request[w].due = "none" /\ request[w].at = "none" /\ request[w].rows = {}
  OBVIOUS
<1>2. request \in [Windows -> Requests]
  BY DEF Requests
<1>3. WarningTypeOK
  BY <1>1, <1>2 DEF WarningTypeOK, Requests
<1>4. NotifiedOncePerWindow
  BY CommittedCount DEF NotifiedOncePerWindow
<1> QED
  BY <1>1, <1>3, <1>4 DEF WarningIInv, WarnsUnderKey, CommittedHaveRoom, CooldownWasUsed

\* A request moves on: the other requests and the account stay as they are.
LEMMA RequestTyped ==
  ASSUME WarningTypeOK, NEW w \in Windows, NEW to \in Requests, Goes(w, to),
         to.at \notin to.rows, (to.at = None) = (to.due \in {"none", "next"}),
         UNCHANGED account, cooldown' \subseteq Positions,
         warned' \in [Positions -> Nat], brokerFaults' \in 0..MaxBrokerFaults
  PROVE  /\ WarningTypeOK'
         /\ request'[w] = to
         /\ \A v \in Windows : v # w => request'[v] = request[v]
<1>1. request' \in [Windows -> Requests]
  BY DEF WarningTypeOK, Goes
<1>2. /\ request'[w] = to
      /\ \A v \in Windows : v # w => request'[v] = request[v]
  BY DEF WarningTypeOK, Goes
<1>3. \A v \in Windows :
        /\ request'[v].at \notin request'[v].rows
        /\ (request'[v].at = None) = (request'[v].due \in {"none", "next"})
  <2> TAKE v \in Windows
  <2>1. CASE v = w
    BY <1>2, <2>1
  <2>2. CASE v # w
    BY <1>2, <2>2 DEF WarningTypeOK
  <2> QED
    BY <2>1, <2>2
<1> QED
  BY <1>1, <1>2, <1>3 DEF WarningTypeOK

\* A request that neither has warned nor commits itself changes nothing that counts.
LEMMA ReadsHold ==
  ASSUME WarningIInv, NEW w \in Windows, NEW to \in Requests, Goes(w, to),
         to.at \notin to.rows, (to.at = None) = (to.due \in {"none", "next"}),
         request[w].due \notin {"set", "xadd"},
         to.due \in {"none", "next", "exists"} \/ (to.due = "set" /\ to.at \notin cooldown),
         UNCHANGED <<account, cooldown, warned>>, brokerFaults' \in 0..MaxBrokerFaults,
         brokerFaults' = 0 => brokerFaults = 0
  PROVE  WarningIInv'
<1> USE DEF WarningIInv
<1>1. /\ WarningTypeOK'
      /\ request'[w] = to
      /\ \A v \in Windows : v # w => request'[v] = request[v]
  BY RequestTyped DEF WarningTypeOK
<1>2. \A p \in cooldown : Committed(p)' = Committed(p)
  BY <1>1 DEF Committed
<1>3. WarnsUnderKey'
  BY <1>1 DEF WarnsUnderKey
<1>4. CommittedHaveRoom'
  BY <1>2 DEF CommittedHaveRoom
<1>5. CooldownWasUsed'
  BY <1>1 DEF CooldownWasUsed
<1> QED
  BY <1>1, <1>3, <1>4, <1>5 DEF NotifiedOncePerWindow

LEMMA GetPositionsHolds ==
  ASSUME WarningIInv, NEW w \in Windows, GetPositions(w)
  PROVE  WarningIInv'
<1> DEFINE to == Fetched({p \in Positions : account[p] # "closed"})
<1>1. to \in Requests /\ to.at \notin to.rows /\ to.at = None /\ to.due = "next"
  BY WarningAssumption DEF Fetched, Requests, None
<1>2. Goes(w, to) /\ request[w].due = "none" /\ UNCHANGED <<account, cooldown, warned, brokerFaults>>
  BY DEF GetPositions
<1>3. brokerFaults \in 0..MaxBrokerFaults
  BY DEF WarningIInv, WarningTypeOK
<1> HIDE DEF to
<1> QED
  BY <1>1, <1>2, <1>3, ReadsHold

LEMMA JudgePositionHolds ==
  ASSUME WarningIInv, NEW w \in Windows, JudgePosition(w)
  PROVE  WarningIInv'
<1>1. /\ request[w].due = "next" /\ UNCHANGED <<account, cooldown, warned, brokerFaults>>
      /\ brokerFaults \in 0..MaxBrokerFaults
      /\ request[w] \in Requests
  BY DEF JudgePosition, WarningIInv, WarningTypeOK
<1>2. CASE request[w].rows = {}
  <2>1. /\ NoRequest \in Requests /\ NoRequest.at \notin NoRequest.rows
        /\ NoRequest.at = None /\ NoRequest.due = "none"
    BY DEF NoRequest, Requests, None
  <2>2. Goes(w, NoRequest)
    BY <1>2 DEF JudgePosition
  <2> QED
    BY <1>1, <2>1, <2>2, ReadsHold
<1>3. CASE request[w].rows # {}
  <2>1. PICK p \in request[w].rows :
          Goes(w, IF account[p] = "broken"
                    THEN [due |-> "exists", rows |-> request[w].rows \ {p}, at |-> p]
                    ELSE Fetched(request[w].rows \ {p}))
    BY <1>3 DEF JudgePosition
  <2>2. p \in Positions /\ p # None /\ request[w].rows \in SUBSET Positions
    BY <1>1, WarningAssumption DEF Requests, None
  <2>3. CASE account[p] = "broken"
    <3> DEFINE to == [due |-> "exists", rows |-> request[w].rows \ {p}, at |-> p]
    <3>1. to \in Requests /\ to.at \notin to.rows /\ to.at = p /\ to.due = "exists"
      BY <2>2 DEF Requests
    <3>2. Goes(w, to)
      BY <2>1, <2>3
    <3> HIDE DEF to
    <3> QED
      BY <1>1, <2>2, <3>1, <3>2, ReadsHold
  <2>4. CASE account[p] # "broken"
    <3> DEFINE to == Fetched(request[w].rows \ {p})
    <3>1. to \in Requests /\ to.at \notin to.rows /\ to.at = None /\ to.due = "next"
      BY <2>2, WarningAssumption DEF Requests, Fetched, None
    <3>2. Goes(w, to)
      BY <2>1, <2>4
    <3> HIDE DEF to
    <3> QED
      BY <1>1, <3>1, <3>2, ReadsHold
  <2> QED
    BY <2>3, <2>4
<1> QED
  BY <1>2, <1>3

\* The request at a position: its fields, and what it becomes.
LEMMA AtPosition ==
  ASSUME WarningIInv, NEW w \in Windows, request[w].due \in {"exists", "set", "xadd"}
  PROVE  /\ request[w].at \in Positions
         /\ LET done == Fetched(request[w].rows)
            IN  done \in Requests /\ done.at \notin done.rows /\ done.at = None /\ done.due = "next"
         /\ \A call \in {"set", "xadd"} :
              LET due == [request[w] EXCEPT !.due = call]
              IN  /\ due \in Requests /\ due.at \notin due.rows /\ due.at # None
                  /\ due.due = call /\ due.at = request[w].at
<1>1. /\ request[w] \in Requests /\ request[w].at \notin request[w].rows
      /\ request[w].at # None
  BY DEF WarningIInv, WarningTypeOK
<1> QED
  BY <1>1, WarningAssumption DEF Requests, Fetched, None

LEMMA AskCooldownHolds ==
  ASSUME WarningIInv, NEW w \in Windows, AskCooldown(w)
  PROVE  WarningIInv'
<1>1. /\ request[w].due = "exists" /\ UNCHANGED <<account, cooldown, warned, brokerFaults>>
      /\ brokerFaults \in 0..MaxBrokerFaults
  BY DEF AskCooldown, WarningIInv, WarningTypeOK
<1>2. CASE request[w].at \in cooldown
  <2> DEFINE to == Fetched(request[w].rows)
  <2>1. to \in Requests /\ to.at \notin to.rows /\ to.at = None /\ to.due = "next"
    BY <1>1, AtPosition
  <2>2. Goes(w, to)
    BY <1>2 DEF AskCooldown, Done
  <2> HIDE DEF to
  <2> QED
    BY <1>1, <2>1, <2>2, ReadsHold
<1>3. CASE request[w].at \notin cooldown
  <2> DEFINE to == [request[w] EXCEPT !.due = "set"]
  <2>1. /\ to \in Requests /\ to.at \notin to.rows /\ to.at # None
        /\ to.due = "set" /\ to.at = request[w].at
    BY <1>1, AtPosition
  <2>2. Goes(w, to)
    BY <1>3 DEF AskCooldown, Due
  <2> HIDE DEF to
  <2> QED
    BY <1>1, <1>3, <2>1, <2>2, ReadsHold
<1> QED
  BY <1>2, <1>3

\* The SET leaves room for everybody who is committed.
LEMMA SetKeyHolds ==
  ASSUME WarningIInv, NEW q \in Positions, SetKey(q)
  PROVE  /\ cooldown' \subseteq Positions /\ cooldown' = cooldown \cup {q}
         /\ warned' \in [Positions -> Nat]
         /\ \A p \in Positions : warned'[p] <= Cardinality(Windows)
         /\ \A p \in cooldown' :
              /\ warned'[p] + Cardinality(Committed(p)) <= Cardinality(Windows)
              /\ p # q => warned'[p] = warned[p] /\ p \in cooldown
              /\ p \in cooldown => warned'[p] = warned[p]
<1> USE DEF WarningIInv, SetKey
<1>1. /\ cooldown' = cooldown \cup {q} /\ cooldown \subseteq Positions
      /\ \A p \in Positions :
           /\ warned[p] \in Nat
           /\ warned'[p] = IF p = q /\ q \notin cooldown THEN 0 ELSE warned[p]
      /\ warned' \in [Positions -> Nat]
  BY DEF WarningTypeOK
<1>2. \A p \in Positions : warned'[p] <= Cardinality(Windows)
  BY <1>1, CommittedCount DEF NotifiedOncePerWindow
<1>3. ASSUME NEW p \in cooldown'
      PROVE  warned'[p] + Cardinality(Committed(p)) <= Cardinality(Windows)
  <2>1. CASE p \in cooldown
    BY <1>1, <2>1 DEF CommittedHaveRoom
  <2>2. CASE p \notin cooldown
    <3>1. warned'[p] = 0
      BY <1>1, <1>3, <2>2
    <3> QED
      BY <3>1, CommittedCount
  <2> QED
    BY <2>1, <2>2
<1> QED
  BY <1>1, <1>2, <1>3

LEMMA SetCooldownHolds ==
  ASSUME WarningIInv, NEW w \in Windows, SetCooldown(w)
  PROVE  WarningIInv'
<1> USE DEF WarningIInv
<1> DEFINE to == [request[w] EXCEPT !.due = "xadd"]
           q == request[w].at
<1>1. request[w].due = "set" /\ SetKey(q) /\ Goes(w, to) /\ UNCHANGED <<account, brokerFaults>>
  BY DEF SetCooldown, Due
<1>2. /\ to \in Requests /\ to.at \notin to.rows /\ to.at # None
      /\ to.due = "xadd" /\ to.at = q /\ q \in Positions
  BY <1>1, AtPosition
<1> HIDE DEF to
<1>3. /\ cooldown' \subseteq Positions /\ cooldown' = cooldown \cup {q}
      /\ warned' \in [Positions -> Nat]
      /\ \A p \in Positions : warned'[p] <= Cardinality(Windows)
      /\ \A p \in cooldown' :
           /\ warned'[p] + Cardinality(Committed(p)) <= Cardinality(Windows)
           /\ p # q => warned'[p] = warned[p] /\ p \in cooldown
           /\ p \in cooldown => warned'[p] = warned[p]
  BY <1>1, <1>2, SetKeyHolds
<1>4. /\ WarningTypeOK'
      /\ request'[w] = to
      /\ \A v \in Windows : v # w => request'[v] = request[v]
  BY <1>1, <1>2, <1>3, RequestTyped DEF WarningTypeOK
<1>5. \A p : Committed(p)' = Committed(p)
  BY <1>1, <1>2, <1>4 DEF Committed
<1>6. WarnsUnderKey'
  BY <1>2, <1>3, <1>4 DEF WarnsUnderKey
<1>7. CommittedHaveRoom'
  BY <1>3, <1>5 DEF CommittedHaveRoom
<1>8. CooldownWasUsed'
  BY <1>1, <1>2, <1>3, <1>4 DEF CooldownWasUsed
<1> QED
  BY <1>3, <1>4, <1>6, <1>7, <1>8 DEF NotifiedOncePerWindow

\* The XADD is one more warning by one of those who are committed.
LEMMA OneMoreWarning ==
  ASSUME WarningIInv, NEW w \in Windows, request[w].due = "xadd",
         warned' = [warned EXCEPT ![request[w].at] = @ + 1]
  PROVE  /\ warned' \in [Positions -> Nat]
         /\ \A p \in Positions :
              warned'[p] = IF p = request[w].at THEN warned[p] + 1 ELSE warned[p]
         /\ \A p \in Positions : warned'[p] <= Cardinality(Windows)
         /\ \A p \in cooldown :
              warned'[p] + Cardinality(Committed(p) \ {w}) <= Cardinality(Windows)
<1> USE DEF WarningIInv
<1> DEFINE q == request[w].at
<1>1. q \in Positions /\ q \in cooldown /\ w \in Committed(q)
  BY AtPosition DEF WarnsUnderKey, Committed
<1>2. /\ \A p \in Positions : warned[p] \in Nat
      /\ \A p \in Positions : warned'[p] = IF p = q THEN warned[p] + 1 ELSE warned[p]
      /\ warned' \in [Positions -> Nat]
  BY <1>1 DEF WarningTypeOK
<1>3. \A p : /\ Cardinality(Committed(p)) \in Nat /\ Cardinality(Windows) \in Nat
             /\ Cardinality(Committed(p) \ {w}) \in Nat
             /\ Cardinality(Committed(p) \ {w}) =
                  IF w \in Committed(p) THEN Cardinality(Committed(p)) - 1
                                        ELSE Cardinality(Committed(p))
  BY CommittedCount, FS_RemoveElement, FS_CardinalityType
<1>4. \A p \in cooldown : warned[p] + Cardinality(Committed(p)) <= Cardinality(Windows)
  BY DEF CommittedHaveRoom
<1>5. \A p \in cooldown : p \in Positions
  BY DEF WarningTypeOK
<1>6. ASSUME NEW p \in cooldown
      PROVE  warned'[p] + Cardinality(Committed(p) \ {w}) <= Cardinality(Windows)
  <2>1. CASE p = q
    <3>1. Cardinality(Committed(p) \ {w}) = Cardinality(Committed(p)) - 1
      BY <1>1, <1>3, <2>1
    <3>2. warned'[p] = warned[p] + 1 /\ warned[p] \in Nat
      BY <1>1, <1>2, <2>1
    <3> HIDE DEF q
    <3> QED
      BY <1>3, <1>4, <3>1, <3>2
  <2>2. CASE p # q
    <3>1. warned'[p] = warned[p] /\ warned[p] \in Nat
      BY <1>2, <1>5, <2>2
    <3>2. Cardinality(Committed(p) \ {w}) <= Cardinality(Committed(p))
      BY <1>3
    <3> HIDE DEF q
    <3> QED
      BY <1>3, <1>4, <3>1, <3>2
  <2> QED
    BY <2>1, <2>2
<1>7. ASSUME NEW p \in Positions PROVE warned'[p] <= Cardinality(Windows)
  <2>1. CASE p = q
    <3>1. warned'[p] + Cardinality(Committed(p) \ {w}) <= Cardinality(Windows)
      BY <1>1, <1>6, <2>1
    <3> QED
      BY <1>2, <1>3, <3>1
  <2>2. CASE p # q
    <3>1. warned'[p] = warned[p]
      BY <1>2, <2>2
    <3> QED
      BY <3>1 DEF NotifiedOncePerWindow
  <2> QED
    BY <2>1, <2>2
<1> QED
  BY <1>2, <1>6, <1>7

LEMMA AddWarningHolds ==
  ASSUME WarningIInv, NEW w \in Windows, AddWarning(w)
  PROVE  WarningIInv'
<1> USE DEF WarningIInv
<1> DEFINE to == Fetched(request[w].rows)
<1>1. /\ request[w].due = "xadd" /\ Goes(w, to) /\ UNCHANGED <<account, cooldown, brokerFaults>>
      /\ warned' = [warned EXCEPT ![request[w].at] = @ + 1]
  BY DEF AddWarning, Done
<1>2. to \in Requests /\ to.at \notin to.rows /\ to.at = None /\ to.due = "next"
  BY <1>1, AtPosition
<1> HIDE DEF to
<1>3. /\ warned' \in [Positions -> Nat]
      /\ \A p \in Positions :
           warned'[p] = IF p = request[w].at THEN warned[p] + 1 ELSE warned[p]
      /\ \A p \in Positions : warned'[p] <= Cardinality(Windows)
      /\ \A p \in cooldown :
           warned'[p] + Cardinality(Committed(p) \ {w}) <= Cardinality(Windows)
  BY <1>1, OneMoreWarning
<1>4. /\ WarningTypeOK'
      /\ request'[w] = to
      /\ \A v \in Windows : v # w => request'[v] = request[v]
  BY <1>1, <1>2, <1>3, RequestTyped DEF WarningTypeOK
<1>5. \A p : Committed(p)' = Committed(p) \ {w}
  BY <1>2, <1>4 DEF Committed
<1>6. WarnsUnderKey'
  BY <1>1, <1>2, <1>4 DEF WarnsUnderKey
<1>7. CommittedHaveRoom'
  BY <1>1, <1>3, <1>5 DEF CommittedHaveRoom
<1>8. CooldownWasUsed'
  <2> SUFFICES ASSUME brokerFaults = 0, NEW p \in cooldown
               PROVE  (warned[p] > 0 \/ \E v \in Windows :
                          request[v].at = p /\ request[v].due = "xadd")'
    BY <1>1 DEF CooldownWasUsed
  <2>1. p \in Positions /\ warned[p] \in Nat
    BY DEF WarningTypeOK
  <2>2. CASE p = request[w].at
    BY <1>3, <2>1, <2>2
  <2>3. CASE p # request[w].at
    BY <1>3, <1>4, <2>1, <2>3 DEF CooldownWasUsed
  <2> QED
    BY <2>2, <2>3
<1> QED
  BY <1>3, <1>4, <1>6, <1>7, <1>8 DEF NotifiedOncePerWindow

\* A request that ends half way leaves what its last call has done.
LEMMA RequestFailsHolds ==
  ASSUME WarningIInv, NEW w \in Windows, RequestFails(w)
  PROVE  WarningIInv'
<1> USE DEF WarningIInv
<1>1. /\ brokerFaults' = brokerFaults + 1 /\ brokerFaults' \in 0..MaxBrokerFaults
      /\ brokerFaults' # 0 /\ Goes(w, NoRequest) /\ UNCHANGED account
  BY WarningAssumption DEF RequestFails, WarningTypeOK
<1>2. /\ NoRequest \in Requests /\ NoRequest.at \notin NoRequest.rows
      /\ NoRequest.at = None /\ NoRequest.due = "none"
  BY DEF NoRequest, Requests, None
<1>3. /\ warned' \in [Positions -> Nat] /\ cooldown' \subseteq Positions
      /\ cooldown \subseteq cooldown'
      /\ \A p \in Positions : warned'[p] <= Cardinality(Windows)
      /\ \A p \in cooldown' :
           warned'[p] + Cardinality(Committed(p) \ {w}) <= Cardinality(Windows)
  <2>1. \A p : /\ Cardinality(Committed(p)) \in Nat /\ Cardinality(Windows) \in Nat
               /\ Cardinality(Committed(p) \ {w}) \in Nat
               /\ Cardinality(Committed(p) \ {w}) <= Cardinality(Committed(p))
    BY CommittedCount, FS_Difference, FS_Subset, FS_CardinalityType
  <2>2. CASE UNCHANGED <<cooldown, warned>>
    BY <2>1, <2>2 DEF WarningTypeOK, NotifiedOncePerWindow, CommittedHaveRoom
  <2>3. CASE request[w].due = "set" /\ SetKey(request[w].at)
    <3>1. request[w].at \in Positions
      BY <2>3, AtPosition
    <3>2. /\ cooldown' \subseteq Positions /\ cooldown' = cooldown \cup {request[w].at}
          /\ warned' \in [Positions -> Nat]
          /\ \A p \in Positions : warned'[p] <= Cardinality(Windows)
          /\ \A p \in cooldown' :
               warned'[p] + Cardinality(Committed(p)) <= Cardinality(Windows)
      BY <2>3, <3>1, SetKeyHolds
    <3>3. \A p \in cooldown' : warned'[p] \in Nat
      BY <3>2
    <3>4. \A p \in cooldown' :
            warned'[p] + Cardinality(Committed(p) \ {w}) <= Cardinality(Windows)
      BY <2>1, <3>2, <3>3
    <3> QED
      BY <3>2, <3>4
  <2>4. CASE /\ request[w].due = "xadd" /\ UNCHANGED cooldown
             /\ warned' = [warned EXCEPT ![request[w].at] = @ + 1]
    BY <2>4, OneMoreWarning DEF WarningTypeOK
  <2> QED
    BY <2>2, <2>3, <2>4 DEF RequestFails
<1>4. /\ WarningTypeOK'
      /\ request'[w] = NoRequest
      /\ \A v \in Windows : v # w => request'[v] = request[v]
  BY <1>1, <1>2, <1>3, RequestTyped DEF WarningTypeOK
<1>5. \A p : Committed(p)' = Committed(p) \ {w}
  BY <1>2, <1>4 DEF Committed
<1>6. WarnsUnderKey'
  BY <1>2, <1>3, <1>4 DEF WarnsUnderKey
<1>7. CommittedHaveRoom'
  BY <1>3, <1>5 DEF CommittedHaveRoom
<1> QED
  BY <1>1, <1>3, <1>4, <1>6, <1>7 DEF NotifiedOncePerWindow, CooldownWasUsed

LEMMA CooldownExpiresHolds ==
  ASSUME WarningIInv, NEW p \in Positions, CooldownExpires(p)
  PROVE  WarningIInv'
<1> USE DEF WarningIInv, CooldownExpires
<1>1. WarningTypeOK'
  BY DEF WarningTypeOK
<1>2. WarnsUnderKey'
  BY DEF WarnsUnderKey
<1>3. CommittedHaveRoom'
  BY DEF CommittedHaveRoom, Committed
<1>4. NotifiedOncePerWindow' /\ CooldownWasUsed'
  BY DEF NotifiedOncePerWindow, CooldownWasUsed
<1> QED
  BY <1>1, <1>2, <1>3, <1>4

LEMMA AccountChangesHolds ==
  ASSUME WarningIInv, NEW p \in Positions, AccountChanges(p)
  PROVE  WarningIInv'
<1> USE DEF WarningIInv
<1>1. account' \in [Positions -> Condition] /\ UNCHANGED <<request, cooldown, warned, brokerFaults>>
  BY DEF AccountChanges, WarningTypeOK
<1>2. WarningTypeOK'
  BY <1>1 DEF WarningTypeOK
<1> QED
  BY <1>1, <1>2 DEF WarnsUnderKey, CommittedHaveRoom, Committed, NotifiedOncePerWindow,
     CooldownWasUsed

LEMMA WarningNextHolds == WarningIInv /\ [WarningNext]_warningVars => WarningIInv'
<1> SUFFICES ASSUME WarningIInv, [WarningNext]_warningVars PROVE WarningIInv'
  OBVIOUS
<1>1. ASSUME NEW w \in Windows, Poll(w) PROVE WarningIInv'
  BY <1>1, GetPositionsHolds, JudgePositionHolds, AskCooldownHolds, SetCooldownHolds,
     AddWarningHolds DEF Poll
<1>2. ASSUME NEW w \in Windows, RequestFails(w) PROVE WarningIInv'
  BY <1>2, RequestFailsHolds
<1>3. ASSUME NEW p \in Positions, CooldownExpires(p) PROVE WarningIInv'
  BY <1>3, CooldownExpiresHolds
<1>4. ASSUME NEW p \in Positions, AccountChanges(p) PROVE WarningIInv'
  BY <1>4, AccountChangesHolds
<1>5. CASE UNCHANGED warningVars
  BY <1>5 DEF warningVars, WarningIInv, WarningTypeOK, WarnsUnderKey, CommittedHaveRoom,
     Committed, NotifiedOncePerWindow, CooldownWasUsed
<1> QED
  BY <1>1, <1>2, <1>3, <1>4, <1>5 DEF WarningNext

\* _maybe_alert_position_warning: under a key only those warn who had looked for it
\* before it was set.
THEOREM WarningInvariant == WarningSpec => []WarningIInv
<1>1. WarningIInv /\ [WarningNext]_warningVars => WarningIInv'
  BY WarningNextHolds
<1> QED
  BY <1>1, WarningInitHolds, PTL DEF WarningSpec

\* However many requests overlap and whichever fail half way, a cooldown lets each
\* window warn once at most, and as long as no call fails it is not spent in silence.
THEOREM WarningsAreSafe == WarningSpec => []WarningSafe
<1>1. WarningIInv => WarningSafe
  BY DEF WarningIInv, WarningSafe
<1> QED
  BY <1>1, WarningInvariant, PTL

-----------------------------------------------------------------------------
(* The rows of the journal. *)

\* LTRIM keeps the newest rows.
LEMMA CutHolds ==
  ASSUME NEW S, NEW list \in Seq(S), NEW limit \in Nat
  PROVE  LET cut == CutTo(list, limit)
         IN  /\ cut \in Seq(S) /\ Len(cut) <= limit /\ Len(cut) <= Len(list)
             /\ Len(list) <= limit => cut = list
             /\ Len(list) > limit => Len(cut) = limit
             /\ \A i \in 1..Len(cut) : cut[i] = list[i]
<1>1. Len(list) \in Nat /\ \A i \in 1..Len(list) : list[i] \in S
  BY LenProperties, ElementOfSeq
<1>2. CASE Len(list) <= limit
  BY <1>1, <1>2 DEF CutTo
<1>3. CASE Len(list) > limit
  <2> DEFINE cut == SubSeq(list, 1, limit)
  <2>1. CutTo(list, limit) = cut
    BY <1>1, <1>3 DEF CutTo
  <2>2. \A i \in 1..limit : list[i] \in S
    BY <1>1, <1>3
  <2>3. /\ cut \in Seq(S) /\ Len(cut) = IF 1 <= limit THEN limit - 1 + 1 ELSE 0
        /\ \A i \in 1..(limit - 1 + 1) : cut[i] = list[1 + i - 1]
    BY <2>2, SubSeqProperties
  <2> HIDE DEF cut
  <2>4. Len(cut) = limit /\ \A i \in 1..limit : cut[i] = list[i]
    BY <2>3
  <2> QED
    BY <1>1, <1>3, <2>1, <2>3, <2>4
<1> QED
  BY <1>1, <1>2, <1>3

\* LPUSH puts a row before the others.
LEMMA PushHolds ==
  ASSUME NEW S, NEW list \in Seq(S), NEW r \in S
  PROVE  /\ <<r>> \o list \in Seq(S)
         /\ Len(<<r>> \o list) = Len(list) + 1
         /\ (<<r>> \o list)[1] = r
         /\ \A i \in 1..Len(list) : (<<r>> \o list)[i + 1] = list[i]
<1>1. <<r>> \in Seq(S) /\ Len(<<r>>) = 1 /\ <<r>>[1] = r
  OBVIOUS
<1>2. Len(list) \in Nat
  BY LenProperties
<1>3. /\ <<r>> \o list \in Seq(S)
      /\ Len(<<r>> \o list) = 1 + Len(list)
      /\ \A i \in 1..(1 + Len(list)) :
           (<<r>> \o list)[i] = IF i <= 1 THEN <<r>>[i] ELSE list[i - 1]
  BY <1>1, ConcatProperties
<1>4. \A i \in 1..Len(list) : (<<r>> \o list)[i + 1] = list[i]
  <2> TAKE i \in 1..Len(list)
  <2>1. i + 1 \in 1..(1 + Len(list)) /\ ~(i + 1 <= 1) /\ (i + 1) - 1 = i
    BY <1>2
  <2> QED
    BY <1>3, <2>1
<1> QED
  BY <1>1, <1>2, <1>3, <1>4

\* What a row is of: its trade and its signal.
Id(r) == <<r.trade, r.signal>>
IdsOf(list) == {Id(list[i]) : i \in DOMAIN list}

\* The rows in the list and in the lists that were read, and those on their way.
ListIds ==
  IdsOf(journal) \cup IdsOf(rewriting["user"].read) \cup IdsOf(rewriting["monitor"].read)
Pushing == {t \in Loggers : logging[t].step = "push"}
PushIds == {Id(logging[t].row) : t \in Pushing}
KnownIds == ListIds \cup PushIds

\* A signal has one trade, and every trade and every signal has been begun.
OneTradePerSignal ==
  /\ \A p, q \in KnownIds : p[2] = q[2] /\ p[2] # NoSignal => p[1] = q[1]
  /\ \A p \in KnownIds : p[1] \in 1..begun /\ p[2] \in signalIds \cup {NoSignal}

\* No list has two rows of a trade.
Distinct(list) ==
  \A i, j \in DOMAIN list : i # j => list[i].trade # list[j].trade
RowsDistinct ==
  Distinct(journal) /\ \A t \in Rewriters : Distinct(rewriting[t].read)

\* A row that is about to be pushed is the first of its trade.
PushedIsNew ==
  \A t \in Pushing :
    /\ \A p \in ListIds : p[1] # logging[t].row.trade
    /\ \A u \in Pushing : u # t => logging[u].row.trade # logging[t].row.trade

\* A rewriter leaves every row where it was.
SameRows(old, new) ==
  DOMAIN new = DOMAIN old /\ \A i \in DOMAIN old : Id(new[i]) = Id(old[i])
RewritersKeepRows ==
  \A t \in Rewriters : SameRows(rewriting[t].read, rewriting[t].rows)

\* Where AnsweredIsKept finds a row: behind no more rows than were pushed since.
NotFarBehind ==
  races = 0 =>
    \A i \in DOMAIN truth : i + JournalRows > Len(truth) + journalFaults =>
      \E p \in DOMAIN journal :
        p + i <= Len(truth) + 1 + journalFaults /\ journal[p] = truth[i]

JournalIInv ==
  /\ JournalTypeOK
  /\ OneTradePerSignal
  /\ RowsDistinct
  /\ PushedIsNew
  /\ RewritersKeepRows
  /\ NotFarBehind

LEMMA IdsHold ==
  ASSUME NEW S
  PROVE  /\ \A list \in Seq(S), r \in S : IdsOf(<<r>> \o list) = IdsOf(list) \cup {Id(r)}
         /\ \A list \in Seq(S), n \in Nat : IdsOf(CutTo(list, n)) \subseteq IdsOf(list)
         /\ \A list \in Seq(S), n \in Nat : Distinct(list) => Distinct(CutTo(list, n))
         /\ \A old, new \in Seq(S) : SameRows(old, new) =>
              /\ IdsOf(new) = IdsOf(old)
              /\ Distinct(old) => Distinct(new)
         /\ IdsOf(<<>>) = {} /\ Distinct(<<>>)
<1>1. ASSUME NEW list \in Seq(S), NEW r \in S
      PROVE  IdsOf(<<r>> \o list) = IdsOf(list) \cup {Id(r)}
  <2> DEFINE new == <<r>> \o list
  <2>1. /\ new \in Seq(S) /\ Len(new) = Len(list) + 1 /\ new[1] = r
        /\ \A i \in 1..Len(list) : new[i + 1] = list[i]
    BY <1>1, PushHolds
  <2> HIDE DEF new
  <2>2. Len(list) \in Nat /\ DOMAIN list = 1..Len(list) /\ DOMAIN new = 1..(Len(list) + 1)
    BY <1>1, <2>1, LenProperties
  <2>3. \A i \in DOMAIN list : i + 1 \in DOMAIN new /\ new[i + 1] = list[i]
    BY <2>1, <2>2
  <2>4. \A i \in DOMAIN new : i = 1 \/ (i - 1 \in DOMAIN list /\ new[i] = list[i - 1])
    <3> SUFFICES ASSUME NEW i \in DOMAIN new, i # 1
                 PROVE  i - 1 \in DOMAIN list /\ new[i] = list[i - 1]
      OBVIOUS
    <3>1. i - 1 \in 1..Len(list) /\ (i - 1) + 1 = i
      BY <2>2
    <3> QED
      BY <2>1, <2>2, <3>1
  <2>5. 1 \in DOMAIN new
    BY <2>2
  <2>6. IdsOf(new) = IdsOf(list) \cup {Id(r)}
    BY <2>1, <2>3, <2>4, <2>5 DEF IdsOf
  <2> QED
    BY <2>6 DEF new
<1>2. ASSUME NEW list \in Seq(S), NEW n \in Nat
      PROVE  /\ IdsOf(CutTo(list, n)) \subseteq IdsOf(list)
             /\ Distinct(list) => Distinct(CutTo(list, n))
  <2> DEFINE cut == CutTo(list, n)
  <2>1. /\ cut \in Seq(S) /\ Len(cut) <= Len(list)
        /\ \A i \in 1..Len(cut) : cut[i] = list[i]
    BY <1>2, CutHolds
  <2> HIDE DEF cut
  <2>2. Len(list) \in Nat /\ Len(cut) \in Nat /\ DOMAIN list = 1..Len(list) /\ DOMAIN cut = 1..Len(cut)
    BY <1>2, <2>1, LenProperties
  <2>3. \A i \in DOMAIN cut : i \in DOMAIN list /\ cut[i] = list[i]
    BY <2>1, <2>2
  <2> QED
    BY <2>3 DEF IdsOf, Distinct, cut
<1>3. ASSUME NEW old \in Seq(S), NEW new \in Seq(S), SameRows(old, new)
      PROVE  IdsOf(new) = IdsOf(old) /\ (Distinct(old) => Distinct(new))
  <2>1. \A i \in DOMAIN old : Id(new[i]) = Id(old[i]) /\ new[i].trade = old[i].trade
    BY <1>3 DEF SameRows, Id
  <2>2. DOMAIN new = DOMAIN old
    BY <1>3 DEF SameRows
  <2>3. IdsOf(new) = IdsOf(old)
    BY <2>1, <2>2 DEF IdsOf
  <2> QED
    BY <2>1, <2>2, <2>3 DEF Distinct
<1>4. IdsOf(<<>>) = {} /\ Distinct(<<>>)
  BY DEF IdsOf, Distinct
<1> QED
  BY <1>1, <1>2, <1>3, <1>4

LEMMA TrimmingIsFinite ==
  IsFiniteSet(Trimming) /\ Cardinality(Trimming) \in Nat
<1>1. Loggers = {"scanner"} \cup {"route"}
  BY DEF Loggers
<1>2. IsFiniteSet(Loggers)
  BY <1>1, FS_Singleton, FS_Union
<1>3. Trimming \subseteq Loggers
  BY DEF Trimming
<1> QED
  BY <1>2, <1>3, FS_Subset, FS_CardinalityType

\* Steps that begin nothing and bring no row into play.
LEMMA NoNewIds ==
  ASSUME OneTradePerSignal, KnownIds' \subseteq KnownIds, UNCHANGED <<begun, signalIds>>
  PROVE  OneTradePerSignal'
  BY DEF OneTradePerSignal

LEMMA InitJournal == JournalInit => JournalIInv
<1> SUFFICES ASSUME JournalInit PROVE JournalIInv
  OBVIOUS
<1> USE DEF JournalInit, NotLogging, NotRewriting
<1>1. Row(0, NoSignal, "WATCH", FALSE) \in Rows
  BY JournalAssumption DEF Row, Rows, Statuses, NoSignal
<1>2. <<>> \in Seq(Rows) /\ Len(<<>>) = 0 /\ DOMAIN <<>> = {}
  BY EmptySeq
<1>3. Trimming = {} /\ Pushing = {}
  BY DEF Trimming, Pushing
<1>4. JournalTypeOK
  <2>1. Cardinality(Trimming) = 0
    BY <1>3, FS_EmptySet
  <2>2. logging \in [Loggers -> [step : {"idle", "push", "trim"}, row : Rows]]
    BY <1>1
  <2>3. rewriting \in [Rewriters -> [step : {"idle", "resolve", "save"},
                                   read : Seq(Rows), rows : Seq(Rows)]]
    BY <1>2
  <2>4. \A t \in Rewriters : /\ Len(rewriting[t].read) <= JournalRows
                             /\ Len(rewriting[t].rows) = Len(rewriting[t].read)
    BY <1>2, JournalAssumption
  <2>5. Len(journal) <= JournalRows + journalFaults + Cardinality(Trimming)
    BY <1>2, <2>1, JournalAssumption
  <2>6. /\ journal \in Seq(Rows) /\ truth \in Seq(Rows) /\ signalIds \subseteq SignalIds
        /\ begun \in 0..MaxTrades /\ aged \in 0..begun /\ races \in {0, 1}
        /\ rewrites \in 0..MaxRewrites /\ journalFaults \in 0..MaxJournalFaults
    BY <1>2, JournalAssumption
  <2> HIDE DEF JournalInit
  <2> QED
    BY <2>2, <2>3, <2>4, <2>5, <2>6 DEF JournalTypeOK
<1>5. KnownIds = {}
  BY <1>3, IdsHold DEF KnownIds, ListIds, PushIds, Rewriters
<1>6. OneTradePerSignal /\ PushedIsNew
  BY <1>3, <1>5 DEF OneTradePerSignal, PushedIsNew
<1>7. RowsDistinct /\ RewritersKeepRows /\ NotFarBehind
  BY <1>2, IdsHold DEF RowsDistinct, RewritersKeepRows, NotFarBehind, SameRows
<1> QED
  BY <1>4, <1>6, <1>7 DEF JournalIInv

\* What a step that leaves rewriters and lists alone has to show.
LEMMA BeginKeeps ==
  ASSUME JournalIInv, NEW t \in Loggers, logging[t].step = "idle",
         NEW signal \in SignalIds \cup {NoSignal}, NEW status \in Statuses,
         Begin(t, signal, status),
         signal \notin signalIds, signalIds' = signalIds \cup ({signal} \ {NoSignal}),
         UNCHANGED <<journal, rewriting, aged, truth, races, rewrites, journalFaults>>
  PROVE  JournalIInv'
<1>t. /\ JournalTypeOK /\ OneTradePerSignal /\ RowsDistinct /\ PushedIsNew
      /\ RewritersKeepRows /\ NotFarBehind
  BY DEF JournalIInv
<1> DEFINE new == Row(begun + 1, signal, status, t = "route")
<1>1. /\ begun \in 0..MaxTrades /\ begun' = begun + 1 /\ begun' \in 0..MaxTrades
      /\ logging' = [logging EXCEPT ![t] = [step |-> "push", row |-> new]]
  BY <1>t, JournalAssumption DEF Begin, JournalTypeOK
<1>2. new \in Rows /\ Id(new) = <<begun + 1, signal>> /\ new.trade = begun + 1
  <2>1. (t = "route") \in BOOLEAN
    OBVIOUS
  <2>2. begun + 1 \in 0..MaxTrades
    BY <1>1
  <2> QED
    BY <2>1, <2>2 DEF Row, Rows, Id
<1> HIDE DEF new
<1>3. logging \in [Loggers -> [step : {"idle", "push", "trim"}, row : Rows]]
  BY <1>t DEF JournalTypeOK
<1>4. /\ logging' \in [Loggers -> [step : {"idle", "push", "trim"}, row : Rows]]
      /\ logging'[t].step = "push" /\ logging'[t].row = new
      /\ \A u \in Loggers : u # t => logging'[u] = logging[u]
  BY <1>1, <1>2, <1>3
<1>5. Trimming' = Trimming
  BY <1>4 DEF Trimming
<1>6. t \notin Pushing /\ Pushing' = Pushing \cup {t}
  BY <1>4 DEF Pushing
<1>7. JournalTypeOK'
  <2>1. signalIds' \subseteq SignalIds /\ aged \in 0..begun'
    BY <1>t, <1>1, JournalAssumption DEF JournalTypeOK
  <2> QED
    BY <1>t, <1>1, <1>4, <1>5, <2>1 DEF JournalTypeOK
<1>8. ListIds' = ListIds
  BY DEF ListIds
<1>9. PushIds' = PushIds \cup {<<begun + 1, signal>>}
  <2>1. \A u \in Pushing : logging'[u].row = logging[u].row
    BY <1>4, <1>6 DEF Pushing
  <2> QED
    BY <1>2, <1>4, <1>6, <2>1 DEF PushIds
<1>10. KnownIds' = KnownIds \cup {<<begun + 1, signal>>}
  BY <1>8, <1>9 DEF KnownIds
<1>11. OneTradePerSignal'
  <2>1. \A p \in KnownIds : p[1] \in 1..begun' /\ p[2] \in signalIds' \cup {NoSignal}
    BY <1>t, <1>1 DEF OneTradePerSignal
  <2>2. \A p \in KnownIds : p[2] = signal => p[2] = NoSignal
    BY <1>t DEF OneTradePerSignal
  <2>3. begun + 1 \in 1..begun' /\ signal \in signalIds' \cup {NoSignal}
    BY <1>1
  <2>4. \A p, q \in KnownIds : p[2] = q[2] /\ p[2] # NoSignal => p[1] = q[1]
    BY <1>t DEF OneTradePerSignal
  <2> QED
    BY <1>10, <2>1, <2>2, <2>3, <2>4 DEF OneTradePerSignal
<1>12. PushedIsNew'
  <2>1. \A p \in KnownIds : p[1] # begun + 1
    BY <1>t, <1>1 DEF OneTradePerSignal
  <2>2. \A p \in ListIds : p[1] # begun + 1
    BY <2>1 DEF KnownIds
  <2>3. \A u \in Pushing : logging[u].row.trade # begun + 1
    <3> TAKE u \in Pushing
    <3>1. Id(logging[u].row) \in KnownIds
      BY DEF KnownIds, PushIds
    <3> QED
      BY <2>1, <3>1 DEF Id
  <2>4. \A u \in Pushing : u # t /\ logging'[u].row = logging[u].row
    BY <1>4, <1>6 DEF Pushing
  <2> QED
    BY <1>t, <1>2, <1>4, <1>6, <1>8, <2>2, <2>3, <2>4 DEF PushedIsNew
<1>13. RowsDistinct' /\ RewritersKeepRows' /\ NotFarBehind'
  BY <1>t DEF RowsDistinct, RewritersKeepRows, NotFarBehind
<1> QED
  BY <1>7, <1>11, <1>12, <1>13 DEF JournalIInv

\* A failure only lets rows be further behind.
LEMMA FaultsLoosen ==
  ASSUME JournalTypeOK, NotFarBehind, UNCHANGED <<journal, truth, races>>,
         journalFaults' \in Nat, journalFaults' >= journalFaults
  PROVE  NotFarBehind'
<1>1. /\ Len(truth) \in Nat /\ DOMAIN truth = 1..Len(truth) /\ DOMAIN journal = 1..Len(journal)
      /\ Len(journal) \in Nat /\ journalFaults \in Nat /\ JournalRows \in Nat
  BY LenProperties, JournalAssumption DEF JournalTypeOK
<1> SUFFICES ASSUME races = 0, NEW i \in DOMAIN truth,
                    i + JournalRows > Len(truth) + journalFaults'
             PROVE  \E p \in DOMAIN journal :
                      p + i <= Len(truth) + 1 + journalFaults' /\ journal[p] = truth[i]
  BY DEF NotFarBehind
<1>2. i + JournalRows > Len(truth) + journalFaults
  <2>1. i \in Nat
    BY <1>1
  <2> QED
    BY <1>1, <2>1
<1>3. PICK p \in DOMAIN journal :
        p + i <= Len(truth) + 1 + journalFaults /\ journal[p] = truth[i]
  BY <1>2 DEF NotFarBehind
<1>4. p + i <= Len(truth) + 1 + journalFaults'
  <2> DEFINE reach == p + i
             bound == Len(truth) + 1
             faults == journalFaults
             more == journalFaults'
  <2>1. reach \in Nat /\ bound \in Nat /\ faults \in Nat /\ more \in Nat
    <3>1. p \in Nat
      BY <1>1
    <3>2. i \in Nat
      BY <1>1
    <3>3. Len(truth) \in Nat /\ journalFaults \in Nat
      BY <1>1
    <3> QED
      BY <3>1, <3>2, <3>3
  <2>2. reach <= bound + faults /\ faults <= more
    BY <1>3
  <2> HIDE DEF reach, bound, faults, more
  <2>3. reach <= bound + more
    BY <2>1, <2>2
  <2> QED
    BY <2>3 DEF reach, bound, more
<1> QED
  BY <1>3, <1>4

\* A rewriter loads, decides, or gives up: what it has read was in the list, or is
\* what it had read before.
LEMMA RewriterMoves ==
  ASSUME JournalIInv, NEW u \in Rewriters,
         NEW step \in {"idle", "resolve", "save"},
         NEW read \in Seq(Rows), NEW new \in Seq(Rows),
         rewriting' = [rewriting EXCEPT ![u] = [step |-> step, read |-> read, rows |-> new]],
         Len(read) <= JournalRows, SameRows(read, new), Distinct(read),
         IdsOf(read) \subseteq IdsOf(journal) \cup IdsOf(rewriting[u].read),
         rewrites' \in 0..MaxRewrites,
         journalFaults' \in 0..MaxJournalFaults, journalFaults' >= journalFaults,
         UNCHANGED <<journal, signalIds, logging, begun, aged, truth, races>>
  PROVE  JournalIInv'
<1>t. /\ JournalTypeOK /\ OneTradePerSignal /\ RowsDistinct /\ PushedIsNew
      /\ RewritersKeepRows /\ NotFarBehind
  BY DEF JournalIInv
<1>1. /\ rewriting \in [Rewriters -> [step : {"idle", "resolve", "save"},
                                     read : Seq(Rows), rows : Seq(Rows)]]
      /\ u \in DOMAIN rewriting
  BY <1>t DEF JournalTypeOK
<1>2. /\ rewriting' \in [Rewriters -> [step : {"idle", "resolve", "save"},
                                      read : Seq(Rows), rows : Seq(Rows)]]
      /\ rewriting'[u].read = read /\ rewriting'[u].rows = new
      /\ \A t \in Rewriters : t # u => rewriting'[t] = rewriting[t]
  BY <1>1
<1>3. JournalTypeOK'
  <2>1. Trimming' = Trimming
    BY DEF Trimming
  <2>2. Len(new) = Len(read)
    BY LenProperties DEF SameRows
  <2>3. \A t \in Rewriters : /\ Len(rewriting'[t].read) <= JournalRows
                             /\ Len(rewriting'[t].rows) = Len(rewriting'[t].read)
    BY <1>t, <1>2, <2>2 DEF JournalTypeOK
  <2>4. Len(journal) <= JournalRows + journalFaults' + Cardinality(Trimming)
    <3>1. Len(journal) \in Nat /\ Cardinality(Trimming) \in Nat /\ journalFaults \in Nat
      BY <1>t, LenProperties, TrimmingIsFinite, JournalAssumption DEF JournalTypeOK
    <3>2. Len(journal) <= JournalRows + journalFaults + Cardinality(Trimming)
      BY <1>t DEF JournalTypeOK
    <3> QED
      BY <3>1, <3>2, JournalAssumption
  <2> QED
    BY <1>t, <1>2, <2>1, <2>3, <2>4 DEF JournalTypeOK
<1>4. ListIds' \subseteq ListIds
  <2>1. IdsOf(read) \subseteq ListIds /\ Rewriters = {"user", "monitor"}
    BY DEF ListIds, Rewriters
  <2>2. \A t \in Rewriters : IdsOf(rewriting'[t].read) \subseteq ListIds
    <3> TAKE t \in Rewriters
    <3>1. CASE t = u
      BY <1>2, <2>1, <3>1
    <3>2. CASE t # u
      BY <1>2, <2>1, <3>2 DEF ListIds
    <3> QED
      BY <3>1, <3>2
  <2>3. IdsOf(journal) \subseteq ListIds
    BY DEF ListIds
  <2> QED
    BY <2>1, <2>2, <2>3 DEF ListIds
<1>5. PushIds' = PushIds /\ Pushing' = Pushing
  BY DEF PushIds, Pushing
<1>6. OneTradePerSignal'
  BY <1>t, <1>4, <1>5, NoNewIds DEF KnownIds
<1>7. PushedIsNew'
  BY <1>t, <1>4, <1>5 DEF PushedIsNew
<1>8. RowsDistinct' /\ RewritersKeepRows'
  BY <1>t, <1>2 DEF RowsDistinct, RewritersKeepRows
<1>9. NotFarBehind'
  BY <1>t, FaultsLoosen
<1> QED
  BY <1>3, <1>6, <1>7, <1>8, <1>9 DEF JournalIInv

\* A row is put before the others, whether or not its writer is told so.
LEMMA PushKeepsIds ==
  ASSUME JournalIInv, NEW t \in Loggers, logging[t].step = "push",
         journal' = <<logging[t].row>> \o journal,
         NEW next \in {"idle", "trim"}, NEW row \in Rows,
         logging' = [logging EXCEPT ![t] = [step |-> next, row |-> row]],
         UNCHANGED <<signalIds, rewriting, begun>>
  PROVE  /\ OneTradePerSignal' /\ RowsDistinct' /\ PushedIsNew' /\ RewritersKeepRows'
         /\ journal' \in Seq(Rows) /\ Len(journal') = Len(journal) + 1
         /\ journal'[1] = logging[t].row
         /\ \A i \in DOMAIN journal : i + 1 \in DOMAIN journal' /\ journal'[i + 1] = journal[i]
         /\ logging' \in [Loggers -> [step : {"idle", "push", "trim"}, row : Rows]]
<1>t. /\ JournalTypeOK /\ OneTradePerSignal /\ RowsDistinct /\ PushedIsNew /\ RewritersKeepRows
  BY DEF JournalIInv
<1>1. /\ logging \in [Loggers -> [step : {"idle", "push", "trim"}, row : Rows]]
      /\ journal \in Seq(Rows) /\ logging[t].row \in Rows
  BY <1>t DEF JournalTypeOK
<1>2. /\ logging' \in [Loggers -> [step : {"idle", "push", "trim"}, row : Rows]]
      /\ logging'[t].step # "push"
      /\ \A u \in Loggers : u # t => logging'[u] = logging[u]
  BY <1>1
<1>3. t \in Pushing /\ Pushing' = Pushing \ {t}
  BY <1>2 DEF Pushing
<1>4. /\ journal' \in Seq(Rows) /\ Len(journal') = Len(journal) + 1
      /\ journal'[1] = logging[t].row
      /\ \A i \in 1..Len(journal) : journal'[i + 1] = journal[i]
  BY <1>1, PushHolds
<1>5. Len(journal) \in Nat /\ DOMAIN journal = 1..Len(journal) /\ DOMAIN journal' = 1..(Len(journal) + 1)
  BY <1>1, <1>4, LenProperties
<1>6. \A i \in DOMAIN journal : i + 1 \in DOMAIN journal' /\ journal'[i + 1] = journal[i]
  BY <1>4, <1>5
<1>7. IdsOf(journal)' = IdsOf(journal) \cup {Id(logging[t].row)}
  BY <1>1, IdsHold
<1>8. ListIds' = ListIds \cup {Id(logging[t].row)}
  BY <1>7 DEF ListIds
<1>9. PushIds' \subseteq PushIds /\ Id(logging[t].row) \in PushIds
  <2>1. \A u \in Pushing' : u \in Pushing /\ logging'[u].row = logging[u].row
    BY <1>2, <1>3 DEF Pushing
  <2> QED
    BY <1>3, <2>1 DEF PushIds
<1>10. OneTradePerSignal'
  BY <1>t, <1>8, <1>9, NoNewIds DEF KnownIds
<1>11. PushedIsNew'
  <2> SUFFICES ASSUME NEW u \in Pushing'
               PROVE  /\ \A p \in ListIds' : p[1] # logging'[u].row.trade
                      /\ \A v \in Pushing' : v # u => logging'[v].row.trade # logging'[u].row.trade
    BY DEF PushedIsNew
  <2>1. /\ u \in Pushing /\ u # t /\ logging'[u].row = logging[u].row
        /\ \A v \in Pushing' : v \in Pushing /\ logging'[v].row = logging[v].row
    BY <1>2, <1>3 DEF Pushing
  <2>2. /\ \A p \in ListIds : p[1] # logging[u].row.trade
        /\ \A v \in Pushing : v # u => logging[v].row.trade # logging[u].row.trade
    BY <1>t, <2>1 DEF PushedIsNew
  <2>3. Id(logging[t].row)[1] = logging[t].row.trade
    BY DEF Id
  <2> QED
    BY <1>3, <1>8, <2>1, <2>2, <2>3
<1>12. Distinct(journal')
  <2>1. \A i \in DOMAIN journal : journal[i].trade # logging[t].row.trade
    <3> TAKE i \in DOMAIN journal
    <3>1. Id(journal[i]) \in ListIds
      BY DEF ListIds, IdsOf
    <3>2. Id(journal[i])[1] # logging[t].row.trade
      BY <1>t, <1>3, <3>1 DEF PushedIsNew
    <3> QED
      BY <3>2 DEF Id
  <2>2. \A i \in DOMAIN journal' : i = 1 \/ (i - 1 \in DOMAIN journal /\ journal'[i] = journal[i - 1])
    <3> SUFFICES ASSUME NEW i \in DOMAIN journal', i # 1
                 PROVE  i - 1 \in DOMAIN journal /\ journal'[i] = journal[i - 1]
      OBVIOUS
    <3>1. i - 1 \in DOMAIN journal /\ (i - 1) + 1 = i
      BY <1>5
    <3> QED
      BY <1>6, <3>1
  <2>3. \A i, j \in DOMAIN journal : i # j => journal[i].trade # journal[j].trade
    BY <1>t DEF RowsDistinct, Distinct
  <2> SUFFICES ASSUME NEW i \in DOMAIN journal', NEW j \in DOMAIN journal', i # j
               PROVE  journal'[i].trade # journal'[j].trade
    BY DEF Distinct
  <2>4. CASE i = 1
    BY <1>4, <2>1, <2>2, <2>4
  <2>5. CASE j = 1
    BY <1>4, <2>1, <2>2, <2>5
  <2>6. CASE i # 1 /\ j # 1
    <3>1. i - 1 # j - 1
      BY <1>5
    <3> QED
      BY <2>2, <2>3, <2>6, <3>1
  <2> QED
    BY <2>4, <2>5, <2>6
<1>13. RowsDistinct' /\ RewritersKeepRows'
  BY <1>t, <1>12 DEF RowsDistinct, RewritersKeepRows
<1> QED
  BY <1>2, <1>4, <1>6, <1>10, <1>11, <1>13

\* LPUSH, and LTRIM after it.
LEMMA PushKeeps ==
  ASSUME JournalIInv, NEW t \in Loggers, PushRow(t)
  PROVE  JournalIInv'
<1>t. JournalTypeOK /\ NotFarBehind
  BY DEF JournalIInv
<1>1. /\ logging[t].step = "push"
      /\ journal' = <<logging[t].row>> \o journal
      /\ truth' = Append(truth, logging[t].row)
      /\ UNCHANGED <<signalIds, rewriting, begun, aged, races, rewrites, journalFaults>>
  BY DEF PushRow
<1>2. logging \in [Loggers -> [step : {"idle", "push", "trim"}, row : Rows]]
  BY <1>t DEF JournalTypeOK
<1>3. logging[t].row \in Rows
      /\ logging' = [logging EXCEPT ![t] = [step |-> "trim", row |-> logging[t].row]]
  <2>1. logging' = [logging EXCEPT ![t] = [logging[t] EXCEPT !.step = "trim"]]
    BY <1>2 DEF PushRow
  <2>2. logging[t] \in [step : {"idle", "push", "trim"}, row : Rows]
    BY <1>2
  <2>3. [logging[t] EXCEPT !.step = "trim"] = [step |-> "trim", row |-> logging[t].row]
    BY <2>2
  <2> QED
    BY <2>1, <2>2, <2>3
<1>4. /\ OneTradePerSignal' /\ RowsDistinct' /\ PushedIsNew' /\ RewritersKeepRows'
      /\ journal' \in Seq(Rows) /\ Len(journal') = Len(journal) + 1
      /\ journal'[1] = logging[t].row
      /\ \A i \in DOMAIN journal : i + 1 \in DOMAIN journal' /\ journal'[i + 1] = journal[i]
      /\ logging' \in [Loggers -> [step : {"idle", "push", "trim"}, row : Rows]]
  BY <1>1, <1>3, PushKeepsIds
<1>5. /\ truth' \in Seq(Rows) /\ Len(truth') = Len(truth) + 1
      /\ truth'[Len(truth) + 1] = logging[t].row
      /\ \A i \in 1..Len(truth) : truth'[i] = truth[i]
  BY <1>t, <1>1, <1>3, AppendProperties DEF JournalTypeOK
<1>6. JournalTypeOK'
  <2>1. Trimming' = Trimming \cup {t} /\ t \notin Trimming
    BY <1>1, <1>2, <1>3 DEF Trimming
  <2>2. Cardinality(Trimming') = Cardinality(Trimming) + 1 /\ Cardinality(Trimming) \in Nat
    BY <2>1, TrimmingIsFinite, FS_AddElement
  <2>3. Len(journal') <= JournalRows + journalFaults' + Cardinality(Trimming')
    <3>1. /\ Len(journal) \in Nat /\ journalFaults \in Nat /\ JournalRows \in Nat
          /\ Len(journal) <= JournalRows + journalFaults + Cardinality(Trimming)
      BY <1>t, LenProperties, JournalAssumption DEF JournalTypeOK
    <3> QED
      BY <1>1, <1>4, <2>2, <3>1
  <2> QED
    BY <1>t, <1>1, <1>4, <1>5, <2>3 DEF JournalTypeOK
<1>7. NotFarBehind'
  <2>1. /\ Len(truth) \in Nat /\ DOMAIN truth = 1..Len(truth) /\ DOMAIN journal = 1..Len(journal)
        /\ DOMAIN truth' = 1..(Len(truth) + 1) /\ DOMAIN journal' = 1..(Len(journal) + 1)
        /\ Len(journal) \in Nat /\ journalFaults \in Nat /\ JournalRows \in Nat
    BY <1>t, <1>4, <1>5, LenProperties, JournalAssumption DEF JournalTypeOK
  <2> SUFFICES ASSUME races = 0, NEW i \in DOMAIN truth',
                      i + JournalRows > Len(truth') + journalFaults
               PROVE  \E p \in DOMAIN journal' :
                        p + i <= Len(truth') + 1 + journalFaults /\ journal'[p] = truth'[i]
    BY <1>1 DEF NotFarBehind
  <2>2. CASE i = Len(truth) + 1
    <3>1. 1 \in DOMAIN journal' /\ 1 + i <= Len(truth') + 1 + journalFaults
      BY <1>5, <2>1, <2>2
    <3> QED
      BY <1>4, <1>5, <2>2, <3>1
  <2>3. CASE i # Len(truth) + 1
    <3>1. i \in 1..Len(truth) /\ truth'[i] = truth[i] /\ i + JournalRows > Len(truth) + journalFaults
      <4>1. i \in 1..Len(truth) /\ truth'[i] = truth[i]
        BY <1>5, <2>1, <2>3
      <4>2. i \in Nat
        BY <4>1
      <4> QED
        BY <1>5, <2>1, <4>1, <4>2
    <3>2. PICK p \in DOMAIN journal :
            p + i <= Len(truth) + 1 + journalFaults /\ journal[p] = truth[i]
      BY <1>t, <2>1, <3>1 DEF NotFarBehind
    <3>3. p \in Nat /\ i \in Nat
      BY <2>1, <3>1
    <3>4. (p + 1) + i <= Len(truth') + 1 + journalFaults
      <4>1. Len(truth) \in Nat /\ journalFaults \in Nat
        BY <2>1
      <4> QED
        BY <1>5, <3>2, <3>3, <4>1
    <3> QED
      BY <1>4, <3>1, <3>2, <3>4
  <2> QED
    BY <2>2, <2>3
<1> QED
  BY <1>4, <1>6, <1>7 DEF JournalIInv

LEMMA TrimKeeps ==
  ASSUME JournalIInv, NEW t \in Loggers, TrimRows(t)
  PROVE  JournalIInv'
<1>t. /\ JournalTypeOK /\ OneTradePerSignal /\ RowsDistinct /\ PushedIsNew
      /\ RewritersKeepRows /\ NotFarBehind
  BY DEF JournalIInv
<1>1. /\ logging[t].step = "trim"
      /\ journal' = CutTo(journal, JournalRows)
      /\ logging' = [logging EXCEPT ![t] = NotLogging]
      /\ UNCHANGED <<signalIds, rewriting, begun, aged, truth, races, rewrites, journalFaults>>
  BY DEF TrimRows
<1>2. /\ logging \in [Loggers -> [step : {"idle", "push", "trim"}, row : Rows]]
      /\ journal \in Seq(Rows) /\ JournalRows \in Nat
  BY <1>t, JournalAssumption DEF JournalTypeOK
<1>3. NotLogging \in [step : {"idle", "push", "trim"}, row : Rows] /\ NotLogging.step = "idle"
  BY JournalAssumption DEF NotLogging, Row, Rows, Statuses, NoSignal
<1>4. /\ logging' \in [Loggers -> [step : {"idle", "push", "trim"}, row : Rows]]
      /\ logging'[t].step = "idle" /\ \A u \in Loggers : u # t => logging'[u] = logging[u]
  BY <1>1, <1>2, <1>3
<1>5. /\ journal' \in Seq(Rows) /\ Len(journal') <= JournalRows /\ Len(journal') <= Len(journal)
      /\ Len(journal) <= JournalRows => journal' = journal
      /\ Len(journal) > JournalRows => Len(journal') = JournalRows
      /\ \A i \in 1..Len(journal') : journal'[i] = journal[i]
  BY <1>1, <1>2, CutHolds
<1>6. Pushing' = Pushing /\ PushIds' = PushIds
  <2>1. Pushing' = Pushing
    BY <1>1, <1>4 DEF Pushing
  <2>2. \A u \in Pushing : logging'[u] = logging[u]
    BY <1>1, <1>4 DEF Pushing
  <2> QED
    BY <2>1, <2>2 DEF PushIds
<1>7. ListIds' \subseteq ListIds /\ Distinct(journal')
  BY <1>1, <1>2, <1>t, IdsHold DEF ListIds, RowsDistinct
<1>8. OneTradePerSignal'
  BY <1>t, <1>1, <1>6, <1>7, NoNewIds DEF KnownIds
<1>9. PushedIsNew'
  <2>1. \A u \in Pushing : logging'[u] = logging[u]
    BY <1>1, <1>4 DEF Pushing
  <2> QED
    BY <1>t, <1>6, <1>7, <2>1 DEF PushedIsNew
<1>10. RowsDistinct' /\ RewritersKeepRows'
  BY <1>t, <1>1, <1>7 DEF RowsDistinct, RewritersKeepRows
<1>11. JournalTypeOK'
  <2>1. Cardinality(Trimming') \in Nat
    <3>1. Trimming' = Trimming \ {t}
      BY <1>1, <1>4 DEF Trimming
    <3>2. IsFiniteSet(Trimming \ {t})
      BY TrimmingIsFinite, FS_Subset
    <3> QED
      BY <3>1, <3>2, FS_CardinalityType
  <2>2. Len(journal') <= JournalRows + journalFaults' + Cardinality(Trimming')
    <3>1. Len(journal') \in Nat /\ journalFaults' \in Nat
      BY <1>t, <1>1, <1>5, LenProperties, JournalAssumption DEF JournalTypeOK
    <3> QED
      BY <1>2, <1>5, <2>1, <3>1
  <2> QED
    BY <1>t, <1>1, <1>4, <1>5, <2>2 DEF JournalTypeOK
<1>12. NotFarBehind'
  <2>1. /\ Len(truth) \in Nat /\ DOMAIN truth = 1..Len(truth) /\ DOMAIN journal = 1..Len(journal)
        /\ DOMAIN journal' = 1..Len(journal') /\ Len(journal') \in Nat
        /\ Len(journal) \in Nat /\ journalFaults \in Nat
    BY <1>t, <1>5, LenProperties, JournalAssumption DEF JournalTypeOK
  <2> SUFFICES ASSUME races = 0, NEW i \in DOMAIN truth,
                      i + JournalRows > Len(truth) + journalFaults
               PROVE  \E p \in DOMAIN journal' :
                        p + i <= Len(truth) + 1 + journalFaults /\ journal'[p] = truth[i]
    BY <1>1 DEF NotFarBehind
  <2>2. PICK p \in DOMAIN journal :
          p + i <= Len(truth) + 1 + journalFaults /\ journal[p] = truth[i]
    BY <1>t DEF NotFarBehind
  <2>3. p \in Nat /\ p >= 1 /\ p <= Len(journal) /\ i \in Nat
    BY <2>1
  <2>4. p <= JournalRows
    BY <1>2, <2>1, <2>2, <2>3
  <2>5. p <= Len(journal')
    <3>1. CASE Len(journal) <= JournalRows
      BY <1>5, <2>3, <3>1
    <3>2. CASE Len(journal) > JournalRows
      BY <1>5, <2>4, <3>2
    <3> QED
      BY <1>2, <2>1, <3>1, <3>2
  <2>6. p \in DOMAIN journal' /\ journal'[p] = journal[p]
    BY <1>5, <2>1, <2>3, <2>5
  <2> QED
    BY <2>2, <2>6
<1> QED
  BY <1>8, <1>9, <1>10, <1>11, <1>12 DEF JournalIInv

\* The rewrite.  A row of truth that is near enough to be in the list is in what was
\* read, if nothing else was written since, and so in what is written back.
LEMMA SaveKeeps ==
  ASSUME JournalIInv, NEW t \in Rewriters, SaveRows(t)
  PROVE  JournalIInv'
<1>t. /\ JournalTypeOK /\ OneTradePerSignal /\ RowsDistinct /\ PushedIsNew
      /\ RewritersKeepRows /\ NotFarBehind
  BY DEF JournalIInv
<1> DEFINE read == rewriting[t].read
           back == rewriting[t].rows
           Written(r) == \E i \in DOMAIN back : back[i].trade = r.trade /\ back[i] # read[i]
           New(r) == back[CHOOSE i \in DOMAIN back : back[i].trade = r.trade]
<1>1. /\ journal' = Rewritten(back)
      /\ races' = IF CutTo(journal, JournalRows) = read THEN races ELSE 1
      /\ truth' = [i \in DOMAIN truth |->
                     IF Written(truth[i]) THEN New(truth[i]) ELSE truth[i]]
      /\ rewriting' = [rewriting EXCEPT ![t] = NotRewriting]
      /\ UNCHANGED <<signalIds, logging, begun, aged, rewrites, journalFaults>>
  BY DEF SaveRows
<1>2. /\ rewriting \in [Rewriters -> [step : {"idle", "resolve", "save"},
                                     read : Seq(Rows), rows : Seq(Rows)]]
      /\ journal \in Seq(Rows) /\ truth \in Seq(Rows) /\ races \in {0, 1}
  BY <1>t DEF JournalTypeOK
<1>3. /\ read \in Seq(Rows) /\ back \in Seq(Rows) /\ SameRows(read, back)
      /\ Len(back) <= JournalRows /\ Len(read) <= JournalRows /\ Distinct(read)
  BY <1>t, <1>2 DEF JournalTypeOK, RewritersKeepRows, RowsDistinct
<1> HIDE DEF read, back
<1>4. journal' = back
  BY <1>1, <1>3, CutHolds, JournalAssumption DEF Rewritten
<1>5. /\ rewriting' \in [Rewriters -> [step : {"idle", "resolve", "save"},
                                      read : Seq(Rows), rows : Seq(Rows)]]
      /\ rewriting'[t].read = <<>> /\ rewriting'[t].rows = <<>>
      /\ \A u \in Rewriters : u # t => rewriting'[u] = rewriting[u]
  <2>1. <<>> \in Seq(Rows)
    BY EmptySeq
  <2>2. /\ NotRewriting \in [step : {"idle", "resolve", "save"}, read : Seq(Rows), rows : Seq(Rows)]
        /\ NotRewriting.read = <<>> /\ NotRewriting.rows = <<>>
    BY <2>1 DEF NotRewriting
  <2> QED
    BY <1>1, <1>2, <2>2
<1>6. DOMAIN back = DOMAIN read /\ \A i \in DOMAIN read : back[i].trade = read[i].trade
  BY <1>3 DEF SameRows, Id
<1>7. IdsOf(back) = IdsOf(read) /\ Distinct(back)
  BY <1>3, IdsHold
<1>8. ListIds' \subseteq ListIds
  <2>1. IdsOf(read) \subseteq ListIds /\ Rewriters = {"user", "monitor"}
    BY DEF ListIds, Rewriters, read
  <2>2. \A u \in Rewriters : IdsOf(rewriting'[u].read) \subseteq ListIds
    <3> TAKE u \in Rewriters
    <3>1. CASE u = t
      BY <1>5, <3>1, IdsHold
    <3>2. CASE u # t
      BY <1>5, <2>1, <3>2 DEF ListIds
    <3> QED
      BY <3>1, <3>2
  <2>3. IdsOf(journal') \subseteq ListIds
    BY <1>4, <1>7, <2>1
  <2> QED
    BY <2>1, <2>2, <2>3 DEF ListIds
<1>9. Pushing' = Pushing /\ PushIds' = PushIds
  BY <1>1 DEF Pushing, PushIds
<1>10. OneTradePerSignal'
  BY <1>t, <1>1, <1>8, <1>9, NoNewIds DEF KnownIds
<1>11. PushedIsNew'
  BY <1>t, <1>1, <1>8, <1>9 DEF PushedIsNew
<1>12. RowsDistinct' /\ RewritersKeepRows'
  <2>1. \A u \in Rewriters : Distinct(rewriting'[u].read)
                            /\ SameRows(rewriting'[u].read, rewriting'[u].rows)
    <3> TAKE u \in Rewriters
    <3>1. CASE u = t
      BY <1>5, <3>1, IdsHold DEF SameRows
    <3>2. CASE u # t
      BY <1>t, <1>5, <3>2 DEF RowsDistinct, RewritersKeepRows
    <3> QED
      BY <3>1, <3>2
  <2> QED
    BY <1>4, <1>7, <2>1 DEF RowsDistinct, RewritersKeepRows
\* Which row a trade has in what is written back.
<1>13. ASSUME NEW p \in DOMAIN back, NEW r, r.trade = back[p].trade
       PROVE  New(r) = back[p]
  <2> DEFINE q == CHOOSE i \in DOMAIN back : back[i].trade = r.trade
  <2>1. q \in DOMAIN back /\ back[q].trade = r.trade
    BY <1>13
  <2>2. q = p
    BY <1>7, <1>13, <2>1 DEF Distinct
  <2> QED
    BY <2>2
<1>14. \A i \in DOMAIN truth : Written(truth[i]) => New(truth[i]) \in Rows
  <2> SUFFICES ASSUME NEW i \in DOMAIN truth, Written(truth[i]) PROVE New(truth[i]) \in Rows
    OBVIOUS
  <2>1. PICK p \in DOMAIN back : back[p].trade = truth[i].trade
    OBVIOUS
  <2>2. New(truth[i]) = back[p]
    BY <1>13, <2>1
  <2>3. back[p] \in Rows
    BY <1>3, ElementOfSeq, LenProperties
  <2> QED
    BY <2>2, <2>3
<1>15. truth' \in Seq(Rows) /\ DOMAIN truth' = DOMAIN truth /\ Len(truth') = Len(truth)
  <2> HIDE DEF Written, New
  <2>1. Len(truth) \in Nat /\ DOMAIN truth = 1..Len(truth) /\ \A i \in 1..Len(truth) : truth[i] \in Rows
    BY <1>2, LenProperties, ElementOfSeq
  <2>2. truth' = [i \in 1..Len(truth) |-> IF Written(truth[i]) THEN New(truth[i]) ELSE truth[i]]
    BY <1>1, <2>1
  <2>3. \A i \in 1..Len(truth) :
          (IF Written(truth[i]) THEN New(truth[i]) ELSE truth[i]) \in Rows
    BY <1>14, <2>1
  <2>4. truth' \in [1..Len(truth) -> Rows]
    BY <2>2, <2>3
  <2>5. truth' \in Seq(Rows)
    BY <2>1, <2>4
  <2>6. DOMAIN truth' = 1..Len(truth)
    BY <2>2
  <2>7. Len(truth') = Len(truth)
    BY <2>1, <2>5, <2>6, LenProperties
  <2> QED
    BY <2>1, <2>5, <2>6, <2>7
<1>16. JournalTypeOK'
  <2>1. Trimming' = Trimming
    BY <1>1 DEF Trimming
  <2>2. \A u \in Rewriters : /\ Len(rewriting'[u].read) <= JournalRows
                             /\ Len(rewriting'[u].rows) = Len(rewriting'[u].read)
    <3> TAKE u \in Rewriters
    <3>1. CASE u = t
      BY <1>5, <3>1, EmptySeq, JournalAssumption
    <3>2. CASE u # t
      BY <1>t, <1>5, <3>2 DEF JournalTypeOK
    <3> QED
      BY <3>1, <3>2
  <2>3. Len(back) <= JournalRows + journalFaults + Cardinality(Trimming)
    <3>1. Len(back) \in Nat /\ Cardinality(Trimming) \in Nat /\ journalFaults \in Nat /\ JournalRows \in Nat
      BY <1>t, <1>3, LenProperties, TrimmingIsFinite, JournalAssumption DEF JournalTypeOK
    <3> QED
      BY <1>3, <3>1
  <2>4. races' \in {0, 1}
    BY <1>1, <1>2
  <2> QED
    BY <1>t, <1>1, <1>3, <1>4, <1>5, <1>15, <2>1, <2>2, <2>3, <2>4 DEF JournalTypeOK
<1>17. NotFarBehind'
  <2>1. /\ Len(truth) \in Nat /\ DOMAIN truth = 1..Len(truth)
        /\ DOMAIN journal = 1..Len(journal) /\ Len(journal) \in Nat
        /\ journalFaults \in Nat /\ JournalRows \in Nat
        /\ DOMAIN read = 1..Len(read) /\ Len(read) \in Nat
    BY <1>t, <1>2, <1>3, LenProperties, JournalAssumption DEF JournalTypeOK
  <2> SUFFICES ASSUME races' = 0, NEW i \in DOMAIN truth,
                      i + JournalRows > Len(truth) + journalFaults
               PROVE  \E p \in DOMAIN back :
                        p + i <= Len(truth) + 1 + journalFaults /\ back[p] = truth'[i]
    <3>1. journal' = back /\ journalFaults' = journalFaults
      BY <1>1, <1>4
    <3>2. DOMAIN truth' = DOMAIN truth /\ Len(truth') = Len(truth)
      BY <1>15
    <3> HIDE DEF Written, New
    <3> QED
      BY <3>1, <3>2 DEF NotFarBehind
  <2>2. races = 0 /\ CutTo(journal, JournalRows) = read
    BY <1>1
  <2>3. PICK p \in DOMAIN journal :
          p + i <= Len(truth) + 1 + journalFaults /\ journal[p] = truth[i]
    BY <1>t, <2>2 DEF NotFarBehind
  <2>4. p \in Nat /\ p >= 1 /\ p <= Len(journal) /\ i \in Nat
    BY <2>1
  <2>5. p <= JournalRows
    BY <2>1, <2>3, <2>4
  <2>6. p \in DOMAIN read /\ read[p] = journal[p]
    <3> DEFINE cut == CutTo(journal, JournalRows)
    <3>0. /\ \A k \in 1..Len(cut) : cut[k] = journal[k]
          /\ Len(journal) <= JournalRows => cut = journal
          /\ Len(journal) > JournalRows => Len(cut) = JournalRows
      BY <1>2, JournalAssumption, CutHolds
    <3> HIDE DEF cut
    <3>1. /\ \A k \in 1..Len(read) : read[k] = journal[k]
          /\ Len(journal) <= JournalRows => read = journal
          /\ Len(journal) > JournalRows => Len(read) = JournalRows
      <4>1. cut = read
        BY <2>2 DEF cut
      <4> QED
        BY <3>0, <4>1
    <3>2. p <= Len(read)
      <4>1. CASE Len(journal) <= JournalRows
        BY <2>4, <3>1, <4>1
      <4>2. CASE Len(journal) > JournalRows
        BY <2>5, <3>1, <4>2
      <4>3. Len(journal) \in Nat
        BY <2>1
      <4>5. JournalRows \in Nat
        BY <2>1
      <4>4. Len(journal) <= JournalRows \/ Len(journal) > JournalRows
        BY <4>3, <4>5
      <4> QED
        BY <4>1, <4>2, <4>4
    <3>3. p \in 1..Len(read)
      BY <2>1, <2>4, <3>2
    <3> QED
      BY <2>1, <3>1, <3>3
  <2>7. p \in DOMAIN back /\ back[p].trade = truth[i].trade
    BY <1>6, <2>3, <2>6
  <2>8. truth'[i] = back[p]
    <3>1. CASE Written(truth[i])
      <4>1. truth'[i] = New(truth[i])
        BY <1>1, <3>1
      <4> QED
        BY <1>13, <2>7, <4>1
    <3>2. CASE ~Written(truth[i])
      <4>1. truth'[i] = truth[i]
        BY <1>1, <3>2
      <4>2. back[p] = read[p]
        BY <2>7, <3>2
      <4> QED
        BY <2>3, <2>6, <4>1, <4>2
    <3> QED
      BY <3>1, <3>2
  <2> QED
    BY <2>3, <2>7, <2>8
<1> QED
  BY <1>10, <1>11, <1>12, <1>16, <1>17 DEF JournalIInv

\* A logger that fails leaves its row in the list or not, and the list uncut.
LEMMA LoggerFailsKeeps ==
  ASSUME JournalIInv, LoggerFails
  PROVE  JournalIInv'
<1>t. /\ JournalTypeOK /\ OneTradePerSignal /\ RowsDistinct /\ PushedIsNew
      /\ RewritersKeepRows /\ NotFarBehind
  BY DEF JournalIInv
<1>1. PICK t \in Loggers :
        /\ logging[t].step # "idle"
        /\ journal' \in {journal} \cup (IF logging[t].step = "push"
                                          THEN {<<logging[t].row>> \o journal} ELSE {})
        /\ logging' = [logging EXCEPT ![t] = NotLogging]
  BY DEF LoggerFails
<1>2. /\ UNCHANGED <<signalIds, rewriting, begun, aged, truth, races, rewrites>>
      /\ journalFaults' = journalFaults + 1 /\ journalFaults < MaxJournalFaults
  BY DEF LoggerFails
<1>3. /\ journalFaults \in Nat /\ journalFaults' \in Nat /\ JournalRows \in Nat
      /\ journalFaults' \in 0..MaxJournalFaults /\ journalFaults' >= journalFaults
      /\ Len(journal) \in Nat /\ journal \in Seq(Rows)
  BY <1>t, <1>2, LenProperties, JournalAssumption DEF JournalTypeOK
<1>4. /\ logging \in [Loggers -> [step : {"idle", "push", "trim"}, row : Rows]]
      /\ Len(journal) <= JournalRows + journalFaults + Cardinality(Trimming)
      /\ Cardinality(Trimming) \in Nat
  BY <1>t, TrimmingIsFinite DEF JournalTypeOK
<1>5. NotLogging \in [step : {"idle", "push", "trim"}, row : Rows] /\ NotLogging.step = "idle"
  BY JournalAssumption DEF NotLogging, Row, Rows, Statuses, NoSignal
<1>6. /\ logging' \in [Loggers -> [step : {"idle", "push", "trim"}, row : Rows]]
      /\ logging'[t].step = "idle" /\ \A u \in Loggers : u # t => logging'[u] = logging[u]
  BY <1>1, <1>4, <1>5
<1>7. Trimming' = Trimming \ {t}
  BY <1>6 DEF Trimming
<1>8. CASE journal' = journal
  <2>1. /\ Cardinality(Trimming') \in Nat
        /\ Cardinality(Trimming) <= Cardinality(Trimming') + 1
    <3>1. /\ IsFiniteSet(Trimming \ {t})
          /\ Cardinality(Trimming \ {t})
               = IF t \in Trimming THEN Cardinality(Trimming) - 1 ELSE Cardinality(Trimming)
      BY TrimmingIsFinite, FS_RemoveElement
    <3>2. Cardinality(Trimming \ {t}) \in Nat
      BY <3>1, FS_CardinalityType
    <3> QED
      BY <1>4, <1>7, <3>1, <3>2
  <2>2. Len(journal) <= JournalRows + journalFaults' + Cardinality(Trimming')
    BY <1>2, <1>3, <1>4, <2>1
  <2>3. JournalTypeOK'
    BY <1>t, <1>2, <1>3, <1>6, <1>8, <2>2 DEF JournalTypeOK
  <2>4. Pushing' = Pushing \ {t} /\ \A u \in Pushing' : logging'[u] = logging[u]
    BY <1>6 DEF Pushing
  <2>5. ListIds' = ListIds /\ PushIds' \subseteq PushIds
    BY <1>2, <1>8, <2>4 DEF ListIds, PushIds
  <2>6. OneTradePerSignal'
    BY <1>t, <1>2, <2>5, NoNewIds DEF KnownIds
  <2>7. PushedIsNew'
    BY <1>t, <2>4, <2>5 DEF PushedIsNew
  <2>8. RowsDistinct' /\ RewritersKeepRows'
    BY <1>t, <1>2, <1>8 DEF RowsDistinct, RewritersKeepRows
  <2>9. NotFarBehind'
    BY <1>t, <1>2, <1>3, <1>8, FaultsLoosen
  <2> QED
    BY <2>3, <2>6, <2>7, <2>8, <2>9 DEF JournalIInv
<1>9. CASE logging[t].step = "push" /\ journal' = <<logging[t].row>> \o journal
  <2>0. NotLogging = [step |-> "idle", row |-> NotLogging.row] /\ NotLogging.row \in Rows
    BY <1>5
  <2>1. /\ OneTradePerSignal' /\ RowsDistinct' /\ PushedIsNew' /\ RewritersKeepRows'
        /\ journal' \in Seq(Rows) /\ Len(journal') = Len(journal) + 1
        /\ \A i \in DOMAIN journal : i + 1 \in DOMAIN journal' /\ journal'[i + 1] = journal[i]
    <3>1. logging' = [logging EXCEPT ![t] = [step |-> "idle", row |-> NotLogging.row]]
      BY <1>1, <2>0
    <3> QED
      BY <1>2, <1>9, <2>0, <3>1, PushKeepsIds
  <2>2. Trimming' = Trimming
    BY <1>7, <1>9 DEF Trimming
  <2>3. Len(journal') <= JournalRows + journalFaults' + Cardinality(Trimming')
    BY <1>2, <1>3, <1>4, <2>1, <2>2
  <2>4. JournalTypeOK'
    BY <1>t, <1>2, <1>3, <1>6, <2>1, <2>3 DEF JournalTypeOK
  <2>5. NotFarBehind'
    <3>1. /\ DOMAIN truth = 1..Len(truth) /\ DOMAIN journal = 1..Len(journal)
          /\ Len(truth) \in Nat
      BY <1>t, LenProperties DEF JournalTypeOK
    <3> SUFFICES ASSUME races = 0, NEW i \in DOMAIN truth,
                        i + JournalRows > Len(truth) + (journalFaults + 1)
                 PROVE  \E p \in DOMAIN journal' :
                          p + i <= Len(truth) + 1 + (journalFaults + 1) /\ journal'[p] = truth[i]
      BY <1>2 DEF NotFarBehind
    <3>2. i \in Nat
      BY <3>1
    <3>3. i + JournalRows > Len(truth) + journalFaults
      <4>1. Len(truth) \in Nat
        BY <3>1
      <4> QED
        BY <1>3, <3>2, <4>1
    <3>4. PICK p \in DOMAIN journal :
            p + i <= Len(truth) + 1 + journalFaults /\ journal[p] = truth[i]
      BY <1>t, <3>3 DEF NotFarBehind
    <3>5. (p + 1) + i <= Len(truth) + 1 + (journalFaults + 1)
      <4>1. Len(truth) \in Nat
        BY <3>1
      <4>2. p \in Nat
        BY <3>1
      <4> DEFINE bound == Len(truth) + 1
      <4>3. p + i <= bound + journalFaults /\ bound \in Nat
        BY <3>4, <4>1
      <4> HIDE DEF bound
      <4>5. journalFaults \in Nat
        BY <1>3
      <4>4. (p + 1) + i <= bound + (journalFaults + 1)
        BY <3>2, <4>2, <4>3, <4>5
      <4> QED
        BY <4>4 DEF bound
    <3> QED
      BY <2>1, <3>4, <3>5
  <2> QED
    BY <2>1, <2>4, <2>5 DEF JournalIInv
<1> QED
  BY <1>1, <1>8, <1>9

\* load_rows reads rows that are in the list.
LEMMA LoadHolds ==
  ASSUME JournalIInv
  PROVE  /\ LoadRows \in Seq(Rows) /\ Len(LoadRows) <= JournalRows
         /\ IdsOf(LoadRows) \subseteq IdsOf(journal) /\ Distinct(LoadRows)
<1>1. journal \in Seq(Rows) /\ Distinct(journal) /\ JournalRows \in Nat
  BY JournalAssumption DEF JournalIInv, JournalTypeOK, RowsDistinct
<1>2. LoadRows \in Seq(Rows) /\ Len(LoadRows) <= JournalRows
  BY <1>1, CutHolds DEF LoadRows
<1>3. IdsOf(LoadRows) \subseteq IdsOf(journal) /\ Distinct(LoadRows)
  BY <1>1, IdsHold DEF LoadRows
<1> QED
  BY <1>2, <1>3

\* A list in which rows have changed, but not what they are of.
LEMMA StatusChangeHolds ==
  ASSUME NEW old \in Seq(Rows), NEW new \in [DOMAIN old -> Rows],
         \A i \in DOMAIN old : Id(new[i]) = Id(old[i])
  PROVE  new \in Seq(Rows) /\ SameRows(old, new)
<1>1. DOMAIN old = 1..Len(old) /\ Len(old) \in Nat
  BY LenProperties
<1>2. new \in Seq(Rows)
  BY <1>1
<1>3. SameRows(old, new)
  BY DEF SameRows
<1> QED
  BY <1>2, <1>3

\* A review, like a verdict of the monitor, changes no more than the status.
LEMMA StatusKeepsId ==
  ASSUME NEW r \in Rows
  PROVE  /\ \A how \in {"close", "taken"} : Reviewed(r, how) \in Rows /\ Id(Reviewed(r, how)) = Id(r)
         /\ LET closed == [r EXCEPT !.status = "CLOSED"]
            IN  closed \in Rows /\ Id(closed) = Id(r)
<1>1. /\ r.trade \in 0..MaxTrades /\ r.signal \in SignalIds \cup {NoSignal}
      /\ r.status \in Statuses /\ r.epoch \in BOOLEAN
  BY DEF Rows
<1>2. ASSUME NEW s \in Statuses
      PROVE  [r EXCEPT !.status = s] \in Rows /\ Id([r EXCEPT !.status = s]) = Id(r)
  BY DEF Rows, Id
<1>3. ASSUME NEW how \in {"close", "taken"}
      PROVE  (CASE how = "close" -> "CLOSED"
                [] how = "taken" /\ r.status = "WATCH" -> "PLANNED"
                [] OTHER -> r.status) \in Statuses
  BY <1>1 DEF Statuses
<1>4. "CLOSED" \in Statuses
  BY DEF Statuses
<1> QED
  BY <1>2, <1>3, <1>4 DEF Reviewed

LEMMA UserLoadsKeeps ==
  ASSUME JournalIInv, NEW trade \in Trades, UserLoads(trade)
  PROVE  JournalIInv'
<1> DEFINE loaded == LoadRows
<1>1. PICK how \in {"close", "taken"} :
        rewriting' = [rewriting EXCEPT !["user"] =
          [step |-> "save", read |-> loaded,
           rows |-> [i \in DOMAIN loaded |->
             IF loaded[i].trade = trade THEN Reviewed(loaded[i], how) ELSE loaded[i]]]]
  BY DEF UserLoads
<1> DEFINE new == [i \in DOMAIN loaded |->
                     IF loaded[i].trade = trade THEN Reviewed(loaded[i], how) ELSE loaded[i]]
<1>2. /\ loaded \in Seq(Rows) /\ Len(loaded) <= JournalRows
      /\ IdsOf(loaded) \subseteq IdsOf(journal) /\ Distinct(loaded)
  BY LoadHolds
<1>3. /\ UNCHANGED <<journal, signalIds, logging, begun, aged, truth, races, journalFaults>>
      /\ rewrites' = rewrites + 1 /\ rewrites < MaxRewrites
  BY DEF UserLoads
<1> HIDE DEF loaded
<1>4. \A i \in DOMAIN loaded : loaded[i] \in Rows
  BY <1>2, ElementOfSeq, LenProperties
<1>5. new \in [DOMAIN loaded -> Rows] /\ \A i \in DOMAIN loaded : Id(new[i]) = Id(loaded[i])
  <2>1. ASSUME NEW i \in DOMAIN loaded
        PROVE  new[i] \in Rows /\ Id(new[i]) = Id(loaded[i])
    <3>1. CASE loaded[i].trade = trade
      BY <1>4, <3>1, StatusKeepsId
    <3>2. CASE loaded[i].trade # trade
      BY <1>4, <3>2
    <3> QED
      BY <3>1, <3>2
  <2>2. new = [i \in DOMAIN loaded |-> new[i]]
    OBVIOUS
  <2> HIDE DEF new
  <2> QED
    BY <2>1, <2>2
<1>6. new \in Seq(Rows) /\ SameRows(loaded, new)
  BY <1>2, <1>5, StatusChangeHolds
<1>7. /\ rewrites' \in 0..MaxRewrites /\ journalFaults' \in 0..MaxJournalFaults
      /\ journalFaults' >= journalFaults
  BY <1>3, JournalAssumption DEF JournalIInv, JournalTypeOK
<1>8. rewriting' = [rewriting EXCEPT !["user"] = [step |-> "save", read |-> loaded, rows |-> new]]
  BY <1>1
<1> HIDE DEF new
<1> QED
  BY <1>2, <1>3, <1>6, <1>7, <1>8, RewriterMoves DEF Rewriters

LEMMA MonitorLoadsKeeps ==
  ASSUME JournalIInv, MonitorLoads
  PROVE  JournalIInv'
<1>1. /\ LoadRows \in Seq(Rows) /\ Len(LoadRows) <= JournalRows
      /\ IdsOf(LoadRows) \subseteq IdsOf(journal) /\ Distinct(LoadRows)
  BY LoadHolds
<1>2. /\ rewriting' = [rewriting EXCEPT !["monitor"] =
           [step |-> "resolve", read |-> LoadRows, rows |-> LoadRows]]
      /\ UNCHANGED <<journal, signalIds, logging, begun, aged, truth, races, rewrites, journalFaults>>
  BY DEF MonitorLoads
<1>3. SameRows(LoadRows, LoadRows)
  BY DEF SameRows
<1>4. /\ rewrites' \in 0..MaxRewrites /\ journalFaults' \in 0..MaxJournalFaults
      /\ journalFaults' >= journalFaults
  BY <1>2, JournalAssumption DEF JournalIInv, JournalTypeOK
<1> QED
  BY <1>1, <1>2, <1>3, <1>4, RewriterMoves DEF Rewriters

\* Whoever gives up forgets what it has read.
LEMMA GivingUpKeeps ==
  ASSUME JournalIInv, NEW u \in Rewriters,
         rewriting' = [rewriting EXCEPT ![u] = NotRewriting],
         journalFaults' \in 0..MaxJournalFaults, journalFaults' >= journalFaults,
         UNCHANGED <<journal, signalIds, logging, begun, aged, truth, races, rewrites>>
  PROVE  JournalIInv'
<1>1. /\ <<>> \in Seq(Rows) /\ Len(<<>>) <= JournalRows /\ SameRows(<<>>, <<>>)
      /\ Distinct(<<>>) /\ IdsOf(<<>>) = {}
  BY EmptySeq, IdsHold, JournalAssumption DEF SameRows
<1>2. rewriting' = [rewriting EXCEPT ![u] = [step |-> "idle", read |-> <<>>, rows |-> <<>>]]
  BY DEF NotRewriting
<1>3. rewrites' \in 0..MaxRewrites
  BY DEF JournalIInv, JournalTypeOK
<1>4. IdsOf(<<>>) \subseteq IdsOf(journal) \cup IdsOf(rewriting[u].read)
  BY <1>1
<1> QED
  BY <1>1, <1>2, <1>3, <1>4, RewriterMoves

LEMMA RewriterFailsKeeps ==
  ASSUME JournalIInv, RewriterFails
  PROVE  JournalIInv'
<1>1. PICK t \in Rewriters : rewriting' = [rewriting EXCEPT ![t] = NotRewriting]
  BY DEF RewriterFails
<1>2. /\ journalFaults' = journalFaults + 1 /\ journalFaults < MaxJournalFaults
      /\ UNCHANGED <<journal, signalIds, logging, begun, aged, truth, races, rewrites>>
  BY DEF RewriterFails
<1>3. journalFaults' \in 0..MaxJournalFaults /\ journalFaults' >= journalFaults
  BY <1>2, JournalAssumption DEF JournalIInv, JournalTypeOK
<1> QED
  BY <1>1, <1>2, <1>3, GivingUpKeeps

LEMMA MonitorResolvesKeeps ==
  ASSUME JournalIInv, MonitorResolves
  PROVE  JournalIInv'
<1> DEFINE read == rewriting["monitor"].read
           held == rewriting["monitor"].rows
<1>1. PICK decided \in SUBSET Able :
        rewriting' = [rewriting EXCEPT !["monitor"] =
          IF decided = {} THEN NotRewriting
          ELSE [step |-> "save", read |-> read,
                rows |-> [i \in DOMAIN held |->
                  IF i \in decided THEN [held[i] EXCEPT !.status = "CLOSED"] ELSE held[i]]]]
  BY DEF MonitorResolves, Decide
<1> DEFINE new == [i \in DOMAIN held |->
                     IF i \in decided THEN [held[i] EXCEPT !.status = "CLOSED"] ELSE held[i]]
<1>2. UNCHANGED <<journal, signalIds, logging, begun, aged, truth, races, rewrites, journalFaults>>
  BY DEF MonitorResolves
<1>3. /\ rewrites' \in 0..MaxRewrites /\ journalFaults' \in 0..MaxJournalFaults
      /\ journalFaults' >= journalFaults
  BY <1>2, JournalAssumption DEF JournalIInv, JournalTypeOK
<1>4. "monitor" \in Rewriters
  BY DEF Rewriters
<1>5. CASE decided = {}
  BY <1>1, <1>2, <1>3, <1>4, <1>5, GivingUpKeeps
<1>6. CASE decided # {}
  <2>1. /\ read \in Seq(Rows) /\ held \in Seq(Rows) /\ Len(read) <= JournalRows
        /\ Distinct(read) /\ SameRows(read, held)
    BY <1>4 DEF JournalIInv, JournalTypeOK, RowsDistinct, RewritersKeepRows
  <2>2. rewriting' = [rewriting EXCEPT !["monitor"] = [step |-> "save", read |-> read, rows |-> new]]
    BY <1>1, <1>6
  <2>3. IdsOf(read) \subseteq IdsOf(journal) \cup IdsOf(rewriting["monitor"].read)
    OBVIOUS
  <2> HIDE DEF read, held
  <2>4. \A i \in DOMAIN held : held[i] \in Rows
    BY <2>1, ElementOfSeq, LenProperties
  <2>5. new \in [DOMAIN held -> Rows] /\ \A i \in DOMAIN held : Id(new[i]) = Id(held[i])
    <3>1. ASSUME NEW i \in DOMAIN held
          PROVE  new[i] \in Rows /\ Id(new[i]) = Id(held[i])
      <4>1. CASE i \in decided
        BY <2>4, <4>1, StatusKeepsId
      <4>2. CASE i \notin decided
        BY <2>4, <4>2
      <4> QED
        BY <4>1, <4>2
    <3>2. new = [i \in DOMAIN held |-> new[i]]
      OBVIOUS
    <3> HIDE DEF new
    <3> QED
      BY <3>1, <3>2
  <2>6. new \in Seq(Rows) /\ SameRows(held, new)
    BY <2>1, <2>5, StatusChangeHolds
  <2> HIDE DEF new
  <2>7. SameRows(read, new)
    BY <2>1, <2>6 DEF SameRows
  <2> QED
    BY <1>2, <1>3, <1>4, <2>1, <2>2, <2>3, <2>6, <2>7, RewriterMoves
<1> QED
  BY <1>5, <1>6

LEMMA TradeAgesKeeps ==
  ASSUME JournalIInv, TradeAges
  PROVE  JournalIInv'
<1>t. /\ JournalTypeOK /\ OneTradePerSignal /\ RowsDistinct /\ PushedIsNew
      /\ RewritersKeepRows /\ NotFarBehind
  BY DEF JournalIInv
<1>1. /\ UNCHANGED <<journal, signalIds, logging, rewriting, begun, truth, races,
                     rewrites, journalFaults>>
      /\ aged' = aged + 1 /\ aged < begun
  BY DEF TradeAges
<1>2. JournalTypeOK'
  <2>1. Trimming' = Trimming
    BY <1>1 DEF Trimming
  <2>2. aged' \in 0..begun
    BY <1>t, <1>1, JournalAssumption DEF JournalTypeOK
  <2> QED
    BY <1>t, <1>1, <2>1, <2>2 DEF JournalTypeOK
<1>3. ListIds' = ListIds /\ Pushing' = Pushing /\ PushIds' = PushIds
  BY <1>1 DEF ListIds, Pushing, PushIds
<1>4. OneTradePerSignal' /\ PushedIsNew' /\ RowsDistinct' /\ RewritersKeepRows'
  BY <1>t, <1>1, <1>3
  DEF OneTradePerSignal, KnownIds, PushedIsNew, RowsDistinct, RewritersKeepRows
<1>5. NotFarBehind'
  BY <1>t, <1>1 DEF NotFarBehind
<1> QED
  BY <1>2, <1>4, <1>5 DEF JournalIInv

\* The scanner, the route or the user begins a row.
LEMMA LoggingKeeps ==
  ASSUME JournalIInv,
         (\E t \in Loggers, signal \in SignalIds : LogSignal(t, signal)) \/ CreateTrade
  PROVE  JournalIInv'
<1>1. NoSignal \notin signalIds
  BY JournalAssumption DEF JournalIInv, JournalTypeOK, NoSignal
<1>2. Openings \subseteq Statuses /\ "WATCH" \in Statuses
  BY JournalAssumption DEF Statuses
<1>3. ASSUME NEW t \in Loggers, NEW signal \in SignalIds, LogSignal(t, signal)
      PROVE  JournalIInv'
  <2>1. PICK status \in Statuses : Begin(t, signal, status)
    BY <1>2, <1>3 DEF LogSignal
  <2>2. signal # NoSignal
    BY JournalAssumption DEF NoSignal
  <2>3. /\ logging[t].step = "idle" /\ signal \notin signalIds
        /\ signalIds' = signalIds \cup ({signal} \ {NoSignal})
        /\ UNCHANGED <<journal, rewriting, aged, truth, races, rewrites, journalFaults>>
    BY <1>3, <2>2 DEF LogSignal
  <2> QED
    BY <2>1, <2>3, BeginKeeps
<1>4. CASE CreateTrade
  <2>1. PICK status \in Statuses : Begin("route", NoSignal, status)
    BY <1>2, <1>4 DEF CreateTrade
  <2>2. /\ logging["route"].step = "idle"
        /\ signalIds' = signalIds \cup ({NoSignal} \ {NoSignal})
        /\ UNCHANGED <<journal, rewriting, aged, truth, races, rewrites, journalFaults>>
    BY <1>4 DEF CreateTrade
  <2>3. "route" \in Loggers
    BY DEF Loggers
  <2> QED
    BY <1>1, <2>1, <2>2, <2>3, BeginKeeps
<1> QED
  BY <1>3, <1>4

LEMMA JournalStep ==
  ASSUME JournalIInv, [JournalNext]_journalVars
  PROVE  JournalIInv'
<1>1. CASE (\E t \in Loggers, signal \in SignalIds : LogSignal(t, signal)) \/ CreateTrade
  BY <1>1, LoggingKeeps
<1>2. CASE LoggerStep
  BY <1>2, PushKeeps, TrimKeeps DEF LoggerStep
<1>3. CASE \E trade \in Trades : UserLoads(trade)
  BY <1>3, UserLoadsKeeps
<1>4. CASE SaveRows("user")
  BY <1>4, SaveKeeps DEF Rewriters
<1>5. CASE MonitorStep
  BY <1>5, MonitorLoadsKeeps, MonitorResolvesKeeps, SaveKeeps DEF MonitorStep, Rewriters
<1>6. CASE LoggerFails
  BY <1>6, LoggerFailsKeeps
<1>7. CASE RewriterFails
  BY <1>7, RewriterFailsKeeps
<1>8. CASE TradeAges
  BY <1>8, TradeAgesKeeps
<1>9. CASE UNCHANGED journalVars
  <2>1. UNCHANGED <<journal, signalIds, logging, rewriting, begun, aged, truth,
                    races, rewrites, journalFaults>>
    BY <1>9 DEF journalVars
  <2> QED
    BY <2>1 DEF JournalIInv, JournalTypeOK, Trimming, OneTradePerSignal, KnownIds, ListIds,
                PushIds, Pushing, RowsDistinct, PushedIsNew, RewritersKeepRows, NotFarBehind
<1> QED
  BY <1>1, <1>2, <1>3, <1>4, <1>5, <1>6, <1>7, <1>8, <1>9 DEF JournalNext

\* A signal has one trade and no list two rows of a trade, whoever brings an old list
\* back; and the rows are no further behind than what was pushed since.
THEOREM JournalInvariant == JournalSpec => []JournalIInv
<1>1. JournalInit => JournalIInv
  BY InitJournal
<1>2. JournalIInv /\ [JournalNext]_journalVars => JournalIInv'
  BY JournalStep
<1> QED
  BY <1>1, <1>2, PTL DEF JournalSpec

\* The journal has one row for a signal, and until a rewrite overlaps with another
\* write it holds the newest rows as their last writers have left them: save_rows, the
\* LPUSH and LTRIM of the loggers, and their failures.
THEOREM JournalIsSafe == JournalSpec => []JournalSafe
<1>1. JournalIInv => JournalSafe
  <2> SUFFICES ASSUME JournalIInv PROVE JournalSafe
    OBVIOUS
  <2>1. JournalTypeOK /\ OneTradePerSignal /\ RowsDistinct /\ NotFarBehind
    BY DEF JournalIInv
  <2>2. OneRowPerSignal
    <3> SUFFICES ASSUME NEW i \in DOMAIN journal, NEW j \in DOMAIN journal, i # j
                 PROVE  /\ journal[i].trade # journal[j].trade
                        /\ journal[i].signal = journal[j].signal => journal[i].signal = NoSignal
      BY DEF OneRowPerSignal
    <3>1. journal[i].trade # journal[j].trade
      BY <2>1 DEF RowsDistinct, Distinct
    <3>2. Id(journal[i]) \in KnownIds /\ Id(journal[j]) \in KnownIds
      BY DEF KnownIds, ListIds, IdsOf
    <3>3. /\ Id(journal[i])[1] = journal[i].trade /\ Id(journal[i])[2] = journal[i].signal
          /\ Id(journal[j])[1] = journal[j].trade /\ Id(journal[j])[2] = journal[j].signal
      BY DEF Id
    <3> QED
      BY <2>1, <3>1, <3>2, <3>3 DEF OneTradePerSignal
  <2>3. AnsweredIsKept
    <3>1. /\ DOMAIN truth = 1..Len(truth) /\ Len(truth) \in Nat
          /\ journalFaults \in Nat /\ JournalRows \in Nat
      BY <2>1, LenProperties, JournalAssumption DEF JournalTypeOK
    <3> SUFFICES ASSUME races = 0, NEW i \in DOMAIN truth,
                        i > Len(truth) + journalFaults - JournalRows
                 PROVE  truth[i] \in RowSet
      BY DEF AnsweredIsKept
    <3>2. i + JournalRows > Len(truth) + journalFaults
      <4> DEFINE len == Len(truth)
      <4>1. len \in Nat /\ i \in Nat
        BY <3>1
      <4>2. i > len + (journalFaults - JournalRows)
        OBVIOUS
      <4> HIDE DEF len
      <4>3. i + JournalRows > len + journalFaults
        BY <3>1, <4>1, <4>2
      <4> QED
        BY <4>3 DEF len
    <3> QED
      BY <2>1, <3>2 DEF NotFarBehind, RowSet
  <2> QED
    BY <2>1, <2>2, <2>3 DEF JournalSafe
<1> QED
  BY <1>1, JournalInvariant, PTL

-----------------------------------------------------------------------------
(* The articles and their scores. *)

\* A list of articles without repetition.
LEMMA OrderHolds ==
  ASSUME NEW S, IsFiniteSet(S), NEW order \in SetToSeqs(S)
  PROVE  /\ order \in Seq(S) /\ Len(order) = Cardinality(S)
         /\ IsInjective(order) /\ Range(order) \subseteq S
<1>1. Cardinality(S) \in Nat
  BY FS_CardinalityType
<1>2. /\ order \in [1..Cardinality(S) -> S]
      /\ \A i, j \in 1..Cardinality(S) : i # j => order[i] # order[j]
  BY DEF SetToSeqs
<1>3. order \in Seq(S) /\ DOMAIN order = 1..Cardinality(S)
  BY <1>1, <1>2
<1>4. Len(order) = Cardinality(S)
  BY <1>1, <1>3, LenProperties
<1> QED
  BY <1>2, <1>3, <1>4 DEF IsInjective, Range

\* New rows after old ones.
LEMMA InsertedHolds ==
  ASSUME NEW S, NEW old \in Seq(S), NEW new \in Seq(S),
         IsInjective(old), IsInjective(new), Range(old) \cap Range(new) = {}
  PROVE  /\ old \o new \in Seq(S) /\ IsInjective(old \o new)
         /\ Range(old) \subseteq Range(old \o new)
<1> DEFINE both == old \o new
<1>1. /\ both \in Seq(S) /\ Len(both) = Len(old) + Len(new)
      /\ \A i \in 1..(Len(old) + Len(new)) :
           both[i] = IF i <= Len(old) THEN old[i] ELSE new[i - Len(old)]
  BY ConcatProperties
<1> HIDE DEF both
<1>2. /\ Len(old) \in Nat /\ Len(new) \in Nat /\ DOMAIN old = 1..Len(old)
      /\ DOMAIN new = 1..Len(new) /\ DOMAIN both = 1..(Len(old) + Len(new))
  BY <1>1, LenProperties
<1>3. \A i \in DOMAIN both :
        \/ i \in DOMAIN old /\ both[i] = old[i]
        \/ i \notin DOMAIN old /\ i - Len(old) \in DOMAIN new /\ both[i] = new[i - Len(old)]
  <2> TAKE i \in DOMAIN both
  <2>1. CASE i <= Len(old)
    BY <1>1, <1>2, <2>1
  <2>2. CASE ~(i <= Len(old))
    <3>1. i \notin DOMAIN old /\ i - Len(old) \in DOMAIN new
      BY <1>2, <2>2
    <3> QED
      BY <1>1, <1>2, <2>2, <3>1
  <2> QED
    BY <2>1, <2>2
<1>4. IsInjective(both)
  <2> SUFFICES ASSUME NEW i \in DOMAIN both, NEW j \in DOMAIN both, both[i] = both[j]
               PROVE  i = j
    BY DEF IsInjective
  <2>1. CASE i \in DOMAIN old /\ j \in DOMAIN old
    BY <1>3, <2>1 DEF IsInjective
  <2>2. CASE i \notin DOMAIN old /\ j \notin DOMAIN old
    <3>1. i - Len(old) = j - Len(old)
      BY <1>3, <2>2 DEF IsInjective
    <3>2. i \in Int /\ j \in Int /\ Len(old) \in Int
      BY <1>2
    <3> QED
      BY <3>1, <3>2
  <2>3. CASE i \in DOMAIN old /\ j \notin DOMAIN old
    BY <1>3, <2>3 DEF Range
  <2>4. CASE i \notin DOMAIN old /\ j \in DOMAIN old
    BY <1>3, <2>4 DEF Range
  <2> QED
    BY <2>1, <2>2, <2>3, <2>4
<1>5. Range(old) \subseteq Range(both)
  <2>1. \A i \in DOMAIN old : i \in DOMAIN both /\ both[i] = old[i]
    BY <1>1, <1>2
  <2> QED
    BY <2>1 DEF Range
<1> QED
  BY <1>1, <1>4, <1>5 DEF both

\* The query returns no more rows than its limit, and none that is completed.
LEMMA OldestHolds ==
  ASSUME NEW list \in Seq(Articles), NEW limit \in Nat
  PROVE  /\ IsFiniteSet(Oldest(list, limit)) /\ Cardinality(Oldest(list, limit)) <= limit
         /\ \A i \in Oldest(list, limit) : i \in DOMAIN list /\ list[i] \notin completed
<1> DEFINE S == Oldest(list, limit)
<1>1. DOMAIN list = 1..Len(list) /\ Len(list) \in Nat
  BY LenProperties
<1>2. Pending(list) \subseteq 1..Len(list) /\ S \subseteq Pending(list)
  BY <1>1 DEF Pending, Oldest
<1>3. IsFiniteSet(1..Len(list))
  BY <1>1, FS_Interval
<1>4. IsFiniteSet(Pending(list)) /\ IsFiniteSet(S)
  BY <1>2, <1>3, FS_Subset
<1>5. \A i \in S : i \in DOMAIN list /\ list[i] \notin completed
  BY DEF Pending, Oldest
<1>6. Cardinality(S) <= limit
  <2>1. CASE S = {}
    <3>1. Cardinality(S) = 0
      BY <2>1, FS_EmptySet
    <3> QED
      BY <3>1
  <2>2. CASE S # {}
    <3> DEFINE m == Max(S)
               before == {j \in Pending(list) : j <= m}
    <3>1. S \in SUBSET (1..Len(list))
      BY <1>2
    <3>2. m \in S /\ \A i \in S : i <= m
      BY <1>1, <2>2, <3>1, MaxIsThere
    <3>3. S \in SUBSET before
      BY <1>2, <3>2
    <3>4. IsFiniteSet(before)
      BY <1>4, FS_Subset
    <3>5. Cardinality(before) <= limit
      BY <3>2 DEF Oldest
    <3>6. Cardinality(S) <= Cardinality(before)
      BY <3>3, <3>4, FS_Subset
    <3>7. Cardinality(S) \in Nat /\ Cardinality(before) \in Nat
      BY <1>4, <3>4, FS_CardinalityType
    <3> HIDE DEF S, before
    <3> QED
      BY <3>5, <3>6, <3>7
  <2> QED
    BY <2>1, <2>2
<1> QED
  BY <1>4, <1>5, <1>6

\* The batch at work: rows that were stored and are still pending, each once.
BatchIsPending ==
  IsInjective(sweepBatch) /\ Range(sweepBatch) \subseteq Range(news) \ completed

NewsIInv == NewsTypeOK /\ BatchIsPending /\ CompletedIsGenuine

LEMMA NewsInitHolds == NewsInit => NewsIInv
<1> SUFFICES ASSUME NewsInit PROVE NewsIInv
  OBVIOUS
<1> USE DEF NewsInit
<1>1. <<>> \in Seq(Articles) /\ Len(<<>>) = 0 /\ DOMAIN <<>> = {}
  BY EmptySeq
<1>2. model \in BOOLEAN
  OBVIOUS
<1>3. Scored = {}
  BY <1>1 DEF Scored
<1>4. IsInjective(<<>>) /\ Range(<<>>) = {}
  BY <1>1 DEF IsInjective, Range
<1>5. NewsTypeOK
  BY <1>1, <1>2, <1>3, <1>4, NewsAssumption DEF NewsTypeOK
<1>6. BatchIsPending /\ CompletedIsGenuine
  BY <1>3, <1>4 DEF BatchIsPending, CompletedIsGenuine
<1> QED
  BY <1>5, <1>6 DEF NewsIInv

\* The feed changes, or the sweep of the api stores what is new in it.
LEMMA StoringHolds ==
  ASSUME NewsIInv, (\E a \in Articles : Appears(a) \/ Leaves(a)) \/ PersistEvents
  PROVE  NewsIInv'
<1>t. NewsTypeOK /\ BatchIsPending /\ CompletedIsGenuine
  BY DEF NewsIInv
<1>1. UNCHANGED <<completed, scores, model, sweepBatch, answer, newsFaults>>
  BY DEF Appears, Leaves, PersistEvents, StoreFeed
<1>2. /\ feed' \subseteq Articles
      /\ news' \in Seq(Articles) /\ IsInjective(news') /\ Range(news) \subseteq Range(news')
  <2>1. CASE \E a \in Articles : Appears(a) \/ Leaves(a)
    BY <1>t, <2>1 DEF Appears, Leaves, NewsTypeOK
  <2>2. CASE PersistEvents
    <3> DEFINE fresh == feed \ Range(news)
    <3>1. PICK order \in SetToSeqs(fresh) : news' = news \o order
      BY <2>2 DEF PersistEvents, StoreFeed
    <3>2. feed' = feed /\ fresh \in SUBSET Articles
      BY <1>t, <2>2 DEF PersistEvents, StoreFeed, NewsTypeOK
    <3>3. IsFiniteSet(fresh)
      BY <3>2, NewsAssumption, FS_Subset
    <3>4. order \in Seq(fresh) /\ IsInjective(order) /\ Range(order) \subseteq fresh
      BY <3>3, OrderHolds
    <3>5. order \in Seq(Articles)
      <4>1. Len(order) \in Nat /\ DOMAIN order = 1..Len(order)
        BY <3>4, LenProperties
      <4>2. \A i \in 1..Len(order) : order[i] \in Articles
        BY <3>2, <3>4, <4>1 DEF Range
      <4>3. order = [i \in 1..Len(order) |-> order[i]]
        BY <3>4, <4>1
      <4> QED
        BY <4>1, <4>2, <4>3
    <3>6. Range(news) \cap Range(order) = {}
      BY <3>4
    <3> HIDE DEF fresh
    <3> QED
      BY <1>t, <3>1, <3>2, <3>4, <3>5, <3>6, InsertedHolds DEF NewsTypeOK, fresh
  <2> QED
    BY <2>1, <2>2
<1>3. NewsTypeOK'
  <2>1. Scored' = Scored
    BY <1>1 DEF Scored
  <2>2. model' \in BOOLEAN
    BY <1>t, <1>1 DEF NewsTypeOK
  <2>3. completed \subseteq Range(news') /\ Scored \subseteq Range(news')
    BY <1>t, <1>2 DEF NewsTypeOK
  <2> QED
    BY <1>t, <1>1, <1>2, <2>1, <2>2, <2>3 DEF NewsTypeOK
<1>4. BatchIsPending' /\ CompletedIsGenuine'
  BY <1>t, <1>1, <1>2 DEF BatchIsPending, CompletedIsGenuine, Scored
<1> QED
  BY <1>3, <1>4 DEF NewsIInv

LEMMA FetchPendingHolds ==
  ASSUME NewsIInv, FetchPending
  PROVE  NewsIInv'
<1>t. NewsTypeOK /\ BatchIsPending /\ CompletedIsGenuine
  BY DEF NewsIInv
<1> DEFINE found == Oldest(news, SentimentBatch)
<1>1. PICK order \in SetToSeqs(found) :
        sweepBatch' = [k \in DOMAIN order |-> news[order[k]]]
  BY DEF FetchPending
<1>2. answer' = "none" /\ UNCHANGED <<feed, news, completed, scores, model, newsFaults>>
  BY DEF FetchPending
<1>3. /\ IsFiniteSet(found) /\ Cardinality(found) <= SentimentBatch
      /\ \A i \in found : i \in DOMAIN news /\ news[i] \notin completed
  BY <1>t, NewsAssumption, OldestHolds DEF NewsTypeOK
<1> HIDE DEF found
<1>4. /\ order \in Seq(found) /\ Len(order) = Cardinality(found)
      /\ IsInjective(order) /\ Range(order) \subseteq found
  BY <1>3, OrderHolds
<1>5. DOMAIN order = 1..Len(order) /\ Len(order) \in Nat
  BY <1>4, LenProperties
<1>6. \A k \in DOMAIN order : /\ order[k] \in DOMAIN news /\ news[order[k]] \notin completed
                              /\ news[order[k]] \in Articles
  <2> TAKE k \in DOMAIN order
  <2>1. order[k] \in found
    BY <1>4 DEF Range
  <2>2. order[k] \in DOMAIN news /\ news[order[k]] \notin completed
    BY <1>3, <2>1
  <2>3. news \in Seq(Articles)
    BY <1>t DEF NewsTypeOK
  <2>4. news[order[k]] \in Articles
    BY <2>2, <2>3, ElementOfSeq, LenProperties
  <2> QED
    BY <2>2, <2>4
<1>7. sweepBatch' \in Seq(Articles) /\ Len(sweepBatch') <= SentimentBatch
  <2>1. sweepBatch' \in [1..Len(order) -> Articles]
    BY <1>1, <1>5, <1>6
  <2>2. sweepBatch' \in Seq(Articles)
    BY <1>5, <2>1
  <2>3. Len(sweepBatch') = Len(order)
    BY <1>5, <2>1, <2>2, LenProperties
  <2> QED
    BY <1>3, <1>4, <2>2, <2>3
<1>8. NewsTypeOK'
  <2>1. model' \in BOOLEAN
    BY <1>t, <1>2 DEF NewsTypeOK
  <2>2. Scored' = Scored
    BY <1>2 DEF Scored
  <2> QED
    BY <1>t, <1>2, <1>7, <2>1, <2>2 DEF NewsTypeOK
<1>9. BatchIsPending'
  <2>1. DOMAIN sweepBatch' = DOMAIN order
    BY <1>1
  <2>2. IsInjective(sweepBatch')
    <3> SUFFICES ASSUME NEW j \in DOMAIN order, NEW k \in DOMAIN order,
                        news[order[j]] = news[order[k]]
                 PROVE  j = k
      BY <1>1, <2>1 DEF IsInjective
    <3>1. order[j] = order[k]
      BY <1>t, <1>6 DEF NewsTypeOK, IsInjective
    <3> QED
      BY <1>4, <3>1 DEF IsInjective
  <2>3. Range(sweepBatch') \subseteq Range(news) \ completed
    BY <1>1, <1>6 DEF Range
  <2> QED
    BY <1>2, <2>2, <2>3 DEF BatchIsPending
<1>10. CompletedIsGenuine'
  BY <1>t, <1>2 DEF CompletedIsGenuine, Scored
<1> QED
  BY <1>8, <1>9, <1>10 DEF NewsIInv

LEMMA ClassifyHolds ==
  ASSUME NewsIInv, ClassifyBatch
  PROVE  NewsIInv'
<1>t. NewsTypeOK /\ BatchIsPending /\ CompletedIsGenuine
  BY DEF NewsIInv
<1>1. /\ answer' \in Answers /\ newsFaults' \in 0..MaxNewsFaults
      /\ UNCHANGED <<feed, news, completed, scores, model, sweepBatch>>
  BY <1>t, NewsAssumption DEF ClassifyBatch, Answers, NewsTypeOK
<1>2. NewsTypeOK'
  <2>1. model' \in BOOLEAN
    BY <1>t, <1>1 DEF NewsTypeOK
  <2>2. Scored' = Scored
    BY <1>1 DEF Scored
  <2> QED
    BY <1>t, <1>1, <2>1, <2>2 DEF NewsTypeOK
<1>3. BatchIsPending' /\ CompletedIsGenuine'
  BY <1>t, <1>1 DEF BatchIsPending, CompletedIsGenuine, Scored
<1> QED
  BY <1>2, <1>3 DEF NewsIInv

\* One article: no other of the batch is marked along with it, and what it had was no
\* score of the model's.
LEMMA NextArticleHolds ==
  ASSUME NewsIInv, NextArticle
  PROVE  NewsIInv' /\ GenuineKept
<1>t. NewsTypeOK /\ BatchIsPending /\ CompletedIsGenuine
  BY DEF NewsIInv
<1> DEFINE a == Head(sweepBatch)
<1>1. /\ sweepBatch # <<>> /\ answer # "none" /\ sweepBatch' = Tail(sweepBatch)
      /\ UNCHANGED <<feed, news, model, answer>>
      /\ newsFaults' \in 0..MaxNewsFaults
      /\ WriteScore(a) \/ UNCHANGED <<scores, completed>>
  BY <1>t, NewsAssumption DEF NextArticle, NewsTypeOK
<1>2. sweepBatch \in Seq(Articles) /\ answer \in Answers
  BY <1>t, <1>1 DEF NewsTypeOK
<1>3. /\ sweepBatch' \in Seq(Articles) /\ Len(sweepBatch') = Len(sweepBatch) - 1
      /\ \A i \in 1..Len(sweepBatch') : sweepBatch'[i] = sweepBatch[i + 1]
  BY <1>1, <1>2, HeadTailProperties
<1>4. /\ Len(sweepBatch) \in Nat /\ DOMAIN sweepBatch = 1..Len(sweepBatch)
      /\ Len(sweepBatch') \in Nat /\ DOMAIN sweepBatch' = 1..Len(sweepBatch')
  BY <1>2, <1>3, LenProperties
<1>5. 1 \in DOMAIN sweepBatch /\ a = sweepBatch[1]
  <2>1. Len(sweepBatch) # 0
    BY <1>1, <1>2, EmptySeq
  <2>2. a = sweepBatch[1]
    OBVIOUS
  <2> QED
    BY <1>4, <2>1, <2>2
<1> HIDE DEF a
<1>6. \A i \in DOMAIN sweepBatch' : /\ i + 1 \in DOMAIN sweepBatch
                                    /\ sweepBatch'[i] = sweepBatch[i + 1]
                                    /\ sweepBatch'[i] # a
  <2> TAKE i \in DOMAIN sweepBatch'
  <2>1. i + 1 \in DOMAIN sweepBatch /\ i + 1 # 1
    BY <1>3, <1>4
  <2>2. sweepBatch'[i] = sweepBatch[i + 1]
    BY <1>3, <1>4
  <2>3. sweepBatch[i + 1] # sweepBatch[1]
    BY <1>t, <1>5, <2>1 DEF BatchIsPending, IsInjective
  <2> QED
    BY <1>5, <2>1, <2>2, <2>3
<1>7. IsInjective(sweepBatch')
  <2> SUFFICES ASSUME NEW i \in DOMAIN sweepBatch', NEW j \in DOMAIN sweepBatch',
                      sweepBatch'[i] = sweepBatch'[j]
               PROVE  i = j
    BY DEF IsInjective
  <2>1. i + 1 = j + 1
    BY <1>t, <1>6 DEF BatchIsPending, IsInjective
  <2>2. i \in Nat /\ j \in Nat
    BY <1>4
  <2> QED
    BY <2>1, <2>2
<1>8. Range(sweepBatch') \subseteq Range(sweepBatch) \ {a}
  BY <1>6 DEF Range
<1>9. a \in Range(news) /\ a \notin completed
  <2>1. a \in Range(sweepBatch)
    BY <1>5 DEF Range
  <2> QED
    BY <1>t, <2>1 DEF BatchIsPending
<1>10. completed' \subseteq completed \cup {a}
  BY <1>1 DEF WriteScore
<1>11. BatchIsPending'
  BY <1>t, <1>1, <1>7, <1>8, <1>10 DEF BatchIsPending
<1>12. /\ Scored' \subseteq Range(news) /\ Scored \subseteq Scored'
       /\ \A b \in Scored' : scores'[b] \in Answers
       /\ CompletedIsGenuine' /\ GenuineKept
  <2>1. CASE UNCHANGED <<scores, completed>>
    BY <1>t, <2>1 DEF NewsTypeOK, Scored, CompletedIsGenuine, GenuineKept
  <2>2. CASE WriteScore(a)
    <3>1. /\ Scored' = Scored \cup {a}
          /\ \A b \in Scored' : scores'[b] = IF b = a THEN answer ELSE scores[b]
      BY <2>2 DEF WriteScore, WithScore, Scored
    <3>2. completed' = IF answer = "genuine" THEN completed \cup {a} ELSE completed
      BY <2>2 DEF WriteScore
    <3>3. \A b \in Scored : b \in completed <=> scores[b] = "genuine"
      BY <1>t DEF CompletedIsGenuine
    <3>4. completed \subseteq Scored
      BY <1>t DEF CompletedIsGenuine
    <3>5. Scored' \subseteq Range(news) /\ \A b \in Scored' : scores'[b] \in Answers
      BY <1>t, <1>2, <1>9, <3>1 DEF NewsTypeOK
    <3>6. CompletedIsGenuine'
      <4>1. \A b \in Scored' : b \in completed' <=> scores'[b] = "genuine"
        BY <1>9, <3>1, <3>2, <3>3
      <4>2. completed' \subseteq Scored'
        BY <3>1, <3>2, <3>4
      <4> QED
        BY <4>1, <4>2 DEF CompletedIsGenuine
    <3>7. GenuineKept
      <4>1. \A b \in Scored : scores[b] = "genuine" => b # a
        BY <1>9, <3>3
      <4> QED
        BY <3>1, <4>1 DEF GenuineKept, Scored
    <3> QED
      BY <3>1, <3>5, <3>6, <3>7
  <2> QED
    BY <1>1, <2>1, <2>2
<1>13. NewsTypeOK'
  <2>1. model' \in BOOLEAN
    BY <1>t, <1>1 DEF NewsTypeOK
  <2>2. completed' \subseteq Range(news)
    BY <1>t, <1>9, <1>10 DEF NewsTypeOK
  <2>3. Len(sweepBatch') <= SentimentBatch
    <3>1. Len(sweepBatch) <= SentimentBatch /\ SentimentBatch \in Nat
      BY <1>t, NewsAssumption DEF NewsTypeOK
    <3> QED
      BY <1>3, <1>4, <3>1
  <2> QED
    BY <1>t, <1>1, <1>3, <1>12, <2>1, <2>2, <2>3 DEF NewsTypeOK
<1> QED
  BY <1>11, <1>12, <1>13 DEF NewsIInv

LEMMA RestartEngineHolds ==
  ASSUME NewsIInv, RestartEngine
  PROVE  NewsIInv'
<1>t. NewsTypeOK /\ BatchIsPending /\ CompletedIsGenuine
  BY DEF NewsIInv
<1>1. /\ sweepBatch' = <<>> /\ answer' = "none" /\ newsFaults' \in 0..MaxNewsFaults
      /\ UNCHANGED <<feed, news, completed, scores>>
  BY <1>t, NewsAssumption DEF RestartEngine, NewsTypeOK
<1>2. model' \in BOOLEAN
  BY DEF RestartEngine
<1>3. <<>> \in Seq(Articles) /\ Len(<<>>) = 0 /\ DOMAIN <<>> = {}
  BY EmptySeq
<1>4. NewsTypeOK'
  <2>1. Scored' = Scored
    BY <1>1 DEF Scored
  <2>2. Len(<<>>) <= SentimentBatch
    BY <1>3, NewsAssumption
  <2> QED
    BY <1>t, <1>1, <1>2, <1>3, <2>1, <2>2 DEF NewsTypeOK
<1>5. IsInjective(<<>>) /\ Range(<<>>) = {}
  BY <1>3 DEF IsInjective, Range
<1>6. BatchIsPending' /\ CompletedIsGenuine'
  BY <1>t, <1>1, <1>5 DEF BatchIsPending, CompletedIsGenuine, Scored
<1> QED
  BY <1>4, <1>6 DEF NewsIInv

LEMMA NewsNextHolds ==
  ASSUME NewsIInv, [NewsNext]_newsVars
  PROVE  NewsIInv' /\ GenuineKept
<1> DEFINE Kept == UNCHANGED scores
<1>1. Kept => GenuineKept
  BY DEF GenuineKept, Scored
<1>2. CASE (\E a \in Articles : Appears(a) \/ Leaves(a)) \/ PersistEvents
  <2>1. Kept
    BY <1>2 DEF Appears, Leaves, PersistEvents, StoreFeed
  <2> QED
    BY <1>1, <1>2, <2>1, StoringHolds
<1>3. CASE FetchPending
  <2>1. Kept
    BY <1>3 DEF FetchPending
  <2> QED
    BY <1>1, <1>3, <2>1, FetchPendingHolds
<1>4. CASE ClassifyBatch
  <2>1. Kept
    BY <1>4 DEF ClassifyBatch
  <2> QED
    BY <1>1, <1>4, <2>1, ClassifyHolds
<1>5. CASE NextArticle
  BY <1>5, NextArticleHolds
<1>6. CASE RestartEngine
  <2>1. Kept
    BY <1>6 DEF RestartEngine
  <2> QED
    BY <1>1, <1>6, <2>1, RestartEngineHolds
<1>7. CASE UNCHANGED newsVars
  <2>1. UNCHANGED <<feed, news, completed, scores, model, sweepBatch, answer, newsFaults>>
    BY <1>7 DEF newsVars
  <2>2. model' \in BOOLEAN
    BY <2>1 DEF NewsIInv, NewsTypeOK
  <2>3. NewsTypeOK'
    BY <2>1, <2>2 DEF NewsIInv, NewsTypeOK, Scored
  <2>4. BatchIsPending' /\ CompletedIsGenuine'
    BY <2>1 DEF NewsIInv, BatchIsPending, CompletedIsGenuine, Scored
  <2> QED
    BY <1>1, <2>1, <2>3, <2>4 DEF NewsIInv
<1> QED
  BY <1>2, <1>3, <1>4, <1>5, <1>6, <1>7 DEF NewsNext, SentimentStep

\* What is at work is pending, each article once, and an article is completed exactly
\* if its score is the model's own.
THEOREM NewsInvariant == NewsSpec => []NewsIInv
<1>1. NewsInit => NewsIInv
  BY NewsInitHolds
<1>2. NewsIInv /\ [NewsNext]_newsVars => NewsIInv'
  BY NewsNextHolds
<1> QED
  BY <1>1, <1>2, PTL DEF NewsSpec

\* An article is completed exactly with a score of the model's own, and such a score is
\* never overwritten, whatever the model refuses and whenever the engine restarts:
\* sentiment_loop and _write_result.
THEOREM ScoresAreGenuine == NewsSpec => NewsSafe
<1>1. NewsIInv => NewsTypeOK
  BY DEF NewsIInv
<1>2. NewsIInv /\ [NewsNext]_newsVars => [CompletedIsGenuine' /\ GenuineKept]_newsVars
  BY NewsNextHolds DEF NewsIInv
<1> QED
  BY <1>1, <1>2, NewsInvariant, PTL DEF NewsSpec, NewsSafe
=============================================================================
