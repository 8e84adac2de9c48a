------------------------------ MODULE MarketProofs ------------------------------
(***************************************************************************)
(* What the engines make of the market.  The verdict, for every limit of   *)
(* its scores: a fall is judged as a rise is in the market turned round,   *)
(* and better evidence never makes it worse.  The sectors, for every       *)
(* finite set of members: each comes to rest on what its features say of   *)
(* it.  The shadow states, for every number of sweeps and faults: the log  *)
(* is a chain that repeats a state once a fault at most.  The bars, for    *)
(* every timeframe, grace, batch size, number of ticks, time and number of *)
(* faults: no tick is lost between two of them, one is written twice only  *)
(* with a tick that came after its end, and in order and in time they hold *)
(* all of the volume.                                                      *)
(***************************************************************************)
EXTENDS FeatureBars, ShadowStates, SectorStrength, Verdict, SetLemmas, SequenceTheorems

-----------------------------------------------------------------------------
(* The verdict on a candidate. *)

\* The inductive invariant of the verdict: what is on the candidate is what the engine
\* says of the inputs as they are.
VerdictIInv ==
  /\ read \in [Read -> {"bull", "bear", NoRead}]
  /\ \A f \in Read \cap OneSided : read[f] # "bear"
  /\ context \in Contexts /\ quality \in Qualities
  /\ chaseable \in BOOLEAN /\ gated \in BOOLEAN /\ bullish \in BOOLEAN
  /\ verdict = Judge(read, context, bullish, quality, chaseable, gated)

\* A bound does not care for the sign.
LEMMA BoundedMirrored ==
  ASSUME NEW x \in Int, NEW limit \in Nat
  PROVE  Bounded(x, limit) \in Int /\ Bounded(-x, limit) = -Bounded(x, limit)
  BY DEF Bounded

\* The market turned round says of a fall what the market says of a rise.
LEMMA ContextMirrored ==
  ASSUME NEW c \in [nifty10 : Int, sector10 : Int, health : 0..100], NEW up \in BOOLEAN
  PROVE  DirectionalContext(Mirrored(c), ~up) = DirectionalContext(c, up)
<1> DEFINE d == Mirrored(c)
           i == Bounded(8 * c.nifty10, 200)
           s == Bounded(6 * c.sector10, 150)
           j == Bounded(8 * d.nifty10, 200)
           t == Bounded(6 * d.sector10, 150)
<1>1. c # Missing
  BY DEF Missing
<1>2. d = [nifty10 |-> -c.nifty10, sector10 |-> -c.sector10, health |-> 100 - c.health]
  BY <1>1 DEF Mirrored
<1>3. /\ c.nifty10 \in Int /\ c.sector10 \in Int /\ c.health \in Int
      /\ d.nifty10 = -c.nifty10 /\ d.sector10 = -c.sector10 /\ d.health = 100 - c.health
  BY <1>2
<1>4. /\ 8 * c.nifty10 \in Int /\ 8 * d.nifty10 = -(8 * c.nifty10)
      /\ 6 * c.sector10 \in Int /\ 6 * d.sector10 = -(6 * c.sector10)
  <2> HIDE DEF d
  <2> QED
    BY <1>3
<1>5. i \in Int /\ j = -i /\ s \in Int /\ t = -s
  <2> DEFINE m == 8 * c.nifty10
             n == 6 * c.sector10
  <2>1. m \in Int /\ n \in Int /\ j = Bounded(-m, 200) /\ t = Bounded(-n, 150)
    <3> HIDE DEF d
    <3> QED
      BY <1>4
  <2>2. i = Bounded(m, 200) /\ s = Bounded(n, 150)
    OBVIOUS
  <2> HIDE DEF m, n, i, s, j, t
  <2> QED
    BY <2>1, <2>2, BoundedMirrored
<1> HIDE DEF d, i, s, j, t
<1>6. /\ DirectionalContext(c, TRUE) = DirectionalContext(d, FALSE)
      /\ DirectionalContext(c, FALSE) = DirectionalContext(d, TRUE)
  <2> DEFINE a == i + s + 3 * (c.health - 50)
             b == j + t + 3 * (d.health - 50)
  <2>1. a \in Int /\ b = -a
    BY <1>3, <1>5
  <2> HIDE DEF a, b
  <2>2. 500 + 1 * a = 500 + (-1) * b /\ 500 + (-1) * a = 500 + 1 * b
    BY <2>1
  <2> QED
    BY <2>2 DEF DirectionalContext, a, b, i, j, s, t
<1> QED
  BY <1>6 DEF d

LEMMA MarketMirrored ==
  ASSUME NEW c \in Contexts, NEW up \in BOOLEAN
  PROVE  /\ MarketContext(Mirrored(c), ~up) = Opposite(MarketContext(c, up))
         /\ MarketContext(c, up) \in {"bull", "bear", NoRead}
<1>1. CASE c = Missing
  BY <1>1 DEF MarketContext, Mirrored, Opposite, NoRead
<1>2. CASE c # Missing
  <2>1. c \in [nifty10 : Int, sector10 : Int, health : 0..100]
    BY <1>2, VerdictAssumption
  <2>2. Mirrored(c) # Missing
    <3>1. Mirrored(c) = [nifty10 |-> -c.nifty10, sector10 |-> -c.sector10, health |-> 100 - c.health]
      BY <1>2 DEF Mirrored
    <3> QED
      BY <3>1 DEF Missing
  <2>3. DirectionalContext(Mirrored(c), ~up) = DirectionalContext(c, up)
    BY <2>1, ContextMirrored
  <2> QED
    BY <1>2, <2>2, <2>3 DEF MarketContext, Opposite, NoRead
<1> QED
  BY <1>1, <1>2

\* Turn every read and the market round: for the other direction the same families argue,
\* and the same families are silent.
LEMMA SameFamilies ==
  ASSUME NEW r \in [Read -> {"bull", "bear", NoRead}], NEW c \in Contexts, NEW up \in BOOLEAN
  PROVE  LET all == Absolute(r, c, up)
             turned == Absolute([f \in Read |-> Opposite(r[f])], Mirrored(c), ~up)
         IN  Available(turned) = Available(all) /\ For(turned, ~up) = For(all, up)
<1> DEFINE all == Absolute(r, c, up)
           turned == Absolute([f \in Read |-> Opposite(r[f])], Mirrored(c), ~up)
           families == Read \cup {"market_context"}
<1>1. /\ DOMAIN all = families /\ DOMAIN turned = families
      /\ \A f \in families : turned[f] = Opposite(all[f]) /\ all[f] \in {"bull", "bear", NoRead}
  BY MarketMirrored DEF Absolute
<1> HIDE DEF all, turned, families
<1>2. \A f \in families : turned[f] # NoRead <=> all[f] # NoRead
  BY <1>1 DEF Opposite, NoRead
<1>3. \A f \in families : (turned[f] = IF ~up THEN "bull" ELSE "bear")
                            <=> (all[f] = IF up THEN "bull" ELSE "bear")
  BY <1>1 DEF Opposite, NoRead
<1>4. Available(turned) = Available(all)
  BY <1>1, <1>2 DEF Available
<1>5. For(turned, ~up) = For(all, up)
  BY <1>1, <1>3 DEF For
<1> QED
  BY <1>4, <1>5 DEF all, turned

\* The score, and with it the verdict, is made of these two sets of families.
LEMMA JudgedAlike ==
  ASSUME NEW r \in [Read -> {"bull", "bear", NoRead}], NEW c \in Contexts, NEW up \in BOOLEAN,
         NEW dq, NEW near, NEW gate
  PROVE  Judge([f \in Read |-> Opposite(r[f])], Mirrored(c), ~up, dq, near, gate)
           = Judge(r, c, up, dq, near, gate)
<1> DEFINE all == Absolute(r, c, up)
           turned == Absolute([f \in Read |-> Opposite(r[f])], Mirrored(c), ~up)
<1>1. Available(turned) = Available(all) /\ For(turned, ~up) = For(all, up)
  BY SameFamilies
<1>2. /\ Judge(r, c, up, dq, near, gate)
           = IF HardBlocked(dq, gate) THEN "HARD_BLOCKED"
             ELSE IF VerdictBand(Score(all, up)) = "ARMED_CANDIDATE"
                       /\ ~(near /\ dq # "degraded" /\ Cardinality(For(all, up)) >= 5)
               THEN "READY"
             ELSE VerdictBand(Score(all, up))
      /\ Judge([f \in Read |-> Opposite(r[f])], Mirrored(c), ~up, dq, near, gate)
           = IF HardBlocked(dq, gate) THEN "HARD_BLOCKED"
             ELSE IF VerdictBand(Score(turned, ~up)) = "ARMED_CANDIDATE"
                       /\ ~(near /\ dq # "degraded" /\ Cardinality(For(turned, ~up)) >= 5)
               THEN "READY"
             ELSE VerdictBand(Score(turned, ~up))
  BY DEF Judge
<1> HIDE DEF all, turned
<1>3. Score(turned, ~up) = Score(all, up)
  BY <1>1 DEF Score
<1> QED
  BY <1>1, <1>2, <1>3

\* Every verdict is one of the bands.
LEMMA JudgedInBands ==
  ASSUME NEW r, NEW c, NEW up, NEW dq, NEW near, NEW gate
  PROVE  \E i \in DOMAIN Bands : Judge(r, c, up, dq, near, gate) = Bands[i]
<1>1. /\ DOMAIN Bands = 1..6
      /\ Bands[1] = "HARD_BLOCKED" /\ Bands[2] = "NO_EDGE" /\ Bands[3] = "DEVELOPING"
      /\ Bands[4] = "PRE_BREAKOUT_WATCH" /\ Bands[5] = "READY" /\ Bands[6] = "ARMED_CANDIDATE"
  BY DEF Bands
<1>2. \A x : VerdictBand(x) \in {"NO_EDGE", "DEVELOPING", "PRE_BREAKOUT_WATCH", "READY",
                                 "ARMED_CANDIDATE"}
  BY DEF VerdictBand
<1>3. Judge(r, c, up, dq, near, gate)
        \in {"HARD_BLOCKED", "NO_EDGE", "DEVELOPING", "PRE_BREAKOUT_WATCH", "READY",
             "ARMED_CANDIDATE"}
  BY <1>2 DEF Judge
<1> QED
  BY <1>1, <1>3

LEMMA VerdictStep == VerdictIInv /\ [VerdictNext]_verdictVars => VerdictIInv'
<1> SUFFICES ASSUME VerdictIInv, [VerdictNext]_verdictVars
             PROVE  VerdictIInv'
  OBVIOUS
<1> USE DEF VerdictIInv
<1>1. ASSUME NEW f \in Read, FamilyReads(f)
      PROVE  VerdictIInv'
  <2>1. PICK new \in Reads(f) : read' = [read EXCEPT ![f] = new]
    BY <1>1 DEF FamilyReads
  <2>2. new \in {"bull", "bear", NoRead} /\ (f \in OneSided => new # "bear")
    BY DEF Reads, NoRead
  <2>3. /\ read' \in [Read -> {"bull", "bear", NoRead}]
        /\ \A g \in Read \cap OneSided : read'[g] # "bear"
    BY <2>1, <2>2
  <2> QED
    BY <1>1, <2>3 DEF FamilyReads, Judged
<1>2. CASE ContextMoves
  BY <1>2 DEF ContextMoves, Judged
<1>3. CASE QualityMoves
  BY <1>3 DEF QualityMoves, Judged
<1>4. CASE TriggerMoves
  BY <1>4 DEF TriggerMoves, Judged
<1>5. CASE GateMoves
  BY <1>5 DEF GateMoves, Judged
<1>6. CASE UNCHANGED verdictVars
  BY <1>6 DEF verdictVars, inputs
<1> QED
  BY <1>1, <1>2, <1>3, <1>4, <1>5, <1>6 DEF VerdictNext

\* A verdict is one of the bands and owes nothing to the candidate's direction: with every
\* read and the whole market turned round, the other direction is given the same one.
THEOREM DirectionsAreEqual == VerdictSpec => []VerdictSafe
<1>1. VerdictInit => VerdictIInv
  BY DEF VerdictInit, VerdictIInv, NoRead
<1>2. VerdictIInv => VerdictSafe
  <2> SUFFICES ASSUME VerdictIInv
               PROVE  VerdictSafe
    OBVIOUS
  <2>1. VerdictTypeOK
    BY JudgedInBands DEF VerdictIInv, VerdictTypeOK
  <2>2. FallsAreJudgedAlike
    BY JudgedAlike DEF VerdictIInv, FallsAreJudgedAlike
  <2> QED
    BY <2>1, <2>2 DEF VerdictSafe
<1> QED
  BY <1>1, <1>2, VerdictStep, PTL DEF VerdictSpec

-----------------------------------------------------------------------------
(* Evidence moves the verdict one way.  The weight of a set of families is made of how  *)
(* many of the structure families are in it, who share one weight, and of the weights   *)
(* of the others.                                                                       *)

Families == Read \cup {"market_context"}

OwnWeight == [f \in Families \ StructureFamilies |-> FamilyWeight(f)]

Sharers(F) == Cardinality(F \cap StructureFamilies)

Own(F) == SumOf(OwnWeight, F \ StructureFamilies)

Scale(A) == IF Sharers(A) = 0 THEN 1 ELSE Sharers(A)

\* The score, as a ratio of two weights.
Points(F, A) ==
  IF A = {} THEN 0 ELSE (2000 * Weight(F, A) + Weight(A, A)) \div (2 * Weight(A, A))

LEMMA FamiliesAreFew ==
  /\ IsFiniteSet(Families)
  /\ OwnWeight \in [Families \ StructureFamilies -> Nat \ {0}]
<1>1. ASSUME NEW a, NEW b, NEW c, NEW d
      PROVE  IsFiniteSet({a, b, c, d})
  <2> DEFINE S == {a, b}
             T == {c, d}
  <2>1. S = {a} \cup {b} /\ T = {c} \cup {d} /\ {a, b, c, d} = S \cup T
    OBVIOUS
  <2>2. IsFiniteSet({a}) /\ IsFiniteSet({b}) /\ IsFiniteSet({c}) /\ IsFiniteSet({d})
    BY FS_Singleton
  <2> HIDE DEF S, T
  <2>3. IsFiniteSet(S) /\ IsFiniteSet(T)
    BY <2>1, <2>2, FS_Union
  <2>4. IsFiniteSet(S \cup T)
    BY <2>3, FS_Union
  <2> QED
    BY <2>1, <2>4
<1> DEFINE A == {"structure", "candlestick", "zone", "ict"}
           B == {"regime", "ma_regime", "donchian", "wyckoff"}
           C == {"accumulation", "compression", "relative_strength", "microstructure"}
           D == {"futures_positioning", "options_positioning", "sentiment", "volume"}
           M == {"market_context"}
<1>2. Families \subseteq A \cup B \cup C \cup D \cup M
  BY VerdictAssumption DEF Families, StructureFamilies
<1>3. IsFiniteSet(A) /\ IsFiniteSet(B) /\ IsFiniteSet(C) /\ IsFiniteSet(D) /\ IsFiniteSet(M)
  BY <1>1, FS_Singleton
<1> HIDE DEF A, B, C, D, M
<1>4. IsFiniteSet(A \cup B \cup C \cup D \cup M)
  BY <1>3, FS_Union
<1>5. IsFiniteSet(Families)
  BY <1>2, <1>4, FS_Subset
<1>6. \A f \in Families \ StructureFamilies :
        f \in {"accumulation", "compression", "relative_strength", "microstructure",
               "futures_positioning", "options_positioning", "sentiment", "volume",
               "market_context"}
  BY VerdictAssumption DEF Families
<1>7. \A f \in Families \ StructureFamilies : FamilyWeight(f) \in {6, 8, 10, 13}
  BY <1>6 DEF FamilyWeight
<1> QED
  BY <1>5, <1>7 DEF OwnWeight

\* The two parts of a weight are naturals, and grow with the set.
LEMMA PartFacts ==
  ASSUME NEW A \in SUBSET Families, NEW F \in SUBSET A
  PROVE  /\ Sharers(F) \in Nat /\ Sharers(A) \in Nat /\ Sharers(F) <= Sharers(A)
         /\ Own(F) \in Nat /\ Own(A) \in Nat /\ Own(F) <= Own(A)
         /\ A # {} => Sharers(A) > 0 \/ Own(A) > 0
<1>1. /\ IsFiniteSet(A) /\ IsFiniteSet(A \cap StructureFamilies)
      /\ IsFiniteSet(A \ StructureFamilies)
  BY FamiliesAreFew, FS_Subset
<1>2. F \cap StructureFamilies \subseteq A \cap StructureFamilies
  OBVIOUS
<1>3. Sharers(F) \in Nat /\ Sharers(A) \in Nat /\ Sharers(F) <= Sharers(A)
  <2>1. /\ Cardinality(A \cap StructureFamilies) \in Nat
        /\ Cardinality(F \cap StructureFamilies) \in Nat
        /\ Cardinality(F \cap StructureFamilies) <= Cardinality(A \cap StructureFamilies)
    <3> DEFINE S == A \cap StructureFamilies
               R == F \cap StructureFamilies
    <3>1. IsFiniteSet(S) /\ R \in SUBSET S
      BY <1>1
    <3> HIDE DEF S, R
    <3>2. IsFiniteSet(R) /\ Cardinality(R) <= Cardinality(S)
      BY <3>1, FS_Subset
    <3>3. Cardinality(R) \in Nat /\ Cardinality(S) \in Nat
      BY <3>1, <3>2, FS_CardinalityType
    <3> QED
      BY <3>2, <3>3 DEF S, R
  <2> QED
    BY <2>1 DEF Sharers
<1>4. OwnWeight \in [Families \ StructureFamilies -> Nat]
  BY FamiliesAreFew
<1>5. Own(F) \in Nat /\ Own(A) \in Nat /\ Own(F) <= Own(A)
  <2>1. /\ A \ StructureFamilies \in SUBSET (Families \ StructureFamilies)
        /\ F \ StructureFamilies \in SUBSET (A \ StructureFamilies)
    OBVIOUS
  <2> QED
    BY <1>1, <1>4, <2>1, SumOfPart DEF Own
<1>6. ASSUME NEW f \in A
      PROVE  Sharers(A) > 0 \/ Own(A) > 0
  <2>1. CASE f \in StructureFamilies
    <3>1. A \cap StructureFamilies # {}
      BY <2>1
    <3>2. Sharers(A) # 0
      BY <1>1, <3>1, FS_EmptySet DEF Sharers
    <3> QED
      BY <1>3, <3>2
  <2>2. CASE f \notin StructureFamilies
    <3> DEFINE S == A \ StructureFamilies
    <3>1. S \in SUBSET (Families \ StructureFamilies) /\ IsFiniteSet(S) /\ f \in S
      BY <1>1, <2>2
    <3>2. OwnWeight[f] \in Nat /\ OwnWeight[f] > 0 /\ OwnWeight \in [Families \ StructureFamilies -> Int]
      BY <1>4, <3>1, FamiliesAreFew
    <3> HIDE DEF S
    <3>3. IsFiniteSet(S \ {f}) /\ S \ {f} \in SUBSET (Families \ StructureFamilies)
      BY <3>1, FS_Subset
    <3>4. SumOf(OwnWeight, S) = OwnWeight[f] + SumOf(OwnWeight, S \ {f})
      BY <3>1, <3>2, SumFacts
    <3>5. SumOf(OwnWeight, S \ {f}) \in Nat
      BY <1>4, <3>3, SumNatural
    <3>6. SumOf(OwnWeight, S) > 0
      BY <3>2, <3>4, <3>5
    <3> QED
      BY <3>6 DEF Own, S
  <2> QED
    BY <2>1, <2>2
<1> QED
  BY <1>3, <1>5, <1>6

\* One family more.
LEMMA OneFamilyMore ==
  ASSUME NEW F \in SUBSET Families, NEW f \in Families \ F
  PROVE  \/ /\ Sharers(F \cup {f}) = Sharers(F) + 1 /\ Own(F \cup {f}) = Own(F)
            /\ f \in StructureFamilies
         \/ /\ Sharers(F \cup {f}) = Sharers(F) /\ Own(F \cup {f}) = Own(F) + OwnWeight[f]
            /\ OwnWeight[f] \in Nat /\ f \notin StructureFamilies
<1>1. /\ IsFiniteSet(F \cap StructureFamilies) /\ IsFiniteSet((F \cup {f}) \ StructureFamilies)
  BY FamiliesAreFew, FS_Subset
<1>2. CASE f \in StructureFamilies
  <2>1. /\ (F \cup {f}) \cap StructureFamilies = (F \cap StructureFamilies) \cup {f}
        /\ f \notin F \cap StructureFamilies
        /\ (F \cup {f}) \ StructureFamilies = F \ StructureFamilies
    BY <1>2
  <2>2. Cardinality((F \cap StructureFamilies) \cup {f}) = Cardinality(F \cap StructureFamilies) + 1
    BY <1>1, <2>1, FS_AddElement
  <2> QED
    BY <1>2, <2>1, <2>2 DEF Sharers, Own
<1>3. CASE f \notin StructureFamilies
  <2> DEFINE S == (F \cup {f}) \ StructureFamilies
             R == F \ StructureFamilies
  <2>1. /\ (F \cup {f}) \cap StructureFamilies = F \cap StructureFamilies
        /\ f \in S /\ S \ {f} = R /\ S \in SUBSET (Families \ StructureFamilies) /\ IsFiniteSet(S)
    BY <1>1, <1>3
  <2>2. OwnWeight \in [Families \ StructureFamilies -> Int] /\ OwnWeight[f] \in Nat
    BY <1>3, FamiliesAreFew
  <2> HIDE DEF S, R
  <2>3. SumOf(OwnWeight, S) = OwnWeight[f] + SumOf(OwnWeight, R)
    BY <2>1, <2>2, SumFacts
  <2>4. SumOf(OwnWeight, R) \in Int
    <3>1. IsFiniteSet(R) /\ R \in SUBSET (Families \ StructureFamilies)
      BY <2>1, FS_Subset
    <3> QED
      BY <2>2, <3>1, SumFacts
  <2>5. SumOf(OwnWeight, S) = SumOf(OwnWeight, R) + OwnWeight[f]
    BY <2>2, <2>3, <2>4
  <2> QED
    BY <1>3, <2>1, <2>2, <2>5 DEF Sharers, Own, S, R
<1> QED
  BY <1>2, <1>3

\* What a weight is made of.
LEMMA WeightIs ==
  ASSUME NEW A \in SUBSET Families, NEW F \in SUBSET A
  PROVE  Weight(F, A) = 25 * Sharers(F) + Scale(A) * Own(F)
<1> DEFINE S == F \ StructureFamilies
           Body(it) == [s \in SUBSET S |-> IF s = {} THEN 0
                          ELSE FamilyWeight(CHOOSE x \in s : TRUE) + it[s \ {CHOOSE x \in s : TRUE}]]
           iter == CHOOSE it : it = Body(it)
<1>1. MapThenSumSet(FamilyWeight, S) = iter[S]
  BY DEF MapThenSumSet, MapThenFoldSet
<1>2. S \in SUBSET (Families \ StructureFamilies) /\ IsFiniteSet(S)
  BY FamiliesAreFew, FS_Subset
<1>3. \A it : IsSum(it, OwnWeight, S) <=> it = Body(it)
  <2> SUFFICES ASSUME NEW it
               PROVE  Body(it) = [s \in SUBSET S |->
                                    IF s = {} THEN 0 ELSE OwnWeight[Pick(s)] + it[s \ {Pick(s)}]]
    BY DEF IsSum
  <2>1. \A s \in SUBSET S : s # {} => (CHOOSE x \in s : TRUE) \in Families \ StructureFamilies
    OBVIOUS
  <2> QED
    BY <2>1 DEF Pick, OwnWeight
<1>4. OwnWeight \in [Families \ StructureFamilies -> Int]
  BY FamiliesAreFew
<1> HIDE DEF S, Body
<1>5. \E it : it = Body(it)
  BY <1>2, <1>3, <1>4, SumExists
<1>6. IsSum(iter, OwnWeight, S)
  BY <1>3, <1>5
<1> HIDE DEF iter
<1>7. iter[S] = SumOf(OwnWeight, S)
  BY <1>2, <1>4, <1>6, SumOfSubset
<1> QED
  BY <1>1, <1>7 DEF Weight, Sharers, Scale, Own, S, StructureClusterWeight

\* Rounding keeps the order of ratios.
LEMMA RatiosRounded ==
  ASSUME NEW a \in Nat, NEW b \in Nat \ {0}, NEW c \in Nat, NEW d \in Nat \ {0}, a * d <= c * b
  PROVE  (2000 * a + b) \div (2 * b) <= (2000 * c + d) \div (2 * d)
<1> DEFINE x == 2000 * a + b
           y == 2000 * c + d
           p == x \div (2 * b)
           q == y \div (2 * d)
<1>1. x \in Nat /\ y \in Nat /\ 2 * b \in Nat \ {0} /\ 2 * d \in Nat \ {0}
  OBVIOUS
<1>2. p \in Nat /\ q \in Nat /\ (2 * b) * p <= x /\ y < (2 * d) * q + 2 * d
  <2> HIDE DEF x, y
  <2> QED
    BY <1>1, DivType
<1>3. x * d <= y * b
  <2>1. x * d = 2000 * (a * d) + b * d /\ y * b = 2000 * (c * b) + b * d
    OBVIOUS
  <2>2. a * d \in Nat /\ c * b \in Nat /\ b * d \in Nat
    OBVIOUS
  <2> HIDE DEF x, y
  <2> QED
    BY <2>1, <2>2
<1> HIDE DEF p, q, x, y
<1>4. ASSUME q < p
      PROVE  FALSE
  <2>1. p \in Nat /\ q + 1 <= p
    BY <1>2, <1>4
  <2>2. ((2 * b) * p) * d <= x * d
    BY <1>1, <1>2
  <2>3. y * b < ((2 * d) * q + 2 * d) * b
    BY <1>1, <1>2
  <2>4. ((2 * d) * q + 2 * d) * b = (2 * b * d) * (q + 1) /\ ((2 * b) * p) * d = (2 * b * d) * p
    BY <1>2
  <2>5. (2 * b * d) * (q + 1) <= (2 * b * d) * p
    <3> DEFINE e == 2 * b * d
    <3>1. e \in Nat
      OBVIOUS
    <3> HIDE DEF e
    <3>2. e * (q + 1) <= e * p
      BY <1>2, <2>1, <3>1
    <3> QED
      BY <3>2 DEF e
  <2>6. /\ x * d \in Int /\ y * b \in Int /\ (2 * b * d) * (q + 1) \in Int
        /\ (2 * b * d) * p \in Int
    BY <1>1, <1>2
  <2> QED
    BY <1>3, <2>2, <2>3, <2>4, <2>5, <2>6
<1>5. p <= q
  BY <1>2, <1>4
<1> QED
  BY <1>5 DEF p, q, x, y

\* Shares of one weight: one sharer more, arguing for the candidate; one that argues; and
\* one less, that did not.  The other families have u of v.
LEMMA SharerJoins ==
  ASSUME NEW k \in Nat, NEW n \in Nat, k <= n, NEW u \in Nat, NEW v \in Nat, u <= v
  PROVE  LET scale == IF n = 0 THEN 1 ELSE n
         IN  (25 * k + scale * u) * (25 * (n + 1) + (n + 1) * v)
               <= (25 * (k + 1) + (n + 1) * u) * (25 * n + scale * v)
<1>1. CASE n = 0
  <2>1. k = 0
    BY <1>1
  <2>2. (25 * 0 + 1 * u) * (25 * (0 + 1) + (0 + 1) * v) = 25 * u + u * v
    OBVIOUS
  <2>3. (25 * (0 + 1) + (0 + 1) * u) * (25 * 0 + 1 * v) = 25 * v + u * v
    OBVIOUS
  <2>4. u * v \in Nat
    OBVIOUS
  <2>5. 25 * u + u * v <= 25 * v + u * v
    BY <2>4
  <2> QED
    BY <1>1, <2>1, <2>2, <2>3, <2>5
<1>2. CASE n # 0
  <2> DEFINE e == 25 + v
             x == 25 * k * n + n * (n + 1) * u
  <2>1. e \in Nat /\ x \in Nat /\ 25 * k \in Nat /\ 25 * n \in Nat /\ 25 * k <= 25 * n
    OBVIOUS
  <2>2. (25 * k + n * u) * (25 * (n + 1) + (n + 1) * v) = (x + 25 * k) * e
    OBVIOUS
  <2>3. (25 * (k + 1) + (n + 1) * u) * (25 * n + n * v) = (x + 25 * n) * e
    OBVIOUS
  <2>4. (x + 25 * k) * e <= (x + 25 * n) * e
    <3> HIDE DEF x, e
    <3> QED
      BY <2>1
  <2> QED
    BY <1>2, <2>2, <2>3, <2>4
<1> QED
  BY <1>1, <1>2

LEMMA SharerLeaves ==
  ASSUME NEW k \in Nat, NEW n \in Nat, k <= n, NEW u \in Nat, NEW v \in Nat, u <= v
  PROVE  LET scale == IF n = 0 THEN 1 ELSE n
         IN  (25 * k + (n + 1) * u) * (25 * n + scale * v)
               <= (25 * k + scale * u) * (25 * (n + 1) + (n + 1) * v)
<1>1. CASE n = 0
  <2>1. k = 0
    BY <1>1
  <2>2. (25 * 0 + (0 + 1) * u) * (25 * 0 + 1 * v) = u * v
    OBVIOUS
  <2>3. (25 * 0 + 1 * u) * (25 * (0 + 1) + (0 + 1) * v) = 25 * u + u * v
    OBVIOUS
  <2>4. u * v \in Nat
    OBVIOUS
  <2> QED
    BY <1>1, <2>1, <2>2, <2>3, <2>4
<1>2. CASE n # 0
  <2> DEFINE e == 25 + v
             x == 25 * k * n + n * (n + 1) * u
  <2>1. e \in Nat /\ x \in Nat /\ 25 * k \in Nat
    OBVIOUS
  <2>2. (25 * k + (n + 1) * u) * (25 * n + n * v) = x * e
    OBVIOUS
  <2>3. (25 * k + n * u) * (25 * (n + 1) + (n + 1) * v) = (x + 25 * k) * e
    OBVIOUS
  <2>4. x * e <= (x + 25 * k) * e
    <3> HIDE DEF x, e
    <3> QED
      BY <2>1
  <2> QED
    BY <1>2, <2>2, <2>3, <2>4
<1> QED
  BY <1>1, <1>2

\* A family with a weight of its own.
LEMMA OwnJoinsOrLeaves ==
  ASSUME NEW a \in Nat, NEW b \in Nat, a <= b, NEW x \in Nat
  PROVE  /\ a * (b + x) <= (a + x) * b
         /\ a * b <= a * (b + x)
<1>1. a * (b + x) = a * b + a * x /\ (a + x) * b = a * b + b * x
  OBVIOUS
<1>2. a * x <= b * x /\ a * b \in Nat /\ a * x \in Nat /\ b * x \in Nat
  OBVIOUS
<1> QED
  BY <1>1, <1>2

\* The numbers of a score.
LEMMA PointsFacts ==
  ASSUME NEW A \in SUBSET Families, NEW F \in SUBSET A
  PROVE  /\ Weight(F, A) \in Nat /\ Weight(A, A) \in Nat /\ Weight(F, A) <= Weight(A, A)
         /\ A # {} => Weight(A, A) > 0
         /\ Points(F, A) \in Nat
<1> DEFINE k == Sharers(F)
           n == Sharers(A)
           u == Own(F)
           v == Own(A)
           s == Scale(A)
           a == Weight(F, A)
           b == Weight(A, A)
<1>1. a = 25 * k + s * u /\ b = 25 * n + s * v
  BY WeightIs
<1>2. /\ k \in Nat /\ n \in Nat /\ k <= n /\ u \in Nat /\ v \in Nat /\ u <= v
      /\ A # {} => n > 0 \/ v > 0
  BY PartFacts
<1>3. s \in Nat \ {0}
  BY <1>2 DEF Scale
<1> HIDE DEF k, n, u, v, s
<1>4. s * u \in Nat /\ s * v \in Nat /\ s * u <= s * v /\ (v > 0 => s * v > 0)
  BY <1>2, <1>3
<1>5. a \in Nat /\ b \in Nat /\ a <= b /\ (A # {} => b > 0)
  BY <1>1, <1>2, <1>4
<1>6. Points(F, A) \in Nat
  <2> HIDE DEF a, b
  <2>1. CASE A = {}
    BY <2>1 DEF Points
  <2>2. CASE A # {}
    <3>1. (2000 * a + b) \in Nat /\ 2 * b \in Nat \ {0}
      BY <1>5, <2>2
    <3>2. (2000 * a + b) \div (2 * b) \in Nat
      BY <3>1, DivType
    <3> QED
      BY <2>2, <3>2 DEF Points, a, b
  <2> QED
    BY <2>1, <2>2
<1> QED
  BY <1>5, <1>6

\* A family that comes to argue for the candidate does not lower the score, whether it
\* was silent or against it, and one against it that falls silent does not either.
LEMMA EvidenceRaisesPoints ==
  ASSUME NEW A \in SUBSET Families, NEW F \in SUBSET A, NEW f \in Families \ A
  PROVE  /\ Points(F, A) <= Points(F \cup {f}, A \cup {f})
         /\ Points(F, A \cup {f}) <= Points(F \cup {f}, A \cup {f})
         /\ Points(F, A \cup {f}) <= Points(F, A)
<1> DEFINE k == Sharers(F)
           n == Sharers(A)
           u == Own(F)
           v == Own(A)
           s == Scale(A)
           x == OwnWeight[f]
           G == F \cup {f}
           B == A \cup {f}
           t == Scale(B)
           a == 25 * k + s * u
           b == 25 * n + s * v
           c == Weight(F, B)
           d == Weight(G, B)
           e == Weight(B, B)
<1>1. /\ A \in SUBSET Families /\ B \in SUBSET Families /\ F \in SUBSET A /\ F \in SUBSET B
      /\ G \in SUBSET B /\ B # {} /\ f \in Families \ F /\ F \in SUBSET Families
  OBVIOUS
<1> HIDE DEF G, B
<1>2. /\ k \in Nat /\ n \in Nat /\ k <= n /\ u \in Nat /\ v \in Nat /\ u <= v
      /\ Sharers(G) \in Nat /\ Sharers(B) \in Nat /\ Own(G) \in Nat /\ Own(B) \in Nat
  BY <1>1, PartFacts
<1>3. s = IF n = 0 THEN 1 ELSE n
  BY DEF Scale
<1>4. a = Weight(F, A) /\ b = Weight(A, A)
  BY WeightIs
<1>5. c = 25 * k + t * u /\ d = 25 * Sharers(G) + t * Own(G) /\ e = 25 * Sharers(B) + t * Own(B)
  BY <1>1, WeightIs
<1>6. /\ a \in Nat /\ b \in Nat /\ a <= b /\ (A # {} => b > 0)
      /\ c \in Nat /\ d \in Nat /\ e \in Nat /\ e > 0 /\ d <= e /\ c <= e
  BY <1>1, <1>4, PointsFacts
<1>7. /\ \/ Sharers(G) = k + 1 /\ Own(G) = u /\ f \in StructureFamilies
         \/ Sharers(G) = k /\ Own(G) = u + x /\ x \in Nat /\ f \notin StructureFamilies
      /\ \/ Sharers(B) = n + 1 /\ Own(B) = v /\ f \in StructureFamilies
         \/ Sharers(B) = n /\ Own(B) = v + x /\ f \notin StructureFamilies
  BY <1>1, OneFamilyMore DEF G, B
<1>8. t = IF Sharers(B) = 0 THEN 1 ELSE Sharers(B)
  BY DEF Scale
<1> HIDE DEF k, n, u, v, s, t, x, c, d, e
<1>9. a * e <= d * b /\ c <= d /\ c * b <= a * e
  <2>1. CASE f \in StructureFamilies
    <3>1. Sharers(G) = k + 1 /\ Own(G) = u /\ Sharers(B) = n + 1 /\ Own(B) = v /\ t = n + 1
      BY <1>2, <1>7, <1>8, <2>1
    <3>2. /\ c = 25 * k + (n + 1) * u /\ d = 25 * (k + 1) + (n + 1) * u
          /\ e = 25 * (n + 1) + (n + 1) * v
      BY <1>5, <3>1
    <3>3. a * e <= d * b
      BY <1>2, <1>3, <3>2, SharerJoins
    <3>4. c * b <= a * e
      BY <1>2, <1>3, <3>2, SharerLeaves
    <3>5. c <= d
      BY <1>2, <3>2
    <3> QED
      BY <3>3, <3>4, <3>5
  <2>2. CASE f \notin StructureFamilies
    <3>1. Sharers(G) = k /\ Own(G) = u + x /\ Sharers(B) = n /\ Own(B) = v + x /\ t = s /\ x \in Nat
      BY <1>3, <1>7, <1>8, <2>2
    <3>2. s \in Nat
      BY <1>2, <1>3
    <3>3. c = a /\ d = a + s * x /\ e = b + s * x /\ s * x \in Nat
      BY <1>2, <1>5, <3>1, <3>2
    <3> HIDE DEF a, b
    <3>4. a * (b + s * x) <= (a + s * x) * b /\ a * b <= a * (b + s * x) /\ a <= a + s * x
      BY <1>6, <3>3, OwnJoinsOrLeaves
    <3> QED
      BY <3>3, <3>4
  <2> QED
    BY <2>1, <2>2
<1> HIDE DEF a, b
<1>10. /\ Points(F, B) = (2000 * c + e) \div (2 * e)
       /\ Points(G, B) = (2000 * d + e) \div (2 * e)
       /\ A # {} => Points(F, A) = (2000 * a + b) \div (2 * b)
  BY <1>1, <1>4 DEF Points, c, d, e
<1>11. /\ (2000 * c + e) \div (2 * e) <= (2000 * d + e) \div (2 * e)
       /\ A # {} => (2000 * a + b) \div (2 * b) <= (2000 * d + e) \div (2 * e)
       /\ A # {} => (2000 * c + e) \div (2 * e) <= (2000 * a + b) \div (2 * b)
  <2>1. c * e <= d * e
    BY <1>6, <1>9
  <2> QED
    BY <1>6, <1>9, <2>1, RatiosRounded
<1>12. CASE A # {}
  BY <1>10, <1>11, <1>12 DEF G, B
<1>13. CASE A = {}
  <2>1. Points(F, A) = 0
    BY <1>13 DEF Points
  <2>2. Points(F, B) = 0
    <3>1. F = {}
      BY <1>13
    <3>2. c = 0
      <4>1. k = 0 /\ u = 0
        <5>1. {} \cap StructureFamilies = {} /\ {} \ StructureFamilies = {}
          OBVIOUS
        <5>2. Cardinality({}) = 0
          BY FS_EmptySet
        <5>3. SumOf(OwnWeight, {}) = 0
          <6>1. OwnWeight \in [Families \ StructureFamilies -> Int] /\ IsFiniteSet({})
            BY FamiliesAreFew, FS_EmptySet
          <6> QED
            BY <6>1, SumFacts
        <5> QED
          BY <3>1, <5>1, <5>2, <5>3 DEF k, u, Sharers, Own
      <4>2. t \in Nat
        BY <1>2, <1>8
      <4> QED
        BY <1>5, <4>1, <4>2
    <3>3. (2000 * 0 + e) \div (2 * e) = 0
      BY <1>6
    <3> QED
      BY <1>10, <3>2, <3>3
  <2>3. Points(G, B) \in Nat
    BY <1>1, PointsFacts
  <2> QED
    BY <2>1, <2>2, <2>3 DEF G, B
<1> QED
  BY <1>12, <1>13

\* A grade is a band's place.
LEMMA Grades ==
  /\ Grade("HARD_BLOCKED") = 1 /\ Grade("NO_EDGE") = 2 /\ Grade("DEVELOPING") = 3
  /\ Grade("PRE_BREAKOUT_WATCH") = 4 /\ Grade("READY") = 5 /\ Grade("ARMED_CANDIDATE") = 6
<1>1. /\ DOMAIN Bands = 1..6
      /\ Bands[1] = "HARD_BLOCKED" /\ Bands[2] = "NO_EDGE" /\ Bands[3] = "DEVELOPING"
      /\ Bands[4] = "PRE_BREAKOUT_WATCH" /\ Bands[5] = "READY" /\ Bands[6] = "ARMED_CANDIDATE"
  BY DEF Bands
<1>2. \A i, j \in DOMAIN Bands : Bands[i] = Bands[j] => i = j
  BY <1>1
<1> HIDE DEF Bands
<1>3. ASSUME NEW i \in DOMAIN Bands
      PROVE  Grade(Bands[i]) = i
  BY <1>2 DEF Grade
<1> QED
  BY <1>1, <1>3

\* The candidate with the better score, and at least as many families for it, is not
\* given the worse verdict.
LEMMA VerdictGrows ==
  ASSUME NEW r, NEW q, NEW c, NEW up, NEW dq, NEW near, NEW gate,
         Score(Absolute(r, c, up), up) \in Nat, Score(Absolute(q, c, up), up) \in Nat,
         Score(Absolute(r, c, up), up) <= Score(Absolute(q, c, up), up),
         Cardinality(For(Absolute(r, c, up), up)) \in Nat,
         Cardinality(For(Absolute(q, c, up), up)) \in Nat,
         Cardinality(For(Absolute(r, c, up), up)) <= Cardinality(For(Absolute(q, c, up), up))
  PROVE  Grade(Judge(r, c, up, dq, near, gate)) <= Grade(Judge(q, c, up, dq, near, gate))
<1> DEFINE x == Score(Absolute(r, c, up), up)
           y == Score(Absolute(q, c, up), up)
           m == Cardinality(For(Absolute(r, c, up), up))
           n == Cardinality(For(Absolute(q, c, up), up))
           Given(score, broad) ==
             IF VerdictBand(score) = "ARMED_CANDIDATE" /\ ~(near /\ dq # "degraded" /\ broad)
               THEN "READY" ELSE VerdictBand(score)
<1>1. /\ Judge(r, c, up, dq, near, gate)
           = IF HardBlocked(dq, gate) THEN "HARD_BLOCKED" ELSE Given(x, m >= 5)
      /\ Judge(q, c, up, dq, near, gate)
           = IF HardBlocked(dq, gate) THEN "HARD_BLOCKED" ELSE Given(y, n >= 5)
  BY DEF Judge
<1>2. x \in Nat /\ y \in Nat /\ x <= y /\ m \in Nat /\ n \in Nat /\ m <= n
  OBVIOUS
<1>3. ASSUME NEW s \in Nat, NEW b \in BOOLEAN
      PROVE  Given(s, b) = IF s >= 850 /\ near /\ dq # "degraded" /\ b THEN "ARMED_CANDIDATE"
                           ELSE IF s >= 750 THEN "READY"
                           ELSE IF s >= 650 THEN "PRE_BREAKOUT_WATCH"
                           ELSE IF s >= 550 THEN "DEVELOPING" ELSE "NO_EDGE"
  BY <1>3 DEF VerdictBand
<1> HIDE DEF x, y, m, n, Given
<1> DEFINE b == m >= 5
           d == n >= 5
<1>4. b \in BOOLEAN /\ d \in BOOLEAN /\ (b => d)
  BY <1>2
<1> HIDE DEF b, d
<1>5. Grade(Given(x, b)) <= Grade(Given(y, d))
  BY <1>2, <1>3, <1>4, Grades
<1> QED
  BY <1>1, <1>5, Grades DEF b, d

\* The families that argue for the candidate and those that are not silent, when f is the
\* family by which q reads better than r.
BetterFor(r, q, c, f) ==
  LET F == For(Absolute(r, c, bullish), bullish)
      A == Available(Absolute(r, c, bullish))
      G == For(Absolute(q, c, bullish), bullish)
      B == Available(Absolute(q, c, bullish))
  IN  /\ F \in SUBSET A /\ A \in SUBSET Families /\ f \in Families
      /\ \/ G = F \cup {f} /\ B = A \cup {f} /\ f \notin A
         \/ G = F \cup {f} /\ B = A /\ f \in A /\ f \notin F
         \/ G = F /\ A = B \cup {f} /\ f \notin B

\* What becomes of the families that argue and of those that are not silent when one reads
\* something better for the candidate.
LEMMA BetterRead ==
  ASSUME NEW r \in [Read -> {"bull", "bear", NoRead}], NEW f \in Read, f # "market_context",
         NEW new \in {"bull", "bear", NoRead}, NEW c \in Contexts, new # r[f],
         bullish \in BOOLEAN, Stance(r[f]) <= Stance(new)
  PROVE  BetterFor(r, [r EXCEPT ![f] = new], c, f)
<1> DEFINE all == Absolute(r, c, bullish)
           now == Absolute([r EXCEPT ![f] = new], c, bullish)
           side == IF bullish THEN "bull" ELSE "bear"
<1>1. /\ DOMAIN all = Families /\ DOMAIN now = Families /\ f \in Families
      /\ all[f] = r[f] /\ now[f] = new
      /\ \A g \in Families \ {f} : now[g] = all[g]
  BY DEF Absolute, Families
<1>2. \/ r[f] = NoRead /\ new = side
      \/ r[f] # NoRead /\ r[f] # side /\ (new = side \/ new = NoRead)
  BY DEF Stance, NoRead
<1>3. side # NoRead
  BY DEF NoRead
<1> HIDE DEF all, now, side
<1>4. /\ For(all, bullish) = {g \in Families : all[g] = side}
      /\ For(now, bullish) = {g \in Families : now[g] = side}
      /\ Available(all) = {g \in Families : all[g] # NoRead}
      /\ Available(now) = {g \in Families : now[g] # NoRead}
  BY <1>1 DEF For, Available, side
<1>5. CASE r[f] = NoRead /\ new = side
  <2>1. For(now, bullish) = For(all, bullish) \cup {f}
    BY <1>1, <1>3, <1>4, <1>5
  <2>2. Available(now) = Available(all) \cup {f} /\ f \notin Available(all)
    BY <1>1, <1>3, <1>4, <1>5
  <2> QED
    BY <1>1, <1>3, <1>4, <2>1, <2>2 DEF all, now, BetterFor
<1>6. CASE r[f] # NoRead /\ r[f] # side /\ new = side
  <2>1. For(now, bullish) = For(all, bullish) \cup {f} /\ f \notin For(all, bullish)
    BY <1>1, <1>3, <1>4, <1>6
  <2>2. Available(now) = Available(all) /\ f \in Available(all)
    BY <1>1, <1>3, <1>4, <1>6
  <2> QED
    BY <1>1, <1>3, <1>4, <2>1, <2>2 DEF all, now, BetterFor
<1>7. CASE r[f] # NoRead /\ r[f] # side /\ new = NoRead
  <2>1. For(now, bullish) = For(all, bullish)
    BY <1>1, <1>3, <1>4, <1>7
  <2>2. Available(all) = Available(now) \cup {f} /\ f \notin Available(now)
    BY <1>1, <1>3, <1>4, <1>7
  <2> QED
    BY <1>1, <1>3, <1>4, <2>1, <2>2 DEF all, now, BetterFor
<1> QED
  BY <1>2, <1>5, <1>6, <1>7

\* Better evidence from one family does not lower the verdict.
LEMMA BetterJudged ==
  ASSUME NEW r \in [Read -> {"bull", "bear", NoRead}], NEW f \in Read,
         NEW new \in {"bull", "bear", NoRead}, NEW c \in Contexts, new # r[f],
         NEW dq, NEW near, NEW gate, bullish \in BOOLEAN, Stance(r[f]) <= Stance(new)
  PROVE  Grade(Judge(r, c, bullish, dq, near, gate))
           <= Grade(Judge([r EXCEPT ![f] = new], c, bullish, dq, near, gate))
<1> DEFINE q == [r EXCEPT ![f] = new]
           all == Absolute(r, c, bullish)
           now == Absolute(q, c, bullish)
           F == For(all, bullish)
           A == Available(all)
           G == For(now, bullish)
           B == Available(now)
<1>1. f # "market_context"
  BY VerdictAssumption DEF StructureFamilies
<1>2. /\ F \in SUBSET A /\ A \in SUBSET Families /\ f \in Families
      /\ \/ G = F \cup {f} /\ B = A \cup {f} /\ f \notin A
         \/ G = F \cup {f} /\ B = A /\ f \in A /\ f \notin F
         \/ G = F /\ A = B \cup {f} /\ f \notin B
  <2>1. BetterFor(r, q, c, f)
    BY <1>1, BetterRead
  <2> QED
    BY <2>1 DEF BetterFor
<1>3. Score(all, bullish) = Points(F, A) /\ Score(now, bullish) = Points(G, B)
  BY DEF Score, Points
<1>4. G \in SUBSET B /\ B \in SUBSET Families
  BY <1>2 DEF For, Available, NoRead
<1> HIDE DEF all, now, F, A, G, B
<1>5. Points(F, A) <= Points(G, B)
  <2>1. CASE G = F \cup {f} /\ B = A \cup {f} /\ f \notin A
    BY <1>2, <2>1, EvidenceRaisesPoints
  <2>2. CASE G = F \cup {f} /\ B = A /\ f \in A /\ f \notin F
    <3>1. /\ A \ {f} \in SUBSET Families /\ F \in SUBSET (A \ {f}) /\ f \in Families \ (A \ {f})
          /\ (A \ {f}) \cup {f} = A
      BY <1>2, <2>2
    <3>2. Points(F, (A \ {f}) \cup {f}) <= Points(F \cup {f}, (A \ {f}) \cup {f})
      BY <3>1, EvidenceRaisesPoints
    <3> QED
      BY <2>2, <3>1, <3>2
  <2>3. CASE G = F /\ A = B \cup {f} /\ f \notin B
    BY <1>2, <1>4, <2>3, EvidenceRaisesPoints
  <2> QED
    BY <1>2, <2>1, <2>2, <2>3
<1>6. Points(F, A) \in Nat /\ Points(G, B) \in Nat
  BY <1>2, <1>4, PointsFacts
<1>7. Cardinality(F) \in Nat /\ Cardinality(G) \in Nat /\ Cardinality(F) <= Cardinality(G)
  <2>1. F \subseteq G /\ IsFiniteSet(F) /\ IsFiniteSet(G)
    BY <1>2, <1>4, FamiliesAreFew, FS_Subset
  <2> QED
    BY <2>1, FS_Subset, FS_CardinalityType
<1> QED
  BY <1>3, <1>5, <1>6, <1>7, VerdictGrows DEF F, G, all, now

\* New evidence for a candidate never lowers its verdict, and new evidence against it never
\* raises it, whichever families are read and however many share a weight.
THEOREM EvidenceIsMonotone == VerdictSpec => BetterIsNeverWorse
<1>1. VerdictInit => VerdictIInv
  BY DEF VerdictInit, VerdictIInv, NoRead
<1>2. ASSUME VerdictIInv, [VerdictNext]_verdictVars, read' # read
      PROVE  LET better == \A f \in Read : Stance(read'[f]) >= Stance(read[f])
                 worse == \A f \in Read : Stance(read'[f]) <= Stance(read[f])
             IN  /\ better => Grade(verdict') >= Grade(verdict)
                 /\ worse => Grade(verdict') <= Grade(verdict)
  <2> USE <1>2 DEF VerdictIInv
  <2>1. PICK f \in Read : FamilyReads(f)
    BY DEF VerdictNext, ContextMoves, QualityMoves, TriggerMoves, GateMoves, verdictVars, inputs
  <2>2. PICK new \in Reads(f) \ {read[f]} : read' = [read EXCEPT ![f] = new]
    BY <2>1 DEF FamilyReads
  <2> DEFINE old == read[f]
             Given(r) == Judge(r, context, bullish, quality, chaseable, gated)
  <2>3. /\ verdict = Given(read) /\ verdict' = Given(read')
        /\ read \in [Read -> {"bull", "bear", NoRead}]
        /\ context \in Contexts /\ bullish \in BOOLEAN
    BY <2>1 DEF FamilyReads, Judged
  <2>4. /\ new \in {"bull", "bear", NoRead} /\ old \in {"bull", "bear", NoRead} /\ new # old
        /\ read'[f] = new
    BY <2>2, <2>3 DEF Reads
  <2>5. read' \in [Read -> {"bull", "bear", NoRead}] /\ read = [read' EXCEPT ![f] = old]
    BY <2>2, <2>3, <2>4
  <2>6. \A r \in {"bull", "bear", NoRead} : Stance(r) \in Int
    BY DEF Stance
  <2>7. ASSUME Stance(old) <= Stance(new)
        PROVE  Grade(verdict) <= Grade(verdict')
    <3>1. Grade(Given(read)) <= Grade(Given([read EXCEPT ![f] = new]))
      BY <2>3, <2>4, <2>7, BetterJudged
    <3> QED
      BY <2>2, <2>3, <3>1
  <2>8. ASSUME Stance(new) <= Stance(old)
        PROVE  Grade(verdict') <= Grade(verdict)
    <3> DEFINE r == read'
    <3>1. r \in [Read -> {"bull", "bear", NoRead}] /\ r[f] = new /\ read = [r EXCEPT ![f] = old]
      BY <2>4, <2>5
    <3> HIDE DEF r
    <3>2. Grade(Given(r)) <= Grade(Given([r EXCEPT ![f] = old]))
      BY <2>3, <2>4, <2>8, <3>1, BetterJudged
    <3> QED
      BY <2>3, <3>1, <3>2 DEF r
  <2>9. /\ (\A g \in Read : Stance(read'[g]) >= Stance(read[g])) => Stance(new) >= Stance(old)
        /\ (\A g \in Read : Stance(read'[g]) <= Stance(read[g])) => Stance(new) <= Stance(old)
    BY <2>4
  <2> QED
    BY <2>4, <2>6, <2>7, <2>8, <2>9
<1> QED
  BY <1>1, <1>2, VerdictStep, PTL DEF VerdictSpec, BetterIsNeverWorse

-----------------------------------------------------------------------------
(* The strength of the sectors. *)

Shots == [Members -> Readings \cup {Unread}]

\* How far a sector is from what its features say of it, and how it comes to rest: what
\* it still has above them is its last rise, so it is gone after a computation that
\* found no rise.
Settling(base, str, dlt, q) ==
  /\ str - base \in 0..1000
  /\ q >= 1 => dlt <= str - base
  /\ q >= 2 => dlt <= 0
  /\ q >= 3 => str = base
  /\ q >= 4 => dlt = 0

\* A sector nothing is known of has no strength.
Dormant(s) == Constituents(s, snapshot) = {} => strength[s] = 0 /\ delta[s] = 0

\* The ranks are those of some strengths, and what is published of one moment's.
RanksBelong ==
  /\ \E str \in [SectorIds -> Int] : rank = Ranking(str)
  /\ \E str \in [SectorIds -> Scores], dlt \in [SectorIds -> Changes] :
       published = Persisted(str, dlt, Ranking(str))

\* The inductive invariant of the sectors.
SectorIInv ==
  /\ stored \in Shots /\ snapshot \in Shots
  /\ strength \in [SectorIds -> Scores] /\ delta \in [SectorIds -> Changes]
  /\ regime \in Regimes
  /\ updates \in Nat /\ seen \in 0..MaxUpdates /\ updates <= seen
  /\ quiet \in [SectorIds -> 0..QuietEnough]
  /\ sectorFaults \in 0..MaxSectorFaults
  /\ \A s \in SectorIds :
       /\ Settling(Base(s, snapshot), strength[s], delta[s], quiet[s])
       /\ Dormant(s)
  /\ RanksBelong
  /\ updates % RankEvery = 0 => rank = Ranking(strength)

\* The rank of a sector: no two share one, and the stronger comes first.
LEMMA RankingFacts ==
  ASSUME NEW str \in [SectorIds -> Int]
  PROVE  /\ Ranking(str) \in [SectorIds -> SectorIds]
         /\ \A s, t \in SectorIds :
              /\ Ranking(str)[s] = Ranking(str)[t] => s = t
              /\ str[s] > str[t] => Ranking(str)[s] < Ranking(str)[t]
<1> DEFINE Ahead(s) == {t \in SectorIds : str[t] > str[s] \/ (str[t] = str[s] /\ t < s)}
<1>1. NSectors \in Nat /\ IsFiniteSet(SectorIds) /\ Cardinality(SectorIds) = NSectors
      /\ SectorIds \subseteq Nat
  BY SectorAssumption, FS_Interval DEF SectorIds
<1>2. \A s \in SectorIds : str[s] \in Int
  OBVIOUS
<1>3. \A s \in SectorIds : Ranking(str)[s] = 1 + Cardinality(Ahead(s))
  BY DEF Ranking
<1>4. ASSUME NEW s \in SectorIds
      PROVE  /\ Ahead(s) \in SUBSET SectorIds /\ s \notin Ahead(s) /\ IsFiniteSet(Ahead(s))
             /\ Cardinality(Ahead(s)) \in Nat /\ Cardinality(Ahead(s)) < NSectors
  <2>1. Ahead(s) \in SUBSET SectorIds /\ s \notin Ahead(s)
    BY <1>1, <1>2
  <2> HIDE DEF Ahead
  <2>2. IsFiniteSet(Ahead(s)) /\ Cardinality(Ahead(s)) \in Nat
    BY <1>1, <2>1, FS_Subset, FS_CardinalityType
  <2>3. Ahead(s) # SectorIds
    BY <2>1
  <2>4. Cardinality(Ahead(s)) <= NSectors /\ Cardinality(Ahead(s)) # NSectors
    BY <1>1, <2>1, <2>2, <2>3, FS_Subset
  <2> QED
    BY <1>1, <2>1, <2>2, <2>4
<1>5. ASSUME NEW s \in SectorIds, NEW t \in Ahead(s)
      PROVE  Cardinality(Ahead(t)) < Cardinality(Ahead(s))
  <2>a. /\ t \in SectorIds /\ s \in Nat /\ t \in Nat /\ str[s] \in Int /\ str[t] \in Int
        /\ str[t] > str[s] \/ (str[t] = str[s] /\ t < s)
    BY <1>1, <1>2
  <2>b. ASSUME NEW u \in Ahead(t)
        PROVE  u \in Ahead(s)
    <3>1. /\ u \in SectorIds /\ u \in Nat /\ str[u] \in Int
          /\ str[u] > str[t] \/ (str[u] = str[t] /\ u < t)
      BY <1>1, <1>2
    <3>2. str[u] > str[s] \/ (str[u] = str[s] /\ u < s)
      BY <2>a, <3>1
    <3> QED
      BY <3>1, <3>2
  <2>1. t \in SectorIds /\ Ahead(t) \subseteq Ahead(s)
    BY <2>a, <2>b
  <2>2. Ahead(t) # Ahead(s)
    BY <1>4, <2>1
  <2>3. /\ IsFiniteSet(Ahead(s)) /\ IsFiniteSet(Ahead(t))
        /\ Cardinality(Ahead(s)) \in Nat /\ Cardinality(Ahead(t)) \in Nat
    BY <1>4, <2>1
  <2> HIDE DEF Ahead
  <2>4. Cardinality(Ahead(t)) <= Cardinality(Ahead(s)) /\ Cardinality(Ahead(t)) # Cardinality(Ahead(s))
    BY <2>1, <2>2, <2>3, FS_Subset
  <2> QED
    BY <2>3, <2>4
<1>6. \A s, t \in SectorIds : s # t => t \in Ahead(s) \/ s \in Ahead(t)
  BY <1>1, <1>2
<1>7. \A s, t \in SectorIds : str[s] > str[t] => s \in Ahead(t)
  OBVIOUS
<1> HIDE DEF Ahead
<1>8. ASSUME NEW s \in SectorIds
      PROVE  Ranking(str)[s] \in SectorIds
  <2> DEFINE c == Cardinality(Ahead(s))
  <2>1. c \in Nat /\ c < NSectors /\ Ranking(str)[s] = 1 + c
    BY <1>3, <1>4
  <2> HIDE DEF c
  <2>2. 1 + c \in 1..NSectors
    BY <1>1, <2>1
  <2> QED
    BY <2>1, <2>2 DEF SectorIds
<1>9. Ranking(str) \in [SectorIds -> SectorIds]
  BY <1>8 DEF Ranking
<1>10. \A s \in SectorIds : \A t \in Ahead(s) : t \in SectorIds /\ Ranking(str)[t] < Ranking(str)[s]
  BY <1>3, <1>4, <1>5
<1>11. \A s \in SectorIds : Ranking(str)[s] \in Nat
  BY <1>1, <1>8
<1> QED
  BY <1>6, <1>7, <1>9, <1>10, <1>11

\* What the features say of a sector is between nothing and nine tenths of a hundred.
LEMMA ConstituentFacts ==
  ASSUME NEW shot \in Shots, NEW s \in SectorIds
  PROVE  /\ IsFiniteSet(Constituents(s, shot)) /\ Constituents(s, shot) \in SUBSET Members
         /\ Cardinality(Constituents(s, shot)) \in Nat
         /\ Cardinality(Constituents(s, shot)) = 0 <=> Constituents(s, shot) = {}
         /\ \A m \in Constituents(s, shot) :
              /\ shot[m] \in Readings
              /\ shot[m].volume \in Int /\ shot[m].rsi \in Int /\ shot[m].change \in Int
<1>1. Constituents(s, shot) \in SUBSET Members
  BY DEF Constituents
<1>2. IsFiniteSet(Constituents(s, shot))
  BY <1>1, SectorAssumption, FS_Subset
<1>3. \A m \in Constituents(s, shot) : shot[m] \in Readings
  BY DEF Constituents, Shots
<1>4. \A r \in Readings : r.volume \in Int /\ r.rsi \in Int /\ r.change \in Int
  BY SectorAssumption
<1> QED
  BY <1>1, <1>2, <1>3, <1>4, FS_CardinalityType, FS_EmptySet

LEMMA ShareType ==
  ASSUME NEW C, IsFiniteSet(C), C # {}, NEW P \in SUBSET C
  PROVE  (100 * Cardinality(P)) \div Cardinality(C) \in 0..100
<1> DEFINE p == Cardinality(P)
           n == Cardinality(C)
           q == (100 * p) \div n
<1>1. p \in Nat /\ n \in Nat /\ p <= n /\ n # 0
  BY FS_Subset, FS_CardinalityType, FS_EmptySet
<1> HIDE DEF p, n
<1>2. q \in Nat /\ n * q <= 100 * p
  BY <1>1, DivType
<1> HIDE DEF q
<1>3. ASSUME q > 100
      PROVE  FALSE
  <2>1. n * 101 <= n * q
    BY <1>1, <1>2, <1>3
  <2>2. n * q \in Nat
    BY <1>1, <1>2
  <2> QED
    BY <1>1, <1>2, <2>1, <2>2
<1>4. q \in 0..100
  BY <1>2, <1>3
<1> QED
  BY <1>4 DEF q, p, n

LEMMA BreadthType ==
  ASSUME NEW shot \in Shots, NEW s \in SectorIds
  PROVE  Breadth(s, shot) \in 0..10000
<1> DEFINE C == Constituents(s, shot)
<1>1. CASE C = {}
  BY <1>1 DEF Breadth
<1>2. CASE C # {}
  <2> DEFINE a == (100 * Cardinality({m \in C : shot[m].vwap})) \div Cardinality(C)
             b == (100 * Cardinality({m \in C : shot[m].ema})) \div Cardinality(C)
             c == (100 * Cardinality({m \in C : shot[m].change > 0})) \div Cardinality(C)
  <2>1. Breadth(s, shot) = 40 * a + 30 * b + 30 * c
    BY <1>2 DEF Breadth, Share
  <2>2. a \in 0..100 /\ b \in 0..100 /\ c \in 0..100
    <3>1. IsFiniteSet(C)
      BY ConstituentFacts
    <3> HIDE DEF C
    <3> QED
      BY <1>2, <3>1, ShareType
  <2> HIDE DEF a, b, c
  <2> QED
    BY <2>1, <2>2
<1> QED
  BY <1>1, <1>2

\* The total of a field of the features is a sum over the constituents.
LEMMA TotalVolume ==
  ASSUME NEW shot \in Shots, NEW s \in SectorIds
  PROVE  LET C == Constituents(s, shot)
         IN  /\ Total(s, shot, LAMBDA r : r.volume) = SumOf([m \in C |-> shot[m].volume], C)
             /\ Total(s, shot, LAMBDA r : r.volume) \in Int
<1> DEFINE C == Constituents(s, shot)
           f == [m \in C |-> shot[m].volume]
           Body(it) == [u \in SUBSET C |-> IF u = {} THEN 0
                          ELSE shot[CHOOSE m \in u : TRUE].volume + it[u \ {CHOOSE m \in u : TRUE}]]
           iter == CHOOSE it : it = Body(it)
<1>1. Total(s, shot, LAMBDA r : r.volume) = iter[C]
  BY DEF Total, MapThenSumSet, MapThenFoldSet
<1>2. IsFiniteSet(C) /\ f \in [C -> Int] /\ C \in SUBSET C
  BY ConstituentFacts
<1>3. \A it : IsSum(it, f, C) <=> it = Body(it)
  <2> SUFFICES ASSUME NEW it
               PROVE  Body(it) = [u \in SUBSET C |->
                                    IF u = {} THEN 0 ELSE f[Pick(u)] + it[u \ {Pick(u)}]]
    BY DEF IsSum
  <2>1. \A u \in SUBSET C : u # {} => (CHOOSE m \in u : TRUE) \in C
    OBVIOUS
  <2> QED
    BY <2>1 DEF Pick
<1> HIDE DEF C, f, Body
<1>4. \E it : it = Body(it)
  BY <1>2, <1>3, SumExists
<1>5. IsSum(iter, f, C)
  BY <1>3, <1>4
<1> HIDE DEF iter
<1>6. iter[C] = SumOf(f, C) /\ SumOf(f, C) \in Int
  BY <1>2, <1>5, SumOfSubset
<1> QED
  BY <1>1, <1>6 DEF f, C

LEMMA TotalRsi ==
  ASSUME NEW shot \in Shots, NEW s \in SectorIds
  PROVE  LET C == Constituents(s, shot)
         IN  /\ Total(s, shot, LAMBDA r : r.rsi) = SumOf([m \in C |-> shot[m].rsi], C)
             /\ Total(s, shot, LAMBDA r : r.rsi) \in Int
<1> DEFINE C == Constituents(s, shot)
           f == [m \in C |-> shot[m].rsi]
           Body(it) == [u \in SUBSET C |-> IF u = {} THEN 0
                          ELSE shot[CHOOSE m \in u : TRUE].rsi + it[u \ {CHOOSE m \in u : TRUE}]]
           iter == CHOOSE it : it = Body(it)
<1>1. Total(s, shot, LAMBDA r : r.rsi) = iter[C]
  BY DEF Total, MapThenSumSet, MapThenFoldSet
<1>2. IsFiniteSet(C) /\ f \in [C -> Int] /\ C \in SUBSET C
  BY ConstituentFacts
<1>3. \A it : IsSum(it, f, C) <=> it = Body(it)
  <2> SUFFICES ASSUME NEW it
               PROVE  Body(it) = [u \in SUBSET C |->
                                    IF u = {} THEN 0 ELSE f[Pick(u)] + it[u \ {Pick(u)}]]
    BY DEF IsSum
  <2>1. \A u \in SUBSET C : u # {} => (CHOOSE m \in u : TRUE) \in C
    OBVIOUS
  <2> QED
    BY <2>1 DEF Pick
<1> HIDE DEF C, f, Body
<1>4. \E it : it = Body(it)
  BY <1>2, <1>3, SumExists
<1>5. IsSum(iter, f, C)
  BY <1>3, <1>4
<1> HIDE DEF iter
<1>6. iter[C] = SumOf(f, C) /\ SumOf(f, C) \in Int
  BY <1>2, <1>5, SumOfSubset
<1> QED
  BY <1>1, <1>6 DEF f, C

LEMMA TotalChange ==
  ASSUME NEW shot \in Shots, NEW s \in SectorIds
  PROVE  LET C == Constituents(s, shot)
         IN  /\ Total(s, shot, LAMBDA r : r.change) = SumOf([m \in C |-> shot[m].change], C)
             /\ Total(s, shot, LAMBDA r : r.change) \in Int
<1> DEFINE C == Constituents(s, shot)
           f == [m \in C |-> shot[m].change]
           Body(it) == [u \in SUBSET C |-> IF u = {} THEN 0
                          ELSE shot[CHOOSE m \in u : TRUE].change + it[u \ {CHOOSE m \in u : TRUE}]]
           iter == CHOOSE it : it = Body(it)
<1>1. Total(s, shot, LAMBDA r : r.change) = iter[C]
  BY DEF Total, MapThenSumSet, MapThenFoldSet
<1>2. IsFiniteSet(C) /\ f \in [C -> Int] /\ C \in SUBSET C
  BY ConstituentFacts
<1>3. \A it : IsSum(it, f, C) <=> it = Body(it)
  <2> SUFFICES ASSUME NEW it
               PROVE  Body(it) = [u \in SUBSET C |->
                                    IF u = {} THEN 0 ELSE f[Pick(u)] + it[u \ {Pick(u)}]]
    BY DEF IsSum
  <2>1. \A u \in SUBSET C : u # {} => (CHOOSE m \in u : TRUE) \in C
    OBVIOUS
  <2> QED
    BY <2>1 DEF Pick
<1> HIDE DEF C, f, Body
<1>4. \E it : it = Body(it)
  BY <1>2, <1>3, SumExists
<1>5. IsSum(iter, f, C)
  BY <1>3, <1>4
<1> HIDE DEF iter
<1>6. iter[C] = SumOf(f, C) /\ SumOf(f, C) \in Int
  BY <1>2, <1>5, SumOfSubset
<1> QED
  BY <1>1, <1>6 DEF f, C

LEMMA BaseType ==
  ASSUME NEW shot \in Shots, NEW s \in SectorIds
  PROVE  /\ Base(s, shot) \in Int /\ 0 <= Base(s, shot) /\ Base(s, shot) <= 9000
         /\ Constituents(s, shot) = {} => Base(s, shot) = 0
<1> DEFINE n == Cardinality(Constituents(s, shot))
           x == Total(s, shot, LAMBDA r : r.volume)
           y == Total(s, shot, LAMBDA r : r.rsi)
           z == Total(s, shot, LAMBDA r : r.change)
           b == Breadth(s, shot)
           volume == Clip((x * 10) \div n, 0, 2000)
           rsi == Clip(((y - 30 * n) * 50) \div n, 0, 2000)
           change == Clip(((z + 2 * n) * 375) \div n, 0, 1500)
           breadth == (35 * b) \div 100
<1>1. n \in Nat /\ (n = 0 <=> Constituents(s, shot) = {})
  BY ConstituentFacts
<1>2. Base(s, shot) = IF n = 0 THEN 0 ELSE breadth + volume + rsi + change
  BY DEF Base
<1>3. CASE n = 0
  BY <1>1, <1>2, <1>3
<1>4. CASE n # 0
  <2>1. x \in Int /\ y \in Int /\ z \in Int
    BY TotalVolume, TotalRsi, TotalChange
  <2>2. b \in 0..10000
    BY BreadthType
  <2> HIDE DEF n, x, y, z, b
  <2>3. breadth \in 0..3500
    BY <2>2
  <2>4. \A w \in Int : w \div n \in Int
    BY <1>1, <1>4
  <2>5. /\ (x * 10) \div n \in Int /\ ((y - 30 * n) * 50) \div n \in Int
        /\ ((z + 2 * n) * 375) \div n \in Int
    BY <1>1, <2>1, <2>4
  <2>6. /\ volume \in Int /\ rsi \in Int /\ change \in Int
        /\ 0 <= volume /\ volume <= 2000 /\ 0 <= rsi /\ rsi <= 2000 /\ 0 <= change /\ change <= 1500
    <3>1. \A w \in Int : Clip(w, 0, 2000) \in Int /\ 0 <= Clip(w, 0, 2000) /\ Clip(w, 0, 2000) <= 2000
      BY DEF Clip
    <3>2. \A w \in Int : Clip(w, 0, 1500) \in Int /\ 0 <= Clip(w, 0, 1500) /\ Clip(w, 0, 1500) <= 1500
      BY DEF Clip
    <3> QED
      BY <2>5, <3>1, <3>2
  <2> HIDE DEF breadth, volume, rsi, change
  <2> QED
    BY <1>1, <1>2, <1>4, <2>3, <2>6
<1> QED
  BY <1>3, <1>4

\* What the features say of a sector is a matter of its own constituents.
LEMMA BaseIsLocal ==
  ASSUME NEW shot \in Shots, NEW s \in SectorIds, NEW m \in Members, NEW r \in Readings,
         SectorOf[m] # s
  PROVE  LET next == [shot EXCEPT ![m] = r]
         IN  /\ next \in Shots
             /\ Constituents(s, next) = Constituents(s, shot)
             /\ Base(s, next) = Base(s, shot)
<1> DEFINE next == [shot EXCEPT ![m] = r]
           C == Constituents(s, shot)
<1>1. next \in Shots
  BY DEF Shots
<1>2. Constituents(s, next) = C /\ \A x \in C : next[x] = shot[x]
  BY DEF Constituents, Shots
<1> HIDE DEF next, C
<1>3. /\ [x \in C |-> next[x].volume] = [x \in C |-> shot[x].volume]
      /\ [x \in C |-> next[x].rsi] = [x \in C |-> shot[x].rsi]
      /\ [x \in C |-> next[x].change] = [x \in C |-> shot[x].change]
  BY <1>2
<1>4. /\ Total(s, next, LAMBDA x : x.volume) = Total(s, shot, LAMBDA x : x.volume)
      /\ Total(s, next, LAMBDA x : x.rsi) = Total(s, shot, LAMBDA x : x.rsi)
      /\ Total(s, next, LAMBDA x : x.change) = Total(s, shot, LAMBDA x : x.change)
  <2>1. Total(s, next, LAMBDA x : x.volume) = Total(s, shot, LAMBDA x : x.volume)
    <3>1. Total(s, next, LAMBDA x : x.volume)
            = SumOf([x \in Constituents(s, next) |-> next[x].volume], Constituents(s, next))
      BY <1>1, TotalVolume
    <3>2. Total(s, shot, LAMBDA x : x.volume) = SumOf([x \in C |-> shot[x].volume], C)
      BY TotalVolume DEF C
    <3> QED
      BY <1>2, <1>3, <3>1, <3>2
  <2>2. Total(s, next, LAMBDA x : x.rsi) = Total(s, shot, LAMBDA x : x.rsi)
    <3>1. Total(s, next, LAMBDA x : x.rsi)
            = SumOf([x \in Constituents(s, next) |-> next[x].rsi], Constituents(s, next))
      BY <1>1, TotalRsi
    <3>2. Total(s, shot, LAMBDA x : x.rsi) = SumOf([x \in C |-> shot[x].rsi], C)
      BY TotalRsi DEF C
    <3> QED
      BY <1>2, <1>3, <3>1, <3>2
  <2>3. Total(s, next, LAMBDA x : x.change) = Total(s, shot, LAMBDA x : x.change)
    <3>1. Total(s, next, LAMBDA x : x.change)
            = SumOf([x \in Constituents(s, next) |-> next[x].change], Constituents(s, next))
      BY <1>1, TotalChange
    <3>2. Total(s, shot, LAMBDA x : x.change) = SumOf([x \in C |-> shot[x].change], C)
      BY TotalChange DEF C
    <3> QED
      BY <1>2, <1>3, <3>1, <3>2
  <2> QED
    BY <2>1, <2>2, <2>3
<1>5. /\ {x \in C : next[x].vwap} = {x \in C : shot[x].vwap}
      /\ {x \in C : next[x].ema} = {x \in C : shot[x].ema}
      /\ {x \in C : next[x].change > 0} = {x \in C : shot[x].change > 0}
  BY <1>2
<1>6. Breadth(s, next) = Breadth(s, shot)
  BY <1>2, <1>5 DEF Breadth, Share, C
<1>7. Base(s, next) = Base(s, shot)
  BY <1>2, <1>4, <1>6 DEF Base, C
<1> QED
  BY <1>1, <1>2, <1>7 DEF next, C

-----------------------------------------------------------------------------
(* The recomputation. *)

LEMMA ScoresAndChanges ==
  /\ \A x : x \in Scores <=> x \in Int /\ 0 <= x /\ x <= 10000
  /\ \A x : x \in Changes <=> x \in Int /\ -10000 <= x /\ x <= 10000
<1>1. \A x \in Scores : x \in Int /\ 0 <= x /\ x <= 10000
  BY DEF Scores
<1>2. \A x \in Changes : x \in Int /\ -10000 <= x /\ x <= 10000
  BY DEF Changes
<1>3. \A x \in Int : 0 <= x /\ x <= 10000 => x \in Scores
  BY DEF Scores
<1>4. \A x \in Int : -10000 <= x /\ x <= 10000 => x \in Changes
  <2> DEFINE low == -10000
             high == 10000
  <2>1. low \in Int /\ high \in Int
    OBVIOUS
  <2>2. Changes = low..high
    BY DEF Changes
  <2> HIDE DEF low, high
  <2>3. \A x \in Int : low <= x /\ x <= high => x \in low..high
    BY <2>1
  <2>4. \A x \in Int : low <= x /\ x <= high => x \in Changes
    BY <2>2, <2>3
  <2> QED
    BY <2>4 DEF low, high
<1> QED
  BY <1>1, <1>2, <1>3, <1>4

LEMMA RecomputedFacts ==
  ASSUME NEW shot \in Shots, NEW s \in SectorIds, Constituents(s, shot) # {},
         NEW str \in Scores, NEW dlt \in Changes
  PROVE  LET new == Recomputed(s, shot, str, dlt)
         IN  /\ new.strength = Base(s, shot) + Momentum(dlt)
             /\ new.strength \in Scores
             /\ new.delta = new.strength - str /\ new.delta \in Changes
             /\ Momentum(dlt) \in Int
<1> DEFINE b == Base(s, shot)
           d == Momentum(dlt)
           now == Clip(b + d, 0, 10000)
<1>1. b \in Int /\ 0 <= b /\ b <= 9000
  BY BaseType
<1>2. d \in Int /\ 0 <= d /\ d <= 1000
  <2>1. dlt \in Int
    BY ScoresAndChanges
  <2> QED
    BY <2>1 DEF Momentum, Clip
<1>3. Recomputed(s, shot, str, dlt) = [strength |-> now, delta |-> now - str]
  BY DEF Recomputed
<1> HIDE DEF b, d
<1>4. now = b + d /\ now \in Scores
  BY <1>1, <1>2, ScoresAndChanges DEF Clip
<1> HIDE DEF now
<1>5. now - str \in Changes
  BY <1>4, ScoresAndChanges
<1> QED
  BY <1>2, <1>3, <1>4, <1>5 DEF b, d

\* One more computation from the same features.
LEMMA SettlesOnce ==
  ASSUME NEW base \in Int, NEW str \in Int, NEW dlt \in Int, NEW q \in 0..QuietEnough,
         Settling(base, str, dlt, q)
  PROVE  Settling(base, base + Momentum(dlt), base + Momentum(dlt) - str,
                  Clip(q + 1, 0, QuietEnough))
  BY DEF Settling, Momentum, Clip, QuietEnough

\* A computation from new features.
LEMMA SettlesAnew ==
  ASSUME NEW base \in Int, NEW str \in Int, NEW dlt \in Int
  PROVE  Settling(base, base + Momentum(dlt), base + Momentum(dlt) - str, 0)
  BY DEF Settling, Momentum, Clip

\* The strengths, the ranks and what is published after a start.
LEMMA BootFacts ==
  ASSUME NEW shot \in Shots
  PROVE  LET boot == Boot(shot)
         IN  /\ boot.strength \in [SectorIds -> Scores]
             /\ boot.delta \in [SectorIds -> Changes]
             /\ boot.rank = Ranking(boot.strength)
             /\ boot.published = Persisted(boot.strength, boot.delta, Ranking(boot.strength))
             /\ \A s \in SectorIds :
                  /\ Settling(Base(s, shot), boot.strength[s], boot.delta[s], 0)
                  /\ Constituents(s, shot) = {} => boot.strength[s] = 0 /\ boot.delta[s] = 0
<1> DEFINE str == [s \in SectorIds |-> Seeded(shot)[s].strength]
           dlt == [s \in SectorIds |-> Seeded(shot)[s].delta]
<1>1. Boot(shot) = [strength |-> str, delta |-> dlt, rank |-> Ranking(str),
                    published |-> Persisted(str, dlt, Ranking(str))]
  BY DEF Boot
<1>2. ASSUME NEW s \in SectorIds
      PROVE  /\ str[s] \in Scores /\ dlt[s] \in Changes
             /\ Settling(Base(s, shot), str[s], dlt[s], 0)
             /\ Constituents(s, shot) = {} => str[s] = 0 /\ dlt[s] = 0
  <2> DEFINE new == Recomputed(s, shot, 0, 0)
             b == Base(s, shot)
  <2>1. str[s] = new.strength /\ dlt[s] = new.delta
    BY DEF Seeded
  <2>2. b \in Int
    BY BaseType
  <2>3. CASE Constituents(s, shot) = {}
    <3>1. new = [strength |-> 0, delta |-> 0]
      BY <2>3 DEF Recomputed
    <3>2. b = 0
      BY <2>3, BaseType
    <3>3. str[s] = 0 /\ dlt[s] = 0
      BY <2>1, <3>1
    <3>4. 0 \in Scores /\ 0 \in Changes
      BY ScoresAndChanges
    <3>5. Settling(0, 0, 0, 0)
      BY DEF Settling
    <3> HIDE DEF b, str, dlt, new
    <3> QED
      BY <3>2, <3>3, <3>4, <3>5 DEF b
  <2>4. CASE Constituents(s, shot) # {}
    <3>0. 0 \in Scores /\ 0 \in Changes
      BY ScoresAndChanges
    <3>1. /\ new.strength = b + Momentum(0) /\ new.delta = new.strength - 0
          /\ new.strength \in Scores /\ new.delta \in Changes
      BY <2>4, <3>0, RecomputedFacts
    <3> HIDE DEF new, b, str, dlt
    <3>2. Settling(b, b + Momentum(0), b + Momentum(0) - 0, 0)
      BY <2>2, SettlesAnew
    <3>3. Settling(b, str[s], dlt[s], 0)
      <4>1. Momentum(0) = 0
        BY DEF Momentum, Clip
      <4>2. str[s] = b /\ dlt[s] = b
        BY <2>1, <2>2, <3>1, <4>1
      <4>3. b + Momentum(0) = b /\ b + Momentum(0) - 0 = b
        BY <2>2, <4>1
      <4> QED
        BY <3>2, <4>2, <4>3
    <3> QED
      BY <2>1, <2>4, <3>1, <3>3 DEF b
  <2> QED
    BY <2>3, <2>4
<1> HIDE DEF str, dlt
<1>3. str \in [SectorIds -> Scores] /\ dlt \in [SectorIds -> Changes]
  BY <1>2 DEF str, dlt
<1> QED
  BY <1>1, <1>2, <1>3

LEMMA InitSectors == SectorInit => SectorIInv
<1> SUFFICES ASSUME SectorInit
             PROVE  SectorIInv
  OBVIOUS
<1> DEFINE boot == Boot(stored)
<1>1. /\ stored \in Shots /\ snapshot = stored /\ strength = boot.strength /\ delta = boot.delta
      /\ rank = boot.rank /\ published = boot.published
      /\ regime = "neutral" /\ updates = 0 /\ seen = 0 /\ sectorFaults = 0
      /\ quiet = [s \in SectorIds |-> 0]
  BY DEF SectorInit, Shots
<1>2. /\ strength \in [SectorIds -> Scores] /\ delta \in [SectorIds -> Changes]
      /\ rank = Ranking(strength) /\ published = Persisted(strength, delta, Ranking(strength))
      /\ \A s \in SectorIds :
           /\ Settling(Base(s, snapshot), strength[s], delta[s], 0)
           /\ Constituents(s, snapshot) = {} => strength[s] = 0 /\ delta[s] = 0
  BY <1>1, BootFacts
<1> HIDE DEF boot
<1>3. RanksBelong
  <2>1. strength \in [SectorIds -> Int]
    BY <1>2, ScoresAndChanges
  <2> QED
    BY <1>2, <2>1 DEF RanksBelong
<1>4. \A s \in SectorIds : quiet[s] = 0 /\ Dormant(s)
  BY <1>1, <1>2 DEF Dormant
<1>5. /\ quiet \in [SectorIds -> 0..QuietEnough] /\ seen \in 0..MaxUpdates
      /\ sectorFaults \in 0..MaxSectorFaults /\ regime \in Regimes /\ updates \in Nat
      /\ updates <= seen
  BY <1>1, SectorAssumption DEF QuietEnough, Regimes
<1> QED
  BY <1>1, <1>2, <1>3, <1>4, <1>5 DEF SectorIInv

\* What a ranking and its writing leave of the invariant.
LEMMA RankingKeeps ==
  ASSUME SectorIInv, RankAndFail \/ (RankAndPersist /\ UNCHANGED sectorFaults),
         strength' \in [SectorIds -> Scores], delta' \in [SectorIds -> Changes]
  PROVE  /\ rank' = Ranking(strength') /\ RanksBelong'
         /\ sectorFaults' \in 0..MaxSectorFaults
<1>1. rank' = Ranking(strength')
  BY DEF RankAndFail, RankAndPersist
<1>2. strength' \in [SectorIds -> Int]
  BY ScoresAndChanges
<1>3. \/ published' = published
      \/ published' = Persisted(strength', delta', Ranking(strength'))
  BY <1>1 DEF RankAndFail, RankAndPersist
<1>4. RanksBelong'
  <2>1. \E str \in [SectorIds -> Int] : rank' = Ranking(str)
    BY <1>1, <1>2
  <2>2. \E str \in [SectorIds -> Scores], dlt \in [SectorIds -> Changes] :
          published' = Persisted(str, dlt, Ranking(str))
    BY <1>3 DEF SectorIInv, RanksBelong
  <2> QED
    BY <2>1, <2>2 DEF RanksBelong
<1>5. sectorFaults' \in 0..MaxSectorFaults
  BY SectorAssumption DEF SectorIInv, RankAndFail
<1> QED
  BY <1>1, <1>4, <1>5

LEMMA UpdateSectorKeeps ==
  ASSUME SectorIInv, NEW m \in Members, NEW r \in Readings, UpdateSymbol(m, r)
  PROVE  SectorIInv'
<1> USE DEF SectorIInv
<1> DEFINE s == SectorOf[m]
           base == Base(s, snapshot')
           new == Recomputed(s, snapshot', strength[s], delta[s])
<1>1. /\ seen < MaxUpdates /\ seen' = seen + 1 /\ updates' = updates + 1 /\ regime' = regime
      /\ stored' = [stored EXCEPT ![m] = r] /\ snapshot' = [snapshot EXCEPT ![m] = r]
      /\ strength' = [strength EXCEPT ![s] = new.strength]
      /\ delta' = [delta EXCEPT ![s] = new.delta]
      /\ quiet' = [quiet EXCEPT ![s] =
                      IF snapshot[m] = r THEN Clip(@ + 1, 0, QuietEnough) ELSE 0]
  BY DEF UpdateSymbol
<1>2. s \in SectorIds /\ stored' \in Shots /\ snapshot' \in Shots
  BY <1>1, SectorAssumption DEF Shots
<1>3. m \in Constituents(s, snapshot')
  <2>1. r # Unread
    <3>1. r \in [vwap : BOOLEAN, ema : BOOLEAN, change : Int, rsi : Int, volume : Nat]
      BY SectorAssumption
    <3> QED
      BY <3>1 DEF Unread
  <2>2. snapshot'[m] = r
    BY <1>1 DEF Shots
  <2> QED
    BY <2>1, <2>2 DEF Constituents
<1>4. strength[s] \in Scores /\ delta[s] \in Changes /\ quiet[s] \in 0..QuietEnough
  BY <1>2
<1>5. /\ new.strength = base + Momentum(delta[s]) /\ new.strength \in Scores
      /\ new.delta = new.strength - strength[s] /\ new.delta \in Changes
      /\ Momentum(delta[s]) \in Int
  BY <1>2, <1>3, <1>4, RecomputedFacts
<1>6. base \in Int
  BY <1>2, BaseType
<1> HIDE DEF new, base, s
<1>7. /\ strength' \in [SectorIds -> Scores] /\ delta' \in [SectorIds -> Changes]
      /\ strength'[s] = new.strength /\ delta'[s] = new.delta
      /\ \A t \in SectorIds \ {s} :
           strength'[t] = strength[t] /\ delta'[t] = delta[t] /\ quiet'[t] = quiet[t]
  BY <1>1, <1>2, <1>5
<1>8. quiet'[s] = IF snapshot[m] = r THEN Clip(quiet[s] + 1, 0, QuietEnough) ELSE 0
  BY <1>1, <1>2
<1>9. quiet' \in [SectorIds -> 0..QuietEnough]
  <2>1. Clip(quiet[s] + 1, 0, QuietEnough) \in 0..QuietEnough
    BY <1>4 DEF QuietEnough, Clip
  <2>2. 0 \in 0..QuietEnough
    BY DEF QuietEnough
  <2> QED
    BY <1>1, <1>2, <2>1, <2>2
<1>10. Settling(base, strength'[s], delta'[s], quiet'[s])
  <2>1. strength[s] \in Int /\ delta[s] \in Int
    BY <1>4, ScoresAndChanges
  <2>a. /\ strength'[s] = base + Momentum(delta[s])
        /\ delta'[s] = base + Momentum(delta[s]) - strength[s]
    <3>1. strength'[s] = new.strength /\ delta'[s] = new.delta
      BY <1>7
    <3>2. new.strength = base + Momentum(delta[s]) /\ new.delta = new.strength - strength[s]
      BY <1>5
    <3>3. base \in Int /\ Momentum(delta[s]) \in Int /\ strength[s] \in Int
      BY <1>5, <1>6, <2>1
    <3> DEFINE x == Momentum(delta[s])
               y == strength[s]
               z == strength'[s]
               w == delta'[s]
    <3>4. z = base + x /\ w = z - y /\ base \in Int /\ x \in Int /\ y \in Int
      BY ONLY <3>1, <3>2, <3>3
    <3> HIDE DEF x, y, z, w
    <3>5. z = base + x /\ w = base + x - y
      BY ONLY <3>4
    <3> QED
      BY <3>5 DEF x, y, z, w
  <2>2. CASE snapshot[m] = r
    <3>1. snapshot' = snapshot
      BY <1>1, <2>2 DEF Shots
    <3>2. Settling(base, strength[s], delta[s], quiet[s])
      BY <1>2, <3>1 DEF base
    <3>3. Settling(base, base + Momentum(delta[s]), base + Momentum(delta[s]) - strength[s],
                   Clip(quiet[s] + 1, 0, QuietEnough))
      BY <1>4, <1>6, <2>1, <3>2, SettlesOnce
    <3> QED
      BY <1>8, <2>a, <2>2, <3>3
  <2>3. CASE snapshot[m] # r
    <3>1. Settling(base, base + Momentum(delta[s]), base + Momentum(delta[s]) - strength[s], 0)
      BY <1>6, <2>1, SettlesAnew
    <3> QED
      BY <1>8, <2>a, <2>3, <3>1
  <2> QED
    BY <2>2, <2>3
<1>11. ASSUME NEW t \in SectorIds
       PROVE  Settling(Base(t, snapshot'), strength'[t], delta'[t], quiet'[t]) /\ Dormant(t)'
  <2>1. CASE t = s
    BY <1>3, <1>10, <2>1 DEF base, Dormant
  <2>2. CASE t # s
    <3>1. Constituents(t, snapshot') = Constituents(t, snapshot) /\ Base(t, snapshot') = Base(t, snapshot)
      BY <1>1, <2>2, BaseIsLocal DEF s
    <3> QED
      BY <1>7, <2>2, <3>1 DEF Dormant
  <2> QED
    BY <2>1, <2>2
<1>12. \/ updates' % RankEvery # 0 /\ UNCHANGED <<rank, published, sectorFaults>>
       \/ RankAndFail \/ (RankAndPersist /\ UNCHANGED sectorFaults)
  BY DEF UpdateSymbol
<1>13. /\ RanksBelong' /\ sectorFaults' \in 0..MaxSectorFaults
       /\ updates' % RankEvery = 0 => rank' = Ranking(strength')
  <2>1. CASE updates' % RankEvery # 0 /\ UNCHANGED <<rank, published, sectorFaults>>
    BY <2>1 DEF RanksBelong
  <2>2. CASE RankAndFail \/ (RankAndPersist /\ UNCHANGED sectorFaults)
    BY <1>7, <2>2, RankingKeeps
  <2> QED
    BY <1>12, <2>1, <2>2
<1>14. seen' \in 0..MaxUpdates /\ updates' \in Nat /\ updates' <= seen' /\ regime' \in Regimes
  <2>1. MaxUpdates \in Nat
    BY SectorAssumption
  <2> QED
    BY <1>1, <2>1
<1> QED
  BY <1>2, <1>7, <1>9, <1>11, <1>13, <1>14

LEMMA SectorStep == SectorIInv /\ [SectorNext]_sectorVars => SectorIInv'
<1> SUFFICES ASSUME SectorIInv, [SectorNext]_sectorVars
             PROVE  SectorIInv'
  OBVIOUS
<1>1. CASE PersistTick
  <2>1. UNCHANGED <<stored, snapshot, strength, delta, regime, updates, quiet, seen>>
    BY <1>1 DEF PersistTick, sectorScores
  <2>2. strength' \in [SectorIds -> Scores] /\ delta' \in [SectorIds -> Changes]
    BY <2>1 DEF SectorIInv
  <2>3. RankAndFail \/ (RankAndPersist /\ UNCHANGED sectorFaults)
    BY <1>1 DEF PersistTick
  <2>4. rank' = Ranking(strength') /\ RanksBelong' /\ sectorFaults' \in 0..MaxSectorFaults
    BY <2>2, <2>3, RankingKeeps
  <2> QED
    BY <2>1, <2>4 DEF SectorIInv, Dormant
<1>2. ASSUME NEW index \in IndexReadings, UpdateIndex(index)
      PROVE  SectorIInv'
  <2>1. regime' \in Regimes
    BY <1>2 DEF UpdateIndex, Regime, Regimes
  <2> QED
    BY <1>2, <2>1 DEF UpdateIndex, SectorIInv, Dormant, RanksBelong, sectorScores
<1>3. CASE SectorRestart
  <2> USE DEF SectorIInv
  <2> DEFINE boot == Boot(stored)
  <2>1. /\ stored' = stored /\ snapshot' = stored /\ stored \in Shots
        /\ strength' = boot.strength /\ delta' = boot.delta
        /\ rank' = boot.rank /\ published' = boot.published
        /\ regime' = "neutral" /\ updates' = 0 /\ seen' = seen
        /\ sectorFaults < MaxSectorFaults /\ sectorFaults' = sectorFaults + 1
        /\ quiet' = [s \in SectorIds |-> 0]
    BY <1>3 DEF SectorRestart
  <2>2. /\ strength' \in [SectorIds -> Scores] /\ delta' \in [SectorIds -> Changes]
        /\ rank' = Ranking(strength') /\ published' = Persisted(strength', delta', Ranking(strength'))
        /\ \A s \in SectorIds :
             /\ Settling(Base(s, snapshot'), strength'[s], delta'[s], 0)
             /\ Constituents(s, snapshot') = {} => strength'[s] = 0 /\ delta'[s] = 0
    BY <2>1, BootFacts
  <2> HIDE DEF boot
  <2>3. RanksBelong'
    <3>1. strength' \in [SectorIds -> Int]
      BY <2>2, ScoresAndChanges
    <3> QED
      BY <2>2, <3>1 DEF RanksBelong
  <2>4. \A s \in SectorIds : quiet'[s] = 0 /\ Dormant(s)'
    BY <2>1, <2>2 DEF Dormant
  <2>5. quiet' \in [SectorIds -> 0..QuietEnough]
    BY <2>1 DEF QuietEnough
  <2>6. sectorFaults' \in 0..MaxSectorFaults
    BY <2>1, SectorAssumption
  <2>7. updates' \in Nat /\ updates' <= seen' /\ seen' \in 0..MaxUpdates /\ regime' \in Regimes
    BY <2>1, SectorAssumption DEF Regimes
  <2> QED
    BY <2>1, <2>2, <2>3, <2>4, <2>5, <2>6, <2>7
<1>4. CASE UNCHANGED sectorVars
  BY <1>4 DEF sectorVars, SectorIInv, Dormant, RanksBelong
<1> QED
  BY <1>1, <1>2, <1>3, <1>4, UpdateSectorKeeps DEF SectorNext

\* The invariant of the sectors holds in every state: what a sector has above its
\* features is its last rise, its ranks are those of some strengths, and what is published
\* is of one moment.
THEOREM SectorInvariant == SectorSpec => []SectorIInv
<1> QED
  BY InitSectors, SectorStep, PTL DEF SectorSpec

-----------------------------------------------------------------------------
(* What the past of a sector can add to a conviction. *)

\* The points of a strength grow with it, by ten at most for ten points more.
LEMMA StrengthPointsGrow ==
  ASSUME NEW base \in Int, NEW str \in Int, base <= str, str <= base + 1000
  PROVE  /\ StrengthPoints(str) \in Int /\ StrengthPoints(base) \in Int
         /\ 0 <= StrengthPoints(str) - StrengthPoints(base)
         /\ StrengthPoints(str) - StrengthPoints(base) <= 10
  BY DEF StrengthPoints

\* A cap does not widen a difference.
LEMMA ClippedGain ==
  ASSUME NEW x \in Int, NEW y \in Int
  PROVE  /\ Clip(x, -80, 60) - Clip(y, -80, 60) \in Int
         /\ y <= x => /\ 0 <= Clip(x, -80, 60) - Clip(y, -80, 60)
                      /\ Clip(x, -80, 60) - Clip(y, -80, 60) <= x - y
         /\ x <= y => /\ x - y <= Clip(x, -80, 60) - Clip(y, -80, 60)
                      /\ Clip(x, -80, 60) - Clip(y, -80, 60) <= 0
  BY DEF Clip

LEMMA GainBounded ==
  ASSUME NEW features \in Int, NEW base \in Int, NEW str \in Int, base <= str, str <= base + 1000,
         NEW trend \in Trends
  PROVE  /\ Adjustment("bullish", features, str, trend)
               - Adjustment("bullish", features, base, "stable") \in -12..48
         /\ Adjustment("bearish", features, str, trend)
               - Adjustment("bearish", features, base, "stable") \in -36..9
<1> DEFINE p == StrengthPoints(str)
           q == StrengthPoints(base)
           t == TrendPoints(trend)
           a == features + p + t
           b == features + q
<1>1. p \in Int /\ q \in Int /\ 0 <= p - q /\ p - q <= 10
  BY StrengthPointsGrow
<1>2. t \in Int /\ -3 <= t /\ t <= 2
  BY DEF TrendPoints
<1>3. TrendPoints("stable") = 0
  BY DEF TrendPoints
<1> HIDE DEF p, q, t
<1>4. /\ features + p + t = a /\ features + q + 0 = b
      /\ a \in Int /\ b \in Int /\ -3 <= a - b /\ a - b <= 12
  BY <1>1, <1>2
<1> HIDE DEF a, b
<1>5. /\ Adjustment("bullish", features, str, trend) = Clip(4 * a, -80, 60)
      /\ Adjustment("bullish", features, base, "stable") = Clip(4 * b, -80, 60)
      /\ Adjustment("bearish", features, str, trend) = Clip(-3 * a, -80, 60)
      /\ Adjustment("bearish", features, base, "stable") = Clip(-3 * b, -80, 60)
  BY <1>3, <1>4 DEF Adjustment, p, q, t
<1>6. Clip(4 * a, -80, 60) - Clip(4 * b, -80, 60) \in -12..48
  <2> DEFINE x == 4 * a
             y == 4 * b
  <2>1. x \in Int /\ y \in Int /\ -12 <= x - y /\ x - y <= 48
    BY <1>4
  <2> HIDE DEF x, y
  <2> DEFINE c == Clip(x, -80, 60) - Clip(y, -80, 60)
  <2>2. /\ c \in Int
        /\ y <= x => 0 <= c /\ c <= x - y
        /\ x <= y => x - y <= c /\ c <= 0
    BY <2>1, ClippedGain
  <2> HIDE DEF c
  <2>3. c \in -12..48
    BY <2>1, <2>2
  <2> QED
    BY <2>3 DEF c, x, y
<1>7. Clip(-3 * a, -80, 60) - Clip(-3 * b, -80, 60) \in -36..9
  <2> DEFINE x == -3 * a
             y == -3 * b
  <2>1. x \in Int /\ y \in Int /\ -36 <= x - y /\ x - y <= 9
    BY <1>4
  <2> HIDE DEF x, y
  <2> DEFINE c == Clip(x, -80, 60) - Clip(y, -80, 60)
  <2>2. /\ c \in Int
        /\ y <= x => 0 <= c /\ c <= x - y
        /\ x <= y => x - y <= c /\ c <= 0
    BY <2>1, ClippedGain
  <2> HIDE DEF c
  <2>3. c \in -36..9
    BY <2>1, <2>2
  <2> QED
    BY <2>3 DEF c, x, y
<1> QED
  BY <1>5, <1>6, <1>7

\* A strength comes to rest on what the features say, within three computations; the past
\* of a sector adds at most twelve points to a conviction and takes at most nine from it;
\* Redis has the sectors as they were at one moment; and sectors at rest are ranked by
\* their features.
THEOREM SectorsAreSafe == SectorSpec => []SectorSafe
<1>1. ASSUME SectorIInv
      PROVE  SectorSafe
  <2> USE <1>1 DEF SectorIInv
  <2>1. ASSUME NEW s \in SectorIds
        PROVE  /\ strength[s] \in Int /\ delta[s] \in Int /\ Base(s, snapshot) \in Int
               /\ quiet[s] \in 0..QuietEnough
               /\ Base(s, snapshot) <= strength[s] /\ strength[s] <= Base(s, snapshot) + 1000
               /\ quiet[s] >= 3 => strength[s] = Base(s, snapshot)
               /\ quiet[s] >= 4 => delta[s] = 0
    <3>1. strength[s] \in Int /\ delta[s] \in Int
      BY ScoresAndChanges
    <3>2. Base(s, snapshot) \in Int
      BY BaseType
    <3>3. Settling(Base(s, snapshot), strength[s], delta[s], quiet[s]) /\ quiet[s] \in 0..QuietEnough
      OBVIOUS
    <3> DEFINE b == Base(s, snapshot)
               x == strength[s]
               d == delta[s]
               q == quiet[s]
    <3>4. b \in Int /\ x \in Int /\ Settling(b, x, d, q)
      BY <3>1, <3>2, <3>3
    <3> HIDE DEF b, x, d, q
    <3>5. /\ b <= x /\ x <= b + 1000
          /\ q >= 3 => x = b
          /\ q >= 4 => d = 0
      BY <3>4 DEF Settling
    <3> QED
      BY <3>1, <3>2, <3>3, <3>5 DEF b, x, d, q
  <2>2. StrengthSettles
    <3>1. Trend(0) = "stable"
      BY DEF Trend
    <3> QED
      BY <2>1, <3>1 DEF StrengthSettles
  <2>3. \A d \in Int : Trend(d) \in Trends
    BY DEF Trend, Trends
  <2>4. PastIsBounded
    <3> SUFFICES ASSUME NEW m \in Members, snapshot[m] # Unread
                 PROVE  LET s == SectorOf[m]
                            features == FeaturePoints(m)
                            base == Base(s, snapshot)
                            gain(direction) ==
                              Adjustment(direction, features, strength[s], Trend(delta[s]))
                                - Adjustment(direction, features, base, "stable")
                        IN  gain("bullish") \in -12..48 /\ gain("bearish") \in -36..9
      BY DEF PastIsBounded
    <3> DEFINE s == SectorOf[m]
               features == FeaturePoints(m)
               base == Base(s, snapshot)
               str == strength[s]
               trend == Trend(delta[s])
    <3>1. s \in SectorIds
      BY SectorAssumption
    <3>2. features \in Int
      <4> DEFINE x == BreadthPoints(Breadth(SectorOf[m], snapshot))
                 y == RelativePoints(m, snapshot)
                 z == RegimePoints
      <4>1. x \in {5, -5, 0} /\ y \in {0, 5, -5} /\ z \in {3, -10, 0}
        BY DEF BreadthPoints, RelativePoints, RegimePoints
      <4> HIDE DEF x, y, z
      <4>2. x + y + z \in Int
        BY <4>1
      <4> QED
        BY <4>2 DEF FeaturePoints, x, y, z
    <3>3. /\ base \in Int /\ str \in Int /\ base <= str /\ str <= base + 1000 /\ trend \in Trends
      BY <2>1, <2>3, <3>1
    <3> HIDE DEF features, base, str, trend
    <3>4. /\ Adjustment("bullish", features, str, trend)
                - Adjustment("bullish", features, base, "stable") \in -12..48
          /\ Adjustment("bearish", features, str, trend)
                - Adjustment("bearish", features, base, "stable") \in -36..9
      BY <3>2, <3>3, GainBounded
    <3> QED
      BY <3>4 DEF features, base, str, trend
  <2>5. PICK str \in [SectorIds -> Scores], dlt \in [SectorIds -> Changes] :
          published = Persisted(str, dlt, Ranking(str))
    BY DEF RanksBelong
  <2>6. str \in [SectorIds -> Int] /\ dlt \in [SectorIds -> Int]
    BY ScoresAndChanges
  <2>7. \A s \in SectorIds :
          published[s] = [strength |-> str[s], delta |-> dlt[s], rank |-> Ranking(str)[s],
                          trend |-> Trend(dlt[s])]
    BY <2>5 DEF Persisted
  <2>8. PublishedAtOnce
    <3>1. ASSUME NEW s \in SectorIds
          PROVE  published[s].rank = Ranking(str)[s] /\ published[s].strength = str[s]
      <4> DEFINE p == published[s]
                 x == str[s]
                 d == dlt[s]
                 r == Ranking(str)[s]
                 t == Trend(d)
      <4>1. p = [strength |-> x, delta |-> d, rank |-> r, trend |-> t]
        BY <2>7
      <4> HIDE DEF p, x, d, r, t
      <4>2. p.rank = r /\ p.strength = x
        BY <4>1
      <4> QED
        BY <4>2 DEF p, x, r
    <3> QED
      BY <2>6, <3>1, RankingFacts DEF PublishedAtOnce
  <2>9. RanksFollowFeatures
    <3> SUFFICES ASSUME updates % RankEvery = 0, \A s \in SectorIds : quiet[s] >= 3
                 PROVE  rank = Ranking([s \in SectorIds |-> Base(s, snapshot)])
      BY DEF RanksFollowFeatures
    <3>1. \A s \in SectorIds : strength[s] = Base(s, snapshot)
      BY <2>1
    <3>2. strength = [s \in SectorIds |-> Base(s, snapshot)]
      BY <3>1
    <3>3. rank = Ranking(strength)
      OBVIOUS
    <3> QED
      BY <3>2, <3>3
  <2>10. SectorTypeOK
    <3>1. stored \in [Members -> Readings \cup {Unread}] /\ snapshot \in [Members -> Readings \cup {Unread}]
      BY DEF Shots
    <3>2. strength \in [SectorIds -> Scores] /\ delta \in [SectorIds -> Changes]
      OBVIOUS
    <3>4. rank \in [SectorIds -> SectorIds] /\ IsInjective(rank)
      <4>1. PICK r \in [SectorIds -> Int] : rank = Ranking(r)
        BY DEF RanksBelong
      <4>2. /\ rank \in [SectorIds -> SectorIds]
            /\ \A s, t \in SectorIds : rank[s] = rank[t] => s = t
        BY <4>1, RankingFacts
      <4> QED
        BY <4>2 DEF IsInjective
    <3>5. published \in [SectorIds -> Published]
      <4>1. ASSUME NEW s \in SectorIds
            PROVE  published[s] \in Published
        <5>1. str[s] \in Int /\ dlt[s] \in Int /\ Ranking(str)[s] \in SectorIds
          BY <2>6, RankingFacts
        <5>2. Trend(dlt[s]) \in Trends
          BY <2>3, <5>1
        <5> DEFINE p == published[s]
                   x == str[s]
                   d == dlt[s]
                   r == Ranking(str)[s]
                   t == Trend(d)
        <5>3. p = [strength |-> x, delta |-> d, rank |-> r, trend |-> t]
          BY <2>7
        <5>4. x \in Int /\ d \in Int /\ r \in SectorIds /\ t \in Trends
          BY <5>1, <5>2
        <5> HIDE DEF p, x, d, r, t
        <5>5. p \in Published
          BY <5>3, <5>4 DEF Published
        <5> QED
          BY <5>5 DEF p
      <4>2. DOMAIN published = SectorIds /\ published = [s \in SectorIds |-> published[s]]
        BY <2>5 DEF Persisted
      <4> QED
        BY <4>1, <4>2
    <3>6. updates \in 0..MaxUpdates
      BY SectorAssumption
    <3>7. /\ regime \in Regimes /\ quiet \in [SectorIds -> 0..QuietEnough] /\ seen \in 0..MaxUpdates
          /\ sectorFaults \in 0..MaxSectorFaults
      OBVIOUS
    <3> QED
      BY <3>1, <3>2, <3>4, <3>5, <3>6, <3>7 DEF SectorTypeOK
  <2> QED
    BY <2>2, <2>4, <2>8, <2>9, <2>10 DEF SectorSafe
<1> QED
  BY <1>1, SectorInvariant, PTL

-----------------------------------------------------------------------------
(* The shadow states. *)

\* What the sweep at work holds to be the logged state of a direction: what it
\* has found cached, what it is about to cache, or else what is cached.
Known(d) ==
  CASE d = entry.direction /\ shadowStep = "mapped" -> before
    [] d = entry.direction /\ shadowStep = "logged" -> mapped
    [] OTHER -> shadowCache[d]

\* One repeated row is to come where that is not what the log says.
Owed(d) == IF Known(d) = Said(log, d, Len(log)) THEN 0 ELSE 1

HasRow(d, s) == \E i \in DOMAIN log : log[i].direction = d /\ log[i].state = s

\* What is known of a direction was logged for it, and so was what has been
\* cached and shown.
KnownIsLogged ==
  /\ \A d \in Directions : shadowCache[d] # NoShadow => HasRow(d, shadowCache[d])
  /\ shadowStep = "mapped" /\ before # NoShadow => HasRow(entry.direction, before)
  /\ shadowStep \in {"logged", "cached"} => HasRow(entry.direction, mapped)

MappedFromEntry ==
  shadowStep \in {"mapped", "logged", "cached"} =>
    \E signal \in BOOLEAN : mapped = MapSymbol(entry, signal)

\* The shadow states' inductive invariant.
ShadowIInv ==
  /\ ShadowTypeOK
  /\ shadowFaults \in Nat
  /\ \A d \in Directions :
       IsFiniteSet(Repeats(d)) /\ Cardinality(Repeats(d)) + Owed(d) <= shadowFaults
  /\ shadowFaults = 0 =>
       \A i \in DOMAIN log : log[i].prev = Said(log, log[i].direction, i - 1)
  /\ KnownIsLogged
  /\ MappedFromEntry
  /\ VerdictIsLogged

\* A row more does not change what the ones before it say, and what is said
\* then of its direction is what it says.
LEMMA SaidOfMore ==
  ASSUME NEW rows \in Seq(Rows), NEW r \in Rows, NEW d \in Directions
  PROVE  /\ \A n \in 0..Len(rows) : Said(Append(rows, r), d, n) = Said(rows, d, n)
         /\ Said(Append(rows, r), d, Len(rows) + 1)
              = IF r.direction = d THEN r.state ELSE Said(rows, d, Len(rows))
<1> DEFINE more == Append(rows, r)
           About(q, n) == {j \in 1..n : q[j].direction = d}
<1>1. /\ \A j \in 1..Len(rows) : more[j] = rows[j]
      /\ more[Len(rows) + 1] = r
      /\ Len(rows) \in Nat
  OBVIOUS
<1>2. ASSUME NEW n \in 0..Len(rows)
      PROVE  Said(more, d, n) = Said(rows, d, n)
  <2>1. About(more, n) = About(rows, n)
    BY <1>1
  <2>2. /\ Said(more, d, n) = IF About(more, n) = {} THEN NoShadow ELSE
             more[CHOOSE j \in About(more, n) : \A k \in About(more, n) : k <= j].state
        /\ Said(rows, d, n) = IF About(rows, n) = {} THEN NoShadow ELSE
             rows[CHOOSE j \in About(rows, n) : \A k \in About(rows, n) : k <= j].state
    BY DEF Said
  <2>3. CASE About(rows, n) = {}
    BY <2>1, <2>2, <2>3
  <2>4. CASE About(rows, n) # {}
    <3>1. About(rows, n) \in SUBSET Int /\ IsFiniteSet(About(rows, n))
      <4>1. About(rows, n) \in SUBSET (1..n) /\ IsFiniteSet(1..n)
        BY FS_Interval
      <4> HIDE DEF About
      <4> QED
        BY <4>1, FS_Subset
    <3>2. \E j \in About(rows, n) : \A k \in About(rows, n) : k <= j
      <4> HIDE DEF About
      <4> QED
        BY <2>4, <3>1, GreatestInteger
    <3> DEFINE last == CHOOSE j \in About(rows, n) : \A k \in About(rows, n) : k <= j
    <3>3. last \in About(rows, n)
      <4> HIDE DEF About
      <4> QED
        BY <3>2
    <3>4. more[last] = rows[last]
      BY <1>1, <3>3
    <3> HIDE DEF About
    <3> QED
      BY <2>1, <2>2, <2>4, <3>4
  <2> QED
    BY <2>3, <2>4
<1>3. CASE r.direction = d
  <2> DEFINE top == Len(rows) + 1
             about == About(more, top)
             last == CHOOSE j \in about : \A k \in about : k <= j
  <2>1. top \in about /\ \A k \in about : k \in 1..top
    BY <1>1, <1>3
  <2>2. \A k \in about : k <= top /\ (top <= k => k = top)
    BY <1>1, <2>1
  <2>3. last \in about /\ \A k \in about : k <= last
    <3> HIDE DEF about, top
    <3> QED
      BY <2>1, <2>2
  <2>4. last = top
    <3> HIDE DEF about, top, last
    <3> QED
      BY <2>1, <2>2, <2>3
  <2>5. about # {} /\ Said(more, d, top) = more[last].state
    BY <2>1 DEF Said
  <2>6. Said(more, d, top) = r.state
    <3> HIDE DEF about, last
    <3> QED
      BY <2>4, <2>5, <1>1
  <2> QED
    BY <1>2, <1>3, <2>6
<1>4. CASE r.direction # d
  <2>1. About(more, Len(rows) + 1) = About(more, Len(rows))
    BY <1>1, <1>4
  <2>2. \A k : Said(more, d, k) = IF About(more, k) = {} THEN NoShadow ELSE
             more[CHOOSE j \in About(more, k) : \A i \in About(more, k) : i <= j].state
    BY DEF Said
  <2>3. Said(more, d, Len(rows) + 1) = Said(more, d, Len(rows))
    <3> HIDE DEF About, more
    <3> QED
      BY <2>1, <2>2
  <2> QED
    BY <1>1, <1>2, <1>4, <2>3
<1> QED
  BY <1>3, <1>4

\* map_ebie_state gives a canonical state, and the label it leads to is on the
\* side of the evidence.
LEMMA MapsToAState ==
  ASSUME NEW e \in Evidence, NEW signal \in BOOLEAN
  PROVE  /\ MapSymbol(e, signal) \in CANONICAL_STATES
         /\ e.direction \in Directions
         /\ MapSymbol(e, signal) # NoShadow
         /\ Label(e, MapSymbol(e, signal)) \in Verdicts \ Sided(e.direction, Short, Long)
<1>1. IsEvidence(e)
  BY ShadowAssumption
<1>2. /\ e.direction \in Directions /\ e.tier \in BreakoutTiers /\ e.setup \in SetupStates
      /\ MapSymbol(e, signal) \in CANONICAL_STATES
  BY <1>1 DEF IsEvidence, MapSymbol, FromEvidence, Watching, CANONICAL_STATES
<1>3. MapSymbol(e, signal) # NoShadow
  BY <1>2 DEF CANONICAL_STATES, NoShadow
<1>4. /\ MapSymbol(e, signal) = "PRE_BREAKOUT" => e.direction = "BULLISH"
      /\ MapSymbol(e, signal) = "PRE_BREAKDOWN" => e.direction = "BEARISH"
  BY <1>2 DEF MapSymbol, FromEvidence, Watching, Directions
<1> DEFINE shadow == MapSymbol(e, signal)
<1>5. StateLabel(e, shadow) \in Verdicts \ Sided(e.direction, Short, Long)
  <2>0. /\ shadow \in CANONICAL_STATES
        /\ shadow = "PRE_BREAKOUT" => e.direction = "BULLISH"
        /\ shadow = "PRE_BREAKDOWN" => e.direction = "BEARISH"
    BY <1>2, <1>4
  <2> HIDE DEF shadow
  <2>1. CASE e.direction = "BULLISH"
    BY <2>0, <2>1 DEF StateLabel, Sided, Verdicts, Short, Long, CANONICAL_STATES
  <2>2. CASE e.direction = "BEARISH"
    BY <2>0, <2>2 DEF StateLabel, Sided, Verdicts, Short, Long, CANONICAL_STATES
  <2> QED
    BY <1>2, <2>1, <2>2 DEF Directions
<1>6. Label(e, shadow) \in {"DATA_UNRELIABLE", "AVOID_TRAP_RISK", StateLabel(e, shadow)}
  BY DEF Label
<1>7. /\ {"DATA_UNRELIABLE", "AVOID_TRAP_RISK"} \subseteq Verdicts
      /\ \A l \in {"DATA_UNRELIABLE", "AVOID_TRAP_RISK"} :
           l \notin Sided(e.direction, Short, Long)
  BY DEF Verdicts, Sided, Short, Long
<1> QED
  BY <1>2, <1>3, <1>5, <1>6, <1>7

\* What the row that LogRow may add does to the log.
LEMMA LogRowFacts ==
  ASSUME ShadowIInv, LogRow, shadowStep = "mapped", UNCHANGED <<entry, mapped>>
  PROVE  /\ log' \in Seq(Rows)
         /\ \A i \in DOMAIN log' : log'[i].prev # log'[i].state
         /\ \A d \in Directions : d # entry.direction =>
              /\ Repeats(d)' = Repeats(d)
              /\ Said(log', d, Len(log')) = Said(log, d, Len(log))
         /\ IsFiniteSet(Repeats(entry.direction)')
         /\ Cardinality(Repeats(entry.direction)')
              + (IF mapped = Said(log', entry.direction, Len(log')) THEN 0 ELSE 1)
              <= shadowFaults
         /\ shadowFaults = 0 =>
              \A i \in DOMAIN log' : log'[i].prev = Said(log', log'[i].direction, i - 1)
         /\ \A d \in Directions, s \in States : HasRow(d, s) => HasRow(d, s)'
         /\ HasRow(entry.direction, mapped)'
<1> DEFINE dir == entry.direction
           r == NewTransition
<1>1. PICK signal \in BOOLEAN : mapped = MapSymbol(entry, signal)
  BY DEF ShadowIInv, MappedFromEntry
<1>2. entry \in Evidence /\ before \in States /\ log \in Seq(Rows) /\ shadowFaults \in Nat
  BY DEF ShadowIInv, ShadowTypeOK
<1>3. dir \in Directions /\ mapped \in CANONICAL_STATES /\ mapped # NoShadow
  BY <1>1, <1>2, MapsToAState
<1>4. /\ Owed(dir) = IF before = Said(log, dir, Len(log)) THEN 0 ELSE 1
      /\ Known(dir) = before
  BY DEF Owed, Known
<1>5. /\ IsFiniteSet(Repeats(dir))
      /\ Cardinality(Repeats(dir)) + Owed(dir) <= shadowFaults
      /\ Cardinality(Repeats(dir)) \in Nat
  BY <1>3, FS_CardinalityType DEF ShadowIInv
<1>6. CASE before = mapped
  <2>1. log' = log
    BY <1>6 DEF LogRow
  <2>2. \A d \in Directions : Repeats(d)' = Repeats(d)
    BY <2>1 DEF Repeats
  <2>3. Cardinality(Repeats(dir)) + (IF mapped = Said(log, dir, Len(log)) THEN 0 ELSE 1)
          <= shadowFaults
    BY <1>4, <1>5, <1>6
  <2>4. HasRow(dir, mapped)
    BY <1>3, <1>6 DEF ShadowIInv, KnownIsLogged
  <2> QED
    BY <1>2, <1>3, <1>5, <2>1, <2>2, <2>3, <2>4 DEF ShadowIInv, ShadowTypeOK, HasRow
<1>7. CASE before # mapped
  <2> DEFINE n == Len(log)
  <2>1. log' = Append(log, r) /\ r.direction = dir /\ r.state = mapped /\ r.prev = before
    BY <1>7 DEF LogRow, NewTransition
  <2>2. r \in Rows
    BY <1>2, <1>3 DEF NewTransition, Rows, States
  <2>3. /\ log' \in Seq(Rows) /\ n \in Nat /\ Len(log') = n + 1
        /\ \A i \in DOMAIN log : log'[i] = log[i] /\ i \in 1..n
        /\ log'[n + 1] = r
        /\ DOMAIN log' = DOMAIN log \cup {n + 1} /\ n + 1 \notin DOMAIN log
    <3> HIDE DEF r
    <3> QED
      BY <1>2, <2>1, <2>2
  <2>4. \A d \in Directions :
          /\ \A k \in 0..n : Said(log', d, k) = Said(log, d, k)
          /\ Said(log', d, n + 1) = IF dir = d THEN mapped ELSE Said(log, d, n)
    <3> HIDE DEF r
    <3> QED
      BY <1>2, <2>1, <2>2, SaidOfMore
  <2>5. \A i \in DOMAIN log : i - 1 \in 0..n
    BY <2>3
  <2>6. ASSUME NEW d \in Directions
        PROVE  Repeats(d)' = IF d = dir /\ mapped = Said(log, d, n)
                               THEN Repeats(d) \cup {n + 1} ELSE Repeats(d)
    <3>1. \A i \in DOMAIN log : i \in Repeats(d)' <=> i \in Repeats(d)
      BY <2>3, <2>4, <2>5 DEF Repeats
    <3>2. n + 1 \in Repeats(d)' <=> d = dir /\ mapped = Said(log, d, n)
      <4>1. n + 1 - 1 = n /\ n \in 0..n
        BY <2>3
      <4> QED
        BY <2>1, <2>3, <2>4, <4>1 DEF Repeats
    <3>3. Repeats(d) \subseteq DOMAIN log /\ Repeats(d)' \subseteq DOMAIN log'
      BY DEF Repeats
    <3> DEFINE old == Repeats(d)
               new == Repeats(d)'
               D == DOMAIN log
               top == n + 1
               again == d = dir /\ mapped = Said(log, d, n)
    <3>4. /\ \A i \in D : i \in new <=> i \in old
          /\ top \in new <=> again
          /\ old \subseteq D /\ new \subseteq D \cup {top} /\ top \notin D
      BY <2>3, <3>1, <3>2, <3>3
    <3> HIDE DEF old, new, D, top, again
    <3>5. new = IF again THEN old \cup {top} ELSE old
      BY <3>4
    <3> QED
      BY <3>5 DEF old, new, top, again
  <2>7. /\ IsFiniteSet(Repeats(dir)')
        /\ Cardinality(Repeats(dir)') <= shadowFaults
    <3>1. CASE mapped = Said(log, dir, n)
      <4>1. Owed(dir) = 1
        BY <1>4, <1>7, <3>1
      <4>2. n + 1 \notin Repeats(dir)
        BY <2>3 DEF Repeats
      <4>3. Repeats(dir)' = Repeats(dir) \cup {n + 1}
        BY <1>3, <2>6, <3>1
      <4>4. /\ IsFiniteSet(Repeats(dir)')
            /\ Cardinality(Repeats(dir)') = Cardinality(Repeats(dir)) + 1
        <5> DEFINE old == Repeats(dir)
                   new == Repeats(dir)'
                   top == n + 1
        <5>1. IsFiniteSet(old) /\ top \notin old /\ new = old \cup {top}
          BY <1>5, <4>2, <4>3
        <5> HIDE DEF old, new, top
        <5>2. IsFiniteSet(new) /\ Cardinality(new) = Cardinality(old) + 1
          BY <5>1, FS_AddElement
        <5> QED
          BY <5>2 DEF old, new
      <4> QED
        BY <1>2, <1>5, <4>1, <4>4
    <3>2. CASE mapped # Said(log, dir, n)
      <4>1. Repeats(dir)' = Repeats(dir)
        BY <1>3, <2>6, <3>2
      <4> QED
        BY <1>2, <1>4, <1>5, <4>1
    <3> QED
      BY <3>1, <3>2
  <2>8. mapped = Said(log', dir, Len(log'))
    BY <1>3, <2>3, <2>4
  <2>9. Cardinality(Repeats(dir)') + (IF mapped = Said(log', dir, Len(log')) THEN 0 ELSE 1)
          <= shadowFaults
    <3>1. Cardinality(Repeats(dir)') \in Nat
      BY <2>7, FS_CardinalityType
    <3> QED
      BY <2>7, <2>8, <3>1
  <2>10. shadowFaults = 0 =>
           \A i \in DOMAIN log' : log'[i].prev = Said(log', log'[i].direction, i - 1)
    <3> SUFFICES ASSUME shadowFaults = 0, NEW i \in DOMAIN log'
                 PROVE  log'[i].prev = Said(log', log'[i].direction, i - 1)
      OBVIOUS
    <3>1. CASE i \in DOMAIN log
      <4>1. log[i] \in Rows /\ log[i].direction \in Directions
        <5>1. log[i] \in Rows
          BY <1>2, <3>1
        <5> QED
          BY <5>1 DEF Rows
      <4>2. log[i].prev = Said(log, log[i].direction, i - 1)
        BY <3>1 DEF ShadowIInv
      <4> QED
        BY <2>3, <2>4, <2>5, <3>1, <4>1, <4>2
    <3>2. CASE i = n + 1
      <4>1. Owed(dir) = 0
        BY <1>4, <1>5
      <4>2. before = Said(log, dir, n)
        BY <1>4, <4>1
      <4>3. n + 1 - 1 = n /\ n \in 0..n
        BY <2>3
      <4> QED
        BY <1>3, <2>1, <2>3, <2>4, <3>2, <4>2, <4>3
    <3> QED
      BY <2>3, <3>1, <3>2
  <2>11. \A i \in DOMAIN log' : log'[i].prev # log'[i].state
    <3>1. \A i \in DOMAIN log : log[i].prev # log[i].state
      BY DEF ShadowIInv, ShadowTypeOK
    <3> QED
      BY <1>7, <2>1, <2>3, <3>1
  <2>12. \A d \in Directions, s \in States : HasRow(d, s) => HasRow(d, s)'
    BY <2>3 DEF HasRow
  <2>13. HasRow(dir, mapped)'
    BY <2>1, <2>3 DEF HasRow
  <2>14. ASSUME NEW d \in Directions, d # dir
         PROVE  Repeats(d)' = Repeats(d) /\ Said(log', d, Len(log')) = Said(log, d, n)
    BY <2>3, <2>4, <2>6, <2>14
  <2> QED
    BY <2>3, <2>7, <2>9, <2>10, <2>11, <2>12, <2>13, <2>14
<1> QED
  BY <1>6, <1>7

LEMMA InitShadow == ShadowInit => ShadowIInv
<1> SUFFICES ASSUME ShadowInit
             PROVE  ShadowIInv
  OBVIOUS
<1>1. /\ log = <<>> /\ log \in Seq(Rows) /\ DOMAIN log = {} /\ Len(log) = 0
      /\ shadowFaults = 0 /\ shadowStep = "asleep"
  BY DEF ShadowInit
<1>2. shadowCache \in [Directions -> States] /\ \A d \in Directions : shadowCache[d] = NoShadow
  BY DEF ShadowInit, States
<1>3. verdictLite \in VerdictLites /\ verdictLite.direction = NoShadow
  BY DEF ShadowInit, VerdictLites, States
<1>4. ShadowTypeOK
  BY <1>1, <1>2, <1>3 DEF ShadowInit, ShadowTypeOK, States
<1>5. ASSUME NEW d \in Directions
      PROVE  IsFiniteSet(Repeats(d)) /\ Cardinality(Repeats(d)) + Owed(d) <= shadowFaults
  <2>1. Repeats(d) = {}
    BY <1>1 DEF Repeats
  <2>2. Said(log, d, Len(log)) = NoShadow
    BY <1>1 DEF Said
  <2>3. Owed(d) = 0
    BY <1>1, <1>2, <2>2 DEF Owed, Known
  <2>4. Cardinality({}) = 0 /\ IsFiniteSet({})
    BY FS_EmptySet
  <2> QED
    BY <1>1, <2>1, <2>3, <2>4
<1>6. VerdictIsLogged
  BY <1>3 DEF VerdictIsLogged
<1>7. KnownIsLogged /\ MappedFromEntry
  BY <1>1, <1>2 DEF KnownIsLogged, MappedFromEntry
<1> QED
  BY <1>1, <1>4, <1>5, <1>6, <1>7 DEF ShadowIInv

\* Where the log stays, the invariant is kept if nothing more is owed than
\* faults have been paid for.
LEMMA LogStays ==
  ASSUME ShadowIInv, UNCHANGED <<log, verdictLite>>,
         shadowFaults' = shadowFaults \/ shadowFaults' = shadowFaults + 1,
         \A d \in Directions :
           Known(d)' = Known(d) \/ Known(d)' = Said(log, d, Len(log))
             \/ shadowFaults' = shadowFaults + 1
  PROVE  /\ shadowFaults' \in Nat
         /\ \A d \in Directions :
              IsFiniteSet(Repeats(d)') /\ Cardinality(Repeats(d)') + Owed(d)' <= shadowFaults'
         /\ shadowFaults' = 0 =>
              \A i \in DOMAIN log' : log'[i].prev = Said(log', log'[i].direction, i - 1)
         /\ VerdictIsLogged'
         /\ \A d, s : HasRow(d, s)' = HasRow(d, s)
         /\ log' \in Seq(Rows) /\ \A i \in DOMAIN log' : log'[i].prev # log'[i].state
         /\ verdictLite' \in VerdictLites
<1>1. shadowFaults \in Nat /\ shadowFaults' \in Nat
  BY DEF ShadowIInv
<1>2. ASSUME NEW d \in Directions
      PROVE  IsFiniteSet(Repeats(d)') /\ Cardinality(Repeats(d)') + Owed(d)' <= shadowFaults'
  <2> DEFINE R == Cardinality(Repeats(d))
             o == Owed(d)
             o2 == Owed(d)'
             f == shadowFaults
             f2 == shadowFaults'
  <2>1. Repeats(d)' = Repeats(d)
    BY DEF Repeats
  <2>2. IsFiniteSet(Repeats(d)) /\ R + o <= f
    BY DEF ShadowIInv
  <2>3. R \in Nat
    BY <2>2, FS_CardinalityType
  <2>4. o \in {0, 1} /\ o2 \in {0, 1}
    BY DEF Owed
  <2>5. o2 = o \/ o2 = 0 \/ f2 = f + 1
    BY DEF Owed
  <2>6. f2 = f \/ f2 = f + 1
    OBVIOUS
  <2>7. R + o2 <= f2
    <3> HIDE DEF R, o, o2, f, f2
    <3> QED
      BY <1>1, <2>2, <2>3, <2>4, <2>5, <2>6 DEF f
  <2> QED
    BY <2>1, <2>2, <2>7
<1>3. shadowFaults' = 0 => shadowFaults = 0
  BY <1>1
<1> QED
  BY <1>1, <1>2, <1>3 DEF ShadowIInv, ShadowTypeOK, VerdictIsLogged, HasRow

LEMMA ShadowStep == ShadowIInv /\ [ShadowNext]_shadowVars => ShadowIInv'
<1> SUFFICES ASSUME ShadowIInv, [ShadowNext]_shadowVars
             PROVE  ShadowIInv'
  OBVIOUS
<1> USE DEF ShadowIInv
<1>0. ShadowTypeOK /\ KnownIsLogged /\ MappedFromEntry
  OBVIOUS
<1>1. entry \in Evidence /\ entry.direction \in Directions
  BY MapsToAState DEF ShadowTypeOK
<1>a. shadowStep \in {"mapped", "logged", "cached"} =>
        mapped \in CANONICAL_STATES /\ mapped # NoShadow /\ mapped \in States
  BY <1>0, <1>1, MapsToAState DEF MappedFromEntry, States
<1>b. shadowCache \in [Directions -> States]
  BY DEF ShadowTypeOK
<1>2. CASE ReadTicks
  <2> USE <1>2 DEF ReadTicks
  <2>1. \A d \in Directions : Known(d)' = shadowCache[d] /\ Known(d) = shadowCache[d]
    BY DEF Known
  <2>2. KnownIsLogged' /\ MappedFromEntry'
    BY DEF KnownIsLogged, MappedFromEntry, HasRow
  <2>3. ShadowTypeOK'
    BY DEF ShadowTypeOK
  <2> QED
    BY <2>1, <2>2, <2>3, LogStays
<1>3. CASE MapRow
  <2> USE <1>3 DEF MapRow
  <2>1. PICK signal \in BOOLEAN : mapped' = MapSymbol(entry, signal)
    OBVIOUS
  <2>2. mapped' \in States /\ mapped' # NoShadow
    BY <1>1, <2>1, MapsToAState DEF States
  <2>3. before' \in States
    BY <1>1, <1>b
  <2>4. \A d \in Directions : Known(d)' = shadowCache[d] /\ Known(d) = shadowCache[d]
    BY DEF Known
  <2>5. KnownIsLogged'
    BY <1>1 DEF KnownIsLogged, HasRow
  <2>6. MappedFromEntry'
    BY <2>1 DEF MappedFromEntry
  <2>7. ShadowTypeOK'
    BY <2>2, <2>3 DEF ShadowTypeOK
  <2> QED
    BY <2>4, <2>5, <2>6, <2>7, LogStays
<1>4. CASE InsertRow
  <2> USE <1>4 DEF InsertRow
  <2>1. UNCHANGED <<entry, mapped>> /\ LogRow /\ shadowStep = "mapped"
    OBVIOUS
  <2>2. HasRow(entry.direction, mapped)'
    BY <2>1, LogRowFacts
  <2>3. \A d \in Directions, s \in States : HasRow(d, s) => HasRow(d, s)'
    BY <2>1, LogRowFacts
  <2>4. KnownIsLogged'
    <3>1. \A d \in Directions : shadowCache[d] # NoShadow => HasRow(d, shadowCache[d])'
      BY <1>0, <1>b, <2>3 DEF KnownIsLogged
    <3> QED
      BY <3>1, <2>2 DEF KnownIsLogged, HasRow
  <2>5. VerdictIsLogged'
    <3>1. verdictLite.state \in States /\ verdictLite.direction \in Directions \cup {NoShadow}
      BY DEF ShadowTypeOK, VerdictLites
    <3> QED
      BY <2>3, <3>1 DEF VerdictIsLogged, HasRow
  <2>6. MappedFromEntry'
    BY DEF MappedFromEntry
  <2>7. ShadowTypeOK'
    BY <2>1, LogRowFacts DEF ShadowTypeOK
  <2>8. ASSUME NEW d \in Directions
        PROVE  IsFiniteSet(Repeats(d)') /\ Cardinality(Repeats(d)') + Owed(d)' <= shadowFaults'
    <3>1. CASE d = entry.direction
      <4>1. Owed(d)' = IF mapped = Said(log', d, Len(log')) THEN 0 ELSE 1
        BY <3>1 DEF Owed, Known
      <4> QED
        BY <2>1, <3>1, <4>1, LogRowFacts
    <3>2. CASE d # entry.direction
      <4>1. Repeats(d)' = Repeats(d) /\ Said(log', d, Len(log')) = Said(log, d, Len(log))
        BY <2>1, <3>2, LogRowFacts
      <4>2. Known(d)' = Known(d)
        BY <3>2 DEF Known
      <4>3. Owed(d)' = Owed(d)
        BY <4>1, <4>2 DEF Owed
      <4> QED
        BY <4>1, <4>3
    <3> QED
      BY <3>1, <3>2
  <2>9. shadowFaults' = 0 =>
          \A i \in DOMAIN log' : log'[i].prev = Said(log', log'[i].direction, i - 1)
    BY <2>1, LogRowFacts
  <2> QED
    BY <2>4, <2>5, <2>6, <2>7, <2>8, <2>9
<1>5. CASE WriteCache
  <2> USE <1>5 DEF WriteCache
  <2>1. shadowCache' = [shadowCache EXCEPT ![entry.direction] = mapped] /\ mapped \in States
    BY <1>a DEF CacheAfter
  <2>2. \A d \in Directions : Known(d)' = Known(d)
    BY <1>b, <2>1 DEF Known
  <2>3. KnownIsLogged'
    BY <1>b, <2>1 DEF KnownIsLogged, HasRow
  <2>4. MappedFromEntry'
    BY DEF MappedFromEntry
  <2>5. ShadowTypeOK'
    BY <1>b, <2>1 DEF ShadowTypeOK
  <2> QED
    BY <2>2, <2>3, <2>4, <2>5, LogStays
<1>6. CASE WriteVerdict
  <2> USE <1>6 DEF WriteVerdict
  <2>1. PICK signal \in BOOLEAN : mapped = MapSymbol(entry, signal)
    BY <1>0 DEF MappedFromEntry
  <2>2. Label(entry, mapped) \in Verdicts \ Sided(entry.direction, Short, Long)
    BY <1>1, <2>1, MapsToAState
  <2>3. HasRow(entry.direction, mapped)
    BY <1>0 DEF KnownIsLogged
  <2>4. verdictLite' = [label |-> Label(entry, mapped), state |-> mapped,
                        direction |-> entry.direction]
    OBVIOUS
  <2>5. VerdictIsLogged'
    BY <2>2, <2>3, <2>4 DEF VerdictIsLogged, HasRow
  <2>6. verdictLite' \in VerdictLites
    BY <1>1, <1>a, <2>2, <2>4 DEF VerdictLites
  <2>7. \A d \in Directions : Known(d)' = Known(d) /\ Said(log', d, Len(log')) = Said(log, d, Len(log))
    BY DEF Known
  <2>8. \A d \in Directions : Owed(d)' = Owed(d) /\ Repeats(d)' = Repeats(d)
    BY <2>7 DEF Owed, Repeats
  <2>9. KnownIsLogged' /\ MappedFromEntry'
    BY DEF KnownIsLogged, MappedFromEntry, HasRow
  <2>10. ShadowTypeOK'
    BY <2>6 DEF ShadowTypeOK
  <2> QED
    BY <2>5, <2>8, <2>9, <2>10
<1>7. CASE SweepRaises
  <2> USE <1>7 DEF SweepRaises
  <2>1. shadowFaults' = shadowFaults + 1 /\ shadowFaults \in Nat
    OBVIOUS
  <2>2. MappedFromEntry'
    BY DEF MappedFromEntry
  <2>3. CASE UNCHANGED <<log, shadowCache>>
    <3>1. KnownIsLogged'
      BY <2>3 DEF KnownIsLogged, HasRow
    <3>2. ShadowTypeOK'
      BY <2>3 DEF ShadowTypeOK
    <3> QED
      BY <2>1, <2>2, <2>3, <3>1, <3>2, LogStays
  <2>4. CASE shadowStep = "mapped" /\ LogRow /\ UNCHANGED shadowCache
    <3>1. UNCHANGED <<entry, mapped>> /\ LogRow /\ shadowStep = "mapped"
      BY <2>4
    <3>2. \A d \in Directions, s \in States : HasRow(d, s) => HasRow(d, s)'
      BY <3>1, LogRowFacts
    <3>3. KnownIsLogged'
      <4>1. \A d \in Directions : shadowCache[d] # NoShadow => HasRow(d, shadowCache[d])'
        BY <1>0, <1>b, <2>4, <3>2 DEF KnownIsLogged
      <4> QED
        BY <2>4, <4>1 DEF KnownIsLogged, HasRow
    <3>4. VerdictIsLogged'
      <4>1. verdictLite.state \in States /\ verdictLite.direction \in Directions \cup {NoShadow}
        BY DEF ShadowTypeOK, VerdictLites
      <4> QED
        BY <3>2, <4>1 DEF VerdictIsLogged, HasRow
    <3>5. ShadowTypeOK'
      BY <2>4, <3>1, LogRowFacts DEF ShadowTypeOK
    <3>6. ASSUME NEW d \in Directions
          PROVE  IsFiniteSet(Repeats(d)') /\ Cardinality(Repeats(d)') + Owed(d)' <= shadowFaults'
      <4> DEFINE o2 == Owed(d)'
                 f == shadowFaults
                 f2 == shadowFaults'
                 R2 == Cardinality(Repeats(d)')
      <4>1. IsFiniteSet(Repeats(d)') /\ R2 <= f
        <5>1. CASE d = entry.direction
          <6>1. /\ IsFiniteSet(Repeats(d)')
                /\ R2 + (IF mapped = Said(log', d, Len(log')) THEN 0 ELSE 1) <= f
            BY <3>1, <5>1, LogRowFacts
          <6>2. R2 \in Nat
            BY <6>1, FS_CardinalityType
          <6> QED
            BY <2>1, <6>1, <6>2
        <5>2. CASE d # entry.direction
          <6>1. Repeats(d)' = Repeats(d)
            BY <3>1, <5>2, LogRowFacts
          <6>2. /\ IsFiniteSet(Repeats(d)) /\ Cardinality(Repeats(d)) + Owed(d) <= f
                /\ Owed(d) \in {0, 1}
            BY DEF Owed
          <6>3. Cardinality(Repeats(d)) \in Nat
            BY <6>2, FS_CardinalityType
          <6> QED
            BY <2>1, <6>1, <6>2, <6>3
        <5> QED
          BY <5>1, <5>2
      <4>2. o2 \in {0, 1}
        BY DEF Owed
      <4>3. R2 \in Nat
        BY <4>1, FS_CardinalityType
      <4>4. f2 = f + 1 /\ f \in Nat
        BY <2>1
      <4> HIDE DEF o2, f, f2, R2
      <4>5. R2 + o2 <= f2
        BY <4>1, <4>2, <4>3, <4>4
      <4> QED
        BY <4>1, <4>5 DEF o2, f2, R2
    <3>7. shadowFaults' \in Nat /\ shadowFaults' # 0
      BY <2>1
    <3> QED
      BY <2>2, <3>3, <3>4, <3>5, <3>6, <3>7
  <2>5. CASE shadowStep = "logged" /\ shadowCache' = CacheAfter /\ UNCHANGED log
    <3>1. shadowCache' = [shadowCache EXCEPT ![entry.direction] = mapped] /\ mapped \in States
      BY <1>a, <2>5 DEF CacheAfter
    <3>2. KnownIsLogged'
      BY <1>b, <2>5, <3>1 DEF KnownIsLogged, HasRow
    <3>3. ShadowTypeOK'
      BY <1>b, <2>5, <3>1 DEF ShadowTypeOK
    <3> QED
      BY <2>1, <2>2, <2>5, <3>2, <3>3, LogStays
  <2> QED
    BY <2>3, <2>4, <2>5
<1>8. CASE \E d \in Directions : CacheExpires(d)
  <2>1. PICK d \in Directions : CacheExpires(d)
    BY <1>8
  <2> USE <2>1 DEF CacheExpires
  <2>2. KnownIsLogged'
    BY <1>b DEF KnownIsLogged, HasRow
  <2>3. ShadowTypeOK'
    BY <1>b DEF ShadowTypeOK, States
  <2>4. MappedFromEntry'
    BY DEF MappedFromEntry
  <2> QED
    BY <2>2, <2>3, <2>4, LogStays
<1>9. CASE UNCHANGED shadowVars
  <2> USE <1>9 DEF shadowVars
  <2>1. ShadowTypeOK' /\ KnownIsLogged' /\ MappedFromEntry' /\ VerdictIsLogged'
    BY DEF ShadowTypeOK, KnownIsLogged, MappedFromEntry, VerdictIsLogged, HasRow
  <2>2. \A d \in Directions : Owed(d)' = Owed(d) /\ Repeats(d)' = Repeats(d)
    BY DEF Owed, Repeats, Known
  <2> QED
    BY <2>1, <2>2
<1> QED
  BY <1>2, <1>3, <1>4, <1>5, <1>6, <1>7, <1>8, <1>9 DEF ShadowNext

\* The inductive invariant of the shadow states (ebie_state_queue.py): every
\* state known of a direction was logged for it, and for each direction the
\* repeated rows and the one still owed are paid for by faults.
THEOREM ShadowInvariant == ShadowSpec => []ShadowIInv
<1>1. ShadowInit => ShadowIInv
  BY InitShadow
<1>2. ShadowIInv /\ [ShadowNext]_shadowVars => ShadowIInv'
  BY ShadowStep
<1> QED
  BY <1>1, <1>2, PTL DEF ShadowSpec

\* Per direction the rows form a chain that the cache continues, a row repeats
\* the one before it only where a fault has cost the cache its state, once for
\* each, and the verdict shown was logged and is on its side.
THEOREM ShadowsAreSafe == ShadowSpec => []ShadowSafe
<1>1. ShadowIInv => ShadowSafe
  <2> SUFFICES ASSUME ShadowIInv
               PROVE  LogIsAChain /\ RepeatsPerFault
    BY DEF ShadowIInv, ShadowSafe
  <2>1. ASSUME NEW d \in Directions
        PROVE  /\ Cardinality(Repeats(d)) <= shadowFaults
               /\ shadowFaults = 0 => Known(d) = Said(log, d, Len(log))
    <3>1. /\ IsFiniteSet(Repeats(d)) /\ Cardinality(Repeats(d)) + Owed(d) <= shadowFaults
          /\ shadowFaults \in Nat
      BY DEF ShadowIInv
    <3>2. Cardinality(Repeats(d)) \in Nat
      BY <3>1, FS_CardinalityType
    <3>3. Owed(d) = IF Known(d) = Said(log, d, Len(log)) THEN 0 ELSE 1
      BY DEF Owed
    <3> QED
      BY <3>1, <3>2, <3>3
  <2>2. shadowStep = "asleep" => \A d \in Directions : Known(d) = shadowCache[d]
    BY DEF Known
  <2> QED
    BY <2>1, <2>2 DEF LogIsAChain, RepeatsPerFault, ShadowIInv
<1> QED
  BY <1>1, ShadowInvariant, PTL

-----------------------------------------------------------------------------
(* The bars. *)

BarRecords ==
  [start : Nat, ticks : SUBSET Nat, volume : Nat, of : Flushers, life : Nat,
   by : {"tick", "closer", "late"}]
BarLists == {l \in Seq(BarRecords) : Len(l) <= 1}
SymbolStates ==
  [start : Nat, count : Nat, ticks : SUBSET Nat, volume : Nat, previous : Nat]
AppliedTicks == [tick : Nat, of : Flushers, at : Nat]
FlushJobs ==
  [step : {"idle", "lookup", "load", "seed", "write", "dead"}, tick : Nat,
   of : Flushers \cup {NoState}, bars : BarLists]
CloserJobs ==
  [step : {"asleep", "close", "held", "write", "dead"}, of : Flushers \cup {NoState},
   now : Nat, bars : BarLists]

BarsTyped ==
  /\ clock \in Times
  /\ ticks \in Seq(Times) /\ Len(ticks) <= MaxTicks
  /\ batch \in Seq(Nat) /\ Len(batch) < BatchMax
  /\ states \in Flushers \cup {NoState}
  /\ state \in [Flushers -> SymbolStates]
  /\ job \in [Flushers -> FlushJobs]
  /\ closer \in CloserJobs
  /\ closer.step = "held" => closer.of \in Flushers
  /\ emitted \in Seq(BarRecords)
  /\ applied \in Seq(AppliedTicks)
  /\ life \in Nat
  /\ barFaults \in 0..MaxBarFaults

ToCompute == {"lookup", "load", "seed"}

\* A task has what its step needs, and holds a bar only to write it.
TasksHold ==
  /\ \A t \in Flushers :
       /\ job[t].step \in {"idle"} \cup ToCompute => job[t].bars = <<>>
       /\ job[t].step \in ToCompute => job[t].tick \in DOMAIN ticks
       /\ job[t].step = "load" => job[t].of = t
       /\ job[t].step \in {"load", "seed", "write"} => job[t].of \in Flushers
  /\ closer.step \in {"asleep", "close"} => closer.bars = <<>>
  /\ closer.step = "close" => closer.of \in Flushers /\ closer.now <= clock
  /\ closer.step = "held" /\ closer.bars = <<>> => state[closer.of].start # 0

\* The bars somebody is about to write.
HeldAt(step, bars) == IF step = "write" THEN Range(bars) ELSE {}
CloserHeld == IF closer.step \in {"held", "write"} THEN Range(CloserBars) ELSE {}
Held(h) == IF h = "closer" THEN CloserHeld ELSE HeldAt(job[h].step, job[h].bars)
Holders == Flushers \cup {"closer"}

EveryBar == Range(emitted) \cup PendingBars

Waiting == Range(batch) \cup {job[t].tick : t \in {u \in Flushers : job[u].step \in ToCompute}}

\* A tick that waits to be computed is in no bar yet, and waits once.
WaitingTicksAreNew ==
  \A i \in Waiting :
    /\ \A x \in Flushers : i \notin state[x].ticks
    /\ \A b \in EveryBar : i \notin b.ticks

EachWaitsOnce ==
  /\ \A i \in Waiting : i \in DOMAIN ticks
  /\ {job["main"].step, job["flusher"].step} \subseteq ToCompute =>
       job["main"].tick # job["flusher"].tick
  /\ \A t \in Flushers : job[t].step \in ToCompute => job[t].tick \notin Range(batch)

InPeriod(bar, q) == \A i \in bar.ticks : i \in DOMAIN q /\ StartOf(q[i]) = bar.start

BarsAreWhole ==
  /\ \A b \in EveryBar : InPeriod(b, ticks) /\ b.life <= life
  /\ \A b \in PendingBars : b.life = life
  /\ \A b \in WrittenBars : applied # <<>>

StatesAreWhole ==
  \A x \in Flushers :
    LET s == state[x]
    IN  /\ InPeriod(s, ticks)
        /\ s.start = 0 => s = NewSymbolState
        /\ s.start # 0 => s.previous \in Times /\ s.start = StartOf(s.previous)
        /\ s.start # 0 <=> \E k \in DOMAIN applied : applied[k].of = x
        /\ s.start # 0 /\ s.count = 0 => s.start + BarLength + Grace <= clock

\* The last tick computed set the reference of its state; each one is in the
\* open bar or in a written one.
Covered(t, s, written, q) ==
  \/ t \in s.ticks /\ s.count > 0
  \/ \E b \in written : t \in b.ticks /\ b.start = StartOf(q[t])

AppliedTicksAreKept ==
  /\ \A k \in DOMAIN applied :
       /\ applied[k].tick \in DOMAIN ticks
       /\ Covered(applied[k].tick, state[applied[k].of], WrittenBars, ticks)
  /\ applied # <<>> =>
       LET last == applied[Len(applied)]
       IN  state[last.of].previous = ticks[last.tick]

Punctual == InExchangeOrder /\ BeforeGrace /\ ~Split

\* The life in which periods are told apart: this one, as long as it is punctual.
Era == IF Punctual THEN life ELSE -1

\* Two bars that are the same one, neither or both read late, or of one period
\* that was left for good.
Late(b) == b.by = "late"

Clash(b, c, era) ==
  \/ b.ticks = c.ticks /\ (Late(b) <=> Late(c))
  \/ b.life = era /\ c.life = era /\ b.start = c.start

OpenBar(x) == Bar(state[x], x, "tick")
Open == {x \in Flushers : state[x].count > 0}

NoTwoClash ==
  /\ \A i, j \in DOMAIN emitted : i # j => ~Clash(emitted[i], emitted[j], Era)
  /\ \A i \in DOMAIN emitted, h \in Holders : \A b \in Held(h) : ~Clash(emitted[i], b, Era)
  /\ \A h, k \in Holders : \A b \in Held(h), c \in Held(k) : h # k => ~Clash(b, c, Era)
  /\ \A x \in Open :
       /\ \A b \in EveryBar : ~Clash(b, OpenBar(x), Era)
       /\ \A y \in Open : x # y => ~Clash(OpenBar(x), OpenBar(y), Era)

\* A bar of this life is read late only when a tick has come late.
LateBarsHaveLateTicks ==
  BeforeGrace => \A b \in EveryBar : b.life = life => ~Late(b)

\* In order and in time, no written bar is later than the state.
NoneIsAhead ==
  Punctual =>
    \A x \in Flushers, b \in WrittenBars : state[x].start # 0 => b.start <= state[x].start

\* The inductive invariant of the bars.
BarsIInv ==
  /\ BarsTyped
  /\ TasksHold
  /\ WaitingTicksAreNew
  /\ EachWaitsOnce
  /\ BarsAreWhole
  /\ StatesAreWhole
  /\ AppliedTicksAreKept
  /\ NoTwoClash
  /\ LateBarsHaveLateTicks
  /\ NoneIsAhead
  /\ VolumeAddsUp

\* A sequence of one or no element, appended.
LEMMA OneLong ==
  ASSUME NEW R, NEW l \in Seq(R), NEW q \in Seq(R)
  PROVE  /\ Len(l) = 0 => l = <<>> /\ q \o l = q
         /\ Len(l) = 1 => l[1] \in R /\ l = <<l[1]>> /\ q \o l = Append(q, l[1])
<1>0. Len(l) \in Nat /\ DOMAIN l = 1..Len(l)
  OBVIOUS
<1>1. ASSUME Len(l) = 0 PROVE l = <<>> /\ q \o l = q
  <2>1. l = <<>>
    BY <1>1, EmptySeq
  <2> QED
    BY <2>1
<1>2. ASSUME Len(l) = 1 PROVE l[1] \in R /\ l = <<l[1]>> /\ q \o l = Append(q, l[1])
  <2>1. l[1] \in R
    BY <1>0, <1>2
  <2>2. l = <<l[1]>>
    <3>1. <<l[1]>> \in Seq(R) /\ Len(<<l[1]>>) = 1 /\ <<l[1]>>[1] = l[1]
      BY <2>1
    <3> QED
      BY <1>2, <3>1, SeqEqual
  <2>3. q \o <<l[1]>> = Append(q, l[1])
    BY <2>1, AppendIsConcat
  <2> QED
    BY <2>1, <2>2, <2>3
<1> QED
  BY <1>1, <1>2

\* At most one bar is appended at a time.
LEMMA OneBarMore ==
  ASSUME NEW q \in Seq(BarRecords), NEW l \in BarLists
  PROVE  \/ l = <<>> /\ Range(l) = {} /\ q \o l = q
         \/ \E b \in BarRecords :
              /\ l = <<b>> /\ Range(l) = {b} /\ q \o l = Append(q, b)
              /\ Range(Append(q, b)) = Range(q) \cup {b}
<1>1. l \in Seq(BarRecords) /\ Len(l) \in {0, 1}
  <2>1. l \in Seq(BarRecords) /\ Len(l) <= 1
    BY DEF BarLists
  <2>2. Len(l) \in Nat
    BY <2>1, LenProperties
  <2>3. \A n \in Nat : n <= 1 => n \in {0, 1}
    OBVIOUS
  <2> QED
    BY <2>1, <2>2, <2>3
<1>2. CASE Len(l) = 0
  <2>1. l = <<>> /\ q \o l = q
    BY <1>1, <1>2, OneLong
  <2>2. Range(l) = {}
    BY <2>1 DEF Range
  <2> QED
    BY <2>1, <2>2
<1>3. CASE Len(l) = 1
  <2>1. l[1] \in BarRecords /\ l = <<l[1]>> /\ q \o l = Append(q, l[1])
    BY <1>1, <1>3, OneLong
  <2>2. Range(l) = {l[1]}
    <3>1. DOMAIN l = {1}
      BY <1>1, <1>3
    <3> QED
      BY <3>1 DEF Range
  <2>4. Range(Append(q, l[1])) = Range(q) \cup {l[1]}
    <3> DEFINE b == l[1]
               more == Append(q, b)
    <3>1. /\ DOMAIN more = 1..(Len(q) + 1) /\ more[Len(q) + 1] = b
          /\ \A i \in DOMAIN q : more[i] = q[i] /\ i \in DOMAIN more
          /\ DOMAIN q = 1..Len(q) /\ Len(q) \in Nat
      BY <2>1
    <3>2. \A i \in DOMAIN more : i \in DOMAIN q \/ i = Len(q) + 1
      BY <3>1
    <3> HIDE DEF more, b
    <3>3. Range(more) = Range(q) \cup {b}
      BY <3>1, <3>2 DEF Range
    <3> QED
      BY <3>3 DEF more, b
  <2> QED
    BY <2>1, <2>2, <2>4
<1> QED
  BY <1>1, <1>2, <1>3

\* The volumes of some bars, as a sum.
Volumes == [b \in BarRecords |-> b.volume]

LEMMA VolumeIsSum ==
  ASSUME NEW S \in SUBSET BarRecords, IsFiniteSet(S)
  PROVE  /\ MapThenSumSet(LAMBDA b : b.volume, S) = SumOf(Volumes, S)
         /\ SumOf(Volumes, S) \in Int
<1> DEFINE Body(it) == [u \in SUBSET S |-> IF u = {} THEN 0
                          ELSE (CHOOSE m \in u : TRUE).volume + it[u \ {CHOOSE m \in u : TRUE}]]
           iter == CHOOSE it : it = Body(it)
<1>1. MapThenSumSet(LAMBDA b : b.volume, S) = iter[S]
  BY DEF MapThenSumSet, MapThenFoldSet
<1>2. Volumes \in [BarRecords -> Int] /\ S \in SUBSET S
  BY DEF Volumes, BarRecords
<1>3. \A it : IsSum(it, Volumes, S) <=> it = Body(it)
  <2> SUFFICES ASSUME NEW it
               PROVE  Body(it) = [u \in SUBSET S |->
                                    IF u = {} THEN 0 ELSE Volumes[Pick(u)] + it[u \ {Pick(u)}]]
    BY DEF IsSum
  <2>1. \A u \in SUBSET S : u # {} => (CHOOSE m \in u : TRUE) \in BarRecords
    OBVIOUS
  <2> QED
    BY <2>1 DEF Pick, Volumes
<1> HIDE DEF Body
<1>4. \E it : it = Body(it)
  BY <1>2, <1>3, SumExists
<1>5. IsSum(iter, Volumes, S)
  BY <1>3, <1>4
<1> HIDE DEF iter
<1>6. iter[S] = SumOf(Volumes, S) /\ SumOf(Volumes, S) \in Int
  BY <1>2, <1>5, SumOfSubset
<1> QED
  BY <1>1, <1>6

\* One bar more adds its volume.
LEMMA VolumeOfMore ==
  ASSUME NEW S \in SUBSET BarRecords, IsFiniteSet(S), NEW b \in BarRecords, b \notin S
  PROVE  SumOf(Volumes, S \cup {b}) = SumOf(Volumes, S) + b.volume
<1> DEFINE T == S \cup {b}
<1>1. T \in SUBSET BarRecords /\ IsFiniteSet(T) /\ T \ {b} = S /\ b \in T
  BY FS_AddElement
<1>2. Volumes \in [BarRecords -> Int] /\ Volumes[b] = b.volume /\ b.volume \in Int
  BY DEF Volumes, BarRecords
<1> HIDE DEF T
<1>3. SumOf(Volumes, T) = Volumes[b] + SumOf(Volumes, S) /\ SumOf(Volumes, S) \in Int
  BY <1>1, <1>2, SumFacts
<1>4. SumOf(Volumes, T) = SumOf(Volumes, S) + b.volume
  BY <1>2, <1>3
<1> QED
  BY <1>4 DEF T

LEMMA FiniteWritten ==
  ASSUME NEW e \in Seq(BarRecords), NEW now,
         NEW l1 \in BarLists, NEW l2 \in BarLists, NEW l3 \in BarLists
  PROVE  LET S == {e[i] : i \in {j \in DOMAIN e : e[j].life = now}}
                    \cup (Range(l1) \cup Range(l2) \cup Range(l3))
         IN  S \in SUBSET BarRecords /\ IsFiniteSet(S)
<1> DEFINE I == {j \in DOMAIN e : e[j].life = now}
           E == {e[i] : i \in I}
<1>1. IsFiniteSet(I)
  <2>1. IsFiniteSet(1..Len(e)) /\ I \subseteq 1..Len(e)
    <3>1. Len(e) \in Nat /\ DOMAIN e = 1..Len(e)
      BY LenProperties
    <3>2. IsFiniteSet(1..Len(e))
      BY <3>1, FS_Interval
    <3> QED
      BY <3>1, <3>2
  <2> HIDE DEF I
  <2> QED
    BY <2>1, FS_Subset
<1>2. IsFiniteSet(E)
  <2> HIDE DEF I
  <2> QED
    BY <1>1, FiniteImage
<1>3. E \subseteq BarRecords
  OBVIOUS
<1>4. \A l \in BarLists : Range(l) \subseteq BarRecords /\ IsFiniteSet(Range(l))
  <2> TAKE l \in BarLists
  <2>1. Range(l) = {} \/ \E b \in BarRecords : Range(l) = {b}
    BY OneBarMore
  <2>2. \A b : IsFiniteSet({b})
    BY FS_Singleton
  <2> QED
    BY <2>1, <2>2, FS_EmptySet
<1> HIDE DEF E
<1>5. IsFiniteSet(E \cup (Range(l1) \cup Range(l2) \cup Range(l3)))
  BY <1>2, <1>4, FS_Union
<1> QED
  BY <1>3, <1>4, <1>5 DEF E

\* What the closer has in hand is one bar at most.
LEMMA CloserHasOne == BarsTyped => CloserBars \in BarLists
<1> SUFFICES ASSUME BarsTyped
             PROVE  CloserBars \in BarLists
  OBVIOUS
<1> DEFINE x == closer.of
           b == Handed(state[x], x)
<1>1. closer.bars \in BarLists /\ (closer.step = "held" => x \in Flushers)
  BY DEF BarsTyped, CloserJobs
<1>2. ASSUME x \in Flushers
      PROVE  <<b>> \in BarLists
  <2>1. state[x] \in SymbolStates /\ life \in Nat
    BY <1>2 DEF BarsTyped
  <2>2. b \in BarRecords
    BY <1>2, <2>1 DEF Handed, Bar, BarRecords, SymbolStates
  <2> HIDE DEF b
  <2> QED
    BY <2>2 DEF BarLists
<1> QED
  BY <1>1, <1>2 DEF CloserBars

LEMMA CloserHasOneNext == BarsTyped' => CloserBars' \in BarLists
<1>1. (BarsTyped => CloserBars \in BarLists)'
  BY CloserHasOne, PTL
<1> QED
  BY <1>1 DEF BarLists, BarRecords

\* The volume traded, as a sum, before and after a step.
LEMMA TradedIsSum ==
  ASSUME BarsTyped, BarsTyped'
  PROVE  /\ WrittenBars \in SUBSET BarRecords /\ IsFiniteSet(WrittenBars)
         /\ Traded = SumOf(Volumes, WrittenBars) /\ Traded \in Int
         /\ WrittenBars' \in SUBSET BarRecords /\ IsFiniteSet(WrittenBars')
         /\ Traded' = SumOf(Volumes, WrittenBars') /\ Traded' \in Int
<1>1. /\ emitted \in Seq(BarRecords) /\ job["main"].bars \in BarLists
      /\ job["flusher"].bars \in BarLists /\ CloserBars \in BarLists
  BY CloserHasOne DEF BarsTyped, FlushJobs, Flushers
<1>2. /\ emitted' \in Seq(BarRecords) /\ job'["main"].bars \in BarLists
      /\ job'["flusher"].bars \in BarLists /\ CloserBars' \in BarLists
  BY CloserHasOneNext DEF BarsTyped, FlushJobs, Flushers
<1>3. WrittenBars \in SUBSET BarRecords /\ IsFiniteSet(WrittenBars)
  BY <1>1, FiniteWritten DEF WrittenBars, PendingBars
<1>4. WrittenBars' \in SUBSET BarRecords /\ IsFiniteSet(WrittenBars')
  BY <1>2, FiniteWritten DEF WrittenBars, PendingBars
<1>5. Traded = SumOf(Volumes, WrittenBars) /\ SumOf(Volumes, WrittenBars) \in Int
  BY <1>3, VolumeIsSum DEF Traded
<1>6. Traded' = SumOf(Volumes, WrittenBars') /\ SumOf(Volumes, WrittenBars') \in Int
  <2> DEFINE S == WrittenBars'
  <2>1. Traded' = MapThenSumSet(LAMBDA b : b.volume, S)
    BY DEF Traded, MapThenSumSet, MapThenFoldSet
  <2>2. S \in SUBSET BarRecords /\ IsFiniteSet(S)
    BY <1>4
  <2> HIDE DEF S
  <2>3. MapThenSumSet(LAMBDA b : b.volume, S) = SumOf(Volumes, S) /\ SumOf(Volumes, S) \in Int
    BY <2>2, VolumeIsSum
  <2>4. Traded' = SumOf(Volumes, S)
    BY <2>1, <2>3
  <2> QED
    BY <2>3, <2>4 DEF S
<1> QED
  BY <1>3, <1>4, <1>5, <1>6

-----------------------------------------------------------------------------
(* Steps that compute no tick and close no bar. *)

\* The parts of the invariant about bars, states and computed ticks.
BarsCore ==
  /\ BarsAreWhole
  /\ StatesAreWhole
  /\ AppliedTicksAreKept
  /\ NoTwoClash
  /\ LateBarsHaveLateTicks
  /\ NoneIsAhead
  /\ VolumeAddsUp

TicksStay ==
  /\ DOMAIN ticks \subseteq DOMAIN ticks'
  /\ \A i \in DOMAIN ticks : ticks'[i] = ticks[i]

LEMMA PunctualStays ==
  ASSUME AppliedTicksAreKept, TicksStay, applied' = applied, life' = life
  PROVE  (Punctual' <=> Punctual) /\ Era' = Era /\ (BeforeGrace' <=> BeforeGrace)
<1>1. \A k \in DOMAIN applied : ticks'[applied[k].tick] = ticks[applied[k].tick]
  BY DEF AppliedTicksAreKept, TicksStay
<1>2. InExchangeOrder' <=> InExchangeOrder
  BY <1>1 DEF InExchangeOrder
<1>3. BeforeGrace' <=> BeforeGrace
  BY <1>1 DEF BeforeGrace
<1>4. Split' <=> Split
  BY DEF Split
<1>5. Punctual' <=> Punctual
  BY <1>2, <1>3, <1>4 DEF Punctual
<1> QED
  BY <1>3, <1>5 DEF Era

\* Where the states and what has been computed stay, and a bar at most goes
\* from the task that holds it to the bars that are written, all of it is kept.
LEMMA BarsCarried ==
  ASSUME BarsTyped, BarsCore, UNCHANGED <<state, applied, life>>, TicksStay,
         BarsTyped', clock <= clock',
         WrittenBars' = WrittenBars, EveryBar' \subseteq EveryBar,
         PendingBars' \subseteq PendingBars,
         NEW H \in Holders,
         \A h \in Holders : h # H => Held(h)' = Held(h),
         \/ emitted' = emitted /\ Held(H)' \subseteq Held(H)
         \/ \E b \in Held(H) : emitted' = Append(emitted, b) /\ Held(H)' = {}
  PROVE  BarsCore'
<1> USE DEF BarsCore
<1>1. (Punctual' <=> Punctual) /\ Era' = Era /\ (BeforeGrace' <=> BeforeGrace)
  BY PunctualStays
<1>2. BarsAreWhole'
  <2>1. \A b \in EveryBar' : InPeriod(b, ticks') /\ b.life <= life'
    BY DEF BarsAreWhole, InPeriod, TicksStay
  <2> QED
    BY <2>1 DEF BarsAreWhole
<1>3. StatesAreWhole'
  <2> SUFFICES ASSUME NEW x \in Flushers
               PROVE  /\ InPeriod(state[x], ticks')
                      /\ state[x].start # 0 /\ state[x].count = 0 =>
                           state[x].start + BarLength + Grace <= clock'
    BY DEF StatesAreWhole
  <2>1. InPeriod(state[x], ticks')
    BY DEF StatesAreWhole, InPeriod, TicksStay
  <2>2. ASSUME state[x].start # 0, state[x].count = 0
        PROVE  state[x].start + BarLength + Grace <= clock'
    <3> DEFINE a == state[x].start + BarLength + Grace
    <3>1. a <= clock
      BY <2>2 DEF StatesAreWhole
    <3>2. clock \in Int /\ clock' \in Int
      BY DEF BarsTyped, Times
    <3>3. a \in Int
      <4>1. state[x] \in SymbolStates
        BY DEF BarsTyped
      <4>2. state[x].start \in Nat
        BY <4>1 DEF SymbolStates
      <4> QED
        BY <4>2, FeatureBarsAssumption
    <3> HIDE DEF a
    <3>4. a <= clock'
      BY <3>1, <3>2, <3>3
    <3> QED
      BY <3>4 DEF a
  <2> QED
    BY <2>1, <2>2
<1>4. AppliedTicksAreKept'
  <2>1. ASSUME NEW k \in DOMAIN applied
        PROVE  /\ applied[k].tick \in DOMAIN ticks'
               /\ Covered(applied[k].tick, state[applied[k].of], WrittenBars, ticks')
    <3>1. /\ applied[k].tick \in DOMAIN ticks /\ applied[k].tick \in DOMAIN ticks'
          /\ ticks'[applied[k].tick] = ticks[applied[k].tick]
          /\ Covered(applied[k].tick, state[applied[k].of], WrittenBars, ticks)
      BY DEF AppliedTicksAreKept, TicksStay
    <3> QED
      BY <3>1 DEF Covered
  <2>2. applied # <<>> => Len(applied) \in DOMAIN applied
    BY DEF BarsTyped
  <2> QED
    BY <2>1, <2>2 DEF AppliedTicksAreKept, TicksStay
<1>5. NoTwoClash'
  <2>1. \A x \in Flushers : OpenBar(x)' = OpenBar(x)
    BY DEF OpenBar, Bar
  <2>2. Open' = Open
    BY DEF Open
  <2>3. \A h \in Holders : Held(h)' \subseteq Held(h)
    OBVIOUS
  <2>6. ASSUME \A i, j \in DOMAIN emitted' : i # j => ~Clash(emitted'[i], emitted'[j], Era'),
               \A i \in DOMAIN emitted', h \in Holders : \A c \in Held(h)' :
                 ~Clash(emitted'[i], c, Era')
        PROVE  NoTwoClash'
    <3>1. \A h, k \in Holders : \A b \in Held(h)', c \in Held(k)' : h # k => ~Clash(b, c, Era')
      BY <1>1, <2>3 DEF NoTwoClash
    <3>2. \A x \in Open : \A b \in EveryBar' : ~Clash(b, OpenBar(x), Era')
      BY <1>1 DEF NoTwoClash
    <3>3. \A x, y \in Open : x # y => ~Clash(OpenBar(x), OpenBar(y), Era')
      BY <1>1 DEF NoTwoClash
    <3>4. \A x \in Open' : x \in Flushers
      BY DEF Open
    <3>5. \A x \in Open' :
            /\ \A b \in EveryBar' : ~Clash(b, OpenBar(x)', Era')
            /\ \A y \in Open' : x # y => ~Clash(OpenBar(x)', OpenBar(y)', Era')
      BY <2>1, <2>2, <2>6, <3>2, <3>3, <3>4
    <3> QED
      BY <2>6, <3>1, <3>5 DEF NoTwoClash
  <2>4. CASE emitted' = emitted
    <3>1. /\ \A i, j \in DOMAIN emitted' : i # j => ~Clash(emitted'[i], emitted'[j], Era')
          /\ \A i \in DOMAIN emitted', h \in Holders : \A c \in Held(h)' :
               ~Clash(emitted'[i], c, Era')
      BY <1>1, <2>3, <2>4 DEF NoTwoClash
    <3> QED
      BY <2>6, <3>1
  <2>5. ASSUME NEW b \in Held(H), emitted' = Append(emitted, b), Held(H)' = {}
        PROVE  NoTwoClash'
    <3> DEFINE D == DOMAIN emitted
               top == Len(emitted) + 1
    <3>1. emitted \in Seq(BarRecords)
      BY DEF BarsTyped
    <3>2. /\ DOMAIN emitted' = D \cup {top} /\ top \notin D
          /\ \A i \in D : emitted'[i] = emitted[i]
          /\ emitted'[top] = b
      BY <2>5, <3>1
    <3> HIDE DEF D, top
    <3>3. /\ \A i, j \in D : i # j => ~Clash(emitted[i], emitted[j], Era)
          /\ \A i \in D, h \in Holders : \A c \in Held(h) : ~Clash(emitted[i], c, Era)
          /\ \A h \in Holders : \A c \in Held(h) : h # H => ~Clash(b, c, Era) /\ ~Clash(c, b, Era)
      BY <2>5 DEF NoTwoClash, D
    <3>4. \A i \in D : ~Clash(b, emitted[i], Era)
      BY <2>5, <3>3 DEF Clash
    <3>5. \A i, j \in DOMAIN emitted' : i # j => ~Clash(emitted'[i], emitted'[j], Era')
      BY <1>1, <2>5, <3>2, <3>3, <3>4
    <3>6. \A i \in DOMAIN emitted', h \in Holders : \A c \in Held(h)' :
            ~Clash(emitted'[i], c, Era')
      BY <1>1, <2>3, <2>5, <3>2, <3>3
    <3> QED
      BY <2>6, <3>5, <3>6
  <2> QED
    BY <2>4, <2>5
<1>6. NoneIsAhead' /\ LateBarsHaveLateTicks'
  BY <1>1 DEF NoneIsAhead, LateBarsHaveLateTicks
<1>7. VolumeAddsUp'
  <2>1. applied # <<>> => ticks'[applied[1].tick] = ticks[applied[1].tick]
    <3>1. applied # <<>> => 1 \in DOMAIN applied
      BY DEF BarsTyped
    <3> QED
      BY <3>1 DEF AppliedTicksAreKept, TicksStay
  <2> QED
    <3>1. Traded' = Traded
      BY TradedIsSum
    <3> QED
      BY <1>1, <2>1, <3>1 DEF VolumeAddsUp, Punctual
<1> QED
  BY <1>2, <1>3, <1>4, <1>5, <1>6, <1>7

\* What a holder has in hand.
BarsOf(h) == IF h = "closer" THEN CloserBars ELSE job[h].bars

LEMMA PendingFacts ==
  /\ PendingBars = UNION {Range(BarsOf(h)) : h \in Holders}
  /\ PendingBars' = UNION {Range(BarsOf(h)') : h \in Holders}
  /\ PendingBars \subseteq WrittenBars /\ PendingBars \subseteq EveryBar
<1>1. /\ BarsOf("main") = job["main"].bars /\ BarsOf("flusher") = job["flusher"].bars
      /\ BarsOf("closer") = CloserBars
      /\ BarsOf("main")' = job'["main"].bars /\ BarsOf("flusher")' = job'["flusher"].bars
      /\ BarsOf("closer")' = CloserBars'
  BY DEF BarsOf
<1>2. Holders = {"main", "flusher", "closer"}
  BY DEF Holders, Flushers
<1>3. PendingBars = UNION {Range(BarsOf(h)) : h \in Holders}
  BY <1>1, <1>2 DEF PendingBars
<1>4. PendingBars' = UNION {Range(BarsOf(h)') : h \in Holders}
  BY <1>1, <1>2 DEF PendingBars
<1> QED
  BY <1>3, <1>4 DEF WrittenBars, EveryBar

\* Ticks that go on waiting, or have just come, are in no bar.
LEMMA WaitersStayNew ==
  ASSUME BarsIInv, state' = state, EveryBar' \subseteq EveryBar,
         \A i \in Waiting' : i \in Waiting \/ i \notin DOMAIN ticks
  PROVE  WaitingTicksAreNew'
<1>1. \A x \in Flushers : state[x].ticks \subseteq DOMAIN ticks
  BY DEF BarsIInv, StatesAreWhole, InPeriod
<1>2. \A b \in EveryBar : b.ticks \subseteq DOMAIN ticks
  BY DEF BarsIInv, BarsAreWhole, InPeriod
<1> QED
  BY <1>1, <1>2 DEF BarsIInv, WaitingTicksAreNew

\* Steps that leave the bars where they are.
LEMMA QuietStep ==
  ASSUME BarsIInv, BarsTyped', TasksHold', EachWaitsOnce',
         UNCHANGED <<state, applied, life, emitted>>, TicksStay, clock <= clock',
         \A h \in Holders : BarsOf(h)' = BarsOf(h) /\ Held(h)' = Held(h),
         \A i \in Waiting' : i \in Waiting \/ i \notin DOMAIN ticks
  PROVE  BarsIInv'
<1>1. PendingBars' = PendingBars
  BY PendingFacts
<1>2. WrittenBars' = WrittenBars /\ EveryBar' = EveryBar
  BY <1>1 DEF WrittenBars, EveryBar
<1>3. BarsCore' /\ "closer" \in Holders
  <2>1. "closer" \in Holders /\ BarsCore /\ BarsTyped
    BY DEF Holders, BarsIInv, BarsCore
  <2> QED
    BY <1>1, <1>2, <2>1, BarsCarried
<1>4. WaitingTicksAreNew'
  BY <1>2, WaitersStayNew
<1> QED
  BY <1>3, <1>4 DEF BarsIInv, BarsCore

\* Steps in which a task lets go of a bar, written or not.
LEMMA MoveStep ==
  ASSUME BarsIInv, BarsTyped', TasksHold', EachWaitsOnce', Waiting' \subseteq Waiting,
         UNCHANGED <<state, applied, life, ticks, clock>>, NEW H \in Holders,
         \A h \in Holders : h # H => BarsOf(h)' = BarsOf(h) /\ Held(h)' = Held(h),
         Held(H) = Range(BarsOf(H)), Held(H)' = {}, BarsOf(H) \in BarLists,
         \/ emitted' = emitted /\ BarsOf(H)' = BarsOf(H)
         \/ emitted' = emitted \o BarsOf(H) /\ BarsOf(H)' \in {<<>>, BarsOf(H)}
  PROVE  BarsIInv'
<1>0. BarsTyped /\ BarsCore /\ emitted \in Seq(BarRecords)
  BY DEF BarsIInv, BarsCore, BarsTyped
<1>1. Range(<<>>) = {}
  BY DEF Range
<1>2. \A h \in Holders : Range(BarsOf(h)') \subseteq Range(BarsOf(h))
  BY <1>1
<1>3. PendingBars' \subseteq PendingBars
  BY <1>2, PendingFacts
<1>4. CASE emitted' = emitted /\ BarsOf(H)' = BarsOf(H)
  <2>1. PendingBars' = PendingBars
    BY <1>4, PendingFacts
  <2>2. WrittenBars' = WrittenBars /\ EveryBar' = EveryBar
    BY <1>4, <2>1 DEF WrittenBars, EveryBar
  <2>3. BarsCore'
    <3>1. clock <= clock' /\ TicksStay
      BY <1>0 DEF TicksStay, BarsTyped, Times
    <3> QED
      BY <1>0, <1>3, <1>4, <2>2, <3>1, BarsCarried
  <2>4. WaitingTicksAreNew'
    BY <2>2, WaitersStayNew
  <2> QED
    BY <2>3, <2>4 DEF BarsIInv, BarsCore
<1>5. CASE emitted' = emitted \o BarsOf(H) /\ BarsOf(H)' \in {<<>>, BarsOf(H)}
  <2>0. \/ BarsOf(H) = <<>> /\ Range(BarsOf(H)) = {} /\ emitted \o BarsOf(H) = emitted
        \/ \E b \in BarRecords :
             /\ BarsOf(H) = <<b>> /\ Range(BarsOf(H)) = {b}
             /\ emitted \o BarsOf(H) = Append(emitted, b)
             /\ Range(Append(emitted, b)) = Range(emitted) \cup {b}
    BY <1>0, OneBarMore
  <2>1. CASE BarsOf(H) = <<>> /\ emitted \o BarsOf(H) = emitted
    BY <1>4, <1>5, <2>1
  <2>2. ASSUME NEW b \in BarRecords, BarsOf(H) = <<b>>, Range(BarsOf(H)) = {b},
               emitted \o BarsOf(H) = Append(emitted, b),
               Range(Append(emitted, b)) = Range(emitted) \cup {b}
        PROVE  BarsIInv'
    <3>1. emitted' = Append(emitted, b) /\ b \in PendingBars /\ b \in Held(H)
      BY <1>5, <2>2, PendingFacts
    <3>2. b.life = life
      BY <3>1 DEF BarsIInv, BarsAreWhole
    <3>3. PendingBars' \cup {b} = PendingBars
      <4>1. \A h \in Holders : h # H => Range(BarsOf(h)') = Range(BarsOf(h))
        OBVIOUS
      <4>2. Range(BarsOf(H)) = {b} /\ b \in PendingBars
        BY <2>2, <3>1
      <4> QED
        BY <1>3, <4>1, <4>2, PendingFacts
    <3>4. EveryBar' \subseteq EveryBar
      BY <2>2, <3>1, <3>3 DEF EveryBar
    <3>5. {emitted'[i] : i \in {j \in DOMAIN emitted' : emitted'[j].life = life}}
            = {emitted[i] : i \in {j \in DOMAIN emitted : emitted[j].life = life}} \cup {b}
      <4> DEFINE D == DOMAIN emitted
                 top == Len(emitted) + 1
      <4>1. /\ DOMAIN emitted' = D \cup {top} /\ top \notin D
            /\ \A i \in D : emitted'[i] = emitted[i]
            /\ emitted'[top] = b
        BY <1>0, <3>1
      <4> HIDE DEF D, top
      <4>2. {emitted'[i] : i \in {j \in D \cup {top} : emitted'[j].life = life}}
              = {emitted[i] : i \in {j \in D : emitted[j].life = life}} \cup {b}
        BY <3>2, <4>1
      <4> QED
        BY <4>1, <4>2 DEF D
    <3>6. WrittenBars' = WrittenBars
      BY <3>3, <3>5 DEF WrittenBars
    <3>7. BarsCore'
      <4>1. clock <= clock' /\ TicksStay
        BY <1>0 DEF TicksStay, BarsTyped, Times
      <4>2. /\ \A h \in Holders : h # H => Held(h)' = Held(h)
            /\ \E c \in Held(H) : emitted' = Append(emitted, c) /\ Held(H)' = {}
        BY <3>1
      <4> QED
        BY <1>0, <1>3, <3>4, <3>6, <4>1, <4>2, BarsCarried
    <3>8. WaitingTicksAreNew'
      BY <3>4, WaitersStayNew
    <3> QED
      BY <3>7, <3>8 DEF BarsIInv, BarsCore
  <2> QED
    BY <2>0, <2>1, <2>2
<1> QED
  BY <1>4, <1>5

\* The fields of a flushing task and of the closer.
LEMMA TaskFields ==
  ASSUME BarsTyped
  PROVE  /\ "main" \in Flushers /\ "flusher" \in Flushers
         /\ \A t \in Flushers :
              /\ job[t] \in FlushJobs
              /\ job[t] = [step |-> job[t].step, tick |-> job[t].tick,
                           of |-> job[t].of, bars |-> job[t].bars]
              /\ job[t].step \in {"idle", "lookup", "load", "seed", "write", "dead"}
              /\ job[t].tick \in Nat /\ job[t].of \in Flushers \cup {NoState}
              /\ job[t].bars \in BarLists
         /\ closer \in CloserJobs
         /\ closer = [step |-> closer.step, of |-> closer.of, now |-> closer.now,
                      bars |-> closer.bars]
         /\ closer.bars \in BarLists /\ closer.of \in Flushers \cup {NoState}
         /\ closer.now \in Nat
         /\ <<>> \in BarLists
<1>1. <<>> \in BarLists
  BY DEF BarLists
<1> QED
  BY <1>1 DEF BarsTyped, FlushJobs, CloserJobs, Flushers

\* What is held and in hand, for each kind of holder.
LEMMA HolderFacts ==
  /\ \A t \in Flushers :
       /\ t \in Holders
       /\ BarsOf(t) = job[t].bars /\ BarsOf(t)' = job'[t].bars
       /\ Held(t) = HeldAt(job[t].step, job[t].bars)
       /\ Held(t)' = HeldAt(job'[t].step, job'[t].bars)
  /\ "closer" \in Holders /\ "closer" \notin Flushers
  /\ BarsOf("closer") = CloserBars /\ BarsOf("closer")' = CloserBars'
  /\ Held("closer") = CloserHeld /\ Held("closer")' = CloserHeld'
  /\ \A h \in Holders : h = "closer" \/ h \in Flushers
BY DEF Holders, Flushers, BarsOf, Held

\* The closer, while its state and it stay as they are.
LEMMA CloserStays ==
  ASSUME UNCHANGED <<closer, state, life>>
  PROVE  CloserBars' = CloserBars /\ CloserHeld' = CloserHeld
BY DEF CloserBars, CloserHeld, Handed, Bar

\* All that is held is in hand.
LEMMA HeldIsInHand == \A h \in Holders : Held(h) \subseteq Range(BarsOf(h))
<1> TAKE h \in Holders
<1>1. CASE h = "closer"
  BY <1>1, HolderFacts DEF CloserHeld
<1>2. CASE h \in Flushers
  BY <1>2, HolderFacts DEF HeldAt
<1> QED
  BY <1>1, <1>2, HolderFacts

\* A task that takes a step without a bar in hand.
LEMMA NoBarInHand ==
  ASSUME NEW t \in Flushers, job'[t].bars = job[t].bars, UNCHANGED <<closer, state, life>>,
         \A u \in Flushers : u # t => job'[u] = job[u],
         job[t].step # "write", job'[t].step # "write"
  PROVE  \A h \in Holders : BarsOf(h)' = BarsOf(h) /\ Held(h)' = Held(h)
<1> TAKE h \in Holders
<1>1. CASE h = "closer"
  BY <1>1, HolderFacts, CloserStays
<1>2. CASE h \in Flushers
  <2>1. h # t => job'[h] = job[h]
    BY <1>2
  <2>2. h = t => Held(h)' = {} /\ Held(h) = {}
    BY <1>2, HolderFacts DEF HeldAt
  <2> QED
    BY <1>2, <2>1, <2>2, HolderFacts
<1> QED
  BY <1>1, <1>2, HolderFacts

LEMMA TicksDoStay ==
  ASSUME ticks' = ticks
  PROVE  TicksStay
BY DEF TicksStay

\* A task that goes on with its tick.
LEMMA GoesOn ==
  ASSUME NEW q \in FlushJobs, NEW step, NEW r, r = [q EXCEPT !.step = step]
  PROVE  r = [step |-> step, tick |-> q.tick, of |-> q.of, bars |-> q.bars]
<1> DEFINE keys == {"step", "tick", "of", "bars"}
<1>1. /\ r = [k \in keys |-> r[k]]
      /\ r.step = step /\ r.tick = q.tick /\ r.of = q.of /\ r.bars = q.bars
  BY DEF FlushJobs
<1>2. r = [step |-> r.step, tick |-> r.tick, of |-> r.of, bars |-> r.bars]
  BY <1>1
<1> QED
  BY <1>1, <1>2

LEMMA BeginsWith ==
  ASSUME NEW t \in Flushers, NEW i, Begin(t, i)
  PROVE  job' = [job EXCEPT ![t] =
                   [step |-> "lookup", tick |-> i, of |-> NoState, bars |-> <<>>]]
<1> DEFINE r == [Idle EXCEPT !.step = "lookup", !.tick = i]
<1>1. /\ r = [k \in {"step", "tick", "of", "bars"} |-> r[k]]
      /\ r.step = "lookup" /\ r.tick = i /\ r.of = NoState /\ r.bars = <<>>
  BY DEF Idle
<1>2. job' = [job EXCEPT ![t] = r]
  BY DEF Begin
<1> HIDE DEF r
<1>3. r = [step |-> r.step, tick |-> r.tick, of |-> r.of, bars |-> r.bars]
  BY <1>1
<1> QED
  BY <1>1, <1>2, <1>3

LEMMA IngestKeeps == BarsIInv /\ Ingest => BarsIInv'
<1> SUFFICES ASSUME BarsIInv, Ingest
             PROVE  BarsIInv'
  OBVIOUS
<1>0. BarsTyped /\ TasksHold /\ EachWaitsOnce
  BY DEF BarsIInv
<1> USE TaskFields
<1>1. PICK time \in BarLength..clock : ticks' = Append(ticks, time)
  BY DEF Ingest
<1> DEFINE i == Len(ticks) + 1
<1>2. /\ Len(ticks') = i /\ i \in Nat /\ i \notin DOMAIN ticks /\ i \in DOMAIN ticks'
      /\ DOMAIN ticks \subseteq DOMAIN ticks' /\ \A k \in DOMAIN ticks : ticks'[k] = ticks[k]
      /\ ticks' \in Seq(Times) /\ Len(ticks') <= MaxTicks
  <2>1. time \in Times /\ ticks \in Seq(Times) /\ Len(ticks) < MaxTicks
    BY <1>0, <1>1, FeatureBarsAssumption DEF BarsTyped, Times, Ingest
  <2> QED
    BY <1>1, <2>1, FeatureBarsAssumption
<1>3. TicksStay
  BY <1>2 DEF TicksStay
<1>4. UNCHANGED <<clock, states, state, closer, applied, emitted, life, barFaults>>
  BY DEF Ingest
<1>5. job["main"].step = "idle" /\ job["main"].bars = <<>>
  BY <1>0 DEF Ingest, TasksHold
<1>6. CASE Len(batch) + 1 >= BatchMax
  <2>1. batch' = <<>> /\ Begin("main", i)
    BY <1>2, <1>6 DEF Ingest
  <2>2. job' = [job EXCEPT !["main"] =
          [step |-> "lookup", tick |-> i, of |-> NoState, bars |-> <<>>]]
    BY <1>0, <2>1, BeginsWith
  <2>3. /\ job'["main"] = [step |-> "lookup", tick |-> i, of |-> NoState, bars |-> <<>>]
        /\ \A u \in Flushers : u # "main" => job'[u] = job[u]
        /\ job' \in [Flushers -> FlushJobs]
    BY <1>0, <1>2, <2>2 DEF BarsTyped, FlushJobs
  <2>4. BarsTyped'
    <3>1. batch' \in Seq(Nat) /\ Len(batch') < BatchMax
      BY <2>1, FeatureBarsAssumption
    <3> QED
      BY <1>0, <1>2, <1>4, <2>3, <3>1 DEF BarsTyped
  <2>5. TasksHold'
    BY <1>0, <1>2, <1>4, <2>3 DEF TasksHold, ToCompute
  <2>6. \A k \in Waiting' : k = i \/ k \in Waiting
    <3>1. Range(batch') = {}
      BY <2>1 DEF Range
    <3> QED
      BY <2>3, <3>1 DEF Waiting
  <2>7. EachWaitsOnce'
    <3>1. Range(batch') = {}
      BY <2>1 DEF Range
    <3>2. \A u \in Flushers : job[u].step \in ToCompute => job[u].tick # i
      BY <1>0, <1>2 DEF TasksHold
    <3>3. \A k \in Waiting' : k \in DOMAIN ticks'
      BY <1>0, <1>2, <2>6 DEF EachWaitsOnce
    <3>4. job'["main"].tick = i /\ job'["flusher"] = job["flusher"]
      BY <1>0, <2>3
    <3>5. job["flusher"].step \in ToCompute => job'["main"].tick # job'["flusher"].tick
      BY <1>0, <3>2, <3>4
    <3> QED
      BY <3>1, <3>3, <3>4, <3>5 DEF EachWaitsOnce
  <2>8. \A h \in Holders : BarsOf(h)' = BarsOf(h) /\ Held(h)' = Held(h)
    BY <1>0, <1>4, <1>5, <2>3, NoBarInHand
  <2>9. clock <= clock'
    BY <1>0, <1>4 DEF BarsTyped, Times
  <2> QED
    BY <1>2, <1>3, <1>4, <2>4, <2>5, <2>6, <2>7, <2>8, <2>9, QuietStep
<1>7. CASE ~(Len(batch) + 1 >= BatchMax)
  <2>1. batch' = Append(batch, i) /\ job' = job
    BY <1>2, <1>7 DEF Ingest
  <2>2. Range(batch') = Range(batch) \cup {i}
    <3>1. batch \in Seq(Nat)
      BY <1>0 DEF BarsTyped
    <3>2. /\ DOMAIN batch' = DOMAIN batch \cup {Len(batch) + 1}
          /\ \A k \in DOMAIN batch : batch'[k] = batch[k]
          /\ batch'[Len(batch) + 1] = i
      BY <2>1, <3>1
    <3> HIDE DEF i
    <3> QED
      BY <3>2 DEF Range
  <2>3. BarsTyped'
    <3>1. batch' \in Seq(Nat) /\ Len(batch') < BatchMax
      <4>1. batch \in Seq(Nat) /\ Len(batch) \in Nat
        BY <1>0 DEF BarsTyped
      <4>2. batch' \in Seq(Nat) /\ Len(batch') = Len(batch) + 1
        BY <1>2, <2>1, <4>1
      <4> QED
        BY <1>7, <4>1, <4>2, FeatureBarsAssumption
    <3> QED
      BY <1>0, <1>2, <1>4, <2>1, <3>1 DEF BarsTyped
  <2>4. TasksHold'
    BY <1>0, <1>2, <1>4, <2>1 DEF TasksHold
  <2>5. \A k \in Waiting' : k = i \/ k \in Waiting
    BY <2>1, <2>2 DEF Waiting
  <2>6. EachWaitsOnce'
    <3>1. \A u \in Flushers : job[u].step \in ToCompute => job[u].tick # i
      BY <1>0, <1>2 DEF TasksHold
    <3>2. \A k \in Waiting' : k \in DOMAIN ticks'
      BY <1>0, <1>2, <2>5 DEF EachWaitsOnce
    <3>3. \A u \in Flushers : job[u].step \in ToCompute => job[u].tick \notin Range(batch')
      BY <1>0, <2>2, <3>1 DEF EachWaitsOnce
    <3> QED
      BY <1>0, <2>1, <3>2, <3>3 DEF EachWaitsOnce
  <2>7. \A h \in Holders : BarsOf(h)' = BarsOf(h) /\ Held(h)' = Held(h)
    BY <1>4, <2>1, CloserStays DEF BarsOf, Held
  <2>8. clock <= clock'
    BY <1>0, <1>4 DEF BarsTyped, Times
  <2> QED
    BY <1>2, <1>3, <1>4, <2>3, <2>4, <2>5, <2>6, <2>7, <2>8, QuietStep
<1> QED
  BY <1>6, <1>7

LEMMA TimedFlushKeeps == BarsIInv /\ TimedFlush => BarsIInv'
<1> SUFFICES ASSUME BarsIInv, TimedFlush
             PROVE  BarsIInv'
  OBVIOUS
<1>0. BarsTyped /\ TasksHold /\ EachWaitsOnce
  BY DEF BarsIInv
<1> USE TaskFields
<1> DEFINE i == batch[Len(batch)]
<1>1. UNCHANGED <<clock, ticks, states, state, closer, applied, emitted, life, barFaults>>
  BY DEF TimedFlush
<1>2. i \in Range(batch) /\ i \in Nat
  <2>1. batch \in Seq(Nat) /\ batch # <<>>
    BY <1>0 DEF BarsTyped, TimedFlush
  <2>2. Len(batch) \in DOMAIN batch
    BY <2>1
  <2> QED
    BY <2>1, <2>2 DEF Range
<1>3. i \in Waiting /\ i \in DOMAIN ticks
  BY <1>0, <1>2 DEF Waiting, EachWaitsOnce
<1>4. batch' = <<>> /\ Range(batch') = {}
  BY DEF TimedFlush, Range
<1>5. job["flusher"].step = "idle" /\ job["flusher"].bars = <<>>
  BY <1>0 DEF TimedFlush, TasksHold
<1>6. job' = [job EXCEPT !["flusher"] =
        [step |-> "lookup", tick |-> i, of |-> NoState, bars |-> <<>>]]
  BY <1>0, BeginsWith DEF TimedFlush
<1>7. /\ job'["flusher"] = [step |-> "lookup", tick |-> i, of |-> NoState, bars |-> <<>>]
      /\ \A u \in Flushers : u # "flusher" => job'[u] = job[u]
      /\ job' \in [Flushers -> FlushJobs]
  BY <1>0, <1>2, <1>6 DEF BarsTyped, FlushJobs
<1>8. BarsTyped'
  <2>1. batch' \in Seq(Nat) /\ Len(batch') < BatchMax
    BY <1>4, FeatureBarsAssumption
  <2> QED
    BY <1>0, <1>1, <1>7, <2>1 DEF BarsTyped
<1>9. TasksHold'
  BY <1>0, <1>1, <1>3, <1>7 DEF TasksHold, ToCompute
<1>10. \A k \in Waiting' : k \in Waiting
  BY <1>3, <1>4, <1>7 DEF Waiting
<1>11. EachWaitsOnce'
  <2>1. job["main"].step \in ToCompute => job["main"].tick # i
    BY <1>0, <1>2 DEF EachWaitsOnce
  <2>2. job'["main"] = job["main"] /\ job'["flusher"].tick = i
    BY <1>0, <1>7
  <2> QED
    BY <1>0, <1>1, <1>4, <1>10, <2>1, <2>2 DEF EachWaitsOnce
<1>12. \A h \in Holders : BarsOf(h)' = BarsOf(h) /\ Held(h)' = Held(h)
  BY <1>0, <1>1, <1>5, <1>7, NoBarInHand
<1>13. clock <= clock' /\ TicksStay
  BY <1>0, <1>1, TicksDoStay DEF BarsTyped, Times
<1> QED
  BY <1>1, <1>8, <1>9, <1>10, <1>11, <1>12, <1>13, QuietStep

LEMMA SameWaiting ==
  ASSUME EachWaitsOnce, UNCHANGED <<ticks, batch>>, "main" \in Flushers, "flusher" \in Flushers,
         \A u \in Flushers : /\ job'[u].tick = job[u].tick
                             /\ job'[u].step \in ToCompute <=> job[u].step \in ToCompute
  PROVE  Waiting' = Waiting /\ EachWaitsOnce'
<1>1. {job'[t].tick : t \in {u \in Flushers : job'[u].step \in ToCompute}}
        = {job[t].tick : t \in {u \in Flushers : job[u].step \in ToCompute}}
  OBVIOUS
<1>2. Waiting' = Waiting
  BY <1>1 DEF Waiting
<1>3. {job'["main"].step, job'["flusher"].step} \subseteq ToCompute
        <=> {job["main"].step, job["flusher"].step} \subseteq ToCompute
  OBVIOUS
<1> QED
  BY <1>2, <1>3 DEF EachWaitsOnce

LEMMA LookupKeeps == ASSUME NEW t \in Flushers, BarsIInv, Lookup(t) PROVE BarsIInv'
<1>0. BarsTyped /\ TasksHold /\ EachWaitsOnce
  BY DEF BarsIInv
<1> USE TaskFields
<1>1. UNCHANGED <<clock, ticks, batch, states, state, closer, applied, emitted, life, barFaults>>
  BY DEF Lookup
<1>2. job[t].step = "lookup" /\ job[t].bars = <<>> /\ job[t].tick \in DOMAIN ticks
  BY <1>0 DEF Lookup, TasksHold, ToCompute
<1>3. \E step \in {"load", "seed"}, of \in Flushers :
        /\ job' = [job EXCEPT ![t] =
             [step |-> step, tick |-> job[t].tick, of |-> of, bars |-> <<>>]]
        /\ step = "load" => of = t
  <2>1. states \in Flushers \cup {NoState}
    BY <1>0 DEF BarsTyped
  <2>2. \A step, of : [job[t] EXCEPT !.step = step, !.of = of]
                       = [step |-> step, tick |-> job[t].tick, of |-> of, bars |-> <<>>]
    <3> TAKE step, of
    <3> DEFINE q == job[t]
    <3>1. q \in FlushJobs /\ q.bars = <<>>
      BY <1>0, <1>2
    <3> HIDE DEF q
    <3> DEFINE r == [q EXCEPT !.step = step, !.of = of]
    <3>2. /\ r = [k \in {"step", "tick", "of", "bars"} |-> r[k]]
          /\ r.step = step /\ r.tick = q.tick /\ r.of = of /\ r.bars = q.bars
      BY <3>1 DEF FlushJobs
    <3> HIDE DEF r
    <3>3. r = [step |-> r.step, tick |-> r.tick, of |-> r.of, bars |-> r.bars]
      BY <3>2
    <3> QED
      BY <3>1, <3>2, <3>3 DEF q, r
  <2>3. job' = [job EXCEPT ![t] = IF states = NoState
                  THEN [job[t] EXCEPT !.step = "load", !.of = t]
                  ELSE [job[t] EXCEPT !.step = "seed", !.of = states]]
    BY <1>0 DEF Lookup, BarsTyped
  <2>4. CASE states = NoState
    <3>1. job' = [job EXCEPT ![t] =
            [step |-> "load", tick |-> job[t].tick, of |-> t, bars |-> <<>>]]
      BY <2>2, <2>3, <2>4
    <3> QED
      BY <3>1
  <2>5. CASE states # NoState
    <3>1. job' = [job EXCEPT ![t] =
            [step |-> "seed", tick |-> job[t].tick, of |-> states, bars |-> <<>>]]
      BY <2>2, <2>3, <2>5
    <3>2. states \in Flushers
      BY <2>1, <2>5
    <3> QED
      BY <3>1, <3>2
  <2> QED
    BY <2>4, <2>5
<1>4. PICK step \in {"load", "seed"}, of \in Flushers :
        /\ job' = [job EXCEPT ![t] =
             [step |-> step, tick |-> job[t].tick, of |-> of, bars |-> <<>>]]
        /\ step = "load" => of = t
  BY <1>3
<1>5. /\ job'[t] = [step |-> step, tick |-> job[t].tick, of |-> of, bars |-> <<>>]
      /\ \A u \in Flushers : u # t => job'[u] = job[u]
      /\ job' \in [Flushers -> FlushJobs]
  BY <1>0, <1>4 DEF BarsTyped, FlushJobs
<1>6. BarsTyped'
  BY <1>0, <1>1, <1>5 DEF BarsTyped
<1>7. TasksHold'
  BY <1>0, <1>1, <1>2, <1>4, <1>5 DEF TasksHold, ToCompute
<1>8. \A u \in Flushers : /\ job'[u].tick = job[u].tick
                          /\ job'[u].step \in ToCompute <=> job[u].step \in ToCompute
  BY <1>2, <1>5 DEF ToCompute
<1>9. Waiting' = Waiting /\ EachWaitsOnce'
  <2>1. "main" \in Flushers /\ "flusher" \in Flushers
    BY DEF Flushers
  <2>2. EachWaitsOnce /\ UNCHANGED <<ticks, batch>>
    BY <1>0, <1>1
  <2> QED
    BY <1>8, <2>1, <2>2, SameWaiting
<1>10. \A h \in Holders : BarsOf(h)' = BarsOf(h) /\ Held(h)' = Held(h)
  BY <1>1, <1>2, <1>5, NoBarInHand
<1>11. clock <= clock' /\ TicksStay
  BY <1>0, <1>1, TicksDoStay DEF BarsTyped, Times
<1> QED
  BY <1>1, <1>6, <1>7, <1>9, <1>10, <1>11, QuietStep

LEMMA RegisterKeeps == ASSUME NEW t \in Flushers, BarsIInv, Register(t) PROVE BarsIInv'
<1>0. BarsTyped /\ TasksHold /\ EachWaitsOnce
  BY DEF BarsIInv
<1> USE TaskFields
<1>1. UNCHANGED <<clock, ticks, batch, state, closer, applied, emitted, life, barFaults>>
      /\ states' = t
  BY DEF Register
<1>2. /\ job[t].step = "load" /\ job[t].bars = <<>> /\ job[t].tick \in DOMAIN ticks
      /\ job[t].of = t
  BY <1>0 DEF Register, TasksHold, ToCompute
<1>3. job' = [job EXCEPT ![t] =
        [step |-> "seed", tick |-> job[t].tick, of |-> t, bars |-> <<>>]]
  <2>1. [job[t] EXCEPT !.step = "seed"]
          = [step |-> "seed", tick |-> job[t].tick, of |-> t, bars |-> <<>>]
    <3> DEFINE q == job[t]
    <3>1. q \in FlushJobs /\ q.bars = <<>> /\ q.of = t
      BY <1>0, <1>2
    <3> HIDE DEF q
    <3>2. [q EXCEPT !.step = "seed"] = [step |-> "seed", tick |-> q.tick, of |-> q.of, bars |-> q.bars]
      BY <3>1, GoesOn
    <3> QED
      BY <3>1, <3>2 DEF q
  <2>2. job' = [job EXCEPT ![t] = [job[t] EXCEPT !.step = "seed"]]
    BY <1>0 DEF Register, BarsTyped
  <2> QED
    BY <2>1, <2>2
<1>5. /\ job'[t] = [step |-> "seed", tick |-> job[t].tick, of |-> t, bars |-> <<>>]
      /\ \A u \in Flushers : u # t => job'[u] = job[u]
      /\ job' \in [Flushers -> FlushJobs]
  BY <1>0, <1>3 DEF BarsTyped, FlushJobs
<1>6. BarsTyped'
  BY <1>0, <1>1, <1>5 DEF BarsTyped
<1>7. TasksHold'
  BY <1>0, <1>1, <1>2, <1>5 DEF TasksHold, ToCompute
<1>8. \A u \in Flushers : /\ job'[u].tick = job[u].tick
                          /\ job'[u].step \in ToCompute <=> job[u].step \in ToCompute
  BY <1>2, <1>5 DEF ToCompute
<1>9. Waiting' = Waiting /\ EachWaitsOnce'
  <2>1. "main" \in Flushers /\ "flusher" \in Flushers
    BY DEF Flushers
  <2>2. EachWaitsOnce /\ UNCHANGED <<ticks, batch>>
    BY <1>0, <1>1
  <2> QED
    BY <1>8, <2>1, <2>2, SameWaiting
<1>10. \A h \in Holders : BarsOf(h)' = BarsOf(h) /\ Held(h)' = Held(h)
  BY <1>1, <1>2, <1>5, NoBarInHand
<1>11. clock <= clock' /\ TicksStay
  BY <1>0, <1>1, TicksDoStay DEF BarsTyped, Times
<1> QED
  BY <1>1, <1>6, <1>7, <1>9, <1>10, <1>11, QuietStep

\* The closer at rest or about to look at a state holds no bar.
LEMMA CloserHoldsNone ==
  ASSUME job' = job, closer.bars = <<>>, closer'.bars = <<>>,
         closer.step \in {"asleep", "close"}, closer'.step \in {"asleep", "close"}
  PROVE  \A h \in Holders : BarsOf(h)' = BarsOf(h) /\ Held(h)' = Held(h)
<1> TAKE h \in Holders
<1>1. CASE h = "closer"
  BY <1>1, HolderFacts DEF CloserBars, CloserHeld
<1>2. CASE h \in Flushers
  BY <1>2, HolderFacts
<1> QED
  BY <1>1, <1>2, HolderFacts

LEMMA CloserRests ==
  ASSUME BarsIInv, UNCHANGED <<clock, ticks, batch, states, state, job, applied, emitted,
                               life, barFaults>>,
         closer.step \in {"asleep", "close"},
         closer' \in {[step |-> "close", of |-> states, now |-> clock, bars |-> <<>>], Asleep},
         states # NoState \/ closer' = Asleep
  PROVE  BarsIInv'
<1>0. BarsTyped /\ TasksHold /\ EachWaitsOnce
  BY DEF BarsIInv
<1>1. closer.bars = <<>> /\ closer'.bars = <<>> /\ closer'.step \in {"asleep", "close"}
  BY <1>0 DEF TasksHold, Asleep
<1>2. BarsTyped'
  <2>1. closer' \in CloserJobs
    <3>1. clock \in Nat /\ states \in Flushers \cup {NoState} /\ <<>> \in BarLists
      BY <1>0, TaskFields, FeatureBarsAssumption DEF BarsTyped, Times
    <3> QED
      BY <3>1 DEF CloserJobs, Asleep
  <2> QED
    BY <1>0, <1>1, <2>1 DEF BarsTyped
<1>3. TasksHold'
  <2>1. closer'.step = "close" => closer'.of \in Flushers /\ closer'.now <= clock
    <3>1. clock \in Int /\ states \in Flushers \cup {NoState}
      BY <1>0 DEF BarsTyped, Times
    <3> QED
      BY <3>1 DEF Asleep
  <2> QED
    BY <1>0, <1>1, <2>1 DEF TasksHold
<1>4. Waiting' = Waiting /\ EachWaitsOnce'
  BY <1>0 DEF Waiting, EachWaitsOnce
<1>5. \A h \in Holders : BarsOf(h)' = BarsOf(h) /\ Held(h)' = Held(h)
  BY <1>1, CloserHoldsNone
<1>6. clock <= clock' /\ TicksStay
  BY <1>0, TicksDoStay DEF BarsTyped, Times
<1> QED
  BY <1>2, <1>3, <1>4, <1>5, <1>6, QuietStep

LEMMA CloserWakesKeeps == BarsIInv /\ CloserWakes => BarsIInv'
<1>1. [Asleep EXCEPT !.step = "close", !.of = states, !.now = clock]
        = [step |-> "close", of |-> states, now |-> clock, bars |-> <<>>]
  <2> DEFINE r == [Asleep EXCEPT !.step = "close", !.of = states, !.now = clock]
  <2>1. /\ r = [k \in {"step", "of", "now", "bars"} |-> r[k]]
        /\ r.step = "close" /\ r.of = states /\ r.now = clock /\ r.bars = <<>>
    BY DEF Asleep
  <2> HIDE DEF r
  <2>2. r = [step |-> r.step, of |-> r.of, now |-> r.now, bars |-> r.bars]
    BY <2>1
  <2>3. r = [step |-> "close", of |-> states, now |-> clock, bars |-> <<>>]
    BY <2>1, <2>2
  <2> QED
    BY <2>3 DEF r
<1> QED
  BY <1>1, CloserRests DEF CloserWakes

LEMMA ClockKeeps == BarsIInv /\ ClockTicks => BarsIInv'
<1> SUFFICES ASSUME BarsIInv, ClockTicks
             PROVE  BarsIInv'
  OBVIOUS
<1>0. BarsTyped /\ TasksHold /\ EachWaitsOnce
  BY DEF BarsIInv
<1>1. UNCHANGED <<ticks, batch, states, state, job, closer, applied, emitted, life, barFaults>>
  BY DEF ClockTicks, barMemory
<1>2. clock' \in Times /\ clock <= clock' /\ clock \in Int
  BY <1>0, FeatureBarsAssumption DEF ClockTicks, BarsTyped, Times
<1>3. BarsTyped'
  BY <1>0, <1>1, <1>2 DEF BarsTyped
<1>4. TasksHold'
  <2>1. closer.now \in Nat
    BY <1>0, TaskFields
  <2>2. closer.step = "close" => closer.now <= clock'
    <3>1. closer.step = "close" => closer.now <= clock
      BY <1>0 DEF TasksHold
    <3>2. clock' \in Int
      BY <1>2 DEF Times
    <3> QED
      BY <1>2, <2>1, <3>1, <3>2
  <2> QED
    BY <1>0, <1>1, <2>2 DEF TasksHold
<1>5. Waiting' = Waiting /\ EachWaitsOnce'
  BY <1>0, <1>1 DEF Waiting, EachWaitsOnce
<1>6. \A h \in Holders : BarsOf(h)' = BarsOf(h) /\ Held(h)' = Held(h)
  BY <1>1, CloserStays DEF BarsOf, Held
<1> QED
  BY <1>1, <1>2, <1>3, <1>4, <1>5, <1>6, TicksDoStay, QuietStep

\* A task that lets go of what it has in hand.
LEMMA TaskLetsGo ==
  ASSUME NEW t \in Flushers, UNCHANGED <<closer, state, life>>, BarsTyped,
         \A u \in Flushers : u # t => job'[u] = job[u],
         job'[t].step \in {"idle", "dead"},
         job[t].step = "write" \/ job[t].bars = <<>>
  PROVE  /\ t \in Holders
         /\ \A h \in Holders : h # t => BarsOf(h)' = BarsOf(h) /\ Held(h)' = Held(h)
         /\ Held(t) = Range(BarsOf(t)) /\ Held(t)' = {} /\ BarsOf(t) \in BarLists
<1>1. \A h \in Holders : h # t => BarsOf(h)' = BarsOf(h) /\ Held(h)' = Held(h)
  <2> TAKE h \in Holders
  <2>1. CASE h = "closer"
    BY <2>1, HolderFacts, CloserStays
  <2>2. CASE h \in Flushers /\ h # t
    <3>1. job'[h] = job[h]
      BY <2>2
    <3> QED
      BY <2>2, <3>1, HolderFacts
  <2> QED
    BY <2>1, <2>2, HolderFacts
<1>2. Held(t) = Range(BarsOf(t))
  <2>1. Range(<<>>) = {}
    BY DEF Range
  <2>2. Held(t) = IF job[t].step = "write" THEN Range(job[t].bars) ELSE {}
    BY HolderFacts DEF HeldAt
  <2>3. BarsOf(t) = job[t].bars
    BY HolderFacts
  <2>4. job[t].step # "write" => Range(BarsOf(t)) = {}
    BY <2>1, <2>3
  <2> QED
    BY <2>2, <2>3, <2>4
<1>3. Held(t)' = {}
  BY HolderFacts DEF HeldAt
<1>4. BarsOf(t) \in BarLists /\ t \in Holders
  BY HolderFacts, TaskFields
<1> QED
  BY <1>1, <1>2, <1>3, <1>4

\* A task that stops waiting, or did not wait.
LEMMA LessWaiting ==
  ASSUME NEW t \in Flushers, EachWaitsOnce, UNCHANGED <<ticks, batch>>,
         "main" \in Flushers, "flusher" \in Flushers,
         \A u \in Flushers : u # t => job'[u] = job[u],
         job'[t].step \notin ToCompute
  PROVE  Waiting' \subseteq Waiting /\ EachWaitsOnce'
<1>1. \A u \in Flushers : job'[u].step \in ToCompute =>
        job[u].step \in ToCompute /\ job'[u].tick = job[u].tick
  OBVIOUS
<1>2. Waiting' \subseteq Waiting
  BY <1>1 DEF Waiting
<1>3. {job'["main"].step, job'["flusher"].step} \subseteq ToCompute =>
        /\ {job["main"].step, job["flusher"].step} \subseteq ToCompute
        /\ job'["main"].tick = job["main"].tick /\ job'["flusher"].tick = job["flusher"].tick
  BY <1>1
<1> QED
  BY <1>1, <1>2, <1>3 DEF EachWaitsOnce

LEMMA FinishKeeps == ASSUME NEW t \in Flushers, BarsIInv, Finish(t) PROVE BarsIInv'
<1>0. BarsTyped /\ TasksHold /\ EachWaitsOnce
  BY DEF BarsIInv
<1>1. UNCHANGED <<clock, ticks, batch, states, state, closer, applied, life, barFaults>>
  BY DEF Finish
<1>2. job[t].step = "write" /\ job' = [job EXCEPT ![t] = Idle]
      /\ emitted' = emitted \o job[t].bars
  BY DEF Finish
<1>3. /\ job'[t] = Idle /\ job' \in [Flushers -> FlushJobs]
      /\ \A u \in Flushers : u # t => job'[u] = job[u]
  <2>1. Idle \in FlushJobs
    BY <1>0, TaskFields DEF FlushJobs, Idle
  <2> QED
    BY <1>0, <1>2, <2>1 DEF BarsTyped
<1>4. job'[t].step = "idle" /\ job'[t].bars = <<>>
  BY <1>3 DEF Idle
<1>5. job[t].bars \in BarLists /\ emitted \in Seq(BarRecords)
  BY <1>0, TaskFields DEF BarsTyped
<1>6. emitted' \in Seq(BarRecords)
  BY <1>2, <1>5, ConcatProperties DEF BarLists
<1>7. BarsTyped'
  BY <1>0, <1>1, <1>3, <1>6 DEF BarsTyped
<1>8. TasksHold'
  BY <1>0, <1>1, <1>3, <1>4 DEF TasksHold, ToCompute
<1>9. "main" \in Flushers /\ "flusher" \in Flushers
  BY DEF Flushers
<1>10. Waiting' \subseteq Waiting /\ EachWaitsOnce'
  BY <1>0, <1>1, <1>3, <1>4, <1>9, LessWaiting DEF ToCompute
<1>11. /\ t \in Holders
       /\ \A h \in Holders : h # t => BarsOf(h)' = BarsOf(h) /\ Held(h)' = Held(h)
       /\ Held(t) = Range(BarsOf(t)) /\ Held(t)' = {} /\ BarsOf(t) \in BarLists
  BY <1>0, <1>1, <1>2, <1>3, <1>4, TaskLetsGo
<1>12. BarsOf(t) = job[t].bars /\ BarsOf(t)' = <<>>
  BY <1>4, HolderFacts
<1> QED
  BY <1>1, <1>2, <1>7, <1>8, <1>10, <1>11, <1>12, MoveStep

LEMMA CloserLetsGo ==
  ASSUME job' = job, BarsTyped, closer.step \in {"held", "write"},
         closer'.step \in {"asleep", "dead"}
  PROVE  /\ "closer" \in Holders
         /\ \A h \in Holders : h # "closer" => BarsOf(h)' = BarsOf(h) /\ Held(h)' = Held(h)
         /\ Held("closer") = Range(BarsOf("closer")) /\ Held("closer")' = {}
         /\ BarsOf("closer") = CloserBars /\ BarsOf("closer") \in BarLists
         /\ BarsOf("closer")' = closer'.bars
         /\ closer.step = "write" => CloserBars = closer.bars
<1>1. \A h \in Holders : h # "closer" => BarsOf(h)' = BarsOf(h) /\ Held(h)' = Held(h)
  BY DEF BarsOf, Held
<1>2. Held("closer")' = {} /\ Held("closer") = Range(BarsOf("closer"))
  BY HolderFacts DEF CloserHeld
<1>3. BarsOf("closer")' = closer'.bars /\ (closer.step = "write" => CloserBars = closer.bars)
  BY HolderFacts DEF CloserBars
<1> QED
  BY <1>1, <1>2, <1>3, HolderFacts, CloserHasOne

LEMMA NoneWaitsMore ==
  ASSUME EachWaitsOnce, UNCHANGED <<ticks, batch, job>>
  PROVE  Waiting' = Waiting /\ EachWaitsOnce'
BY DEF Waiting, EachWaitsOnce

LEMMA CloserWritesKeeps == BarsIInv /\ CloserWrites => BarsIInv'
<1> SUFFICES ASSUME BarsIInv, CloserWrites
             PROVE  BarsIInv'
  OBVIOUS
<1>0. BarsTyped /\ TasksHold /\ EachWaitsOnce
  BY DEF BarsIInv
<1>1. /\ UNCHANGED <<clock, ticks, batch, states, state, job, applied, life, barFaults>>
      /\ closer.step = "write" /\ closer' = Asleep /\ emitted' = emitted \o closer.bars
  BY DEF CloserWrites
<1>2. closer'.step = "asleep" /\ closer'.bars = <<>> /\ closer' \in CloserJobs
  BY <1>0, <1>1, TaskFields DEF Asleep, CloserJobs
<1>3. emitted' \in Seq(BarRecords)
  <2>1. closer.bars \in Seq(BarRecords) /\ emitted \in Seq(BarRecords)
    BY <1>0, TaskFields DEF BarsTyped, BarLists
  <2> QED
    BY <1>1, <2>1, ConcatProperties
<1>4. BarsTyped'
  BY <1>0, <1>1, <1>2, <1>3 DEF BarsTyped
<1>5. TasksHold'
  BY <1>0, <1>1, <1>2 DEF TasksHold
<1>6. Waiting' = Waiting /\ EachWaitsOnce'
  BY <1>0, <1>1, NoneWaitsMore
<1>7. /\ "closer" \in Holders
      /\ \A h \in Holders : h # "closer" => BarsOf(h)' = BarsOf(h) /\ Held(h)' = Held(h)
      /\ Held("closer") = Range(BarsOf("closer")) /\ Held("closer")' = {}
      /\ BarsOf("closer") = closer.bars /\ BarsOf("closer") \in BarLists
      /\ BarsOf("closer")' = <<>>
  BY <1>0, <1>1, <1>2, CloserLetsGo
<1> QED
  BY <1>1, <1>4, <1>5, <1>6, <1>7, MoveStep

\* Reading a bar changes nothing but that it does not change any more.
LEMMA CloserReadsKeeps == BarsIInv /\ CloserReads => BarsIInv'
<1> SUFFICES ASSUME BarsIInv, CloserReads
             PROVE  BarsIInv'
  OBVIOUS
<1>0. BarsTyped /\ TasksHold /\ EachWaitsOnce
  BY DEF BarsIInv
<1>1. /\ UNCHANGED <<clock, ticks, batch, states, state, job, applied, emitted, life, barFaults>>
      /\ closer.step = "held"
      /\ closer' = [closer EXCEPT !.step = "write", !.bars = CloserBars]
  BY DEF CloserReads
<1>2. CloserBars \in BarLists /\ closer \in CloserJobs
  BY <1>0, CloserHasOne, TaskFields
<1>3. closer' \in CloserJobs /\ closer'.step = "write" /\ closer'.bars = CloserBars
  <2> DEFINE l == CloserBars
             c == closer
  <2>1. c \in CloserJobs /\ l \in BarLists /\ closer' = [c EXCEPT !.step = "write", !.bars = l]
    BY <1>1, <1>2
  <2> HIDE DEF l, c
  <2>2. closer' \in CloserJobs /\ closer'.step = "write" /\ closer'.bars = l
    BY <2>1 DEF CloserJobs
  <2> QED
    BY <2>2 DEF l
<1>4. BarsTyped'
  BY <1>0, <1>1, <1>3 DEF BarsTyped
<1>5. TasksHold'
  BY <1>0, <1>1, <1>3 DEF TasksHold
<1>6. Waiting' = Waiting /\ EachWaitsOnce'
  BY <1>0, <1>1, NoneWaitsMore
<1>7. CloserBars' = CloserBars /\ CloserHeld' = CloserHeld
  <2>1. CloserBars' = closer'.bars
    BY <1>3 DEF CloserBars
  <2> QED
    BY <1>1, <1>3, <2>1 DEF CloserHeld
<1>8. \A h \in Holders : BarsOf(h)' = BarsOf(h) /\ Held(h)' = Held(h)
  BY <1>1, <1>7 DEF BarsOf, Held
<1>9. clock <= clock' /\ TicksStay
  BY <1>0, <1>1, TicksDoStay DEF BarsTyped, Times
<1> QED
  BY <1>1, <1>4, <1>5, <1>6, <1>8, <1>9, QuietStep

LEMMA TimerDiesKeeps == BarsIInv /\ TimerDies => BarsIInv'
<1> SUFFICES ASSUME BarsIInv, TimerDies
             PROVE  BarsIInv'
  OBVIOUS
<1>0. BarsTyped /\ TasksHold /\ EachWaitsOnce
  BY DEF BarsIInv
<1>1. UNCHANGED <<clock, ticks, batch, states, state, applied, life>>
  BY DEF TimerDies
<1>2. barFaults' \in 0..MaxBarFaults
  BY <1>0, FeatureBarsAssumption DEF TimerDies, BarsTyped
<1>3. ASSUME job["flusher"].step \in Working,
             emitted' \in {emitted, emitted \o job["flusher"].bars},
             job' = [job EXCEPT !["flusher"] = [@ EXCEPT !.step = "dead"]],
             closer' = closer
      PROVE  BarsIInv'
  <2> DEFINE t == "flusher"
             r == [job[t] EXCEPT !.step = "dead"]
  <2>1. t \in Flushers /\ job[t] \in FlushJobs /\ job[t].bars \in BarLists
    BY <1>0, TaskFields
  <2>2. job' = [job EXCEPT ![t] = r] /\ job \in [Flushers -> FlushJobs]
    BY <1>0, <1>3 DEF BarsTyped
  <2>3. r \in FlushJobs /\ r.step = "dead" /\ r.bars = job[t].bars
    BY <2>1 DEF FlushJobs
  <2>4. /\ job'[t].step = "dead" /\ job'[t].bars = job[t].bars
        /\ \A u \in Flushers : u # t => job'[u] = job[u]
        /\ job' \in [Flushers -> FlushJobs]
    <3> HIDE DEF r
    <3> QED
      BY <2>1, <2>2, <2>3
  <2>5. emitted' \in Seq(BarRecords)
    <3>1. job[t].bars \in Seq(BarRecords) /\ emitted \in Seq(BarRecords)
      BY <1>0, <2>1 DEF BarsTyped, BarLists
    <3> QED
      BY <1>3, <3>1, ConcatProperties
  <2>6. BarsTyped'
    BY <1>0, <1>1, <1>2, <1>3, <2>4, <2>5 DEF BarsTyped
  <2>7. TasksHold'
    BY <1>0, <1>1, <1>3, <2>4 DEF TasksHold, ToCompute
  <2>8. Waiting' \subseteq Waiting /\ EachWaitsOnce'
    BY <1>0, <1>1, <2>1, <2>4, TaskFields, LessWaiting DEF ToCompute
  <2>9. job[t].step = "write" \/ job[t].bars = <<>>
    BY <1>0, <1>3, <2>1 DEF TasksHold, Working, ToCompute
  <2>10. /\ t \in Holders
         /\ \A h \in Holders : h # t => BarsOf(h)' = BarsOf(h) /\ Held(h)' = Held(h)
         /\ Held(t) = Range(BarsOf(t)) /\ Held(t)' = {} /\ BarsOf(t) \in BarLists
    <3>1. UNCHANGED <<closer, state, life>>
      BY <1>1, <1>3
    <3>2. /\ t \in Flushers /\ job'[t].step \in {"idle", "dead"}
          /\ \A u \in Flushers : u # t => job'[u] = job[u]
      BY <2>1, <2>4
    <3> HIDE DEF t
    <3> QED
      BY <1>0, <2>9, <3>1, <3>2, TaskLetsGo
  <2>11. BarsOf(t) = job[t].bars /\ BarsOf(t)' = BarsOf(t)
    BY <2>1, <2>4, HolderFacts
  <2>12. \/ emitted' = emitted /\ BarsOf(t)' = BarsOf(t)
         \/ emitted' = emitted \o BarsOf(t) /\ BarsOf(t)' \in {<<>>, BarsOf(t)}
    BY <1>3, <2>11
  <2> HIDE DEF t
  <2> QED
    BY <1>1, <2>6, <2>7, <2>8, <2>10, <2>12, MoveStep
<1>4. ASSUME closer.step \in {"held", "write"}, job' = job,
             emitted' = emitted \/ (closer.step = "write" /\ emitted' = emitted \o closer.bars),
             closer' = [closer EXCEPT !.step = "dead", !.bars = CloserBars]
      PROVE  BarsIInv'
  <2>1. closer \in CloserJobs /\ closer.bars \in BarLists /\ CloserBars \in BarLists
    BY <1>0, TaskFields, CloserHasOne
  <2>2. closer' \in CloserJobs /\ closer'.step = "dead" /\ closer'.bars = CloserBars
    <3> DEFINE l == CloserBars
               c == closer
    <3>1. c \in CloserJobs /\ l \in BarLists /\ closer' = [c EXCEPT !.step = "dead", !.bars = l]
      BY <1>4, <2>1
    <3> HIDE DEF l, c
    <3>2. closer' \in CloserJobs /\ closer'.step = "dead" /\ closer'.bars = l
      BY <3>1 DEF CloserJobs
    <3> QED
      BY <3>2 DEF l
  <2>3. emitted' \in Seq(BarRecords)
    <3>1. closer.bars \in Seq(BarRecords) /\ emitted \in Seq(BarRecords)
      BY <1>0, <2>1 DEF BarsTyped, BarLists
    <3> QED
      BY <1>4, <3>1, ConcatProperties
  <2>4. BarsTyped'
    BY <1>0, <1>1, <1>2, <1>4, <2>2, <2>3 DEF BarsTyped
  <2>5. TasksHold'
    BY <1>0, <1>1, <1>4, <2>2 DEF TasksHold
  <2>6. Waiting' = Waiting /\ EachWaitsOnce'
    BY <1>0, <1>1, <1>4, NoneWaitsMore
  <2>7. /\ "closer" \in Holders
        /\ \A h \in Holders : h # "closer" => BarsOf(h)' = BarsOf(h) /\ Held(h)' = Held(h)
        /\ Held("closer") = Range(BarsOf("closer")) /\ Held("closer")' = {}
        /\ BarsOf("closer") \in BarLists /\ BarsOf("closer")' = BarsOf("closer")
        /\ closer.step = "write" => BarsOf("closer") = closer.bars
    BY <1>0, <1>4, <2>2, CloserLetsGo
  <2>9. \/ emitted' = emitted /\ BarsOf("closer")' = BarsOf("closer")
        \/ emitted' = emitted \o BarsOf("closer") /\ BarsOf("closer")' \in {<<>>, BarsOf("closer")}
    BY <1>4, <2>7
  <2> QED
    BY <1>1, <2>4, <2>5, <2>6, <2>7, <2>9, MoveStep
<1> QED
  BY <1>3, <1>4 DEF TimerDies

\* Where no tick has been computed in a life and nothing is held, little is
\* left to show of it.
LifeBegins ==
  /\ applied = <<>>
  /\ \A x \in Flushers : state[x] = NewSymbolState
  /\ \A h \in Holders : Held(h) = {}
  /\ PendingBars = {}
  /\ \A b \in EveryBar : InPeriod(b, ticks) /\ b.life < life
  /\ \A i, j \in DOMAIN emitted : i # j => ~Clash(emitted[i], emitted[j], -1)
  /\ emitted \in Seq(BarRecords) /\ life \in Nat

LEMMA NothingYet == LifeBegins => BarsCore
<1> SUFFICES ASSUME LifeBegins
             PROVE  BarsCore
  OBVIOUS
<1> USE DEF LifeBegins
<1>0. \A i \in DOMAIN emitted :
        emitted[i] \in EveryBar /\ emitted[i] \in BarRecords /\ emitted[i].life \in Nat
  <2> TAKE i \in DOMAIN emitted
  <2>1. emitted[i] \in BarRecords
    OBVIOUS
  <2> QED
    BY <2>1 DEF EveryBar, Range, BarRecords
<1>1. WrittenBars = {}
  <2>1. \A i \in DOMAIN emitted : emitted[i].life < life
    BY <1>0
  <2>3. \A i \in DOMAIN emitted : emitted[i].life # life
    BY <1>0, <2>1
  <2> QED
    BY <2>3 DEF WrittenBars
<1>2. \A b \in EveryBar : b \in BarRecords
  BY DEF EveryBar, Range
<1>3. BarsAreWhole
  <2>1. \A b \in EveryBar : b.life \in Nat
    BY <1>2 DEF BarRecords
  <2>2. \A b \in EveryBar : b.life <= life
    BY <2>1
  <2> QED
    BY <1>1, <2>2 DEF BarsAreWhole
<1>4. StatesAreWhole /\ Open = {} /\ DOMAIN applied = {}
  BY DEF StatesAreWhole, NewSymbolState, InPeriod, Open
<1>5. AppliedTicksAreKept /\ NoneIsAhead /\ VolumeAddsUp
  BY <1>1, <1>4 DEF AppliedTicksAreKept, NoneIsAhead, VolumeAddsUp
<1>7. LateBarsHaveLateTicks
  <2>1. \A b \in EveryBar : b.life \in Nat
    BY <1>2 DEF BarRecords
  <2>2. \A b \in EveryBar : b.life # life
    BY <2>1
  <2> QED
    BY <2>2 DEF LateBarsHaveLateTicks
<1>6. NoTwoClash
  <2>1. \A i \in DOMAIN emitted : emitted[i].life # Era
    <3>1. \A i \in DOMAIN emitted : emitted[i].life < life
      BY <1>0
    <3> QED
      BY <1>0, <3>1 DEF Era
  <2>2. \A i, j \in DOMAIN emitted : i # j => ~Clash(emitted[i], emitted[j], Era)
    <3> HIDE DEF LifeBegins
    <3>1. \A i, j \in DOMAIN emitted : i # j => ~Clash(emitted[i], emitted[j], -1)
      BY DEF LifeBegins
    <3> QED
      BY <2>1, <3>1 DEF Clash
  <2> QED
    BY <1>4, <2>2 DEF NoTwoClash
<1> QED
  BY <1>3, <1>4, <1>5, <1>6, <1>7 DEF BarsCore

LEMMA InitBars == BarsInit => BarsIInv
<1> SUFFICES ASSUME BarsInit
             PROVE  BarsIInv
  OBVIOUS
<1> USE DEF BarsInit
<1>1. /\ \A t \in Flushers : job[t] = Idle
      /\ \A x \in Flushers : state[x] = NewSymbolState
      /\ "main" \in Flushers /\ "flusher" \in Flushers
  BY DEF Flushers
<1>2. Range(<<>>) = {}
  BY DEF Range
<1>3. BarsTyped
  <2>1. <<>> \in BarLists
    BY DEF BarLists
  <2>2. Idle \in FlushJobs /\ Asleep \in CloserJobs
    BY <2>1 DEF Idle, Asleep, FlushJobs, CloserJobs
  <2>3. NewSymbolState \in SymbolStates
    BY DEF NewSymbolState, SymbolStates
  <2>4. clock \in Times /\ 0 \in 0..MaxBarFaults
    BY FeatureBarsAssumption DEF Times
  <2>5. /\ ticks \in Seq(Times) /\ batch \in Seq(Nat) /\ emitted \in Seq(BarRecords)
        /\ applied \in Seq(AppliedTicks) /\ Len(ticks) <= MaxTicks /\ Len(batch) < BatchMax
    BY FeatureBarsAssumption
  <2> QED
    BY <2>2, <2>3, <2>4, <2>5 DEF BarsTyped, Asleep
<1>4. TasksHold
  BY <1>1 DEF TasksHold, Idle, Asleep, ToCompute
<1>5. Waiting = {} /\ EachWaitsOnce /\ WaitingTicksAreNew
  <2>1. \A t \in Flushers : job[t].step \notin ToCompute
    BY <1>1 DEF Idle, ToCompute
  <2>2. Waiting = {}
    BY <1>2, <2>1 DEF Waiting
  <2> QED
    BY <1>1, <2>1, <2>2 DEF EachWaitsOnce, WaitingTicksAreNew
<1>6. LifeBegins
  <2>1. PendingBars = {}
    BY <1>1, <1>2 DEF PendingBars, CloserBars, Idle, Asleep
  <2>2. EveryBar = {}
    BY <1>2, <2>1 DEF EveryBar
  <2>3. \A h \in Holders : Held(h) = {}
    BY <1>1, HolderFacts DEF HeldAt, CloserHeld, Idle, Asleep
  <2> QED
    BY <1>1, <1>3, <2>1, <2>2, <2>3 DEF LifeBegins, BarsTyped
<1> QED
  BY <1>3, <1>4, <1>5, <1>6, NothingYet DEF BarsIInv, BarsCore

LEMMA RestartKeeps == BarsIInv /\ BarsRestart => BarsIInv'
<1>0. LifeBegins' => BarsCore'
  BY NothingYet, PTL
<1> SUFFICES ASSUME BarsIInv, BarsRestart
             PROVE  BarsIInv'
  OBVIOUS
<1> USE DEF BarsRestart
<1>a. BarsTyped /\ BarsAreWhole
  BY DEF BarsIInv
<1>1. /\ \A t \in Flushers : job'[t] = Idle
      /\ \A x \in Flushers : state'[x] = NewSymbolState
      /\ "main" \in Flushers /\ "flusher" \in Flushers
  BY DEF Flushers
<1>2. Range(<<>>) = {}
  BY DEF Range
<1>3. BarsTyped'
  <2>1. <<>> \in BarLists
    BY DEF BarLists
  <2>2. Idle \in FlushJobs /\ Asleep \in CloserJobs
    BY <2>1 DEF Idle, Asleep, FlushJobs, CloserJobs
  <2>3. NewSymbolState \in SymbolStates
    BY DEF NewSymbolState, SymbolStates
  <2>4. barFaults' \in 0..MaxBarFaults /\ life' \in Nat
    BY <1>a, FeatureBarsAssumption DEF BarsTyped
  <2>5. batch' \in Seq(Nat) /\ applied' \in Seq(AppliedTicks) /\ Len(batch') < BatchMax
    BY FeatureBarsAssumption
  <2> QED
    BY <1>a, <2>2, <2>3, <2>4, <2>5 DEF BarsTyped, Asleep
<1>4. TasksHold'
  BY <1>1 DEF TasksHold, Idle, Asleep, ToCompute
<1>5. Waiting' = {} /\ EachWaitsOnce' /\ WaitingTicksAreNew'
  <2>1. \A t \in Flushers : job'[t].step \notin ToCompute
    BY <1>1 DEF Idle, ToCompute
  <2>2. Waiting' = {}
    BY <1>2, <2>1 DEF Waiting
  <2> QED
    BY <1>1, <2>1, <2>2 DEF EachWaitsOnce, WaitingTicksAreNew
<1>6. LifeBegins'
  <2>1. PendingBars' = {}
    BY <1>1, <1>2 DEF PendingBars, CloserBars, Idle, Asleep
  <2>2. EveryBar' \subseteq EveryBar
    BY <2>1 DEF EveryBar
  <2>3. \A h \in Holders : Held(h)' = {}
    BY <1>1, HolderFacts DEF HeldAt, CloserHeld, Idle, Asleep
  <2>4. \A b \in EveryBar' : InPeriod(b, ticks') /\ b.life < life'
    <3> TAKE b \in EveryBar'
    <3>1. b \in Range(emitted) /\ b \in EveryBar
      BY <2>1, <2>2 DEF EveryBar
    <3>2. b \in BarRecords
      BY <1>a, <3>1 DEF BarsTyped, Range
    <3>3. b.life \in Nat /\ b.life <= life /\ life \in Nat
      BY <1>a, <3>1, <3>2 DEF BarRecords, BarsAreWhole, BarsTyped
    <3>4. b.life < life'
      BY <3>3
    <3> QED
      BY <1>a, <3>1, <3>4 DEF BarsAreWhole
  <2>5. \A i, j \in DOMAIN emitted : i # j => ~Clash(emitted[i], emitted[j], -1)
    <3>1. \A i \in DOMAIN emitted : emitted[i].life # -1
      <4>1. \A i \in DOMAIN emitted : emitted[i] \in BarRecords
        BY <1>a DEF BarsTyped
      <4> QED
        BY <4>1 DEF BarRecords
    <3> QED
      BY <3>1 DEF BarsIInv, NoTwoClash, Clash
  <2> QED
    BY <1>1, <1>3, <2>1, <2>3, <2>4, <2>5 DEF LifeBegins, BarsTyped
<1> QED
  BY <1>0, <1>3, <1>4, <1>5, <1>6 DEF BarsIInv, BarsCore

-----------------------------------------------------------------------------
(* Steps that close a bar or compute a tick. *)

\* A task that had no bar in hand takes some.
LEMMA TaskTakes ==
  ASSUME NEW H \in Holders, BarsOf(H) = <<>>, UNCHANGED <<emitted, life>>,
         \A h \in Holders : h # H => BarsOf(h)' = BarsOf(h)
  PROVE  /\ PendingBars' = PendingBars \cup Range(BarsOf(H)')
         /\ WrittenBars' = WrittenBars \cup Range(BarsOf(H)')
         /\ EveryBar' = EveryBar \cup Range(BarsOf(H)')
<1>1. Range(BarsOf(H)) = {}
  BY DEF Range
<1>2. \A h \in Holders : h # H => Range(BarsOf(h)') = Range(BarsOf(h))
  OBVIOUS
<1>3. PendingBars' = PendingBars \cup Range(BarsOf(H)')
  BY <1>1, <1>2, PendingFacts
<1> QED
  BY <1>3 DEF WrittenBars, EveryBar

\* What is in an era clashes in it; a later era tells no more periods apart.
LEMMA ClashesInEra ==
  ASSUME NEW b \in BarRecords, NEW c, NEW era, NEW era2, era2 \in {era, -1},
         Clash(b, c, era2)
  PROVE  Clash(b, c, era)
<1>1. b.life \in Nat
  BY DEF BarRecords
<1> QED
  BY <1>1 DEF Clash

LEMMA EveryBarTyped ==
  ASSUME BarsTyped
  PROVE  EveryBar \subseteq BarRecords /\ WrittenBars \subseteq EveryBar
<1>1. /\ emitted \in Seq(BarRecords) /\ job["main"].bars \in Seq(BarRecords)
      /\ job["flusher"].bars \in Seq(BarRecords) /\ CloserBars \in Seq(BarRecords)
  BY TaskFields, CloserHasOne DEF BarsTyped, BarLists
<1>2. \A q \in Seq(BarRecords) : Range(q) \subseteq BarRecords
  BY DEF Range
<1>3. EveryBar \subseteq BarRecords
  BY <1>1, <1>2 DEF EveryBar, PendingBars
<1>4. WrittenBars \subseteq EveryBar
  BY DEF WrittenBars, EveryBar, Range
<1> QED
  BY <1>3, <1>4

\* The state of a task is the symbol's only one as long as there is no other.
LEMMA OneStateOnly ==
  ASSUME StatesAreWhole, ~Split, NEW x \in Flushers, state[x].start # 0,
         NEW y \in Flushers, state[y].start # 0
  PROVE  x = y
BY DEF StatesAreWhole, Split

LEMMA AppliedFields ==
  ASSUME BarsTyped
  PROVE  /\ \A k \in DOMAIN applied :
              /\ applied[k] \in AppliedTicks
              /\ applied[k].of \in Flushers /\ applied[k].tick \in Nat /\ applied[k].at \in Nat
         /\ applied # <<>> => Len(applied) \in DOMAIN applied /\ 1 \in DOMAIN applied
         /\ applied = <<>> => DOMAIN applied = {}
<1>1. applied \in Seq(AppliedTicks)
  BY DEF BarsTyped
<1>2. \A k \in DOMAIN applied : applied[k] \in AppliedTicks
  BY <1>1
<1>3. \A k \in DOMAIN applied :
        applied[k].of \in Flushers /\ applied[k].tick \in Nat /\ applied[k].at \in Nat
  BY <1>2 DEF AppliedTicks
<1> QED
  BY <1>1, <1>2, <1>3

LEMMA CloserClosesKeeps == BarsIInv /\ CloserCloses => BarsIInv'
<1> SUFFICES ASSUME BarsIInv, CloserCloses
             PROVE  BarsIInv'
  OBVIOUS
<1>0. BarsTyped /\ TasksHold /\ EachWaitsOnce
  BY DEF BarsIInv
<1> DEFINE x == closer.of
           s == state[x]
           b == Bar(s, x, "closer")
<1>1. UNCHANGED <<clock, ticks, batch, states, job, applied, emitted, life, barFaults>>
      /\ closer.step = "close"
  BY DEF CloserCloses
<1>2. x \in Flushers /\ closer.now <= clock /\ closer.bars = <<>>
  BY <1>0, <1>1 DEF TasksHold
<1>3. CASE ~Stale(s, closer.now)
  <2>1. closer' = Asleep /\ state' = state
    BY <1>3 DEF CloserCloses
  <2> QED
    BY <1>1, <2>1, CloserRests
<1>4. CASE Stale(s, closer.now)
  <2>1. /\ state' = [state EXCEPT ![x] = Spent(s)]
        /\ \/ closer' = [closer EXCEPT !.step = "write", !.bars = <<Handed(Spent(s), x)>>]
           \/ closer' = [closer EXCEPT !.step = "held"]
    BY <1>4 DEF CloserCloses
  <2>2. s.count > 0 /\ s.start + BarLength + Grace <= closer.now /\ s \in SymbolStates
    BY <1>0, <1>2, <1>4, TaskFields, FeatureBarsAssumption DEF Stale, BarsTyped, SymbolStates
  <2>3. /\ state'[x] = Spent(s) /\ state' \in [Flushers -> SymbolStates]
        /\ \A y \in Flushers : y # x => state'[y] = state[y]
        /\ Spent(s).start = s.start /\ Spent(s).count = 0 /\ Spent(s).ticks = s.ticks
        /\ Spent(s).volume = s.volume /\ Spent(s).previous = s.previous
    <3>1. /\ Spent(s).start = s.start /\ Spent(s).count = 0 /\ Spent(s).ticks = s.ticks
          /\ Spent(s).volume = s.volume /\ Spent(s).previous = s.previous
          /\ Spent(s) \in SymbolStates
      BY <2>2 DEF Spent, SymbolStates
    <3> QED
      BY <1>0, <1>2, <2>1, <3>1 DEF BarsTyped
  <2>4. /\ b \in BarRecords /\ b.start = s.start /\ b.ticks = s.ticks /\ b.life = life
        /\ b.volume = s.volume /\ ~Late(b)
    BY <1>0, <1>2, <2>2 DEF Bar, BarRecords, BarsTyped, SymbolStates, Late
  <2>a. Handed(Spent(s), x) = b /\ Handed(state[x], x)' = b
    <3>1. ~(Spent(s).count > 0)
      BY <2>3
    <3>2. Handed(Spent(s), x) = b
      BY <2>3, <3>1 DEF Handed, Bar
    <3> QED
      <4>1. closer'.of = x
        BY <1>0, <2>1, TaskFields DEF CloserJobs
      <4>2. /\ state'[closer'.of].start = s.start /\ state'[closer'.of].ticks = s.ticks
            /\ state'[closer'.of].volume = s.volume /\ ~(state'[closer'.of].count > 0)
            /\ life' = life
        BY <1>1, <2>3, <3>1, <4>1
      <4> QED
        BY <3>2, <4>1, <4>2 DEF Handed, Bar
  <2> HIDE DEF b
  <2>5. /\ closer' \in CloserJobs /\ closer'.step \in {"held", "write"} /\ closer'.of = x
        /\ CloserBars' = <<b>>
    <3>1. <<b>> \in BarLists /\ <<b>> # <<>> /\ closer \in CloserJobs
      BY <1>0, <2>4, TaskFields DEF BarLists
    <3>2. CASE closer' = [closer EXCEPT !.step = "write", !.bars = <<b>>]
      <4>1. closer' \in CloserJobs /\ closer'.step = "write" /\ closer'.of = x
            /\ closer'.bars = <<b>>
        BY <3>1, <3>2 DEF CloserJobs
      <4> QED
        BY <4>1 DEF CloserBars
    <3>3. CASE closer' = [closer EXCEPT !.step = "held"]
      <4>1. closer' \in CloserJobs /\ closer'.step = "held" /\ closer'.of = x
            /\ closer'.bars = <<>>
        BY <1>2, <3>1, <3>3 DEF CloserJobs
      <4>2. CloserBars' = <<Handed(state[x], x)'>>
        BY <4>1 DEF CloserBars, Handed, Bar
      <4> QED
        BY <2>a, <4>1, <4>2
    <3> QED
      BY <2>1, <2>a, <3>2, <3>3
  <2>6. BarsTyped'
    BY <1>0, <1>1, <1>2, <2>3, <2>5 DEF BarsTyped
  <2>7. TasksHold'
    <3>1. s.start # 0
      BY <1>2, <2>2 DEF BarsIInv, StatesAreWhole, NewSymbolState
    <3> QED
      BY <1>0, <1>1, <2>3, <2>5, <3>1 DEF TasksHold
  <2>8. Waiting' = Waiting /\ EachWaitsOnce'
    BY <1>0, <1>1, NoneWaitsMore
  <2>9. Range(BarsOf("closer")') = {b} /\ BarsOf("closer") = <<>> /\ "closer" \in Holders
    BY <1>1, <1>2, <2>5, HolderFacts DEF Range, CloserBars
  <2>10. \A h \in Holders : h # "closer" => BarsOf(h)' = BarsOf(h) /\ Held(h)' = Held(h)
    BY <1>1 DEF BarsOf, Held
  <2>11. Held("closer") = {} /\ Held("closer")' = {b}
    BY <1>1, <2>5, <2>9, HolderFacts DEF CloserHeld
  <2>12. /\ PendingBars' = PendingBars \cup {b} /\ WrittenBars' = WrittenBars \cup {b}
         /\ EveryBar' = EveryBar \cup {b}
    BY <1>1, <2>9, <2>10, TaskTakes
  <2>13. /\ (Punctual' <=> Punctual) /\ Era' = Era /\ (BeforeGrace' <=> BeforeGrace)
         /\ BarsAreWhole /\ StatesAreWhole /\ AppliedTicksAreKept /\ NoTwoClash
    BY <1>1, TicksDoStay, PunctualStays DEF BarsIInv
  <2>14. /\ s.start # 0 /\ applied # <<>> /\ InPeriod(s, ticks) /\ x \in Open
    BY <1>2, <2>2, <2>13 DEF StatesAreWhole, NewSymbolState, Open
  <2>15. \A c \in EveryBar : ~Clash(c, b, Era) /\ ~Clash(b, c, Era)
    <3>1. /\ OpenBar(x).ticks = b.ticks /\ OpenBar(x).start = b.start /\ OpenBar(x).life = b.life
          /\ ~Late(OpenBar(x)) /\ ~Late(b)
      BY <2>4 DEF OpenBar, Bar, Late
    <3> QED
      BY <2>13, <2>14, <3>1 DEF NoTwoClash, Clash
  <2>16. WaitingTicksAreNew'
    <3>1. \A y \in Flushers : state'[y].ticks = state[y].ticks
      BY <2>3
    <3> QED
      BY <1>2, <2>4, <2>8, <2>12, <3>1 DEF BarsIInv, WaitingTicksAreNew
  <2>17. BarsAreWhole'
    <3>1. InPeriod(b, ticks) /\ life <= life
      BY <1>0, <2>4, <2>14 DEF InPeriod, BarsTyped
    <3> QED
      BY <1>1, <2>4, <2>12, <2>13, <2>14, <3>1 DEF BarsAreWhole
  <2>18. StatesAreWhole'
    <3>1. s.start + BarLength + Grace <= clock
      <4> DEFINE e == s.start + BarLength + Grace
      <4>1. e \in Int /\ e <= closer.now
        BY <2>2, FeatureBarsAssumption DEF SymbolStates
      <4>2. closer.now \in Int /\ clock \in Int
        BY <1>0, TaskFields DEF BarsTyped, Times
      <4> HIDE DEF e
      <4>3. e <= clock
        BY <1>2, <4>1, <4>2
      <4> QED
        BY <4>3 DEF e
    <3> SUFFICES ASSUME NEW y \in Flushers
                 PROVE  /\ InPeriod(state'[y], ticks)
                        /\ state'[y].start = 0 => state'[y] = NewSymbolState
                        /\ state'[y].start # 0 =>
                             state'[y].previous \in Times
                               /\ state'[y].start = StartOf(state'[y].previous)
                        /\ state'[y].start # 0 <=> \E k \in DOMAIN applied : applied[k].of = y
                        /\ state'[y].start # 0 /\ state'[y].count = 0 =>
                             state'[y].start + BarLength + Grace <= clock
      BY <1>1 DEF StatesAreWhole
    <3>2. CASE y # x
      BY <2>3, <2>13, <3>2 DEF StatesAreWhole
    <3>3. CASE y = x
      BY <1>2, <2>3, <2>13, <2>14, <3>1, <3>3 DEF StatesAreWhole, InPeriod
    <3> QED
      BY <3>2, <3>3
  <2>19. AppliedTicksAreKept'
    <3>1. ASSUME NEW k \in DOMAIN applied
          PROVE  Covered(applied[k].tick, state'[applied[k].of], WrittenBars', ticks)
      <4> DEFINE t == applied[k].tick
                 y == applied[k].of
      <4>1. Covered(t, state[y], WrittenBars, ticks) /\ y \in Flushers
        BY <1>0, <2>13, AppliedFields DEF AppliedTicksAreKept
      <4>2. CASE y = x /\ t \in s.ticks
        <5>1. t \in b.ticks /\ b.start = StartOf(ticks[t])
          BY <2>4, <2>14, <4>2 DEF InPeriod
        <5> QED
          BY <2>12, <5>1 DEF Covered
      <4>3. CASE ~(y = x /\ t \in s.ticks)
        BY <2>3, <2>12, <4>1, <4>3 DEF Covered
      <4> QED
        BY <4>2, <4>3
    <3>2. \A y \in Flushers : state'[y].previous = state[y].previous
      BY <2>3
    <3>3. applied # <<>> => Len(applied) \in DOMAIN applied /\ applied[Len(applied)].of \in Flushers
      BY <1>0, AppliedFields
    <3> QED
      BY <1>1, <2>13, <3>1, <3>2, <3>3 DEF AppliedTicksAreKept
  <2>20. NoTwoClash'
    <3>1. \A i \in DOMAIN emitted : emitted[i] \in EveryBar
      BY DEF EveryBar, Range
    <3>2. \A h \in Holders : \A c \in Held(h) : c \in EveryBar
      BY HeldIsInHand, PendingFacts
    <3>3. \A i, j \in DOMAIN emitted : i # j => ~Clash(emitted[i], emitted[j], Era)
      BY <2>13 DEF NoTwoClash
    <3>4. \A i \in DOMAIN emitted, h \in Holders : \A c \in Held(h)' : ~Clash(emitted[i], c, Era)
      BY <2>10, <2>11, <2>13, <2>15, <3>1 DEF NoTwoClash
    <3>5. \A h, k \in Holders : \A c \in Held(h)', d \in Held(k)' : h # k => ~Clash(c, d, Era)
      BY <2>10, <2>11, <2>13, <2>15, <3>2 DEF NoTwoClash
    <3>6. Open' = Open \ {x}
      BY <1>2, <2>3 DEF Open
    <3>7. \A y \in Open' : OpenBar(y)' = OpenBar(y)
      BY <1>1, <2>3, <3>6 DEF OpenBar, Bar, Open
    <3>8. \A y \in Open' : ~Clash(b, OpenBar(y), Era)
      <4> TAKE y \in Open'
      <4>1. y \in Open /\ x \in Open /\ x # y
        BY <2>14, <3>6
      <4>2. ~Clash(OpenBar(x), OpenBar(y), Era)
        BY <2>13, <4>1 DEF NoTwoClash
      <4>3. /\ OpenBar(x).ticks = b.ticks /\ OpenBar(x).start = b.start
            /\ OpenBar(x).life = b.life /\ ~Late(OpenBar(x)) /\ ~Late(b)
        BY <2>4 DEF OpenBar, Bar, Late
      <4> QED
        BY <4>2, <4>3 DEF Clash
    <3>9. \A y \in Open' : /\ \A c \in EveryBar' : ~Clash(c, OpenBar(y)', Era')
                           /\ \A z \in Open' : y # z => ~Clash(OpenBar(y)', OpenBar(z)', Era')
      BY <2>12, <2>13, <3>6, <3>7, <3>8 DEF NoTwoClash
    <3> QED
      BY <1>1, <2>13, <3>3, <3>4, <3>5, <3>9 DEF NoTwoClash
  <2>21. NoneIsAhead'
    <3> SUFFICES ASSUME Punctual, NEW y \in Flushers, NEW c \in WrittenBars', state'[y].start # 0
                 PROVE  c.start <= state'[y].start
      BY <2>13 DEF NoneIsAhead
    <3>1. state'[y].start = state[y].start
      BY <2>3
    <3>2. CASE c \in WrittenBars
      BY <3>1, <3>2 DEF BarsIInv, NoneIsAhead
    <3>3. CASE c = b
      <4>1. y = x
        BY <1>2, <2>13, <2>14, <3>1, OneStateOnly DEF Punctual
      <4> QED
        BY <2>2, <2>4, <3>1, <3>3, <4>1 DEF SymbolStates
    <3> QED
      BY <2>12, <3>2, <3>3
  <2>22. VolumeAddsUp'
    <3> SUFFICES ASSUME Punctual
                 PROVE  VolumeAddsUp'
      BY <2>13 DEF VolumeAddsUp, Punctual
    <3> DEFINE f == applied[1]
    <3>1. f.of = x /\ 1 \in DOMAIN applied
      <4>1. 1 \in DOMAIN applied
        BY <1>0, <2>14 DEF BarsTyped
      <4>2. \E k \in DOMAIN applied : applied[k].of = x
        BY <1>2, <2>13, <2>14 DEF StatesAreWhole
      <4> QED
        BY <4>1, <4>2 DEF Punctual, Split
    <3>2. Traded + s.volume = s.previous - ticks[f.tick]
      <4>1. VolumeAddsUp
        BY DEF BarsIInv
      <4> QED
        BY <2>2, <2>14, <3>1, <4>1 DEF VolumeAddsUp, Punctual
    <3>3. Traded' = Traded + s.volume
      <4>1. b \notin WrittenBars
        BY <1>0, <2>15, EveryBarTyped DEF Clash
      <4>2. /\ WrittenBars \in SUBSET BarRecords /\ IsFiniteSet(WrittenBars)
            /\ Traded = SumOf(Volumes, WrittenBars)
            /\ Traded' = SumOf(Volumes, WrittenBars \cup {b})
        BY <1>0, <2>6, <2>12, TradedIsSum
      <4> QED
        BY <2>4, <4>1, <4>2, VolumeOfMore
    <3>4. Traded' \in Int
      BY <1>0, <2>6, TradedIsSum
    <3>5. Traded' + 0 = state'[x].previous - ticks[f.tick] /\ ~(state'[x].count > 0)
      BY <2>3, <3>2, <3>3, <3>4
    <3> QED
      BY <1>1, <3>1, <3>5 DEF VolumeAddsUp
  <2>23. LateBarsHaveLateTicks'
    BY <1>1, <2>4, <2>12, <2>13 DEF BarsIInv, LateBarsHaveLateTicks
  <2> QED
    BY <2>6, <2>7, <2>8, <2>16, <2>17, <2>18, <2>19, <2>20, <2>21, <2>22, <2>23 DEF BarsIInv
<1> QED
  BY <1>3, <1>4

\* The start of a period is at least one bar after nothing, and grows.
LEMMA StartsGrow ==
  ASSUME NEW a \in Times, NEW b \in Times
  PROVE  /\ StartOf(a) \in Nat \ {0} /\ a \in Nat \ {0}
         /\ a <= b => StartOf(a) <= StartOf(b)
<1> DEFINE p == a \div BarLength
           q == b \div BarLength
<1>1. a \in Nat /\ b \in Nat /\ BarLength \in Nat \ {0} /\ BarLength <= a /\ a # 0
  BY FeatureBarsAssumption DEF Times
<1>2. p \in Nat /\ q \in Nat /\ a < BarLength * p + BarLength
  BY <1>1, DivType
<1>3. a <= b => p <= q
  BY <1>1, DivMonotone
<1>4. StartOf(a) = p * BarLength /\ StartOf(b) = q * BarLength
  BY DEF StartOf
<1> HIDE DEF p, q
<1>5. p # 0
  <2> SUFFICES ASSUME p = 0
               PROVE  FALSE
    OBVIOUS
  <2>1. BarLength * p = 0
    BY <1>1
  <2> QED
    BY <1>1, <1>2, <2>1
<1>6. p * BarLength \in Nat \ {0}
  <2>1. p >= 1 /\ p * BarLength \in Nat
    BY <1>1, <1>2, <1>5
  <2>2. 1 * BarLength <= p * BarLength
    BY <1>1, <1>2, <2>1
  <2> QED
    BY <1>1, <2>1, <2>2
<1>7. p <= q => p * BarLength <= q * BarLength
  BY <1>1, <1>2
<1> QED
  BY <1>1, <1>3, <1>4, <1>6, <1>7

\* update_bars: what it makes of a state.
LEMMA UpdateFacts ==
  ASSUME NEW s \in SymbolStates, NEW i \in DOMAIN ticks, ticks \in Seq(Times)
  PROVE  LET u == UpdateBars(s, i)
             same == s.start \in {0, StartOf(ticks[i])}
             grown == VolumeDelta(s, ticks[i])
         IN  /\ u \in SymbolStates /\ u.start = StartOf(ticks[i]) /\ u.start # 0
             /\ u.previous = ticks[i] /\ ticks[i] \in Times
             /\ grown \in Nat /\ u.count \in Nat \ {0}
             /\ same => u.ticks = s.ticks \cup {i} /\ u.volume = s.volume + grown
             /\ ~same => u.ticks = {i} /\ u.volume = grown
<1> DEFINE u == UpdateBars(s, i)
           same == s.start \in {0, StartOf(ticks[i])}
           grown == VolumeDelta(s, ticks[i])
           start == StartOf(ticks[i])
           count == IF same THEN s.count + 1 ELSE 1
           held == IF same THEN s.ticks \cup {i} ELSE {i}
           volume == IF same THEN s.volume + grown ELSE grown
<1>1. /\ s.start \in Nat /\ s.count \in Nat /\ s.ticks \in SUBSET Nat
      /\ s.volume \in Nat /\ s.previous \in Nat
  BY DEF SymbolStates
<1>2. ticks[i] \in Times /\ i \in Nat
  OBVIOUS
<1>3. start \in Nat \ {0} /\ ticks[i] \in Nat
  BY <1>2, StartsGrow
<1>4. grown \in Nat
  BY <1>1, <1>3 DEF VolumeDelta
<1>5. u = [start |-> start, count |-> count, ticks |-> held, volume |-> volume,
           previous |-> ticks[i]]
  BY DEF UpdateBars, SameBar
<1> HIDE DEF u, same, grown, start
<1>6. /\ count \in Nat \ {0} /\ volume \in Nat
      /\ held \in SUBSET Nat
  BY <1>1, <1>2, <1>4
<1> HIDE DEF count, held, volume
<1>7. u \in SymbolStates
  BY <1>3, <1>5, <1>6 DEF SymbolStates
<1>8. /\ u.start = start /\ u.previous = ticks[i] /\ u.count = count /\ u.ticks = held
      /\ u.volume = volume
  BY <1>5
<1>9. /\ same => held = s.ticks \cup {i} /\ volume = s.volume + grown
      /\ ~same => held = {i} /\ volume = grown
  BY DEF held, volume
<1>10. /\ u \in SymbolStates /\ u.start = start /\ u.start # 0
       /\ u.previous = ticks[i] /\ ticks[i] \in Times
       /\ grown \in Nat /\ u.count \in Nat \ {0}
       /\ same => u.ticks = s.ticks \cup {i} /\ u.volume = s.volume + grown
       /\ ~same => u.ticks = {i} /\ u.volume = grown
  BY <1>2, <1>3, <1>4, <1>6, <1>7, <1>8, <1>9
<1> QED
  BY <1>10 DEF u, same, grown, start

\* A computed tick more: punctual now only if it was, by the same state and not
\* earlier than the last one.
LEMMA PunctualSoFar ==
  ASSUME BarsTyped, UNCHANGED <<ticks, life>>, NEW i \in DOMAIN ticks, NEW x \in Flushers,
         applied' = Append(applied, [tick |-> i, of |-> x, at |-> clock])
  PROVE  /\ Punctual' =>
              /\ Punctual
              /\ \A k \in DOMAIN applied :
                   applied[k].of = x /\ ticks[applied[k].tick] <= ticks[i]
              /\ clock < StartOf(ticks[i]) + BarLength + Grace
         /\ Era' \in {Era, -1}
         /\ DOMAIN applied \subseteq DOMAIN applied'
         /\ \A k \in DOMAIN applied : applied'[k] = applied[k]
         /\ Len(applied') \in DOMAIN applied' /\ Len(applied') \notin DOMAIN applied
         /\ applied'[Len(applied')] = [tick |-> i, of |-> x, at |-> clock]
         /\ \A k \in DOMAIN applied' : k \in DOMAIN applied \/ k = Len(applied')
         /\ applied' # <<>> /\ 1 \in DOMAIN applied'
<1> DEFINE D == DOMAIN applied
           top == Len(applied')
           a == [tick |-> i, of |-> x, at |-> clock]
<1>1. /\ DOMAIN applied' = D \cup {top} /\ top \notin D /\ applied'[top] = a
      /\ \A k \in D : applied'[k] = applied[k] /\ k <= top
      /\ applied' # <<>> /\ 1 \in DOMAIN applied'
  <2>1. applied \in Seq(AppliedTicks)
    BY DEF BarsTyped
  <2> HIDE DEF a
  <2>2. applied' = Append(applied, a)
    BY DEF a
  <2> QED
    BY <2>1, <2>2
<1> HIDE DEF D, top
<1>2. ASSUME Punctual'
      PROVE  /\ Punctual
             /\ \A k \in D : applied[k].of = x /\ ticks[applied[k].tick] <= ticks[i]
             /\ clock < StartOf(ticks[i]) + BarLength + Grace
  <2>1. InExchangeOrder /\ \A k \in D : ticks[applied[k].tick] <= ticks[i]
    BY <1>1, <1>2 DEF Punctual, InExchangeOrder, D
  <2>2. BeforeGrace /\ clock < StartOf(ticks[i]) + BarLength + Grace
    BY <1>1, <1>2 DEF Punctual, BeforeGrace, D
  <2>3. ~Split /\ \A k \in D : applied[k].of = x
    BY <1>1, <1>2 DEF Punctual, Split, D
  <2> QED
    BY <2>1, <2>2, <2>3 DEF Punctual
<1>3. Era' \in {Era, -1}
  BY <1>2 DEF Era
<1> QED
  BY <1>1, <1>2, <1>3 DEF D, top

\* ... and in time only if all of them were.
LEMMA InTimeSoFar ==
  ASSUME BarsTyped, UNCHANGED ticks, NEW i \in DOMAIN ticks, NEW x \in Flushers,
         applied' = Append(applied, [tick |-> i, of |-> x, at |-> clock])
  PROVE  BeforeGrace' => BeforeGrace /\ clock < StartOf(ticks[i]) + BarLength + Grace
<1> DEFINE D == DOMAIN applied
           top == Len(applied')
           a == [tick |-> i, of |-> x, at |-> clock]
<1>1. /\ DOMAIN applied' = D \cup {top} /\ applied'[top] = a
      /\ \A k \in D : applied'[k] = applied[k]
  <2>1. applied \in Seq(AppliedTicks)
    BY DEF BarsTyped
  <2> HIDE DEF a
  <2>2. applied' = Append(applied, a)
    BY DEF a
  <2> QED
    BY <2>1, <2>2
<1> HIDE DEF D, top
<1> QED
  BY <1>1 DEF BeforeGrace, D

\* What a computed tick does to the bars that are written or in hand: the bars
\* C, closed by it, are taken in hand, or the bar that the closer holds becomes
\* one of L, with the tick in it, which is late.
NoneReopened(C, L) ==
  /\ L = {}
  /\ PendingBars' = PendingBars \cup C
  /\ WrittenBars' = WrittenBars \cup C
  /\ EveryBar' = EveryBar \cup C

HeldReopened(x, s, u, C, L) ==
  /\ C = {} /\ L = {Bar(u, x, "late")} /\ s.start = u.start /\ ~BeforeGrace'
  /\ PendingBars' \subseteq PendingBars \cup L
  /\ WrittenBars' \subseteq WrittenBars \cup L
  /\ EveryBar' \subseteq EveryBar \cup L
  /\ \A b \in WrittenBars : \E c \in WrittenBars' : b.ticks \subseteq c.ticks /\ b.start = c.start

\* Tick i makes state u of the state s of x.
Computes(x, i, s, u, C, L) ==
  /\ x \in Flushers /\ i \in DOMAIN ticks
  /\ UNCHANGED <<clock, ticks, emitted, life>>
  /\ s = state[x] /\ u = state'[x] /\ s \in SymbolStates /\ u \in SymbolStates
  /\ \A y \in Flushers : y # x => state'[y] = state[y]
  /\ applied' = Append(applied, [tick |-> i, of |-> x, at |-> clock])
  /\ u.start = StartOf(ticks[i]) /\ u.start # 0 /\ u.previous = ticks[i]
  /\ ticks[i] \in Times /\ u.count \in Nat \ {0} /\ VolumeDelta(s, ticks[i]) \in Nat
  /\ \A y \in Flushers : i \notin state[y].ticks
  /\ \A b \in EveryBar : i \notin b.ticks
  /\ \/ /\ s.start \in {0, u.start} /\ C = {}
        /\ u.ticks = s.ticks \cup {i} /\ u.volume = s.volume + VolumeDelta(s, ticks[i])
     \/ /\ s.start \notin {0, u.start}
        /\ C = IF s.count > 0 THEN {Bar(s, x, "tick")} ELSE {}
        /\ u.ticks = {i} /\ u.volume = VolumeDelta(s, ticks[i])
  /\ NoneReopened(C, L) \/ HeldReopened(x, s, u, C, L)

\* The closer, when a tick of state x is computed: a bar that it holds and has
\* not read stays what it was, or is the state's and gets the tick.
LEMMA ComputedForCloser ==
  ASSUME BarsTyped, TasksHold, NEW x \in Flushers, NEW i \in DOMAIN ticks, life' = life,
         state' = [state EXCEPT ![x] = UpdateBars(state[x], i)],
         UpdateBars(state[x], i).start # 0, UpdateBars(state[x], i).count > 0,
         closer' = IF closer.of = x /\ ~SameBar(state[x], i)
                     THEN [closer EXCEPT !.bars = CloserBars] ELSE closer
  PROVE  /\ closer' \in CloserJobs /\ closer'.step = closer.step /\ closer'.of = closer.of
         /\ closer'.now = closer.now
         /\ closer.step \in {"asleep", "close"} => closer'.bars = <<>>
         /\ closer.step = "held" /\ closer'.bars = <<>> => state'[closer.of].start # 0
         /\ \/ CloserBars' = CloserBars
            \/ /\ closer.step = "held" /\ state[x].start # 0 /\ SameBar(state[x], i)
               /\ CloserBars = <<Handed(state[x], x)>>
               /\ CloserBars' = <<Bar(UpdateBars(state[x], i), x, "late")>>
<1> DEFINE s == state[x]
           u == UpdateBars(s, i)
           l == CloserBars
           live == closer.step = "held" /\ closer.bars = <<>>
<1>1. closer \in CloserJobs /\ l \in BarLists
  BY TaskFields, CloserHasOne
<1>2. /\ state'[x] = u /\ \A y \in Flushers : y # x => state'[y] = state[y]
      /\ u.start # 0 /\ u.count > 0
  BY DEF BarsTyped
<1>3. /\ live => /\ l = <<Handed(state[closer.of], closer.of)>> /\ l # <<>>
                 /\ closer.of \in Flushers /\ state[closer.of].start # 0
      /\ ~live => l = closer.bars
  BY DEF CloserBars, BarsTyped, TasksHold
<1>4. closer.step \in {"asleep", "close"} => closer.bars = <<>> /\ ~live
  BY DEF TasksHold
<1>5. CASE closer.of = x /\ ~SameBar(s, i)
  <2>1. closer' = [closer EXCEPT !.bars = l]
    BY <1>5
  <2>2. /\ closer' \in CloserJobs /\ closer'.step = closer.step /\ closer'.of = closer.of
        /\ closer'.now = closer.now /\ closer'.bars = l
    <3> DEFINE c == closer
    <3>1. c \in CloserJobs /\ closer' = [c EXCEPT !.bars = l]
      BY <1>1, <2>1
    <3> HIDE DEF c, l
    <3>2. /\ closer' \in CloserJobs /\ closer'.step = c.step /\ closer'.of = c.of
          /\ closer'.now = c.now /\ closer'.bars = l
      BY <1>1, <3>1 DEF CloserJobs
    <3> QED
      BY <3>2 DEF c
  <2>3. closer'.step = "held" /\ closer'.bars = <<>> => FALSE
    BY <1>3, <2>2
  <2>4. CloserBars' = l
    BY <2>2, <2>3 DEF CloserBars
  <2> QED
    BY <1>3, <1>4, <2>2, <2>3, <2>4
<1>6. CASE ~(closer.of = x /\ ~SameBar(s, i))
  <2>1. closer' = closer
    BY <1>6
  <2>2. closer.step = "held" /\ closer.bars = <<>> => state'[closer.of].start # 0
    BY <1>2, <1>3
  <2>3. CASE ~live
    BY <1>1, <1>3, <1>4, <2>1, <2>2, <2>3 DEF CloserBars
  <2>4. CASE live /\ closer.of # x
    <3>1. Handed(state[closer.of], closer.of)' = Handed(state[closer.of], closer.of)
      BY <1>2, <1>3, <2>1, <2>4 DEF Handed, Bar
    <3>2. CloserBars' = <<Handed(state[closer.of], closer.of)'>>
      BY <2>1, <2>4 DEF CloserBars
    <3> QED
      BY <1>1, <1>3, <1>4, <2>1, <2>2, <2>4, <3>1, <3>2
  <2>5. CASE live /\ closer.of = x
    <3>1. SameBar(s, i) /\ s.start # 0 /\ l = <<Handed(s, x)>>
      BY <1>3, <1>6, <2>5
    <3>2. CloserBars' = <<Handed(state[x], x)'>>
      BY <2>1, <2>5 DEF CloserBars, Handed, Bar
    <3>3. Handed(state[x], x)' = Bar(u, x, "late")
      BY <1>2 DEF Handed, Bar
    <3> QED
      BY <1>1, <1>4, <2>1, <2>2, <2>5, <3>1, <3>2, <3>3
  <2> QED
    BY <2>3, <2>4, <2>5
<1> QED
  BY <1>5, <1>6

\* ... with everything about the tasks that the invariant says.
LEMMA ComputeFacts ==
  ASSUME NEW t \in Flushers, BarsIInv, Compute(t)
  PROVE  /\ BarsTyped' /\ TasksHold' /\ EachWaitsOnce' /\ WaitingTicksAreNew'
         /\ \E x, i, s, u, C, L :
              /\ Computes(x, i, s, u, C, L)
              /\ Held(t) = {} /\ Held(t)' = C
              /\ Held("closer")' \subseteq Held("closer") \cup L
              /\ \A h \in Flushers : h # t => Held(h)' = Held(h)
<1>0. /\ BarsTyped /\ TasksHold /\ EachWaitsOnce /\ StatesAreWhole /\ WaitingTicksAreNew
      /\ LateBarsHaveLateTicks
  BY DEF BarsIInv
<1> DEFINE x == job[t].of
           i == job[t].tick
           s == state[x]
           u == UpdateBars(s, i)
           bars == Completed(s, i, x)
           b == Bar(s, x, "tick")
           C == Range(bars)
           a == [tick |-> i, of |-> x, at |-> clock]
<1>1. UNCHANGED <<clock, ticks, batch, states, emitted, life, barFaults>>
      /\ job[t].step = "seed"
  BY DEF Compute
<1>2. x \in Flushers /\ i \in DOMAIN ticks /\ job[t].bars = <<>> /\ job[t].step \in ToCompute
  BY <1>0, <1>1 DEF TasksHold, ToCompute
<1>3. /\ state' = [state EXCEPT ![x] = u] /\ applied' = Append(applied, a)
      /\ job' = [job EXCEPT ![t] = [@ EXCEPT !.step = "write", !.bars = bars]]
      /\ closer' = IF closer.of = x /\ ~SameBar(s, i)
                     THEN [closer EXCEPT !.bars = CloserBars] ELSE closer
  BY DEF Compute
<1>4. /\ s \in SymbolStates /\ ticks \in Seq(Times) /\ state \in [Flushers -> SymbolStates]
      /\ clock \in Nat /\ applied \in Seq(AppliedTicks) /\ job \in [Flushers -> FlushJobs]
      /\ life \in Nat
  BY <1>0, <1>2, FeatureBarsAssumption DEF BarsTyped, Times
<1>5. /\ u \in SymbolStates /\ u.start = StartOf(ticks[i]) /\ u.start # 0
      /\ u.previous = ticks[i] /\ ticks[i] \in Times
      /\ VolumeDelta(s, ticks[i]) \in Nat /\ u.count \in Nat \ {0}
      /\ s.start \in {0, u.start} =>
           u.ticks = s.ticks \cup {i} /\ u.volume = s.volume + VolumeDelta(s, ticks[i])
      /\ s.start \notin {0, u.start} => u.ticks = {i} /\ u.volume = VolumeDelta(s, ticks[i])
  <2> HIDE DEF s
  <2>1. s \in SymbolStates /\ i \in DOMAIN ticks /\ ticks \in Seq(Times)
    BY <1>2, <1>4
  <2> HIDE DEF i
  <2>2. /\ u \in SymbolStates /\ u.start = StartOf(ticks[i]) /\ u.start # 0
        /\ u.previous = ticks[i] /\ ticks[i] \in Times
        /\ VolumeDelta(s, ticks[i]) \in Nat /\ u.count \in Nat \ {0}
        /\ s.start \in {0, StartOf(ticks[i])} =>
             u.ticks = s.ticks \cup {i} /\ u.volume = s.volume + VolumeDelta(s, ticks[i])
        /\ s.start \notin {0, StartOf(ticks[i])} =>
             u.ticks = {i} /\ u.volume = VolumeDelta(s, ticks[i])
    BY <2>1, UpdateFacts
  <2> HIDE DEF u
  <2> QED
    BY <2>2
<1>6. s.start = 0 => s.count = 0
  BY <1>0, <1>2 DEF StatesAreWhole, NewSymbolState
<1>7. /\ bars \in BarLists
      /\ s.start \in {0, u.start} => C = {}
      /\ s.start \notin {0, u.start} => C = IF s.count > 0 THEN {b} ELSE {}
  <2>1. b \in BarRecords
    BY <1>2, <1>4 DEF Bar, BarRecords, SymbolStates
  <2>2. <<b>> \in BarLists /\ Range(<<b>>) = {b} /\ <<>> \in BarLists /\ Range(<<>>) = {}
    BY <2>1 DEF BarLists, Range
  <2>3. bars = IF s.start \notin {0, u.start} /\ s.count > 0 THEN <<b>> ELSE <<>>
    BY <1>5 DEF Completed, SameBar
  <2> HIDE DEF b, s, u, bars
  <2> QED
    BY <2>2, <2>3
<1>21. /\ closer' \in CloserJobs /\ closer'.step = closer.step /\ closer'.of = closer.of
       /\ closer'.now = closer.now
       /\ closer.step \in {"asleep", "close"} => closer'.bars = <<>>
       /\ closer.step = "held" /\ closer'.bars = <<>> => state'[closer.of].start # 0
       /\ \/ CloserBars' = CloserBars
          \/ /\ closer.step = "held" /\ s.start # 0 /\ SameBar(s, i)
             /\ CloserBars = <<Handed(s, x)>> /\ CloserBars' = <<Bar(u, x, "late")>>
  <2>1. /\ x \in Flushers /\ i \in DOMAIN ticks /\ life' = life
        /\ u.start # 0 /\ u.count > 0
    BY <1>1, <1>2, <1>5
  <2>2. /\ state' = [state EXCEPT ![x] = UpdateBars(state[x], i)]
        /\ closer' = IF closer.of = x /\ ~SameBar(state[x], i)
                       THEN [closer EXCEPT !.bars = CloserBars] ELSE closer
    BY <1>3
  <2> HIDE DEF x, i
  <2> QED
    BY <1>0, <2>1, <2>2, ComputedForCloser
<1> HIDE DEF bars, u
<1>8. /\ job'[t].step = "write" /\ job'[t].bars = bars /\ job'[t].of = x /\ job'[t].tick = i
      /\ \A y \in Flushers : y # t => job'[y] = job[y]
      /\ job' \in [Flushers -> FlushJobs]
  <2> DEFINE q == job[t]
             r == [q EXCEPT !.step = "write", !.bars = bars]
  <2>1. q \in FlushJobs
    BY <1>4
  <2>2. job' = [job EXCEPT ![t] = r]
    BY <1>3
  <2> HIDE DEF q
  <2>3. r \in FlushJobs /\ r.step = "write" /\ r.bars = bars /\ r.of = q.of /\ r.tick = q.tick
    BY <1>7, <2>1 DEF FlushJobs
  <2> HIDE DEF r
  <2> QED
    BY <1>4, <2>2, <2>3 DEF q
<1>9. state' \in [Flushers -> SymbolStates] /\ state'[x] = u
      /\ \A y \in Flushers : y # x => state'[y] = state[y]
  BY <1>2, <1>3, <1>4, <1>5
<1>10. BarsTyped'
  <2>1. a \in AppliedTicks
    BY <1>2, <1>4 DEF AppliedTicks
  <2>2. applied' \in Seq(AppliedTicks)
    <3> HIDE DEF a
    <3> QED
      BY <1>3, <1>4, <2>1
  <2> QED
    BY <1>0, <1>1, <1>8, <1>9, <1>21, <2>2 DEF BarsTyped
<1>11. TasksHold'
  BY <1>0, <1>1, <1>2, <1>8, <1>21 DEF TasksHold, ToCompute
<1>12. Waiting' \subseteq Waiting \ {i} /\ EachWaitsOnce'
  <2>1. "main" \in Flushers /\ "flusher" \in Flushers
    BY DEF Flushers
  <2>2. Waiting' \subseteq Waiting /\ EachWaitsOnce'
    BY <1>0, <1>1, <1>8, <2>1, LessWaiting DEF ToCompute
  <2>3. i \notin Range(batch)
    BY <1>0, <1>2 DEF EachWaitsOnce
  <2>4. \A y \in Flushers : y # t /\ job[y].step \in ToCompute => job[y].tick # i
    BY <1>0, <1>2 DEF EachWaitsOnce, Flushers
  <2>5. i \notin Waiting'
    <3>1. \A y \in Flushers : job'[y].step \in ToCompute => job'[y].tick # i
      BY <1>8, <2>4 DEF ToCompute
    <3> QED
      BY <1>1, <2>3, <3>1 DEF Waiting
  <2> QED
    BY <2>2, <2>5
<1>13. i \in Waiting
  BY <1>2 DEF Waiting
<1>14. BarsOf(t) = <<>> /\ BarsOf(t)' = bars /\ t \in Holders
  BY <1>2, <1>8, HolderFacts
<1>15. \A h \in Flushers : h # t => BarsOf(h)' = BarsOf(h) /\ Held(h)' = Held(h)
  <2> TAKE h \in Flushers
  <2>1. h # t => job'[h] = job[h]
    BY <1>8
  <2> QED
    BY <2>1, HolderFacts
<1>16. \E L : /\ NoneReopened(C, L) \/ HeldReopened(x, s, u, C, L)
              /\ Held("closer")' \subseteq Held("closer") \cup L
              /\ \A c \in L : c.ticks = u.ticks
  <2>1. CASE CloserBars' = CloserBars
    <3>1. BarsOf("closer")' = BarsOf("closer") /\ Held("closer")' = Held("closer")
      BY <1>21, <2>1, HolderFacts DEF CloserHeld
    <3>2. \A h \in Holders : h # t => BarsOf(h)' = BarsOf(h)
      BY <1>15, <3>1, HolderFacts
    <3>3. NoneReopened(C, {})
      BY <1>1, <1>14, <3>2, TaskTakes DEF NoneReopened
    <3> QED
      BY <3>1, <3>3
  <2>2. CASE /\ closer.step = "held" /\ s.start # 0 /\ SameBar(s, i)
             /\ CloserBars = <<Handed(s, x)>> /\ CloserBars' = <<Bar(u, x, "late")>>
    <3> DEFINE old == Handed(s, x)
               new == Bar(u, x, "late")
    <3>1. s.start = u.start /\ C = {} /\ s.ticks \subseteq u.ticks
      BY <1>5, <1>7, <2>2 DEF SameBar
    <3>2. /\ old.start = s.start /\ old.ticks = s.ticks /\ old.life = life
          /\ new.start = u.start /\ new.ticks = u.ticks /\ (s.count > 0 => Late(old))
      BY DEF Handed, Bar, Late
    <3> HIDE DEF old, new
    <3>3. Range(BarsOf("closer")) = {old} /\ Range(BarsOf("closer")') = {new}
      <4>1. \A c : Range(<<c>>) = {c}
        BY DEF Range
      <4> QED
        BY <2>2, <4>1, HolderFacts DEF old, new
    <3>4. Range(BarsOf(t)) = {} /\ Range(BarsOf(t)') = {}
      BY <1>14, <3>1 DEF Range
    <3>5. /\ old \in PendingBars /\ new \in PendingBars'
          /\ PendingBars' \subseteq PendingBars \cup {new}
          /\ PendingBars \subseteq PendingBars' \cup {old}
      BY <1>15, <3>3, <3>4, HolderFacts, PendingFacts
    <3>6. ~BeforeGrace'
      <4>1. BeforeGrace' => BeforeGrace /\ clock < StartOf(ticks[i]) + BarLength + Grace
        BY <1>0, <1>1, <1>2, <1>3, InTimeSoFar
      <4>2. s.count > 0 => ~BeforeGrace
        BY <1>0, <3>2, <3>5 DEF LateBarsHaveLateTicks, EveryBar
      <4>3. s.count = 0 => ~(clock < StartOf(ticks[i]) + BarLength + Grace)
        <5> DEFINE e == s.start + BarLength + Grace
        <5>1. s.count = 0 => e <= clock
          BY <1>0, <1>2, <2>2 DEF StatesAreWhole
        <5>2. e \in Int /\ clock \in Int /\ e = StartOf(ticks[i]) + BarLength + Grace
          BY <1>4, <1>5, <3>1, FeatureBarsAssumption DEF SymbolStates
        <5> HIDE DEF e
        <5>3. s.count = 0 => ~(clock < e)
          BY <5>1, <5>2
        <5> QED
          BY <5>2, <5>3
      <4>4. s.count > 0 \/ s.count = 0
        BY <1>4 DEF SymbolStates
      <4> QED
        BY <4>1, <4>2, <4>3, <4>4
    <3>7. /\ WrittenBars' \subseteq WrittenBars \cup {new}
          /\ EveryBar' \subseteq EveryBar \cup {new}
      BY <1>1, <3>5 DEF WrittenBars, EveryBar
    <3>8. \A c \in WrittenBars : c \in WrittenBars' \/ (c = old /\ new \in WrittenBars')
      BY <1>1, <3>5 DEF WrittenBars
    <3>9. HeldReopened(x, s, u, C, {new})
      <4>1. \A c \in WrittenBars :
              \E d \in WrittenBars' : c.ticks \subseteq d.ticks /\ c.start = d.start
        BY <3>1, <3>2, <3>8
      <4> QED
        BY <3>1, <3>5, <3>6, <3>7, <4>1 DEF HeldReopened, new
    <3>10. Held("closer")' \subseteq {new}
      BY <3>3, HolderFacts DEF CloserHeld
    <3> QED
      BY <3>2, <3>9, <3>10
  <2> QED
    BY <1>21, <2>1, <2>2
<1>22. PICK L : /\ NoneReopened(C, L) \/ HeldReopened(x, s, u, C, L)
                /\ Held("closer")' \subseteq Held("closer") \cup L
                /\ \A c \in L : c.ticks = u.ticks
  BY <1>16
<1>23. EveryBar' \subseteq EveryBar \cup C \cup L
  BY <1>22 DEF NoneReopened, HeldReopened
<1>17. Held(t) = {} /\ Held(t)' = C
  BY <1>1, <1>8, HolderFacts DEF HeldAt
<1>18. WaitingTicksAreNew'
  <2> SUFFICES ASSUME NEW k \in Waiting'
               PROVE  /\ \A y \in Flushers : k \notin state'[y].ticks
                      /\ \A c \in EveryBar' : k \notin c.ticks
    BY DEF WaitingTicksAreNew
  <2>1. k # i /\ k \in Waiting
    BY <1>12
  <2>2. (\A y \in Flushers : k \notin state[y].ticks) /\ \A c \in EveryBar : k \notin c.ticks
    BY <1>0, <2>1 DEF WaitingTicksAreNew
  <2>3. \A c \in C : c.ticks = s.ticks
    BY <1>7 DEF Bar
  <2>4. u.ticks \subseteq s.ticks \cup {i}
    BY <1>5
  <2> QED
    BY <1>2, <1>9, <1>22, <1>23, <2>1, <2>2, <2>3, <2>4
<1>19. /\ \A y \in Flushers : i \notin state[y].ticks
       /\ \A c \in EveryBar : i \notin c.ticks
  BY <1>0, <1>13 DEF WaitingTicksAreNew
<1>20. Computes(x, i, s, state'[x], C, L)
  BY <1>1, <1>2, <1>3, <1>4, <1>5, <1>7, <1>9, <1>19, <1>22 DEF Computes
<1> QED
  BY <1>10, <1>11, <1>12, <1>15, <1>17, <1>18, <1>20, <1>22

LEMMA ComputedIsWhole ==
  ASSUME BarsIInv, BarsTyped', NEW x, NEW i, NEW s, NEW u, NEW C, NEW L,
         Computes(x, i, s, u, C, L)
  PROVE  BarsAreWhole' /\ StatesAreWhole' /\ AppliedTicksAreKept'
<1>0. BarsTyped /\ BarsAreWhole /\ StatesAreWhole /\ AppliedTicksAreKept
  BY DEF BarsIInv
<1>1. /\ x \in Flushers /\ i \in DOMAIN ticks /\ UNCHANGED <<clock, ticks, emitted, life>>
      /\ s = state[x] /\ u = state'[x]
      /\ \A y \in Flushers : y # x => state'[y] = state[y]
      /\ u.start = StartOf(ticks[i]) /\ u.start # 0 /\ u.previous = ticks[i]
      /\ ticks[i] \in Times /\ u.count \in Nat \ {0}
      /\ PendingBars' \subseteq PendingBars \cup C \cup L
      /\ EveryBar' \subseteq EveryBar \cup C \cup L
      /\ applied' = Append(applied, [tick |-> i, of |-> x, at |-> clock])
      /\ \A b \in L : b = Bar(u, x, "late")
  BY DEF Computes, NoneReopened, HeldReopened
<1>a. /\ \A b \in C : b \in WrittenBars'
      /\ \A b \in WrittenBars :
           \E c \in WrittenBars' : b.ticks \subseteq c.ticks /\ b.start = c.start
  BY DEF Computes, NoneReopened, HeldReopened
<1>2. \/ s.start \in {0, u.start} /\ C = {} /\ u.ticks = s.ticks \cup {i}
      \/ s.start \notin {0, u.start} /\ u.ticks = {i} /\
           C = IF s.count > 0 THEN {Bar(s, x, "tick")} ELSE {}
  BY DEF Computes
<1>3. InPeriod(s, ticks) /\ (s.start = 0 => s = NewSymbolState)
  BY <1>0, <1>1 DEF StatesAreWhole
<1>4. \A b \in C : b.start = s.start /\ b.ticks = s.ticks /\ b.life = life
  BY <1>2 DEF Bar
<1>5. /\ DOMAIN applied \subseteq DOMAIN applied'
      /\ \A k \in DOMAIN applied : applied'[k] = applied[k]
      /\ Len(applied') \in DOMAIN applied'
      /\ applied'[Len(applied')] = [tick |-> i, of |-> x, at |-> clock]
      /\ \A k \in DOMAIN applied' : k \in DOMAIN applied \/ k = Len(applied')
      /\ applied' # <<>>
  BY <1>0, <1>1, PunctualSoFar
<1>7. InPeriod(u, ticks)
  <2>1. s.start = 0 => s.ticks = {}
    BY <1>3 DEF NewSymbolState
  <2> QED
    BY <1>1, <1>2, <1>3, <2>1 DEF InPeriod
<1>6. BarsAreWhole'
  <2>1. \A b \in C \cup L : InPeriod(b, ticks) /\ b.life = life /\ b.life <= life
    <3>1. \A b \in C : InPeriod(b, ticks)
      BY <1>3, <1>4 DEF InPeriod
    <3>2. life <= life
      BY <1>0 DEF BarsTyped
    <3>3. \A b \in L : InPeriod(b, ticks) /\ b.life = life
      BY <1>1, <1>7 DEF InPeriod, Bar
    <3> QED
      BY <1>4, <3>1, <3>2, <3>3
  <2>2. \A b \in EveryBar' : InPeriod(b, ticks') /\ b.life <= life'
    BY <1>0, <1>1, <2>1 DEF BarsAreWhole
  <2>3. \A b \in PendingBars' : b.life = life'
    BY <1>0, <1>1, <2>1 DEF BarsAreWhole
  <2> QED
    BY <1>5, <2>2, <2>3 DEF BarsAreWhole
<1>8. StatesAreWhole'
  <2> SUFFICES ASSUME NEW y \in Flushers
               PROVE  /\ InPeriod(state'[y], ticks)
                      /\ state'[y].start = 0 => state'[y] = NewSymbolState
                      /\ state'[y].start # 0 =>
                           state'[y].previous \in Times
                             /\ state'[y].start = StartOf(state'[y].previous)
                      /\ state'[y].start # 0 <=> \E k \in DOMAIN applied' : applied'[k].of = y
                      /\ state'[y].start # 0 /\ state'[y].count = 0 =>
                           state'[y].start + BarLength + Grace <= clock
    BY <1>1 DEF StatesAreWhole
  <2>1. CASE y # x
    <3>1. state'[y] = state[y]
      BY <1>1, <2>1
    <3>2. (\E k \in DOMAIN applied' : applied'[k].of = y)
            <=> \E k \in DOMAIN applied : applied[k].of = y
      BY <1>5, <2>1
    <3> QED
      BY <1>0, <3>1, <3>2 DEF StatesAreWhole
  <2>2. CASE y = x
    <3>1. \E k \in DOMAIN applied' : applied'[k].of = x
      BY <1>5
    <3>2. u.count # 0
      BY <1>1
    <3> QED
      BY <1>1, <1>7, <2>2, <3>1, <3>2
  <2> QED
    BY <2>1, <2>2
<1>9. AppliedTicksAreKept'
  <2>1. ASSUME NEW k \in DOMAIN applied'
        PROVE  /\ applied'[k].tick \in DOMAIN ticks
               /\ Covered(applied'[k].tick, state'[applied'[k].of], WrittenBars', ticks)
    <3>1. CASE k = Len(applied')
      <4>1. applied'[k].tick = i /\ applied'[k].of = x /\ i \in u.ticks /\ u.count > 0
        BY <1>1, <1>2, <1>5, <3>1
      <4> QED
        BY <1>1, <4>1 DEF Covered
    <3>2. CASE k \in DOMAIN applied
      <4> DEFINE t == applied[k].tick
                 y == applied[k].of
      <4>1. t \in DOMAIN ticks /\ Covered(t, state[y], WrittenBars, ticks) /\ applied'[k] = applied[k]
            /\ y \in Flushers
        BY <1>0, <1>5, <3>2, AppliedFields DEF AppliedTicksAreKept
      <4>2. CASE y = x /\ t \in s.ticks /\ s.count > 0
        <5>1. CASE u.ticks = s.ticks \cup {i}
          BY <1>1, <4>1, <4>2, <5>1 DEF Covered
        <5>2. CASE C = {Bar(s, x, "tick")}
          <6>1. Bar(s, x, "tick") \in WrittenBars'
            BY <1>a, <5>2
          <6>2. Bar(s, x, "tick").ticks = s.ticks /\ Bar(s, x, "tick").start = StartOf(ticks[t])
            BY <1>3, <4>2 DEF Bar, InPeriod
          <6> QED
            BY <1>1, <4>1, <4>2, <6>1, <6>2 DEF Covered
        <5> QED
          BY <1>2, <4>2, <5>1, <5>2
      <4>3. CASE y # x
        BY <1>1, <1>a, <4>1, <4>3 DEF Covered
      <4>4. CASE y = x /\ ~(t \in s.ticks /\ s.count > 0)
        BY <1>1, <1>a, <4>1, <4>4 DEF Covered
      <4> QED
        BY <4>2, <4>3, <4>4
    <3> QED
      BY <1>5, <3>1, <3>2
  <2>2. /\ applied'[Len(applied')].of = x /\ applied'[Len(applied')].tick = i
    BY <1>5
  <2> QED
    BY <1>1, <2>1, <2>2 DEF AppliedTicksAreKept
<1> QED
  BY <1>6, <1>8, <1>9

\* In order and in time, one state has computed all of the ticks so far, the
\* period of the new one is not over, and is not earlier than any bar's.
LEMMA ComputedInTime ==
  ASSUME BarsIInv, NEW x, NEW i, NEW s, NEW u, NEW C, NEW L,
         Computes(x, i, s, u, C, L), Punctual'
  PROVE  /\ Punctual
         /\ \A k \in DOMAIN applied : applied[k].of = x
         /\ \A y \in Flushers : y # x => state[y].start = 0 /\ y \notin Open
         /\ applied = <<>> => s = NewSymbolState /\ WrittenBars = {}
         /\ applied # <<>> =>
              /\ s.start # 0 /\ s.start <= u.start
              /\ s.previous \in Times /\ s.previous <= ticks[i]
         /\ s.start = u.start => s.count > 0
         /\ \A b \in WrittenBars : b.start <= s.start /\ s.start # 0
         /\ NoneReopened(C, L)
<1>0. BarsTyped /\ BarsAreWhole /\ StatesAreWhole /\ AppliedTicksAreKept /\ NoneIsAhead
  BY DEF BarsIInv
<1>1. /\ x \in Flushers /\ i \in DOMAIN ticks /\ UNCHANGED <<ticks, life>>
      /\ s = state[x] /\ s \in SymbolStates /\ ticks[i] \in Times
      /\ u.start = StartOf(ticks[i]) /\ u.start # 0
      /\ applied' = Append(applied, [tick |-> i, of |-> x, at |-> clock])
  BY DEF Computes
<1>2. /\ Punctual /\ clock < StartOf(ticks[i]) + BarLength + Grace
      /\ \A k \in DOMAIN applied : applied[k].of = x /\ ticks[applied[k].tick] <= ticks[i]
  BY <1>0, <1>1, PunctualSoFar
<1>3. \A y \in Flushers : y # x => state[y].start = 0 /\ y \notin Open
  <2> TAKE y \in Flushers
  <2>1. y # x => state[y].start = 0
    BY <1>0, <1>2 DEF StatesAreWhole
  <2>2. state[y].start = 0 => state[y].count = 0
    BY <1>0 DEF StatesAreWhole, NewSymbolState
  <2> QED
    BY <2>1, <2>2 DEF Open
<1>4. applied = <<>> => s = NewSymbolState /\ WrittenBars = {}
  <2>1. applied = <<>> => WrittenBars = {}
    BY <1>0 DEF BarsAreWhole
  <2>2. applied = <<>> => s.start = 0
    BY <1>0, <1>1, AppliedFields DEF StatesAreWhole
  <2> QED
    BY <1>0, <1>1, <2>1, <2>2 DEF StatesAreWhole
<1>5. ASSUME applied # <<>>
      PROVE  /\ s.start # 0 /\ s.start <= u.start
             /\ s.previous \in Times /\ s.previous <= ticks[i]
  <2> DEFINE last == Len(applied)
  <2>1. last \in DOMAIN applied
    BY <1>0, <1>5, AppliedFields
  <2>2. applied[last].of = x /\ ticks[applied[last].tick] <= ticks[i]
    BY <1>2, <2>1
  <2>3. s.previous = ticks[applied[last].tick]
    BY <1>0, <1>1, <1>5, <2>2 DEF AppliedTicksAreKept
  <2>4. s.start # 0
    BY <1>0, <1>1, <2>1, <2>2 DEF StatesAreWhole
  <2>5. s.previous \in Times /\ s.start = StartOf(s.previous)
    BY <1>0, <1>1, <2>4 DEF StatesAreWhole
  <2> QED
    BY <1>1, <2>2, <2>3, <2>4, <2>5, StartsGrow
<1>6. s.start = u.start => s.count > 0
  <2> SUFFICES ASSUME s.start = u.start, s.count = 0
               PROVE  FALSE
    BY <1>1 DEF SymbolStates
  <2> DEFINE e == s.start + BarLength + Grace
  <2>1. e <= clock
    BY <1>0, <1>1 DEF StatesAreWhole
  <2>2. clock < e
    BY <1>1, <1>2
  <2>3. e \in Int /\ clock \in Int
    BY <1>0, <1>1, FeatureBarsAssumption DEF SymbolStates, BarsTyped, Times
  <2> HIDE DEF e
  <2> QED
    BY <2>1, <2>2, <2>3
<1>7. \A b \in WrittenBars : b.start <= s.start /\ s.start # 0
  BY <1>0, <1>1, <1>2, <1>4, <1>5 DEF NoneIsAhead
<1>8. NoneReopened(C, L)
  BY DEF Computes, HeldReopened, Punctual
<1> QED
  BY <1>2, <1>3, <1>4, <1>5, <1>6, <1>7, <1>8

LEMMA ClashIsMutual ==
  ASSUME NEW b, NEW c, NEW era
  PROVE  Clash(b, c, era) <=> Clash(c, b, era)
BY DEF Clash

\* A bar is closed where another one begins, and the new one has a new tick.
LEMMA ComputedClashes ==
  ASSUME BarsIInv, BarsTyped', NEW t \in Flushers,
         NEW x, NEW i, NEW s, NEW u, NEW C, NEW L,
         Computes(x, i, s, u, C, L),
         Held(t) = {}, Held(t)' = C, Held("closer")' \subseteq Held("closer") \cup L,
         \A h \in Flushers : h # t => Held(h)' = Held(h)
  PROVE  NoTwoClash'
<1> DEFINE b == Bar(s, x, "tick")
           New == Bar(u, x, "tick")
<1>0. BarsTyped /\ NoTwoClash /\ EveryBar \subseteq BarRecords /\ life \in Nat
  BY EveryBarTyped DEF BarsIInv, BarsTyped
<1>1. /\ x \in Flushers /\ i \in DOMAIN ticks /\ UNCHANGED <<ticks, emitted, life>>
      /\ s = state[x] /\ u = state'[x] /\ s \in SymbolStates
      /\ \A y \in Flushers : y # x => state'[y] = state[y]
      /\ applied' = Append(applied, [tick |-> i, of |-> x, at |-> clock])
      /\ \A y \in Flushers : i \notin state[y].ticks
      /\ \A c \in EveryBar : i \notin c.ticks
      /\ EveryBar' \subseteq EveryBar \cup C \cup L
      /\ i \in u.ticks /\ u.start # 0 /\ u.start \in Int /\ u \in SymbolStates
  BY DEF Computes, NoneReopened, HeldReopened, SymbolStates
<1>a. /\ \A c \in L : c = Bar(u, x, "late")
      /\ L # {} => ~Punctual' /\ C = {}
  BY DEF Computes, NoneReopened, HeldReopened, Punctual
<1>2. \/ s.start \in {0, u.start} /\ C = {}
      \/ s.start # u.start /\ C = {}
      \/ s.start # u.start /\ s.count > 0 /\ C = {b}
  BY DEF Computes
<1>3. /\ b = OpenBar(x) /\ New = OpenBar(x)'
      /\ b.ticks = s.ticks /\ b.start = s.start /\ b.life = life /\ b \in BarRecords
      /\ New.ticks = u.ticks /\ New.start = u.start /\ New.life = life /\ ~Late(New)
  BY <1>0, <1>1 DEF OpenBar, Bar, BarRecords, SymbolStates, Late
<1>4. Era' \in {Era, -1} /\ (Era' # -1 => Punctual' /\ Era' = life)
  BY <1>0, <1>1, PunctualSoFar DEF Era
<1>5. \A c \in BarRecords : \A d : ~Clash(c, d, Era) => ~Clash(c, d, Era')
  BY <1>4, ClashesInEra
<1>b. \A c \in L : /\ c \in BarRecords /\ Late(c) /\ i \in c.ticks /\ Era' = -1
                    /\ \A d : i \notin d.ticks => ~Clash(c, d, Era') /\ ~Clash(d, c, Era')
  <2> SUFFICES ASSUME NEW c \in L
               PROVE  /\ c \in BarRecords /\ Late(c) /\ i \in c.ticks /\ Era' = -1
                      /\ \A d : i \notin d.ticks => ~Clash(c, d, Era') /\ ~Clash(d, c, Era')
    OBVIOUS
  <2>1. c \in BarRecords /\ Late(c) /\ i \in c.ticks /\ c.life = life
    BY <1>0, <1>1, <1>a DEF Bar, BarRecords, SymbolStates, Late
  <2>2. Era' = -1
    BY <1>4, <1>a
  <2>3. c.life # Era'
    BY <1>0, <2>1, <2>2
  <2> QED
    BY <2>1, <2>2, <2>3 DEF Clash
<1>6. \A c \in C : /\ c = b /\ x \in Open
                   /\ \A d \in EveryBar : ~Clash(d, c, Era) /\ ~Clash(c, d, Era)
  <2> SUFFICES ASSUME NEW c \in C
               PROVE  /\ c = b /\ x \in Open
                      /\ \A d \in EveryBar : ~Clash(d, c, Era) /\ ~Clash(c, d, Era)
    OBVIOUS
  <2>1. c = b /\ x \in Open
    BY <1>1, <1>2 DEF Open
  <2>2. \A d \in EveryBar : ~Clash(d, c, Era)
    BY <1>0, <1>3, <2>1 DEF NoTwoClash
  <2> QED
    BY <2>1, <2>2, ClashIsMutual
<1> HIDE DEF b, New
<1>7. \A k \in DOMAIN emitted : emitted[k] \in EveryBar
  BY DEF EveryBar, Range
<1>8. \A h \in Holders : \A c \in Held(h) : c \in EveryBar
  BY HeldIsInHand, PendingFacts
<1>c. \A h \in Holders : h # t =>
        \A c \in Held(h)' : c \in Held(h) \/ (h = "closer" /\ c \in L)
  BY HolderFacts
<1>d. \A c \in C : i \notin c.ticks
  BY <1>1, <1>3, <1>6
<1>e. t # "closer" /\ \A h \in Holders : h # "closer" => \A c \in Held(h)' : i \notin c.ticks
  <2>1. t # "closer"
    BY HolderFacts
  <2> QED
    BY <1>1, <1>8, <1>c, <1>d, <2>1
<1>9. \A j, k \in DOMAIN emitted : j # k => ~Clash(emitted[j], emitted[k], Era')
  BY <1>0, <1>5, <1>7 DEF NoTwoClash
<1>10. \A j \in DOMAIN emitted, h \in Holders : \A c \in Held(h)' : ~Clash(emitted[j], c, Era')
  <2> SUFFICES ASSUME NEW j \in DOMAIN emitted, NEW h \in Holders, NEW c \in Held(h)'
               PROVE  ~Clash(emitted[j], c, Era')
    OBVIOUS
  <2>1. CASE h = t
    BY <1>0, <1>5, <1>6, <1>7, <2>1
  <2>2. CASE h # t /\ c \in Held(h)
    BY <1>0, <1>5, <1>7, <2>2 DEF NoTwoClash
  <2>3. CASE c \in L
    BY <1>1, <1>7, <1>b, <2>3
  <2> QED
    BY <1>c, <2>1, <2>2, <2>3
<1>11. \A h, k \in Holders : \A c \in Held(h)', d \in Held(k)' : h # k => ~Clash(c, d, Era')
  <2> SUFFICES ASSUME NEW h \in Holders, NEW k \in Holders, NEW c \in Held(h)', NEW d \in Held(k)',
                      h # k
               PROVE  ~Clash(c, d, Era')
    OBVIOUS
  <2>1. CASE h = t /\ d \in Held(k)
    BY <1>3, <1>5, <1>6, <1>8, <2>1
  <2>2. CASE k = t /\ c \in Held(h)
    BY <1>0, <1>5, <1>6, <1>8, <2>2
  <2>3. CASE h # t /\ k # t /\ c \in Held(h) /\ d \in Held(k)
    BY <1>0, <1>5, <1>8, <2>3 DEF NoTwoClash
  <2>4. CASE h = "closer" /\ c \in L
    BY <1>b, <1>e, <2>4
  <2>5. CASE k = "closer" /\ d \in L
    BY <1>b, <1>e, <2>5
  <2> QED
    BY <1>c, <2>1, <2>2, <2>3, <2>4, <2>5
<1>12. \A y \in Open' : y # x => /\ y \in Open /\ OpenBar(y)' = OpenBar(y) /\ y \in Flushers
                                 /\ OpenBar(y) \in BarRecords
                                 /\ OpenBar(y).ticks = state[y].ticks
  <2> SUFFICES ASSUME NEW y \in Open', y # x
               PROVE  /\ y \in Open /\ OpenBar(y)' = OpenBar(y) /\ y \in Flushers
                      /\ OpenBar(y) \in BarRecords
                      /\ OpenBar(y).ticks = state[y].ticks
    OBVIOUS
  <2>1. y \in Flushers /\ state'[y] = state[y] /\ y \in Open
    BY <1>1 DEF Open
  <2>2. state[y] \in SymbolStates
    BY <1>0, <2>1 DEF BarsTyped
  <2> QED
    BY <1>0, <1>1, <2>1, <2>2 DEF OpenBar, Bar, BarRecords, SymbolStates
<1>13. ASSUME Punctual', NEW c \in EveryBar', c.life = life, c.start = u.start
       PROVE  FALSE
  <2>1. Punctual /\ NoneReopened(C, L)
    BY <1>13, ComputedInTime
  <2>2. c \in WrittenBars \/ c \in C
    BY <1>1, <1>13, <2>1 DEF EveryBar, WrittenBars, Range, NoneReopened
  <2>3. CASE c \in C
    BY <1>2, <1>3, <1>6, <1>13, <2>3
  <2>4. CASE c \in WrittenBars
    <3>1. applied # <<>> /\ c \in EveryBar
      BY <1>0, <2>4, EveryBarTyped DEF BarsIInv, BarsAreWhole
    <3>2. s.start <= u.start /\ c.start <= s.start
      BY <1>13, <2>4, <3>1, ComputedInTime
    <3>3. s.start \in Int
      BY <1>1 DEF SymbolStates
    <3>4. s.start = u.start
      BY <1>1, <1>13, <3>2, <3>3
    <3>5. x \in Open
      BY <1>1, <1>13, <3>4, ComputedInTime DEF Open
    <3>6. ~Clash(c, b, Era)
      BY <1>0, <1>3, <3>1, <3>5 DEF NoTwoClash
    <3>7. Era = life
      BY <2>1, <1>13, ComputedInTime DEF Era
    <3> QED
      BY <1>3, <1>13, <3>4, <3>6, <3>7 DEF Clash
  <2> QED
    BY <2>2, <2>3, <2>4
<1>14. \A c \in EveryBar' : ~Clash(c, New, Era')
  <2> SUFFICES ASSUME NEW c \in EveryBar', Clash(c, New, Era')
               PROVE  FALSE
    OBVIOUS
  <2>1. i \notin c.ticks \/ c \in L
    BY <1>1, <1>d
  <2>2. c.ticks # New.ticks \/ Late(c)
    BY <1>1, <1>3, <1>b, <2>1
  <2>3. c.life = Era' /\ New.life = Era' /\ c.start = New.start
    BY <1>3, <2>2 DEF Clash
  <2>4. Era' # -1
    BY <1>0, <1>3, <2>3
  <2> QED
    BY <1>3, <1>4, <1>13, <2>3, <2>4
<1>15. \A y \in Open' : y # x => ~Clash(OpenBar(y), New, Era')
  <2> SUFFICES ASSUME NEW y \in Open', y # x, Clash(OpenBar(y), New, Era')
               PROVE  FALSE
    OBVIOUS
  <2>1. OpenBar(y).ticks # New.ticks
    BY <1>1, <1>3, <1>12
  <2>2. New.life = Era'
    BY <2>1 DEF Clash
  <2>3. Era' # -1
    BY <1>0, <1>3, <2>2
  <2>4. y \notin Open
    BY <1>4, <1>12, <2>3, ComputedInTime
  <2> QED
    BY <1>12, <2>4
<1>16. \A y \in Open' : \A c \in EveryBar' : ~Clash(c, OpenBar(y)', Era')
  <2> SUFFICES ASSUME NEW y \in Open', NEW c \in EveryBar'
               PROVE  ~Clash(c, OpenBar(y)', Era')
    OBVIOUS
  <2>1. CASE y = x
    BY <1>3, <1>14, <2>1
  <2>2. CASE y # x /\ c \in EveryBar
    BY <1>0, <1>5, <1>12, <2>2 DEF NoTwoClash
  <2>3. CASE y # x /\ c \in C
    <3>1. ~Clash(OpenBar(x), OpenBar(y), Era)
      BY <1>0, <1>6, <1>12, <2>3 DEF NoTwoClash
    <3>2. c = OpenBar(x) /\ c \in BarRecords
      BY <1>3, <1>6, <2>3
    <3> QED
      BY <1>5, <1>12, <2>3, <3>1, <3>2
  <2>4. CASE y # x /\ c \in L
    <3>1. i \notin OpenBar(y).ticks
      BY <1>1, <1>12, <2>4
    <3> QED
      BY <1>12, <1>b, <2>4, <3>1
  <2> QED
    BY <1>1, <2>1, <2>2, <2>3, <2>4
<1>17. \A y, z \in Open' : y # z => ~Clash(OpenBar(y)', OpenBar(z)', Era')
  <2> SUFFICES ASSUME NEW y \in Open', NEW z \in Open', y # z
               PROVE  ~Clash(OpenBar(y)', OpenBar(z)', Era')
    OBVIOUS
  <2>1. CASE z = x
    BY <1>3, <1>12, <1>15, <2>1
  <2>2. CASE y = x
    <3>1. ~Clash(OpenBar(z)', New, Era')
      BY <1>12, <1>15, <2>2
    <3> QED
      BY <1>3, <2>2, <3>1, ClashIsMutual
  <2>3. CASE y # x /\ z # x
    <3>1. ~Clash(OpenBar(y), OpenBar(z), Era)
      BY <1>0, <1>12, <2>3 DEF NoTwoClash
    <3> QED
      BY <1>5, <1>12, <2>3, <3>1
  <2> QED
    BY <2>1, <2>2, <2>3
<1> QED
  BY <1>1, <1>9, <1>10, <1>11, <1>16, <1>17 DEF NoTwoClash

LEMMA ComputedIsLast ==
  ASSUME BarsIInv, NEW x, NEW i, NEW s, NEW u, NEW C, NEW L,
         Computes(x, i, s, u, C, L)
  PROVE  NoneIsAhead'
<1> SUFFICES ASSUME Punctual', NEW y \in Flushers, NEW b \in WrittenBars', state'[y].start # 0
             PROVE  b.start <= state'[y].start
  BY DEF NoneIsAhead
<1>0. BarsTyped /\ BarsAreWhole /\ EveryBar \subseteq BarRecords /\ WrittenBars \subseteq EveryBar
  BY EveryBarTyped DEF BarsIInv
<1>1. /\ x \in Flushers /\ s = state[x] /\ u = state'[x] /\ s \in SymbolStates /\ u \in SymbolStates
      /\ \A z \in Flushers : z # x => state'[z] = state[z]
      /\ \A c \in C : c = Bar(s, x, "tick") /\ s.start # 0
  BY DEF Computes
<1>a. WrittenBars' = WrittenBars \cup C
  BY ComputedInTime DEF NoneReopened
<1>2. s.start \in Int /\ u.start \in Int
  BY <1>1 DEF SymbolStates
<1>3. y = x
  BY <1>1, ComputedInTime
<1>4. CASE b \in WrittenBars
  <2>1. applied # <<>> /\ b \in BarRecords
    BY <1>0, <1>4 DEF BarsAreWhole
  <2>2. b.start <= s.start /\ s.start <= u.start
    BY <1>4, <2>1, ComputedInTime
  <2>3. b.start \in Int
    BY <2>1 DEF BarRecords
  <2> QED
    BY <1>1, <1>2, <1>3, <2>2, <2>3
<1>5. CASE b \in C
  <2>1. b.start = s.start /\ s.start # 0
    BY <1>1, <1>5 DEF Bar
  <2>2. applied # <<>>
    BY <2>1, ComputedInTime DEF NewSymbolState
  <2> QED
    BY <1>1, <1>3, <2>1, <2>2, ComputedInTime
<1> QED
  BY <1>a, <1>4, <1>5

\* The new tick adds what was traded since the last one.
LEMMA ComputedAddsUp ==
  ASSUME BarsIInv, BarsTyped', NEW x, NEW i, NEW s, NEW u, NEW C, NEW L,
         Computes(x, i, s, u, C, L)
  PROVE  VolumeAddsUp'
<1> SUFFICES ASSUME Punctual'
             PROVE  Traded' + (IF state'[applied'[1].of].count > 0
                                 THEN state'[applied'[1].of].volume ELSE 0)
                      = state'[applied'[1].of].previous - ticks'[applied'[1].tick]
  BY DEF VolumeAddsUp, Punctual
<1> DEFINE grown == VolumeDelta(s, ticks[i])
           b == Bar(s, x, "tick")
<1>0. /\ BarsTyped /\ EveryBar \subseteq BarRecords /\ WrittenBars \subseteq EveryBar
      /\ VolumeAddsUp /\ NoTwoClash
  BY EveryBarTyped DEF BarsIInv
<1>1. /\ x \in Flushers /\ i \in DOMAIN ticks /\ UNCHANGED <<ticks, life>>
      /\ s = state[x] /\ u = state'[x] /\ s \in SymbolStates
      /\ applied' = Append(applied, [tick |-> i, of |-> x, at |-> clock])
      /\ u.previous = ticks[i] /\ ticks[i] \in Times /\ u.count > 0 /\ grown \in Nat
  BY DEF Computes
<1>a. WrittenBars' = WrittenBars \cup C
  BY ComputedInTime DEF NoneReopened
<1>2. \/ s.start \in {0, u.start} /\ C = {} /\ u.volume = s.volume + grown
      \/ s.start \notin {0, u.start} /\ C = (IF s.count > 0 THEN {b} ELSE {}) /\ u.volume = grown
  BY DEF Computes
<1>3. /\ \A k \in DOMAIN applied : applied'[k] = applied[k]
      /\ Len(applied') \in DOMAIN applied'
      /\ applied'[Len(applied')] = [tick |-> i, of |-> x, at |-> clock]
      /\ \A k \in DOMAIN applied' : k \in DOMAIN applied \/ k = Len(applied')
      /\ applied' # <<>> /\ 1 \in DOMAIN applied'
  BY <1>0, <1>1, PunctualSoFar
<1>4. /\ s.volume \in Nat /\ s.count \in Nat /\ s.previous \in Nat
      /\ ticks[i] \in Nat /\ ticks[i] # 0
  BY <1>1, StartsGrow DEF SymbolStates
<1>5. /\ WrittenBars \in SUBSET BarRecords /\ IsFiniteSet(WrittenBars)
      /\ Traded = SumOf(Volumes, WrittenBars) /\ Traded \in Int
      /\ Traded' = SumOf(Volumes, WrittenBars \cup C) /\ Traded' \in Int
  BY <1>0, <1>a, TradedIsSum
<1>6. CASE applied = <<>>
  <2>1. s = NewSymbolState /\ WrittenBars = {}
    BY <1>6, ComputedInTime
  <2>2. C = {} /\ u.volume = s.volume + grown /\ s.volume = 0 /\ s.previous = 0
    BY <1>2, <2>1 DEF NewSymbolState
  <2>3. grown = 0
    BY <2>2 DEF VolumeDelta
  <2>4. Traded' = 0
    <3>1. Volumes \in [BarRecords -> Int]
      BY DEF Volumes, BarRecords
    <3>2. SumOf(Volumes, {}) = 0
      BY <3>1, FS_EmptySet, SumFacts
    <3> QED
      BY <1>5, <2>1, <2>2, <3>2
  <2>5. applied'[1].of = x /\ applied'[1].tick = i
    BY <1>0, <1>3, <1>6, AppliedFields
  <2> QED
    BY <1>1, <1>4, <2>2, <2>3, <2>4, <2>5
<1>7. CASE applied # <<>>
  <2> DEFINE first == ticks[applied[1].tick]
  <2>1. /\ s.start # 0 /\ s.previous \in Times /\ s.previous <= ticks[i]
        /\ s.start = u.start => s.count > 0
    BY <1>7, ComputedInTime
  <2>2. 1 \in DOMAIN applied /\ applied[1].of = x /\ applied'[1] = applied[1]
    BY <1>0, <1>3, <1>7, AppliedFields, ComputedInTime
  <2>3. s.previous # 0 /\ grown = ticks[i] - s.previous
    <3>1. s.previous # 0
      BY <2>1, StartsGrow
    <3> QED
      BY <1>4, <2>1, <3>1 DEF VolumeDelta
  <2>4. Traded + (IF s.count > 0 THEN s.volume ELSE 0) = s.previous - first
    BY <1>0, <1>1, <1>7, <2>2, ComputedInTime DEF VolumeAddsUp, Punctual
  <2>5. first \in Int
    <3>1. applied[1].tick \in DOMAIN ticks /\ ticks \in Seq(Times)
      BY <1>0, <2>2 DEF BarsIInv, AppliedTicksAreKept, BarsTyped
    <3>2. first \in Times
      BY <3>1
    <3> QED
      BY <3>2, StartsGrow
  <2>6. s.count > 0 /\ C = {b} => Traded' = Traded + s.volume
    <3> SUFFICES ASSUME s.count > 0, C = {b}
                 PROVE  Traded' = Traded + s.volume
      OBVIOUS
    <3>1. /\ b = OpenBar(x) /\ x \in Open /\ b \in BarRecords /\ b.volume = s.volume
      BY <1>0, <1>1 DEF OpenBar, Bar, Open, BarRecords, SymbolStates, BarsTyped
    <3>2. b \notin WrittenBars
      <4>1. \A c \in EveryBar : ~Clash(c, b, Era)
        BY <1>0, <3>1 DEF NoTwoClash
      <4>2. Clash(b, b, Era)
        BY DEF Clash
      <4> QED
        BY <1>0, <4>1, <4>2
    <3> QED
      BY <1>5, <3>1, <3>2, VolumeOfMore
  <2>7. C = {} => Traded' = Traded
    BY <1>5
  <2> HIDE DEF grown, first, b
  <2>8. Traded' + u.volume = ticks[i] - first
    <3>1. CASE s.start \in {0, u.start} /\ C = {} /\ u.volume = s.volume + grown
      <4>1. s.count > 0
        BY <2>1, <3>1
      <4> QED
        BY <1>4, <1>5, <2>3, <2>4, <2>5, <2>7, <3>1, <4>1
    <3>2. CASE C = {b} /\ s.count > 0 /\ u.volume = grown
      BY <1>4, <1>5, <2>3, <2>4, <2>5, <2>6, <3>2
    <3>3. CASE C = {} /\ ~(s.count > 0) /\ u.volume = grown
      BY <1>4, <1>5, <2>3, <2>4, <2>5, <2>7, <3>3
    <3> QED
      BY <1>2, <3>1, <3>2, <3>3
  <2> QED
    BY <1>1, <2>2, <2>8 DEF first
<1> QED
  BY <1>6, <1>7

\* A bar becomes late by a tick that comes late.
LEMMA ComputedLate ==
  ASSUME BarsIInv, NEW x, NEW i, NEW s, NEW u, NEW C, NEW L, Computes(x, i, s, u, C, L)
  PROVE  LateBarsHaveLateTicks'
<1> SUFFICES ASSUME BeforeGrace', NEW b \in EveryBar', b.life = life'
             PROVE  ~Late(b)
  BY DEF LateBarsHaveLateTicks
<1>1. /\ x \in Flushers /\ i \in DOMAIN ticks /\ UNCHANGED <<ticks, life>> /\ BarsTyped
      /\ applied' = Append(applied, [tick |-> i, of |-> x, at |-> clock])
      /\ EveryBar' = EveryBar \cup C
      /\ \A c \in C : c = Bar(s, x, "tick")
  BY DEF Computes, NoneReopened, HeldReopened, BarsIInv
<1>2. BeforeGrace
  BY <1>1, InTimeSoFar
<1>3. b \in C => ~Late(b)
  BY <1>1 DEF Late, Bar
<1> QED
  BY <1>1, <1>2, <1>3 DEF BarsIInv, LateBarsHaveLateTicks

LEMMA ComputeKeeps == ASSUME NEW t \in Flushers, BarsIInv, Compute(t) PROVE BarsIInv'
<1>1. /\ BarsTyped' /\ TasksHold' /\ EachWaitsOnce' /\ WaitingTicksAreNew'
      /\ \E x, i, s, u, C, L :
           /\ Computes(x, i, s, u, C, L)
           /\ Held(t) = {} /\ Held(t)' = C
           /\ Held("closer")' \subseteq Held("closer") \cup L
           /\ \A h \in Flushers : h # t => Held(h)' = Held(h)
  BY ComputeFacts
<1>2. PICK x, i, s, u, C, L :
        /\ Computes(x, i, s, u, C, L)
        /\ Held(t) = {} /\ Held(t)' = C
        /\ Held("closer")' \subseteq Held("closer") \cup L
        /\ \A h \in Flushers : h # t => Held(h)' = Held(h)
  BY <1>1
<1>3. BarsAreWhole' /\ StatesAreWhole' /\ AppliedTicksAreKept'
  BY <1>1, <1>2, ComputedIsWhole
<1>4. NoTwoClash'
  BY <1>1, <1>2, ComputedClashes
<1>5. NoneIsAhead' /\ LateBarsHaveLateTicks'
  BY <1>2, ComputedIsLast, ComputedLate
<1>6. VolumeAddsUp'
  BY <1>1, <1>2, ComputedAddsUp
<1> QED
  BY <1>1, <1>3, <1>4, <1>5, <1>6 DEF BarsIInv

LEMMA BarsStutter == BarsIInv /\ UNCHANGED barVars => BarsIInv'
<1> SUFFICES ASSUME BarsIInv, UNCHANGED barVars
             PROVE  BarsIInv'
  OBVIOUS
<1>0. BarsTyped /\ TasksHold /\ EachWaitsOnce
  BY DEF BarsIInv
<1>1. UNCHANGED <<clock, ticks, batch, states, state, job, closer, emitted, applied, life, barFaults>>
  BY DEF barVars, barMemory
<1>2. BarsTyped'
  BY <1>0, <1>1 DEF BarsTyped
<1>3. TasksHold'
  BY <1>0, <1>1 DEF TasksHold
<1>4. Waiting' = Waiting /\ EachWaitsOnce'
  BY <1>0, <1>1, NoneWaitsMore
<1>5. \A h \in Holders : BarsOf(h)' = BarsOf(h) /\ Held(h)' = Held(h)
  BY <1>1, CloserStays DEF BarsOf, Held
<1>6. clock <= clock' /\ TicksStay
  BY <1>0, <1>1, TicksDoStay DEF BarsTyped, Times
<1> QED
  BY <1>1, <1>2, <1>3, <1>4, <1>5, <1>6, QuietStep

\* What the invariant says of the bars at any time.
LEMMA BarsHold == BarsIInv => BarsSafe
<1> SUFFICES ASSUME BarsIInv
             PROVE  BarsSafe
  OBVIOUS
<1>0. /\ BarsTyped /\ TasksHold /\ EachWaitsOnce /\ BarsAreWhole /\ StatesAreWhole
      /\ AppliedTicksAreKept /\ NoTwoClash /\ LateBarsHaveLateTicks /\ VolumeAddsUp
  BY DEF BarsIInv
<1>1. BarsTypeOK
  <2>1. \A k \in DOMAIN batch : batch[k] \in DOMAIN ticks
    <3>1. \A k \in DOMAIN batch : batch[k] \in Waiting
      BY DEF Waiting, Range
    <3> QED
      BY <1>0, <3>1 DEF EachWaitsOnce
  <2>2. \A t \in Flushers : state[t].ticks \subseteq DOMAIN ticks
    BY <1>0 DEF StatesAreWhole, InPeriod
  <2>3. \A t \in Flushers :
          /\ job[t].step \in {"idle", "lookup", "load", "seed", "write", "dead"}
          /\ job[t].step \in {"seed", "write"} => job[t].of # NoState
    <3>1. NoState \notin Flushers
      BY DEF NoState, Flushers
    <3> QED
      BY <1>0, <3>1, TaskFields DEF TasksHold
  <2>4. /\ closer.step \in {"asleep", "close", "held", "write", "dead"}
        /\ closer.step = "held" => closer.of # NoState
    BY <1>0, TaskFields DEF CloserJobs, BarsTyped, NoState, Flushers
  <2> QED
    BY <1>0, <2>1, <2>2, <2>3, <2>4 DEF BarsTypeOK, BarsTyped
<1>2. NoTickBetweenBars
  <2> SUFFICES ASSUME NEW k \in DOMAIN applied
               PROVE  \/ /\ applied[k].tick \in state[applied[k].of].ticks
                         /\ state[applied[k].of].start = StartOf(ticks[applied[k].tick])
                      \/ \E b \in WrittenBars : /\ applied[k].tick \in b.ticks
                                                /\ b.start = StartOf(ticks[applied[k].tick])
    BY DEF NoTickBetweenBars
  <2> DEFINE i == applied[k].tick
             x == applied[k].of
  <2>1. x \in Flushers /\ Covered(i, state[x], WrittenBars, ticks)
    BY <1>0, AppliedFields DEF AppliedTicksAreKept
  <2>2. i \in state[x].ticks => state[x].start = StartOf(ticks[i])
    BY <1>0, <2>1 DEF StatesAreWhole, InPeriod
  <2> QED
    BY <2>1, <2>2 DEF Covered
<1>3. \A j \in DOMAIN emitted : emitted[j] \in EveryBar
  BY DEF EveryBar, Range
<1>4. WrittenOnceUnlessReopened
  <2> SUFFICES ASSUME NEW j \in DOMAIN emitted, NEW k \in DOMAIN emitted, j # k,
                      emitted[j].ticks \cap emitted[k].ticks # {}
               PROVE  /\ emitted[j].start = emitted[k].start
                      /\ emitted[j].ticks = emitted[k].ticks =>
                           (emitted[j].by = "late") # (emitted[k].by = "late")
    <3>1. \A j, k \in DOMAIN emitted : j < k => j # k
      <4>1. emitted \in Seq(BarRecords)
        BY <1>0 DEF BarsTyped
      <4>2. DOMAIN emitted \subseteq Int
        BY <4>1
      <4> QED
        BY <4>2
    <3>2. \A j \in DOMAIN emitted :
            emitted[j].by = "late" /\ emitted[j].life = life => ~BeforeGrace
      BY <1>0, <1>3 DEF LateBarsHaveLateTicks, Late
    <3> QED
      BY <3>1, <3>2 DEF WrittenOnceUnlessReopened
  <2>1. InPeriod(emitted[j], ticks) /\ InPeriod(emitted[k], ticks)
    BY <1>0, <1>3 DEF BarsAreWhole
  <2>2. emitted[j].start = emitted[k].start
    BY <2>1 DEF InPeriod
  <2>3. ~Clash(emitted[j], emitted[k], Era)
    BY <1>0 DEF NoTwoClash
  <2> QED
    BY <2>2, <2>3 DEF Clash, Late
<1>5. PunctualBars
  <2> SUFFICES ASSUME Punctual, NEW j \in DOMAIN emitted, NEW k \in DOMAIN emitted, j < k,
                      emitted[j].life = life, emitted[k].life = life
               PROVE  emitted[j].start # emitted[k].start
    BY DEF PunctualBars, Punctual
  <2>1. j # k
    <3>1. emitted \in Seq(BarRecords)
      BY <1>0 DEF BarsTyped
    <3>2. j \in Int /\ k \in Int
      BY <3>1
    <3> QED
      BY <3>2
  <2>2. ~Clash(emitted[j], emitted[k], Era) /\ Era = life
    BY <1>0, <2>1 DEF NoTwoClash, Era
  <2> QED
    BY <2>2 DEF Clash
<1> QED
  BY <1>0, <1>1, <1>2, <1>4, <1>5 DEF BarsSafe

\* The invariant holds however the three tasks, the faults and the restarts of
\* the feature engine interleave (engine.py, bar_builder.py).
THEOREM BarsInvariant == BarsSpec => []BarsIInv
<1>1. BarsInit => BarsIInv
  BY InitBars
<1>2. BarsIInv /\ [BarsNext]_barVars => BarsIInv'
  <2> SUFFICES ASSUME BarsIInv, [BarsNext]_barVars
               PROVE  BarsIInv'
    OBVIOUS
  <2>1. CASE Ingest
    BY <2>1, IngestKeeps
  <2>2. CASE TimedFlush
    BY <2>2, TimedFlushKeeps
  <2>3. ASSUME NEW t \in Flushers, FlushStep(t)
        PROVE  BarsIInv'
    BY <2>3, LookupKeeps, RegisterKeeps, ComputeKeeps, FinishKeeps DEF FlushStep
  <2>4. CASE CloserStep
    BY <2>4, CloserWakesKeeps, CloserClosesKeeps, CloserReadsKeeps, CloserWritesKeeps DEF CloserStep
  <2>5. CASE TimerDies
    BY <2>5, TimerDiesKeeps
  <2>6. CASE BarsRestart
    BY <2>6, RestartKeeps
  <2>7. CASE ClockTicks
    BY <2>7, ClockKeeps
  <2>8. CASE UNCHANGED barVars
    BY <2>8, BarsStutter
  <2> QED
    BY <2>1, <2>2, <2>3, <2>4, <2>5, <2>6, <2>7, <2>8 DEF BarsNext
<1> QED
  BY <1>1, <1>2, PTL DEF BarsSpec

\* No tick falls between two bars; the closer writes the bar as it is when it
\* reads it, and the same ticks are written twice, and never more often, only
\* where a tick of the bar came between its closing and that; and in order and
\* in time the bars of a life come out once for each period and hold all of
\* the volume, however the flushes overtake each other (engine.py,
\* bar_builder.py: update_bars, force_close_stale_bars).
THEOREM BarsAreSafe == BarsSpec => []BarsSafe
<1>1. BarsSpec => []BarsIInv
  BY BarsInvariant
<1>2. BarsIInv => BarsSafe
  BY BarsHold
<1> QED
  BY <1>1, <1>2, PTL
================================================================================
