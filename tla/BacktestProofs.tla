---------------------------- MODULE BacktestProofs ----------------------------
(***************************************************************************)
(* What is computed from past bars and past trades is what the past shows: *)
(* theorems about SwingStructure, StructureReplay and WalkForward, for any *)
(* bars, sizes of the windows and limits, any archive and any settings,    *)
(* and any number of restarts and faults.                                  *)
(*                                                                         *)
(* The chart's geometry is a fold over all the bars.  The installed        *)
(* provers do not unfold it, so it is first shown that one more bar is one *)
(* more step of the fold, and that a step looks back only; then the engine *)
(* and the chart are compared bar by bar.  A replay is read off the tape:  *)
(* which bars have touched what since a position was opened.  A proposal   *)
(* of the walk-forward is about an archive that has grown since: what      *)
(* proves it is kept with the prefix it was computed from.                 *)
(***************************************************************************)
EXTENDS StructureReplay, WalkForward, SetLemmas, SequenceTheorems
-----------------------------------------------------------------------------
(* The chart's geometry, one bar at a time. *)

LEMMA Sizes ==
  /\ Left \in Nat \ {0} /\ Right \in Nat \ {0} /\ GapTouches \in Nat \ {0}
  /\ VolumeBars \in Nat \ {0} /\ KeptBars \in Nat /\ KeptBars >= Window
  /\ SeedBars \in Nat /\ Band \in Nat /\ RetestTtl \in Nat
  /\ MaxBars \in Nat /\ MaxRestarts \in Nat
  /\ Window \in Nat /\ Window >= 3 /\ Window = Left + Right + 1
<1>1. /\ {Left, Right, GapTouches, VolumeBars} \subseteq Nat \ {0}
      /\ KeptBars \in Nat /\ KeptBars >= Window
      /\ {SeedBars, Band, RetestTtl, MaxBars, MaxRestarts} \subseteq Nat
  BY SwingAssumption
<1>2. Left \in Nat \ {0} /\ Right \in Nat \ {0}
  BY <1>1
<1>3. Window \in Nat /\ Window >= 3 /\ Window = Left + Right + 1
  BY <1>2 DEF Window
<1> QED
  BY <1>1, <1>2, <1>3

BlankChart == [swing |-> NoSwing, ict |-> NoIct]

\* g gives the geometry after any set of the bars, the last of them last.
IsChart(g, stored, S) ==
  g = [s \in SUBSET S |->
         IF s = {} THEN BlankChart ELSE ChartBar(g[s \ {Max(s)}], stored, Max(s))]

LEMMA ChartExists ==
  ASSUME NEW stored, NEW S \in SUBSET Int, IsFiniteSet(S)
  PROVE  \E g : IsChart(g, stored, S)
<1> DEFINE Upto(n) ==
      \E g : \A s \in SUBSET S : Cardinality(s) <= n =>
        g[s] = IF s = {} THEN BlankChart ELSE ChartBar(g[s \ {Max(s)}], stored, Max(s))
<1> DEFINE Bad == {n \in Nat : ~Upto(n)}
<1>1. \A s \in SUBSET S : /\ IsFiniteSet(s) /\ Cardinality(s) \in Nat
                          /\ (Cardinality(s) = 0 <=> s = {})
  BY FS_Subset, FS_CardinalityType, FS_EmptySet
<1>2. \A s \in SUBSET S : s # {} =>
        /\ Max(s) \in s /\ s \ {Max(s)} \in SUBSET S
        /\ Cardinality(s \ {Max(s)}) = Cardinality(s) - 1
  <2> TAKE s \in SUBSET S
  <2> HAVE s # {}
  <2>1. s \in SUBSET Int /\ IsFiniteSet(s)
    BY <1>1
  <2>2. Max(s) \in s
    BY <2>1, GreatestInteger
  <2> QED
    BY <2>1, <2>2, FS_RemoveElement
<1>3. Upto(0)
  <2> DEFINE g == [s \in SUBSET S |-> BlankChart]
  <2>1. \A s \in SUBSET S : Cardinality(s) <= 0 => s = {}
    BY <1>1
  <2>2. \A s \in SUBSET S : Cardinality(s) <= 0 =>
          g[s] = IF s = {} THEN BlankChart ELSE ChartBar(g[s \ {Max(s)}], stored, Max(s))
    BY <2>1
  <2> QED
    BY <2>2
<1>4. ASSUME NEW n \in Nat, Upto(n)
      PROVE  Upto(n + 1)
  <2>1. PICK g : \A s \in SUBSET S : Cardinality(s) <= n =>
          g[s] = IF s = {} THEN BlankChart ELSE ChartBar(g[s \ {Max(s)}], stored, Max(s))
    BY <1>4
  <2> DEFINE h == [s \in SUBSET S |->
                     IF Cardinality(s) <= n THEN g[s]
                     ELSE ChartBar(g[s \ {Max(s)}], stored, Max(s))]
  <2>4. ASSUME NEW s \in SUBSET S, Cardinality(s) <= n + 1
        PROVE  h[s] = IF s = {} THEN BlankChart ELSE ChartBar(h[s \ {Max(s)}], stored, Max(s))
    <3>1. CASE s = {}
      <4>1. Cardinality(s) <= n
        BY <1>1, <3>1
      <4> QED
        BY <2>1, <3>1, <4>1
    <3>2. CASE s # {}
      <4>1. s \ {Max(s)} \in SUBSET S /\ Cardinality(s \ {Max(s)}) <= n
        BY <1>1, <1>2, <2>4, <3>2
      <4>2. h[s \ {Max(s)}] = g[s \ {Max(s)}]
        BY <4>1
      <4>3. h[s] = ChartBar(g[s \ {Max(s)}], stored, Max(s))
        BY <2>1, <3>2
      <4> QED
        BY <3>2, <4>2, <4>3
    <3> QED
      BY <3>1, <3>2
  <2> HIDE DEF h
  <2> QED
    BY <2>4
<1>5. Bad = {}
  <2> SUFFICES ASSUME Bad # {}
               PROVE  FALSE
    OBVIOUS
  <2> HIDE DEF Upto
  <2>1. PICK n \in Bad : \A k \in Bad : n <= k
    <3>1. Bad \in SUBSET Nat
      OBVIOUS
    <3> HIDE DEF Bad
    <3> QED
      BY <3>1, LeastNatural
  <2>2. n \in Nat /\ n # 0 /\ ~Upto(n)
    BY <1>3, <2>1
  <2>3. n - 1 \in Nat /\ n - 1 \notin Bad
    BY <2>1, <2>2
  <2>4. Upto(n - 1)
    BY <2>3
  <2>5. Upto((n - 1) + 1)
    BY <1>4, <2>3, <2>4
  <2> QED
    BY <2>2, <2>5
<1>6. Cardinality(S) \in Nat /\ \A s \in SUBSET S : Cardinality(s) <= Cardinality(S)
  BY FS_Subset, FS_CardinalityType
<1>7. Upto(Cardinality(S))
  <2> HIDE DEF Upto
  <2> QED
    BY <1>5, <1>6
<1>8. PICK g : \A s \in SUBSET S :
        g[s] = IF s = {} THEN BlankChart ELSE ChartBar(g[s \ {Max(s)}], stored, Max(s))
  BY <1>6, <1>7
<1> DEFINE f == [s \in SUBSET S |-> g[s]]
<1>9. ASSUME NEW s \in SUBSET S
      PROVE  f[s] = IF s = {} THEN BlankChart ELSE ChartBar(f[s \ {Max(s)}], stored, Max(s))
  <2>1. s \ {Max(s)} \in SUBSET S
    OBVIOUS
  <2> QED
    BY <1>8, <2>1
<1>10. f = [s \in SUBSET S |->
              IF s = {} THEN BlankChart ELSE ChartBar(f[s \ {Max(s)}], stored, Max(s))]
  <2>1. f = [s \in SUBSET S |-> f[s]]
    OBVIOUS
  <2> HIDE DEF f
  <2> QED
    BY <1>9, <2>1
<1> HIDE DEF f
<1> QED
  BY <1>10 DEF IsChart

\* The geometry of a list of bars is what such a function gives for all of them.
LEMMA ChartOf ==
  ASSUME NEW T, NEW stored \in Seq(T)
  PROVE  \E g : IsChart(g, stored, 1..Len(stored)) /\ ComputeSmcGeometry(stored) = g[1..Len(stored)]
<1> DEFINE n == Len(stored)
           places == [i \in DOMAIN stored |-> i]
           Step(it) == [s \in SUBSET (DOMAIN places) |->
              IF s = {} THEN [swing |-> NoSwing, ict |-> NoIct]
              ELSE ChartBar(it[s \ {Max(s)}], stored, places[Max(s)])]
           iter == CHOOSE it : it = Step(it)
<1>1. ComputeSmcGeometry(stored) = iter[DOMAIN places]
  BY DEF ComputeSmcGeometry, FoldLeftDomain, FoldLeft, MapThenFoldSet
<1>2. DOMAIN places = 1..n /\ n \in Nat
  OBVIOUS
<1>3. 1..n \in SUBSET Int /\ IsFiniteSet(1..n)
  BY <1>2, FS_Interval
<1>4. \A s \in SUBSET (1..n) : s # {} => Max(s) \in 1..n
  <2> TAKE s \in SUBSET (1..n)
  <2>1. s \in SUBSET Int /\ IsFiniteSet(s)
    BY <1>3, FS_Subset
  <2> QED
    BY <2>1, GreatestInteger
<1>5. \A it : IsChart(it, stored, 1..n) <=> it = Step(it)
  <2> TAKE it
  <2>1. Step(it) = [s \in SUBSET (1..n) |->
           IF s = {} THEN BlankChart ELSE ChartBar(it[s \ {Max(s)}], stored, Max(s))]
    <3>1. \A s \in SUBSET (1..n) : s # {} => places[Max(s)] = Max(s)
      BY <1>2, <1>4
    <3> HIDE DEF places
    <3> QED
      BY <1>2, <3>1 DEF BlankChart
  <2> QED
    BY <2>1 DEF IsChart
<1> HIDE DEF Step
<1>6. \E it : it = Step(it)
  BY <1>3, <1>5, ChartExists
<1>7. IsChart(iter, stored, 1..n)
  BY <1>5, <1>6
<1> QED
  BY <1>1, <1>2, <1>7

\* What a bar adds depends on the bars up to it only.
LEMMA BarLooksBack ==
  ASSUME NEW T, NEW s \in Seq(T), NEW b \in T, NEW j \in 1..Len(s), NEW g
  PROVE  ChartBar(g, Append(s, b), j) = ChartBar(g, s, j)
<1> DEFINE t == Append(s, b)
<1>0. Window \in Nat /\ Window >= 3
  BY Sizes
<1>1. Len(s) \in Nat /\ Len(t) = Len(s) + 1 /\ \A i \in 1..Len(s) : t[i] = s[i]
  OBVIOUS
<1>2. ASSUME NEW a \in Int, a >= 1
      PROVE  SubSeq(t, a, j) = SubSeq(s, a, j)
  <2>1. \A i \in a..j : s[i] \in T /\ t[i] \in T /\ t[i] = s[i]
    BY <1>1, <1>2
  <2> HIDE DEF t
  <2>2. /\ SubSeq(s, a, j) \in Seq(T) /\ SubSeq(t, a, j) \in Seq(T)
        /\ Len(SubSeq(s, a, j)) = Len(SubSeq(t, a, j))
        /\ Len(SubSeq(s, a, j)) = IF a <= j THEN j - a + 1 ELSE 0
        /\ \A i \in 1..(j - a + 1) : SubSeq(s, a, j)[i] = s[a + i - 1]
                                   /\ SubSeq(t, a, j)[i] = t[a + i - 1]
    BY <1>2, <2>1, SubSeqProperties
  <2>3. \A i \in 1..Len(SubSeq(t, a, j)) : SubSeq(t, a, j)[i] = SubSeq(s, a, j)[i]
    <3> TAKE i \in 1..Len(SubSeq(t, a, j))
    <3>1. i \in 1..(j - a + 1) /\ a + i - 1 \in a..j
      BY <1>2, <2>2
    <3> QED
      BY <2>1, <2>2, <3>1
  <2> QED
    BY <2>2, <2>3, SeqEqual
<1>3. t[j] = s[j]
  BY <1>1
<1>4. j >= 3 => t[j - 2] = s[j - 2]
  BY <1>1
<1>5. j >= Window => SubSeq(t, j - Window + 1, j) = SubSeq(s, j - Window + 1, j)
  BY <1>0, <1>2
<1> HIDE DEF t
<1>6. ChartBar(g, t, j) = ChartBar(g, s, j)
  <2> DEFINE quiet == [g.swing EXCEPT !.event = FALSE]
             new(r) == IF j < Window THEN quiet
                       ELSE Broken(Pivots(quiet, SubSeq(r, j - Window + 1, j)), r[j].c)
  <2>1. new(t) = new(s)
    <3> HIDE DEF quiet
    <3>1. CASE j < Window
      BY <3>1
    <3>2. CASE ~(j < Window)
      <4>1. SubSeq(t, j - Window + 1, j) = SubSeq(s, j - Window + 1, j)
        BY <1>0, <1>5, <3>2
      <4> QED
        BY <1>3, <3>2, <4>1
    <3> QED
      BY <3>1, <3>2
  <2>2. \A r : ChartBar(g, r, j) =
          [swing |-> new(r),
           ict |-> IF j < 3 THEN g.ict ELSE Concepts(g.ict, new(r), r[j - 2], r[j], j)]
    BY DEF ChartBar
  <2> HIDE DEF new, quiet
  <2> QED
    BY <1>3, <1>4, <2>1, <2>2
<1> QED
  BY <1>6 DEF t

LEMMA ChartOfNone == ComputeSmcGeometry(<<>>) = BlankChart
<1>1. <<>> \in Seq(Int) /\ Len(<<>>) = 0 /\ 1..0 = {}
  OBVIOUS
<1>2. PICK g : IsChart(g, <<>>, {}) /\ ComputeSmcGeometry(<<>>) = g[{}]
  BY <1>1, ChartOf
<1> QED
  BY <1>2 DEF IsChart

\* One more bar is one more step of the geometry.
LEMMA ChartGrows ==
  ASSUME NEW T, NEW s \in Seq(T), NEW b \in T
  PROVE  ComputeSmcGeometry(Append(s, b))
           = ChartBar(ComputeSmcGeometry(s), Append(s, b), Len(s) + 1)
<1> DEFINE t == Append(s, b)
           n == Len(s)
<1>1. t \in Seq(T) /\ Len(t) = n + 1 /\ n \in Nat
  OBVIOUS
<1>2. PICK g : IsChart(g, s, 1..n) /\ ComputeSmcGeometry(s) = g[1..n]
  BY ChartOf
<1>3. PICK h : IsChart(h, t, 1..(n + 1)) /\ ComputeSmcGeometry(t) = h[1..(n + 1)]
  BY <1>1, ChartOf
<1>4. \A j \in 1..n : \A x : ChartBar(x, t, j) = ChartBar(x, s, j)
  BY BarLooksBack
<1> HIDE DEF t
<1>5. /\ \A u \in SUBSET (1..n) :
           g[u] = IF u = {} THEN BlankChart ELSE ChartBar(g[u \ {Max(u)}], s, Max(u))
      /\ \A u \in SUBSET (1..(n + 1)) :
           h[u] = IF u = {} THEN BlankChart ELSE ChartBar(h[u \ {Max(u)}], t, Max(u))
  BY <1>2, <1>3 DEF IsChart
<1>6. IsFiniteSet(1..n) /\ 1..n \in SUBSET Int /\ 1..n \in SUBSET (1..(n + 1))
  BY <1>1, FS_Interval
<1> DEFINE Good == {u \in SUBSET (1..n) : h[u] = g[u]}
<1>7. ASSUME NEW u \in SUBSET (1..n), u # {}, \A x \in u : u \ {x} \in Good
      PROVE  u \in Good
  <2>1. u \in SUBSET Int /\ IsFiniteSet(u)
    BY <1>6, FS_Subset
  <2>2. Max(u) \in u
    BY <1>7, <2>1, GreatestInteger
  <2>3. h[u \ {Max(u)}] = g[u \ {Max(u)}]
    BY <1>7, <2>2
  <2>4. h[u] = ChartBar(h[u \ {Max(u)}], t, Max(u)) /\ g[u] = ChartBar(g[u \ {Max(u)}], s, Max(u))
    BY <1>5, <1>6, <1>7
  <2> QED
    BY <1>4, <2>2, <2>3, <2>4
<1>8. {} \in Good
  BY <1>5
<1>9. h[1..n] = g[1..n]
  <2>1. Good \in SUBSET (SUBSET (1..n)) /\ \A u \in SUBSET (1..n) :
          u # {} /\ (\A x \in u : u \ {x} \in Good) => u \in Good
    BY <1>7
  <2> HIDE DEF Good
  <2>2. \A u \in SUBSET (1..n) : u \in Good
    BY <1>6, <1>8, <2>1, SubsetInduction
  <2> QED
    BY <2>2 DEF Good
<1>10. Max(1..(n + 1)) = n + 1 /\ (1..(n + 1)) \ {n + 1} = 1..n /\ 1..(n + 1) # {}
  <2>1. 1..(n + 1) \in SUBSET Int /\ IsFiniteSet(1..(n + 1)) /\ n + 1 \in 1..(n + 1)
    BY <1>1, FS_Interval
  <2>2. Max(1..(n + 1)) \in 1..(n + 1) /\ \A y \in 1..(n + 1) : y <= Max(1..(n + 1))
    BY <2>1, GreatestInteger
  <2>3. Max(1..(n + 1)) = n + 1
    <3> DEFINE m == Max(1..(n + 1))
    <3>1. m \in 1..(n + 1) /\ n + 1 <= m
      BY <2>1, <2>2
    <3> HIDE DEF m
    <3> QED
      BY <1>1, <3>1 DEF m
  <2> QED
    BY <1>1, <2>1, <2>3
<1>11. h[1..(n + 1)] = ChartBar(h[1..n], t, n + 1)
  BY <1>5, <1>10
<1> QED
  BY <1>2, <1>3, <1>9, <1>11 DEF t

-----------------------------------------------------------------------------
(* The last bars. *)

LEMMA LastOfFacts ==
  ASSUME NEW T, NEW s \in Seq(T), NEW n \in Nat
  PROVE  /\ LastOf(n, s) \in Seq(T)
         /\ Len(LastOf(n, s)) = Lowest(n, Len(s))
         /\ Lowest(n, Len(s)) \in Nat /\ Lowest(n, Len(s)) <= n
         /\ Lowest(n, Len(s)) <= Len(s) /\ Lowest(n, Len(s)) \in {n, Len(s)}
         /\ \A i \in 1..Lowest(n, Len(s)) :
              /\ LastOf(n, s)[i] = s[Len(s) - Lowest(n, Len(s)) + i]
              /\ Len(s) - Lowest(n, Len(s)) + i \in 1..Len(s)
<1> DEFINE m == Lowest(n, Len(s))
<1>1. Len(s) \in Nat /\ m \in Nat /\ m <= n /\ m <= Len(s) /\ m \in {n, Len(s)}
  BY DEF Lowest
<1>2. LastOf(n, s) = SubSeq(s, Len(s) - m + 1, Len(s))
  BY DEF LastOf
<1> HIDE DEF m
<1>3. \A i \in (Len(s) - m + 1)..Len(s) : s[i] \in T
  BY <1>1
<1> DEFINE a == Len(s) - m + 1
<1>4. /\ SubSeq(s, a, Len(s)) \in Seq(T)
      /\ Len(SubSeq(s, a, Len(s))) = IF a <= Len(s) THEN Len(s) - a + 1 ELSE 0
      /\ \A i \in 1..(Len(s) - a + 1) : SubSeq(s, a, Len(s))[i] = s[a + i - 1]
  <2>1. a \in Int /\ Len(s) \in Int
    BY <1>1
  <2> HIDE DEF a
  <2> QED
    BY <1>3, <2>1, SubSeqProperties DEF a
<1>5. Len(LastOf(n, s)) = m
  BY <1>1, <1>2, <1>4
<1>6. ASSUME NEW i \in 1..m
      PROVE  LastOf(n, s)[i] = s[Len(s) - m + i] /\ Len(s) - m + i \in 1..Len(s)
  <2>1. i \in 1..(Len(s) - a + 1) /\ a + i - 1 = Len(s) - m + i /\ Len(s) - m + i \in 1..Len(s)
    BY <1>1
  <2> QED
    BY <1>2, <1>4, <2>1
<1> QED
  BY <1>1, <1>2, <1>4, <1>5, <1>6 DEF m

\* The last bars are some of the bars.
LEMMA LastOfMembers ==
  ASSUME NEW T, NEW s \in Seq(T), NEW n \in Nat
  PROVE  /\ LastOf(n, s) \in Seq(T) /\ Len(LastOf(n, s)) <= n /\ Len(LastOf(n, s)) <= Len(s)
         /\ \A i \in 1..Len(LastOf(n, s)) : \E j \in 1..Len(s) : LastOf(n, s)[i] = s[j]
<1> DEFINE m == Lowest(n, Len(s))
           r == LastOf(n, s)
<1>1. /\ r \in Seq(T) /\ Len(r) = m /\ m <= n /\ m <= Len(s)
      /\ \A i \in 1..m : r[i] = s[Len(s) - m + i] /\ Len(s) - m + i \in 1..Len(s)
  BY LastOfFacts
<1> HIDE DEF m, r
<1>2. \A i \in 1..Len(r) : \E j \in 1..Len(s) : r[i] = s[j]
  BY <1>1
<1> QED
  BY <1>1, <1>2 DEF r

LEMMA RememberedFacts ==
  ASSUME NEW T, NEW s \in Seq(T), NEW n, n = Len(s), NEW k, k = Lowest(KeptBars, n)
  PROVE  /\ Remembered(s) \in Seq(T) /\ Len(Remembered(s)) = k
         /\ k \in Nat /\ k <= KeptBars /\ k <= n /\ k \in {KeptBars, n}
         /\ \A i \in 1..k : Remembered(s)[i] = s[n - k + i] /\ n - k + i \in 1..n
  BY Sizes, LastOfFacts DEF Remembered

\* Forgetting the oldest bar early changes nothing in what is remembered.
LEMMA RememberedGrows ==
  ASSUME NEW T, NEW s \in Seq(T), NEW b \in T
  PROVE  Remembered(Append(Remembered(s), b)) = Remembered(Append(s, b))
<1> DEFINE K == KeptBars
           r == Remembered(s)
           N == Len(s)
           m == Lowest(K, N)
<1>1. /\ K \in Nat /\ K >= 3 /\ N \in Nat
  BY Sizes
<1>2. /\ r \in Seq(T) /\ Len(r) = m /\ m \in Nat /\ m <= K /\ m <= N /\ m \in {K, N}
      /\ \A i \in 1..m : r[i] = s[N - m + i]
  BY <1>1, LastOfFacts DEF Remembered
<1> HIDE DEF r, m
<1> DEFINE t == Append(s, b)
           u == Append(r, b)
<1>3. /\ t \in Seq(T) /\ Len(t) = N + 1 /\ t[N + 1] = b /\ \A i \in 1..N : t[i] = s[i]
      /\ u \in Seq(T) /\ Len(u) = m + 1 /\ u[m + 1] = b /\ \A i \in 1..m : u[i] = r[i]
  BY <1>2
<1> DEFINE k == Lowest(K, N + 1)
<1>4. /\ k \in Nat /\ k <= N + 1 /\ k <= m + 1 /\ Lowest(K, m + 1) = k
  BY <1>1, <1>2 DEF Lowest
<1> HIDE DEF t, u, k
<1>5. /\ Remembered(t) \in Seq(T) /\ Len(Remembered(t)) = k
      /\ \A i \in 1..k : Remembered(t)[i] = t[N + 1 - k + i]
  <2> DEFINE n == N + 1
  <2>1. n = Len(t) /\ k = Lowest(KeptBars, n) /\ t \in Seq(T)
    BY <1>3 DEF k
  <2> HIDE DEF n
  <2>2. /\ Remembered(t) \in Seq(T) /\ Len(Remembered(t)) = k
        /\ \A i \in 1..k : Remembered(t)[i] = t[n - k + i]
    BY <2>1, RememberedFacts
  <2> QED
    BY <2>2 DEF n
<1>6. /\ Remembered(u) \in Seq(T) /\ Len(Remembered(u)) = k
      /\ \A i \in 1..k : Remembered(u)[i] = u[m + 1 - k + i]
  <2> DEFINE n == m + 1
  <2>1. n = Len(u) /\ k = Lowest(KeptBars, n) /\ u \in Seq(T)
    BY <1>3, <1>4
  <2> HIDE DEF n
  <2>2. /\ Remembered(u) \in Seq(T) /\ Len(Remembered(u)) = k
        /\ \A i \in 1..k : Remembered(u)[i] = u[n - k + i]
    BY <2>1, RememberedFacts
  <2> QED
    BY <1>2, <1>4, <2>2 DEF n
<1>7. ASSUME NEW i \in 1..k
      PROVE  t[N + 1 - k + i] = u[m + 1 - k + i]
  <2>1. CASE i = k
    <3>1. N + 1 - k + i = N + 1 /\ m + 1 - k + i = m + 1
      BY <1>1, <1>2, <1>4, <2>1
    <3> QED
      BY <1>3, <3>1
  <2>2. CASE i # k
    <3> DEFINE x == m + 1 - k + i
    <3>1. x \in 1..m /\ N + 1 - k + i = N - m + x /\ N - m + x \in 1..N
      BY <1>1, <1>2, <1>4, <2>2
    <3> HIDE DEF x
    <3>2. u[x] = s[N - m + x]
      BY <1>2, <1>3, <3>1
    <3>3. t[N - m + x] = s[N - m + x]
      BY <1>3, <3>1
    <3>4. t[N + 1 - k + i] = u[x]
      BY <3>1, <3>2, <3>3
    <3> QED
      BY <3>4 DEF x
  <2> QED
    BY <2>1, <2>2
<1>8. Remembered(t) = Remembered(u)
  BY <1>5, <1>6, <1>7, SeqEqual
<1> QED
  BY <1>8 DEF t, u, r

\* A bar is added to what is remembered.
LEMMA NewBar ==
  ASSUME NEW T, NEW s \in Seq(T), NEW b \in T,
         NEW new, new = Remembered(Append(s, b))
  PROVE  /\ new \in Seq(T) /\ Len(new) = Lowest(KeptBars, Len(s) + 1)
         /\ Len(new) <= KeptBars /\ Len(new) >= 1 /\ Len(new) <= Len(s) + 1
         /\ Len(s) <= KeptBars => Len(new) >= Len(s)
         /\ Last(new) = b
         /\ Len(new) >= 3 => Len(s) >= 2 /\ new[Len(new) - 2] = s[Len(s) - 1]
         /\ \A i \in 1..Len(new) : new[i] = b \/ \E j \in 1..Len(s) : new[i] = s[j]
<1> DEFINE t == Append(s, b)
           N == Len(s)
           k == Lowest(KeptBars, N + 1)
<1>1. /\ t \in Seq(T) /\ Len(t) = N + 1 /\ t[N + 1] = b /\ \A i \in 1..N : t[i] = s[i]
      /\ N \in Nat /\ KeptBars \in Nat /\ KeptBars >= 3
  BY Sizes
<1> HIDE DEF t
<1>2. /\ new \in Seq(T) /\ Len(new) = k /\ k \in Nat /\ k <= KeptBars /\ k <= N + 1
      /\ k \in {KeptBars, N + 1}
      /\ \A i \in 1..k : new[i] = t[N + 1 - k + i] /\ N + 1 - k + i \in 1..(N + 1)
  <2>1. new = Remembered(t)
    BY DEF t
  <2> QED
    BY <1>1, <2>1, RememberedFacts
<1>3. k >= 1
  BY <1>1, <1>2
<1>4. Last(new) = b
  <2>1. N + 1 - k + k = N + 1 /\ k \in 1..k
    BY <1>1, <1>2, <1>3
  <2> QED
    BY <1>1, <1>2, <2>1 DEF Last
<1>5. k >= 3 => N >= 2 /\ new[k - 2] = s[N - 1]
  <2> SUFFICES ASSUME k >= 3 PROVE N >= 2 /\ new[k - 2] = s[N - 1]
    OBVIOUS
  <2>1. k - 2 \in 1..k /\ N + 1 - k + (k - 2) = N - 1 /\ N - 1 \in 1..N /\ N >= 2
    BY <1>1, <1>2
  <2> QED
    BY <1>1, <1>2, <2>1
<1>6. ASSUME NEW i \in 1..k
      PROVE  new[i] = b \/ \E j \in 1..N : new[i] = s[j]
  <2> DEFINE x == N + 1 - k + i
  <2>1. new[i] = t[x] /\ x \in 1..(N + 1)
    BY <1>2
  <2> HIDE DEF x
  <2> QED
    BY <1>1, <2>1
<1> QED
  BY <1>1, <1>2, <1>3, <1>4, <1>5, <1>6
-----------------------------------------------------------------------------
(* The inductive invariant of the structure. *)

Labels == {"None", "Bullish BOS", "Bullish CHOCH", "Bearish BOS", "Bearish CHOCH"}

SwingsOf(top) ==
  [high1 : 0..top, high2 : 0..top, low1 : 0..top, low2 : 0..top, trend : -1..1,
   label : Labels, brokenHigh : 0..top, brokenLow : 0..top, event : BOOLEAN]

RetestsOf(top) ==
  [status : {"NO_BREAKOUT", "PENDING_RETEST", "RETEST_HELD", "RETEST_FAILED"},
   level : 0..top, side : -1..1, armed : 0..MaxBars]

ZonesOf(top) == [supply : Spans(top), demand : Spans(top)]

IctsOf(top) ==
  [sweep : {"none", "sellside", "buyside"}, gapUp : Spans(top), gapDown : Spans(top),
   blockUp : Spans(top), blockDown : Spans(top)]

\* The highest price of some bars.
TopOf(s) == IF s = <<>> THEN 0 ELSE Max({s[i].h : i \in DOMAIN s})

StructureTypes ==
  /\ bars \in Seq(Shapes) /\ Len(bars) <= MaxBars
  /\ recent \in Seq(Shapes) /\ Len(recent) <= KeptBars
  /\ swing \in SwingsOf(TopOf(bars)) /\ retest \in RetestsOf(TopOf(bars))
  /\ zones \in ZonesOf(TopOf(bars)) /\ ict \in IctsOf(TopOf(bars))
  /\ restarts \in 0..MaxRestarts

\* What is remembered was there; without a restart, the last of it is remembered.
RecentIsKept ==
  /\ \A i \in 1..Len(recent) : \E j \in 1..Len(bars) : recent[i] = bars[j]
  /\ restarts = 0 => recent = Remembered(bars)

\* Before there are enough bars for a zone or a gap there is none.
NothingEarly ==
  /\ Len(recent) < 2 => zones = NoZones
  /\ Len(recent) < 3 => ict = NoIct

\* The chart and the engine agree from the first bar on.
SameStory == restarts = 0 => ComputeSmcGeometry(bars) = [swing |-> swing, ict |-> ict]

\* The closes in the prices of one side.
Closes(s, side) == [i \in 1..Len(s) |-> IF side = 1 THEN s[i].c ELSE -s[i].c]

\* The bars of a stretch that close below a price.
Inside(closes, from, to, high) == {i \in from..to : closes[i] <= high}

\* The marks of a gap count the closes that have been inside.
GapOf(gap, closes, n) ==
  gap.at # 0 =>
    /\ gap.at \in 1..n
    /\ \A i \in gap.at..n : closes[i] >= gap.low
    /\ gap.marks = Cardinality(Inside(closes, gap.at, n, gap.high))
    /\ gap.marks < GapTouches

\* The close at v has confirmed the block.
ConfirmedAt(block, closes, n, v) ==
  /\ closes[v] > block.high
  /\ \A i \in block.at..v : closes[i] >= block.low
  /\ \A i \in v..n : 2 * closes[i] >= block.low + block.high

\* A block waits, with no close below it, until a close above confirms it.
BlockOf(block, closes, n) ==
  /\ block.at = 0 => block.marks = 0
  /\ block.at # 0 =>
       /\ block.at \in 1..n /\ block.low <= block.high /\ block.marks \in {0, 1}
       /\ block.marks = 0 => \A i \in block.at..n : closes[i] >= block.low
       /\ block.marks = 1 => \E v \in block.at..n : ConfirmedAt(block, closes, n, v)

ZoneOf(zone, closes, n) ==
  zone.at # 0 => zone.at \in 1..n /\ \A i \in zone.at..n : closes[i] <= zone.high

\* A retest has a side as long as it is pending.
RetestOf(r, s, closes, n) ==
  IF r.side = 0 THEN r.status # "PENDING_RETEST"
  ELSE /\ r.status = "PENDING_RETEST" /\ r.armed \in 1..n
       /\ r.side = s.trend
       /\ r.level = IF s.trend = 1 THEN s.brokenHigh ELSE s.brokenLow
       /\ n - r.armed <= RetestTtl
       /\ \A i \in r.armed..n : closes[i] >= IF r.side = 1 THEN r.level ELSE -r.level

SpansStand ==
  LET up == Closes(bars, 1)
      down == Closes(bars, -1)
      n == Len(bars)
  IN  /\ GapOf(ict.gapUp, up, n) /\ GapOf(ict.gapDown, down, n)
      /\ BlockOf(ict.blockUp, up, n) /\ BlockOf(ict.blockDown, down, n)
      /\ ZoneOf(zones.supply, up, n) /\ ZoneOf(zones.demand, down, n)
      /\ RetestOf(retest, swing, Closes(bars, retest.side), n)

SwingIInv ==
  /\ StructureTypes
  /\ RecentIsKept
  /\ NothingEarly
  /\ SameStory
  /\ SpansStand

-----------------------------------------------------------------------------
(* Bars and their prices. *)

LEMMA ShapeFacts ==
  ASSUME NEW b \in Shapes
  PROVE  /\ b.o \in Nat /\ b.h \in Nat /\ b.l \in Nat /\ b.c \in Nat
         /\ b.h > 0 /\ b.l > 0 /\ b.c > 0
         /\ b.l <= b.o /\ b.l <= b.c /\ b.o <= b.h /\ b.c <= b.h
<1>1. b \in [o : Nat \ {0}, h : Nat \ {0}, l : Nat \ {0}, c : Nat \ {0}, v : Nat \ {0}]
  BY SwingAssumption
<1>2. b.l <= b.o /\ b.l <= b.c /\ b.o <= b.h /\ b.c <= b.h
  BY SwingAssumption
<1> QED
  BY <1>1, <1>2

LEMMA MirrorFacts ==
  ASSUME NEW b \in Shapes
  PROVE  /\ Mirror(b).o = -b.o /\ Mirror(b).h = -b.l
         /\ Mirror(b).l = -b.h /\ Mirror(b).c = -b.c
<1>1. b \in [o : Nat \ {0}, h : Nat \ {0}, l : Nat \ {0}, c : Nat \ {0}, v : Nat \ {0}]
  BY SwingAssumption
<1> QED
  BY <1>1 DEF Mirror

\* No bar is above the highest price, which another bar does not lower.
LEMMA TopFacts ==
  ASSUME NEW s \in Seq(Shapes)
  PROVE  TopOf(s) \in Nat /\ \A i \in 1..Len(s) : s[i].h <= TopOf(s)
<1>1. Len(s) \in Nat /\ DOMAIN s = 1..Len(s)
  OBVIOUS
<1>2. CASE s = <<>>
  BY <1>2 DEF TopOf
<1>3. CASE s # <<>>
  <2> DEFINE hs == [i \in 1..Len(s) |-> s[i].h]
             S == {hs[i] : i \in 1..Len(s)}
  <2>1. \A i \in 1..Len(s) : s[i] \in Shapes /\ s[i].h \in Nat
    BY ShapeFacts
  <2>2. IsFiniteSet(1..Len(s))
    BY <1>1, FS_Interval
  <2>3. IsFiniteSet(S)
    <3> HIDE DEF hs
    <3> QED
      BY <2>2, FiniteImage
  <2>4. S \in SUBSET Int /\ S \in SUBSET Nat
    BY <2>1
  <2>5. S # {}
    <3>1. 1 \in 1..Len(s)
      BY <1>1, <1>3, EmptySeq
    <3> QED
      BY <3>1
  <2>6. TopOf(s) = Max(S)
    <3>1. {s[i].h : i \in DOMAIN s} = S
      BY <1>1
    <3> QED
      BY <1>3, <3>1 DEF TopOf
  <2>7. \A i \in 1..Len(s) : s[i].h \in S
    OBVIOUS
  <2> HIDE DEF S
  <2>8. Max(S) \in S /\ \A y \in S : y <= Max(S)
    BY <2>3, <2>4, <2>5, GreatestInteger
  <2> QED
    BY <2>4, <2>6, <2>7, <2>8
<1> QED
  BY <1>2, <1>3

LEMMA TopGrows ==
  ASSUME NEW s \in Seq(Shapes), NEW b \in Shapes
  PROVE  TopOf(s) <= TopOf(Append(s, b)) /\ b.h <= TopOf(Append(s, b))
<1> DEFINE t == Append(s, b)
<1>1. /\ t \in Seq(Shapes) /\ Len(t) = Len(s) + 1 /\ Len(s) \in Nat
      /\ t[Len(s) + 1] = b /\ \A i \in 1..Len(s) : t[i] = s[i]
  OBVIOUS
<1> HIDE DEF t
<1>2. TopOf(t) \in Nat /\ \A i \in 1..(Len(s) + 1) : t[i].h <= TopOf(t)
  BY <1>1, TopFacts
<1>3. b.h <= TopOf(t)
  BY <1>1, <1>2
<1>4. CASE s = <<>>
  <2>1. TopOf(s) = 0
    BY <1>4 DEF TopOf
  <2> QED
    BY <1>2, <1>3, <2>1 DEF t
<1>5. CASE s # <<>>
  <2> DEFINE S == {s[i].h : i \in DOMAIN s}
  <2>1. TopOf(s) = Max(S)
    BY <1>5 DEF TopOf
  <2>2. TopOf(s) \in S
    <3> DEFINE hs == [i \in 1..Len(s) |-> s[i].h]
               H == {hs[i] : i \in 1..Len(s)}
    <3>1. S = H /\ H # {}
      BY <1>1, <1>5
    <3>2. H \in SUBSET Int
      <4>1. \A i \in 1..Len(s) : s[i] \in Shapes /\ s[i].h \in Int
        BY ShapeFacts
      <4> QED
        BY <4>1
    <3>3. IsFiniteSet(1..Len(s))
      BY <1>1, FS_Interval
    <3>4. IsFiniteSet(H)
      <4> HIDE DEF hs
      <4> QED
        BY <3>3, FiniteImage
    <3> HIDE DEF H, S
    <3> QED
      BY <2>1, <3>1, <3>2, <3>4, GreatestInteger
  <2>3. PICK i \in 1..Len(s) : TopOf(s) = s[i].h
    BY <2>2
  <2>4. TopOf(s) = t[i].h /\ i \in 1..(Len(s) + 1)
    BY <1>1, <2>3
  <2> QED
    BY <1>2, <1>3, <2>4 DEF t
<1> QED
  BY <1>2, <1>3, <1>4, <1>5 DEF t

-----------------------------------------------------------------------------
(* What a bar does to a gap, a block and a zone. *)

LEMMA SpanTypes ==
  ASSUME NEW top \in Nat, NEW span \in Spans(top)
  PROVE  /\ span.low \in Int /\ span.high \in Int /\ span.at \in Nat /\ span.marks \in Nat
         /\ NoSpan \in Spans(top) /\ NoSpan.at = 0 /\ NoSpan.marks = 0
<1>1. MaxBars \in Nat /\ GapTouches \in Nat
  BY Sizes
<1>2. NoSpan \in Spans(top)
  BY <1>1 DEF NoSpan, None, Spans
<1> QED
  BY <1>1, <1>2 DEF Spans, NoSpan

\* One more close is inside, or not.
LEMMA OneMoreInside ==
  ASSUME NEW n \in Nat, NEW at \in 1..(n + 1), NEW new \in [1..(n + 1) -> Int], NEW high \in Int
  PROVE  LET before == Cardinality(Inside(new, at, n, high))
         IN  /\ before \in Nat
             /\ Cardinality(Inside(new, at, n + 1, high))
                  = IF new[n + 1] <= high THEN before + 1 ELSE before
<1> DEFINE B == Inside(new, at, n, high)
           A == Inside(new, at, n + 1, high)
<1>1. IsFiniteSet(B) /\ Cardinality(B) \in Nat
  <2>1. B \in SUBSET (1..n)
    BY DEF Inside
  <2> HIDE DEF B
  <2> QED
    BY <2>1, FinitePlaces
<1>2. n + 1 \notin B
  BY DEF Inside
<1>3. CASE new[n + 1] <= high
  <2>1. A = B \cup {n + 1}
    BY <1>3 DEF Inside
  <2> HIDE DEF A, B
  <2>2. Cardinality(B \cup {n + 1}) = Cardinality(B) + 1
    BY <1>1, <1>2, FS_AddElement
  <2>3. Cardinality(A) = Cardinality(B) + 1
    BY <2>1, <2>2
  <2> QED
    BY <1>1, <1>3, <2>3 DEF A, B
<1>4. CASE ~(new[n + 1] <= high)
  <2>1. A = B
    BY <1>4 DEF Inside
  <2> HIDE DEF A, B
  <2>2. Cardinality(A) = Cardinality(B)
    BY <2>1
  <2> QED
    BY <1>1, <1>4, <2>2 DEF A, B
<1> QED
  BY <1>3, <1>4

LEMMA GapKeeps ==
  ASSUME NEW n \in Nat, NEW closes \in [1..n -> Int], NEW new \in [1..(n + 1) -> Int],
         \A i \in 1..n : new[i] = closes[i],
         NEW top \in Nat, NEW gap \in Spans(top), NEW first, NEW cur,
         first.h \in Int, cur.l \in Int, cur.c \in Int, cur.l <= cur.c, cur.c = new[n + 1],
         GapOf(gap, closes, n)
  PROVE  GapOf(Gap(gap, first, cur, n + 1), new, n + 1)
<1> DEFINE fresh == [low |-> first.h, high |-> cur.l, at |-> n + 1, marks |-> 0]
           made == IF first.h < cur.l THEN fresh ELSE gap
           inside == made.low <= cur.c /\ cur.c <= made.high
           out == Gap(gap, first, cur, n + 1)
<1>0. GapTouches \in Nat \ {0}
  BY Sizes
<1>1. /\ made.low \in Int /\ made.high \in Int
      /\ made.at # 0 =>
           /\ made.at \in 1..(n + 1) /\ made.marks \in Nat /\ made.marks < GapTouches
           /\ \A i \in made.at..n : new[i] >= made.low
           /\ made.marks = Cardinality(Inside(new, made.at, n, made.high))
  <2>1. CASE first.h < cur.l
    <3>1. made = fresh
      BY <2>1
    <3>2. made.low = first.h /\ made.high = cur.l /\ made.at = n + 1 /\ made.marks = 0
      BY <3>1
    <3> HIDE DEF made
    <3>3. Inside(new, made.at, n, made.high) = {}
      BY <3>2 DEF Inside
    <3>4. Cardinality(Inside(new, made.at, n, made.high)) = 0
      BY <3>3, FS_EmptySet
    <3> QED
      BY <1>0, <3>2, <3>4
  <2>2. CASE ~(first.h < cur.l)
    <3>1. made = gap
      BY <2>2
    <3> HIDE DEF made
    <3>2. gap.low \in Int /\ gap.high \in Int /\ gap.at \in Nat /\ gap.marks \in Nat
      BY SpanTypes
    <3>3. SUFFICES ASSUME gap.at # 0
                   PROVE  /\ gap.at \in 1..(n + 1) /\ gap.marks < GapTouches
                          /\ \A i \in gap.at..n : new[i] >= gap.low
                          /\ gap.marks = Cardinality(Inside(new, gap.at, n, gap.high))
      BY <3>1, <3>2
    <3>4. /\ gap.at \in 1..n /\ gap.marks < GapTouches
          /\ \A i \in gap.at..n : closes[i] >= gap.low
          /\ gap.marks = Cardinality(Inside(closes, gap.at, n, gap.high))
      BY <3>3 DEF GapOf
    <3>5. Inside(closes, gap.at, n, gap.high) = Inside(new, gap.at, n, gap.high)
      BY <3>4 DEF Inside
    <3>6. \A i \in gap.at..n : new[i] >= gap.low
      BY <3>4
    <3>7. gap.marks = Cardinality(Inside(new, gap.at, n, gap.high))
      BY <3>4, <3>5
    <3> QED
      BY <3>4, <3>6, <3>7
  <2> QED
    BY <2>1, <2>2
<1>2. out = CASE made.at = 0 -> NoSpan
            [] made.at # 0 /\ cur.c < made.low -> NoSpan
            [] made.at # 0 /\ inside /\ made.marks + 1 >= GapTouches -> NoSpan
            [] made.at # 0 /\ inside /\ made.marks + 1 < GapTouches -> [made EXCEPT !.marks = @ + 1]
            [] OTHER -> made
  BY DEF Gap
<1>3. made \in [low : Int, high : Int, at : Nat, marks : Nat]
  <2>1. gap \in [low : Int, high : Int, at : Nat, marks : Nat]
    BY Sizes DEF Spans
  <2>2. fresh \in [low : Int, high : Int, at : Nat, marks : Nat]
    OBVIOUS
  <2> HIDE DEF fresh
  <2> QED
    BY <2>1, <2>2
<1> HIDE DEF made, out
<1>4. CASE made.at = 0
  <2>1. out = NoSpan
    BY <1>2, <1>4
  <2> QED
    BY <2>1 DEF GapOf, NoSpan, out
<1>5. CASE made.at # 0 /\ cur.c < made.low
  <2>1. out = NoSpan
    BY <1>1, <1>2, <1>5
  <2> QED
    BY <2>1 DEF GapOf, NoSpan, out
<1>6. CASE made.at # 0 /\ cur.c >= made.low
  <2> DEFINE at == made.at
             high == made.high
             before == Cardinality(Inside(new, at, n, high))
             after == Cardinality(Inside(new, at, n + 1, high))
  <2>1. at \in 1..(n + 1) /\ high \in Int /\ before = made.marks
        /\ after = IF new[n + 1] <= high THEN before + 1 ELSE before
    <3>1. at \in 1..(n + 1) /\ high \in Int /\ before = made.marks
      BY <1>1, <1>6
    <3> HIDE DEF at, high
    <3>2. after = IF new[n + 1] <= high THEN before + 1 ELSE before
      <4>1. LET b == Cardinality(Inside(new, at, n, high))
            IN  /\ b \in Nat
                /\ Cardinality(Inside(new, at, n + 1, high))
                     = IF new[n + 1] <= high THEN b + 1 ELSE b
        BY <3>1, OneMoreInside
      <4> QED
        BY <4>1
    <3> QED
      BY <3>1, <3>2
  <2>2. \A i \in at..(n + 1) : new[i] >= made.low
    <3> TAKE i \in at..(n + 1)
    <3>1. i \in at..n \/ i = n + 1
      BY <2>1
    <3> QED
      BY <1>1, <1>6, <3>1
  <2>3. inside <=> new[n + 1] <= high
    BY <1>1, <1>6
  <2>4. CASE ~inside
    <3>1. out = made
      BY <1>1, <1>2, <1>6, <2>4
    <3>2. made.marks = after /\ made.marks < GapTouches
      BY <1>1, <1>6, <2>1, <2>3, <2>4
    <3> HIDE DEF inside
    <3>3. GapOf(made, new, n + 1)
      BY <2>1, <2>2, <3>2 DEF GapOf
    <3> QED
      BY <3>1, <3>3 DEF out
  <2>5. CASE inside /\ made.marks + 1 >= GapTouches
    <3>1. out = NoSpan
      <4>1. made.marks + 1 >= GapTouches /\ ~(made.marks + 1 < GapTouches) /\ ~(cur.c < made.low)
        BY <1>0, <1>1, <1>3, <1>6, <2>5
      <4> HIDE DEF inside
      <4> QED
        BY <1>2, <1>6, <2>5, <4>1
    <3> QED
      BY <3>1 DEF GapOf, NoSpan, out
  <2>6. CASE inside /\ made.marks + 1 < GapTouches
    <3> DEFINE more == [made EXCEPT !.marks = @ + 1]
    <3>1. out = more
      <4>1. ~(made.marks + 1 >= GapTouches)
        BY <1>0, <1>3, <2>6
      <4> HIDE DEF more, inside
      <4> QED
        BY <1>0, <1>1, <1>2, <1>6, <2>6, <4>1 DEF more
    <3>2. /\ more.at = at /\ more.low = made.low /\ more.high = high
          /\ more.marks = made.marks + 1
      BY <1>3
    <3>3. made.marks + 1 = after
      BY <2>1, <2>3, <2>6
    <3> HIDE DEF more, inside
    <3>4. GapOf(more, new, n + 1)
      BY <2>1, <2>2, <2>6, <3>2, <3>3 DEF GapOf
    <3> QED
      BY <3>1, <3>4 DEF out
  <2>7. inside => \/ made.marks + 1 >= GapTouches
                  \/ made.marks + 1 < GapTouches
    BY <1>0, <1>3
  <2> QED
    BY <2>4, <2>5, <2>6, <2>7
<1> QED
  BY <1>1, <1>4, <1>5, <1>6

LEMMA BlockKeeps ==
  ASSUME NEW n \in Nat, NEW closes \in [1..n -> Int], NEW new \in [1..(n + 1) -> Int],
         \A i \in 1..n : new[i] = closes[i],
         NEW top \in Nat, NEW block \in Spans(top), NEW swept \in BOOLEAN, NEW cur,
         cur.l \in Int, cur.h \in Int, cur.c \in Int, cur.l <= cur.c, cur.c <= cur.h,
         cur.c = new[n + 1], BlockOf(block, closes, n)
  PROVE  BlockOf(Block(block, swept, cur, n + 1), new, n + 1)
<1> DEFINE fresh == [low |-> cur.l, high |-> cur.h, at |-> n + 1, marks |-> 0]
           made == IF swept /\ cur.c < cur.o /\ block.marks = 0 THEN fresh ELSE block
           out == Block(block, swept, cur, n + 1)
<1>1. /\ made \in [low : Int, high : Int, at : Nat, marks : Nat]
      /\ made.at = 0 => made.marks = 0
      /\ made.at # 0 =>
           /\ made.at \in 1..(n + 1) /\ made.low <= made.high /\ made.marks \in {0, 1}
           /\ made.marks = 0 => \A i \in made.at..n : new[i] >= made.low
           /\ made.marks = 1 =>
                \E v \in made.at..n :
                  /\ new[v] > made.high
                  /\ \A i \in made.at..v : new[i] >= made.low
                  /\ \A i \in v..n : 2 * new[i] >= made.low + made.high
  <2>1. CASE swept /\ cur.c < cur.o /\ block.marks = 0
    <3>1. made = fresh
      BY <2>1
    <3> HIDE DEF made
    <3> QED
      BY <3>1
  <2>2. CASE ~(swept /\ cur.c < cur.o /\ block.marks = 0)
    <3>1. made = block
      BY <2>2
    <3>2. block \in [low : Int, high : Int, at : Nat, marks : Nat]
      BY Sizes DEF Spans
    <3> HIDE DEF made
    <3>3. SUFFICES ASSUME block.at # 0
                   PROVE  /\ block.at \in 1..(n + 1) /\ block.low <= block.high /\ block.marks \in {0, 1}
                          /\ block.marks = 0 => \A i \in block.at..n : new[i] >= block.low
                          /\ block.marks = 1 =>
                              \E v \in block.at..n :
                                /\ new[v] > block.high
                                /\ \A i \in block.at..v : new[i] >= block.low
                                /\ \A i \in v..n : 2 * new[i] >= block.low + block.high
      BY <3>1, <3>2 DEF BlockOf
    <3>4. /\ block.at \in 1..n /\ block.low <= block.high /\ block.marks \in {0, 1}
          /\ block.marks = 0 => \A i \in block.at..n : closes[i] >= block.low
          /\ block.marks = 1 =>
              \E v \in block.at..n :
                /\ closes[v] > block.high
                /\ \A i \in block.at..v : closes[i] >= block.low
                /\ \A i \in v..n : 2 * closes[i] >= block.low + block.high
      BY <3>3 DEF BlockOf, ConfirmedAt
    <3>5. ASSUME block.marks = 1
          PROVE  \E v \in block.at..n :
                   /\ new[v] > block.high
                   /\ \A i \in block.at..v : new[i] >= block.low
                   /\ \A i \in v..n : 2 * new[i] >= block.low + block.high
      <4>1. PICK v \in block.at..n :
                   /\ closes[v] > block.high
                   /\ \A i \in block.at..v : closes[i] >= block.low
                   /\ \A i \in v..n : 2 * closes[i] >= block.low + block.high
        BY <3>4, <3>5
      <4>2. v \in 1..n /\ \A i \in block.at..v : i \in 1..n
        BY <3>4
      <4>3. \A i \in v..n : i \in 1..n
        BY <4>2
      <4> QED
        BY <4>1, <4>2, <4>3
    <3>6. block.marks = 0 => \A i \in block.at..n : new[i] >= block.low
      BY <3>4
    <3> QED
      BY <3>4, <3>5, <3>6
  <2> QED
    BY <2>1, <2>2
<1>2. out = CASE made.at = 0 -> NoSpan
            [] made.at # 0 /\ made.marks = 0 /\ cur.c > made.high -> [made EXCEPT !.marks = 1]
            [] made.at # 0 /\ made.marks = 0 /\ cur.c < made.low -> NoSpan
            [] made.at # 0 /\ made.marks = 1 /\ 2 * cur.c < made.low + made.high -> NoSpan
            [] OTHER -> made
  BY DEF Block
<1> HIDE DEF made, out
<1>3. BlockOf(NoSpan, new, n + 1)
  BY DEF BlockOf, NoSpan
<1>4. CASE made.at = 0
  <2>1. out = NoSpan
    BY <1>2, <1>4
  <2> QED
    BY <1>3, <2>1 DEF out
<1>5. CASE made.at # 0 /\ made.marks = 0 /\ cur.c > made.high
  <2> DEFINE valid == [made EXCEPT !.marks = 1]
  <2>1. /\ valid.at = made.at /\ valid.low = made.low /\ valid.high = made.high /\ valid.marks = 1
    BY <1>1
  <2>2. out = valid
    <3>1. ~(cur.c < made.low)
      BY <1>1, <1>5
    <3> HIDE DEF valid
    <3> QED
      BY <1>2, <1>5, <3>1 DEF valid
  <2>3. /\ new[n + 1] > made.high
        /\ \A i \in made.at..(n + 1) : new[i] >= made.low
        /\ \A i \in (n + 1)..(n + 1) : 2 * new[i] >= made.low + made.high
    <3>1. new[n + 1] > made.high /\ new[n + 1] \in Int /\ made.low \in Int /\ made.high \in Int
          /\ made.low <= made.high /\ made.at \in 1..(n + 1)
      BY <1>1, <1>5
    <3>2. \A i \in made.at..(n + 1) : i \in made.at..n \/ i = n + 1
      BY <3>1
    <3>3. \A i \in made.at..n : new[i] >= made.low
      BY <1>1, <1>5
    <3>4. new[n + 1] >= made.low /\ 2 * new[n + 1] >= made.low + made.high
      BY <3>1
    <3> QED
      BY <3>1, <3>2, <3>3, <3>4
  <2>4. made.at \in 1..(n + 1) /\ made.low <= made.high /\ made.at # 0
    BY <1>1, <1>5
  <2> HIDE DEF valid
  <2>5. n + 1 \in valid.at..(n + 1)
    BY <2>1, <2>4
  <2>6. BlockOf(valid, new, n + 1)
    <3>1. ConfirmedAt(valid, new, n + 1, n + 1)
      BY <2>1, <2>3 DEF ConfirmedAt
    <3>2. \E w \in valid.at..(n + 1) : ConfirmedAt(valid, new, n + 1, w)
      BY <2>5, <3>1
    <3> QED
      BY <2>1, <2>4, <3>2 DEF BlockOf
  <2> QED
    BY <2>2, <2>6 DEF out
<1>6. CASE made.at # 0 /\ made.marks = 0 /\ cur.c < made.low
  <2>1. out = NoSpan
    BY <1>1, <1>2, <1>6
  <2> QED
    BY <1>3, <2>1 DEF out
<1>7. CASE made.at # 0 /\ made.marks = 0 /\ ~(cur.c > made.high) /\ ~(cur.c < made.low)
  <2>1. out = made
    BY <1>1, <1>2, <1>7
  <2>2. \A i \in made.at..(n + 1) : new[i] >= made.low
    <3>1. made.at \in 1..(n + 1) /\ new[n + 1] >= made.low
      BY <1>1, <1>7
    <3>2. \A i \in made.at..(n + 1) : i \in made.at..n \/ i = n + 1
      BY <3>1
    <3>3. \A i \in made.at..n : new[i] >= made.low
      BY <1>1, <1>7
    <3> QED
      BY <3>1, <3>2, <3>3
  <2>3. BlockOf(made, new, n + 1)
    BY <1>1, <1>7, <2>2 DEF BlockOf
  <2> QED
    BY <2>1, <2>3 DEF out
<1>8. CASE made.at # 0 /\ made.marks = 1 /\ 2 * cur.c < made.low + made.high
  <2>1. out = NoSpan
    BY <1>1, <1>2, <1>8
  <2> QED
    BY <1>3, <2>1 DEF out
<1>9. CASE made.at # 0 /\ made.marks = 1 /\ ~(2 * cur.c < made.low + made.high)
  <2>1. out = made
    BY <1>1, <1>2, <1>9
  <2>2. PICK v \in made.at..n :
          /\ new[v] > made.high
          /\ \A i \in made.at..v : new[i] >= made.low
          /\ \A i \in v..n : 2 * new[i] >= made.low + made.high
    BY <1>1, <1>9
  <2>3. v \in made.at..(n + 1) /\ \A i \in v..(n + 1) : 2 * new[i] >= made.low + made.high
    <3>1. made.at \in 1..(n + 1) /\ 2 * new[n + 1] >= made.low + made.high
      BY <1>1, <1>9
    <3>2. v \in made.at..(n + 1) /\ \A i \in v..(n + 1) : i \in v..n \/ i = n + 1
      BY <3>1
    <3> QED
      BY <2>2, <3>1, <3>2
  <2>4. \E w \in made.at..(n + 1) : ConfirmedAt(made, new, n + 1, w)
    <3>1. ConfirmedAt(made, new, n + 1, v)
      BY <2>2, <2>3 DEF ConfirmedAt
    <3> QED
      BY <2>3, <3>1
  <2>5. BlockOf(made, new, n + 1)
    <3>1. made.at \in 1..(n + 1) /\ made.low <= made.high /\ made.at # 0 /\ made.marks = 1
      BY <1>1, <1>9
    <3> QED
      BY <2>4, <3>1 DEF BlockOf
  <2> QED
    BY <2>1, <2>5 DEF out
<1> QED
  BY <1>1, <1>4, <1>5, <1>6, <1>7, <1>8, <1>9

LEMMA ZoneKeeps ==
  ASSUME NEW n \in Nat, NEW closes \in [1..n -> Int], NEW new \in [1..(n + 1) -> Int],
         \A i \in 1..n : new[i] = closes[i],
         NEW top \in Nat, NEW zone \in Spans(top), NEW cur, NEW prev,
         prev.h \in Int, cur.c \in Int, cur.c = new[n + 1], ZoneOf(zone, closes, n)
  PROVE  ZoneOf(Supply(zone, cur, prev, n + 1), new, n + 1)
<1> DEFINE fresh == [low |-> prev.o, high |-> prev.h, at |-> n + 1, marks |-> 0]
           strong == prev.c > prev.o /\ cur.c < cur.o /\ 5 * Body(cur) >= 9 * Body(prev)
           made == IF strong THEN fresh ELSE zone
           out == Supply(zone, cur, prev, n + 1)
<1>1. /\ made.high \in Int
      /\ made.at # 0 => made.at \in 1..(n + 1) /\ \A i \in made.at..n : new[i] <= made.high
  <2>1. CASE strong
    <3>1. made = fresh
      BY <2>1
    <3> HIDE DEF made, strong
    <3> QED
      BY <3>1
  <2>2. CASE ~strong
    <3>1. made = zone
      BY <2>2
    <3>2. zone.high \in Int /\ zone.at \in Nat
      BY SpanTypes
    <3> HIDE DEF made, strong
    <3> QED
      BY <3>1, <3>2 DEF ZoneOf
  <2> HIDE DEF strong
  <2> QED
    BY <2>1, <2>2
<1>2. out = IF made.at # 0 /\ cur.c > made.high THEN NoSpan ELSE made
  BY DEF Supply
<1> HIDE DEF made, out, strong
<1>3. CASE made.at # 0 /\ cur.c > made.high
  BY <1>2, <1>3 DEF ZoneOf, NoSpan, out
<1>4. CASE made.at = 0
  BY <1>2, <1>4 DEF ZoneOf, out
<1>5. CASE made.at # 0 /\ ~(cur.c > made.high)
  <2>1. out = made
    BY <1>2, <1>5
  <2>2. \A i \in made.at..(n + 1) : i \in made.at..n \/ i = n + 1
    BY <1>1, <1>5
  <2>3. new[n + 1] <= made.high
    BY <1>1, <1>5
  <2>4. \A i \in made.at..(n + 1) : new[i] <= made.high
    BY <1>1, <1>5, <2>2, <2>3
  <2> QED
    BY <1>1, <1>5, <2>1, <2>4 DEF ZoneOf, out
<1> QED
  BY <1>3, <1>4, <1>5

-----------------------------------------------------------------------------
(* The types that a bar keeps. *)

LEMMA GapType ==
  ASSUME NEW top \in Nat, NEW gap \in Spans(top), NEW first, NEW cur, NEW at \in 1..MaxBars,
         first.h \in -top..top, cur.l \in -top..top
  PROVE  Gap(gap, first, cur, at) \in Spans(top)
<1> DEFINE fresh == [low |-> first.h, high |-> cur.l, at |-> at, marks |-> 0]
           made == IF first.h < cur.l THEN fresh ELSE gap
           inside == made.low <= cur.c /\ cur.c <= made.high
           more == [made EXCEPT !.marks = @ + 1]
           out == Gap(gap, first, cur, at)
<1>0. GapTouches \in Nat \ {0} /\ MaxBars \in Nat
  BY Sizes
<1>1. made \in Spans(top) /\ NoSpan \in Spans(top)
  <2>1. fresh \in Spans(top)
    BY <1>0 DEF Spans
  <2>2. NoSpan \in Spans(top)
    BY SpanTypes
  <2> HIDE DEF fresh
  <2> QED
    BY <2>1, <2>2
<1>2. out = CASE made.at = 0 -> NoSpan
            [] made.at # 0 /\ cur.c < made.low -> NoSpan
            [] made.at # 0 /\ inside /\ made.marks + 1 >= GapTouches -> NoSpan
            [] made.at # 0 /\ inside /\ made.marks + 1 < GapTouches -> more
            [] OTHER -> made
  BY DEF Gap
<1>3. made.marks + 1 < GapTouches => more \in Spans(top)
  <2> HIDE DEF made
  <2>1. made.marks + 1 < GapTouches => made.marks + 1 \in 0..GapTouches
    BY <1>0, <1>1 DEF Spans
  <2> QED
    BY <1>0, <1>1, <2>1 DEF Spans
<1> HIDE DEF made, more, out, inside
<1>4. \/ out = NoSpan \/ out = made \/ (out = more /\ made.marks + 1 < GapTouches)
  BY <1>2
<1> QED
  BY <1>1, <1>3, <1>4 DEF out

LEMMA BlockType ==
  ASSUME NEW top \in Nat, NEW block \in Spans(top), NEW swept \in BOOLEAN, NEW cur,
         NEW at \in 1..MaxBars, cur.l \in -top..top, cur.h \in -top..top
  PROVE  Block(block, swept, cur, at) \in Spans(top)
<1> DEFINE fresh == [low |-> cur.l, high |-> cur.h, at |-> at, marks |-> 0]
           made == IF swept /\ cur.c < cur.o /\ block.marks = 0 THEN fresh ELSE block
           valid == [made EXCEPT !.marks = 1]
           out == Block(block, swept, cur, at)
<1>0. GapTouches \in Nat \ {0} /\ MaxBars \in Nat
  BY Sizes
<1>1. made \in Spans(top) /\ NoSpan \in Spans(top)
  <2>1. fresh \in Spans(top)
    BY <1>0 DEF Spans
  <2>2. NoSpan \in Spans(top)
    BY SpanTypes
  <2> HIDE DEF fresh
  <2> QED
    BY <2>1, <2>2
<1>2. out = CASE made.at = 0 -> NoSpan
            [] made.at # 0 /\ made.marks = 0 /\ cur.c > made.high -> valid
            [] made.at # 0 /\ made.marks = 0 /\ cur.c < made.low -> NoSpan
            [] made.at # 0 /\ made.marks = 1 /\ 2 * cur.c < made.low + made.high -> NoSpan
            [] OTHER -> made
  BY DEF Block
<1>3. valid \in Spans(top)
  <2> HIDE DEF made
  <2> QED
    BY <1>0, <1>1 DEF Spans
<1> HIDE DEF made, valid, out
<1>4. out = NoSpan \/ out = made \/ out = valid
  BY <1>2
<1> QED
  BY <1>1, <1>3, <1>4 DEF out

LEMMA SupplyType ==
  ASSUME NEW top \in Nat, NEW zone \in Spans(top), NEW cur, NEW prev,
         NEW at \in 1..MaxBars, prev.o \in -top..top, prev.h \in -top..top
  PROVE  Supply(zone, cur, prev, at) \in Spans(top)
<1>1. [low |-> prev.o, high |-> prev.h, at |-> at, marks |-> 0] \in Spans(top)
  BY Sizes DEF Spans
<1>2. NoSpan \in Spans(top)
  BY SpanTypes
<1> QED
  BY <1>1, <1>2 DEF Supply

LEMMA PivotsFacts ==
  ASSUME NEW top \in Nat, NEW s \in SwingsOf(top), NEW win,
         win[Left + 1].h \in 0..top, win[Left + 1].l \in 0..top
  PROVE  /\ Pivots(s, win) \in SwingsOf(top)
         /\ Pivots(s, win).event = s.event /\ Pivots(s, win).trend = s.trend
         /\ Pivots(s, win).brokenHigh = s.brokenHigh /\ Pivots(s, win).brokenLow = s.brokenLow
<1> DEFINE h == win[Left + 1].h
           l == win[Left + 1].l
           high == IF IsPivotHigh(win) THEN [s EXCEPT !.high2 = s.high1, !.high1 = h] ELSE s
<1>1. h \in 0..top /\ l \in 0..top
  OBVIOUS
<1> HIDE DEF h, l
<1>2. /\ high \in SwingsOf(top)
      /\ high.event = s.event /\ high.trend = s.trend
      /\ high.brokenHigh = s.brokenHigh /\ high.brokenLow = s.brokenLow
      /\ high.low1 = s.low1
  BY <1>1 DEF SwingsOf
<1>3. Pivots(s, win) = IF IsPivotLow(win) THEN [high EXCEPT !.low2 = s.low1, !.low1 = l] ELSE high
  BY DEF Pivots, h, l
<1> HIDE DEF high
<1>4. s.low1 \in 0..top
  BY DEF SwingsOf
<1> DEFINE out == [high EXCEPT !.low2 = s.low1, !.low1 = l]
<1>5. /\ out \in SwingsOf(top)
      /\ out.event = high.event /\ out.trend = high.trend
      /\ out.brokenHigh = high.brokenHigh /\ out.brokenLow = high.brokenLow
  BY <1>1, <1>2, <1>4 DEF SwingsOf
<1> HIDE DEF out
<1>6. Pivots(s, win) = IF IsPivotLow(win) THEN out ELSE high
  BY <1>3 DEF out
<1> QED
  BY <1>2, <1>5, <1>6

\* What is broken, and when nothing is.
LEMMA BrokenFacts ==
  ASSUME NEW top \in Nat, NEW s \in SwingsOf(top), s.event = FALSE, NEW close \in Nat,
         NEW t, t = Broken(s, close)
  PROVE  /\ t \in SwingsOf(top)
         /\ ~t.event => t = s
         /\ t.event => \/ t.trend = 1 /\ close > t.brokenHigh
                       \/ t.trend = -1 /\ close < t.brokenLow
<1> DEFINE up == s.high1 # None /\ close > s.high1 /\ s.brokenHigh # s.high1
           down == s.low1 # None /\ close < s.low1 /\ s.brokenLow # s.low1
           upLabel == IF s.trend = -1 THEN "Bullish CHOCH" ELSE "Bullish BOS"
           downLabel == IF s.trend = 1 THEN "Bearish CHOCH" ELSE "Bearish BOS"
           upward == [s EXCEPT !.label = upLabel, !.trend = 1, !.brokenHigh = s.high1, !.event = TRUE]
           downward == [s EXCEPT !.label = downLabel, !.trend = -1, !.brokenLow = s.low1, !.event = TRUE]
<1>1. t = CASE up -> upward [] down /\ ~up -> downward [] OTHER -> s
  BY DEF Broken
<1>0. upLabel \in Labels /\ downLabel \in Labels
  BY DEF Labels
<1>10. s.high1 \in 0..top /\ s.low1 \in 0..top /\ s.brokenHigh \in 0..top /\ s.brokenLow \in 0..top
  BY DEF SwingsOf
<1> HIDE DEF upLabel, downLabel
<1>2. /\ upward \in SwingsOf(top) /\ upward.event = TRUE /\ upward.trend = 1
      /\ upward.brokenHigh = s.high1
  <2> DEFINE x == upLabel
             a == [s EXCEPT !.label = x]
             b == [a EXCEPT !.trend = 1]
             c == [b EXCEPT !.brokenHigh = s.high1]
  <2>1. x \in Labels
    BY <1>0
  <2>2. upward = [c EXCEPT !.event = TRUE]
    OBVIOUS
  <2> HIDE DEF x, upward
  <2>3. a \in SwingsOf(top)
    BY <2>1 DEF SwingsOf
  <2> HIDE DEF a
  <2>4. b \in SwingsOf(top) /\ b.trend = 1
    BY <2>3 DEF SwingsOf
  <2> HIDE DEF b
  <2>5. c \in SwingsOf(top) /\ c.trend = 1 /\ c.brokenHigh = s.high1
    BY <1>10, <2>4 DEF SwingsOf
  <2> HIDE DEF c
  <2> QED
    BY <2>2, <2>5 DEF SwingsOf
<1>3. /\ downward \in SwingsOf(top) /\ downward.event = TRUE /\ downward.trend = -1
      /\ downward.brokenLow = s.low1
  <2> DEFINE x == downLabel
             a == [s EXCEPT !.label = x]
             b == [a EXCEPT !.trend = -1]
             c == [b EXCEPT !.brokenLow = s.low1]
  <2>1. x \in Labels
    BY <1>0
  <2>2. downward = [c EXCEPT !.event = TRUE]
    OBVIOUS
  <2> HIDE DEF x, downward
  <2>3. a \in SwingsOf(top)
    BY <2>1 DEF SwingsOf
  <2> HIDE DEF a
  <2>4. b \in SwingsOf(top) /\ b.trend = -1
    BY <2>3 DEF SwingsOf
  <2> HIDE DEF b
  <2>5. c \in SwingsOf(top) /\ c.trend = -1 /\ c.brokenLow = s.low1
    BY <1>10, <2>4 DEF SwingsOf
  <2> HIDE DEF c
  <2> QED
    BY <2>2, <2>5 DEF SwingsOf
<1> HIDE DEF upward, downward
<1>4. CASE up
  <2>1. t = upward
    BY <1>1, <1>4
  <2> QED
    BY <1>2, <1>4, <1>10, <2>1
<1>5. CASE down /\ ~up
  <2>1. t = downward
    BY <1>1, <1>5
  <2> QED
    BY <1>3, <1>5, <1>10, <2>1
<1>6. CASE ~down /\ ~up
  <2>1. t = s
    BY <1>1, <1>6
  <2> QED
    BY <2>1
<1> QED
  BY <1>4, <1>5, <1>6

\* The structure after a bar; what it breaks is broken by the bar's close.
LEMMA StructureFacts ==
  ASSUME NEW top \in Nat, NEW s \in SwingsOf(top), NEW items \in Seq(Shapes), Len(items) >= 1,
         \A i \in 1..Len(items) : items[i].h <= top,
         NEW t, t = UpdateStructure(s, items)
  PROVE  /\ t \in SwingsOf(top)
         /\ ~t.event => /\ t.trend = s.trend
                        /\ t.brokenHigh = s.brokenHigh /\ t.brokenLow = s.brokenLow
         /\ t.event => \/ t.trend = 1 /\ Last(items).c > t.brokenHigh
                       \/ t.trend = -1 /\ Last(items).c < t.brokenLow
<1> DEFINE quiet == [s EXCEPT !.event = FALSE]
           win == LastOf(Window, items)
           p == Pivots(quiet, win)
           close == Last(items).c
<1>1. /\ quiet \in SwingsOf(top) /\ quiet.event = FALSE /\ quiet.trend = s.trend
      /\ quiet.brokenHigh = s.brokenHigh /\ quiet.brokenLow = s.brokenLow
  BY DEF SwingsOf
<1>2. t = IF Len(items) < Window THEN quiet ELSE Broken(p, close)
  BY DEF UpdateStructure
<1>3. close \in Nat
  <2>1. Len(items) \in 1..Len(items) /\ items[Len(items)] \in Shapes
    OBVIOUS
  <2> QED
    BY <2>1, ShapeFacts DEF Last
<1> HIDE DEF quiet, win, p
<1>4. CASE Len(items) < Window
  BY <1>1, <1>2, <1>4
<1>5. CASE Len(items) >= Window
  <2>1. win[Left + 1] \in Shapes /\ win[Left + 1].h <= top
    <3>1. Window \in Nat /\ Left + 1 \in 1..Window /\ Lowest(Window, Len(items)) = Window
      BY <1>5, Sizes DEF Lowest
    <3> DEFINE j == Len(items) - Lowest(Window, Len(items)) + (Left + 1)
    <3>2. win[Left + 1] = items[j] /\ j \in 1..Len(items)
      <4>1. Left + 1 \in 1..Lowest(Window, Len(items))
        BY <3>1
      <4> QED
        BY <3>1, <4>1, LastOfFacts DEF win
    <3> HIDE DEF j
    <3>3. items[j] \in Shapes /\ items[j].h <= top
      BY <3>2
    <3> QED
      BY <3>2, <3>3
  <2>2. win[Left + 1].h \in 0..top /\ win[Left + 1].l \in 0..top
    <3> DEFINE w == win[Left + 1]
    <3>1. w \in Shapes /\ w.h <= top
      BY <2>1
    <3> HIDE DEF w
    <3>2. w.h \in Nat /\ w.l \in Nat /\ w.l <= w.o /\ w.o <= w.h /\ w.o \in Nat
      BY <3>1, ShapeFacts
    <3>3. w.h \in 0..top /\ w.l \in 0..top
      BY <3>1, <3>2
    <3> QED
      BY <3>3 DEF w
  <2>3. /\ p \in SwingsOf(top) /\ p.event = FALSE /\ p.trend = s.trend
        /\ p.brokenHigh = s.brokenHigh /\ p.brokenLow = s.brokenLow
    BY <1>1, <2>2, PivotsFacts DEF p
  <2>4. t = Broken(p, close)
    <3>1. Len(items) \in Nat /\ Window \in Nat
      BY Sizes
    <3> QED
      BY <1>2, <1>5, <3>1
  <2> HIDE DEF close
  <2>5. /\ t \in SwingsOf(top)
        /\ ~t.event => t = p
        /\ t.event => \/ t.trend = 1 /\ close > t.brokenHigh
                      \/ t.trend = -1 /\ close < t.brokenLow
    BY <1>3, <2>3, <2>4, BrokenFacts
  <2> QED
    BY <2>3, <2>5 DEF close
<1> QED
  <2>1. Len(items) \in Nat /\ Window \in Nat
    BY Sizes
  <2> QED
    BY <1>4, <1>5, <2>1

LEMMA RetestType ==
  ASSUME NEW top \in Nat, NEW r \in RetestsOf(top), NEW s \in SwingsOf(top), NEW items,
         NEW at \in 1..MaxBars
  PROVE  UpdateRetest(r, s, items, at) \in RetestsOf(top)
<1> DEFINE out == UpdateRetest(r, s, items, at)
<1>1. Armed(s, at) \in RetestsOf(top)
  BY Sizes DEF Armed, RetestsOf, SwingsOf
<1>2. NoRetest \in RetestsOf(top)
  BY Sizes DEF NoRetest, None, RetestsOf
<1>3. Tested(r, items) \in RetestsOf(top)
  <2> DEFINE failed == [r EXCEPT !.status = "RETEST_FAILED", !.side = 0]
             held == [r EXCEPT !.status = "RETEST_HELD", !.side = 0]
  <2> DEFINE over == [r EXCEPT !.side = 0]
  <2>0. over \in RetestsOf(top)
    BY DEF RetestsOf
  <2>1. failed \in RetestsOf(top) /\ held \in RetestsOf(top)
    <3>1. failed = [over EXCEPT !.status = "RETEST_FAILED"]
      BY DEF RetestsOf
    <3>2. held = [over EXCEPT !.status = "RETEST_HELD"]
      BY DEF RetestsOf
    <3> HIDE DEF failed, held, over
    <3> QED
      BY <2>0, <3>1, <3>2 DEF RetestsOf
  <2> HIDE DEF failed, held
  <2>2. Tested(r, items) \in {failed, held, r}
    BY DEF Tested, failed, held
  <2> QED
    BY <2>1, <2>2
<1>4. out \in {Armed(s, at), r, NoRetest, Tested(r, items)}
  BY DEF UpdateRetest
<1> QED
  BY <1>1, <1>2, <1>3, <1>4

\* A retest that is still pending has seen no close on the wrong side.
LEMMA RetestKeeps ==
  ASSUME NEW bs \in Seq(Shapes), NEW b \in Shapes,
         NEW top \in Nat, NEW r \in RetestsOf(top), NEW s, NEW t \in SwingsOf(top),
         NEW items, Last(items) = b,
         RetestOf(r, s, Closes(bs, r.side), Len(bs)),
         ~t.event => /\ t.trend = s.trend
                     /\ t.brokenHigh = s.brokenHigh /\ t.brokenLow = s.brokenLow,
         t.event => \/ t.trend = 1 /\ b.c > t.brokenHigh
                    \/ t.trend = -1 /\ b.c < t.brokenLow,
         NEW out, out = UpdateRetest(r, t, items, Len(bs) + 1)
  PROVE  RetestOf(out, t, Closes(Append(bs, b), out.side), Len(bs) + 1)
<1> DEFINE n == Len(bs)
           new == Append(bs, b)
<1>1. /\ n \in Nat /\ new \in Seq(Shapes) /\ Len(new) = n + 1 /\ new[n + 1] = b
      /\ \A i \in 1..n : new[i] = bs[i] /\ bs[i] \in Shapes
      /\ RetestTtl \in Nat
  BY Sizes
<1>2. b.c \in Nat
  BY ShapeFacts
<1>3. /\ t.event \in BOOLEAN /\ t.brokenHigh \in Nat /\ t.brokenLow \in Nat
      /\ r.side \in {-1, 0, 1} /\ r.level \in Nat /\ r.armed \in Nat
  BY DEF SwingsOf, RetestsOf
<1> HIDE DEF n, new
<1>4. CASE t.event
  <2>1. out = Armed(t, n + 1)
    BY <1>4 DEF UpdateRetest, n
  <2>2. /\ out.status = "PENDING_RETEST" /\ out.side = t.trend /\ out.armed = n + 1
        /\ out.level = IF t.trend = 1 THEN t.brokenHigh ELSE t.brokenLow
    BY <2>1 DEF Armed
  <2>3. CASE t.trend = 1
    <3>1. \A i \in (n + 1)..(n + 1) : Closes(new, out.side)[i] >= out.level
      BY <1>1, <1>2, <1>3, <1>4, <2>2, <2>3 DEF Closes
    <3> QED
      BY <1>1, <2>2, <2>3, <3>1 DEF RetestOf, n, new
  <2>4. CASE t.trend = -1
    <3>1. \A i \in (n + 1)..(n + 1) : Closes(new, out.side)[i] >= -out.level
      BY <1>1, <1>2, <1>3, <1>4, <2>2, <2>4 DEF Closes
    <3> QED
      BY <1>1, <2>2, <2>4, <3>1 DEF RetestOf, n, new
  <2> QED
    BY <1>4, <2>3, <2>4
<1>5. CASE ~t.event /\ r.side = 0
  <2>1. out = r
    BY <1>5 DEF UpdateRetest
  <2> QED
    BY <1>5, <2>1 DEF RetestOf
<1>6. CASE ~t.event /\ r.side # 0 /\ n + 1 - r.armed > RetestTtl
  <2>1. out = NoRetest
    BY <1>3, <1>6 DEF UpdateRetest, n
  <2> QED
    BY <2>1 DEF RetestOf, NoRetest
<1>7. CASE ~t.event /\ r.side # 0 /\ n + 1 - r.armed <= RetestTtl
  <2>1. out = Tested(r, items)
    BY <1>1, <1>3, <1>7 DEF UpdateRetest, n
  <2>2. /\ r.status = "PENDING_RETEST" /\ r.armed \in 1..n
        /\ r.side = s.trend /\ r.level = IF s.trend = 1 THEN s.brokenHigh ELSE s.brokenLow
        /\ \A i \in r.armed..n : Closes(bs, r.side)[i] >= IF r.side = 1 THEN r.level ELSE -r.level
    BY <1>7 DEF RetestOf, n
  <2> DEFINE c == IF r.side = 1 THEN b.c ELSE -b.c
             level == IF r.side = 1 THEN r.level ELSE -r.level
             failed == [r EXCEPT !.status = "RETEST_FAILED", !.side = 0]
             held == [r EXCEPT !.status = "RETEST_HELD", !.side = 0]
  <2>3. failed.side = 0 /\ failed.status # "PENDING_RETEST" /\ held.side = 0
        /\ held.status # "PENDING_RETEST"
    BY DEF RetestsOf
  <2>4. out = failed \/ out = held \/ (out = r /\ c >= level)
    <3> DEFINE bar == IF r.side = 1 THEN Last(items) ELSE Mirror(Last(items))
               goal == r.side * r.level
               near == bar.l <= goal + Band /\ Expanding(items)
    <3>1. bar.c = c /\ goal = level /\ c \in Int /\ level \in Int
      BY <1>2, <1>3, <1>7, MirrorFacts
    <3>2. Tested(r, items) =
            CASE bar.c < goal -> failed
              [] bar.c >= goal /\ near -> held
              [] OTHER -> r
      BY DEF Tested
    <3> HIDE DEF bar, failed, held, c, level, goal, near
    <3>3. CASE c < level
      <4>1. ~(c >= level) /\ Tested(r, items) = failed
        BY <3>1, <3>2, <3>3
      <4> QED
        BY <2>1, <4>1
    <3>4. CASE c >= level
      <4>1. ~(c < level) /\ Tested(r, items) \in {held, r}
        BY <3>1, <3>2, <3>4
      <4> QED
        BY <2>1, <3>4, <4>1
    <3> QED
      BY <3>1, <3>3, <3>4
  <2> HIDE DEF failed, held
  <2>5. CASE out = failed \/ out = held
    BY <2>3, <2>5 DEF RetestOf
  <2>6. CASE out = r /\ c >= level
    <3>1. \A i \in r.armed..(n + 1) : Closes(new, r.side)[i] >= level
      <4> TAKE i \in r.armed..(n + 1)
      <4>1. CASE i = n + 1
        BY <1>1, <2>6, <4>1 DEF Closes
      <4>2. CASE i # n + 1
        <5>1. i \in r.armed..n /\ i \in 1..n /\ i \in 1..(n + 1)
          BY <1>1, <2>2, <4>2
        <5>2. Closes(new, r.side)[i] = Closes(bs, r.side)[i]
          BY <1>1, <5>1 DEF Closes, n
        <5> QED
          BY <2>2, <5>1, <5>2
      <4> QED
        BY <4>1, <4>2
    <3>2. r.armed \in 1..(n + 1)
      BY <1>1, <2>2
    <3> QED
      BY <1>7, <2>2, <2>6, <3>1, <3>2 DEF RetestOf, n, new
  <2> QED
    BY <2>4, <2>5, <2>6
<1> QED
  BY <1>1, <1>3, <1>4, <1>5, <1>6, <1>7

-----------------------------------------------------------------------------
(* The chart and the engine add the same bar. *)

LEMMA SameBar ==
  ASSUME NEW bs \in Seq(Shapes), NEW b \in Shapes, NEW sw, NEW ic,
         Len(bs) < 2 => ic = NoIct,
         NEW r, r = Remembered(Append(bs, b))
  PROVE  ChartBar([swing |-> sw, ict |-> ic], Append(bs, b), Len(bs) + 1)
           = [swing |-> UpdateStructure(sw, r),
              ict |-> UpdateIct(ic, UpdateStructure(sw, r), r, Len(bs) + 1)]
<1> DEFINE t == Append(bs, b)
           n == Len(bs) + 1
           k == Lowest(KeptBars, n)
           quiet == [sw EXCEPT !.event = FALSE]
           s == UpdateStructure(sw, r)
<1>1. /\ t \in Seq(Shapes) /\ Len(t) = n /\ n \in Nat /\ n >= 1 /\ t[n] = b
      /\ \A i \in 1..(n - 1) : t[i] = bs[i]
  OBVIOUS
<1>2. /\ Window \in Nat /\ Window >= 3 /\ KeptBars >= Window /\ KeptBars \in Nat
  BY Sizes
<1> HIDE DEF t, n
<1>3. /\ r \in Seq(Shapes) /\ Len(r) = k /\ k \in Nat /\ k <= n /\ k \in {KeptBars, n}
      /\ \A i \in 1..k : r[i] = t[n - k + i]
  <2>1. r = Remembered(t)
    BY DEF t
  <2> QED
    BY <1>1, <2>1, RememberedFacts
<1> HIDE DEF k
<1>4. /\ k >= 1 /\ r[k] = t[n]
      /\ k < Window <=> n < Window
      /\ k < 3 <=> n < 3
      /\ k >= 3 => r[k - 2] = t[n - 2]
  <2>1. k >= 1 /\ (k < Window <=> n < Window) /\ (k < 3 <=> n < 3)
    BY <1>1, <1>2, <1>3
  <2>2. n - k + k = n /\ k \in 1..k
    BY <1>1, <1>3, <2>1
  <2>3. k >= 3 => k - 2 \in 1..k /\ n - k + (k - 2) = n - 2
    BY <1>1, <1>3
  <2> QED
    BY <1>3, <2>1, <2>2, <2>3
<1>5. Last(r) = b /\ Last(r) = t[n]
  BY <1>1, <1>3, <1>4 DEF Last
<1>6. k >= Window => LastOf(Window, r) = SubSeq(t, n - Window + 1, n)
  <2> SUFFICES ASSUME k >= Window PROVE LastOf(Window, r) = SubSeq(t, n - Window + 1, n)
    OBVIOUS
  <2> DEFINE a == n - Window + 1
  <2>1. Lowest(Window, k) = Window
    BY <1>2, <1>3 DEF Lowest
  <2>2. /\ LastOf(Window, r) \in Seq(Shapes) /\ Len(LastOf(Window, r)) = Window
        /\ \A i \in 1..Window : LastOf(Window, r)[i] = r[k - Window + i]
    <3>1. /\ LastOf(Window, r) \in Seq(Shapes) /\ Len(LastOf(Window, r)) = Lowest(Window, Len(r))
          /\ \A i \in 1..Lowest(Window, Len(r)) :
               LastOf(Window, r)[i] = r[Len(r) - Lowest(Window, Len(r)) + i]
      <4>1. Window \in Nat /\ r \in Seq(Shapes)
        BY <1>2, <1>3
      <4> QED
        BY <4>1, LastOfFacts
    <3> QED
      BY <1>3, <2>1, <3>1
  <2>3. a \in Int /\ a >= 1 /\ n \in Int /\ n - a + 1 = Window
    BY <1>1, <1>2, <1>3
  <2>4. \A i \in a..n : t[i] \in Shapes
    BY <1>1, <2>3
  <2>5. /\ SubSeq(t, a, n) \in Seq(Shapes)
        /\ Len(SubSeq(t, a, n)) = IF a <= n THEN n - a + 1 ELSE 0
        /\ \A i \in 1..(n - a + 1) : SubSeq(t, a, n)[i] = t[a + i - 1]
    <3> HIDE DEF a
    <3> QED
      BY <2>3, <2>4, SubSeqProperties
  <2>6. Len(SubSeq(t, a, n)) = Window
    BY <1>2, <2>3, <2>5
  <2>7. \A i \in 1..Window : LastOf(Window, r)[i] = SubSeq(t, a, n)[i]
    <3> TAKE i \in 1..Window
    <3>1. k - Window + i \in 1..k /\ n - k + (k - Window + i) = a + i - 1
      BY <1>1, <1>2, <1>3
    <3>2. i \in 1..(n - a + 1)
      BY <2>3
    <3>3. SubSeq(t, a, n)[i] = t[a + i - 1]
      BY <2>5, <3>2
    <3>4. r[k - Window + i] = t[n - k + (k - Window + i)]
      BY <1>3, <3>1
    <3> QED
      BY <2>2, <3>1, <3>3, <3>4
  <2> HIDE DEF a
  <2>8. LastOf(Window, r) = SubSeq(t, a, n)
    BY <2>2, <2>5, <2>6, <2>7, SeqEqual
  <2> QED
    BY <2>8 DEF a
<1>7. s = IF n < Window THEN quiet
          ELSE Broken(Pivots(quiet, SubSeq(t, n - Window + 1, n)), t[n].c)
  <2>1. s = IF k < Window THEN quiet ELSE Broken(Pivots(quiet, LastOf(Window, r)), Last(r).c)
    BY <1>3 DEF UpdateStructure
  <2> HIDE DEF s, quiet
  <2>2. CASE n < Window
    BY <1>4, <2>1, <2>2
  <2>3. CASE ~(n < Window)
    <3>1. ~(k < Window) /\ k >= Window
      BY <1>2, <1>3, <1>4, <2>3
    <3> QED
      BY <1>5, <1>6, <2>1, <2>3, <3>1
  <2> QED
    BY <2>2, <2>3
<1>8. UpdateIct(ic, s, r, n) = IF n < 3 THEN ic ELSE Concepts(ic, s, t[n - 2], t[n], n)
  <2> HIDE DEF s
  <2>1. UpdateIct(ic, s, r, n) =
          IF k < 3 THEN [ic EXCEPT !.sweep = "none"]
          ELSE Concepts(ic, s, r[k - 2], Last(r), n)
    BY <1>3 DEF UpdateIct
  <2>2. CASE n < 3
    <3>1. ic = NoIct
      BY <1>1, <2>2 DEF n
    <3>2. [ic EXCEPT !.sweep = "none"] = ic
      BY <3>1 DEF NoIct
    <3> QED
      BY <1>4, <2>1, <2>2, <3>2
  <2>3. CASE ~(n < 3)
    <3>1. ~(k < 3) /\ k >= 3
      BY <1>3, <1>4, <2>3
    <3> QED
      BY <1>4, <1>5, <2>1, <2>3, <3>1
  <2> QED
    BY <2>2, <2>3
<1>9. ChartBar([swing |-> sw, ict |-> ic], t, n) =
        LET new == IF n < Window THEN quiet
                   ELSE Broken(Pivots(quiet, SubSeq(t, n - Window + 1, n)), t[n].c)
        IN  [swing |-> new,
             ict |-> IF n < 3 THEN ic ELSE Concepts(ic, new, t[n - 2], t[n], n)]
  BY DEF ChartBar
<1> HIDE DEF s, quiet
<1>10. ChartBar([swing |-> sw, ict |-> ic], t, n) = [swing |-> s, ict |-> UpdateIct(ic, s, r, n)]
  BY <1>7, <1>8, <1>9
<1> QED
  BY <1>10 DEF s, t, n

-----------------------------------------------------------------------------
(* The structure stands. *)

LEMMA ClosesGrow ==
  ASSUME NEW bs \in Seq(Shapes), NEW b \in Shapes, NEW side
  PROVE  LET old == Closes(bs, side)
             new == Closes(Append(bs, b), side)
         IN  /\ old \in [1..Len(bs) -> Int] /\ new \in [1..(Len(bs) + 1) -> Int]
             /\ \A i \in 1..Len(bs) : new[i] = old[i]
             /\ new[Len(bs) + 1] = IF side = 1 THEN b.c ELSE -b.c
<1> DEFINE t == Append(bs, b)
           n == Len(bs)
<1>1. /\ n \in Nat /\ Len(t) = n + 1 /\ t[n + 1] = b /\ t \in Seq(Shapes)
      /\ \A i \in 1..n : t[i] = bs[i]
  OBVIOUS
<1>2. (\A i \in 1..n : bs[i].c \in Nat) /\ \A i \in 1..(n + 1) : t[i].c \in Nat
  <2>1. (\A i \in 1..n : bs[i] \in Shapes) /\ \A i \in 1..(n + 1) : t[i] \in Shapes
    BY <1>1
  <2> QED
    BY <2>1, ShapeFacts
<1> HIDE DEF t
<1> QED
  BY <1>1, <1>2 DEF Closes, t

LEMMA TypesGrow ==
  ASSUME NEW low \in Nat, NEW top \in Nat, low <= top
  PROVE  /\ Spans(low) \subseteq Spans(top)
         /\ SwingsOf(low) \subseteq SwingsOf(top) /\ RetestsOf(low) \subseteq RetestsOf(top)
         /\ ZonesOf(low) \subseteq ZonesOf(top) /\ IctsOf(low) \subseteq IctsOf(top)
<1>1. 0..low \subseteq 0..top /\ -low..low \subseteq -top..top
  OBVIOUS
<1>2. Spans(low) \subseteq Spans(top)
  BY <1>1 DEF Spans
<1>3. SwingsOf(low) \subseteq SwingsOf(top)
  BY <1>1 DEF SwingsOf
<1>4. RetestsOf(low) \subseteq RetestsOf(top)
  BY <1>1 DEF RetestsOf
<1>5. ZonesOf(low) \subseteq ZonesOf(top) /\ IctsOf(low) \subseteq IctsOf(top)
  BY <1>2 DEF ZonesOf, IctsOf
<1> QED
  BY <1>2, <1>3, <1>4, <1>5

LEMMA BlanksTyped ==
  ASSUME NEW top \in Nat
  PROVE  /\ NoSwing \in SwingsOf(top) /\ NoRetest \in RetestsOf(top)
         /\ NoZones \in ZonesOf(top) /\ NoIct \in IctsOf(top)
<1>1. NoSpan \in Spans(top)
  BY Sizes DEF NoSpan, None, Spans
<1>2. NoSwing \in SwingsOf(top)
  BY DEF NoSwing, None, SwingsOf, Labels
<1>3. NoRetest \in RetestsOf(top)
  BY Sizes DEF NoRetest, None, RetestsOf
<1> QED
  BY <1>1, <1>2, <1>3 DEF NoZones, ZonesOf, NoIct, IctsOf

\* Nothing is shown of a structure that has not begun.
LEMMA BlanksStand ==
  ASSUME NEW closes, NEW n, NEW s
  PROVE  /\ GapOf(NoSpan, closes, n) /\ BlockOf(NoSpan, closes, n) /\ ZoneOf(NoSpan, closes, n)
         /\ RetestOf(NoRetest, s, closes, n)
  BY DEF GapOf, BlockOf, ZoneOf, RetestOf, NoSpan, NoRetest

LEMMA InitSwing == SwingInit => SwingIInv
<1> SUFFICES ASSUME SwingInit PROVE SwingIInv
  OBVIOUS
<1>1. /\ bars = <<>> /\ recent = <<>> /\ swing = NoSwing /\ retest = NoRetest
      /\ zones = NoZones /\ ict = NoIct /\ restarts = 0
  BY DEF SwingInit
<1>2. StructureTypes
  <2>1. TopOf(bars) \in Nat
    BY <1>1 DEF TopOf
  <2>2. /\ bars \in Seq(Shapes) /\ Len(bars) = 0 /\ recent \in Seq(Shapes) /\ Len(recent) = 0
    BY <1>1
  <2> QED
    BY <1>1, <2>1, <2>2, BlanksTyped, Sizes DEF StructureTypes
<1>3. RecentIsKept
  <2>1. Remembered(<<>>) = <<>>
    <3>1. <<>> \in Seq(Shapes) /\ Len(<<>>) = 0
      OBVIOUS
    <3> DEFINE e == <<>>
               r == Remembered(e)
    <3>2. e \in Seq(Shapes) /\ Len(e) = 0 /\ KeptBars \in Nat
      BY <3>1, Sizes
    <3> HIDE DEF e
    <3>3. r \in Seq(Shapes) /\ Len(r) <= Len(e)
      BY <3>2, LastOfMembers DEF Remembered
    <3> HIDE DEF r
    <3>4. Len(r) \in Nat /\ Len(r) <= 0
      BY <3>2, <3>3
    <3>5. r = <<>>
      BY <3>3, <3>4, EmptySeq
    <3> QED
      BY <3>5 DEF e, r
  <2> QED
    BY <1>1, <2>1 DEF RecentIsKept
<1>4. NothingEarly
  BY <1>1 DEF NothingEarly
<1>5. SameStory
  BY <1>1, ChartOfNone DEF SameStory, BlankChart
<1>6. SpansStand
  BY <1>1, BlanksStand DEF SpansStand, NoIct, NoZones
<1> QED
  BY <1>2, <1>3, <1>4, <1>5, <1>6 DEF SwingIInv

LEMMA RestartKeeps == SwingIInv /\ RestartEngine => SwingIInv'
<1> SUFFICES ASSUME SwingIInv, RestartEngine PROVE SwingIInv'
  OBVIOUS
<1>1. /\ bars' = bars /\ swing' = NoSwing /\ retest' = NoRetest
      /\ zones' = NoZones /\ ict' = NoIct /\ restarts' = restarts + 1 /\ restarts < MaxRestarts
      /\ recent' = Remembered(LastOf(SeedBars, bars))
  BY DEF RestartEngine
<1>2. bars \in Seq(Shapes) /\ Len(bars) <= MaxBars /\ restarts \in 0..MaxRestarts
  BY DEF SwingIInv, StructureTypes
<1> DEFINE seed == LastOf(SeedBars, bars)
<1>3. /\ seed \in Seq(Shapes)
      /\ \A i \in 1..Len(seed) : \E j \in 1..Len(bars) : seed[i] = bars[j]
  <2>1. SeedBars \in Nat
    BY Sizes
  <2> QED
    BY <1>2, <2>1, LastOfMembers
<1> HIDE DEF seed
<1>4. /\ Remembered(seed) \in Seq(Shapes) /\ Len(Remembered(seed)) <= KeptBars
      /\ \A i \in 1..Len(Remembered(seed)) : \E j \in 1..Len(seed) : Remembered(seed)[i] = seed[j]
  BY <1>3, LastOfMembers, Sizes DEF Remembered
<1>5. recent' = Remembered(seed)
  BY <1>1 DEF seed
<1>6. StructureTypes'
  <2>1. TopOf(bars) \in Nat
    BY <1>2, TopFacts
  <2>2. restarts + 1 \in 0..MaxRestarts
    BY <1>1, <1>2, Sizes
  <2> QED
    BY <1>1, <1>2, <1>4, <1>5, <2>1, <2>2, BlanksTyped DEF StructureTypes
<1>7. RecentIsKept'
  <2>1. restarts' # 0
    BY <1>1, <1>2
  <2>2. \A i \in 1..Len(recent') : \E j \in 1..Len(bars) : recent'[i] = bars[j]
    BY <1>3, <1>4, <1>5
  <2> QED
    BY <1>1, <2>1, <2>2 DEF RecentIsKept
<1>8. NothingEarly' /\ SameStory'
  BY <1>1, <1>2 DEF NothingEarly, SameStory
<1>9. SpansStand'
  BY <1>1, BlanksStand DEF SpansStand, NoIct, NoZones
<1> QED
  BY <1>6, <1>7, <1>8, <1>9 DEF SwingIInv

\* The prices of a bar, mirrored or not, are within the highest one.
LEMMA BarInRange ==
  ASSUME NEW top \in Nat, NEW b \in Shapes, b.h <= top, NEW m, m = Mirror(b)
  PROVE  /\ b.o \in 0..top /\ b.h \in 0..top /\ b.l \in 0..top /\ b.c \in Int
         /\ b.o \in -top..top /\ b.h \in -top..top /\ b.l \in -top..top
         /\ m.o \in -top..top /\ m.h \in -top..top /\ m.l \in -top..top /\ m.c \in Int
         /\ b.o \in Int /\ b.h \in Int /\ b.l \in Int /\ b.l <= b.c /\ b.c <= b.h
         /\ m.o \in Int /\ m.h \in Int /\ m.l \in Int /\ m.l <= m.c /\ m.c <= m.h
         /\ m.c = -b.c
<1> DEFINE o == b.o
           h == b.h
           l == b.l
           c == b.c
<1>1. /\ o \in Nat /\ h \in Nat /\ l \in Nat /\ c \in Nat
      /\ l <= o /\ l <= c /\ o <= h /\ c <= h /\ h <= top
  BY ShapeFacts
<1>2. m.o = -o /\ m.h = -l /\ m.l = -h /\ m.c = -c
  BY MirrorFacts
<1> HIDE DEF o, h, l, c
<1>3. /\ o \in 0..top /\ h \in 0..top /\ l \in 0..top /\ c \in Int
      /\ o \in -top..top /\ h \in -top..top /\ l \in -top..top
      /\ -o \in -top..top /\ -h \in -top..top /\ -l \in -top..top /\ -c \in Int
      /\ o \in Int /\ h \in Int /\ l \in Int /\ -o \in Int /\ -h \in Int /\ -l \in Int
      /\ -h <= -c /\ -c <= -l
  BY <1>1
<1> QED
  BY <1>1, <1>2, <1>3 DEF o, h, l, c

LEMMA ZonesKeep ==
  ASSUME NEW bs \in Seq(Shapes), NEW b \in Shapes, Len(bs) + 1 <= MaxBars,
         NEW top \in Nat, NEW z \in ZonesOf(top), NEW items \in Seq(Shapes), Len(items) >= 1,
         \A i \in 1..Len(items) : items[i].h <= top, Last(items) = b,
         ZoneOf(z.supply, Closes(bs, 1), Len(bs)), ZoneOf(z.demand, Closes(bs, -1), Len(bs)),
         Len(items) < 2 => z = NoZones,
         NEW out, out = UpdateZones(z, items, Len(bs) + 1)
  PROVE  /\ out \in ZonesOf(top)
         /\ ZoneOf(out.supply, Closes(Append(bs, b), 1), Len(bs) + 1)
         /\ ZoneOf(out.demand, Closes(Append(bs, b), -1), Len(bs) + 1)
         /\ Len(items) < 2 => out = NoZones
<1> DEFINE n == Len(bs)
           up == Closes(bs, 1)
           down == Closes(bs, -1)
           newUp == Closes(Append(bs, b), 1)
           newDown == Closes(Append(bs, b), -1)
           prev == items[Len(items) - 1]
<1>1. n \in Nat /\ n + 1 \in 1..MaxBars /\ Len(items) \in Nat
  BY Sizes
<1>2. /\ up \in [1..n -> Int] /\ newUp \in [1..(n + 1) -> Int]
      /\ \A i \in 1..n : newUp[i] = up[i]
      /\ newUp[n + 1] = b.c
      /\ down \in [1..n -> Int] /\ newDown \in [1..(n + 1) -> Int]
      /\ \A i \in 1..n : newDown[i] = down[i]
      /\ newDown[n + 1] = -b.c
  BY ClosesGrow
<1>3. CASE Len(items) < 2
  <2>1. out = NoZones
    BY <1>3 DEF UpdateZones
  <2>2. NoZones.supply = NoSpan /\ NoZones.demand = NoSpan
    BY DEF NoZones
  <2> QED
    BY <2>1, <2>2, BlanksTyped, BlanksStand
<1>4. CASE Len(items) >= 2
  <2>1. prev \in Shapes /\ prev.h <= top
    <3>1. Len(items) - 1 \in 1..Len(items)
      BY <1>1, <1>4
    <3> QED
      BY <3>1
  <2>2. /\ prev.o \in 0..top /\ prev.h \in 0..top /\ prev.l \in 0..top
        /\ Mirror(prev).o \in -top..top /\ Mirror(prev).h \in -top..top
        /\ prev.o \in -top..top /\ prev.h \in -top..top
    BY <2>1, BarInRange
  <2>3. b.c \in Int /\ Mirror(b).c = -b.c /\ -b.c \in Int
    BY ShapeFacts, MirrorFacts
  <2> HIDE DEF n, up, down, newUp, newDown, prev
  <2> DEFINE s == Supply(z.supply, b, prev, n + 1)
             d == Supply(z.demand, Mirror(b), Mirror(prev), n + 1)
  <2>4. out = [supply |-> s, demand |-> d]
    BY <1>1, <1>4 DEF UpdateZones, n, prev
  <2>5. z.supply \in Spans(top) /\ z.demand \in Spans(top)
    BY DEF ZonesOf
  <2>6. ZoneOf(z.supply, up, n) /\ ZoneOf(z.demand, down, n)
    BY DEF up, down, n
  <2>7. s \in Spans(top) /\ d \in Spans(top)
    BY <1>1, <2>2, <2>5, SupplyType
  <2>8. ZoneOf(s, newUp, n + 1)
    <3>1. prev.h \in Int
      BY <2>2
    <3> QED
      BY <1>1, <1>2, <2>3, <2>5, <2>6, <3>1, ZoneKeeps
  <2>9. ZoneOf(d, newDown, n + 1)
    <3> DEFINE c == Mirror(b)
               p == Mirror(prev)
    <3>1. p.h \in Int /\ c.c \in Int /\ c.c = newDown[n + 1]
      BY <1>2, <2>2, <2>3
    <3> HIDE DEF c, p
    <3>2. ZoneOf(Supply(z.demand, c, p, n + 1), newDown, n + 1)
      BY <1>1, <1>2, <2>5, <2>6, <3>1, ZoneKeeps
    <3> QED
      BY <3>2 DEF c, p
  <2> HIDE DEF s, d
  <2> QED
    BY <1>1, <1>4, <2>4, <2>7, <2>8, <2>9 DEF ZonesOf, n, newUp, newDown
<1> QED
  BY <1>1, <1>3, <1>4

LEMMA IctKeeps ==
  ASSUME NEW bs \in Seq(Shapes), NEW b \in Shapes, Len(bs) + 1 <= MaxBars,
         NEW top \in Nat, NEW x \in IctsOf(top), NEW s,
         NEW items \in Seq(Shapes), Len(items) >= 1,
         \A i \in 1..Len(items) : items[i].h <= top, Last(items) = b,
         GapOf(x.gapUp, Closes(bs, 1), Len(bs)), GapOf(x.gapDown, Closes(bs, -1), Len(bs)),
         BlockOf(x.blockUp, Closes(bs, 1), Len(bs)), BlockOf(x.blockDown, Closes(bs, -1), Len(bs)),
         Len(items) < 3 => x = NoIct,
         NEW out, out = UpdateIct(x, s, items, Len(bs) + 1)
  PROVE  /\ out \in IctsOf(top)
         /\ GapOf(out.gapUp, Closes(Append(bs, b), 1), Len(bs) + 1)
         /\ GapOf(out.gapDown, Closes(Append(bs, b), -1), Len(bs) + 1)
         /\ BlockOf(out.blockUp, Closes(Append(bs, b), 1), Len(bs) + 1)
         /\ BlockOf(out.blockDown, Closes(Append(bs, b), -1), Len(bs) + 1)
         /\ Len(items) < 3 => out = NoIct
<1> DEFINE n == Len(bs)
           up == Closes(bs, 1)
           down == Closes(bs, -1)
           newUp == Closes(Append(bs, b), 1)
           newDown == Closes(Append(bs, b), -1)
           first == items[Len(items) - 2]
<1>1. n \in Nat /\ n + 1 \in 1..MaxBars /\ Len(items) \in Nat
  BY Sizes
<1>2. /\ up \in [1..n -> Int] /\ newUp \in [1..(n + 1) -> Int]
      /\ \A i \in 1..n : newUp[i] = up[i]
      /\ newUp[n + 1] = b.c
      /\ down \in [1..n -> Int] /\ newDown \in [1..(n + 1) -> Int]
      /\ \A i \in 1..n : newDown[i] = down[i]
      /\ newDown[n + 1] = -b.c
  BY ClosesGrow
<1>3. CASE Len(items) < 3
  <2>1. out = NoIct
    BY <1>3 DEF UpdateIct, NoIct
  <2>2. /\ NoIct.gapUp = NoSpan /\ NoIct.gapDown = NoSpan
        /\ NoIct.blockUp = NoSpan /\ NoIct.blockDown = NoSpan
    BY DEF NoIct
  <2> QED
    BY <2>1, <2>2, BlanksTyped, BlanksStand
<1>4. CASE Len(items) >= 3
  <2>1. first \in Shapes /\ first.h <= top /\ b.h <= top
    <3>1. Len(items) - 2 \in 1..Len(items) /\ Len(items) \in 1..Len(items)
      BY <1>1, <1>4
    <3> QED
      BY <3>1 DEF Last
  <2> DEFINE c == Mirror(b)
             f == Mirror(first)
             low == IF SweptLow(b, s.low1) THEN TRUE ELSE FALSE
             high == IF s.high1 # None /\ SweptLow(Mirror(b), -s.high1) THEN TRUE ELSE FALSE
  <2>2. /\ first.h \in Int /\ f.h \in Int
        /\ b.l \in Int /\ b.h \in Int /\ b.c \in Int /\ b.l <= b.c /\ b.c <= b.h
        /\ c.l \in Int /\ c.h \in Int /\ c.c \in Int /\ c.l <= c.c /\ c.c <= c.h
        /\ b.c = newUp[n + 1] /\ c.c = newDown[n + 1]
        /\ first.h \in -top..top /\ f.h \in -top..top /\ b.l \in -top..top /\ b.h \in -top..top
        /\ c.l \in -top..top /\ c.h \in -top..top
    <3>1. /\ first.h \in Int /\ f.h \in Int
          /\ first.h \in -top..top /\ f.h \in -top..top
      BY <2>1, BarInRange
    <3>2. /\ b.l \in Int /\ b.h \in Int /\ b.c \in Int /\ b.l <= b.c /\ b.c <= b.h
          /\ c.l \in Int /\ c.h \in Int /\ c.c \in Int /\ c.l <= c.c /\ c.c <= c.h
          /\ b.l \in -top..top /\ b.h \in -top..top
          /\ c.l \in -top..top /\ c.h \in -top..top
          /\ c.c = -b.c
      BY <2>1, BarInRange
    <3> QED
      BY <1>2, <3>1, <3>2
  <2>3. low \in BOOLEAN /\ high \in BOOLEAN
    OBVIOUS
  <2>4. /\ x.gapUp \in Spans(top) /\ x.gapDown \in Spans(top)
        /\ x.blockUp \in Spans(top) /\ x.blockDown \in Spans(top)
    BY DEF IctsOf
  <2> HIDE DEF n, up, down, newUp, newDown, first, c, f
  <2>5. /\ GapOf(x.gapUp, up, n) /\ GapOf(x.gapDown, down, n)
        /\ BlockOf(x.blockUp, up, n) /\ BlockOf(x.blockDown, down, n)
    BY DEF up, down, n
  <2> DEFINE gu == Gap(x.gapUp, first, b, n + 1)
             gd == Gap(x.gapDown, f, c, n + 1)
             bu == Block(x.blockUp, low, b, n + 1)
             bd == Block(x.blockDown, high, c, n + 1)
  <2>6. /\ out.gapUp = gu /\ out.gapDown = gd /\ out.blockUp = bu /\ out.blockDown = bd
        /\ out = [sweep |-> out.sweep, gapUp |-> gu, gapDown |-> gd, blockUp |-> bu, blockDown |-> bd]
        /\ out.sweep \in {"none", "sellside", "buyside"}
    <3> DEFINE sell == SweptLow(b, s.low1)
               buy == s.high1 # None /\ SweptLow(Mirror(b), -s.high1)
               sweep == CASE sell -> "sellside" [] ~sell /\ buy -> "buyside" [] OTHER -> "none"
    <3>1. out = Concepts(x, s, first, b, n + 1)
      BY <1>1, <1>4 DEF UpdateIct, n, first
    <3>2. Concepts(x, s, first, b, n + 1) =
            [sweep |-> sweep, gapUp |-> gu,
             gapDown |-> gd,
             blockUp |-> Block(x.blockUp, sell, b, n + 1),
             blockDown |-> Block(x.blockDown, buy, Mirror(b), n + 1)]
      BY DEF Concepts, f, c
    <3>3. sweep \in {"none", "sellside", "buyside"}
      OBVIOUS
    <3>4. Block(x.blockUp, sell, b, n + 1) = bu
      <4> HIDE DEF sell
      <4>1. \A y : Block(x.blockUp, y, b, n + 1) = Block(x.blockUp, IF y THEN TRUE ELSE FALSE, b, n + 1)
        BY DEF Block
      <4> QED
        BY <4>1 DEF sell
    <3>5. Block(x.blockDown, buy, Mirror(b), n + 1) = bd
      <4> HIDE DEF buy
      <4>1. \A y : Block(x.blockDown, y, Mirror(b), n + 1)
                     = Block(x.blockDown, IF y THEN TRUE ELSE FALSE, Mirror(b), n + 1)
        BY DEF Block
      <4> QED
        BY <4>1 DEF buy, c
    <3> HIDE DEF sweep, sell, buy, gu, gd, bu, bd
    <3> QED
      BY <3>1, <3>2, <3>3, <3>4, <3>5
  <2> HIDE DEF low, high
  <2>7. gu \in Spans(top) /\ gd \in Spans(top)
    BY <1>1, <2>2, <2>4, GapType
  <2>8. bu \in Spans(top) /\ bd \in Spans(top)
    BY <1>1, <2>2, <2>3, <2>4, BlockType
  <2>9. GapOf(gu, newUp, n + 1)
    BY <1>1, <1>2, <2>2, <2>4, <2>5, GapKeeps
  <2>10. GapOf(gd, newDown, n + 1)
    BY <1>1, <1>2, <2>2, <2>4, <2>5, GapKeeps
  <2>11. BlockOf(bu, newUp, n + 1)
    BY <1>1, <1>2, <2>2, <2>3, <2>4, <2>5, BlockKeeps
  <2>12. BlockOf(bd, newDown, n + 1)
    BY <1>1, <1>2, <2>2, <2>3, <2>4, <2>5, BlockKeeps
  <2> HIDE DEF gu, gd, bu, bd
  <2>13. out \in IctsOf(top)
    BY <2>6, <2>7, <2>8 DEF IctsOf
  <2> QED
    BY <1>1, <1>4, <2>6, <2>9, <2>10, <2>11, <2>12, <2>13 DEF n, newUp, newDown
<1> QED
  BY <1>1, <1>3, <1>4
\* A completed bar keeps the invariant.
LEMMA CompleteKeeps == SwingIInv /\ CompleteBar => SwingIInv'
<1> SUFFICES ASSUME SwingIInv, CompleteBar PROVE SwingIInv'
  OBVIOUS
<1>1. PICK b \in Shapes : bars' = Append(bars, b)
  BY DEF CompleteBar
<1> DEFINE n == Len(bars)
           old == TopOf(bars)
           top == TopOf(bars')
           r == Remembered(Append(recent, b))
<1>2. /\ bars \in Seq(Shapes) /\ n \in Nat /\ n < MaxBars
      /\ recent \in Seq(Shapes) /\ Len(recent) <= KeptBars
      /\ swing \in SwingsOf(old) /\ retest \in RetestsOf(old)
      /\ zones \in ZonesOf(old) /\ ict \in IctsOf(old)
      /\ restarts \in 0..MaxRestarts
  BY DEF SwingIInv, StructureTypes, CompleteBar
<1>3. /\ bars' \in Seq(Shapes) /\ Len(bars') = n + 1 /\ bars'[n + 1] = b
      /\ \A i \in 1..n : bars'[i] = bars[i]
  BY <1>1, <1>2
<1>4. Last(bars') = b
  BY <1>3 DEF Last
<1>5. /\ recent' = r
      /\ swing' = UpdateStructure(swing, r)
      /\ retest' = UpdateRetest(retest, swing', r, n + 1)
      /\ zones' = UpdateZones(zones, r, n + 1)
      /\ ict' = UpdateIct(ict, swing', r, n + 1)
      /\ restarts' = restarts
  BY <1>3, <1>4 DEF CompleteBar
<1>6. /\ r \in Seq(Shapes) /\ Len(r) >= 1 /\ Len(r) <= KeptBars /\ Len(r) >= Len(recent)
      /\ Last(r) = b
      /\ \A i \in 1..Len(r) : r[i] = b \/ \E j \in 1..Len(recent) : r[i] = recent[j]
  BY <1>2, NewBar
<1>7. old \in Nat /\ top \in Nat /\ old <= top /\ b.h <= top
      /\ \A i \in 1..(n + 1) : bars'[i].h <= top
  <2>1. old \in Nat
    BY <1>2, TopFacts
  <2>2. top \in Nat /\ \A i \in 1..(n + 1) : bars'[i].h <= top
    BY <1>3, TopFacts
  <2>3. old <= top /\ b.h <= top
    BY <1>1, <1>2, TopGrows
  <2> QED
    BY <2>1, <2>2, <2>3
<1> HIDE DEF r, top, old
<1>8. /\ swing \in SwingsOf(top) /\ retest \in RetestsOf(top)
      /\ zones \in ZonesOf(top) /\ ict \in IctsOf(top)
  BY <1>2, <1>7, TypesGrow
<1>9. \A i \in 1..Len(r) : \E j \in 1..(n + 1) : r[i] = bars'[j]
  <2> TAKE i \in 1..Len(r)
  <2>1. CASE r[i] = b
    BY <1>2, <1>3, <2>1
  <2>2. CASE r[i] # b
    <3>1. PICK j \in 1..Len(recent) : r[i] = recent[j]
      BY <1>6, <2>2
    <3>2. PICK k \in 1..n : recent[j] = bars[k]
      BY DEF SwingIInv, RecentIsKept
    <3> QED
      BY <1>2, <1>3, <3>1, <3>2
  <2> QED
    BY <2>1, <2>2
<1>10. \A i \in 1..Len(r) : r[i].h <= top
  BY <1>7, <1>9
<1>11. /\ GapOf(ict.gapUp, Closes(bars, 1), n) /\ GapOf(ict.gapDown, Closes(bars, -1), n)
       /\ BlockOf(ict.blockUp, Closes(bars, 1), n) /\ BlockOf(ict.blockDown, Closes(bars, -1), n)
       /\ ZoneOf(zones.supply, Closes(bars, 1), n) /\ ZoneOf(zones.demand, Closes(bars, -1), n)
       /\ RetestOf(retest, swing, Closes(bars, retest.side), n)
  BY DEF SwingIInv, SpansStand
<1>12. /\ swing' \in SwingsOf(top)
       /\ ~swing'.event =>
            /\ swing'.trend = swing.trend
            /\ swing'.brokenHigh = swing.brokenHigh /\ swing'.brokenLow = swing.brokenLow
       /\ swing'.event => \/ swing'.trend = 1 /\ b.c > swing'.brokenHigh
                          \/ swing'.trend = -1 /\ b.c < swing'.brokenLow
  BY <1>5, <1>6, <1>7, <1>8, <1>10, StructureFacts
<1>13. n + 1 \in 1..MaxBars /\ n + 1 <= MaxBars
  BY <1>2, Sizes
<1>14. retest' \in RetestsOf(top)
  BY <1>5, <1>7, <1>8, <1>12, <1>13, RetestType
<1>15. RetestOf(retest', swing', Closes(bars', retest'.side), n + 1)
  <2> DEFINE t == swing'
             out == retest'
  <2>1. /\ t \in SwingsOf(top) /\ out = UpdateRetest(retest, t, r, Len(bars) + 1)
        /\ ~t.event =>
             /\ t.trend = swing.trend
             /\ t.brokenHigh = swing.brokenHigh /\ t.brokenLow = swing.brokenLow
        /\ t.event => \/ t.trend = 1 /\ b.c > t.brokenHigh
                      \/ t.trend = -1 /\ b.c < t.brokenLow
    BY <1>5, <1>12
  <2>2. RetestOf(retest, swing, Closes(bars, retest.side), Len(bars))
    BY <1>11
  <2> HIDE DEF t, out, n
  <2>3. RetestOf(out, t, Closes(Append(bars, b), out.side), Len(bars) + 1)
    BY <1>2, <1>6, <1>7, <1>8, <2>1, <2>2, RetestKeeps
  <2> QED
    BY <1>1, <2>3 DEF t, out, n
<1>16. Len(r) < 2 => zones = NoZones
  <2>1. NothingEarly /\ Len(recent) \in Nat /\ Len(r) \in Nat
    BY <1>2, <1>6 DEF SwingIInv
  <2> QED
    BY <1>6, <2>1 DEF NothingEarly
<1>17. Len(r) < 3 => ict = NoIct
  <2>1. NothingEarly /\ Len(recent) \in Nat /\ Len(r) \in Nat
    BY <1>2, <1>6 DEF SwingIInv
  <2> QED
    BY <1>6, <2>1 DEF NothingEarly
<1>18. /\ zones' \in ZonesOf(top)
       /\ ZoneOf(zones'.supply, Closes(bars', 1), n + 1)
       /\ ZoneOf(zones'.demand, Closes(bars', -1), n + 1)
       /\ Len(r) < 2 => zones' = NoZones
  <2> DEFINE out == zones'
  <2>1. out = UpdateZones(zones, r, Len(bars) + 1)
    BY <1>5
  <2> HIDE DEF out
  <2>2. /\ out \in ZonesOf(top)
        /\ ZoneOf(out.supply, Closes(Append(bars, b), 1), Len(bars) + 1)
        /\ ZoneOf(out.demand, Closes(Append(bars, b), -1), Len(bars) + 1)
        /\ Len(r) < 2 => out = NoZones
    BY <1>2, <1>6, <1>7, <1>8, <1>10, <1>11, <1>13, <1>16, <2>1, ZonesKeep
  <2> QED
    BY <1>1, <2>2 DEF out
<1>19. /\ ict' \in IctsOf(top)
       /\ GapOf(ict'.gapUp, Closes(bars', 1), n + 1)
       /\ GapOf(ict'.gapDown, Closes(bars', -1), n + 1)
       /\ BlockOf(ict'.blockUp, Closes(bars', 1), n + 1)
       /\ BlockOf(ict'.blockDown, Closes(bars', -1), n + 1)
       /\ Len(r) < 3 => ict' = NoIct
  <2> DEFINE out == ict'
             s == swing'
  <2>1. out = UpdateIct(ict, s, r, Len(bars) + 1)
    BY <1>5
  <2> HIDE DEF out, s
  <2>2. /\ out \in IctsOf(top)
        /\ GapOf(out.gapUp, Closes(Append(bars, b), 1), Len(bars) + 1)
        /\ GapOf(out.gapDown, Closes(Append(bars, b), -1), Len(bars) + 1)
        /\ BlockOf(out.blockUp, Closes(Append(bars, b), 1), Len(bars) + 1)
        /\ BlockOf(out.blockDown, Closes(Append(bars, b), -1), Len(bars) + 1)
        /\ Len(r) < 3 => out = NoIct
    BY <1>2, <1>6, <1>7, <1>8, <1>10, <1>11, <1>13, <1>17, <2>1, IctKeeps
  <2> QED
    BY <1>1, <2>2 DEF out
<1>20. restarts = 0 => r = Remembered(bars')
  <2> SUFFICES ASSUME restarts = 0 PROVE r = Remembered(bars')
    OBVIOUS
  <2>1. recent = Remembered(bars)
    BY DEF SwingIInv, RecentIsKept
  <2> QED
    BY <1>1, <1>2, <2>1, RememberedGrows DEF r
<1>21. StructureTypes'
  BY <1>2, <1>3, <1>5, <1>6, <1>12, <1>13, <1>14, <1>18, <1>19 DEF StructureTypes, top
<1>22. RecentIsKept'
  BY <1>3, <1>5, <1>9, <1>20 DEF RecentIsKept
<1>23. NothingEarly'
  BY <1>5, <1>18, <1>19 DEF NothingEarly
<1>24. SameStory'
  <2> SUFFICES ASSUME restarts = 0
               PROVE  ComputeSmcGeometry(bars') = [swing |-> swing', ict |-> ict']
    BY <1>5 DEF SameStory
  <2>1. ComputeSmcGeometry(bars) = [swing |-> swing, ict |-> ict]
    BY DEF SwingIInv, SameStory
  <2>2. ComputeSmcGeometry(bars') = ChartBar([swing |-> swing, ict |-> ict], bars', n + 1)
    BY <1>1, <1>2, <2>1, ChartGrows
  <2>3. n < 2 => ict = NoIct
    <3>1. recent = Remembered(bars)
      BY DEF SwingIInv, RecentIsKept
    <3>2. Len(recent) <= n /\ Len(recent) \in Nat
      BY <1>2, <3>1, LastOfMembers, Sizes DEF Remembered
    <3> QED
      BY <1>2, <3>2 DEF SwingIInv, NothingEarly
  <2>4. ChartBar([swing |-> swing, ict |-> ict], Append(bars, b), n + 1)
          = [swing |-> UpdateStructure(swing, r),
             ict |-> UpdateIct(ict, UpdateStructure(swing, r), r, n + 1)]
    BY <1>1, <1>2, <1>20, <2>3, SameBar
  <2> QED
    BY <1>1, <1>5, <2>2, <2>4
<1>25. SpansStand'
  BY <1>3, <1>15, <1>18, <1>19 DEF SpansStand
<1> QED
  BY <1>21, <1>22, <1>23, <1>24, <1>25 DEF SwingIInv

LEMMA NextSwing == SwingIInv /\ [SwingNext]_swingVars => SwingIInv'
<1> SUFFICES ASSUME SwingIInv, [SwingNext]_swingVars PROVE SwingIInv'
  OBVIOUS
<1>1. CASE CompleteBar
  BY <1>1, CompleteKeeps
<1>2. CASE RestartEngine
  BY <1>2, RestartKeeps
<1>3. CASE UNCHANGED swingVars
  <2>1. /\ bars' = bars /\ recent' = recent /\ swing' = swing /\ retest' = retest
        /\ zones' = zones /\ ict' = ict /\ restarts' = restarts
    BY <1>3 DEF swingVars
  <2>2. StructureTypes' /\ RecentIsKept' /\ NothingEarly' /\ SameStory' /\ SpansStand'
    BY <2>1 DEF SwingIInv, StructureTypes, RecentIsKept, NothingEarly, SameStory, SpansStand
  <2> QED
    BY <2>2 DEF SwingIInv
<1> QED
  BY <1>1, <1>2, <1>3 DEF SwingNext

\* The invariant of the structure, whatever bars come and however often the
\* feature engine restarts (features/engine.py, _apply_completed_1m_bar).
THEOREM SwingInvariant == SwingSpec => []SwingIInv
<1> QED
  BY InitSwing, NextSwing, PTL DEF SwingSpec

-----------------------------------------------------------------------------
(* The invariant shows the properties. *)

LEMMA TypesShown == SwingIInv => SwingTypeOK
<1> SUFFICES ASSUME SwingIInv PROVE SwingTypeOK
  OBVIOUS
<1>1. Top = TopOf(bars)
  BY DEF Top, TopOf
<1>2. StructureTypes
  BY DEF SwingIInv
<1>3. /\ bars \in Seq(Shapes) /\ Len(bars) <= MaxBars
      /\ recent \in Seq(Shapes) /\ Len(recent) <= KeptBars
      /\ restarts \in 0..MaxRestarts
  BY <1>2 DEF StructureTypes
<1>4. /\ swing.high1 \in 0..Top /\ swing.high2 \in 0..Top
      /\ swing.low1 \in 0..Top /\ swing.low2 \in 0..Top
      /\ swing.brokenHigh \in 0..Top /\ swing.brokenLow \in 0..Top
      /\ swing.trend \in -1..1 /\ swing.event \in BOOLEAN /\ swing.label \in Labels
  BY <1>1, <1>2 DEF StructureTypes, SwingsOf
<1>5. /\ retest.level \in 0..Top /\ retest.side \in -1..1 /\ retest.armed \in 0..MaxBars
      /\ retest.status \in {"NO_BREAKOUT", "PENDING_RETEST", "RETEST_HELD", "RETEST_FAILED"}
  BY <1>1, <1>2 DEF StructureTypes, RetestsOf
<1>6. /\ zones.supply \in Spans(Top) /\ zones.demand \in Spans(Top)
      /\ ict.gapUp \in Spans(Top) /\ ict.gapDown \in Spans(Top)
      /\ ict.blockUp \in Spans(Top) /\ ict.blockDown \in Spans(Top)
      /\ ict.sweep \in {"none", "sellside", "buyside"}
  BY <1>1, <1>2 DEF StructureTypes, ZonesOf, IctsOf
<1> QED
  BY <1>3, <1>4, <1>5, <1>6 DEF SwingTypeOK, Labels

\* The closes of a side are what the properties call so.
LEMMA CloseFacts ==
  ASSUME bars \in Seq(Shapes), NEW side \in {1, -1}
  PROVE  \A i \in 1..Len(bars) :
           /\ Closes(bars, side)[i] = Close(i, side) /\ Close(i, side) \in Int
           /\ side = 1 => Close(i, side) = bars[i].c
           /\ side = -1 => Close(i, side) = -bars[i].c
<1> TAKE i \in 1..Len(bars)
<1>1. bars[i].c \in Nat
  BY ShapeFacts
<1> DEFINE c == bars[i].c
<1>2. Closes(bars, side)[i] = IF side = 1 THEN c ELSE -c
  BY DEF Closes
<1>3. Close(i, side) = side * c
  BY DEF Close
<1> HIDE DEF c
<1>4. CASE side = 1
  BY <1>1, <1>2, <1>3, <1>4 DEF c
<1>5. CASE side = -1
  BY <1>1, <1>2, <1>3, <1>5 DEF c
<1> QED
  BY <1>4, <1>5

LEMMA GapShown ==
  ASSUME bars \in Seq(Shapes), NEW side \in {1, -1}, NEW gap,
         GapOf(gap, Closes(bars, side), Len(bars))
  PROVE  GapStands(gap, side)
<1> SUFFICES ASSUME gap.at # 0
             PROVE  /\ \A i \in Since(gap) : Close(i, side) >= gap.low
                    /\ Cardinality({i \in Since(gap) : Close(i, side) <= gap.high}) < GapTouches
  BY DEF GapStands
<1> DEFINE closes == Closes(bars, side)
           n == Len(bars)
<1>1. /\ gap.at \in 1..n /\ n \in Nat
      /\ \A i \in gap.at..n : closes[i] >= gap.low
      /\ gap.marks = Cardinality(Inside(closes, gap.at, n, gap.high))
      /\ gap.marks < GapTouches
  BY DEF GapOf
<1>2. \A i \in gap.at..n : closes[i] = Close(i, side)
  BY <1>1, CloseFacts
<1>3. Since(gap) = gap.at..n
  BY DEF Since
<1> HIDE DEF closes, n
<1>4. {i \in Since(gap) : Close(i, side) <= gap.high} = Inside(closes, gap.at, n, gap.high)
  BY <1>2, <1>3 DEF Inside
<1> QED
  BY <1>1, <1>2, <1>3, <1>4

LEMMA BlockShown ==
  ASSUME bars \in Seq(Shapes), NEW side \in {1, -1}, NEW block,
         BlockOf(block, Closes(bars, side), Len(bars))
  PROVE  BlockStands(block, side)
<1> SUFFICES ASSUME block.marks = 1
             PROVE  \E v \in Since(block) :
                      /\ Close(v, side) > block.high
                      /\ \A i \in block.at..v : Close(i, side) >= block.low
                      /\ \A i \in v..Len(bars) : 2 * Close(i, side) >= block.low + block.high
  BY DEF BlockStands
<1> DEFINE closes == Closes(bars, side)
           n == Len(bars)
<1>1. block.at # 0 /\ block.at \in 1..n /\ n \in Nat
  BY DEF BlockOf
<1>2. PICK v \in block.at..n : ConfirmedAt(block, closes, n, v)
  BY <1>1 DEF BlockOf
<1>3. \A i \in 1..n : closes[i] = Close(i, side)
  BY CloseFacts
<1>4. Since(block) = block.at..n
  BY DEF Since
<1> HIDE DEF closes, n
<1>5. /\ \A i \in block.at..v : i \in 1..n
      /\ \A i \in v..n : i \in 1..n
      /\ v \in 1..n
  BY <1>1
<1>6. /\ Close(v, side) > block.high
      /\ \A i \in block.at..v : Close(i, side) >= block.low
      /\ \A i \in v..n : 2 * Close(i, side) >= block.low + block.high
  BY <1>2, <1>3, <1>5 DEF ConfirmedAt
<1> QED
  BY <1>4, <1>6 DEF n

LEMMA RetestShown == SwingIInv => PendingRetestStands
<1> SUFFICES ASSUME SwingIInv, retest.status = "PENDING_RETEST"
             PROVE  /\ retest.side = swing.trend
                    /\ retest.level = IF swing.trend = 1 THEN swing.brokenHigh ELSE swing.brokenLow
                    /\ Len(bars) - retest.armed <= RetestTtl
                    /\ \A i \in retest.armed..Len(bars) :
                         Close(i, retest.side) >= retest.side * retest.level
  BY DEF PendingRetestStands
<1> DEFINE n == Len(bars)
           closes == Closes(bars, retest.side)
           level == retest.level
<1>1. bars \in Seq(Shapes) /\ n \in Nat /\ retest.side \in {-1, 0, 1} /\ level \in Nat
  <2>1. TopOf(bars) \in Nat /\ bars \in Seq(Shapes) /\ retest \in RetestsOf(TopOf(bars))
    BY TopFacts DEF SwingIInv, StructureTypes
  <2> QED
    BY <2>1 DEF RetestsOf
<1>2. RetestOf(retest, swing, closes, n)
  BY DEF SwingIInv, SpansStand
<1> HIDE DEF closes, n, level
<1>3. retest.side # 0
  BY <1>2 DEF RetestOf
<1>4. /\ retest.armed \in 1..n
      /\ retest.side = swing.trend
      /\ retest.level = IF swing.trend = 1 THEN swing.brokenHigh ELSE swing.brokenLow
      /\ n - retest.armed <= RetestTtl
      /\ \A i \in retest.armed..n : closes[i] >= IF retest.side = 1 THEN level ELSE -level
  BY <1>2, <1>3 DEF RetestOf, level
<1>5. retest.side * level = IF retest.side = 1 THEN level ELSE -level
  <2>1. CASE retest.side = 1
    BY <1>1, <2>1
  <2>2. CASE retest.side = -1
    BY <1>1, <2>2
  <2> QED
    BY <1>1, <1>3, <2>1, <2>2
<1>6. \A i \in retest.armed..n : i \in 1..n /\ closes[i] = Close(i, retest.side)
  <2>1. retest.side \in {1, -1}
    BY <1>1, <1>3
  <2>2. \A i \in 1..n : closes[i] = Close(i, retest.side)
    BY <1>1, <2>1, CloseFacts DEF closes, n
  <2> QED
    BY <1>1, <1>4, <2>2
<1>7. \A i \in retest.armed..n : Close(i, retest.side) >= retest.side * level
  BY <1>4, <1>5, <1>6
<1> QED
  BY <1>4, <1>7 DEF n, level

LEMMA ZoneShown ==
  ASSUME bars \in Seq(Shapes), NEW side \in {1, -1}, NEW zone,
         ZoneOf(zone, Closes(bars, side), Len(bars))
  PROVE  \A i \in Since(zone) : zone.at # 0 => Close(i, side) <= zone.high
<1> TAKE i \in Since(zone)
<1> HAVE zone.at # 0
<1>1. zone.at \in 1..Len(bars) /\ i \in zone.at..Len(bars) /\ Len(bars) \in Nat
  BY DEF ZoneOf, Since
<1>2. Closes(bars, side)[i] <= zone.high
  BY <1>1 DEF ZoneOf
<1>3. Closes(bars, side)[i] = Close(i, side)
  BY <1>1, CloseFacts
<1> QED
  BY <1>2, <1>3

\* What the chart and the feature engine draw still stands: the two tell the
\* same story until a restart, gaps, blocks and zones have not been closed
\* through, and a pending retest is of the level broken last
\* (features/structure.py, retest.py, zones.py, ict.py, api smc_geometry.py).
THEOREM StructureIsSound == SwingSpec => []StructureStands
<1>1. SwingIInv => StructureStands
  <2> SUFFICES ASSUME SwingIInv PROVE StructureStands
    OBVIOUS
  <2>1. bars \in Seq(Shapes)
    BY DEF SwingIInv, StructureTypes
  <2>2. ChartMatchesEngine
    BY DEF SwingIInv, SameStory, ChartMatchesEngine
  <2>3. GapsStand
    BY <2>1, GapShown DEF SwingIInv, SpansStand, GapsStand
  <2>4. BlocksStand
    BY <2>1, BlockShown DEF SwingIInv, SpansStand, BlocksStand
  <2>5. ZonesStand
    <3>1. \A i \in Since(zones.supply) : zones.supply.at # 0 => Close(i, 1) <= zones.supply.high
      BY <2>1, ZoneShown DEF SwingIInv, SpansStand
    <3>2. \A i \in Since(zones.demand) : zones.demand.at # 0 => Close(i, -1) <= zones.demand.high
      BY <2>1, ZoneShown DEF SwingIInv, SpansStand
    <3> QED
      BY <3>1, <3>2 DEF ZonesStand
  <2> QED
    BY <2>2, <2>3, <2>4, <2>5, TypesShown, RetestShown DEF StructureStands
<1> QED
  BY <1>1, SwingInvariant, PTL

-----------------------------------------------------------------------------
(* The inductive invariant of the replay. *)

AllDiag == Buckets \cup {"bars_evaluated"}

\* Swings of whatever prices.
AnySwings ==
  [high1 : Nat, high2 : Nat, low1 : Nat, low2 : Nat, trend : -1..1,
   label : Labels, brokenHigh : Nat, brokenLow : Nat, event : BOOLEAN]

Positions ==
  [side : {1, -1}, at : Nat, source : {"swing_zone"}, entry : Int, sl : Int, tp : [1..3 -> Int]]

TradeReasons == {"SL_HIT", "TP1", "TP2", "TP3", "SESSION_CLOSE"}

TradeRecords ==
  [side : {1, -1}, source : {"swing_zone"}, from : Nat, to : Nat, entry : Int, sl : Int,
   tp : [1..3 -> Int], reason : TradeReasons, pnl : Int]

\* What a position and a trade have in common.
InRightOrder(p) ==
  /\ p.sl < p.entry /\ p.sl < p.tp[1] /\ p.tp[1] < p.tp[2] /\ p.tp[2] < p.tp[3]
  /\ p.sl >= p.entry - Slip - MaxStop

\* The bars after the entry have touched neither the stop nor a target, and
\* have closed above the stop, as the bar of the entry has.
Untouched(p, bs, from, to) ==
  /\ \A i \in (from + 1)..to :
       Oriented(bs[i], p.side).l > p.sl /\ Oriented(bs[i], p.side).h < p.tp[1]
  /\ \A i \in from..to : p.side * bs[i].c > p.sl

\* Within the day, a position that is held has seen no session close.
SameSession(from, to) ==
  \A i \in (from + 1)..to : ~IsSessionCloseBar(i) /\ SessionOf(i) = SessionOf(from + 1)

PositionOf(p, bs, day) ==
  /\ p \in Positions
  /\ InRightOrder(p)
  /\ p.at \in (WarmupBars + 1)..Len(bs)
  /\ Untouched(p, bs, p.at, Len(bs))
  /\ day => SameSession(p.at, Len(bs))

\* The bars that touch the stop, and those that reach a target.
Stopped(t, bs) == {i \in (t.from + 1)..t.to : Oriented(bs[i], t.side).l <= t.sl}
Reached(t, bs) == {i \in (t.from + 1)..t.to : Oriented(bs[i], t.side).h >= t.tp[1]}

TradeOf(t, bs, day) ==
  /\ InRightOrder(t)
  /\ t.from \in 1..Len(bs) /\ t.to \in t.from..Len(bs)
  /\ Stopped(t, bs) \cup Reached(t, bs) \subseteq {t.to}
  /\ t.reason = "SL_HIT" <=> Stopped(t, bs) # {}
  /\ t.reason \in {"TP1", "TP2", "TP3"} <=> Stopped(t, bs) = {} /\ Reached(t, bs) # {}
  /\ t.pnl >= -(MaxStop + 2 * Slip + Fee)
  /\ day /\ SessionOf(t.from) # SessionOf(t.to) =>
       IsSessionCloseBar(t.from) /\ SessionOf(t.to) = SessionOf(t.from) + 1

ReplayTyped ==
  /\ config \in Configs
  /\ tape \in Seq(ReplayShapes) /\ Len(tape) <= ReplayBars
  /\ trades \in Seq(TradeRecords)
  /\ diag \in [AllDiag -> Nat] /\ \A b \in AllDiag : diag[b] <= Len(tape)
  /\ ComputeSmcGeometry(tape).swing \in AnySwings

ReplayIInv ==
  /\ ReplayTyped
  /\ position # NoPosition => PositionOf(position, tape, config.intraday)
  /\ \A i \in DOMAIN trades : TradeOf(trades[i], tape, config.intraday)
  /\ TradesDisjoint
  /\ config.mode \in {"fast_range", "trendline"} => diag["armed_setups"] = 0
  /\ BarsAccounted

\* The swings of the geometry are prices, or none.
LEMMA PricesOf ==
  ASSUME NEW s \in AnySwings, NEW h \in Nat, NEW l \in Nat
  PROVE  \E top \in Nat : s \in SwingsOf(top) /\ h \in 0..top /\ l \in 0..top
<1> DEFINE a == s.high1
           b == s.high2
           c == s.low1
           d == s.low2
           e == s.brokenHigh
           f == s.brokenLow
           top == a + b + c + d + e + f + h + l
<1>1. /\ a \in Nat /\ b \in Nat /\ c \in Nat /\ d \in Nat /\ e \in Nat /\ f \in Nat
      /\ s.trend \in -1..1 /\ s.label \in Labels /\ s.event \in BOOLEAN
      /\ s = [high1 |-> a, high2 |-> b, low1 |-> c, low2 |-> d, trend |-> s.trend,
              label |-> s.label, brokenHigh |-> e, brokenLow |-> f, event |-> s.event]
  BY DEF AnySwings
<1> HIDE DEF a, b, c, d, e, f
<1>2. /\ top \in Nat /\ a \in 0..top /\ b \in 0..top /\ c \in 0..top /\ d \in 0..top
      /\ e \in 0..top /\ f \in 0..top /\ h \in 0..top /\ l \in 0..top
  BY <1>1
<1> HIDE DEF top
<1>3. s \in SwingsOf(top)
  BY <1>1, <1>2 DEF SwingsOf
<1> QED
  BY <1>2, <1>3

LEMMA PricesAre ==
  ASSUME NEW top \in Nat
  PROVE  SwingsOf(top) \subseteq AnySwings
<1>1. 0..top \subseteq Nat
  OBVIOUS
<1> QED
  BY <1>1 DEF SwingsOf, AnySwings

LEMMA ReplayShapeFacts ==
  ASSUME NEW b \in ReplayShapes
  PROVE  /\ b.o \in Nat /\ b.h \in Nat /\ b.l \in Nat /\ b.c \in Nat
         /\ b.h > 0 /\ b.l > 0 /\ b.c > 0
         /\ b.l <= b.c /\ b.c <= b.h
         /\ Mirror(b).o = -b.o /\ Mirror(b).h = -b.l /\ Mirror(b).l = -b.h /\ Mirror(b).c = -b.c
<1>1. b \in [o : Nat \ {0}, h : Nat \ {0}, l : Nat \ {0}, c : Nat \ {0}, v : Nat \ {0}]
  BY ReplayAssumption
<1>2. b.l <= b.o /\ b.l <= b.c /\ b.o <= b.h /\ b.c <= b.h
  BY ReplayAssumption
<1>3. Mirror(b).o = -b.o /\ Mirror(b).h = -b.l /\ Mirror(b).l = -b.h /\ Mirror(b).c = -b.c
  BY <1>1 DEF Mirror
<1> QED
  BY <1>1, <1>2, <1>3

LEMMA GeometryTyped ==
  ASSUME NEW bs \in Seq(ReplayShapes), NEW b \in ReplayShapes,
         ComputeSmcGeometry(bs).swing \in AnySwings
  PROVE  ComputeSmcGeometry(Append(bs, b)).swing \in AnySwings
<1> DEFINE t == Append(bs, b)
           n == Len(bs) + 1
           g == ComputeSmcGeometry(bs)
           quiet == [g.swing EXCEPT !.event = FALSE]
           a == n - Window + 1
           win == SubSeq(t, a, n)
           s == IF n < Window THEN quiet ELSE Broken(Pivots(quiet, win), t[n].c)
<1>1. t \in Seq(ReplayShapes) /\ Len(t) = n /\ n \in Nat /\ n >= 1
  OBVIOUS
<1>2. ComputeSmcGeometry(t) = ChartBar(g, t, n)
  BY ChartGrows
<1>3. quiet \in AnySwings /\ quiet.event = FALSE
  <2> DEFINE x == g.swing
  <2>1. x \in AnySwings
    OBVIOUS
  <2> HIDE DEF x
  <2>2. [x EXCEPT !.event = FALSE] \in AnySwings /\ [x EXCEPT !.event = FALSE].event = FALSE
    BY <2>1 DEF AnySwings
  <2> QED
    BY <2>2 DEF x
<1> HIDE DEF t, n, g, quiet, win
<1>4. ChartBar(g, t, n).swing = s
  BY DEF ChartBar, quiet, win
<1>5. CASE n < Window
  BY <1>2, <1>3, <1>4, <1>5 DEF t
<1>6. CASE ~(n < Window)
  <2>1. a \in Int /\ a >= 1 /\ n \in Int /\ n - a + 1 = Window /\ Left + 1 \in 1..Window
        /\ a <= n
    BY <1>1, <1>6, Sizes
  <2>2. \A i \in a..n : t[i] \in ReplayShapes
    BY <1>1, <2>1
  <2> HIDE DEF a
  <2>3. win[Left + 1] \in ReplayShapes
    <3>1. /\ SubSeq(t, a, n) \in Seq(ReplayShapes)
          /\ Len(SubSeq(t, a, n)) = IF a <= n THEN n - a + 1 ELSE 0
      BY <2>1, <2>2, SubSeqProperties
    <3>2. Len(win) = Window /\ win \in Seq(ReplayShapes)
      BY <2>1, <3>1 DEF win
    <3> QED
      BY <2>1, <3>2
  <2>4. t[n] \in ReplayShapes
    BY <1>1
  <2> DEFINE h == win[Left + 1].h
             l == win[Left + 1].l
             c == t[n].c
             p == Pivots(quiet, win)
             u == Broken(p, c)
  <2>5. h \in Nat /\ l \in Nat /\ c \in Nat
    BY <2>3, <2>4, ReplayShapeFacts
  <2> HIDE DEF c
  <2>6. PICK top \in Nat : quiet \in SwingsOf(top) /\ h \in 0..top /\ l \in 0..top
    <3> HIDE DEF h, l
    <3> QED
      BY <1>3, <2>5, PricesOf
  <2>7. p \in SwingsOf(top) /\ p.event = FALSE
    BY <1>3, <2>6, PivotsFacts
  <2> HIDE DEF p, h, l
  <2>8. u \in SwingsOf(top)
    BY <2>5, <2>7, BrokenFacts
  <2>9. u \in AnySwings
    BY <2>8, PricesAre
  <2> QED
    BY <1>2, <1>4, <1>6, <2>9 DEF t, p, c
<1> QED
  BY <1>5, <1>6

-----------------------------------------------------------------------------
(* The trigger. *)

LEMMA OrientedFacts ==
  ASSUME NEW b \in ReplayShapes, NEW side \in {1, -1}, NEW o, o = Oriented(b, side)
  PROVE  /\ o.l \in Int /\ o.h \in Int /\ o.c \in Int
         /\ o.l <= o.c /\ o.c <= o.h /\ o.c = side * b.c
<1> DEFINE h == b.h
           l == b.l
           c == b.c
<1>1. h \in Nat /\ l \in Nat /\ c \in Nat /\ l <= c /\ c <= h
  BY ReplayShapeFacts
<1>2. side = 1 => o.h = h /\ o.l = l /\ o.c = c
  BY DEF Oriented
<1>3. side = -1 => o.h = -l /\ o.l = -h /\ o.c = -c
  BY ReplayShapeFacts DEF Oriented
<1> HIDE DEF h, l, c
<1>4. CASE side = 1
  BY <1>1, <1>2, <1>4 DEF c
<1>5. CASE side = -1
  <2>1. o.c = side * c
    BY <1>1, <1>3, <1>5
  <2> QED
    BY <1>1, <1>3, <1>5, <2>1 DEF c
<1> QED
  BY <1>4, <1>5

LEMMA PlacesDiffer ==
  /\ Place("fast_range") = 1 /\ Place("swing_zone") = 2 /\ Place("trendline") = 3
  /\ Range(Sources) = {"fast_range", "swing_zone", "trendline"}
<1>1. /\ DOMAIN Sources = 1..3 /\ Sources[1] = "fast_range" /\ Sources[2] = "swing_zone"
      /\ Sources[3] = "trendline"
  BY DEF Sources
<1>2. \A i \in 1..3 : i = 1 \/ i = 2 \/ i = 3
  OBVIOUS
<1>3. Place("fast_range") = 1
  BY <1>1, <1>2 DEF Place
<1>4. Place("swing_zone") = 2
  BY <1>1, <1>2 DEF Place
<1>5. Place("trendline") = 3
  BY <1>1, <1>2 DEF Place
<1>6. Range(Sources) = {"fast_range", "swing_zone", "trendline"}
  BY <1>1, <1>2 DEF Range
<1> QED
  BY <1>3, <1>4, <1>5, <1>6

\* What each source can offer: at most one candidate.
LEMMA CandidatesAre ==
  ASSUME NEW b, NEW g, NEW line, NEW side, NEW t \in Trigger(b, g, line, side)
  PROVE  /\ t \in FastRange(b, side) \cup SwingZone(g, side)
                    \cup Trendline(g, line, side * Last(b).c, side)
         /\ t.source \in {"fast_range", "swing_zone", "trendline"}
         /\ t.source = "fast_range" => t \in FastRange(b, side)
         /\ t.source = "swing_zone" => t \in SwingZone(g, side)
         /\ t.source = "trendline" => t \in Trendline(g, line, side * Last(b).c, side)
         /\ config.mode \in {t.source, "hybrid"}
<1> DEFINE f == FastRange(b, side)
           z == SwingZone(g, side)
           l == Trendline(g, line, side * Last(b).c, side)
<1>1. t \in f \cup z \cup l /\ config.mode \in {t.source, "hybrid"}
  BY DEF Trigger
<1>2. \A x \in f : x.source = "fast_range"
  BY DEF FastRange, Candidate
<1>3. \A x \in z : x.source = "swing_zone"
  BY DEF SwingZone, Candidate
<1>4. \A x \in l : x.source = "trendline"
  BY DEF Trendline, Candidate
<1> HIDE DEF f, z, l
<1>5. /\ t.source \in {"fast_range", "swing_zone", "trendline"}
      /\ t.source = "fast_range" => t \in f
      /\ t.source = "swing_zone" => t \in z
      /\ t.source = "trendline" => t \in l
  BY <1>1, <1>2, <1>3, <1>4
<1> QED
  BY <1>1, <1>5 DEF f, z, l

\* min takes one.
LEMMA TriggerIsOne ==
  ASSUME NEW b, NEW g, NEW line, NEW side,
         NEW t \in Trigger(b, g, line, side), NEW u \in Trigger(b, g, line, side),
         t.price \in Int, u.price \in Int, side * Last(b).c \in Int
  PROVE  t = u
<1> DEFINE ltp == side * Last(b).c
           d == Body([o |-> t.price, c |-> ltp])
           e == Body([o |-> u.price, c |-> ltp])
<1>1. Nearer(t, u, ltp) /\ Nearer(u, t, ltp)
  BY DEF Trigger
<1>2. d \in Int /\ e \in Int
  <2> DEFINE x == t.price
             y == u.price
  <2>1. x \in Int /\ y \in Int /\ ltp \in Int
    OBVIOUS
  <2> HIDE DEF x, y, ltp
  <2>2. Body([o |-> x, c |-> ltp]) \in Int /\ Body([o |-> y, c |-> ltp]) \in Int
    BY <2>1 DEF Body
  <2> QED
    BY <2>2 DEF x, y
<1>3. /\ d < e \/ (d = e /\ Place(t.source) <= Place(u.source))
      /\ e < d \/ (e = d /\ Place(u.source) <= Place(t.source))
  BY <1>1 DEF Nearer
<1>4. /\ t.source \in {"fast_range", "swing_zone", "trendline"}
      /\ u.source \in {"fast_range", "swing_zone", "trendline"}
  BY CandidatesAre
<1> HIDE DEF d, e
<1>5. Place(t.source) <= Place(u.source) /\ Place(u.source) <= Place(t.source)
  BY <1>2, <1>3
<1>6. t.source = u.source
  BY <1>4, <1>5, PlacesDiffer
<1>7. \A x, y : x \in FastRange(b, side) /\ y \in FastRange(b, side) => x = y
  BY DEF FastRange
<1>8. \A x, y : x \in SwingZone(g, side) /\ y \in SwingZone(g, side) => x = y
  BY DEF SwingZone
<1>9. \A x, y : x \in Trendline(g, line, ltp, side) /\ y \in Trendline(g, line, ltp, side) => x = y
  BY DEF Trendline
<1>10. CASE t.source = "fast_range"
  BY <1>6, <1>7, <1>10, CandidatesAre
<1>11. CASE t.source = "swing_zone"
  BY <1>6, <1>8, <1>11, CandidatesAre
<1>12. CASE t.source = "trendline"
  BY <1>6, <1>9, <1>12, CandidatesAre
<1> QED
  BY <1>4, <1>10, <1>11, <1>12

\* The range of the last bars reaches as far as the last of them.
LEMMA RangeIsAbove ==
  ASSUME NEW b \in Seq(ReplayShapes), Len(b) >= 1, NEW side \in {1, -1},
         NEW t \in FastRange(b, side)
  PROVE  t.price \in Int /\ t.price > side * Last(b).c
<1> DEFINE items == LastOf(Lookback, b)
           n == Len(items)
           hs == [i \in 1..n |-> Oriented(items[i], side).h]
           H == {hs[i] : i \in 1..n}
<1>0. Lookback \in Nat \ {0} /\ Buffer \in Nat \ {0} /\ Len(b) \in Nat
  BY ReplayAssumption
<1>1. Len(b) >= Lookback /\ t = Candidate(Max({Oriented(x, side).h : x \in Range(items)}) + Buffer, "fast_range")
  BY <1>0 DEF FastRange
<1>2. /\ items \in Seq(ReplayShapes) /\ n = Lookback /\ n \in Nat
      /\ items[n] = b[Len(b)]
  <2>1. Lowest(Lookback, Len(b)) = Lookback
    BY <1>0, <1>1 DEF Lowest
  <2>2. /\ items \in Seq(ReplayShapes) /\ Len(items) = Lowest(Lookback, Len(b))
        /\ \A i \in 1..Lowest(Lookback, Len(b)) :
             items[i] = b[Len(b) - Lowest(Lookback, Len(b)) + i]
    BY <1>0, LastOfFacts
  <2>3. Lookback \in 1..Lookback /\ Len(b) - Lookback + Lookback = Len(b)
    BY <1>0
  <2> HIDE DEF items
  <2> QED
    BY <1>0, <2>1, <2>2, <2>3
<1> HIDE DEF items
<1>3. {Oriented(x, side).h : x \in Range(items)} = H
  <2>1. Range(items) = {items[i] : i \in 1..n} /\ DOMAIN items = 1..n
    BY <1>2 DEF Range
  <2> QED
    BY <2>1
<1>4. \A i \in 1..n : items[i] \in ReplayShapes
  BY <1>2
<1>5. \A i \in 1..n : hs[i] \in Int
  BY <1>4, OrientedFacts
<1>6. H \in SUBSET Int /\ hs[n] \in H /\ n \in 1..n
  BY <1>0, <1>2, <1>5
<1>7. IsFiniteSet(H)
  <2>1. IsFiniteSet(1..n)
    BY <1>2, FS_Interval
  <2> HIDE DEF hs
  <2> QED
    BY <2>1, FiniteImage
<1>8. side * Last(b).c <= hs[n]
  <2>1. Last(b) = items[n] /\ items[n] \in ReplayShapes /\ n \in 1..n
    BY <1>2, <1>4, <1>6 DEF Last
  <2> QED
    BY <2>1, OrientedFacts
<1> HIDE DEF H
<1>9. Max(H) \in H /\ hs[n] <= Max(H)
  BY <1>6, <1>7, GreatestInteger
<1>10. t.price = Max(H) + Buffer
  BY <1>1, <1>3 DEF Candidate
<1>11. side * Last(b).c \in Int
  <2>1. b[Len(b)] \in ReplayShapes
    BY <1>0
  <2> QED
    BY <2>1, OrientedFacts DEF Last
<1> DEFINE m == Max(H)
           h == hs[n]
           c == side * Last(b).c
<1>12. m \in Int /\ h \in Int /\ c \in Int /\ h <= m /\ c <= h /\ t.price = m + Buffer
  BY <1>5, <1>6, <1>8, <1>9, <1>10, <1>11
<1> HIDE DEF m, h, c
<1>13. t.price \in Int /\ t.price > c
  BY <1>0, <1>12
<1> QED
  BY <1>13 DEF c

\* Only the swing zone is ever confirmed by the bar, and the trigger is one.
LEMMA TriggerFacts ==
  ASSUME NEW b \in Seq(ReplayShapes), Len(b) >= 1, NEW side \in {1, -1},
         NEW g \in AnySwings, NEW line \in Lines
  PROVE  /\ \A t \in Trigger(b, g, line, side) :
              Confirms(Oriented(Last(b), side), t.price) => t.source = "swing_zone"
         /\ \A t, u \in Trigger(b, g, line, side) : t = u
<1> DEFINE ltp == side * Last(b).c
<1>1. Last(b) \in ReplayShapes
  BY DEF Last
<1>2. ltp \in Int /\ Oriented(Last(b), side).c = ltp
  BY <1>1, OrientedFacts
<1>3. ASSUME NEW t \in Trigger(b, g, line, side)
      PROVE  t.price \in Int /\ (t.source # "swing_zone" => t.price >= ltp)
  <2>1. CASE t.source = "fast_range"
    <3>1. t.price \in Int /\ t.price > ltp
      BY <2>1, CandidatesAre, RangeIsAbove
    <3> HIDE DEF ltp
    <3> QED
      BY <1>2, <3>1
  <2>2. CASE t.source = "swing_zone"
    <3>1. t \in SwingZone(g, side)
      BY <2>2, CandidatesAre
    <3> DEFINE level == IF side = 1 THEN g.high1 ELSE g.low1
    <3>2. t = Candidate(side * level + Buffer, "swing_zone") /\ level \in Nat
      BY <3>1 DEF SwingZone, AnySwings
    <3>3. Buffer \in Nat
      BY ReplayAssumption
    <3> HIDE DEF level
    <3>4. side * level + Buffer \in Int
      <4>1. CASE side = 1
        BY <3>2, <3>3, <4>1
      <4>2. CASE side = -1
        BY <3>2, <3>3, <4>2
      <4> QED
        BY <4>1, <4>2
    <3>5. t.price = side * level + Buffer
      BY <3>2 DEF Candidate
    <3> QED
      BY <2>2, <3>4, <3>5
  <2>3. CASE t.source = "trendline"
    <3>1. t \in Trendline(g, line, ltp, side)
      BY <2>3, CandidatesAre
    <3>2. t.price = side * line /\ side * line > ltp
      BY <3>1 DEF Trendline, Candidate
    <3>3. line \in Nat
      BY ReplayAssumption
    <3>4. side * line \in Int
      <4>1. CASE side = 1
        BY <3>3, <4>1
      <4>2. CASE side = -1
        BY <3>3, <4>2
      <4> QED
        BY <4>1, <4>2
    <3> DEFINE y == side * line
    <3> HIDE DEF y, ltp
    <3>5. y \in Int /\ y > ltp /\ t.price = y
      BY <3>2, <3>4 DEF y
    <3> QED
      BY <1>2, <3>5
  <2> QED
    BY <2>1, <2>2, <2>3, CandidatesAre
<1>4. ASSUME NEW t \in Trigger(b, g, line, side), Confirms(Oriented(Last(b), side), t.price)
      PROVE  t.source = "swing_zone"
  <2>1. ltp > t.price
    BY <1>2, <1>4 DEF Confirms
  <2>2. t.price \in Int /\ (t.source # "swing_zone" => t.price >= ltp)
    BY <1>3
  <2> HIDE DEF ltp
  <2> QED
    BY <1>2, <2>1, <2>2
<1>5. \A t, u \in Trigger(b, g, line, side) : t = u
  BY <1>2, <1>3, TriggerIsOne
<1> QED
  BY <1>4, <1>5

-----------------------------------------------------------------------------
(* A position is opened. *)

LEMMA StopFacts ==
  ASSUME NEW g \in AnySwings, NEW entry \in Int, NEW side \in {1, -1}
  PROVE  Stop(g, entry, side) \in Int /\ Stop(g, entry, side) >= entry - MaxStop
<1> DEFINE level == IF side = 1 THEN g.low1 ELSE g.high1
           S == {side * level, entry - MaxStop}
<1>1. level \in Nat /\ MaxStop \in Nat
  BY ReplayAssumption DEF AnySwings
<1>2. Stop(g, entry, side) = IF level = None THEN entry - MaxStop ELSE Max(S)
  BY DEF Stop
<1> HIDE DEF level
<1>3. side * level \in Int
  <2>1. CASE side = 1
    BY <1>1, <2>1
  <2>2. CASE side = -1
    BY <1>1, <2>2
  <2> QED
    BY <2>1, <2>2
<1>4. IsFiniteSet(S)
  <2>1. IsFiniteSet({}) /\ S = ({} \cup {side * level}) \cup {entry - MaxStop}
    BY FS_EmptySet
  <2>2. IsFiniteSet({} \cup {side * level})
    BY <2>1, FS_AddElement
  <2>3. IsFiniteSet(({} \cup {side * level}) \cup {entry - MaxStop})
    BY <2>2, FS_AddElement
  <2> QED
    BY <2>1, <2>3
<1> DEFINE x == side * level
           y == entry - MaxStop
<1>5. x \in Int /\ y \in Int /\ S = {x, y}
  BY <1>1, <1>3
<1> HIDE DEF x, y, S
<1>6. S \in SUBSET Int /\ S # {} /\ y \in S
  BY <1>5
<1>7. Max(S) \in S /\ y <= Max(S)
  BY <1>4, <1>6, GreatestInteger
<1>8. Max(S) \in Int /\ y \in Int
  BY <1>6, <1>7
<1> QED
  BY <1>1, <1>2, <1>7, <1>8 DEF y

LEMMA TimesMore ==
  ASSUME NEW d \in Int, d > 0, NEW a \in Nat, NEW b \in Nat, a < b
  PROVE  d * a \in Int /\ d * b \in Int /\ d * a < d * b /\ d * a >= 0
<1> DEFINE c == b - a
<1>1. c \in Nat /\ c > 0 /\ b = a + c
  OBVIOUS
<1> HIDE DEF c
<1>2. d * b = d * a + d * c
  BY <1>1
<1>3. d * c > 0 /\ d * a >= 0
  BY <1>1
<1> QED
  BY <1>1, <1>2, <1>3

LEMMA RatiosGrow ==
  /\ Ratios[1] \in Nat /\ Ratios[2] \in Nat /\ Ratios[3] \in Nat
  /\ Ratios[1] < Ratios[2] /\ Ratios[2] < Ratios[3]
<1>1. Ratios \in Seq(Nat \ {0}) /\ Len(Ratios) = 3
  BY ReplayAssumption
<1>2. Ratios[1] < Ratios[2] /\ Ratios[2] < Ratios[3]
  BY ReplayAssumption
<1>3. 1 \in 1..Len(Ratios) /\ 2 \in 1..Len(Ratios) /\ 3 \in 1..Len(Ratios)
  BY <1>1
<1>4. \A k \in 1..Len(Ratios) : Ratios[k] \in Nat
  <2> DEFINE r == Ratios
             P == Nat \ {0}
  <2>1. r \in Seq(P) /\ \A x \in P : x \in Nat
    BY <1>1
  <2> HIDE DEF r, P
  <2>2. \A k \in 1..Len(r) : r[k] \in P
    BY <2>1, ElementOfSeq
  <2> QED
    BY <2>1, <2>2 DEF r
<1> QED
  BY <1>2, <1>3, <1>4

LEMMA OpenedPosition ==
  ASSUME NEW bs \in Seq(ReplayShapes), Len(bs) > WarmupBars, NEW side \in {1, -1},
         NEW g \in AnySwings, NEW entry, entry = side * Last(bs).c,
         HasRisk(Stop(g, entry, side), entry),
         NEW p, p = Position(g, side, "swing_zone", bs), NEW day
  PROVE  PositionOf(p, bs, day)
<1> DEFINE n == Len(bs)
           stop == Stop(g, entry, side)
           d == entry - stop
           r == Ratios
           tp == [k \in 1..3 |-> entry + d * r[k]]
<1>1. WarmupBars \in Nat /\ Slip \in Nat /\ MaxStop \in Nat
  BY ReplayAssumption
<1>2. n \in Nat /\ n \in (WarmupBars + 1)..n /\ n \in 1..n
  BY <1>1
<1>3. bs[n] \in ReplayShapes /\ Last(bs) = bs[n]
  BY <1>2 DEF Last
<1>4. entry \in Int
  BY <1>3, OrientedFacts
<1>5. stop \in Int /\ stop >= entry - MaxStop /\ entry > stop
  BY <1>4, StopFacts DEF HasRisk
<1>6. p = [side |-> side, at |-> n, source |-> "swing_zone",
           entry |-> entry + Slip, sl |-> stop, tp |-> tp]
  BY DEF Position
<1> HIDE DEF stop
<1>7. d \in Int /\ d > 0
  BY <1>4, <1>5
<1>8. r[1] \in Nat /\ r[2] \in Nat /\ r[3] \in Nat /\ r[1] < r[2] /\ r[2] < r[3]
  BY RatiosGrow
<1> DEFINE x == r[1]
           y == r[2]
           z == r[3]
<1>9. /\ tp[1] = entry + d * x /\ tp[2] = entry + d * y /\ tp[3] = entry + d * z
  OBVIOUS
<1> HIDE DEF d
<1>10. /\ d * x \in Int /\ d * y \in Int /\ d * z \in Int
       /\ d * x < d * y /\ d * y < d * z /\ d * x >= 0
  <2> HIDE DEF x, y, z
  <2>1. x \in Nat /\ y \in Nat /\ z \in Nat /\ x < y /\ y < z
    BY <1>8 DEF x, y, z
  <2>2. d * x \in Int /\ d * y \in Int /\ d * x < d * y /\ d * x >= 0
    BY <1>7, <2>1, TimesMore
  <2>3. d * y \in Int /\ d * z \in Int /\ d * y < d * z
    BY <1>7, <2>1, TimesMore
  <2> QED
    BY <2>2, <2>3
<1>11. tp \in [1..3 -> Int]
  <2>1. \A k \in 1..3 : k = 1 \/ k = 2 \/ k = 3
    OBVIOUS
  <2>2. entry + d * x \in Int /\ entry + d * y \in Int /\ entry + d * z \in Int
    BY <1>4, <1>10
  <2>3. \A k \in 1..3 : entry + d * r[k] \in Int
    BY <2>1, <2>2
  <2> QED
    BY <2>3
<1>12. stop < tp[1] /\ tp[1] < tp[2] /\ tp[2] < tp[3]
  <2> DEFINE a == d * x
             b == d * y
             c == d * z
  <2>1. a \in Int /\ b \in Int /\ c \in Int /\ a < b /\ b < c /\ a >= 0
    BY <1>10
  <2>2. tp[1] = entry + a /\ tp[2] = entry + b /\ tp[3] = entry + c
    BY <1>9
  <2> HIDE DEF a, b, c, tp
  <2> QED
    BY <1>4, <1>5, <2>1, <2>2
<1> HIDE DEF tp, x, y, z
<1>13. p \in Positions /\ p.at = n /\ p.sl = stop /\ p.entry = entry + Slip /\ p.tp = tp
       /\ p.side = side
  <2> DEFINE cost == entry + Slip
  <2>1. n \in Nat /\ cost \in Int /\ stop \in Int
    BY <1>1, <1>2, <1>4, <1>5
  <2>2. p = [side |-> side, at |-> n, source |-> "swing_zone",
             entry |-> cost, sl |-> stop, tp |-> tp]
    BY <1>6
  <2> HIDE DEF cost, n
  <2>3. p \in Positions /\ p.at = n /\ p.sl = stop /\ p.entry = cost /\ p.tp = tp
        /\ p.side = side
    BY <1>11, <2>1, <2>2 DEF Positions
  <2> QED
    BY <2>3 DEF cost
<1>14. InRightOrder(p)
  <2> DEFINE cost == entry + Slip
  <2>1. stop < cost /\ stop >= cost - Slip - MaxStop
    BY <1>1, <1>4, <1>5
  <2>2. p.sl = stop /\ p.entry = cost /\ p.tp = tp
    BY <1>13
  <2> HIDE DEF cost
  <2> QED
    BY <1>12, <2>1, <2>2 DEF InRightOrder
<1>15. Untouched(p, bs, n, n)
  <2>1. (n + 1)..n = {} /\ \A i \in n..n : i = n
    BY <1>2
  <2> QED
    BY <1>3, <1>5, <1>13, <2>1 DEF Untouched
<1>16. SameSession(n, n)
  BY <1>2 DEF SameSession
<1> QED
  BY <1>2, <1>13, <1>14, <1>15, <1>16 DEF PositionOf, n

-----------------------------------------------------------------------------
(* A position is held or closed. *)

LEMMA SessionFacts ==
  ASSUME NEW i \in Nat \ {0}
  PROVE  /\ SessionOf(i) \in Nat
         /\ SessionOf(i + 1) = SessionOf(i) \/ SessionOf(i + 1) = SessionOf(i) + 1
<1> DEFINE s == SessionBars
           a == i - 1
           q == a \div s
           r == i \div s
<1>1. s \in Nat \ {0} /\ a \in Nat /\ i = a + 1
  BY ReplayAssumption
<1>2. q \in Nat /\ s * q <= a /\ a < s * q + s
  BY <1>1, DivType
<1>3. r \in Nat /\ s * r <= i /\ i < s * r + s
  BY <1>1, DivType
<1>4. SessionOf(i) = q
  BY DEF SessionOf
<1>5. SessionOf(i + 1) = r
  <2>1. i + 1 - 1 = i
    OBVIOUS
  <2> QED
    BY <2>1 DEF SessionOf
<1> HIDE DEF a, q, r, s
<1>6. q <= r
  <2> SUFFICES ASSUME r < q PROVE FALSE
    BY <1>2, <1>3
  <2> DEFINE e == q - r - 1
  <2>1. e \in Nat /\ q = r + 1 + e
    BY <1>2, <1>3
  <2> HIDE DEF e
  <2>2. s * q = s * r + s + s * e /\ s * e >= 0
    BY <1>1, <1>3, <2>1
  <2> QED
    BY <1>1, <1>2, <1>3, <2>2
<1>7. r <= q + 1
  <2> SUFFICES ASSUME q + 1 < r PROVE FALSE
    BY <1>2, <1>3
  <2> DEFINE e == r - q - 2
  <2>1. e \in Nat /\ r = q + 2 + e
    BY <1>2, <1>3
  <2> HIDE DEF e
  <2>2. s * r = s * q + s + s + s * e /\ s * e >= 0
    BY <1>1, <1>2, <2>1
  <2> QED
    BY <1>1, <1>2, <1>3, <2>2
<1> QED
  BY <1>2, <1>3, <1>4, <1>5, <1>6, <1>7

LEMMA ExitFacts ==
  ASSUME NEW p \in Positions, InRightOrder(p), NEW bar, bar.l \in Int, bar.h \in Int,
         NEW exit, exit = Exit(p, bar)
  PROVE  /\ exit.reason \in {"SL_HIT", "TP1", "TP2", "TP3", "none"}
         /\ exit.reason = "SL_HIT" <=> bar.l <= p.sl
         /\ exit.reason \in {"TP1", "TP2", "TP3"} <=> bar.l > p.sl /\ bar.h >= p.tp[1]
         /\ exit.reason # "none" => exit.price \in Int /\ exit.price >= p.sl - Slip
<1> DEFINE hit == {k \in 1..3 : bar.h >= p.tp[k]}
           names == <<"TP1", "TP2", "TP3">>
<1>0. Slip \in Nat
  BY ReplayAssumption
<1>1. /\ p.sl \in Int /\ p.tp \in [1..3 -> Int]
      /\ p.sl < p.tp[1] /\ p.tp[1] < p.tp[2] /\ p.tp[2] < p.tp[3]
  BY DEF Positions, InRightOrder
<1>2. exit = CASE bar.l <= p.sl -> [reason |-> "SL_HIT", price |-> p.sl - Slip]
               [] bar.l > p.sl /\ hit # {} ->
                    [reason |-> names[Max(hit)], price |-> p.tp[Max(hit)] - Slip]
               [] OTHER -> [reason |-> "none"]
  BY DEF Exit
<1>3. hit # {} <=> bar.h >= p.tp[1]
  <2>1. p.tp[1] \in Int /\ p.tp[2] \in Int /\ p.tp[3] \in Int
    BY <1>1
  <2>2. \A k \in 1..3 : (k = 1 \/ k = 2 \/ k = 3) /\ p.tp[k] >= p.tp[1]
    BY <1>1, <2>1
  <2>3. 1 \in 1..3 /\ \A k \in 1..3 : p.tp[k] \in Int
    BY <1>1
  <2> QED
    BY <2>2, <2>3
<1>4. hit \in SUBSET (1..3) /\ hit \in SUBSET Int /\ IsFiniteSet(hit)
  <2>1. hit \in SUBSET (1..3) /\ 3 \in Nat
    OBVIOUS
  <2> HIDE DEF hit
  <2> QED
    BY <2>1, FinitePlaces
<1>5. hit # {} => Max(hit) \in 1..3
  <2> HIDE DEF hit
  <2> QED
    BY <1>4, GreatestInteger
<1> HIDE DEF hit
<1>6. \A k \in 1..3 : /\ names[k] \in {"TP1", "TP2", "TP3"}
                      /\ p.tp[k] \in Int /\ p.tp[k] > p.sl
  <2>1. \A k \in 1..3 : (k = 1 \/ k = 2 \/ k = 3) /\ p.tp[k] \in Int
    BY <1>1
  <2>2. p.tp[1] > p.sl /\ p.tp[2] > p.sl /\ p.tp[3] > p.sl
    <3>1. p.tp[1] \in Int /\ p.tp[2] \in Int /\ p.tp[3] \in Int
      BY <1>1
    <3> QED
      BY <1>1, <3>1
  <2>3. \A k \in 1..3 : p.tp[k] > p.sl
    BY <2>1, <2>2
  <2>4. \A k \in 1..3 : names[k] \in {"TP1", "TP2", "TP3"}
    BY <2>1
  <2> QED
    BY <2>1, <2>3, <2>4
<1> HIDE DEF names
<1>7. CASE bar.l <= p.sl
  <2>0. ~(bar.l > p.sl)
    BY <1>1, <1>7
  <2>1. exit = [reason |-> "SL_HIT", price |-> p.sl - Slip]
    BY <1>2, <1>7, <2>0
  <2>2. exit.reason = "SL_HIT" /\ exit.price = p.sl - Slip /\ ~(bar.l > p.sl)
    BY <1>1, <1>7, <2>1
  <2> QED
    BY <1>0, <1>1, <1>7, <2>2
<1>8. CASE bar.l > p.sl /\ hit # {}
  <2> DEFINE m == Max(hit)
  <2>1. m \in 1..3 /\ ~(bar.l <= p.sl)
    BY <1>1, <1>5, <1>8
  <2>2. exit = [reason |-> names[m], price |-> p.tp[m] - Slip]
    BY <1>2, <1>8, <2>1
  <2> HIDE DEF m
  <2>3. exit.reason = names[m] /\ exit.price = p.tp[m] - Slip
    BY <2>2
  <2>4. names[m] \in {"TP1", "TP2", "TP3"} /\ p.tp[m] \in Int /\ p.tp[m] > p.sl
    BY <1>6, <2>1
  <2>5. exit.price \in Int /\ exit.price >= p.sl - Slip
    BY <1>0, <1>1, <2>3, <2>4
  <2> QED
    BY <1>3, <1>8, <2>1, <2>3, <2>4, <2>5
<1>9. CASE bar.l > p.sl /\ hit = {}
  <2>1. exit = [reason |-> "none"] /\ ~(bar.l <= p.sl)
    BY <1>1, <1>2, <1>9
  <2>2. exit.reason = "none"
    BY <2>1
  <2> QED
    BY <1>3, <1>9, <2>1, <2>2
<1> QED
  BY <1>1, <1>7, <1>8, <1>9

LEMMA PositionFacts ==
  ASSUME NEW bs \in Seq(ReplayShapes), NEW day, NEW p, PositionOf(p, bs, day)
  PROVE  /\ p.side \in {1, -1} /\ p.sl \in Int /\ p.entry \in Int /\ p.tp \in [1..3 -> Int]
         /\ p.tp[1] \in Int /\ p.source = "swing_zone"
         /\ p.sl >= p.entry - Slip - MaxStop
         /\ p.at \in Nat /\ p.at >= WarmupBars + 1 /\ p.at >= 1 /\ p.at <= Len(bs)
         /\ Slip \in Nat /\ MaxStop \in Nat /\ Fee \in Nat /\ WarmupBars \in Nat
         /\ Len(bs) \in Nat /\ ReplayBars \in Nat
<1>1. Slip \in Nat /\ MaxStop \in Nat /\ Fee \in Nat /\ WarmupBars \in Nat /\ ReplayBars \in Nat
  BY ReplayAssumption
<1>2. p \in Positions /\ InRightOrder(p) /\ p.at \in (WarmupBars + 1)..Len(bs)
  BY DEF PositionOf
<1>3. /\ p.side \in {1, -1} /\ p.sl \in Int /\ p.entry \in Int /\ p.tp \in [1..3 -> Int]
      /\ p.source = "swing_zone" /\ p.at \in Nat
  BY <1>2 DEF Positions
<1>4. p.tp[1] \in Int
  BY <1>3
<1> QED
  BY <1>1, <1>2, <1>3, <1>4 DEF InRightOrder

\* What a trade has seen does not change with the bars that follow.
LEMMA TradeStays ==
  ASSUME NEW bs \in Seq(ReplayShapes), NEW b \in ReplayShapes, NEW day,
         NEW t \in TradeRecords, TradeOf(t, bs, day)
  PROVE  TradeOf(t, Append(bs, b), day)
<1> DEFINE new == Append(bs, b)
<1>1. /\ Len(new) = Len(bs) + 1 /\ Len(bs) \in Nat /\ \A i \in 1..Len(bs) : new[i] = bs[i]
  OBVIOUS
<1> HIDE DEF new
<1>2. t.from \in 1..Len(bs) /\ t.to \in t.from..Len(bs)
  BY DEF TradeOf
<1>3. \A i \in (t.from + 1)..t.to : i \in 1..Len(bs)
  BY <1>1, <1>2
<1>4. Stopped(t, new) = Stopped(t, bs) /\ Reached(t, new) = Reached(t, bs)
  BY <1>1, <1>3 DEF Stopped, Reached
<1>5. t.from \in 1..Len(new) /\ t.to \in t.from..Len(new)
  BY <1>1, <1>2
<1> QED
  BY <1>4, <1>5 DEF TradeOf, new

\* The bars that a position has been held through touched nothing.
QuietBefore(bs, p, at, n) ==
  /\ at \in Nat /\ at >= 1 /\ n \in Nat /\ at <= n /\ n <= Len(bs)
  /\ p.sl \in Int /\ p.tp[1] \in Int /\ p.side \in {1, -1}
  /\ \A i \in (at + 1)..(n - 1) :
       Oriented(bs[i], p.side).l > p.sl /\ Oriented(bs[i], p.side).h < p.tp[1]

LEMMA BarsOfTrade ==
  ASSUME NEW bs \in Seq(ReplayShapes), NEW p, NEW at, NEW n, QuietBefore(bs, p, at, n),
         NEW t, t.from = at /\ t.to = n /\ t.side = p.side /\ t.sl = p.sl /\ t.tp = p.tp,
         NEW bar, bar = Oriented(bs[n], p.side)
  PROVE  /\ Stopped(t, bs) \cup Reached(t, bs) \subseteq {n}
         /\ Stopped(t, bs) # {} <=> at < n /\ bar.l <= p.sl
         /\ Reached(t, bs) # {} <=> at < n /\ bar.h >= p.tp[1]
<1>q. /\ at \in Nat /\ at >= 1 /\ n \in Nat /\ at <= n /\ n <= Len(bs)
      /\ p.sl \in Int /\ p.tp[1] \in Int /\ p.side \in {1, -1}
      /\ \A i \in (at + 1)..(n - 1) :
           Oriented(bs[i], p.side).l > p.sl /\ Oriented(bs[i], p.side).h < p.tp[1]
  BY DEF QuietBefore
<1>0. \A i \in (at + 1)..n : bs[i] \in ReplayShapes
  BY <1>q
<1>1. \A i \in (at + 1)..(n - 1) :
        /\ Oriented(bs[i], p.side).l \in Int /\ Oriented(bs[i], p.side).h \in Int
        /\ ~(Oriented(bs[i], p.side).l <= p.sl) /\ ~(Oriented(bs[i], p.side).h >= p.tp[1])
  <2> TAKE i \in (at + 1)..(n - 1)
  <2>1. bs[i] \in ReplayShapes
    BY <1>q, <1>0
  <2> DEFINE o == Oriented(bs[i], p.side)
  <2>2. o.l \in Int /\ o.h \in Int /\ o.l > p.sl /\ o.h < p.tp[1]
    BY <1>q, <2>1, OrientedFacts
  <2> HIDE DEF o
  <2>3. ~(o.l <= p.sl) /\ ~(o.h >= p.tp[1])
    BY <1>q, <2>2
  <2> QED
    BY <2>2, <2>3 DEF o
<1>2. \A i \in (at + 1)..n : i = n \/ i \in (at + 1)..(n - 1)
  BY <1>q
<1>3. n \in (at + 1)..n <=> at < n
  BY <1>q
<1>4. \A i \in (at + 1)..n : Oriented(bs[i], p.side).l <= p.sl => i = n
  BY <1>1, <1>2
<1>5. \A i \in (at + 1)..n : Oriented(bs[i], p.side).h >= p.tp[1] => i = n
  BY <1>1, <1>2
<1>6. Stopped(t, bs) = {i \in (at + 1)..n : Oriented(bs[i], p.side).l <= p.sl}
  BY DEF Stopped
<1>7. Reached(t, bs) = {i \in (at + 1)..n : Oriented(bs[i], p.side).h >= p.tp[1]}
  BY DEF Reached
<1>8. (\E i \in (at + 1)..n : Oriented(bs[i], p.side).l <= p.sl) <=> at < n /\ bar.l <= p.sl
  BY <1>3, <1>4
<1>9. (\E i \in (at + 1)..n : Oriented(bs[i], p.side).h >= p.tp[1]) <=> at < n /\ bar.h >= p.tp[1]
  BY <1>3, <1>5
<1> QED
  BY <1>4, <1>5, <1>6, <1>7, <1>8, <1>9

LEMMA SameSessionGrows ==
  ASSUME NEW at \in Nat, at >= 1, NEW n \in Nat, at <= n, SameSession(at, n)
  PROVE  /\ SessionOf(n + 1) = SessionOf(at + 1)
         /\ SessionOf(n + 1) # SessionOf(at) =>
              IsSessionCloseBar(at) /\ SessionOf(n + 1) = SessionOf(at) + 1
<1>1. SessionOf(n + 1) = SessionOf(at + 1)
  <2>1. CASE n = at
    BY <2>1
  <2>2. CASE n # at
    <3>1. n \in (at + 1)..n
      BY <2>2
    <3>2. ~IsSessionCloseBar(n) /\ SessionOf(n) = SessionOf(at + 1)
      BY <3>1 DEF SameSession
    <3>3. SessionOf(n + 1) = SessionOf(n)
      BY <3>2 DEF IsSessionCloseBar
    <3> QED
      BY <3>2, <3>3
  <2> QED
    BY <2>1, <2>2
<1>2. SessionOf(at + 1) = SessionOf(at) \/ SessionOf(at + 1) = SessionOf(at) + 1
  BY SessionFacts
<1>3. SessionOf(at + 1) # SessionOf(at) => IsSessionCloseBar(at)
  BY DEF IsSessionCloseBar
<1> QED
  BY <1>1, <1>2, <1>3

\* The fields of a trade; it loses no more than its stop and costs allow.
MayClose(p, exit) ==
  /\ p.side \in {1, -1} /\ p.source = "swing_zone" /\ p.at \in Nat
  /\ p.entry \in Int /\ p.sl \in Int /\ p.tp \in [1..3 -> Int]
  /\ p.sl >= p.entry - Slip - MaxStop
  /\ exit.reason \in TradeReasons /\ exit.price \in Int /\ exit.price >= p.sl - Slip

LEMMA TradeFacts ==
  ASSUME NEW p, NEW exit, MayClose(p, exit), NEW to \in Nat,
         NEW t, t = Trade(p, to, exit)
  PROVE  /\ t \in TradeRecords
         /\ t.side = p.side /\ t.from = p.at /\ t.to = to /\ t.entry = p.entry
         /\ t.sl = p.sl /\ t.tp = p.tp /\ t.reason = exit.reason
         /\ t.pnl \in Int /\ t.pnl >= -(MaxStop + 2 * Slip + Fee)
<1> DEFINE e == exit.price
           a == p.entry
           s == p.sl
           pnl == e - a - Fee
           side == p.side
           source == p.source
           at == p.at
           tp == p.tp
           reason == exit.reason
<1>1. t = [side |-> side, source |-> source, from |-> at, to |-> to, entry |-> a, sl |-> s,
           tp |-> tp, reason |-> reason, pnl |-> pnl]
  BY DEF Trade
<1>2. Slip \in Nat /\ MaxStop \in Nat /\ Fee \in Nat
  BY ReplayAssumption
<1>3. /\ e \in Int /\ a \in Int /\ s \in Int /\ s >= a - Slip - MaxStop /\ e >= s - Slip
      /\ side \in {1, -1} /\ source \in {"swing_zone"} /\ at \in Nat /\ tp \in [1..3 -> Int]
      /\ reason \in TradeReasons
  BY DEF MayClose
<1> HIDE DEF e, a, s
<1>4. pnl \in Int /\ pnl >= -(MaxStop + 2 * Slip + Fee)
  BY <1>2, <1>3
<1> HIDE DEF pnl, side, source, at, tp, reason
<1>5. /\ t \in TradeRecords
      /\ t.side = side /\ t.from = at /\ t.to = to /\ t.entry = a
      /\ t.sl = s /\ t.tp = tp /\ t.reason = reason /\ t.pnl = pnl
  BY <1>1, <1>3, <1>4 DEF TradeRecords
<1> QED
  BY <1>4, <1>5 DEF e, a, s, side, at, tp, reason

\* A position that is closed by a bar makes a trade, whatever closes it.
LEMMA ClosedByBar ==
  ASSUME NEW bs \in Seq(ReplayShapes), NEW b \in ReplayShapes, NEW day,
         NEW p, PositionOf(p, bs, day), NEW bar, bar = Oriented(b, p.side),
         NEW exit, exit.reason \in TradeReasons,
         exit.price \in Int, exit.price >= p.sl - Slip,
         exit.reason = "SL_HIT" <=> bar.l <= p.sl,
         exit.reason \in {"TP1", "TP2", "TP3"} <=> bar.l > p.sl /\ bar.h >= p.tp[1],
         NEW t, t = Trade(p, Len(bs) + 1, exit)
  PROVE  /\ t \in TradeRecords /\ TradeOf(t, Append(bs, b), day)
         /\ t.from = p.at /\ t.to = Len(bs) + 1
<1> DEFINE new == Append(bs, b)
           n == Len(bs)
           at == p.at
<1>1. /\ Len(new) = n + 1 /\ n \in Nat /\ new[n + 1] = b /\ new \in Seq(ReplayShapes)
      /\ \A i \in 1..n : new[i] = bs[i]
  OBVIOUS
<1>2. /\ p.side \in {1, -1} /\ p.sl \in Int /\ p.entry \in Int /\ p.tp \in [1..3 -> Int]
      /\ p.tp[1] \in Int /\ p.source = "swing_zone"
      /\ p.sl >= p.entry - Slip - MaxStop
      /\ at \in Nat /\ at >= 1 /\ at <= n
      /\ Slip \in Nat /\ MaxStop \in Nat /\ Fee \in Nat
  BY PositionFacts
<1>3. /\ InRightOrder(p) /\ Untouched(p, bs, at, n) /\ (day => SameSession(at, n))
  BY DEF PositionOf
<1>4. bar.l \in Int /\ bar.h \in Int
  BY <1>2, OrientedFacts
<1>7. /\ t \in TradeRecords
      /\ t.side = p.side /\ t.from = at /\ t.to = n + 1 /\ t.entry = p.entry /\ t.sl = p.sl
      /\ t.tp = p.tp /\ t.reason = exit.reason
      /\ t.pnl >= -(MaxStop + 2 * Slip + Fee)
  <2> DEFINE to == Len(bs) + 1
  <2>1. to \in Nat /\ t = Trade(p, to, exit)
    OBVIOUS
  <2> HIDE DEF to
  <2>2. MayClose(p, exit)
    BY <1>2 DEF MayClose
  <2>3. /\ t \in TradeRecords
        /\ t.side = p.side /\ t.from = p.at /\ t.to = to /\ t.entry = p.entry /\ t.sl = p.sl
        /\ t.tp = p.tp /\ t.reason = exit.reason
        /\ t.pnl >= -(MaxStop + 2 * Slip + Fee)
    BY <2>1, <2>2, TradeFacts
  <2> QED
    BY <2>3 DEF to
<1> HIDE DEF new, n, at
<1>9. InRightOrder(t)
  BY <1>3, <1>7 DEF InRightOrder
<1>10. \A i \in (at + 1)..n : Oriented(new[i], p.side).l > p.sl /\ Oriented(new[i], p.side).h < p.tp[1]
  <2>1. \A i \in (at + 1)..n : i \in 1..n
    BY <1>1, <1>2
  <2> QED
    BY <1>1, <1>3, <2>1 DEF Untouched
<1>11. /\ Stopped(t, new) \cup Reached(t, new) \subseteq {n + 1}
       /\ Stopped(t, new) # {} <=> bar.l <= p.sl
       /\ Reached(t, new) # {} <=> bar.h >= p.tp[1]
  <2> DEFINE m == n + 1
  <2>1. /\ m \in Nat /\ at <= m /\ m <= Len(new) /\ at < m /\ bar = Oriented(new[m], p.side)
        /\ t.to = m /\ m - 1 = n
    BY <1>1, <1>2, <1>7
  <2>3. \A i \in (at + 1)..(m - 1) :
          Oriented(new[i], p.side).l > p.sl /\ Oriented(new[i], p.side).h < p.tp[1]
    BY <1>10, <2>1
  <2>4. QuietBefore(new, p, at, m)
    BY <1>2, <2>1, <2>3 DEF QuietBefore
  <2> HIDE DEF m
  <2>2. /\ Stopped(t, new) \cup Reached(t, new) \subseteq {m}
        /\ Stopped(t, new) # {} <=> at < m /\ bar.l <= p.sl
        /\ Reached(t, new) # {} <=> at < m /\ bar.h >= p.tp[1]
    BY <1>1, <1>7, <2>1, <2>4, BarsOfTrade
  <2> QED
    BY <2>1, <2>2 DEF m
<1>12. bar.l > p.sl <=> ~(bar.l <= p.sl)
  <2> DEFINE x == bar.l
             y == p.sl
  <2>1. x \in Int /\ y \in Int
    BY <1>2, <1>4
  <2> HIDE DEF x, y
  <2>2. x > y <=> ~(x <= y)
    BY <2>1
  <2> QED
    BY <2>2 DEF x, y
<1>13. day /\ SessionOf(at) # SessionOf(n + 1) =>
         IsSessionCloseBar(at) /\ SessionOf(n + 1) = SessionOf(at) + 1
  BY <1>1, <1>2, <1>3, SameSessionGrows
<1>14. at \in 1..Len(new) /\ n + 1 \in at..Len(new)
  BY <1>1, <1>2
<1>15. TradeOf(t, new, day)
  BY <1>7, <1>9, <1>11, <1>12, <1>13, <1>14 DEF TradeOf
<1> QED
  BY <1>7, <1>15 DEF new, n, at

\* A bar that touches nothing leaves the position open.
LEMMA HeldThrough ==
  ASSUME NEW bs \in Seq(ReplayShapes), NEW b \in ReplayShapes, NEW day,
         NEW p, PositionOf(p, bs, day), NEW bar, bar = Oriented(b, p.side),
         bar.l > p.sl, bar.h < p.tp[1], day => ~IsSessionCloseBar(Len(bs) + 1)
  PROVE  PositionOf(p, Append(bs, b), day)
<1> DEFINE new == Append(bs, b)
           n == Len(bs)
           at == p.at
<1>1. /\ Len(new) = n + 1 /\ n \in Nat /\ new[n + 1] = b /\ new \in Seq(ReplayShapes)
      /\ \A i \in 1..n : new[i] = bs[i]
  OBVIOUS
<1>2. /\ p.side \in {1, -1} /\ p.sl \in Int /\ at \in Nat /\ at >= 1 /\ at <= n
      /\ at >= WarmupBars + 1 /\ WarmupBars \in Nat
  BY PositionFacts
<1>3. /\ p \in Positions /\ InRightOrder(p) /\ Untouched(p, bs, at, n)
      /\ (day => SameSession(at, n))
  BY DEF PositionOf
<1>4. /\ p.side * b.c > p.sl
  <2> DEFINE c == p.side * b.c
  <2>1. bar.l \in Int /\ bar.c \in Int /\ bar.l <= bar.c /\ bar.c = c
    BY <1>2, OrientedFacts
  <2> HIDE DEF c
  <2>2. c > p.sl
    BY <1>2, <2>1
  <2> QED
    BY <2>2 DEF c
<1> HIDE DEF new, n, at
<1>5. Untouched(p, new, at, n + 1)
  <2>1. ASSUME NEW i \in (at + 1)..(n + 1)
        PROVE  Oriented(new[i], p.side).l > p.sl /\ Oriented(new[i], p.side).h < p.tp[1]
    <3>1. CASE i = n + 1
      BY <1>1, <3>1
    <3>2. CASE i # n + 1
      <4>1. i \in (at + 1)..n /\ i \in 1..n
        BY <1>1, <1>2, <3>2
      <4> QED
        BY <1>1, <1>3, <4>1 DEF Untouched
    <3> QED
      BY <3>1, <3>2
  <2>2. ASSUME NEW i \in at..(n + 1)
        PROVE  p.side * new[i].c > p.sl
    <3>1. CASE i = n + 1
      BY <1>1, <1>4, <3>1
    <3>2. CASE i # n + 1
      <4>1. i \in at..n /\ i \in 1..n
        BY <1>1, <1>2, <3>2
      <4> QED
        BY <1>1, <1>3, <4>1 DEF Untouched
    <3> QED
      BY <3>1, <3>2
  <2> QED
    BY <2>1, <2>2 DEF Untouched
<1>6. day => SameSession(at, n + 1)
  <2> SUFFICES ASSUME day PROVE SameSession(at, n + 1)
    OBVIOUS
  <2>1. SessionOf(n + 1) = SessionOf(at + 1) /\ ~IsSessionCloseBar(n + 1)
    BY <1>1, <1>2, <1>3, SameSessionGrows DEF n
  <2>2. \A i \in (at + 1)..(n + 1) : i = n + 1 \/ i \in (at + 1)..n
    BY <1>1, <1>2
  <2> QED
    BY <1>3, <2>1, <2>2 DEF SameSession
<1>7. at \in (WarmupBars + 1)..(n + 1)
  BY <1>1, <1>2
<1> QED
  BY <1>1, <1>3, <1>5, <1>6, <1>7 DEF PositionOf, new, n, at

\* So does the end of the bars.
LEMMA ClosedAtEnd ==
  ASSUME NEW bs \in Seq(ReplayShapes), Len(bs) = ReplayBars, NEW day,
         NEW p, PositionOf(p, bs, day),
         NEW t, t = Trade(p, ReplayBars, [reason |-> "SESSION_CLOSE", price |-> p.side * Last(bs).c])
  PROVE  /\ t \in TradeRecords /\ TradeOf(t, bs, day)
         /\ t.from = p.at /\ t.to = ReplayBars
<1> DEFINE n == Len(bs)
           at == p.at
           price == p.side * Last(bs).c
<1>1. /\ p.side \in {1, -1} /\ p.sl \in Int /\ p.entry \in Int /\ p.tp \in [1..3 -> Int]
      /\ p.tp[1] \in Int /\ p.source = "swing_zone"
      /\ p.sl >= p.entry - Slip - MaxStop
      /\ at \in Nat /\ at >= 1 /\ at <= n /\ n \in Nat
      /\ Slip \in Nat /\ MaxStop \in Nat /\ Fee \in Nat
  BY PositionFacts
<1>2. /\ InRightOrder(p) /\ Untouched(p, bs, at, n) /\ (day => SameSession(at, n))
  BY DEF PositionOf
<1>3. Last(bs) = bs[n] /\ bs[n] \in ReplayShapes /\ n \in at..n
  BY <1>1 DEF Last
<1>4. price \in Int /\ price > p.sl
  <2>1. price > p.sl
    BY <1>2, <1>3 DEF Untouched
  <2>2. price \in Int
    BY <1>1, <1>3, OrientedFacts
  <2> QED
    BY <2>1, <2>2
<1>7. /\ t \in TradeRecords
      /\ t.side = p.side /\ t.from = at /\ t.to = n /\ t.entry = p.entry /\ t.sl = p.sl
      /\ t.tp = p.tp /\ t.reason = "SESSION_CLOSE"
      /\ t.pnl >= -(MaxStop + 2 * Slip + Fee)
  <2> DEFINE exit == [reason |-> "SESSION_CLOSE", price |-> price]
             to == ReplayBars
  <2>1. exit.reason = "SESSION_CLOSE" /\ exit.price = price /\ t = Trade(p, to, exit)
    OBVIOUS
  <2> HIDE DEF exit, price
  <2>2. MayClose(p, exit)
    <3>1. exit.price \in Int /\ exit.price >= p.sl - Slip /\ exit.reason \in TradeReasons
      BY <1>1, <1>4, <2>1 DEF TradeReasons
    <3> QED
      BY <1>1, <3>1 DEF MayClose
  <2>4. to \in Nat
    BY <1>1
  <2> HIDE DEF to
  <2>3. /\ t \in TradeRecords
        /\ t.side = p.side /\ t.from = p.at /\ t.to = to /\ t.entry = p.entry /\ t.sl = p.sl
        /\ t.tp = p.tp /\ t.reason = exit.reason
        /\ t.pnl >= -(MaxStop + 2 * Slip + Fee)
    BY <2>1, <2>2, <2>4, TradeFacts
  <2> QED
    BY <2>1, <2>3 DEF to
<1> HIDE DEF price, n, at
<1>9. InRightOrder(t)
  BY <1>2, <1>7 DEF InRightOrder
<1>10. Stopped(t, bs) = {} /\ Reached(t, bs) = {}
  <2>1. \A i \in (at + 1)..n :
          ~(Oriented(bs[i], p.side).l <= p.sl) /\ ~(Oriented(bs[i], p.side).h >= p.tp[1])
    <3> TAKE i \in (at + 1)..n
    <3> DEFINE o == Oriented(bs[i], p.side)
    <3>1. o.l > p.sl /\ o.h < p.tp[1] /\ bs[i] \in ReplayShapes
      BY <1>1, <1>2 DEF Untouched, n
    <3>2. o.l \in Int /\ o.h \in Int
      BY <1>1, <3>1, OrientedFacts
    <3> HIDE DEF o
    <3>3. ~(o.l <= p.sl) /\ ~(o.h >= p.tp[1])
      BY <1>1, <3>1, <3>2
    <3> QED
      BY <3>3 DEF o
  <2> QED
    BY <1>7, <2>1 DEF Stopped, Reached
<1>11. day => at = n
  <2> SUFFICES ASSUME day, at # n PROVE FALSE
    OBVIOUS
  <2>1. n \in (at + 1)..n
    BY <1>1
  <2>2. ~IsSessionCloseBar(n)
    BY <1>2, <2>1 DEF SameSession
  <2> QED
    BY <2>2 DEF IsSessionCloseBar, n
<1>12. at \in 1..n /\ n \in at..n
  BY <1>1
<1>13. TradeOf(t, bs, day)
  BY <1>7, <1>9, <1>10, <1>11, <1>12 DEF TradeOf, n
<1> QED
  BY <1>7, <1>13 DEF n, at

-----------------------------------------------------------------------------
(* The bars that positions were held through. *)

HeldOf(ts) == MapThenSumSet(LAMBDA i : ts[i].to - ts[i].from, DOMAIN ts)

BarsHeld(ts) == [i \in DOMAIN ts |-> ts[i].to - ts[i].from]

LEMMA HeldIsSum ==
  ASSUME NEW ts \in Seq(TradeRecords)
  PROVE  /\ HeldOf(ts) = SumOf(BarsHeld(ts), DOMAIN ts)
         /\ BarsHeld(ts) \in [DOMAIN ts -> Int] /\ IsFiniteSet(DOMAIN ts)
<1> DEFINE f == BarsHeld(ts)
           S == DOMAIN ts
           Recur(it) == [u \in SUBSET S |-> IF u = {} THEN 0
                           ELSE (LET m == CHOOSE m \in u : TRUE
                                 IN  (ts[m].to - ts[m].from) + it[u \ {m}])]
           iter == CHOOSE it : it = Recur(it)
<1>1. HeldOf(ts) = iter[S]
  BY DEF HeldOf, MapThenSumSet, MapThenFoldSet
<1>2. f \in [S -> Int] /\ S \in SUBSET S /\ IsFiniteSet(S)
  <2>1. Len(ts) \in Nat /\ S = 1..Len(ts)
    OBVIOUS
  <2>2. IsFiniteSet(S)
    BY <2>1, FS_Interval
  <2>3. \A i \in S : ts[i] \in TradeRecords
    BY <2>1
  <2>4. \A i \in S : ts[i].to - ts[i].from \in Int
    BY <2>3 DEF TradeRecords
  <2> QED
    BY <2>2, <2>4 DEF BarsHeld
<1>3. \A it : IsSum(it, f, S) <=> it = Recur(it)
  <2> SUFFICES ASSUME NEW it
               PROVE  Recur(it) = [u \in SUBSET S |->
                                     IF u = {} THEN 0 ELSE f[Pick(u)] + it[u \ {Pick(u)}]]
    BY DEF IsSum
  <2>1. \A u \in SUBSET S : u # {} => (CHOOSE m \in u : TRUE) \in DOMAIN ts
    OBVIOUS
  <2> QED
    BY <2>1 DEF Pick, BarsHeld
<1> HIDE DEF Recur, f, S
<1>4. \E it : it = Recur(it)
  BY <1>2, <1>3, SumExists
<1>5. IsSum(iter, f, S)
  BY <1>3, <1>4
<1> HIDE DEF iter
<1>6. iter[S] = SumOf(f, S)
  BY <1>2, <1>5, SumOfSubset
<1> QED
  BY <1>1, <1>2, <1>6 DEF f, S

LEMMA HeldGrows ==
  ASSUME NEW ts \in Seq(TradeRecords), NEW t \in TradeRecords
  PROVE  HeldOf(ts) \in Int /\ HeldOf(Append(ts, t)) = HeldOf(ts) + (t.to - t.from)
<1> DEFINE new == Append(ts, t)
           n == Len(ts)
           f == BarsHeld(ts)
           g == BarsHeld(new)
<1>1. /\ new \in Seq(TradeRecords) /\ Len(new) = n + 1 /\ n \in Nat /\ new[n + 1] = t
      /\ \A i \in 1..n : new[i] = ts[i]
      /\ DOMAIN ts = 1..n /\ DOMAIN new = 1..(n + 1)
  OBVIOUS
<1> HIDE DEF new
<1>2. /\ HeldOf(ts) = SumOf(f, 1..n) /\ f \in [1..n -> Int] /\ IsFiniteSet(1..n)
  BY <1>1, HeldIsSum
<1>3. /\ HeldOf(new) = SumOf(g, 1..(n + 1)) /\ g \in [1..(n + 1) -> Int] /\ IsFiniteSet(1..(n + 1))
  BY <1>1, HeldIsSum
<1>4. /\ g[n + 1] = t.to - t.from /\ \A i \in 1..n : g[i] = f[i]
  BY <1>1 DEF BarsHeld
<1>5. /\ n + 1 \in 1..(n + 1) /\ (1..(n + 1)) \ {n + 1} = 1..n
      /\ 1..n \in SUBSET ((1..(n + 1)) \cap (1..n)) /\ 1..n \in SUBSET (1..n)
      /\ 1..(n + 1) \in SUBSET (1..(n + 1))
  BY <1>1
<1> HIDE DEF f, g, n
<1>6. SumOf(g, 1..(n + 1)) = g[n + 1] + SumOf(g, (1..(n + 1)) \ {n + 1})
  BY <1>3, <1>5, SumFacts
<1>7. SumOf(g, 1..n) = SumOf(f, 1..n)
  <2> DEFINE D == 1..(n + 1)
             C == 1..n
  <2>1. /\ g \in [D -> Int] /\ f \in [C -> Int] /\ C \in SUBSET (D \cap C) /\ IsFiniteSet(C)
        /\ \A x \in C : g[x] = f[x]
    BY <1>2, <1>3, <1>4, <1>5
  <2> HIDE DEF D, C
  <2>2. SumOf(g, C) = SumOf(f, C)
    BY <2>1, SumSame
  <2> QED
    BY <2>2 DEF C
<1>8. SumOf(f, 1..n) \in Int
  BY <1>2, <1>5, SumFacts
<1>9. g[n + 1] \in Int
  BY <1>3, <1>5
<1> DEFINE d == t.to - t.from
           before == HeldOf(ts)
           after == HeldOf(new)
<1>10. /\ before \in Int /\ d \in Int /\ after = d + before
  BY <1>2, <1>3, <1>4, <1>5, <1>6, <1>7, <1>8, <1>9
<1> HIDE DEF d, before, after
<1>11. before \in Int /\ after = before + d
  BY <1>10
<1> QED
  BY <1>11 DEF d, before, after, new

LEMMA HeldType ==
  ASSUME NEW ts \in Seq(TradeRecords)
  PROVE  HeldOf(ts) \in Int
<1> DEFINE f == BarsHeld(ts)
           S == DOMAIN ts
<1>1. HeldOf(ts) = SumOf(f, S) /\ f \in [S -> Int] /\ IsFiniteSet(S) /\ S \in SUBSET S
  BY HeldIsSum
<1> HIDE DEF f, S
<1> QED
  BY <1>1, SumFacts

LEMMA HeldNothing == HeldOf(<<>>) = 0
<1>1. <<>> \in Seq(TradeRecords) /\ DOMAIN <<>> = {}
  OBVIOUS
<1> DEFINE e == <<>>
<1>2. e \in Seq(TradeRecords) /\ DOMAIN e = {}
  BY <1>1
<1> HIDE DEF e
<1>3. HeldOf(e) = SumOf(BarsHeld(e), {}) /\ BarsHeld(e) \in [{} -> Int] /\ IsFiniteSet({})
  BY <1>2, HeldIsSum
<1>4. SumOf(BarsHeld(e), {}) = 0
  BY <1>3, SumFacts
<1> QED
  BY <1>3, <1>4 DEF e

-----------------------------------------------------------------------------
(* The account of the bars. *)

Accounted(d, held, open) ==
  d["bars_evaluated"] =
    d["no_bias"] + d["low_quality"] + d["no_trigger"]
      + d["candle_not_confirmed"] + d["armed_setups"] + held + open

HeldOpen == IF position = NoPosition THEN 0 ELSE Len(tape) - position.at

LEMMA HeldMeans == Held = HeldOf(trades) /\ Held' = HeldOf(trades')
<1>1. Held = HeldOf(trades)
  BY DEF Held, HeldOf
<1>2. Held' = HeldOf(trades')
  BY DEF Held, HeldOf, MapThenSumSet, MapThenFoldSet
<1> QED
  BY <1>1, <1>2

LEMMA AccountMeans ==
  /\ BarsAccounted <=> Accounted(diag, HeldOf(trades), HeldOpen)
  /\ BarsAccounted' <=> Accounted(diag', HeldOf(trades'), HeldOpen')
<1>1. BarsAccounted <=> Accounted(diag, HeldOf(trades), HeldOpen)
  BY HeldMeans DEF BarsAccounted, Accounted, HeldOpen
<1>2. BarsAccounted' <=> Accounted(diag', HeldOf(trades'), HeldOpen')
  BY HeldMeans DEF BarsAccounted, Accounted, HeldOpen
<1> QED
  BY <1>1, <1>2

\* The counters after a bar in a bucket, and after a bar that is held.
InBucket(d, e, bucket) == e = [d EXCEPT ![bucket] = @ + 1, !["bars_evaluated"] = @ + Evaluated]

AsHeld(d, e) == e = [d EXCEPT !["bars_evaluated"] = @ + Evaluated]

LEMMA BucketGrows ==
  ASSUME NEW d \in [AllDiag -> Nat], NEW held \in Int, NEW open \in Int,
         Accounted(d, held, open), NEW bucket \in Buckets,
         NEW e, InBucket(d, e, bucket)
  PROVE  /\ e \in [AllDiag -> Nat] /\ \A x \in AllDiag : e[x] <= d[x] + 1
         /\ Accounted(e, held, open)
         /\ bucket # "armed_setups" => e["armed_setups"] = d["armed_setups"]
<1>1. /\ AllDiag = {"no_bias", "low_quality", "no_trigger", "candle_not_confirmed",
                    "armed_setups", "bars_evaluated"}
      /\ Buckets = {"no_bias", "low_quality", "no_trigger", "candle_not_confirmed",
                    "armed_setups"}
  BY DEF AllDiag, Buckets
<1> DEFINE a == d["no_bias"]
           b == d["low_quality"]
           c == d["no_trigger"]
           f == d["candle_not_confirmed"]
           g == d["armed_setups"]
           n == d["bars_evaluated"]
<1>2. a \in Nat /\ b \in Nat /\ c \in Nat /\ f \in Nat /\ g \in Nat /\ n \in Nat
  BY <1>1
<1>3. n = a + b + c + f + g + held + open
  BY DEF Accounted
<1>4. \A x \in AllDiag : e[x] = IF x = bucket \/ x = "bars_evaluated" THEN d[x] + 1 ELSE d[x]
  BY <1>1 DEF Evaluated, InBucket, AsHeld
<1>5. e \in [AllDiag -> Nat] /\ \A x \in AllDiag : e[x] <= d[x] + 1
  <2>1. DOMAIN e = AllDiag /\ e = [x \in AllDiag |-> e[x]]
    BY DEF InBucket, AsHeld
  <2>2. \A x \in AllDiag : d[x] \in Nat
    OBVIOUS
  <2>3. \A x \in AllDiag : e[x] \in Nat /\ e[x] <= d[x] + 1
    BY <1>4, <2>2
  <2> QED
    BY <2>1, <2>3
<1>6. /\ e["no_bias"] = IF bucket = "no_bias" THEN a + 1 ELSE a
      /\ e["low_quality"] = IF bucket = "low_quality" THEN b + 1 ELSE b
      /\ e["no_trigger"] = IF bucket = "no_trigger" THEN c + 1 ELSE c
      /\ e["candle_not_confirmed"] = IF bucket = "candle_not_confirmed" THEN f + 1 ELSE f
      /\ e["armed_setups"] = IF bucket = "armed_setups" THEN g + 1 ELSE g
      /\ e["bars_evaluated"] = n + 1
  BY <1>1, <1>4
<1> HIDE DEF a, b, c, f, g, n
<1>7. Accounted(e, held, open)
  BY <1>1, <1>2, <1>3, <1>6 DEF Accounted
<1> QED
  BY <1>5, <1>6, <1>7 DEF g

\* A bar that is held.
LEMMA HeldBarGrows ==
  ASSUME NEW d \in [AllDiag -> Nat], NEW held \in Int, NEW open \in Int,
         Accounted(d, held, open),
         NEW e, AsHeld(d, e)
  PROVE  /\ e \in [AllDiag -> Nat] /\ \A x \in AllDiag : e[x] <= d[x] + 1
         /\ \A h \in Int, o \in Int : h + o = held + open + 1 => Accounted(e, h, o)
         /\ e["armed_setups"] = d["armed_setups"]
<1>1. /\ AllDiag = {"no_bias", "low_quality", "no_trigger", "candle_not_confirmed",
                    "armed_setups", "bars_evaluated"}
      /\ Buckets = {"no_bias", "low_quality", "no_trigger", "candle_not_confirmed",
                    "armed_setups"}
  BY DEF AllDiag, Buckets
<1> DEFINE a == d["no_bias"]
           b == d["low_quality"]
           c == d["no_trigger"]
           f == d["candle_not_confirmed"]
           g == d["armed_setups"]
           n == d["bars_evaluated"]
<1>2. a \in Nat /\ b \in Nat /\ c \in Nat /\ f \in Nat /\ g \in Nat /\ n \in Nat
  BY <1>1
<1>3. n = a + b + c + f + g + held + open
  BY DEF Accounted
<1>4. \A x \in AllDiag : e[x] = IF x = "bars_evaluated" THEN d[x] + 1 ELSE d[x]
  BY <1>1 DEF Evaluated, InBucket, AsHeld
<1>5. e \in [AllDiag -> Nat] /\ \A x \in AllDiag : e[x] <= d[x] + 1
  <2>1. DOMAIN e = AllDiag /\ e = [x \in AllDiag |-> e[x]]
    BY DEF InBucket, AsHeld
  <2>2. \A x \in AllDiag : d[x] \in Nat
    OBVIOUS
  <2>3. \A x \in AllDiag : e[x] \in Nat /\ e[x] <= d[x] + 1
    BY <1>4, <2>2
  <2> QED
    BY <2>1, <2>3
<1>6. /\ e["no_bias"] = a /\ e["low_quality"] = b /\ e["no_trigger"] = c
      /\ e["candle_not_confirmed"] = f /\ e["armed_setups"] = g /\ e["bars_evaluated"] = n + 1
  BY <1>1, <1>4
<1> HIDE DEF a, b, c, f, g, n
<1>7. ASSUME NEW h \in Int, NEW o \in Int, h + o = held + open + 1
      PROVE  Accounted(e, h, o)
  <2>1. n + 1 = a + b + c + f + g + h + o
    BY <1>2, <1>3, <1>7
  <2> QED
    BY <1>6, <2>1 DEF Accounted
<1> QED
  BY <1>5, <1>6, <1>7 DEF g

-----------------------------------------------------------------------------
(* The steps of the replay. *)

\* A bar is added to the tape.
LEMMA TapeGrows ==
  ASSUME ReplayIInv, NextBar
  PROVE  \E b \in ReplayShapes :
           /\ tape' = Append(tape, b) /\ Last(tape') = b
           /\ tape \in Seq(ReplayShapes) /\ tape' \in Seq(ReplayShapes)
           /\ Len(tape') = Len(tape) + 1 /\ Len(tape) \in Nat /\ Len(tape') <= ReplayBars
           /\ ComputeSmcGeometry(tape').swing \in AnySwings
           /\ trades \in Seq(TradeRecords)
           /\ \A i \in DOMAIN trades : /\ trades[i] \in TradeRecords
                                       /\ TradeOf(trades[i], tape', config.intraday)
<1>1. PICK b \in ReplayShapes : tape' = Append(tape, b)
  BY DEF NextBar
<1>2. /\ tape \in Seq(ReplayShapes) /\ trades \in Seq(TradeRecords)
      /\ ComputeSmcGeometry(tape).swing \in AnySwings
  BY DEF ReplayIInv, ReplayTyped
<1>3. /\ tape' \in Seq(ReplayShapes) /\ Len(tape') = Len(tape) + 1 /\ Len(tape) \in Nat
      /\ tape'[Len(tape) + 1] = b
  BY <1>1, <1>2
<1>4. Last(tape') = b
  BY <1>3 DEF Last
<1>5. Len(tape') <= ReplayBars
  <2>1. ReplayBars \in Nat /\ Len(tape) < ReplayBars
    BY ReplayAssumption DEF NextBar
  <2> QED
    BY <1>3, <2>1
<1>6. ComputeSmcGeometry(tape').swing \in AnySwings
  BY <1>1, <1>2, GeometryTyped
<1>7. \A i \in DOMAIN trades : trades[i] \in TradeRecords
  BY <1>2
<1>8. \A i \in DOMAIN trades : TradeOf(trades[i], tape', config.intraday)
  <2> TAKE i \in DOMAIN trades
  <2> DEFINE t == trades[i]
             day == config.intraday
  <2>1. t \in TradeRecords /\ TradeOf(t, tape, day)
    BY <1>7 DEF ReplayIInv
  <2> HIDE DEF t, day
  <2>2. TradeOf(t, Append(tape, b), day)
    BY <1>2, <2>1, TradeStays
  <2> QED
    BY <1>1, <2>2 DEF t, day
<1> QED
  BY <1>1, <1>2, <1>3, <1>4, <1>5, <1>6, <1>7, <1>8

\* The types of the next state, with what a bar may add to the counters.
LEMMA TypedNext ==
  ASSUME ReplayIInv, config' = config, tape' \in Seq(ReplayShapes), Len(tape') <= ReplayBars,
         Len(tape) \in Nat, Len(tape') = Len(tape) + 1, trades' \in Seq(TradeRecords),
         ComputeSmcGeometry(tape').swing \in AnySwings,
         diag' \in [AllDiag -> Nat], \A x \in AllDiag : diag'[x] <= diag[x] + 1
  PROVE  ReplayTyped'
<1>1. config \in Configs /\ diag \in [AllDiag -> Nat] /\ \A x \in AllDiag : diag[x] <= Len(tape)
  BY DEF ReplayIInv, ReplayTyped
<1>2. \A x \in AllDiag : diag'[x] <= Len(tape')
  <2> TAKE x \in AllDiag
  <2>1. diag[x] \in Nat /\ diag'[x] \in Nat /\ diag[x] <= Len(tape) /\ diag'[x] <= diag[x] + 1
    BY <1>1
  <2> QED
    BY <2>1
<1> QED
  BY <1>1, <1>2 DEF ReplayTyped

LEMMA WarmUpKeeps == ReplayIInv /\ WarmUp => ReplayIInv'
<1> SUFFICES ASSUME ReplayIInv, WarmUp PROVE ReplayIInv'
  OBVIOUS
<1>0. /\ NextBar /\ Len(tape) < WarmupBars
      /\ config' = config /\ position' = position /\ trades' = trades /\ diag' = diag
  BY DEF WarmUp
<1>1. PICK b \in ReplayShapes :
        /\ tape' = Append(tape, b)
        /\ tape \in Seq(ReplayShapes) /\ tape' \in Seq(ReplayShapes)
        /\ Len(tape') = Len(tape) + 1 /\ Len(tape) \in Nat /\ Len(tape') <= ReplayBars
        /\ ComputeSmcGeometry(tape').swing \in AnySwings
        /\ trades \in Seq(TradeRecords)
        /\ \A i \in DOMAIN trades : TradeOf(trades[i], tape', config.intraday)
  BY <1>0, TapeGrows
<1>2. position = NoPosition
  <2> SUFFICES ASSUME position # NoPosition PROVE FALSE
    OBVIOUS
  <2>1. position.at >= WarmupBars + 1 /\ position.at <= Len(tape) /\ position.at \in Nat
        /\ WarmupBars \in Nat
    BY <1>1, PositionFacts DEF ReplayIInv
  <2> QED
    BY <1>0, <1>1, <2>1
<1>3. diag \in [AllDiag -> Nat] /\ \A x \in AllDiag : diag[x] <= diag[x] + 1
  <2>1. diag \in [AllDiag -> Nat]
    BY DEF ReplayIInv, ReplayTyped
  <2>2. \A x \in AllDiag : diag[x] \in Nat
    BY <2>1
  <2> QED
    BY <2>1, <2>2
<1>4. ReplayTyped'
  BY <1>0, <1>1, <1>3, TypedNext
<1>5. TradesDisjoint' /\ BarsAccounted'
  <2>1. TradesDisjoint'
    BY <1>0, <1>2 DEF ReplayIInv, TradesDisjoint
  <2>2. HeldOpen = 0 /\ HeldOpen' = 0
    BY <1>0, <1>2 DEF HeldOpen
  <2>3. Accounted(diag', HeldOf(trades'), HeldOpen')
    BY <1>0, <2>2, AccountMeans DEF ReplayIInv
  <2> QED
    BY <2>1, <2>3, AccountMeans
<1>6. position' = NoPosition
  BY <1>0, <1>2
<1>7. /\ \A i \in DOMAIN trades' : TradeOf(trades'[i], tape', config'.intraday)
      /\ config'.mode \in {"fast_range", "trendline"} => diag'["armed_setups"] = 0
  BY <1>0, <1>1 DEF ReplayIInv
<1> QED
  BY <1>4, <1>5, <1>6, <1>7 DEF ReplayIInv

\* A bias is a direction or none, and a bar is in one bucket.
LEMMA CombinedFacts ==
  ASSUME NEW score \in Scores
  PROVE  /\ Combined(score.bull) \in Nat /\ Combined(score.bear) \in Nat
         /\ MinEdge \in Nat /\ MinEdge > 0 /\ MinQuality \in Nat
<1> DEFINE a == score.bull
           b == score.bear
<1>1. a \in Nat /\ b \in Nat /\ MinEdge \in Nat /\ MinEdge > 0 /\ MinQuality \in Nat
  <2>1. score \in [bull : 0..7, bear : 0..7]
    BY ReplayAssumption
  <2>2. MinEdge \in Nat \ {0} /\ MinQuality \in 0..7
    BY ReplayAssumption
  <2> QED
    BY <2>1, <2>2
<1> HIDE DEF a, b
<1>2. Combined(a) \in Nat /\ Combined(b) \in Nat
  BY <1>1 DEF Combined
<1> QED
  BY <1>1, <1>2 DEF a, b

LEMMA BiasFacts ==
  ASSUME NEW score \in Scores
  PROVE  Bias(score) \in {1, -1, 0}
<1> DEFINE edge == Combined(score.bull) - Combined(score.bear)
<1>1. edge \in Int /\ MinEdge \in Nat /\ MinEdge > 0
  BY CombinedFacts
<1>2. Bias(score) = CASE edge >= MinEdge -> 1 [] -edge >= MinEdge -> -1 [] OTHER -> 0
  BY DEF Bias
<1> HIDE DEF edge
<1>3. CASE edge >= MinEdge
  <2>1. ~(-edge >= MinEdge)
    BY <1>1, <1>3
  <2> QED
    BY <1>2, <1>3, <2>1
<1>4. CASE ~(edge >= MinEdge)
  BY <1>2, <1>4
<1> QED
  BY <1>3, <1>4

LEMMA BucketFacts ==
  ASSUME NEW score \in Scores, NEW bias \in {1, -1, 0}, NEW found, NEW b,
         NEW bucket, bucket = BucketOf(score, bias, found, b)
  PROVE  /\ bucket \in Buckets
         /\ bucket = "armed_setups" =>
              bias # 0 /\ \E t \in found : Confirms(Oriented(Last(b), bias), t.price)
<1> DEFINE quality == Combined(IF bias = 1 THEN score.bull ELSE score.bear)
           yes == \E t \in found : Confirms(Oriented(Last(b), bias), t.price)
<1>1. quality \in Nat /\ MinQuality \in Nat
  BY CombinedFacts
<1>2. bucket = CASE bias = 0 -> "no_bias"
                 [] bias # 0 /\ quality < MinQuality -> "low_quality"
                 [] bias # 0 /\ quality >= MinQuality /\ found = {} -> "no_trigger"
                 [] bias # 0 /\ quality >= MinQuality /\ found # {} ->
                      IF yes THEN "armed_setups" ELSE "candle_not_confirmed"
  BY DEF BucketOf
<1> HIDE DEF quality, yes
<1>3. quality < MinQuality <=> ~(quality >= MinQuality)
  BY <1>1
<1>4. CASE bias = 0
  BY <1>2, <1>4 DEF Buckets
<1>5. CASE bias # 0 /\ quality < MinQuality
  BY <1>2, <1>3, <1>5 DEF Buckets
<1>6. CASE bias # 0 /\ ~(quality < MinQuality) /\ found = {}
  BY <1>2, <1>3, <1>6 DEF Buckets
<1>7. CASE bias # 0 /\ ~(quality < MinQuality) /\ found # {}
  <2>1. bucket = IF yes THEN "armed_setups" ELSE "candle_not_confirmed"
    BY <1>2, <1>3, <1>7
  <2> QED
    BY <1>7, <2>1 DEF Buckets, yes
<1> QED
  BY <1>4, <1>5, <1>6, <1>7

\* What a decision leaves: one bucket grows, and a position is as it is opened.
LEMMA DecideFacts ==
  ASSUME ReplayIInv, NextBar, Decide, Len(tape) >= WarmupBars
  PROVE  /\ position' # NoPosition =>
              PositionOf(position', tape', config.intraday) /\ position'.at = Len(tape')
         /\ \E bucket \in Buckets :
              /\ diag' = [diag EXCEPT ![bucket] = @ + 1, !["bars_evaluated"] = @ + Evaluated]
              /\ config.mode \in {"fast_range", "trendline"} => bucket # "armed_setups"
<1>1. PICK b \in ReplayShapes :
        /\ tape' \in Seq(ReplayShapes) /\ Len(tape') = Len(tape) + 1 /\ Len(tape) \in Nat
        /\ ComputeSmcGeometry(tape').swing \in AnySwings
  BY TapeGrows
<1> DEFINE new == tape'
<1>2. PICK g \in {ComputeSmcGeometry(tape').swing}, score \in Scores, line \in Lines :
        LET bias == Bias(score)
            found == IF bias = 0 THEN {} ELSE Trigger(new, g, line, bias)
            bucket == BucketOf(score, bias, found, new)
            entry == bias * Last(new).c
        IN  /\ diag' = [diag EXCEPT ![bucket] = @ + 1, !["bars_evaluated"] = @ + Evaluated]
            /\ IF /\ bucket = "armed_setups"
                  /\ SideAllowed(bias)
                  /\ HasRisk(Stop(g, entry, bias), entry)
               THEN \E t \in found : position' = Position(g, bias, t.source, new)
               ELSE position' = NoPosition
  BY DEF Decide
<1> DEFINE bias == Bias(score)
           found == IF bias = 0 THEN {} ELSE Trigger(new, g, line, bias)
           bucket == BucketOf(score, bias, found, new)
           entry == bias * Last(new).c
<1>3. /\ diag' = [diag EXCEPT ![bucket] = @ + 1, !["bars_evaluated"] = @ + Evaluated]
      /\ position' # NoPosition =>
           /\ bucket = "armed_setups" /\ HasRisk(Stop(g, entry, bias), entry)
           /\ \E t \in found : position' = Position(g, bias, t.source, new)
  BY <1>2
<1>4. /\ new \in Seq(ReplayShapes) /\ g \in AnySwings /\ Len(new) > WarmupBars /\ Len(new) >= 1
      /\ Len(new) \in Nat
  <2>1. WarmupBars \in Nat
    BY ReplayAssumption
  <2> QED
    BY <1>1, <2>1
<1> HIDE DEF new
<1>5. bias \in {1, -1, 0}
  BY BiasFacts
<1> HIDE DEF bias
<1>6. /\ bucket \in Buckets
      /\ bucket = "armed_setups" =>
           bias # 0 /\ \E t \in found : Confirms(Oriented(Last(new), bias), t.price)
  <2> HIDE DEF found
  <2> QED
    BY <1>5, BucketFacts
<1> HIDE DEF bucket
<1>7. CASE bucket = "armed_setups"
  <2>1. bias \in {1, -1} /\ found = Trigger(new, g, line, bias)
    BY <1>5, <1>6, <1>7
  <2> HIDE DEF found
  <2>2. PICK u \in found : Confirms(Oriented(Last(new), bias), u.price)
    BY <1>6, <1>7
  <2>3. u.source = "swing_zone" /\ \A t \in found : t = u
    BY <1>4, <2>1, <2>2, TriggerFacts
  <2>4. config.mode \in {"swing_zone", "hybrid"}
    BY <2>1, <2>3, CandidatesAre
  <2>5. ASSUME position' # NoPosition
        PROVE  PositionOf(position', new, config.intraday) /\ position'.at = Len(new)
    <3>1. PICK t \in found : position' = Position(g, bias, t.source, new)
      BY <1>3, <2>5
    <3>2. t.source = "swing_zone"
      BY <2>3
    <3>3. position' = Position(g, bias, "swing_zone", new)
      BY <3>1, <3>2
    <3>4. HasRisk(Stop(g, entry, bias), entry)
      BY <1>3, <2>5
    <3> DEFINE p == position'
               day == config.intraday
    <3> HIDE DEF p, day, entry
    <3>5. p = Position(g, bias, "swing_zone", new)
      BY <3>3 DEF p
    <3>6. entry = bias * Last(new).c
      BY DEF entry
    <3>7. PositionOf(p, new, day)
      BY <1>4, <2>1, <3>4, <3>5, <3>6, OpenedPosition
    <3>8. p.at = Len(new)
      BY <3>5 DEF Position
    <3> QED
      BY <3>7, <3>8 DEF p, day
  <2> QED
    BY <1>3, <1>6, <2>4, <2>5 DEF new
<1>8. CASE bucket # "armed_setups"
  BY <1>3, <1>6, <1>8
<1> QED
  BY <1>7, <1>8

LEMMA DecideKeeps == ReplayIInv /\ DecideSetup => ReplayIInv'
<1> SUFFICES ASSUME ReplayIInv, DecideSetup PROVE ReplayIInv'
  OBVIOUS
<1>0. /\ NextBar /\ Decide /\ Len(tape) >= WarmupBars /\ position = NoPosition
      /\ config' = config /\ trades' = trades
  BY DEF DecideSetup
<1>1. PICK b \in ReplayShapes :
        /\ tape' \in Seq(ReplayShapes)
        /\ Len(tape') = Len(tape) + 1 /\ Len(tape) \in Nat /\ Len(tape') <= ReplayBars
        /\ ComputeSmcGeometry(tape').swing \in AnySwings
        /\ trades \in Seq(TradeRecords)
        /\ \A i \in DOMAIN trades : /\ trades[i] \in TradeRecords
                                    /\ TradeOf(trades[i], tape', config.intraday)
  BY <1>0, TapeGrows
<1>2. position' # NoPosition =>
        PositionOf(position', tape', config.intraday) /\ position'.at = Len(tape')
  BY <1>0, DecideFacts
<1>3. PICK bucket \in Buckets :
        /\ diag' = [diag EXCEPT ![bucket] = @ + 1, !["bars_evaluated"] = @ + Evaluated]
        /\ config.mode \in {"fast_range", "trendline"} => bucket # "armed_setups"
  BY <1>0, DecideFacts
<1>4. diag \in [AllDiag -> Nat] /\ Accounted(diag, HeldOf(trades), 0) /\ HeldOf(trades) \in Int
  <2>1. diag \in [AllDiag -> Nat] /\ BarsAccounted /\ trades \in Seq(TradeRecords)
    BY DEF ReplayIInv, ReplayTyped
  <2>2. HeldOpen = 0
    BY <1>0 DEF HeldOpen
  <2>3. HeldOf(trades) \in Int
    BY <2>1, HeldType
  <2> QED
    BY <2>1, <2>2, <2>3, AccountMeans
<1>5. /\ diag' \in [AllDiag -> Nat] /\ \A x \in AllDiag : diag'[x] <= diag[x] + 1
      /\ Accounted(diag', HeldOf(trades), 0)
      /\ bucket # "armed_setups" => diag'["armed_setups"] = diag["armed_setups"]
  <2> DEFINE d == diag
             e == diag'
             held == HeldOf(trades)
  <2>1. d \in [AllDiag -> Nat] /\ Accounted(d, held, 0) /\ held \in Int /\ 0 \in Int
        /\ InBucket(d, e, bucket)
    BY <1>3, <1>4 DEF InBucket
  <2> HIDE DEF d, e, held
  <2>2. /\ e \in [AllDiag -> Nat] /\ \A x \in AllDiag : e[x] <= d[x] + 1
        /\ Accounted(e, held, 0)
        /\ bucket # "armed_setups" => e["armed_setups"] = d["armed_setups"]
    BY <2>1, BucketGrows
  <2> QED
    BY <2>2 DEF d, e, held
<1>6. ReplayTyped'
  BY <1>0, <1>1, <1>5, TypedNext
<1>7. BarsAccounted'
  <2>1. HeldOpen' = 0
    <3>1. position' # NoPosition => Len(tape') - position'.at = 0
      BY <1>1, <1>2
    <3> QED
      BY <3>1 DEF HeldOpen
  <2> QED
    BY <1>0, <1>5, <2>1, AccountMeans
<1>8. TradesDisjoint'
  <2>1. \A i, j \in DOMAIN trades : i < j => trades[i].to < trades[j].from
    BY DEF ReplayIInv, TradesDisjoint
  <2>2. position' # NoPosition => \A i \in DOMAIN trades : trades[i].to < position'.at
    <3> SUFFICES ASSUME position' # NoPosition, NEW i \in DOMAIN trades
                 PROVE  trades[i].to < position'.at
      OBVIOUS
    <3>1. position'.at = Len(tape) + 1
      BY <1>1, <1>2
    <3>2. trades[i].from \in 1..Len(tape) /\ trades[i].to \in trades[i].from..Len(tape)
      BY DEF ReplayIInv, TradeOf
    <3> QED
      BY <1>1, <3>1, <3>2
  <2> QED
    BY <1>0, <2>1, <2>2 DEF TradesDisjoint
<1>9. config'.mode \in {"fast_range", "trendline"} => diag'["armed_setups"] = 0
  BY <1>0, <1>3, <1>5 DEF ReplayIInv
<1>10. \A i \in DOMAIN trades' : TradeOf(trades'[i], tape', config'.intraday)
  BY <1>0, <1>1
<1> QED
  BY <1>0, <1>2, <1>6, <1>7, <1>8, <1>9, <1>10 DEF ReplayIInv

\* One more trade, after all the others.
LEMMA AddTrade ==
  ASSUME NEW ts \in Seq(TradeRecords), NEW bs, NEW day,
         \A i \in DOMAIN ts : TradeOf(ts[i], bs, day),
         \A i, j \in DOMAIN ts : i < j => ts[i].to < ts[j].from,
         NEW t \in TradeRecords, TradeOf(t, bs, day),
         \A i \in DOMAIN ts : ts[i].to < t.from,
         NEW new, new = Append(ts, t)
  PROVE  /\ new \in Seq(TradeRecords)
         /\ \A i \in DOMAIN new : TradeOf(new[i], bs, day)
         /\ \A i, j \in DOMAIN new : i < j => new[i].to < new[j].from
<1> DEFINE n == Len(ts)
<1>1. /\ new \in Seq(TradeRecords) /\ n \in Nat /\ new[n + 1] = t
      /\ \A i \in 1..n : new[i] = ts[i]
      /\ DOMAIN ts = 1..n /\ DOMAIN new = 1..(n + 1)
  OBVIOUS
<1> HIDE DEF n
<1>2. \A i \in 1..(n + 1) : i = n + 1 \/ i \in 1..n
  BY <1>1
<1>3. \A i \in DOMAIN new : TradeOf(new[i], bs, day)
  BY <1>1, <1>2
<1>4. ASSUME NEW i \in DOMAIN new, NEW j \in DOMAIN new, i < j
      PROVE  new[i].to < new[j].from
  <2>1. i \in 1..n
    BY <1>1, <1>4
  <2>2. CASE j = n + 1
    BY <1>1, <2>1, <2>2
  <2>3. CASE j \in 1..n
    BY <1>1, <1>4, <2>1, <2>3
  <2> QED
    BY <1>1, <1>2, <2>2, <2>3
<1> QED
  BY <1>1, <1>3, <1>4

\* Whatever closes the position, the invariant is kept.
LEMMA CloseKeeps ==
  ASSUME ReplayIInv, config' = config, position # NoPosition, position' = NoPosition,
         \A i \in DOMAIN trades : TradeOf(trades[i], tape', config.intraday),
         NEW t \in TradeRecords, TradeOf(t, tape', config.intraday), t.from = position.at,
         trades' = Append(trades, t), ReplayTyped',
         Accounted(diag', HeldOf(trades) + (t.to - t.from), 0),
         diag'["armed_setups"] = diag["armed_setups"]
  PROVE  ReplayIInv'
<1> DEFINE day == config.intraday
           bs == tape'
           ts == trades
           new == trades'
<1>1. /\ ts \in Seq(TradeRecords) /\ \A i \in DOMAIN ts : TradeOf(ts[i], bs, day)
      /\ \A i, j \in DOMAIN ts : i < j => ts[i].to < ts[j].from
      /\ \A i \in DOMAIN ts : ts[i].to < t.from
      /\ TradeOf(t, bs, day) /\ new = Append(ts, t)
  BY DEF ReplayIInv, ReplayTyped, TradesDisjoint
<1> HIDE DEF day, bs, ts, new
<1>2. /\ \A i \in DOMAIN new : TradeOf(new[i], bs, day)
      /\ \A i, j \in DOMAIN new : i < j => new[i].to < new[j].from
  BY <1>1, AddTrade
<1>3. HeldOf(new) = HeldOf(ts) + (t.to - t.from)
  BY <1>1, HeldGrows
<1>4. HeldOpen' = 0
  BY DEF HeldOpen
<1>5. BarsAccounted'
  BY <1>3, <1>4, AccountMeans DEF new, ts
<1>6. TradesDisjoint'
  BY <1>2 DEF TradesDisjoint, new
<1>7. \A i \in DOMAIN trades' : TradeOf(trades'[i], tape', config'.intraday)
  BY <1>2 DEF new, bs, day
<1>8. config'.mode \in {"fast_range", "trendline"} => diag'["armed_setups"] = 0
  BY DEF ReplayIInv
<1> QED
  BY <1>5, <1>6, <1>7, <1>8 DEF ReplayIInv

LEMMA EndKeeps == ReplayIInv /\ CloseAtEnd => ReplayIInv'
<1> SUFFICES ASSUME ReplayIInv, CloseAtEnd PROVE ReplayIInv'
  OBVIOUS
<1> DEFINE p == position
           day == config.intraday
           t == Trade(position, ReplayBars,
                      [reason |-> "SESSION_CLOSE", price |-> position.side * Last(tape).c])
<1>0. /\ Len(tape) = ReplayBars /\ position # NoPosition /\ position' = NoPosition
      /\ trades' = Append(trades, t) /\ config' = config /\ tape' = tape /\ diag' = diag
  BY DEF CloseAtEnd
<1>1. /\ tape \in Seq(ReplayShapes) /\ PositionOf(p, tape, day) /\ trades \in Seq(TradeRecords)
      /\ diag \in [AllDiag -> Nat] /\ BarsAccounted
      /\ \A i \in DOMAIN trades : TradeOf(trades[i], tape, day)
  BY <1>0 DEF ReplayIInv, ReplayTyped
<1>2. t = Trade(p, ReplayBars, [reason |-> "SESSION_CLOSE", price |-> p.side * Last(tape).c])
  OBVIOUS
<1> HIDE DEF t
<1>3. t \in TradeRecords /\ TradeOf(t, tape, day) /\ t.from = p.at /\ t.to = ReplayBars
  <2> HIDE DEF p, day
  <2> QED
    BY <1>0, <1>1, <1>2, ClosedAtEnd
<1>4. trades' \in Seq(TradeRecords)
  BY <1>0, <1>1, <1>3
<1>5. ReplayTyped'
  BY <1>0, <1>4 DEF ReplayIInv, ReplayTyped
<1>6. Accounted(diag', HeldOf(trades) + (t.to - t.from), 0)
  <2>1. HeldOpen = t.to - t.from
    BY <1>0, <1>3 DEF HeldOpen
  <2>2. Accounted(diag, HeldOf(trades), t.to - t.from)
    BY <1>1, <2>1, AccountMeans
  <2> DEFINE held == HeldOf(trades)
             more == t.to - t.from
  <2>3. held \in Int /\ more \in Int
    <3>1. held \in Int
      BY <1>1, HeldType
    <3>2. t.to \in Nat /\ t.from \in Nat
      BY <1>3 DEF TradeRecords
    <3> QED
      BY <3>1, <3>2
  <2>4. Accounted(diag, held, more)
    BY <2>2
  <2> HIDE DEF held, more
  <2>5. Accounted(diag, held + more, 0)
    <3>1. /\ AllDiag = {"no_bias", "low_quality", "no_trigger", "candle_not_confirmed",
                        "armed_setups", "bars_evaluated"}
      BY DEF AllDiag, Buckets
    <3>2. /\ diag["no_bias"] \in Nat /\ diag["low_quality"] \in Nat
          /\ diag["no_trigger"] \in Nat /\ diag["candle_not_confirmed"] \in Nat
          /\ diag["armed_setups"] \in Nat /\ diag["bars_evaluated"] \in Nat
      BY <1>1, <3>1
    <3> QED
      BY <2>3, <2>4, <3>2 DEF Accounted
  <2> QED
    BY <1>0, <2>5 DEF held, more
<1> QED
  BY <1>0, <1>1, <1>3, <1>5, <1>6, CloseKeeps

\* The next bar of a position closes it, or is held through.
LEMMA ExitOrCloseFacts ==
  ASSUME NEW bs \in Seq(ReplayShapes), NEW b \in ReplayShapes,
         position # NoPosition, PositionOf(position, bs, config.intraday),
         NEW closed, closed = ExitOrClose(Len(bs) + 1, b)
  PROVE  \/ /\ closed = <<>>
            /\ PositionOf(position, Append(bs, b), config.intraday)
         \/ \E t \in TradeRecords :
              /\ closed = <<t>>
              /\ TradeOf(t, Append(bs, b), config.intraday)
              /\ t.from = position.at /\ t.to = Len(bs) + 1
<1> DEFINE p == position
           day == config.intraday
           n == Len(bs) + 1
           bar == Oriented(b, p.side)
           exit == Exit(p, bar)
           last == [reason |-> "SESSION_CLOSE", price |-> p.side * b.c]
<1>1. closed = CASE exit.reason # "none" -> <<Trade(p, n, exit)>>
                 [] exit.reason = "none" /\ day /\ IsSessionCloseBar(n) -> <<Trade(p, n, last)>>
                 [] OTHER -> <<>>
  BY DEF ExitOrClose
<1>2. PositionOf(p, bs, day) /\ bar = Oriented(b, p.side) /\ exit = Exit(p, bar)
      /\ last.reason = "SESSION_CLOSE" /\ last.price = p.side * b.c
  OBVIOUS
<1> HIDE DEF p, day, bar, exit, last
<1>3. p.side \in {1, -1} /\ p.sl \in Int /\ p.tp[1] \in Int /\ Slip \in Nat
  BY <1>2, PositionFacts
<1>4. bar.l \in Int /\ bar.h \in Int /\ bar.c \in Int /\ bar.l <= bar.c /\ bar.c = p.side * b.c
  BY <1>2, <1>3, OrientedFacts
<1>5. p \in Positions /\ InRightOrder(p)
  BY <1>2 DEF PositionOf
<1>6. /\ exit.reason \in {"SL_HIT", "TP1", "TP2", "TP3", "none"}
      /\ exit.reason = "SL_HIT" <=> bar.l <= p.sl
      /\ exit.reason \in {"TP1", "TP2", "TP3"} <=> bar.l > p.sl /\ bar.h >= p.tp[1]
      /\ exit.reason # "none" => exit.price \in Int /\ exit.price >= p.sl - Slip
  BY <1>2, <1>4, <1>5, ExitFacts
<1>7. CASE exit.reason # "none"
  <2> DEFINE t == Trade(p, Len(bs) + 1, exit)
  <2>1. exit.reason \in TradeReasons
    BY <1>6, <1>7 DEF TradeReasons
  <2>2. t = Trade(p, Len(bs) + 1, exit)
    OBVIOUS
  <2> HIDE DEF t
  <2>3. /\ t \in TradeRecords /\ TradeOf(t, Append(bs, b), day)
        /\ t.from = p.at /\ t.to = Len(bs) + 1
    BY <1>2, <1>6, <1>7, <2>1, <2>2, ClosedByBar
  <2>4. closed = <<t>>
    BY <1>1, <1>7, <2>2
  <2> QED
    BY <2>3, <2>4 DEF p, day
<1>8. exit.reason = "none" => bar.l > p.sl /\ bar.h < p.tp[1]
  <2> SUFFICES ASSUME exit.reason = "none" PROVE bar.l > p.sl /\ bar.h < p.tp[1]
    OBVIOUS
  <2>1. ~(bar.l <= p.sl) /\ ~(bar.l > p.sl /\ bar.h >= p.tp[1])
    BY <1>6
  <2> QED
    BY <1>3, <1>4, <2>1
<1>9. CASE exit.reason = "none" /\ day /\ IsSessionCloseBar(n)
  <2> DEFINE t == Trade(p, Len(bs) + 1, last)
  <2>1. /\ last.reason \in TradeReasons /\ last.reason \notin {"SL_HIT", "TP1", "TP2", "TP3"}
    BY <1>2 DEF TradeReasons
  <2>2. last.price \in Int /\ last.price >= p.sl - Slip
    BY <1>2, <1>3, <1>4, <1>8, <1>9
  <2>3. ~(bar.l <= p.sl) /\ ~(bar.h >= p.tp[1])
    BY <1>3, <1>4, <1>8, <1>9
  <2>4. /\ last.reason = "SL_HIT" <=> bar.l <= p.sl
        /\ last.reason \in {"TP1", "TP2", "TP3"} <=> bar.l > p.sl /\ bar.h >= p.tp[1]
    BY <2>1, <2>3
  <2>5. t = Trade(p, Len(bs) + 1, last)
    OBVIOUS
  <2> HIDE DEF t
  <2>6. /\ t \in TradeRecords /\ TradeOf(t, Append(bs, b), day)
        /\ t.from = p.at /\ t.to = Len(bs) + 1
    BY <1>2, <2>1, <2>2, <2>4, <2>5, ClosedByBar
  <2>7. closed = <<t>>
    BY <1>1, <1>9, <2>5
  <2> QED
    BY <2>6, <2>7 DEF p, day
<1>10. CASE exit.reason = "none" /\ ~(day /\ IsSessionCloseBar(n))
  <2>1. closed = <<>>
    BY <1>1, <1>10
  <2>2. PositionOf(p, Append(bs, b), day)
    BY <1>2, <1>8, <1>10, HeldThrough
  <2> QED
    BY <2>1, <2>2 DEF p, day
<1> QED
  BY <1>7, <1>9, <1>10

LEMMA HoldKeeps == ReplayIInv /\ HoldPosition => ReplayIInv'
<1> SUFFICES ASSUME ReplayIInv, HoldPosition PROVE ReplayIInv'
  OBVIOUS
<1> DEFINE closed == ExitOrClose(Len(tape'), Last(tape'))
<1>0. /\ NextBar /\ position # NoPosition /\ config' = config
      /\ trades' = trades \o closed
      /\ position' = IF closed = <<>> THEN position ELSE NoPosition
      /\ diag' = [diag EXCEPT !["bars_evaluated"] = @ + Evaluated]
  BY DEF HoldPosition
<1> HIDE DEF closed
<1>1. PICK b \in ReplayShapes :
        /\ tape' = Append(tape, b) /\ Last(tape') = b
        /\ tape \in Seq(ReplayShapes) /\ tape' \in Seq(ReplayShapes)
        /\ Len(tape') = Len(tape) + 1 /\ Len(tape) \in Nat /\ Len(tape') <= ReplayBars
        /\ ComputeSmcGeometry(tape').swing \in AnySwings
        /\ trades \in Seq(TradeRecords)
        /\ \A i \in DOMAIN trades : /\ trades[i] \in TradeRecords
                                    /\ TradeOf(trades[i], tape', config.intraday)
  BY <1>0, TapeGrows
<1>2. PositionOf(position, tape, config.intraday) /\ closed = ExitOrClose(Len(tape) + 1, b)
  BY <1>0, <1>1 DEF ReplayIInv, closed
<1>3. \/ /\ closed = <<>>
         /\ PositionOf(position, tape', config.intraday)
      \/ \E t \in TradeRecords :
           /\ closed = <<t>>
           /\ TradeOf(t, tape', config.intraday)
           /\ t.from = position.at /\ t.to = Len(tape) + 1
  BY <1>0, <1>1, <1>2, ExitOrCloseFacts
<1> DEFINE at == position.at
           n == Len(tape)
           held == HeldOf(trades)
<1>4. at \in Nat /\ n \in Nat /\ held \in Int
  BY <1>1, <1>2, PositionFacts, HeldType
<1>5. Accounted(diag, held, n - at) /\ diag \in [AllDiag -> Nat]
  <2>1. HeldOpen = n - at /\ BarsAccounted /\ diag \in [AllDiag -> Nat]
    BY <1>0 DEF HeldOpen, ReplayIInv, ReplayTyped
  <2> QED
    BY <2>1, AccountMeans
<1> HIDE DEF at, n, held
<1>6. /\ diag' \in [AllDiag -> Nat] /\ \A x \in AllDiag : diag'[x] <= diag[x] + 1
      /\ \A h \in Int, o \in Int : h + o = held + (n - at) + 1 => Accounted(diag', h, o)
      /\ diag'["armed_setups"] = diag["armed_setups"]
  <2> DEFINE d == diag
             e == diag'
             open == n - at
  <2>1. d \in [AllDiag -> Nat] /\ Accounted(d, held, open) /\ held \in Int /\ open \in Int
        /\ AsHeld(d, e)
    BY <1>0, <1>4, <1>5 DEF AsHeld
  <2> HIDE DEF d, e, open
  <2>2. /\ e \in [AllDiag -> Nat] /\ \A x \in AllDiag : e[x] <= d[x] + 1
        /\ \A h \in Int, o \in Int : h + o = held + open + 1 => Accounted(e, h, o)
        /\ e["armed_setups"] = d["armed_setups"]
    BY <2>1, HeldBarGrows
  <2> QED
    BY <2>2 DEF d, e, open
<1>7. CASE closed = <<>> /\ PositionOf(position, tape', config.intraday)
  <2>1. position' = position /\ trades' = trades
    BY <1>0, <1>1, <1>7, ConcatEmptySeq
  <2>2. ReplayTyped'
    BY <1>0, <1>1, <1>6, <2>1, TypedNext
  <2>3. BarsAccounted'
    <3>1. n + 1 - at \in Int /\ held + (n + 1 - at) = held + (n - at) + 1
      BY <1>4
    <3>2. Accounted(diag', held, n + 1 - at)
      BY <1>4, <1>6, <3>1
    <3>3. HeldOpen' = n + 1 - at
      <4>1. HeldOpen' = Len(tape') - position'.at
        BY <1>0, <2>1 DEF HeldOpen
      <4>2. Len(tape') = n + 1 /\ position'.at = at
        BY <1>1, <2>1 DEF at, n
      <4> QED
        BY <1>4, <4>1, <4>2
    <3> QED
      BY <2>1, <3>2, <3>3, AccountMeans DEF held
  <2>4. TradesDisjoint'
    BY <2>1 DEF ReplayIInv, TradesDisjoint
  <2>5. /\ \A i \in DOMAIN trades' : TradeOf(trades'[i], tape', config'.intraday)
        /\ config'.mode \in {"fast_range", "trendline"} => diag'["armed_setups"] = 0
        /\ PositionOf(position', tape', config'.intraday)
    BY <1>0, <1>1, <1>6, <1>7, <2>1 DEF ReplayIInv
  <2> QED
    BY <2>2, <2>3, <2>4, <2>5 DEF ReplayIInv
<1>8. ASSUME NEW t \in TradeRecords, closed = <<t>>, TradeOf(t, tape', config.intraday),
             t.from = position.at, t.to = Len(tape) + 1
      PROVE  ReplayIInv'
  <2>1. position' = NoPosition
    <3>1. <<t>> # <<>>
      OBVIOUS
    <3> QED
      BY <1>0, <1>8, <3>1
  <2>2. trades' = Append(trades, t)
    BY <1>0, <1>1, <1>8, AppendIsConcat
  <2>3. trades' \in Seq(TradeRecords)
    BY <1>1, <2>2
  <2>4. ReplayTyped'
    BY <1>0, <1>1, <1>6, <2>3, TypedNext
  <2>5. Accounted(diag', HeldOf(trades) + (t.to - t.from), 0)
    <3>1. t.to - t.from = n + 1 - at
      BY <1>4, <1>8 DEF n, at
    <3>2. held + (n + 1 - at) \in Int /\ 0 \in Int
          /\ held + (n + 1 - at) + 0 = held + (n - at) + 1
      BY <1>4
    <3>3. Accounted(diag', held + (n + 1 - at), 0)
      BY <1>6, <3>2
    <3> QED
      BY <3>1, <3>3 DEF held
  <2> QED
    BY <1>0, <1>1, <1>6, <1>8, <2>1, <2>2, <2>4, <2>5, CloseKeeps
<1> QED
  BY <1>3, <1>7, <1>8

LEMMA InitReplay == ReplayInit => ReplayIInv
<1> SUFFICES ASSUME ReplayInit PROVE ReplayIInv
  OBVIOUS
<1>1. /\ config \in Configs /\ tape = <<>> /\ position = NoPosition /\ trades = <<>>
      /\ diag = [b \in AllDiag |-> 0]
  BY DEF ReplayInit, AllDiag
<1>2. ComputeSmcGeometry(tape).swing \in AnySwings
  <2>1. ComputeSmcGeometry(tape).swing = NoSwing
    BY <1>1, ChartOfNone DEF BlankChart
  <2>2. NoSwing \in AnySwings
    BY DEF NoSwing, None, AnySwings, Labels
  <2> QED
    BY <2>1, <2>2
<1>3. ReplayTyped
  <2>1. tape \in Seq(ReplayShapes) /\ Len(tape) = 0 /\ trades \in Seq(TradeRecords)
    BY <1>1
  <2>2. ReplayBars \in Nat
    BY ReplayAssumption
  <2>3. diag \in [AllDiag -> Nat] /\ \A b \in AllDiag : diag[b] <= 0
    BY <1>1
  <2> QED
    BY <1>1, <1>2, <2>1, <2>2, <2>3 DEF ReplayTyped
<1>4. DOMAIN trades = {}
  BY <1>1
<1>5. diag["armed_setups"] = 0
  BY <1>1 DEF AllDiag, Buckets
<1>6. BarsAccounted
  <2>1. HeldOf(trades) = 0 /\ HeldOpen = 0
    BY <1>1, HeldNothing DEF HeldOpen
  <2>2. Accounted(diag, 0, 0)
    BY <1>1 DEF Accounted, AllDiag, Buckets
  <2> QED
    BY <2>1, <2>2, AccountMeans
<1> QED
  BY <1>1, <1>3, <1>4, <1>5, <1>6 DEF ReplayIInv, TradesDisjoint

LEMMA NextReplay == ReplayIInv /\ [ReplayNext]_replayVars => ReplayIInv'
<1> SUFFICES ASSUME ReplayIInv, [ReplayNext]_replayVars PROVE ReplayIInv'
  OBVIOUS
<1>1. CASE WarmUp
  BY <1>1, WarmUpKeeps
<1>2. CASE DecideSetup
  BY <1>2, DecideKeeps
<1>3. CASE HoldPosition
  BY <1>3, HoldKeeps
<1>4. CASE CloseAtEnd
  BY <1>4, EndKeeps
<1>5. CASE UNCHANGED replayVars
  <2>1. /\ config' = config /\ tape' = tape /\ position' = position /\ trades' = trades
        /\ diag' = diag
    BY <1>5 DEF replayVars
  <2>2. ReplayTyped'
    BY <2>1 DEF ReplayIInv, ReplayTyped
  <2>3. TradesDisjoint'
    BY <2>1 DEF ReplayIInv, TradesDisjoint
  <2>4. BarsAccounted'
    <3>1. HeldOpen' = HeldOpen
      BY <2>1 DEF HeldOpen
    <3> QED
      BY <2>1, <3>1, AccountMeans DEF ReplayIInv
  <2> QED
    BY <2>1, <2>2, <2>3, <2>4 DEF ReplayIInv
<1> QED
  BY <1>1, <1>2, <1>3, <1>4, <1>5 DEF ReplayNext

\* The invariant of the replay: an open position has been touched by none of
\* its bars, and a trade by none but its last.
THEOREM ReplayInvariant == ReplaySpec => []ReplayIInv
<1>1. ReplayInit => ReplayIInv
  BY InitReplay
<1>2. ReplayIInv /\ [ReplayNext]_replayVars => ReplayIInv'
  BY NextReplay
<1> QED
  BY <1>1, <1>2, PTL DEF ReplaySpec

\* What the invariant says of each trade and of the open position.
LEMMA OpenedFacts ==
  ASSUME ReplayIInv, NEW p \in Opened
  PROVE  /\ p.side \in {1, -1} /\ p.source = "swing_zone"
         /\ InRightOrder(p)
<1>1. CASE p \in Range(trades)
  <2>1. PICK i \in DOMAIN trades : p = trades[i]
    BY <1>1 DEF Range
  <2>2. trades \in Seq(TradeRecords) /\ TradeOf(trades[i], tape, config.intraday)
    BY DEF ReplayIInv, ReplayTyped
  <2>3. p \in TradeRecords /\ InRightOrder(p)
    BY <2>1, <2>2 DEF TradeOf
  <2> QED
    BY <2>3 DEF TradeRecords
<1>2. CASE p = position /\ position # NoPosition
  <2>1. p \in Positions /\ InRightOrder(p)
    BY <1>2 DEF ReplayIInv, PositionOf
  <2> QED
    BY <2>1 DEF Positions
<1> QED
  BY <1>1, <1>2 DEF Opened

LEMMA TradesAre ==
  ASSUME ReplayIInv, NEW t \in Range(trades)
  PROVE  t \in TradeRecords /\ TradeOf(t, tape, config.intraday)
<1>1. PICK i \in DOMAIN trades : t = trades[i]
  BY DEF Range
<1>2. trades \in Seq(TradeRecords) /\ TradeOf(trades[i], tape, config.intraday)
  BY DEF ReplayIInv, ReplayTyped
<1> QED
  BY <1>1, <1>2

LEMMA ReplayStands == ReplayIInv => ReplaySafe
<1> SUFFICES ASSUME ReplayIInv PROVE ReplaySafe
  OBVIOUS
<1>1. ReplayTypeOK
  <2>1. \A p \in Opened :
          /\ p.side \in {1, -1} /\ p.source \in Range(Sources)
          /\ p.sl < p.entry /\ p.sl < p.tp[1] /\ p.tp[1] < p.tp[2] /\ p.tp[2] < p.tp[3]
    BY OpenedFacts, PlacesDiffer DEF InRightOrder
  <2>2. \A t \in Range(trades) :
          t.reason \in {"SL_HIT", "TP1", "TP2", "TP3", "SESSION_CLOSE"}
    BY TradesAre DEF TradeRecords, TradeReasons
  <2>3. \A b \in DOMAIN diag : diag[b] \in 0..ReplayBars
    <3>1. /\ diag \in [AllDiag -> Nat] /\ \A b \in AllDiag : diag[b] <= Len(tape)
          /\ tape \in Seq(ReplayShapes) /\ Len(tape) <= ReplayBars
      BY DEF ReplayIInv, ReplayTyped
    <3> SUFFICES ASSUME NEW b \in AllDiag PROVE diag[b] \in 0..ReplayBars
      BY <3>1
    <3>2. diag[b] \in Nat /\ diag[b] <= Len(tape) /\ Len(tape) \in Nat /\ ReplayBars \in Nat
      BY <3>1, ReplayAssumption
    <3> QED
      BY <3>1, <3>2
  <2> QED
    BY <2>1, <2>2, <2>3 DEF ReplayTypeOK, ReplayIInv, ReplayTyped
<1>2. OnlySwingZoneArms
  BY OpenedFacts DEF OnlySwingZoneArms, ReplayIInv
<1>3. OvernightFromLastBar
  BY TradesAre DEF OvernightFromLastBar, TradeOf
<1>4. FirstBarDecides
  <2> SUFFICES ASSUME NEW t \in Range(trades)
               PROVE  LET stopped == {i \in DOMAIN Bars(t) : Bars(t)[i].l <= t.sl}
                          reached == {i \in DOMAIN Bars(t) : Bars(t)[i].h >= t.tp[1]}
                      IN  /\ stopped \cup reached \subseteq {t.to}
                          /\ t.reason = "SL_HIT" <=> stopped # {}
                          /\ t.reason \in {"TP1", "TP2", "TP3"} <=> stopped = {} /\ reached # {}
    BY DEF FirstBarDecides
  <2> DEFINE stopped == {i \in DOMAIN Bars(t) : Bars(t)[i].l <= t.sl}
             reached == {i \in DOMAIN Bars(t) : Bars(t)[i].h >= t.tp[1]}
  <2>1. /\ DOMAIN Bars(t) = (t.from + 1)..t.to
        /\ \A i \in (t.from + 1)..t.to : Bars(t)[i] = Oriented(tape[i], t.side)
    BY DEF Bars
  <2>2. stopped = Stopped(t, tape) /\ reached = Reached(t, tape)
    BY <2>1 DEF Stopped, Reached
  <2>3. TradeOf(t, tape, config.intraday)
    BY TradesAre
  <2> QED
    BY <2>2, <2>3 DEF TradeOf
<1>5. LossCapped
  BY TradesAre DEF LossCapped, TradeOf
<1> QED
  BY <1>1, <1>2, <1>3, <1>4, <1>5 DEF ReplaySafe, ReplayIInv

\* ReplaySafe: in every replay, stop, entry and targets are in their order and
\* only a swing ever arms; no two trades overlap, none is held beyond its
\* session but the one its last bar opened; the first bar that touches a level
\* decides; no loss exceeds the capped stop and its costs; and every evaluated
\* bar is accounted for.
THEOREM ReplayIsSafe == ReplaySpec => []ReplaySafe
<1>1. ReplayIInv => ReplaySafe
  BY ReplayStands
<1> QED
  BY <1>1, ReplayInvariant, PTL

-----------------------------------------------------------------------------
(* The split. *)

Rows == [created: Nat, resolved: Nat, win: BOOLEAN, score: Nat, rr: Nat, grade: 0..4,
         session: STRING]

\* The archive, as the query returns it.
InOrder(rows) ==
  /\ rows \in Seq(Rows)
  /\ \A i \in DOMAIN rows : rows[i].resolved >= rows[i].created
  /\ \A i, j \in DOMAIN rows : i <= j => rows[i].created <= rows[j].created

LEMMA RowTypes ==
  ASSUME NEW rows \in Seq(Rows), NEW i \in DOMAIN rows
  PROVE  /\ rows[i] \in Rows /\ rows[i].created \in Nat /\ rows[i].resolved \in Nat
         /\ rows[i].rr \in Nat
<1>1. rows[i] \in Rows
  OBVIOUS
<1> QED
  BY <1>1 DEF Rows

LEMMA SplitInside ==
  ASSUME NEW total \in Nat, total >= MinTrain + MinTest
  PROVE  SplitAt(total) \in MinTrain..(total - MinTest)
<1> USE WalkForwardAssumption
<1>1. (total * TrainPercent) \div 100 \in Int
  OBVIOUS
<1> QED
  BY <1>1 DEF SplitAt

LEMMA SplitFacts ==
  ASSUME NEW rows, InOrder(rows), Len(rows) >= MinTrain + MinTest
  PROVE  LET cut == SplitAt(Len(rows))
         IN  /\ cut \in Nat /\ cut + 1 \in DOMAIN rows
             /\ 1..cut \subseteq DOMAIN rows /\ cut + 1..Len(rows) \subseteq DOMAIN rows
             /\ SplitTime(rows) \in Nat
             /\ PurgedTrain(rows) \subseteq DOMAIN rows
             /\ EmbargoedTest(rows) \subseteq DOMAIN rows
             /\ \A i \in 1..cut : rows[i].created <= SplitTime(rows)
<1> DEFINE cut == SplitAt(Len(rows))
<1> USE WalkForwardAssumption
<1>1. Len(rows) \in Nat /\ DOMAIN rows = 1..Len(rows) /\ rows \in [1..Len(rows) -> Rows]
  BY DEF InOrder
<1>2. cut \in MinTrain..(Len(rows) - MinTest)
  BY <1>1, SplitInside
<1> HIDE DEF cut
<1>3. /\ cut \in Nat /\ cut + 1 \in 1..Len(rows)
      /\ 1..cut \subseteq 1..Len(rows) /\ cut + 1..Len(rows) \subseteq 1..Len(rows)
  BY <1>1, <1>2
<1>4. SplitTime(rows) = rows[cut + 1].created
  BY DEF SplitTime, cut
<1>5. SplitTime(rows) \in Nat
  BY <1>1, <1>3, <1>4 DEF Rows
<1>6. PurgedTrain(rows) \subseteq 1..cut /\ EmbargoedTest(rows) \subseteq cut + 1..Len(rows)
  BY DEF PurgedTrain, EmbargoedTest, cut
<1>7. \A i \in 1..cut : rows[i].created <= SplitTime(rows)
  <2>1. \A i, j \in 1..Len(rows) : i <= j => rows[i].created <= rows[j].created
    BY <1>1 DEF InOrder
  <2>2. \A i \in 1..cut : i \in 1..Len(rows) /\ i <= cut + 1
    BY <1>1, <1>3
  <2> QED
    BY <1>3, <1>4, <2>1, <2>2
<1> QED
  BY <1>1, <1>3, <1>5, <1>6, <1>7 DEF cut

\* What is tested on comes after everything that is trained on, and after the embargo.
LEMMA SplitLooksForward ==
  ASSUME NEW rows, InOrder(rows), Len(rows) >= MinTrain + MinTest
  PROVE  \A i \in PurgedTrain(rows), j \in EmbargoedTest(rows) :
           rows[j].created > rows[i].resolved + Embargo
<1> TAKE i \in PurgedTrain(rows), j \in EmbargoedTest(rows)
<1>1. SplitTime(rows) \in Nat /\ i \in DOMAIN rows /\ j \in DOMAIN rows
  BY SplitFacts
<1>2. rows[i].resolved < SplitTime(rows) /\ rows[j].created >= SplitTime(rows) + Embargo
  BY DEF PurgedTrain, EmbargoedTest
<1>3. rows[i].resolved \in Nat /\ rows[j].created \in Nat /\ Embargo \in Nat
  BY <1>1, RowTypes, WalkForwardAssumption DEF InOrder
<1> QED
  BY <1>1, <1>2, <1>3

-----------------------------------------------------------------------------
(* What is measured. *)

LEMMA FiniteRows ==
  ASSUME NEW rows \in Seq(Rows), NEW S \in SUBSET DOMAIN rows
  PROVE  IsFiniteSet(S) /\ Cardinality(S) \in Nat /\ S \in SUBSET Int
<1>1. Len(rows) \in Nat /\ DOMAIN rows = 1..Len(rows)
  OBVIOUS
<1> QED
  BY <1>1, FinitePlaces

LEMMA PrecisionType ==
  ASSUME NEW wins \in Nat, NEW decided \in Nat
  PROVE  Precision(wins, decided) \in Nat
<1>1. CASE decided = 0
  BY <1>1 DEF Precision
<1>2. CASE decided # 0
  <2>1. 2000 * wins + decided \in Nat /\ 2 * decided \in Nat \ {0}
    BY <1>2
  <2> QED
    BY <1>2, <2>1, DivType DEF Precision
<1> QED
  BY <1>1, <1>2

LEMMA RewardsAreSums ==
  ASSUME NEW rows \in Seq(Rows), NEW S \in SUBSET DOMAIN rows
  PROVE  MapThenSumSet(LAMBDA i : rows[i].rr, S) \in Nat
<1> DEFINE f == [i \in DOMAIN rows |-> rows[i].rr]
           Recur(it) == [u \in SUBSET S |-> IF u = {} THEN 0
                          ELSE rows[CHOOSE m \in u : TRUE].rr + it[u \ {CHOOSE m \in u : TRUE}]]
           iter == CHOOSE it : it = Recur(it)
<1>1. MapThenSumSet(LAMBDA i : rows[i].rr, S) = iter[S]
  BY DEF MapThenSumSet, MapThenFoldSet
<1>2. f \in [DOMAIN rows -> Nat] /\ f \in [DOMAIN rows -> Int] /\ S \in SUBSET S /\ IsFiniteSet(S)
  BY FiniteRows, RowTypes
<1>3. \A it : IsSum(it, f, S) <=> it = Recur(it)
  <2> SUFFICES ASSUME NEW it
               PROVE  Recur(it) = [u \in SUBSET S |->
                                    IF u = {} THEN 0 ELSE f[Pick(u)] + it[u \ {Pick(u)}]]
    BY DEF IsSum
  <2>1. \A u \in SUBSET S : u # {} => (CHOOSE m \in u : TRUE) \in DOMAIN rows
    OBVIOUS
  <2> QED
    BY <2>1 DEF Pick
<1> HIDE DEF Recur, f
<1>4. \E it : it = Recur(it)
  BY <1>2, <1>3, SumExists
<1>5. IsSum(iter, f, S)
  BY <1>3, <1>4
<1> HIDE DEF iter
<1>6. iter[S] = SumOf(f, S)
  BY <1>2, <1>5, SumOfSubset
<1>7. SumOf(f, S) \in Nat
  BY <1>2, SumNatural
<1> QED
  BY <1>1, <1>6, <1>7

MetricsOf == [decided: Nat, precision: Nat, rr: Int]

LEMMA MetricsType ==
  ASSUME NEW rows \in Seq(Rows), NEW side \in SUBSET DOMAIN rows, NEW p
  PROVE  /\ Metrics(rows, side, p) \in MetricsOf
         /\ LET matched == {i \in side : Matches(rows[i], p)}
            IN  /\ Metrics(rows, side, p).decided = Cardinality(matched)
                /\ Metrics(rows, side, p).precision =
                     Precision(Cardinality({i \in matched : rows[i].win}), Cardinality(matched))
<1> DEFINE matched == {i \in side : Matches(rows[i], p)}
           won == {i \in matched : rows[i].win}
           n == Cardinality(matched)
           sum == MapThenSumSet(LAMBDA i : rows[i].rr, matched)
           ratio == IF n = 0 THEN 0 ELSE (2 * sum + n) \div (2 * n)
<1>1. matched \in SUBSET DOMAIN rows /\ won \in SUBSET DOMAIN rows
  OBVIOUS
<1>2. Metrics(rows, side, p) =
        [decided |-> n, precision |-> Precision(Cardinality(won), n), rr |-> ratio]
  BY DEF Metrics
<1> HIDE DEF matched, won
<1>3. n \in Nat /\ Cardinality(won) \in Nat /\ sum \in Nat
  BY <1>1, FiniteRows, RewardsAreSums
<1>4. Precision(Cardinality(won), n) \in Nat
  BY <1>3, PrecisionType
<1> HIDE DEF n, sum
<1>5. ratio \in Int
  BY <1>3
<1> HIDE DEF ratio
<1>6. Metrics(rows, side, p) \in MetricsOf
  BY <1>2, <1>3, <1>4, <1>5 DEF MetricsOf
<1> QED
  BY <1>2, <1>6 DEF n, matched, won

Standings == {"NO_FORWARD_TRADES", "FORWARD_BUILDING", "FORWARD_TARGET_MET", "FORWARD_FAILED"}

LEMMA WeightedSum ==
  ASSUME NEW a \in Int, NEW b \in Int, NEW c \in Int, NEW d \in Int, NEW e \in Int,
         NEW f \in Int, NEW g \in Int
  PROVE  120 * a + 50 * b + 20 * c + 2 * d - 35 * e - f - g \in Int
  OBVIOUS

LEMMA MeasuredFacts ==
  ASSUME NEW rows, InOrder(rows), Len(rows) >= MinTrain + MinTest, NEW i \in DOMAIN Profiles
  PROVE  LET m == Measured(rows)[i]
         IN  /\ m.train = Metrics(rows, PurgedTrain(rows), Profiles[i])
             /\ m.test = Metrics(rows, EmbargoedTest(rows), Profiles[i])
             /\ m.standing = Standing(m.test)
             /\ m.train \in MetricsOf /\ m.test \in MetricsOf
             /\ m.standing \in Standings /\ m.utility \in Int
<1> DEFINE train == Metrics(rows, PurgedTrain(rows), Profiles[i])
           test == Metrics(rows, EmbargoedTest(rows), Profiles[i])
           m == Measured(rows)[i]
<1>1. m = [train |-> train, test |-> test, standing |-> Standing(test),
           utility |-> Utility(train, test)]
  BY DEF Measured
<1>2. train \in MetricsOf /\ test \in MetricsOf
  <2>1. /\ rows \in Seq(Rows) /\ PurgedTrain(rows) \in SUBSET DOMAIN rows
        /\ EmbargoedTest(rows) \in SUBSET DOMAIN rows
    BY SplitFacts DEF InOrder
  <2> QED
    BY <2>1, MetricsType
<1> HIDE DEF train, test
<1>3. Standing(test) \in Standings
  BY DEF Standing, Standings
<1>4. Utility(train, test) \in Int
  <2>1. /\ train.precision \in Int /\ test.precision \in Int /\ test.decided \in Int
        /\ test.rr \in Int /\ MinTest \in Int
    BY <1>2, WalkForwardAssumption DEF MetricsOf
  <2> DEFINE gap == IF test.decided = 0 THEN 0 ELSE train.precision - test.precision
             many == IF test.decided > 4 * MinTest THEN 4 * MinTest ELSE test.decided
             over == IF gap > 0 THEN gap ELSE 0
             missed == IF Standing(test) = "FORWARD_TARGET_MET" THEN 0 ELSE 12000
             thin == IF Standing(test) = "FORWARD_BUILDING" THEN 4000 ELSE 0
  <2>2. gap \in Int /\ many \in Int
    BY <2>1
  <2>3. over \in Int
    <3> HIDE DEF gap
    <3> QED
      BY <2>2
  <2>4. missed \in Int /\ thin \in Int
    OBVIOUS
  <2>5. Utility(train, test) =
          120 * test.precision + 50 * many + 20 * train.precision + 2 * test.rr - 35 * over
            - missed - thin
    BY DEF Utility
  <2> HIDE DEF gap, many, over, missed, thin
  <2> DEFINE a == test.precision
             c == train.precision
             d == test.rr
  <2>6. a \in Int /\ c \in Int /\ d \in Int
    BY <2>1
  <2>7. Utility(train, test) = 120 * a + 50 * many + 20 * c + 2 * d - 35 * over - missed - thin
    BY <2>5
  <2> HIDE DEF a, c, d
  <2>8. 120 * a + 50 * many + 20 * c + 2 * d - 35 * over - missed - thin \in Int
    BY <2>2, <2>3, <2>4, <2>6, WeightedSum
  <2> QED
    BY <2>7, <2>8
<1> QED
  BY <1>1, <1>2, <1>3, <1>4 DEF train, test

-----------------------------------------------------------------------------
(* The choice. *)

Met(m) == IF m.standing = "FORWARD_TARGET_MET" THEN 1 ELSE 0

LEMMA BetterMeans ==
  ASSUME NEW m, NEW n
  PROVE  Better(m, n) <=>
           \/ Met(m) > Met(n)
           \/ Met(m) = Met(n) /\ m.utility > n.utility
           \/ /\ Met(m) = Met(n) /\ m.utility = n.utility
              /\ m.test.precision > n.test.precision
           \/ /\ Met(m) = Met(n) /\ m.utility = n.utility
              /\ m.test.precision = n.test.precision /\ m.test.decided > n.test.decided
<1> DEFINE key(x) == <<Met(x), x.utility, x.test.precision, x.test.decided>>
<1>1. Better(m, n) <=> \E k \in 1..4 : /\ key(m)[k] > key(n)[k]
                                       /\ \A j \in 1..k-1 : key(m)[j] = key(n)[j]
  BY DEF Better, Met
<1>2. \A x : key(x)[1] = Met(x) /\ key(x)[2] = x.utility /\ key(x)[3] = x.test.precision
             /\ key(x)[4] = x.test.decided
  OBVIOUS
<1> HIDE DEF key
<1>3. 1..4 = {1, 2, 3, 4} /\ 1..0 = {} /\ 1..1 = {1} /\ 1..2 = {1, 2} /\ 1..3 = {1, 2, 3}
  OBVIOUS
<1>4. /\ 1..(1 - 1) = {} /\ 1..(2 - 1) = {1} /\ 1..(3 - 1) = {1, 2}
      /\ 1..(4 - 1) = {1, 2, 3}
  OBVIOUS
<1> QED
  BY <1>1, <1>2, <1>3, <1>4

\* Of finitely many, one has the greatest value.
LEMMA GreatestOf ==
  ASSUME NEW T, IsFiniteSet(T), T # {}, NEW f \in [T -> Int]
  PROVE  \E i \in T : \A j \in T : f[j] <= f[i]
<1> DEFINE S == {f[x] : x \in T}
<1>1. IsFiniteSet(S)
  BY FiniteImage
<1>2. S \in SUBSET Int /\ S # {}
  OBVIOUS
<1>3. PICK y \in S : \A z \in S : z <= y
  <2> HIDE DEF S
  <2> QED
    BY <1>1, <1>2, GreatestInteger
<1> QED
  BY <1>3

\* Among trained profiles one is behind no other.
LEMMA BestExists ==
  ASSUME NEW measured, NEW T \in SUBSET DOMAIN measured, IsFiniteSet(T), T # {},
         \A i \in T : /\ measured[i].utility \in Int /\ measured[i].test.precision \in Int
                      /\ measured[i].test.decided \in Int
  PROVE  \E i \in T : \A j \in T : ~Better(measured[j], measured[i])
<1> DEFINE f1 == [i \in T |-> Met(measured[i])]
<1>1. PICK a \in T : \A j \in T : f1[j] <= f1[a]
  <2>1. f1 \in [T -> Int]
    BY DEF Met
  <2> HIDE DEF f1
  <2> QED
    BY <2>1, GreatestOf
<1> DEFINE T2 == {i \in T : Met(measured[i]) = Met(measured[a])}
           f2 == [i \in T2 |-> measured[i].utility]
<1>2. PICK b \in T2 : \A j \in T2 : f2[j] <= f2[b]
  <2>1. f2 \in [T2 -> Int] /\ T2 # {}
    OBVIOUS
  <2>2. IsFiniteSet(T2)
    BY FS_Subset
  <2> HIDE DEF f2, T2
  <2> QED
    BY <2>1, <2>2, GreatestOf
<1> DEFINE T3 == {i \in T2 : measured[i].utility = measured[b].utility}
           f3 == [i \in T3 |-> measured[i].test.precision]
<1>3. PICK c \in T3 : \A j \in T3 : f3[j] <= f3[c]
  <2>1. f3 \in [T3 -> Int] /\ T3 # {} /\ T3 \in SUBSET T
    OBVIOUS
  <2>2. IsFiniteSet(T3)
    BY <2>1, FS_Subset
  <2> HIDE DEF f3, T3
  <2> QED
    BY <2>1, <2>2, GreatestOf
<1> DEFINE T4 == {i \in T3 : measured[i].test.precision = measured[c].test.precision}
           f4 == [i \in T4 |-> measured[i].test.decided]
<1>4. PICK d \in T4 : \A j \in T4 : f4[j] <= f4[d]
  <2>1. f4 \in [T4 -> Int] /\ T4 # {} /\ T4 \in SUBSET T
    OBVIOUS
  <2>2. IsFiniteSet(T4)
    BY <2>1, FS_Subset
  <2> HIDE DEF f4, T4
  <2> QED
    BY <2>1, <2>2, GreatestOf
<1>5. ASSUME NEW j \in T, Better(measured[j], measured[d])
      PROVE  FALSE
  <2>1. /\ Met(measured[d]) = Met(measured[a]) /\ Met(measured[j]) <= Met(measured[a])
        /\ Met(measured[d]) \in Int /\ Met(measured[j]) \in Int
    BY <1>1 DEF Met
  <2>2. j \in T2 => measured[j].utility <= measured[d].utility
    BY <1>2
  <2>3. j \in T3 => measured[j].test.precision <= measured[d].test.precision
    BY <1>3
  <2>4. j \in T4 => measured[j].test.decided <= measured[d].test.decided
    BY <1>4
  <2>5. /\ measured[j].utility \in Int /\ measured[j].test.precision \in Int
        /\ measured[j].test.decided \in Int /\ measured[d].utility \in Int
        /\ measured[d].test.precision \in Int /\ measured[d].test.decided \in Int
    OBVIOUS
  <2>6. Met(measured[j]) = Met(measured[d]) => j \in T2
    BY <2>1
  <2>7. j \in T2 /\ measured[j].utility = measured[d].utility => j \in T3
    OBVIOUS
  <2>8. j \in T3 /\ measured[j].test.precision = measured[d].test.precision => j \in T4
    OBVIOUS
  <2> HIDE DEF T2, T3, T4
  <2> QED
    BY <1>5, <2>1, <2>2, <2>3, <2>4, <2>5, <2>6, <2>7, <2>8, BetterMeans
<1>6. d \in T
  OBVIOUS
<1> QED
  BY <1>5, <1>6

\* The recommended profile has been trained, and none that was is better.
LEMMA ChoiceIsBest ==
  ASSUME NEW rows, InOrder(rows), Len(rows) >= MinTrain + MinTest
  PROVE  LET measured == Measured(rows)
             trained == {i \in DOMAIN Profiles : measured[i].train.decided >= MinTrain}
         IN  /\ trained = {} => Recommended(measured) = 0
             /\ trained # {} => /\ Recommended(measured) \in trained
                                /\ \A j \in trained :
                                     ~Better(measured[j], measured[Recommended(measured)])
<1> DEFINE measured == Measured(rows)
           trained == {i \in DOMAIN measured : Trainable(measured[i])}
           best == {i \in trained : \A j \in trained : ~Better(measured[j], measured[i])}
<1>1. DOMAIN measured = DOMAIN Profiles
  BY DEF Measured
<1>2. /\ trained = {i \in DOMAIN Profiles : measured[i].train.decided >= MinTrain}
      /\ Recommended(measured) = IF trained = {} THEN 0 ELSE Min(best)
  BY <1>1 DEF Recommended, Trainable
<1>3. trained \in SUBSET DOMAIN measured /\ IsFiniteSet(trained) /\ trained \in SUBSET Nat
  <2>1. Profiles \in Seq([score: Nat, rr: Nat, grade: 0..4, session: STRING])
    BY WalkForwardAssumption
  <2>2. DOMAIN Profiles = 1..Len(Profiles) /\ Len(Profiles) \in Nat
    BY <2>1
  <2>3. trained \in SUBSET (1..Len(Profiles))
    BY <1>1, <2>2
  <2> HIDE DEF trained
  <2>4. IsFiniteSet(trained)
    BY <2>2, <2>3, FinitePlaces
  <2> QED
    BY <1>1, <2>2, <2>3, <2>4
<1>4. \A i \in trained : /\ measured[i].utility \in Int /\ measured[i].test.precision \in Int
                         /\ measured[i].test.decided \in Int
  <2> SUFFICES ASSUME NEW i \in DOMAIN Profiles
               PROVE  /\ measured[i].utility \in Int /\ measured[i].test.precision \in Int
                      /\ measured[i].test.decided \in Int
    BY <1>1
  <2>1. measured[i].utility \in Int /\ measured[i].test \in MetricsOf
    BY MeasuredFacts
  <2> QED
    BY <2>1 DEF MetricsOf
<1>5. ASSUME trained # {}
      PROVE  Min(best) \in best
  <2>1. \E i \in trained : \A j \in trained : ~Better(measured[j], measured[i])
    <3> HIDE DEF measured, trained
    <3> QED
      BY <1>3, <1>4, <1>5, BestExists
  <2>2. best # {} /\ best \in SUBSET Nat
    BY <1>3, <2>1
  <2> HIDE DEF best
  <2> QED
    BY <2>2, LeastNatural
<1> HIDE DEF trained, measured
<1>6. CASE trained = {}
  BY <1>2, <1>6 DEF measured
<1>7. CASE trained # {}
  BY <1>2, <1>5, <1>7 DEF measured
<1> QED
  BY <1>2, <1>6, <1>7 DEF measured

-----------------------------------------------------------------------------
(* The answer. *)

\* ProposalHasForwardProof and NothingWithheld of the first n of some rows.
ForwardProof(rows, n, profile) ==
  LET mine == {i \in 1..n : Matches(rows[i], Profiles[profile])}
  IN  \E now \in 0..SplitTime(SubSeq(rows, 1, n)) :
        LET old == {i \in mine : rows[i].resolved < now}
            new == {i \in mine : rows[i].created >= now + Embargo}
        IN  /\ Cardinality(old) >= MinTrain
            /\ Cardinality(new) >= MinTest
            /\ Precision(Cardinality({i \in new : rows[i].win}), Cardinality(new)) >= Target

NoneWithheld(rows) ==
  Enough(rows)
    => \A i \in DOMAIN Profiles :
         LET train == Metrics(rows, PurgedTrain(rows), Profiles[i])
             test == Metrics(rows, EmbargoedTest(rows), Profiles[i])
         IN  train.decided >= MinTrain => Standing(test) # "FORWARD_TARGET_MET"

LEMMA WholeSequence ==
  ASSUME NEW rows \in Seq(Rows)
  PROVE  SubSeq(rows, 1, Len(rows)) = rows
  OBVIOUS

\* A profile that is trained and has met the target gives the proof.
LEMMA ProofOfChoice ==
  ASSUME NEW rows, InOrder(rows), Len(rows) >= MinTrain + MinTest, NEW c \in DOMAIN Profiles,
         Metrics(rows, PurgedTrain(rows), Profiles[c]).decided >= MinTrain,
         Standing(Metrics(rows, EmbargoedTest(rows), Profiles[c])) = "FORWARD_TARGET_MET"
  PROVE  ForwardProof(rows, Len(rows), c)
<1> DEFINE n == Len(rows)
           now == SplitTime(rows)
           mine == {i \in 1..n : Matches(rows[i], Profiles[c])}
           old == {i \in mine : rows[i].resolved < now}
           new == {i \in mine : rows[i].created >= now + Embargo}
           trained == {i \in PurgedTrain(rows) : Matches(rows[i], Profiles[c])}
           tested == {i \in EmbargoedTest(rows) : Matches(rows[i], Profiles[c])}
           cut == SplitAt(Len(rows))
<1>0. /\ rows \in Seq(Rows) /\ n \in Nat /\ DOMAIN rows = 1..n /\ Embargo \in Nat \ {0}
      /\ MinTest \in Nat \ {0}
  BY WalkForwardAssumption DEF InOrder
<1>1. /\ cut \in Nat /\ 1..cut \subseteq 1..n /\ cut + 1..n \subseteq 1..n
      /\ now \in Nat /\ PurgedTrain(rows) \subseteq DOMAIN rows
      /\ EmbargoedTest(rows) \subseteq DOMAIN rows
      /\ \A i \in 1..cut : rows[i].created <= now
  BY <1>0, SplitFacts
<1>2. trained \subseteq old /\ old \in SUBSET (1..n)
  BY <1>0, <1>1 DEF PurgedTrain
<1>3. tested = new
  <2>1. \A i \in 1..n : rows[i].created >= now + Embargo => i \in cut + 1..n
    <3> SUFFICES ASSUME NEW i \in 1..n, rows[i].created >= now + Embargo, i \notin cut + 1..n
                 PROVE  FALSE
      OBVIOUS
    <3>1. i \in 1..cut
      BY <1>0, <1>1
    <3>2. rows[i].created \in Nat /\ rows[i].created <= now
      BY <1>0, <1>1, <3>1, RowTypes
    <3> QED
      BY <1>0, <1>1, <3>2
  <2> QED
    BY <1>0, <1>1, <2>1 DEF EmbargoedTest
<1>4. Cardinality(old) >= MinTrain
  <2>1. Cardinality(trained) >= MinTrain
    <3>1. PurgedTrain(rows) \in SUBSET DOMAIN rows
      BY <1>1
    <3>2. Metrics(rows, PurgedTrain(rows), Profiles[c]).decided = Cardinality(trained)
      BY <1>0, <3>1, MetricsType
    <3> QED
      BY <3>2
  <2>2. IsFiniteSet(old) /\ Cardinality(old) \in Nat
    BY <1>0, <1>2, FinitePlaces
  <2> HIDE DEF old, trained
  <2>3. IsFiniteSet(trained) /\ Cardinality(trained) <= Cardinality(old)
    BY <1>2, <2>2, FS_Subset
  <2>4. Cardinality(trained) \in Nat /\ MinTrain \in Nat
    BY <2>3, FS_CardinalityType, WalkForwardAssumption
  <2> QED
    BY <2>1, <2>2, <2>3, <2>4
<1>5. LET test == Metrics(rows, EmbargoedTest(rows), Profiles[c])
      IN  /\ test.decided = Cardinality(tested)
          /\ test.precision =
               Precision(Cardinality({i \in tested : rows[i].win}), Cardinality(tested))
  BY <1>0, <1>1, MetricsType
<1>6. /\ Metrics(rows, EmbargoedTest(rows), Profiles[c]).precision >= Target
      /\ ~(Metrics(rows, EmbargoedTest(rows), Profiles[c]).decided < MinTest)
  BY DEF Standing
<1>7. Cardinality(new) >= MinTest
  <2>1. new \in SUBSET (1..n)
    BY <1>0
  <2>2. Cardinality(new) \in Nat
    BY <1>0, <2>1, FinitePlaces
  <2> HIDE DEF new, tested
  <2> QED
    BY <1>0, <1>3, <1>5, <1>6, <2>2
<1>8. Precision(Cardinality({i \in new : rows[i].win}), Cardinality(new)) >= Target
  <2> HIDE DEF new, tested
  <2> QED
    BY <1>3, <1>5, <1>6
<1>9. SplitTime(SubSeq(rows, 1, Len(rows))) = now /\ now \in 0..now
  <2>1. SubSeq(rows, 1, Len(rows)) = rows
    BY <1>0, WholeSequence
  <2>2. now \in 0..now
    <3>1. now \in Nat
      BY <1>1
    <3> HIDE DEF now
    <3> QED
      BY <3>1
  <2> QED
    BY <2>1, <2>2
<1> QED
  BY <1>4, <1>7, <1>8, <1>9 DEF ForwardProof

LEMMA AnswerFacts ==
  ASSUME NEW rows, InOrder(rows), Len(rows) <= MaxRows, NEW s \in LiveSettings
  PROVE  LET a == Answer(rows, s)
         IN  /\ a \in Answers /\ a.rows = Len(rows)
             /\ a.profile = 0 <=> a.status = "NO_PROPOSAL"
             /\ a.status # "NO_PROPOSAL" => ForwardProof(rows, a.rows, a.profile)
             /\ a.status = "NO_PROPOSAL" => NoneWithheld(rows)
<1> DEFINE a == Answer(rows, s)
           choice == Choice(rows)
           measured == Measured(rows)
           met == choice # 0 /\ measured[choice].standing = "FORWARD_TARGET_MET"
           trained == {i \in DOMAIN Profiles : measured[i].train.decided >= MinTrain}
<1>0. /\ Len(rows) \in Nat /\ MaxRows \in Nat /\ Profiles \in Seq([score: Nat, rr: Nat, grade: 0..4, session: STRING])
      /\ DOMAIN Profiles = 1..Len(Profiles) /\ Len(Profiles) \in Nat
  BY WalkForwardAssumption DEF InOrder
<1>1. a = [status |-> IF ~met THEN "NO_PROPOSAL"
                      ELSE IF Diverged(Profiles[choice], s) THEN "PROPOSED" ELSE "NO_DRIFT",
           profile |-> IF met THEN choice ELSE 0, live |-> s, read |-> TRUE,
           rows |-> Len(rows)]
  BY DEF Answer
<1>2. ASSUME Enough(rows)
      PROVE  /\ Len(rows) >= MinTrain + MinTest /\ choice = Recommended(measured)
             /\ trained = {} => choice = 0
             /\ trained # {} => /\ choice \in trained
                                /\ \A j \in trained : ~Better(measured[j], measured[choice])
  BY <1>2, ChoiceIsBest DEF Choice, Enough
<1>3. ~Enough(rows) => choice = 0
  BY DEF Choice
<1>4. choice # 0 => Enough(rows) /\ choice \in trained
  BY <1>2, <1>3
<1>5. choice \in 0..Len(Profiles)
  BY <1>0, <1>4
<1> HIDE DEF choice
<1>6. a \in Answers /\ a.rows = Len(rows) /\ (a.profile = 0 <=> a.status = "NO_PROPOSAL")
  <2> HIDE DEF measured
  <2> QED
    BY <1>0, <1>1, <1>5 DEF Answers, Statuses
<1>7. ASSUME a.status # "NO_PROPOSAL"
      PROVE  ForwardProof(rows, a.rows, a.profile)
  <2>1. met /\ a.profile = choice /\ a.rows = Len(rows)
    BY <1>1, <1>7
  <2>2. /\ Len(rows) >= MinTrain + MinTest /\ choice \in DOMAIN Profiles
        /\ measured[choice].train.decided >= MinTrain
    BY <1>2, <1>4, <2>1
  <2>3. /\ measured[choice].train = Metrics(rows, PurgedTrain(rows), Profiles[choice])
        /\ measured[choice].test = Metrics(rows, EmbargoedTest(rows), Profiles[choice])
        /\ measured[choice].standing = Standing(measured[choice].test)
    BY <2>2, MeasuredFacts
  <2> HIDE DEF measured
  <2> QED
    BY <2>1, <2>2, <2>3, ProofOfChoice
<1>8. ASSUME a.status = "NO_PROPOSAL"
      PROVE  NoneWithheld(rows)
  <2> SUFFICES ASSUME Enough(rows), NEW i \in DOMAIN Profiles,
                      Metrics(rows, PurgedTrain(rows), Profiles[i]).decided >= MinTrain,
                      Standing(Metrics(rows, EmbargoedTest(rows), Profiles[i]))
                        = "FORWARD_TARGET_MET"
               PROVE  FALSE
    BY DEF NoneWithheld
  <2>1. ~met
    BY <1>1, <1>8
  <2>2. measured[i].train.decided >= MinTrain /\ measured[i].standing = "FORWARD_TARGET_MET"
    BY <1>2, MeasuredFacts
  <2> HIDE DEF measured
  <2>3. i \in trained
    BY <2>2
  <2>4. choice \in trained /\ ~Better(measured[i], measured[choice])
    BY <1>2, <2>3
  <2>5. choice # 0
    BY <1>0, <2>4
  <2>6. Met(measured[i]) = 1 /\ Met(measured[choice]) = 0
    BY <2>1, <2>2, <2>5 DEF Met
  <2> QED
    BY <2>4, <2>6, BetterMeans
<1> QED
  BY <1>6, <1>7, <1>8

-----------------------------------------------------------------------------
(* The archive grows, and a stored proposal is about the rows there were. *)

\* The first n rows of a longer archive are what they were.
SameStart(more, rows, n) ==
  /\ \A i \in 1..n : more[i] = rows[i]
  /\ SubSeq(more, 1, n) = SubSeq(rows, 1, n)

LEMMA ProofStays ==
  ASSUME NEW more, NEW rows, NEW n, NEW profile, SameStart(more, rows, n),
         ForwardProof(rows, n, profile)
  PROVE  ForwardProof(more, n, profile)
<1> DEFINE mine == {i \in 1..n : Matches(rows[i], Profiles[profile])}
           here == {i \in 1..n : Matches(more[i], Profiles[profile])}
<1>1. PICK now \in 0..SplitTime(SubSeq(rows, 1, n)) :
        LET old == {i \in mine : rows[i].resolved < now}
            new == {i \in mine : rows[i].created >= now + Embargo}
        IN  /\ Cardinality(old) >= MinTrain
            /\ Cardinality(new) >= MinTest
            /\ Precision(Cardinality({i \in new : rows[i].win}), Cardinality(new)) >= Target
  BY DEF ForwardProof
<1>2. SplitTime(SubSeq(more, 1, n)) = SplitTime(SubSeq(rows, 1, n))
  BY DEF SameStart
<1>3. \A i \in 1..n : more[i] = rows[i]
  BY DEF SameStart
<1> DEFINE old == {i \in mine : rows[i].resolved < now}
           older == {i \in here : more[i].resolved < now}
           new == {i \in mine : rows[i].created >= now + Embargo}
           newer == {i \in here : more[i].created >= now + Embargo}
<1>4. old = older /\ new = newer
  BY <1>3
<1>5. {i \in new : rows[i].win} = {i \in newer : more[i].win}
  BY <1>3
<1> QED
  BY <1>1, <1>2, <1>4, <1>5 DEF ForwardProof

LEMMA LongerArchive ==
  ASSUME NEW rows, InOrder(rows), NEW r \in Rows, r.resolved >= r.created,
         rows # <<>> => r.created >= rows[Len(rows)].created
  PROVE  /\ InOrder(Append(rows, r)) /\ Len(Append(rows, r)) = Len(rows) + 1
         /\ \A n \in 0..Len(rows) : SameStart(Append(rows, r), rows, n)
<1> DEFINE more == Append(rows, r)
<1>1. rows \in Seq(Rows) /\ Len(rows) \in Nat /\ DOMAIN rows = 1..Len(rows)
  BY DEF InOrder
<1>2. /\ more \in Seq(Rows) /\ Len(more) = Len(rows) + 1 /\ DOMAIN more = 1..(Len(rows) + 1)
      /\ more[Len(rows) + 1] = r /\ \A i \in 1..Len(rows) : more[i] = rows[i]
  BY <1>1
<1> HIDE DEF more
<1>3. \A i \in DOMAIN more : more[i].resolved >= more[i].created
  <2> TAKE i \in DOMAIN more
  <2>1. CASE i = Len(rows) + 1
    BY <1>2, <2>1
  <2>2. CASE i \in 1..Len(rows)
    BY <1>1, <1>2, <2>2 DEF InOrder
  <2> QED
    BY <1>1, <1>2, <2>1, <2>2
<1>4. \A i, j \in DOMAIN more : i <= j => more[i].created <= more[j].created
  <2> SUFFICES ASSUME NEW i \in DOMAIN more, NEW j \in DOMAIN more, i <= j
               PROVE  more[i].created <= more[j].created
    OBVIOUS
  <2>1. CASE j \in 1..Len(rows)
    <3>1. i \in 1..Len(rows)
      BY <1>1, <1>2, <2>1
    <3> QED
      BY <1>1, <1>2, <2>1, <3>1 DEF InOrder
  <2>2. CASE j = Len(rows) + 1 /\ i \in 1..Len(rows)
    <3>1. rows # <<>> /\ Len(rows) \in 1..Len(rows) /\ i <= Len(rows)
      BY <1>1, <2>2
    <3>2. rows[i].created <= rows[Len(rows)].created
      BY <1>1, <2>2, <3>1 DEF InOrder
    <3>3. /\ rows[i].created \in Nat /\ rows[Len(rows)].created \in Nat /\ r.created \in Nat
      BY <1>1, <2>2, <3>1, RowTypes DEF Rows
    <3> QED
      BY <1>2, <2>2, <3>1, <3>2, <3>3
  <2>3. CASE i = Len(rows) + 1 /\ j = Len(rows) + 1
    <3>1. more[i] = more[j] /\ more[i] \in Rows
      BY <1>2, <2>3
    <3> QED
      BY <3>1 DEF Rows
  <2> QED
    BY <1>1, <1>2, <2>1, <2>2, <2>3
<1>5. ASSUME NEW n \in 0..Len(rows)
      PROVE  SameStart(more, rows, n)
  <2>1. \A i \in 1..n : more[i] = rows[i]
    BY <1>1, <1>2
  <2>2. SubSeq(more, 1, n) = SubSeq(rows, 1, n)
    BY <1>1, <1>2, <2>1
  <2> QED
    BY <2>1, <2>2 DEF SameStart
<1> QED
  BY <1>2, <1>3, <1>4, <1>5 DEF InOrder, more

-----------------------------------------------------------------------------
(* The inductive invariant. *)

\* The rows are what the query orders; the rest is typed.
WalkTyped ==
  /\ InOrder(archive) /\ Len(archive) <= MaxRows
  /\ settings \in LiveSettings
  /\ live \in LiveSettings \cup {Nothing}
  /\ asked \in [Proposers -> LiveSettings \cup {Nothing}]
  /\ deploys \in 0..MaxDeploys
  /\ answers \in 0..MaxAnswers

ProposalTyped ==
  /\ proposal \in Answers \cup {Nothing}
  /\ proposal # Nothing =>
       /\ proposal.rows <= Len(archive)
       /\ proposal.profile = 0 <=> proposal.status = "NO_PROPOSAL"

WalkIInv == WalkTyped /\ ProposalTyped /\ ProposalHasForwardProof /\ NothingWithheld

LEMMA NothingIsNone == Nothing \notin LiveSettings /\ Nothing \notin Answers
  BY WalkForwardAssumption DEF Nothing, Answers

LEMMA WalkStart == WalkInit => WalkIInv
<1> SUFFICES ASSUME WalkInit PROVE WalkIInv
  OBVIOUS
<1>1. InOrder(<<>>) /\ Len(<<>>) = 0
  BY DEF InOrder
<1> QED
  BY <1>1, WalkForwardAssumption DEF WalkInit, WalkIInv, WalkTyped, ProposalTyped,
     ProposalHasForwardProof, NothingWithheld

LEMMA DecidedKeeps ==
  ASSUME WalkIInv, NEW o \in Outcomes, Decided(o)
  PROVE  WalkIInv'
<1> USE WalkForwardAssumption
<1>t. WalkTyped /\ ProposalTyped /\ ProposalHasForwardProof /\ NothingWithheld
  BY DEF WalkIInv
<1>1. InOrder(archive) /\ archive \in Seq(Rows) /\ Len(archive) \in Nat
  BY <1>t DEF WalkTyped, InOrder
<1>2. o \in [gap: Nat, lag: Nat, win: BOOLEAN, score: Nat, rr: Nat, grade: 0..4, session: STRING]
  OBVIOUS
<1> DEFINE r == Row(o)
           created == IF archive = <<>> THEN 0 ELSE Last(archive).created + o.gap
<1>3. /\ created \in Nat
      /\ archive # <<>> => created >= archive[Len(archive)].created
  <2>1. CASE archive = <<>>
    BY <2>1
  <2>2. CASE archive # <<>>
    <3>1. Len(archive) \in DOMAIN archive
      BY <1>1, <2>2
    <3>2. archive[Len(archive)].created \in Nat
      BY <1>1, <3>1, RowTypes
    <3>3. created = archive[Len(archive)].created + o.gap /\ o.gap \in Nat
      BY <1>2, <2>2 DEF Last
    <3> DEFINE before == archive[Len(archive)].created
               gap == o.gap
    <3>4. before \in Nat /\ gap \in Nat /\ created = before + gap
      BY <3>2, <3>3
    <3> HIDE DEF created, before, gap
    <3>5. created \in Nat /\ created >= before
      BY <3>4
    <3> QED
      BY <3>5 DEF before
  <2> QED
    BY <2>1, <2>2
<1>4. r = [created |-> created, resolved |-> created + o.lag, win |-> o.win,
           score |-> o.score, rr |-> o.rr, grade |-> o.grade, session |-> o.session]
  BY DEF Row
<1> HIDE DEF created
<1>5. r \in Rows /\ r.resolved >= r.created /\ r.created = created
  BY <1>2, <1>3, <1>4 DEF Rows
<1> HIDE DEF r
<1>6. /\ archive' = Append(archive, r) /\ Len(archive) < MaxRows
      /\ UNCHANGED <<settings, live, asked, proposal, deploys, answers>>
  BY DEF Decided, r
<1>7. /\ InOrder(archive') /\ Len(archive') = Len(archive) + 1
      /\ \A n \in 0..Len(archive) : SameStart(archive', archive, n)
  BY <1>1, <1>3, <1>5, <1>6, LongerArchive
<1>8. WalkTyped'
  <2>1. Len(archive') <= MaxRows
    BY <1>1, <1>6, <1>7
  <2> QED
    BY <1>t, <1>6, <1>7, <2>1 DEF WalkTyped
<1>9. proposal # Nothing => proposal.rows \in 0..Len(archive)
  BY <1>t, <1>1 DEF ProposalTyped, Answers
<1>10. ProposalTyped'
  BY <1>t, <1>1, <1>6, <1>7, <1>9 DEF ProposalTyped
<1>11. ProposalHasForwardProof'
  <2> SUFFICES ASSUME proposal # Nothing, proposal.status # "NO_PROPOSAL"
               PROVE  ForwardProof(archive', proposal.rows, proposal.profile)
    BY <1>6 DEF ProposalHasForwardProof, ForwardProof
  <2>1. ForwardProof(archive, proposal.rows, proposal.profile)
    BY <1>t DEF ProposalHasForwardProof, ForwardProof
  <2>2. SameStart(archive', archive, proposal.rows)
    BY <1>7, <1>9
  <2> QED
    BY <2>1, <2>2, ProofStays
<1>12. NothingWithheld'
  <2> SUFFICES ASSUME proposal # Nothing, proposal.status = "NO_PROPOSAL", proposal.read
               PROVE  NoneWithheld(SubSeq(archive', 1, proposal.rows))
    BY <1>6 DEF NothingWithheld, NoneWithheld
  <2>1. NoneWithheld(SubSeq(archive, 1, proposal.rows))
    BY <1>t DEF NothingWithheld, NoneWithheld
  <2>2. SubSeq(archive', 1, proposal.rows) = SubSeq(archive, 1, proposal.rows)
    BY <1>7, <1>9 DEF SameStart
  <2> QED
    BY <2>1, <2>2
<1> QED
  BY <1>8, <1>10, <1>11, <1>12 DEF WalkIInv

\* A proposal that is kept or lost is still about the same rows.
LEMMA SettingsKeep ==
  ASSUME WalkIInv, archive' = archive, proposal' \in {proposal, Nothing},
         WalkTyped'
  PROVE  WalkIInv'
<1>1. CASE proposal' = proposal
  BY <1>1 DEF WalkIInv, ProposalTyped, ProposalHasForwardProof, NothingWithheld
<1>2. CASE proposal' = Nothing
  BY <1>2 DEF WalkIInv, ProposalTyped, ProposalHasForwardProof, NothingWithheld
<1> QED
  BY <1>1, <1>2

LEMMA ComputeKeepsProof ==
  ASSUME WalkIInv, NEW p \in Proposers, ComputeProposal(p) \/ QueryFails(p)
  PROVE  WalkIInv'
<1> USE WalkForwardAssumption
<1>t. WalkTyped
  BY DEF WalkIInv
<1>0. /\ InOrder(archive) /\ Len(archive) \in 0..MaxRows /\ archive \in Seq(Rows)
      /\ asked \in [Proposers -> LiveSettings \cup {Nothing}]
  BY <1>t DEF WalkTyped, InOrder
<1>1. /\ asked[p] \in LiveSettings /\ UNCHANGED <<archive, settings, live, deploys, answers>>
      /\ asked' = [asked EXCEPT ![p] = Nothing]
      /\ InOrder(archive) /\ Len(archive) \in 0..MaxRows /\ archive \in Seq(Rows)
  <2>1. asked[p] # Nothing
    BY DEF ComputeProposal, QueryFails
  <2>2. /\ UNCHANGED <<archive, settings, live, deploys, answers>>
        /\ asked' = [asked EXCEPT ![p] = Nothing]
    BY DEF ComputeProposal, QueryFails
  <2> QED
    BY <1>0, <2>1, <2>2
<1>2. WalkTyped'
  BY <1>t, <1>1 DEF WalkTyped
<1>3. CASE ComputeProposal(p)
  <2> DEFINE a == Answer(archive, asked[p])
  <2>1. proposal' = a
    BY <1>3 DEF ComputeProposal
  <2>2. /\ a \in Answers /\ a.rows = Len(archive)
        /\ a.profile = 0 <=> a.status = "NO_PROPOSAL"
        /\ a.status # "NO_PROPOSAL" => ForwardProof(archive, a.rows, a.profile)
        /\ a.status = "NO_PROPOSAL" => NoneWithheld(archive)
    BY <1>1, AnswerFacts
  <2> HIDE DEF a
  <2>3. ProposalTyped'
    BY <1>1, <2>1, <2>2 DEF ProposalTyped
  <2>4. ProposalHasForwardProof'
    <3>1. (proposal' # Nothing /\ proposal'.status # "NO_PROPOSAL"
             => ForwardProof(archive', proposal'.rows, proposal'.profile))
          => ProposalHasForwardProof'
      BY DEF ProposalHasForwardProof, ForwardProof
    <3> QED
      BY <1>1, <2>1, <2>2, <3>1
  <2>5. NothingWithheld'
    <3>1. archive = SubSeq(archive, 1, a.rows)
      BY <1>1, <2>2, WholeSequence
    <3> SUFFICES ASSUME a.status = "NO_PROPOSAL"
                 PROVE  NoneWithheld(archive)
      BY <1>1, <2>1, <3>1 DEF NothingWithheld, NoneWithheld
    <3> QED
      BY <2>2
  <2> QED
    BY <1>2, <2>3, <2>4, <2>5 DEF WalkIInv
<1>4. CASE QueryFails(p)
  <2>1. proposal' = [status |-> "NO_PROPOSAL", profile |-> 0, live |-> asked[p],
                     read |-> FALSE, rows |-> Len(archive)]
    BY <1>4 DEF QueryFails
  <2>2. ProposalTyped'
    BY <1>1, <2>1 DEF ProposalTyped, Answers, Statuses
  <2>3. ProposalHasForwardProof' /\ NothingWithheld'
    BY <2>1 DEF ProposalHasForwardProof, NothingWithheld
  <2> QED
    BY <1>2, <2>2, <2>3 DEF WalkIInv
<1> QED
  BY <1>3, <1>4

LEMMA WalkStep == WalkIInv /\ [WalkNext]_walkVars => WalkIInv'
<1> SUFFICES ASSUME WalkIInv, [WalkNext]_walkVars PROVE WalkIInv'
  OBVIOUS
<1> USE WalkForwardAssumption
<1>t. WalkTyped
  BY DEF WalkIInv
<1>1. CASE UNCHANGED walkVars
  <2>1. WalkTyped' /\ archive' = archive /\ proposal' = proposal
    BY <1>t, <1>1 DEF WalkTyped, walkVars
  <2> QED
    BY <2>1, SettingsKeep
<1>2. CASE \E o \in Outcomes : Decided(o)
  BY <1>2, DecidedKeeps
<1>3. CASE \E s \in LiveSettings : Deploy(s)
  <2>1. WalkTyped' /\ archive' = archive /\ proposal' = proposal
    BY <1>t, <1>3 DEF WalkTyped, Deploy
  <2> QED
    BY <2>1, SettingsKeep
<1>4. CASE RedisFlushed
  <2>1. WalkTyped' /\ archive' = archive /\ proposal' = Nothing
    BY <1>t, <1>4 DEF WalkTyped, RedisFlushed
  <2> QED
    BY <2>1, SettingsKeep
<1>5. CASE Republish
  <2>1. WalkTyped' /\ archive' = archive /\ proposal' = proposal
    BY <1>t, <1>5 DEF WalkTyped, Republish
  <2> QED
    BY <2>1, SettingsKeep
<1>6. CASE \E p \in Proposers : ReadLiveConfig(p) \/ ComputeFails(p)
  <2>1. WalkTyped' /\ archive' = archive /\ proposal' = proposal
    <3>1. PICK p \in Proposers : ReadLiveConfig(p) \/ ComputeFails(p)
      BY <1>6
    <3>2. /\ UNCHANGED <<archive, settings, live, proposal, deploys>>
          /\ asked' \in [Proposers -> LiveSettings \cup {Nothing}]
          /\ answers' \in 0..MaxAnswers
      <4>1. CASE ReadLiveConfig(p)
        BY <1>t, <4>1 DEF WalkTyped, ReadLiveConfig
      <4>2. CASE ComputeFails(p)
        BY <1>t, <4>2 DEF WalkTyped, ComputeFails
      <4> QED
        BY <3>1, <4>1, <4>2
    <3> QED
      BY <1>t, <3>2 DEF WalkTyped
  <2> QED
    BY <2>1, SettingsKeep
<1>7. CASE \E p \in Proposers : ComputeProposal(p) \/ QueryFails(p)
  BY <1>7, ComputeKeepsProof
<1> QED
  BY <1>1, <1>2, <1>3, <1>4, <1>5, <1>6, <1>7 DEF WalkNext

\* The archive is in order, and what is stored of a proposal is what
\* compute_walkforward found in the rows it has read.
THEOREM WalkInvariant == WalkSpec => []WalkIInv
  BY WalkStart, WalkStep, PTL DEF WalkSpec

\* A proposal is trained before it is tested, met its target on signals that
\* came later, and none that could be trained and met it is withheld.
THEOREM ProposalsAreProven == WalkSpec => []WalkSafe
<1>1. WalkIInv => WalkSafe
  <2> SUFFICES ASSUME WalkIInv PROVE WalkSafe
    OBVIOUS
  <2>t. WalkTyped /\ ProposalTyped /\ ProposalHasForwardProof /\ NothingWithheld
    BY DEF WalkIInv
  <2>1. \A i \in DOMAIN archive :
          /\ archive[i].resolved >= archive[i].created
          /\ i > 1 => archive[i].created >= archive[i-1].created
    <3> TAKE i \in DOMAIN archive
    <3>1. /\ archive \in Seq(Rows) /\ DOMAIN archive = 1..Len(archive)
          /\ \A j, k \in DOMAIN archive : j <= k => archive[j].created <= archive[k].created
          /\ archive[i].resolved >= archive[i].created
      BY <2>t DEF WalkTyped, InOrder
    <3>2. ASSUME i > 1
          PROVE  archive[i].created >= archive[i-1].created
      <4>1. i - 1 \in DOMAIN archive /\ i - 1 <= i
        BY <3>1, <3>2
      <4>2. archive[i-1].created \in Nat /\ archive[i].created \in Nat
        BY <3>1, <4>1, RowTypes
      <4> QED
        BY <3>1, <4>1, <4>2
    <3> QED
      BY <3>1, <3>2
  <2>2. WalkTypeOK
    BY <2>t, <2>1 DEF WalkTypeOK, WalkTyped, ProposalTyped
  <2>3. TrainBeforeTest
    BY <2>t, SplitLooksForward DEF TrainBeforeTest, WalkTyped
  <2> QED
    BY <2>t, <2>2, <2>3 DEF WalkSafe
<1> QED
  BY <1>1, WalkInvariant, PTL
===============================================================================
