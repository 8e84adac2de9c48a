------------------------------- MODULE SetLemmas -------------------------------
(***************************************************************************)
(* Facts about finite sets that the proofs of several components need:     *)
(* least and greatest elements, induction over the subsets of a finite     *)
(* set, and sums over one.  None of them is about this program.            *)
(***************************************************************************)
EXTENDS Integers, FiniteSets, FiniteSetsExt, FiniteSetTheorems, WellFoundedInduction,
        TLAPS

-----------------------------------------------------------------------------
(* Least and greatest elements. *)

\* A set of natural numbers has a least element.
LEMMA LeastNatural ==
  ASSUME NEW S \in SUBSET Nat, S # {}
  PROVE  /\ Min(S) \in S /\ \A y \in S : Min(S) <= y
         /\ \E x \in S : \A y \in S : x <= y
<1>1. \E x \in S : \A y \in S : ~(<<y, x>> \in OpToRel(<, Nat))
  BY NatLessThanWellFounded, WFMin
<1>2. PICK x \in S : \A y \in S : ~(<<y, x>> \in OpToRel(<, Nat))
  BY <1>1
<1>3. S \subseteq Nat /\ \A y \in S : y \in Nat
  OBVIOUS
<1>4. \A y \in S : ~(y < x)
  BY <1>2, <1>3 DEF OpToRel
<1>5. \A y \in S : x <= y
  BY <1>3, <1>4
<1> QED
  BY <1>5 DEF Min

\* Induction over the subsets of a finite set.
LEMMA SubsetInduction ==
  ASSUME NEW S, IsFiniteSet(S), NEW Good \in SUBSET (SUBSET S),
         {} \in Good,
         \A s \in SUBSET S : s # {} /\ (\A x \in s : s \ {x} \in Good) => s \in Good
  PROVE  \A s \in SUBSET S : s \in Good
<1> SUFFICES ASSUME NEW s0 \in SUBSET S, s0 \notin Good
             PROVE  FALSE
  OBVIOUS
<1> DEFINE Sizes == {Cardinality(s) : s \in (SUBSET S) \ Good}
<1>1. \A s \in SUBSET S : IsFiniteSet(s) /\ Cardinality(s) \in Nat
  BY FS_Subset, FS_CardinalityType
<1>2. Sizes \in SUBSET Nat /\ Sizes # {}
  BY <1>1
<1>3. PICK n \in Sizes : \A k \in Sizes : n <= k
  <2> HIDE DEF Sizes
  <2> QED
    BY <1>2, LeastNatural
<1>4. PICK s \in SUBSET S : s \notin Good /\ Cardinality(s) = n
  BY <1>3
<1>5. \A x \in s : s \ {x} \in Good
  <2> SUFFICES ASSUME NEW x \in s, s \ {x} \notin Good
               PROVE  FALSE
    OBVIOUS
  <2>1. Cardinality(s \ {x}) = n - 1 /\ n \in Nat
    BY <1>1, <1>4, FS_RemoveElement
  <2>2. Cardinality(s \ {x}) \in Sizes
    OBVIOUS
  <2> HIDE DEF Sizes
  <2> QED
    BY <1>3, <2>1, <2>2
<1> QED
  BY <1>4, <1>5

\* A finite set of integers has a greatest element.
LEMMA GreatestInteger ==
  ASSUME NEW S \in SUBSET Int, IsFiniteSet(S), S # {}
  PROVE  /\ Max(S) \in S /\ \A y \in S : y <= Max(S)
         /\ \E x \in S : \A y \in S : y <= x
<1> DEFINE Good == {s \in SUBSET S : s # {} => \E x \in s : \A y \in s : y <= x}
<1>1. ASSUME NEW s \in SUBSET S, s # {}, \A x \in s : s \ {x} \in Good
      PROVE  s \in Good
  <2>1. PICK a \in s : TRUE
    BY <1>1
  <2>2. CASE s \ {a} = {}
    BY <2>1, <2>2
  <2>3. CASE s \ {a} # {}
    <3>1. PICK b \in s \ {a} : \A y \in s \ {a} : y <= b
      BY <1>1, <2>1, <2>3
    <3>2. CASE a <= b
      BY <3>1, <3>2
    <3>3. CASE ~(a <= b)
      BY <3>1, <3>3
    <3> QED
      BY <3>2, <3>3
  <2> QED
    BY <2>2, <2>3
<1>2. {} \in Good /\ Good \in SUBSET (SUBSET S)
  OBVIOUS
<1>3. S \in Good
  <2> HIDE DEF Good
  <2>1. \A s \in SUBSET S : s # {} /\ (\A x \in s : s \ {x} \in Good) => s \in Good
    BY <1>1
  <2> QED
    BY <1>2, <2>1, SubsetInduction
<1>4. PICK x \in S : \A y \in S : y <= x
  BY <1>3
<1> QED
  BY <1>4 DEF Max

\* Places in a list are integers, and finitely many.
LEMMA FinitePlaces ==
  ASSUME NEW n \in Nat, NEW S \in SUBSET (1..n)
  PROVE  S \in SUBSET Int /\ IsFiniteSet(S) /\ Cardinality(S) \in Nat
<1>1. IsFiniteSet(1..n)
  BY FS_Interval
<1>2. IsFiniteSet(S)
  BY <1>1, FS_Subset
<1>3. Cardinality(S) \in Nat
  BY <1>2, FS_CardinalityType
<1> QED
  BY <1>2, <1>3

\* What a function makes of a finite set is finite.
LEMMA FiniteImage ==
  ASSUME NEW S, IsFiniteSet(S), NEW f
  PROVE  IsFiniteSet({f[x] : x \in S})
<1> DEFINE Image(s) == {f[x] : x \in s}
           Good == {s \in SUBSET S : IsFiniteSet(Image(s))}
<1>1. {} \in Good /\ Good \in SUBSET (SUBSET S)
  <2>1. Image({}) = {}
    OBVIOUS
  <2> QED
    BY <2>1, FS_EmptySet
<1>2. ASSUME NEW s \in SUBSET S, s # {}, \A x \in s : s \ {x} \in Good
      PROVE  s \in Good
  <2>1. PICK a \in s : TRUE
    BY <1>2
  <2>2. IsFiniteSet(Image(s \ {a}))
    BY <1>2, <2>1
  <2>3. Image(s) = Image(s \ {a}) \cup {f[a]}
    BY <2>1
  <2>4. IsFiniteSet(Image(s))
    <3> DEFINE T == Image(s \ {a})
               v == f[a]
    <3>1. IsFiniteSet(T) /\ Image(s) = T \cup {v}
      BY <2>2, <2>3
    <3> HIDE DEF Image, T, v
    <3>2. IsFiniteSet(T \cup {v})
      BY <3>1, FS_AddElement
    <3> QED
      BY <3>1, <3>2
  <2> QED
    BY <2>4
<1>3. S \in Good
  <2> HIDE DEF Good
  <2>1. \A s \in SUBSET S : s # {} /\ (\A x \in s : s \ {x} \in Good) => s \in Good
    BY <1>2
  <2> QED
    BY <1>1, <2>1, SubsetInduction
<1> QED
  BY <1>3

-----------------------------------------------------------------------------
(* Sums. *)

Pick(s) == CHOOSE x \in s : TRUE

\* g gives every subset of S the sum of f over it.
IsSum(g, f, S) ==
  g = [s \in SUBSET S |->
         IF s = {} THEN 0 ELSE f[Pick(s)] + g[s \ {Pick(s)}]]

SumOf(f, S) == (CHOOSE g : IsSum(g, f, S))[S]

\* Two sums of a function agree on what they both are sums of.
LEMMA SumsAgree ==
  ASSUME NEW D, NEW f \in [D -> Int], NEW S \in SUBSET D, IsFiniteSet(S),
         NEW R \in SUBSET S, NEW g, IsSum(g, f, S), NEW h, IsSum(h, f, R)
  PROVE  \A s \in SUBSET R : g[s] = h[s] /\ h[s] \in Int
<1> DEFINE Good == {s \in SUBSET R : g[s] = h[s] /\ h[s] \in Int}
<1>0. IsFiniteSet(R)
  BY FS_Subset
<1>1. \A s \in SUBSET R : s # {} => Pick(s) \in s
  BY DEF Pick
<1>2. /\ \A s \in SUBSET R : g[s] = IF s = {} THEN 0 ELSE f[Pick(s)] + g[s \ {Pick(s)}]
      /\ \A s \in SUBSET R : h[s] = IF s = {} THEN 0 ELSE f[Pick(s)] + h[s \ {Pick(s)}]
  BY DEF IsSum
<1>3. {} \in Good
  <2>1. {} \in SUBSET R /\ g[{}] = 0 /\ h[{}] = 0
    BY <1>2
  <2> QED
    BY <2>1
<1>4. ASSUME NEW s \in SUBSET R, s # {}, \A x \in s : s \ {x} \in Good
      PROVE  s \in Good
  <2>1. Pick(s) \in s /\ s \ {Pick(s)} \in Good /\ f[Pick(s)] \in Int
    BY <1>1, <1>4
  <2>2. g[s] = f[Pick(s)] + g[s \ {Pick(s)}] /\ h[s] = f[Pick(s)] + h[s \ {Pick(s)}]
    BY <1>2, <1>4
  <2> QED
    BY <2>1, <2>2
<1>5. Good \in SUBSET (SUBSET R)
  OBVIOUS
<1>6. \A s \in SUBSET R : s \in Good
  <2> HIDE DEF Good
  <2> QED
    BY <1>0, <1>3, <1>4, <1>5, SubsetInduction
<1> QED
  BY <1>6

\* Every function of integers has a sum over every finite set.
LEMMA SumExists ==
  ASSUME NEW D, NEW f \in [D -> Int], NEW S \in SUBSET D, IsFiniteSet(S)
  PROVE  \E g : IsSum(g, f, S)
<1> DEFINE Upto(n) ==
      \E g \in [SUBSET S -> Int] : \A s \in SUBSET S : Cardinality(s) <= n =>
        g[s] = IF s = {} THEN 0 ELSE f[Pick(s)] + g[s \ {Pick(s)}]
<1> DEFINE Bad == {n \in Nat : ~Upto(n)}
<1>1. \A s \in SUBSET S : /\ IsFiniteSet(s) /\ Cardinality(s) \in Nat
                          /\ (Cardinality(s) = 0 <=> s = {})
  BY FS_Subset, FS_CardinalityType, FS_EmptySet
<1>2. \A s \in SUBSET S : s # {} =>
        /\ Pick(s) \in s /\ f[Pick(s)] \in Int /\ s \ {Pick(s)} \in SUBSET S
        /\ Cardinality(s \ {Pick(s)}) = Cardinality(s) - 1
  BY <1>1, FS_RemoveElement DEF Pick
<1>3. Upto(0)
  <2> DEFINE g == [s \in SUBSET S |-> 0]
  <2>1. g \in [SUBSET S -> Int]
    OBVIOUS
  <2>2. \A s \in SUBSET S : Cardinality(s) <= 0 => s = {}
    BY <1>1
  <2>3. \A s \in SUBSET S : Cardinality(s) <= 0 =>
          g[s] = IF s = {} THEN 0 ELSE f[Pick(s)] + g[s \ {Pick(s)}]
    BY <2>2
  <2> QED
    BY <2>1, <2>3
<1>4. ASSUME NEW n \in Nat, Upto(n)
      PROVE  Upto(n + 1)
  <2>1. PICK g \in [SUBSET S -> Int] : \A s \in SUBSET S : Cardinality(s) <= n =>
          g[s] = IF s = {} THEN 0 ELSE f[Pick(s)] + g[s \ {Pick(s)}]
    BY <1>4
  <2> DEFINE h == [s \in SUBSET S |->
                     IF Cardinality(s) <= n THEN g[s]
                     ELSE IF s = {} THEN 0 ELSE f[Pick(s)] + g[s \ {Pick(s)}]]
  <2>2. ASSUME NEW s \in SUBSET S
        PROVE  h[s] \in Int
    BY <1>2
  <2>3. h \in [SUBSET S -> Int]
    BY <2>2
  <2>4. ASSUME NEW s \in SUBSET S, Cardinality(s) <= n + 1
        PROVE  h[s] = IF s = {} THEN 0 ELSE f[Pick(s)] + h[s \ {Pick(s)}]
    <3>1. CASE s = {}
      <4>1. Cardinality(s) <= n
        BY <1>1, <3>1
      <4> QED
        BY <2>1, <3>1, <4>1
    <3>2. CASE s # {}
      <4>1. s \ {Pick(s)} \in SUBSET S /\ Cardinality(s \ {Pick(s)}) <= n
        BY <1>1, <1>2, <2>4, <3>2
      <4>2. h[s \ {Pick(s)}] = g[s \ {Pick(s)}]
        BY <4>1
      <4>3. h[s] = f[Pick(s)] + g[s \ {Pick(s)}]
        BY <2>1, <3>2
      <4> QED
        BY <3>2, <4>2, <4>3
    <3> QED
      BY <3>1, <3>2
  <2> HIDE DEF h
  <2> QED
    BY <2>3, <2>4
<1>5. Bad = {}
  <2> SUFFICES ASSUME Bad # {}
               PROVE  FALSE
    OBVIOUS
  <2> HIDE DEF Upto
  <2>1. PICK n \in Bad : \A k \in Bad : n <= k
    <3>1. Bad \in SUBSET Nat
      OBVIOUS
    <3> HIDE DEF Bad
    <3> QED
      BY <3>1, LeastNatural
  <2>2. n \in Nat /\ n # 0 /\ ~Upto(n)
    BY <1>3, <2>1
  <2>3. n - 1 \in Nat /\ n - 1 \notin Bad
    BY <2>1, <2>2
  <2>4. Upto(n - 1)
    BY <2>3
  <2>5. Upto((n - 1) + 1)
    BY <1>4, <2>3, <2>4
  <2> QED
    BY <2>2, <2>5
<1>6. Cardinality(S) \in Nat /\ \A s \in SUBSET S : Cardinality(s) <= Cardinality(S)
  BY FS_Subset, FS_CardinalityType
<1>7. Upto(Cardinality(S))
  <2> HIDE DEF Upto
  <2> QED
    BY <1>5, <1>6
<1>8. PICK g \in [SUBSET S -> Int] : \A s \in SUBSET S :
        g[s] = IF s = {} THEN 0 ELSE f[Pick(s)] + g[s \ {Pick(s)}]
  BY <1>6, <1>7
<1>9. g = [s \in SUBSET S |-> IF s = {} THEN 0 ELSE f[Pick(s)] + g[s \ {Pick(s)}]]
  BY <1>8
<1> QED
  BY <1>9 DEF IsSum

\* What a sum over S says of a subset of S is the sum over it.
LEMMA SumOfSubset ==
  ASSUME NEW D, NEW f \in [D -> Int], NEW S \in SUBSET D, IsFiniteSet(S),
         NEW g, IsSum(g, f, S)
  PROVE  \A R \in SUBSET S : g[R] = SumOf(f, R) /\ SumOf(f, R) \in Int
<1> TAKE R \in SUBSET S
<1>1. IsFiniteSet(R) /\ R \in SUBSET D
  BY FS_Subset
<1>2. \E h : IsSum(h, f, R)
  BY <1>1, SumExists
<1> DEFINE h == CHOOSE h : IsSum(h, f, R)
<1>3. IsSum(h, f, R)
  BY <1>2
<1>4. SumOf(f, R) = h[R]
  BY DEF SumOf
<1> HIDE DEF h
<1>5. g[R] = h[R] /\ h[R] \in Int
  BY <1>3, SumsAgree
<1> QED
  BY <1>4, <1>5

\* The sum over a finite set is an integer; over the empty set it is 0; and one
\* element less takes its value from it, whichever element it is.
LEMMA SumFacts ==
  ASSUME NEW D, NEW f \in [D -> Int], NEW S \in SUBSET D, IsFiniteSet(S)
  PROVE  /\ SumOf(f, S) \in Int
         /\ S = {} => SumOf(f, S) = 0
         /\ \A x \in S : SumOf(f, S) = f[x] + SumOf(f, S \ {x})
<1>1. PICK g : IsSum(g, f, S)
  BY SumExists
<1>2. \A R \in SUBSET S : g[R] = SumOf(f, R) /\ SumOf(f, R) \in Int
  BY <1>1, SumOfSubset
<1>3. \A s \in SUBSET S : g[s] = IF s = {} THEN 0 ELSE f[Pick(s)] + g[s \ {Pick(s)}]
  BY <1>1 DEF IsSum
<1>4. \A s \in SUBSET S : s # {} => Pick(s) \in s
  BY DEF Pick
<1> DEFINE Good == {s \in SUBSET S : \A x \in s : g[s] = f[x] + g[s \ {x}]}
<1>5. ASSUME NEW s \in SUBSET S, s # {}, \A x \in s : s \ {x} \in Good
      PROVE  s \in Good
  <2> SUFFICES ASSUME NEW x \in s, x # Pick(s)
               PROVE  g[s] = f[x] + g[s \ {x}]
    BY <1>3
  <2> DEFINE p == Pick(s)
             r == (s \ {p}) \ {x}
  <2>1. p \in s /\ g[s] = f[p] + g[s \ {p}]
    BY <1>3, <1>4, <1>5
  <2>2. g[s \ {p}] = f[x] + g[r]
    BY <1>5, <2>1
  <2>3. r = (s \ {x}) \ {p} /\ p \in s \ {x} /\ s \ {x} \in Good
    BY <1>5, <2>1
  <2>4. g[s \ {x}] = f[p] + g[r]
    BY <2>3
  <2>5. f[p] \in Int /\ f[x] \in Int /\ g[r] \in Int
    <3>1. r \in SUBSET S /\ p \in D /\ x \in D
      BY <2>1
    <3> QED
      BY <1>2, <3>1
  <2> HIDE DEF r, p
  <2> QED
    BY <2>1, <2>2, <2>4, <2>5
<1>6. \A s \in SUBSET S : s \in Good
  <2>1. {} \in Good /\ Good \in SUBSET (SUBSET S)
    OBVIOUS
  <2> HIDE DEF Good
  <2> QED
    BY <1>5, <2>1, SubsetInduction
<1>7. \A x \in S : g[S] = f[x] + g[S \ {x}]
  BY <1>6
<1> QED
  BY <1>2, <1>3, <1>7

\* The sum over two disjoint sets is the sum of their sums.
LEMMA SumDisjoint ==
  ASSUME NEW D, NEW f \in [D -> Int], NEW R \in SUBSET D, IsFiniteSet(R),
         NEW T \in SUBSET D, IsFiniteSet(T), R \cap T = {}
  PROVE  SumOf(f, R \cup T) = SumOf(f, R) + SumOf(f, T)
<1> DEFINE Good == {t \in SUBSET T : SumOf(f, R \cup t) = SumOf(f, R) + SumOf(f, t)}
<1>1. \A t \in SUBSET T :
        /\ t \in SUBSET D /\ IsFiniteSet(t) /\ R \cup t \in SUBSET D /\ IsFiniteSet(R \cup t)
        /\ SumOf(f, t) \in Int /\ SumOf(f, R \cup t) \in Int
  BY FS_Subset, FS_Union, SumFacts
<1>2. {} \in Good
  <2>1. R \cup {} = R /\ SumOf(f, {}) = 0 /\ SumOf(f, R) \in Int
    BY <1>1, SumFacts
  <2> QED
    BY <2>1
<1>3. ASSUME NEW t \in SUBSET T, t # {}, \A x \in t : t \ {x} \in Good
      PROVE  t \in Good
  <2>1. PICK x \in t : TRUE
    BY <1>3
  <2>2. SumOf(f, R \cup (t \ {x})) = SumOf(f, R) + SumOf(f, t \ {x})
    BY <1>3, <2>1
  <2> DEFINE u == R \cup t
  <2>3. t \in SUBSET D /\ IsFiniteSet(t) /\ u \in SUBSET D /\ IsFiniteSet(u) /\ x \in u
    BY <1>1, <2>1
  <2>4. u \ {x} = R \cup (t \ {x})
    BY <2>1
  <2> HIDE DEF u
  <2>5. SumOf(f, t) = f[x] + SumOf(f, t \ {x})
    BY <2>1, <2>3, SumFacts
  <2>6. SumOf(f, u) = f[x] + SumOf(f, u \ {x})
    BY <2>3, SumFacts
  <2>7. f[x] \in Int /\ SumOf(f, R) \in Int /\ SumOf(f, t \ {x}) \in Int
    <3>1. t \ {x} \in SUBSET T
      OBVIOUS
    <3> QED
      BY <1>1, <2>1, <2>3, <3>1, SumFacts
  <2>8. SumOf(f, u) = SumOf(f, R) + SumOf(f, t)
    <3> DEFINE p == SumOf(f, R)
               q == SumOf(f, t \ {x})
               y == f[x]
    <3>1. SumOf(f, t) = y + q /\ SumOf(f, u) = y + (p + q)
      BY <2>2, <2>4, <2>5, <2>6
    <3>2. y \in Int /\ p \in Int /\ q \in Int
      BY <2>7
    <3> HIDE DEF p, q, y
    <3>3. y + (p + q) = p + (y + q)
      BY <3>2
    <3> QED
      BY <3>1, <3>3 DEF p
  <2>9. SumOf(f, R \cup t) = SumOf(f, R) + SumOf(f, t)
    BY <2>8 DEF u
  <2> QED
    BY <2>9
<1>4. T \in Good
  <2>1. Good \in SUBSET (SUBSET T) /\ \A t \in SUBSET T :
          t # {} /\ (\A x \in t : t \ {x} \in Good) => t \in Good
    BY <1>3
  <2> HIDE DEF Good
  <2>2. \A u \in SUBSET T : u \in Good
    BY <1>2, <2>1, SubsetInduction
  <2> QED
    BY <2>2
<1> QED
  BY <1>4

\* Naturals add up to a natural.
LEMMA SumNatural ==
  ASSUME NEW D, NEW f \in [D -> Nat], NEW S \in SUBSET D, IsFiniteSet(S)
  PROVE  SumOf(f, S) \in Nat
<1> DEFINE Good == {s \in SUBSET S : SumOf(f, s) \in Nat}
<1>1. f \in [D -> Int]
  OBVIOUS
<1>2. \A s \in SUBSET S : s \in SUBSET D /\ IsFiniteSet(s)
  BY FS_Subset
<1>3. {} \in Good
  <2>1. SumOf(f, {}) = 0
    BY <1>1, <1>2, SumFacts
  <2> QED
    BY <2>1
<1>4. ASSUME NEW s \in SUBSET S, s # {}, \A x \in s : s \ {x} \in Good
      PROVE  s \in Good
  <2>1. PICK x \in s : TRUE
    BY <1>4
  <2>2. SumOf(f, s) = f[x] + SumOf(f, s \ {x})
    BY <1>1, <1>2, <2>1, SumFacts
  <2>3. SumOf(f, s \ {x}) \in Nat /\ f[x] \in Nat
    BY <1>4, <2>1
  <2>4. SumOf(f, s) \in Nat
    BY <2>2, <2>3
  <2> QED
    BY <2>4
<1>5. S \in Good
  <2>1. Good \in SUBSET (SUBSET S) /\ \A s \in SUBSET S :
          s # {} /\ (\A x \in s : s \ {x} \in Good) => s \in Good
    BY <1>4
  <2> HIDE DEF Good
  <2> QED
    BY <1>3, <2>1, SubsetInduction
<1> QED
  BY <1>5

\* Of naturals, a part adds up to no more than the whole.
LEMMA SumOfPart ==
  ASSUME NEW D, NEW f \in [D -> Nat], NEW S \in SUBSET D, IsFiniteSet(S), NEW R \in SUBSET S
  PROVE  SumOf(f, R) \in Nat /\ SumOf(f, S) \in Nat /\ SumOf(f, R) <= SumOf(f, S)
<1>1. /\ IsFiniteSet(R) /\ IsFiniteSet(S \ R) /\ R \in SUBSET D /\ S \ R \in SUBSET D
      /\ R \cap (S \ R) = {} /\ R \cup (S \ R) = S /\ f \in [D -> Int]
  BY FS_Subset
<1>2. SumOf(f, S) = SumOf(f, R) + SumOf(f, S \ R)
  BY <1>1, SumDisjoint
<1>3. SumOf(f, R) \in Nat /\ SumOf(f, S \ R) \in Nat
  BY <1>1, SumNatural
<1> QED
  BY <1>2, <1>3

\* Functions that agree on a set have one sum over it.
LEMMA SumSame ==
  ASSUME NEW D, NEW f \in [D -> Int], NEW C, NEW g \in [C -> Int],
         NEW S \in SUBSET (D \cap C), IsFiniteSet(S), \A x \in S : f[x] = g[x]
  PROVE  SumOf(f, S) = SumOf(g, S)
<1> DEFINE Good == {s \in SUBSET S : SumOf(f, s) = SumOf(g, s)}
<1>1. \A s \in SUBSET S : s \in SUBSET D /\ s \in SUBSET C /\ IsFiniteSet(s)
  BY FS_Subset
<1>2. {} \in Good
  <2>1. SumOf(f, {}) = 0 /\ SumOf(g, {}) = 0
    BY <1>1, SumFacts
  <2> QED
    BY <2>1
<1>3. ASSUME NEW s \in SUBSET S, s # {}, \A x \in s : s \ {x} \in Good
      PROVE  s \in Good
  <2>1. PICK x \in s : TRUE
    BY <1>3
  <2>2. SumOf(f, s) = f[x] + SumOf(f, s \ {x})
    BY <1>1, <2>1, SumFacts
  <2>3. SumOf(g, s) = g[x] + SumOf(g, s \ {x})
    BY <1>1, <2>1, SumFacts
  <2>4. SumOf(f, s \ {x}) = SumOf(g, s \ {x}) /\ f[x] = g[x]
    BY <1>3, <2>1
  <2>5. SumOf(f, s) = SumOf(g, s)
    BY <2>2, <2>3, <2>4
  <2> QED
    BY <2>5
<1>4. S \in Good
  <2>1. Good \in SUBSET (SUBSET S) /\ \A s \in SUBSET S :
          s # {} /\ (\A x \in s : s \ {x} \in Good) => s \in Good
    BY <1>3
  <2> HIDE DEF Good
  <2>2. \A u \in SUBSET S : u \in Good
    BY <1>2, <2>1, SubsetInduction
  <2> QED
    BY <2>2
<1> QED
  BY <1>4

-----------------------------------------------------------------------------
(* Division by a positive number. *)

\* The quotient is the last multiple that fits.
LEMMA DivType ==
  ASSUME NEW a \in Nat, NEW n \in Nat \ {0}
  PROVE  /\ a \div n \in Nat /\ n * (a \div n) <= a /\ a < n * (a \div n) + n
  OBVIOUS

\* A larger number has no smaller quotient.
LEMMA DivMonotone ==
  ASSUME NEW a \in Nat, NEW b \in Nat, a <= b, NEW n \in Nat \ {0}
  PROVE  a \div n <= b \div n
<1> DEFINE p == a \div n
           q == b \div n
<1>1. p \in Nat /\ q \in Nat /\ n * p <= a /\ b < n * q + n
  BY DivType
<1> HIDE DEF p, q
<1>2. ASSUME q < p PROVE FALSE
  <2>1. q + 1 <= p
    BY <1>1, <1>2
  <2>2. n * (q + 1) <= n * p
    BY <1>1, <2>1
  <2>3. n * (q + 1) = n * q + n
    BY <1>1
  <2>4. n * q \in Nat /\ n * p \in Nat
    BY <1>1
  <2> QED
    BY <1>1, <2>2, <2>3, <2>4
<1>3. p <= q
  BY <1>1, <1>2
<1> QED
  BY <1>3 DEF p, q

\* A whole divisor further, the quotient is larger.
LEMMA DivOneLess ==
  ASSUME NEW a \in Nat, NEW b \in Nat, NEW n \in Nat \ {0}, a + n <= b
  PROVE  a \div n + 1 <= b \div n
<1> DEFINE p == a \div n
           q == b \div n
<1>1. p \in Nat /\ q \in Nat /\ n * p <= a /\ b < n * q + n
  BY DivType
<1> HIDE DEF p, q
<1>2. ASSUME q < p + 1 PROVE FALSE
  <2>1. q <= p
    BY <1>1, <1>2
  <2>2. n * q <= n * p
    BY <1>1, <2>1
  <2>4. n * q \in Nat /\ n * p \in Nat
    BY <1>1
  <2> QED
    BY <1>1, <2>2, <2>4
<1>3. p + 1 <= q
  BY <1>1, <1>2
<1> QED
  BY <1>3 DEF p, q

=============================================================================
