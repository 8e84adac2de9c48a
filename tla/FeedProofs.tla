------------------------------ MODULE FeedProofs ------------------------------
(***************************************************************************)
(* The parts a tick passes on its way, and the streams between them.       *)
(* The normalizer, for one symbol and every length of the ring, interval,  *)
(* number of ticks and of crashes: its stream is a FlaggedFeed, ticks      *)
(* repeat only far apart, and the price shown goes back in time only when  *)
(* the stream says so.  Ingestion, for every pair of waits: it never       *)
(* sleeps over a saved token, and no wait is longer than its cause         *)
(* deserves.  The gateway, for every set of clients: a flush that clients  *)
(* come to and leave keeps no ghost.  The streams, for every length, batch *)
(* size, number of faults and way of treating exceptions: a consumer       *)
(* implements OrderedDelivery.                                             *)
(***************************************************************************)
EXTENDS StreamConsumer, Normalizer, Ingestion, WsGateway, FiniteSetTheorems, SequenceTheorems, TLAPS

-----------------------------------------------------------------------------
(* The ring. *)

\* deque(maxlen): the new time is last, and the others keep their distance to it.
LEMMA RememberedHolds ==
  ASSUME ring \in Seq(Stamps), Len(ring) <= RingSize, NEW ts \in Stamps
  PROVE  LET r == Remembered(ts)
         IN  /\ r \in Seq(Stamps)
             /\ r[Len(r)] = ts
             /\ \/ /\ Len(ring) = RingSize /\ Len(r) = RingSize
                   /\ \A p \in 1..(RingSize - 1) : r[p] = ring[p + 1]
                \/ /\ Len(ring) < RingSize /\ Len(r) = Len(ring) + 1
                   /\ \A p \in 1..Len(ring) : r[p] = ring[p]
<1> USE NormalizerAssumption
<1>1. Len(ring) \in Nat
  BY LenProperties
<1>2. CASE Len(ring) = RingSize
  <2>1. ring # <<>>
    BY <1>2, EmptySeq
  <2>2. /\ Tail(ring) \in Seq(Stamps) /\ Len(Tail(ring)) = Len(ring) - 1
        /\ \A i \in 1..Len(Tail(ring)) : Tail(ring)[i] = ring[i + 1]
    BY <2>1, HeadTailProperties
  <2>3. Remembered(ts) = Append(Tail(ring), ts)
    BY <1>2 DEF Remembered
  <2>4. /\ Remembered(ts) \in Seq(Stamps) /\ Len(Remembered(ts)) = RingSize
        /\ Remembered(ts)[RingSize] = ts
        /\ \A i \in 1..(RingSize - 1) : Remembered(ts)[i] = Tail(ring)[i]
    BY <1>1, <1>2, <2>2, <2>3, AppendProperties
  <2> QED
    BY <1>1, <1>2, <2>2, <2>4
<1>3. CASE Len(ring) # RingSize
  <2>1. Remembered(ts) = Append(ring, ts)
    BY <1>3 DEF Remembered
  <2>2. /\ Remembered(ts) \in Seq(Stamps) /\ Len(Remembered(ts)) = Len(ring) + 1
        /\ Remembered(ts)[Len(ring) + 1] = ts
        /\ \A i \in 1..Len(ring) : Remembered(ts)[i] = ring[i]
    BY <2>1, AppendProperties
  <2> QED
    BY <1>1, <1>3, <2>2
<1> QED
  BY <1>2, <1>3

\* A ring without repetitions has as many times as places.
LEMMA RingCounts ==
  ASSUME NEW r \in Seq(Stamps), \A p, q \in DOMAIN r : r[p] = r[q] => p = q
  PROVE  Cardinality(Range(r)) = Len(r)
<1>1. /\ Len(r) \in Nat /\ DOMAIN r = 1..Len(r) /\ r \in [1..Len(r) -> Range(r)]
  BY LenProperties DEF Range
<1>2. r \in Bijection(1..Len(r), Range(r))
  BY <1>1 DEF Bijection, Injection, Surjection, IsInjective, Range
<1> QED
  BY <1>1, <1>2, FS_CountingElements DEF ExistsBijection

LEMMA InitNorm == NormInit => NormIInv
<1> SUFFICES ASSUME NormInit PROVE NormIInv
  OBVIOUS
<1> USE NormalizerAssumption DEF NormInit
<1>1. ring \in Seq(Stamps) /\ DOMAIN ring = {} /\ Len(ring) = 0 /\ Range(ring) = {}
  BY DEF Range
<1>2. RingIsInjective
  BY <1>1 DEF RingIsInjective
<1>3. normalized \in Seq(Entries) /\ Len(normalized) = 0 /\ ThisLife = {}
  BY DEF ThisLife
<1>4. Cardinality(Range(ring)) = 0
  BY <1>1, <1>2, RingCounts DEF RingIsInjective
<1>5. master \in BOOLEAN /\ resolver \in BOOLEAN
  OBVIOUS
<1>6. NormTypeOK
  BY <1>1, <1>3, <1>4, <1>5 DEF NormTypeOK, NoTick, Stamps
<1>7. work.late \in BOOLEAN /\ work.late = FALSE
  BY DEF NoTick
<1>8. DataTypeOK
  BY <1>1, <1>3, <1>7 DEF DataTypeOK, NoTick
<1> QED
  BY <1>2, <1>3, <1>6, <1>8 DEF NormIInv, PublishedInRing, NewestIsPublished, WorkIsTrue,
     HotIsLast, ShownIsOfLife, RepeatsFarApart, ThisLife, NoTick

\* A tick that is new to the ring: what the ring knows of the others stays true,
\* and what it does not hold it has forgotten.
LEMMA ReceiveHolds ==
  ASSUME DataTypeOK, Len(ring) <= RingSize, RingIsInjective, NEW ts \in Stamps, Receive(ts)
  PROVE  /\ ring' \in Seq(Stamps) /\ Len(ring') <= RingSize
         /\ RingIsInjective'
         /\ \A t \in Stamps, n \in Nat : InRing(t, n) => InRing(t, n)'
         /\ \A n \in Nat : n = received => InRing(ts, n)'
         /\ \A n \in Nat : InRing(ts, n) => received - n > RingSize
<1> USE NormalizerAssumption
<1>t. /\ ring \in Seq(Stamps) /\ received \in Nat /\ received' = received + 1
      /\ ring' = Remembered(ts) /\ ts \notin Range(ring)
      /\ Len(ring) \in Nat /\ DOMAIN ring = 1..Len(ring)
  BY LenProperties DEF DataTypeOK, Receive
<1>1. /\ ring' \in Seq(Stamps)
      /\ ring'[Len(ring')] = ts
      /\ \/ /\ Len(ring) = RingSize /\ Len(ring') = RingSize
            /\ \A p \in 1..(RingSize - 1) : ring'[p] = ring[p + 1]
         \/ /\ Len(ring) < RingSize /\ Len(ring') = Len(ring) + 1
            /\ \A p \in 1..Len(ring) : ring'[p] = ring[p]
  BY <1>t, RememberedHolds
<1>2. /\ Len(ring') \in Nat /\ DOMAIN ring' = 1..Len(ring') /\ Len(ring') <= RingSize
      /\ Len(ring') >= 1
  <2>1. Len(ring') \in Nat /\ DOMAIN ring' = 1..Len(ring')
    BY <1>1, LenProperties
  <2>2. RingSize \in Nat /\ RingSize >= 1
    OBVIOUS
  <2>3. \/ Len(ring') = RingSize
        \/ Len(ring) < RingSize /\ Len(ring') = Len(ring) + 1
    BY <1>1
  <2>4. Len(ring') <= RingSize /\ Len(ring') >= 1
    BY <1>t, <2>2, <2>3
  <2> QED
    BY <2>1, <2>4
<1>3. \A p \in 1..Len(ring) : ring[p] # ts
  BY <1>t DEF Range
<1>4. \A p, q \in DOMAIN ring' : ring'[p] = ring'[q] => p = q
  <2>1. \A p, q \in 1..Len(ring) : ring[p] = ring[q] => p = q
    BY <1>t DEF RingIsInjective
  <2>2. CASE /\ Len(ring) = RingSize /\ Len(ring') = RingSize
             /\ \A p \in 1..(RingSize - 1) : ring'[p] = ring[p + 1]
    <3>1. \A p \in 1..RingSize : p = RingSize \/ p \in 1..(RingSize - 1)
      OBVIOUS
    <3>2. \A p \in 1..(RingSize - 1) : p + 1 \in 1..RingSize /\ ring'[p] # ts
      BY <1>3, <2>2
    <3>3. \A p, q \in 1..(RingSize - 1) : ring'[p] = ring'[q] => p = q
      <4> SUFFICES ASSUME NEW p \in 1..(RingSize - 1), NEW q \in 1..(RingSize - 1),
                          ring'[p] = ring'[q]
                   PROVE  p = q
        OBVIOUS
      <4>1. ring[p + 1] = ring[q + 1]
        BY <2>2
      <4>2. p + 1 = q + 1
        BY <2>1, <2>2, <3>2, <4>1
      <4> QED
        BY <4>2
    <3> QED
      BY <1>1, <1>2, <2>2, <3>1, <3>2, <3>3
  <2>3. CASE /\ Len(ring) < RingSize /\ Len(ring') = Len(ring) + 1
             /\ \A p \in 1..Len(ring) : ring'[p] = ring[p]
    <3>1. \A p \in 1..Len(ring') : p = Len(ring') \/ p \in 1..Len(ring)
      BY <1>t, <2>3
    <3>2. \A p \in 1..Len(ring) : ring'[p] # ts
      BY <1>3, <2>3
    <3>3. \A p, q \in 1..Len(ring) : ring'[p] = ring'[q] => p = q
      BY <2>1, <2>3
    <3> QED
      BY <1>1, <1>2, <3>1, <3>2, <3>3
  <2> QED
    BY <1>1, <2>2, <2>3
<1>5. ASSUME NEW t \in Stamps, NEW n \in Nat, InRing(t, n)
      PROVE  InRing(t, n)'
  <2>1. CASE received - n > RingSize
    BY <1>t, <2>1 DEF InRing
  <2>2. CASE ~(received - n > RingSize)
    <3>1. PICK p \in 1..Len(ring) : p = Len(ring) - received + 1 + n /\ ring[p] = t
      BY <1>t, <1>5, <2>2 DEF InRing
    <3>2. CASE Len(ring) = RingSize /\ p = 1
      <4>1. received' - n > RingSize
        BY <1>t, <3>1, <3>2
      <4> QED
        BY <4>1 DEF InRing
    <3>3. CASE Len(ring) = RingSize /\ p > 1
      <4>1. /\ p - 1 \in 1..(RingSize - 1) /\ Len(ring') = RingSize
            /\ p - 1 = Len(ring') - received' + 1 + n
        BY <1>t, <1>1, <3>1, <3>3
      <4>2. p - 1 \in DOMAIN ring' /\ (p - 1) + 1 = p
        BY <1>2, <3>1, <4>1
      <4>3. ring'[p - 1] = ring[(p - 1) + 1]
        BY <1>1, <3>3, <4>1
      <4> QED
        BY <3>1, <4>1, <4>2, <4>3 DEF InRing
    <3>4. CASE Len(ring) < RingSize
      <4>a. \/ Len(ring) = RingSize
            \/ Len(ring) < RingSize /\ Len(ring') = Len(ring) + 1
        BY <1>1
      <4>b. Len(ring) \in Nat /\ received \in Nat /\ received' = received + 1
        BY <1>t
      <4>c. Len(ring') = Len(ring) + 1
        BY <3>4, <4>a, <4>b
      <4>1. p = Len(ring') - received' + 1 + n /\ Len(ring') = Len(ring) + 1
        BY <3>1, <4>b, <4>c
      <4>2. ring'[p] = ring[p]
        BY <1>1, <3>1, <3>4
      <4>3. p \in DOMAIN ring'
        BY <1>t, <1>2, <3>1, <4>1
      <4> QED
        BY <3>1, <4>1, <4>2, <4>3 DEF InRing
    <3>5. p = 1 \/ p > 1
      BY <3>1
    <3>6. Len(ring) = RingSize \/ Len(ring) < RingSize
      BY <1>1
    <3> QED
      BY <3>2, <3>3, <3>4, <3>5, <3>6
  <2> QED
    BY <2>1, <2>2
<1>6. ASSUME NEW n \in Nat, n = received PROVE InRing(ts, n)'
  <2>1. Len(ring') - received' + 1 + n = Len(ring') /\ Len(ring') \in DOMAIN ring'
    BY <1>t, <1>2, <1>6
  <2> QED
    BY <1>1, <2>1 DEF InRing
<1>7. ASSUME NEW n \in Nat, InRing(ts, n) PROVE received - n > RingSize
  BY <1>t, <1>3, <1>7 DEF InRing
<1>8. RingIsInjective'
  BY <1>4 DEF RingIsInjective
<1> QED
  BY <1>1, <1>2, <1>5, <1>6, <1>7, <1>8

-----------------------------------------------------------------------------
(* The inductive invariant: each action keeps it. *)

\* What this life has published.
LEMMA LifeEntries ==
  ASSUME DataTypeOK, NormTypeOK, NEW i \in ThisLife
  PROVE  /\ i \in DOMAIN normalized /\ i \in Nat /\ normalized[i] \in Entries
         /\ normalized[i].ts \in Stamps /\ normalized[i].nth \in Nat
<1>1. /\ Len(normalized) \in Nat /\ DOMAIN normalized = 1..Len(normalized)
      /\ normalized \in Seq(Entries) /\ started \in Nat
  BY LenProperties DEF DataTypeOK, NormTypeOK
<1>2. i \in 1..Len(normalized)
  BY <1>1 DEF ThisLife
<1>3. normalized[i] \in Entries
  BY <1>1, <1>2, ElementOfSeq
<1> QED
  BY <1>1, <1>2, <1>3 DEF Entries

\* A tick that comes too soon is remembered and forgotten.
LEMMA DropKeeps ==
  ASSUME NormIInv, NEW ts \in Stamps, DropTooSoon(ts)
  PROVE  NormIInv'
<1> USE NormalizerAssumption
<1>t. /\ NormTypeOK /\ DataTypeOK /\ RingIsInjective /\ PublishedInRing
      /\ NewestIsPublished /\ WorkIsTrue /\ HotIsLast /\ ShownIsOfLife
      /\ RepeatsFarApart /\ Len(ring) <= RingSize
  BY DEF NormIInv, NormTypeOK
<1>1. /\ Receive(ts) /\ received' = received + 1 /\ work.step = "idle"
      /\ UNCHANGED <<symbols, monotonic, outputs, normFaults, forwarded, newest, work>>
  BY DEF DropTooSoon, Receive
<1>2. /\ ring' \in Seq(Stamps) /\ Len(ring') <= RingSize
      /\ RingIsInjective'
      /\ \A t \in Stamps, n \in Nat : InRing(t, n) => InRing(t, n)'
  BY <1>t, <1>1, ReceiveHolds
<1>3. Cardinality(Range(ring')) = Len(ring') /\ Range(ring') \subseteq Stamps
  BY <1>2, RingCounts, RangeOfSeq DEF RingIsInjective
<1>4. NormTypeOK'
  BY <1>t, <1>1, <1>2, <1>3 DEF NormTypeOK, symbols, outputs
<1>5. DataTypeOK'
  BY <1>t, <1>1, <1>2 DEF DataTypeOK, outputs
<1>6. PublishedInRing'
  <2> SUFFICES ASSUME NEW i \in ThisLife
               PROVE  InRing(normalized[i].ts, normalized[i].nth)'
    BY <1>1 DEF PublishedInRing, ThisLife, outputs
  <2>1. normalized[i].ts \in Stamps /\ normalized[i].nth \in Nat
    BY <1>t, LifeEntries
  <2>2. InRing(normalized[i].ts, normalized[i].nth)
    BY <1>t DEF PublishedInRing
  <2>3. PICK t \in Stamps, n \in Nat : t = normalized[i].ts /\ n = normalized[i].nth
    BY <2>1
  <2>4. InRing(t, n)'
    BY <1>2, <2>2, <2>3
  <2> QED
    BY <1>1, <2>3, <2>4 DEF InRing, outputs
<1>7. NewestIsPublished' /\ WorkIsTrue' /\ HotIsLast' /\ ShownIsOfLife' /\ RepeatsFarApart'
  BY <1>t, <1>1 DEF NewestIsPublished, WorkIsTrue, HotIsLast, ShownIsOfLife,
     RepeatsFarApart, ThisLife, outputs
<1> QED
  BY <1>2, <1>4, <1>5, <1>6, <1>7 DEF NormIInv

\* A tick let through: the detector compares it with what this life published.
LEMMA ForwardKeeps ==
  ASSUME NormIInv, NEW ts \in Stamps, Forward(ts)
  PROVE  NormIInv'
<1> USE NormalizerAssumption
<1>t. /\ NormTypeOK /\ DataTypeOK /\ RingIsInjective /\ PublishedInRing
      /\ NewestIsPublished /\ ShownIsOfLife /\ RepeatsFarApart /\ Len(ring) <= RingSize
      /\ received \in Nat /\ newest \in Nat /\ ts \in Nat /\ ts > 0
  BY DEF NormIInv, NormTypeOK, DataTypeOK, Stamps
<1>1. /\ Receive(ts) /\ received' = received + 1 /\ work.step = "idle"
      /\ UNCHANGED <<symbols, monotonic, outputs, normFaults>>
      /\ forwarded' = IF interval > 0 THEN monotonic ELSE forwarded
      /\ newest' = NewestOf(ts)
      /\ work' = [step |-> "publish", ts |-> ts, late |-> IsLate(ts), nth |-> received]
  BY DEF Forward, Receive
<1>2. /\ ring' \in Seq(Stamps) /\ Len(ring') <= RingSize
      /\ RingIsInjective'
      /\ \A t \in Stamps, n \in Nat : InRing(t, n) => InRing(t, n)'
      /\ \A n \in Nat : n = received => InRing(ts, n)'
      /\ \A n \in Nat : InRing(ts, n) => received - n > RingSize
  BY <1>t, <1>1, ReceiveHolds
<1>3. Cardinality(Range(ring')) = Len(ring') /\ Range(ring') \subseteq Stamps
  BY <1>2, RingCounts, RangeOfSeq DEF RingIsInjective
<1>l. IsLate(ts) \in BOOLEAN
  BY DEF IsLate
<1>w. /\ work'.step = "publish" /\ work'.ts = ts /\ work'.late = IsLate(ts)
      /\ work'.nth = received
  BY <1>1
<1>n. newest' \in Stamps /\ ts <= newest' /\ newest <= newest' /\ newest' \in {ts, newest}
  BY <1>t, <1>1 DEF NewestOf, IsLate, NormTypeOK
<1>4. NormTypeOK'
  <2>1. forwarded' \in {Never} \cup 0..monotonic'
    BY <1>t, <1>1 DEF NormTypeOK, DataTypeOK
  <2> QED
    BY <1>t, <1>1, <1>2, <1>3, <1>w, <1>n, <2>1 DEF NormTypeOK, symbols, outputs
<1>5. DataTypeOK'
  <2>1. work' \in [step: {"idle", "publish", "hot", "down"}, ts: {0} \cup Stamps,
                   late: BOOLEAN, nth: Nat]
    <3> DEFINE late == IsLate(ts)
    <3>1. late \in BOOLEAN
      BY <1>l
    <3>2. work' = [step |-> "publish", ts |-> ts, late |-> late, nth |-> received]
      BY <1>1
    <3> HIDE DEF late
    <3> QED
      BY <1>t, <3>1, <3>2
  <2> QED
    BY <1>t, <1>1, <1>2, <2>1 DEF DataTypeOK, outputs
<1>6. PublishedInRing'
  <2> SUFFICES ASSUME NEW i \in ThisLife
               PROVE  InRing(normalized[i].ts, normalized[i].nth)'
    BY <1>1 DEF PublishedInRing, ThisLife, outputs
  <2>1. normalized[i].ts \in Stamps /\ normalized[i].nth \in Nat
    BY <1>t, LifeEntries
  <2>2. InRing(normalized[i].ts, normalized[i].nth)
    BY <1>t DEF PublishedInRing
  <2>3. PICK t \in Stamps, n \in Nat : t = normalized[i].ts /\ n = normalized[i].nth
    BY <2>1
  <2>4. InRing(t, n)'
    BY <1>2, <2>2, <2>3
  <2> QED
    BY <1>1, <2>3, <2>4 DEF InRing, outputs
<1>7. NewestIsPublished'
  <2>1. \A i \in ThisLife : normalized[i].ts \in Nat /\ normalized[i].ts <= newest
    BY <1>t, <1>1, LifeEntries DEF NewestIsPublished, Stamps
  <2>2. \A i \in ThisLife : normalized[i].ts <= newest'
    BY <1>t, <1>n, <2>1 DEF Stamps
  <2>3. newest' # ts => newest > 0 /\ newest' = newest
    BY <1>1 DEF NewestOf, IsLate
  <2>4. newest > 0 => \E i \in ThisLife : normalized[i].ts = newest
    BY <1>t, <1>1 DEF NewestIsPublished
  <2> QED
    BY <1>1, <1>w, <2>2, <2>3, <2>4 DEF NewestIsPublished, ThisLife, outputs
<1>8. WorkIsTrue'
  <2>1. \A i \in ThisLife : normalized[i].ts \in Nat /\ normalized[i].ts <= newest
    BY <1>t, <1>1, LifeEntries DEF NewestIsPublished, Stamps
  <2>2. newest > 0 => \E i \in ThisLife : normalized[i].ts = newest
    BY <1>t, <1>1 DEF NewestIsPublished
  <2>3. IsLate(ts) <=> \E i \in ThisLife : normalized[i].ts > ts
    BY <1>t, <2>1, <2>2 DEF IsLate
  <2>4. ASSUME NEW i \in ThisLife, normalized[i].ts = ts
        PROVE  received - normalized[i].nth > RingSize
    <3>1. normalized[i].nth \in Nat
      BY <1>t, LifeEntries
    <3>2. InRing(ts, normalized[i].nth)
      BY <1>t, <2>4 DEF PublishedInRing
    <3> QED
      BY <1>2, <3>1, <3>2
  <2>5. InRing(work.ts, work.nth)'
    <3>1. PICK n \in Nat : n = received
      BY <1>t
    <3>2. InRing(ts, n)'
      BY <1>2, <3>1
    <3> QED
      BY <1>w, <3>1, <3>2 DEF InRing
  <2>6. ThisLife' = ThisLife /\ normalized' = normalized
    BY <1>1 DEF ThisLife, outputs
  <2>7. work'.late <=> \E i \in ThisLife' : normalized'[i].ts > work'.ts
    BY <1>w, <2>3, <2>6
  <2>8. \A i \in ThisLife' :
           normalized'[i].ts = work'.ts => work'.nth - normalized'[i].nth > RingSize
    BY <1>w, <2>4, <2>6
  <2> QED
    BY <1>w, <1>n, <2>5, <2>7, <2>8 DEF WorkIsTrue
<1>9. HotIsLast' /\ ShownIsOfLife' /\ RepeatsFarApart'
  BY <1>t, <1>1, <1>w DEF HotIsLast, ShownIsOfLife, RepeatsFarApart, ThisLife, outputs
<1> QED
  BY <1>2, <1>4, <1>5, <1>6, <1>7, <1>8, <1>9 DEF NormIInv

\* The tick becomes the stream's last entry, with the mark the detector gave it.
LEMMA PublishKeeps ==
  ASSUME NormIInv, PublishTick
  PROVE  /\ NormIInv'
         /\ Entry(work) \in Entries /\ Len(normalized') = Len(normalized) + 1
<1> USE NormalizerAssumption
<1>t. /\ NormTypeOK /\ DataTypeOK /\ RingIsInjective /\ PublishedInRing
      /\ NewestIsPublished /\ WorkIsTrue /\ ShownIsOfLife /\ RepeatsFarApart
      /\ Len(ring) <= RingSize
  BY DEF NormIInv, NormTypeOK
<1>1. /\ work.step = "publish" /\ work.ts \in Stamps
      /\ normalized' = Append(normalized, Entry(work))
      /\ UNCHANGED <<symbols, monotonic, filters, started, hot, received, normFaults>>
  BY <1>t DEF PublishTick, WorkIsTrue
<1>b. work.late \in BOOLEAN
  BY <1>t DEF DataTypeOK
<1>2. Entry(work) \in Entries
  <2> DEFINE late == work.late
  <2>1. late \in BOOLEAN /\ work.nth \in Nat
    BY <1>t, <1>b DEF DataTypeOK
  <2>2. Entry(work) = [ts |-> work.ts, late |-> late, nth |-> work.nth]
    BY DEF Entry
  <2> HIDE DEF late
  <2> QED
    BY <1>1, <2>1, <2>2 DEF Entries
<1>3. /\ normalized' \in Seq(Entries) /\ Len(normalized') = Len(normalized) + 1
      /\ \A i \in 1..Len(normalized) : normalized'[i] = normalized[i]
      /\ normalized'[Len(normalized) + 1] = Entry(work)
      /\ Len(normalized) \in Nat /\ DOMAIN normalized = 1..Len(normalized)
      /\ DOMAIN normalized' = 1..(Len(normalized) + 1) /\ started \in 0..Len(normalized)
  BY <1>t, <1>1, <1>2, AppendProperties, LenProperties DEF DataTypeOK, NormTypeOK
<1> DEFINE n == Len(normalized) + 1
<1>4. /\ ThisLife' = ThisLife \cup {n} /\ n \notin ThisLife
      /\ ThisLife \subseteq 1..Len(normalized)
      /\ \A i \in ThisLife : normalized'[i] = normalized[i] /\ i \in Nat /\ i < n
  BY <1>1, <1>3 DEF ThisLife
<1>5. /\ normalized'[n].ts = work.ts /\ normalized'[n].nth = work.nth
      /\ normalized'[n].late = work.late
  BY <1>3 DEF Entry
<1>w. /\ work' = [work EXCEPT !.step = "hot"] /\ work'.step = "hot"
      /\ work'.ts = work.ts /\ work'.nth = work.nth /\ work'.late = work.late
  <2>1. work' = [work EXCEPT !.step = "hot"]
    BY DEF PublishTick
  <2> QED
    BY <1>t, <2>1 DEF DataTypeOK
<1>6. NormTypeOK'
  <2>1. hot' \in {0} \cup {normalized'[i].ts : i \in DOMAIN normalized'}
    BY <1>t, <1>1, <1>3 DEF NormTypeOK
  <2> QED
    BY <1>t, <1>1, <1>3, <1>w, <2>1 DEF NormTypeOK, symbols, filters
<1>7. DataTypeOK'
  <2>1. work' \in [step: {"idle", "publish", "hot", "down"}, ts: {0} \cup Stamps,
                   late: BOOLEAN, nth: Nat]
    BY <1>t, <1>w DEF DataTypeOK
  <2> QED
    BY <1>t, <1>1, <1>3, <2>1 DEF DataTypeOK, filters
<1>8. RingIsInjective' /\ PublishedInRing'
  <2>1. \A t \in Stamps, k \in Nat : InRing(t, k) => InRing(t, k)'
    BY <1>1 DEF InRing, filters
  <2>2. RingIsInjective'
    BY <1>t, <1>1 DEF RingIsInjective, filters
  <2>3. ASSUME NEW i \in ThisLife' PROVE InRing(normalized'[i].ts, normalized'[i].nth)
    BY <1>1, <1>t, <1>4, <1>5, <2>3 DEF PublishedInRing, WorkIsTrue
  <2>4. \A i \in ThisLife' :
          \E t \in Stamps, k \in Nat : t = normalized'[i].ts /\ k = normalized'[i].nth
    BY <1>t, <1>1, <1>4, <1>5, LifeEntries DEF DataTypeOK
  <2>5. PublishedInRing'
    BY <1>1, <2>3 DEF PublishedInRing, InRing, filters
  <2> QED
    BY <2>2, <2>5
<1>9. NewestIsPublished'
  <2>1. \A i \in ThisLife' : normalized'[i].ts <= newest
    BY <1>t, <1>1, <1>4, <1>5 DEF NewestIsPublished, WorkIsTrue
  <2>2. \E i \in ThisLife' : normalized'[i].ts = newest
    BY <1>t, <1>1, <1>4, <1>5 DEF NewestIsPublished
  <2> QED
    BY <1>1, <1>w, <2>1, <2>2 DEF NewestIsPublished, filters
<1>10. WorkIsTrue'
  BY <1>w DEF WorkIsTrue
<1>11. HotIsLast'
  <2>1. normalized'[Len(normalized')] = Entry(work)'
    BY <1>3, <1>w DEF Entry
  <2>2. \A i \in ThisLife' : normalized'[i].ts > work.ts => i \in ThisLife
    BY <1>1, <1>4, <1>5 DEF Stamps
  <2>3. work.late <=> \E i \in ThisLife' : normalized'[i].ts > work.ts
    BY <1>t, <1>1, <1>4, <2>2 DEF WorkIsTrue
  <2>4. ThisLife' # {}
    BY <1>4
  <2> QED
    BY <1>w, <2>1, <2>3, <2>4 DEF HotIsLast
<1>12. ShownIsOfLife'
  <2>1. ThisLife' \ {Len(normalized')} = ThisLife
    BY <1>3, <1>4
  <2> QED
    BY <1>t, <1>1, <1>4, <1>w, <2>1 DEF ShownIsOfLife
<1>13. RepeatsFarApart'
  <2>1. ThisLife' = (started' + 1)..Len(normalized')
    BY DEF ThisLife
  <2> SUFFICES ASSUME NEW i \in ThisLife', NEW j \in ThisLife', i < j,
                      normalized'[i].ts = normalized'[j].ts
               PROVE  normalized'[j].nth - normalized'[i].nth > RingSize
    BY <2>1 DEF RepeatsFarApart
  <2>2. i \in ThisLife
    BY <1>3, <1>4
  <2>3. CASE j = n
    BY <1>t, <1>1, <1>4, <1>5, <2>2, <2>3 DEF WorkIsTrue
  <2>4. CASE j \in ThisLife
    BY <1>t, <1>4, <2>2, <2>4 DEF RepeatsFarApart, ThisLife
  <2> QED
    BY <1>4, <2>3, <2>4
<1> QED
  BY <1>2, <1>3, <1>6, <1>7, <1>8, <1>9, <1>10, <1>11, <1>12, <1>13 DEF NormIInv

\* The hash shows what the stream has just got.
LEMMA HotKeeps ==
  ASSUME NormIInv, UpdateHot
  PROVE  NormIInv'
<1>t. /\ NormTypeOK /\ DataTypeOK /\ RingIsInjective /\ PublishedInRing
      /\ NewestIsPublished /\ HotIsLast /\ RepeatsFarApart
  BY DEF NormIInv
<1>1. /\ work.step = "hot" /\ hot' = work.ts /\ work' = NoTick
      /\ UNCHANGED <<symbols, monotonic, filters, normalized, started, received, normFaults>>
  BY DEF UpdateHot
<1>2. /\ Len(normalized) \in ThisLife /\ normalized[Len(normalized)].ts = work.ts
      /\ Len(normalized) \in DOMAIN normalized
  <2>1. normalized[Len(normalized)] = Entry(work) /\ ThisLife # {}
    BY <1>t, <1>1 DEF HotIsLast
  <2>2. Len(normalized) \in Nat /\ started \in Nat /\ DOMAIN normalized = 1..Len(normalized)
    BY <1>t, LenProperties DEF DataTypeOK, NormTypeOK
  <2> QED
    BY <2>1, <2>2 DEF Entry, ThisLife
<1>3. NormTypeOK'
  <2>1. hot' \in {0} \cup {normalized'[i].ts : i \in DOMAIN normalized'}
    BY <1>1, <1>2
  <2> QED
    BY <1>t, <1>1, <2>1 DEF NormTypeOK, symbols, filters, NoTick
<1>4. DataTypeOK'
  <2>1. work' \in [step: {"idle", "publish", "hot", "down"}, ts: {0} \cup Stamps,
                   late: BOOLEAN, nth: Nat]
    BY <1>1 DEF NoTick
  <2> QED
    BY <1>t, <1>1, <2>1 DEF DataTypeOK, filters
<1>5. RingIsInjective' /\ PublishedInRing' /\ RepeatsFarApart'
  BY <1>t, <1>1 DEF RingIsInjective, PublishedInRing, InRing, RepeatsFarApart, ThisLife,
     filters
<1>6. NewestIsPublished'
  BY <1>t, <1>1, <1>2 DEF NewestIsPublished, ThisLife, filters, NoTick
<1>7. WorkIsTrue' /\ HotIsLast'
  BY <1>1 DEF WorkIsTrue, HotIsLast, NoTick
<1>8. ShownIsOfLife'
  BY <1>1, <1>2 DEF ShownIsOfLife, ThisLife, NoTick
<1> QED
  BY <1>3, <1>4, <1>5, <1>6, <1>7, <1>8 DEF NormIInv

\* A crash loses the tick at work and then the filters; the stream stays.
LEMMA ProcessKeeps ==
  ASSUME NormIInv, NormDies \/ NormRestart
  PROVE  NormIInv'
<1> USE NormalizerAssumption
<1>t. /\ NormTypeOK /\ DataTypeOK /\ RingIsInjective /\ PublishedInRing /\ RepeatsFarApart
      /\ Len(normalized) \in Nat
  BY LenProperties DEF NormIInv, DataTypeOK
<1>1. CASE NormDies
  <2>1. /\ work'.step = "down" /\ normFaults' \in 0..MaxNormFaults
        /\ UNCHANGED <<symbols, monotonic, filters, outputs, received>>
        /\ work' = [NoTick EXCEPT !.step = "down"]
    BY <1>t, <1>1 DEF NormDies, NoTick, NormTypeOK
  <2>2. work' \in [step: {"idle", "publish", "hot", "down"}, ts: {0} \cup Stamps,
                   late: BOOLEAN, nth: Nat]
    BY <2>1 DEF NoTick
  <2>3. NormTypeOK' /\ DataTypeOK'
    BY <1>t, <2>1, <2>2 DEF NormTypeOK, DataTypeOK, symbols, filters, outputs
  <2> QED
    BY <1>t, <2>1, <2>3 DEF NormIInv, RingIsInjective, PublishedInRing, InRing,
       RepeatsFarApart, NewestIsPublished, WorkIsTrue, HotIsLast, ShownIsOfLife, ThisLife,
       filters, outputs
<1>2. CASE NormRestart
  <2>1. /\ work' = NoTick /\ resolver' = master /\ ring' = <<>> /\ forwarded' = Never
        /\ newest' = 0 /\ started' = Len(normalized)
        /\ UNCHANGED <<master, interval, monotonic, normalized, hot, received, normFaults>>
    BY <1>2 DEF NormRestart
  <2>2. ring' \in Seq(Stamps) /\ DOMAIN ring' = {} /\ Len(ring') = 0 /\ Range(ring') = {}
    BY <2>1 DEF Range
  <2>3. Cardinality(Range(ring')) = 0
    BY <2>2, RingCounts
  <2>4. master \in BOOLEAN
    BY <1>t DEF NormTypeOK
  <2>5. master' \in BOOLEAN /\ resolver' \in BOOLEAN
    BY <2>1, <2>4
  <2>6. NormTypeOK'
    BY <1>t, <2>1, <2>2, <2>3, <2>5 DEF NormTypeOK, NoTick
  <2>7. work' \in [step: {"idle", "publish", "hot", "down"}, ts: {0} \cup Stamps,
                   late: BOOLEAN, nth: Nat]
    BY <2>1 DEF NoTick
  <2>8. DataTypeOK'
    BY <1>t, <2>1, <2>2, <2>7 DEF DataTypeOK
  <2>9. ThisLife' = {}
    BY <1>t, <2>1 DEF ThisLife
  <2>10. RingIsInjective' /\ PublishedInRing'
    BY <2>2, <2>9 DEF RingIsInjective, PublishedInRing
  <2>11. NewestIsPublished' /\ WorkIsTrue' /\ HotIsLast' /\ ShownIsOfLife'
    BY <2>1, <2>9 DEF NewestIsPublished, WorkIsTrue, HotIsLast, ShownIsOfLife, NoTick
  <2>12. RepeatsFarApart'
    BY <2>9 DEF RepeatsFarApart, ThisLife
  <2> QED
    BY <2>6, <2>8, <2>10, <2>11, <2>12 DEF NormIInv
<1> QED
  BY <1>1, <1>2

\* The master list and the clock are none of the ticks' business.
LEMMA SurroundingsKeep ==
  ASSUME NormIInv, PopulateSymbols \/ TimePasses \/ UNCHANGED normVars
  PROVE  NormIInv'
<1> USE NormalizerAssumption
<1>t. NormTypeOK /\ DataTypeOK
  BY DEF NormIInv
<1>1. /\ UNCHANGED <<resolver, interval, filters, work, outputs, received, normFaults>>
      /\ master' \in {TRUE, master} /\ monotonic' \in {monotonic, monotonic + 1}
  BY DEF PopulateSymbols, TimePasses, normVars, symbols
<1>2. NormTypeOK'
  <2>1. master \in BOOLEAN /\ resolver \in BOOLEAN
    BY <1>t DEF NormTypeOK
  <2>2. master' \in BOOLEAN /\ resolver' \in BOOLEAN
    BY <1>1, <2>1
  <2>3. forwarded' \in {Never} \cup 0..monotonic'
    BY <1>t, <1>1 DEF NormTypeOK, DataTypeOK, filters
  <2> QED
    BY <1>t, <1>1, <2>2, <2>3 DEF NormTypeOK, filters, outputs
<1>3. DataTypeOK'
  BY <1>t, <1>1 DEF DataTypeOK, filters, outputs
<1> QED
  BY <1>1, <1>2, <1>3 DEF NormIInv, RingIsInjective, PublishedInRing, InRing,
     NewestIsPublished, WorkIsTrue, HotIsLast, ShownIsOfLife, RepeatsFarApart, ThisLife,
     filters, outputs

LEMMA NormStep == NormIInv /\ [NormNext]_normVars => NormIInv'
<1> SUFFICES ASSUME NormIInv, [NormNext]_normVars PROVE NormIInv'
  OBVIOUS
<1>1. CASE Ignore
  BY <1>1, SurroundingsKeep DEF Ignore
<1>2. ASSUME NEW ts \in Stamps, DropTooSoon(ts) PROVE NormIInv'
  BY <1>2, DropKeeps
<1>3. ASSUME NEW ts \in Stamps, Forward(ts) PROVE NormIInv'
  BY <1>3, ForwardKeeps
<1>4. CASE PublishTick
  BY <1>4, PublishKeeps
<1>5. CASE UpdateHot
  BY <1>5, HotKeeps
<1>6. CASE NormDies \/ NormRestart
  BY <1>6, ProcessKeeps
<1>7. CASE PopulateSymbols \/ TimePasses \/ UNCHANGED normVars
  BY <1>7, SurroundingsKeep
<1> QED
  BY <1>1, <1>2, <1>3, <1>4, <1>5, <1>6, <1>7 DEF NormNext

-----------------------------------------------------------------------------
(* The theorems. *)

\* The filters know of this life's ticks what the stream says of them.
THEOREM NormInvariant == NormSpec => []NormIInv
  BY InitNorm, NormStep, PTL DEF NormSpec

\* A published tick repeats only when the ring has forgotten it (TickDedup), and
\* the hash goes back in time only for a tick marked late or the first of a life.
THEOREM TicksAreSound == NormSpec => NormSafe
<1>1. NormIInv => NormTypeOK /\ RepeatsFarApart
  BY DEF NormIInv
<1>2. NormIInv /\ [NormNext]_normVars
        => [hot' < hot => \/ Last(normalized).late
                         \/ Len(normalized) = started + 1]_normVars
  <2> SUFFICES ASSUME NormIInv, NormNext, hot' < hot,
                      ~(Len(normalized) = started + 1)
               PROVE  Last(normalized).late
    OBVIOUS
  <2>t. HotIsLast /\ ShownIsOfLife /\ DataTypeOK /\ NormTypeOK
    BY DEF NormIInv
  <2>1. hot \in Nat
    <3>1. /\ hot \in {0} \cup {normalized[i].ts : i \in DOMAIN normalized}
          /\ normalized \in Seq(Entries) /\ DOMAIN normalized = 1..Len(normalized)
      BY <2>t, LenProperties DEF NormTypeOK, DataTypeOK
    <3>2. \A i \in DOMAIN normalized : normalized[i] \in Entries
      BY <3>1, ElementOfSeq
    <3> QED
      BY <3>1, <3>2 DEF Entries, Stamps
  <2>2. hot' # hot
    BY <2>1
  <2>3. work.step = "hot" /\ hot' = work.ts
    BY <2>2 DEF NormNext, Ignore, DropTooSoon, Forward, Receive, PublishTick, UpdateHot,
       NormDies, NormRestart, PopulateSymbols, TimePasses, normVars, outputs
  <2>4. /\ ThisLife # {} /\ normalized[Len(normalized)] = Entry(work)
        /\ work.late <=> \E i \in ThisLife : normalized[i].ts > work.ts
    BY <2>t, <2>3 DEF HotIsLast
  <2>5. ThisLife \ {Len(normalized)} # {}
    <3>1. Len(normalized) \in Nat /\ started \in Nat
      BY <2>t, LenProperties DEF DataTypeOK, NormTypeOK
    <3>2. started + 1 \in ThisLife
      BY <2>4, <3>1 DEF ThisLife
    <3> QED
      BY <3>2
  <2>6. PICK i \in ThisLife : normalized[i].ts = hot
    BY <2>t, <2>3, <2>5 DEF ShownIsOfLife
  <2>7. work.ts < hot
    BY <2>3
  <2>8. work.ts \in Int
    BY <2>t DEF DataTypeOK, Stamps
  <2>9. work.late
    BY <2>1, <2>4, <2>6, <2>7, <2>8
  <2> QED
    BY <2>4, <2>9 DEF Last, Entry
<1>3. NormSpec => [](NormTypeOK /\ RepeatsFarApart)
  BY <1>1, NormInvariant, PTL
<1>4. NormSpec => ShownGoesBackMarked
  BY <1>2, NormInvariant, PTL DEF NormSpec, ShownGoesBackMarked
<1> QED
  BY <1>3, <1>4, PTL DEF NormSafe

-----------------------------------------------------------------------------
(* The stream as its consumers read it. *)

Flags(s) == [i \in DOMAIN s |-> [ts |-> s[i].ts, late |-> s[i].late]]

LEMMA FlagsOfAppend ==
  ASSUME NEW s \in Seq(Entries), NEW e \in Entries
  PROVE  /\ Flags(Append(s, e)) = Append(Flags(s), [ts |-> e.ts, late |-> e.late])
         /\ Len(Flags(s)) = Len(s) /\ DOMAIN Flags(s) = 1..Len(s)
<1> DEFINE f == Flags(s)
<1> DEFINE g == [ts |-> e.ts, late |-> e.late]
<1> DEFINE S == [ts: {e.ts} \cup {s[i].ts : i \in 1..Len(s)},
                 late: {e.late} \cup {s[i].late : i \in 1..Len(s)}]
<1>1. /\ Len(s) \in Nat /\ DOMAIN s = 1..Len(s)
      /\ Append(s, e) \in Seq(Entries) /\ Len(Append(s, e)) = Len(s) + 1
      /\ DOMAIN Append(s, e) = 1..(Len(s) + 1)
      /\ \A i \in 1..Len(s) : Append(s, e)[i] = s[i]
      /\ Append(s, e)[Len(s) + 1] = e
  BY LenProperties, AppendProperties
<1>2. f \in [1..Len(s) -> S]
  BY <1>1 DEF Flags
<1>3. f \in Seq(S) /\ Len(f) = Len(s) /\ DOMAIN f = 1..Len(s)
  <2> HIDE DEF f, S
  <2>1. f \in Seq(S) /\ DOMAIN f = 1..Len(s)
    BY <1>1, <1>2, SeqDef
  <2>2. Len(f) \in Nat /\ DOMAIN f = 1..Len(f)
    BY <2>1, LenProperties
  <2> QED
    BY <1>1, <2>1, <2>2
<1>4. /\ Append(f, g) \in Seq(S) /\ Len(Append(f, g)) = Len(s) + 1
      /\ DOMAIN Append(f, g) = 1..(Len(s) + 1)
      /\ \A i \in 1..Len(s) : Append(f, g)[i] = f[i]
      /\ Append(f, g)[Len(s) + 1] = g
  <2>1. g \in S
    OBVIOUS
  <2> HIDE DEF f, g, S
  <2> QED
    BY <1>3, <2>1, AppendProperties, LenProperties
<1>5. \A i \in 1..(Len(s) + 1) : Flags(Append(s, e))[i] = Append(f, g)[i]
  <2> SUFFICES ASSUME NEW i \in 1..(Len(s) + 1)
               PROVE  Flags(Append(s, e))[i] = Append(f, g)[i]
    OBVIOUS
  <2>1. Flags(Append(s, e))[i] = [ts |-> Append(s, e)[i].ts, late |-> Append(s, e)[i].late]
    BY <1>1 DEF Flags
  <2>2. CASE i = Len(s) + 1
    BY <1>1, <1>4, <2>1, <2>2
  <2>3. CASE i \in 1..Len(s)
    BY <1>1, <1>4, <2>1, <2>3 DEF Flags
  <2>4. i = Len(s) + 1 \/ i \in 1..Len(s)
    BY <1>1
  <2> QED
    BY <2>2, <2>3, <2>4
<1> QED
  <2>1. DOMAIN Flags(Append(s, e)) = 1..(Len(s) + 1)
    BY <1>1 DEF Flags
  <2>2. Flags(Append(s, e)) = Append(f, g)
    BY <1>4, <1>5, <2>1 DEF Flags
  <2> QED
    BY <1>3, <2>2

\* The normalizer implements the flagged feed: whatever is dropped between two
\* ticks and however often the process dies, a tick is marked late exactly if a
\* newer one was published before it since the start (OutOfOrderDetector).
THEOREM FeedIsFlagged == NormSpec => MarksAreExact
<1>1. NormInit => Feed!FeedInit
  BY DEF NormInit, Feed!FeedInit
<1>2. NormIInv /\ [NormNext]_normVars
        => [Feed!FeedPublish \/ Feed!FeedRestart]_(Feed!feedVars)
  <2> SUFFICES ASSUME NormIInv, [NormNext]_normVars
               PROVE  \/ Feed!FeedPublish \/ Feed!FeedRestart
                      \/ UNCHANGED <<Flags(normalized), started>>
    BY DEF Feed!feedVars, Flags
  <2>t. DataTypeOK /\ NormTypeOK /\ WorkIsTrue
    BY DEF NormIInv
  <2>1. CASE PublishTick
    <3>1. /\ Entry(work) \in Entries /\ normalized \in Seq(Entries)
          /\ normalized' = Append(normalized, Entry(work)) /\ started' = started
          /\ work.ts \in Stamps /\ work.step = "publish"
      BY <2>t, <2>1, PublishKeeps DEF DataTypeOK, PublishTick, WorkIsTrue
    <3>2. /\ Flags(normalized)'
               = Append(Flags(normalized), [ts |-> work.ts, late |-> work.late])
          /\ Len(Flags(normalized)) = Len(normalized)
          /\ DOMAIN Flags(normalized) = 1..Len(normalized)
      <4>1. Entry(work).ts = work.ts /\ Entry(work).late = work.late
        BY DEF Entry
      <4>2. Flags(normalized)' = Flags(Append(normalized, Entry(work)))
        BY <3>1 DEF Flags
      <4> QED
        BY <3>1, <4>1, <4>2, FlagsOfAppend
    <3>3. work.late = (\E i \in ThisLife : normalized[i].ts > work.ts)
      <4>1. work.late \in BOOLEAN
        BY <2>t DEF DataTypeOK
      <4> QED
        BY <2>t, <3>1, <4>1 DEF WorkIsTrue
    <3>4. \A i \in ThisLife : Flags(normalized)[i].ts = normalized[i].ts
      BY <2>t, LifeEntries DEF Flags
    <3>5. work.late = (\E i \in (started + 1)..Len(Flags(normalized)) :
                        Flags(normalized)[i].ts > work.ts)
      BY <3>2, <3>3, <3>4 DEF ThisLife
    <3>6. Feed!FeedPublish
      BY <3>1, <3>2, <3>5 DEF Feed!FeedPublish, Feed!Newer, Flags
    <3> QED
      BY <3>6
  <2>2. CASE NormRestart
    <3>1. normalized' = normalized /\ started' = Len(normalized)
      BY <2>2 DEF NormRestart
    <3>2. Len(Flags(normalized)) = Len(normalized)
      <4>1. Len(normalized) \in Nat /\ DOMAIN Flags(normalized) = 1..Len(normalized)
        BY <2>t, LenProperties DEF DataTypeOK, Flags
      <4> QED
        BY <4>1 DEF Flags
    <3> QED
      BY <3>1, <3>2 DEF Feed!FeedRestart, Flags
  <2>3. CASE NormNext /\ ~PublishTick /\ ~NormRestart
    <3>1. UNCHANGED <<normalized, started>>
      BY <2>3 DEF NormNext, Ignore, DropTooSoon, Forward, Receive, UpdateHot, NormDies,
         PopulateSymbols, TimePasses, normVars, outputs
    <3> QED
      BY <3>1 DEF Flags
  <2>4. CASE UNCHANGED normVars
    BY <2>4 DEF normVars, outputs, Flags
  <2> QED
    BY <2>1, <2>2, <2>3, <2>4
<1> QED
  BY <1>1, <1>2, NormInvariant, PTL DEF NormSpec, MarksAreExact, Feed!FeedSpec

-----------------------------------------------------------------------------
(* Ingestion. *)

\* No wait after an ordinary failure is longer than reconnect_max.
LEMMA BackoffBounded ==
  \A n \in Nat : Backoff(n) \in 1..MaxBackoff
  BY IngestionAssumption DEF Backoff

\* The supervisor may be about to wait for a new token, or waits for one.
MayAwaitToken == feedStep = "connect" \/ (feedStep = "wait" /\ authFailure)

\* Then the flag is there, or on its way, for every token of the dashboard that the
\* supervisor has not read yet.
FlagCovers ==
  (MayAwaitToken /\ accessToken < stored /\ via = "dashboard") => forceRecheck \/ saving

IngestIInv ==
  /\ IngestTypeOK
  /\ FlagCovers
  /\ WaitFitsCause
  /\ feedStep = "stream" => failures = 0

LEMMA InitIngest == IngestInit => IngestIInv
<1> SUFFICES ASSUME IngestInit PROVE IngestIInv
  OBVIOUS
<1> USE DEF IngestInit
<1>1. live \subseteq 0..stored
  OBVIOUS
<1>2. IngestTypeOK
  <2>1. /\ saving \in BOOLEAN /\ forceRecheck \in BOOLEAN /\ authFailure \in BOOLEAN
    OBVIOUS
  <2> QED
    BY <1>1, <2>1, IngestionAssumption DEF IngestTypeOK, Tokens
<1> QED
  BY <1>2, IngestionAssumption DEF IngestIInv, FlagCovers, MayAwaitToken, WaitFitsCause

\* The end of an attempt, whichever way it ended: the types hold, and the wait is the
\* one for its cause.
LEMMA RetryFits ==
  ASSUME IngestTypeOK, NEW how \in {"refused", "error", "session"}, Retry(how, failures),
         how = "session" => failures = 0
  PROVE  /\ feedStep' = "wait" /\ ended' = how
         /\ authFailure' = (how = "refused")
         /\ failures' \in 1..(MaxBackoff + 1)
         /\ delay' \in 0..AuthBackoff
         /\ WaitFitsCause'
<1>1. feedStep' = "wait" /\ ended' = how
  BY DEF Retry
<1>b. authFailure' = (how = "refused")
  BY DEF Retry, FailedAsAuth
<1>a. authFailure' <=> how = "refused"
  BY DEF Retry, FailedAsAuth
<1>2. failures' \in 1..(MaxBackoff + 1) /\ (failures = 0 => failures' = 1)
  BY IngestionAssumption DEF Retry, Lesser, IngestTypeOK
<1>3. Backoff(failures') \in 1..MaxBackoff
  BY <1>2, BackoffBounded, IngestionAssumption
<1>4. delay' = IF authFailure' THEN AuthBackoff ELSE Backoff(failures')
  BY DEF Retry
<1>5. delay' \in 0..AuthBackoff /\ WaitFitsCause'
  <2>1. CASE how = "refused"
    <3>1. authFailure'
      BY <1>a, <2>1
    <3>2. delay' = AuthBackoff
      BY <1>4, <3>1
    <3> QED
      BY <1>1, <2>1, <3>2, IngestionAssumption DEF WaitFitsCause
  <2>2. CASE how # "refused"
    <3>1. ~authFailure'
      BY <1>a, <2>2
    <3>2. delay' = Backoff(failures')
      BY <1>4, <3>1
    <3>3. delay' \in 1..MaxBackoff /\ (how = "session" => delay' = Backoff(1))
      BY <1>2, <1>3, <3>2
    <3>4. (how = "session" => delay' <= Backoff(1)) /\ delay' <= MaxBackoff
      BY <3>3, IngestionAssumption
    <3> QED
      BY <1>1, <2>2, <3>3, <3>4, IngestionAssumption DEF WaitFitsCause
  <2> QED
    BY <2>1, <2>2
<1> QED
  BY <1>1, <1>2, <1>b, <1>5

\* The api and the life of tokens.
LEMMA TokensKeep ==
  ASSUME IngestIInv,
         \/ SaveToken \/ RequestRecheck \/ ForceRecheck \/ LoginCallback
         \/ TokenExpires \/ FlagExpires
  PROVE  IngestIInv'
<1>t. IngestTypeOK /\ FlagCovers
  BY DEF IngestIInv
<1>1. UNCHANGED <<feedStep, accessToken, failures, authFailure, delay, ended, feedFaults>>
  BY DEF SaveToken, RequestRecheck, ForceRecheck, LoginCallback, TokenExpires, FlagExpires,
     supervisor
<1>2. /\ stored' \in Tokens /\ stored' >= stored /\ live' \subseteq 0..stored'
      /\ via' \in {"env", "dashboard", "login"}
  <2>t. stored \in Tokens /\ live \subseteq 0..stored /\ via \in {"env", "dashboard", "login"}
    BY <1>t DEF IngestTypeOK
  <2>1. CASE SaveToken \/ LoginCallback
    <3>1. \E by \in {"dashboard", "login"} : NewToken(by)
      BY <2>1 DEF SaveToken, LoginCallback
    <3> QED
      BY <2>t, <3>1, IngestionAssumption DEF NewToken, Tokens
  <2>2. CASE RequestRecheck \/ ForceRecheck \/ TokenExpires \/ FlagExpires
    <3>1. stored' = stored /\ via' = via /\ live' \subseteq live
      BY <2>2 DEF RequestRecheck, ForceRecheck, TokenExpires, FlagExpires, store
    <3> QED
      BY <2>t, <3>1, IngestionAssumption DEF Tokens
  <2> QED
    BY <2>1, <2>2
<1>3. saving' \in BOOLEAN /\ forceRecheck' \in BOOLEAN
  BY <1>t DEF IngestTypeOK, SaveToken, RequestRecheck, ForceRecheck, LoginCallback,
     TokenExpires, FlagExpires, store
<1>4. IngestTypeOK'
  <2>1. accessToken' \in 0..stored'
    BY <1>t, <1>1, <1>2, IngestionAssumption DEF IngestTypeOK, Tokens
  <2> QED
    BY <1>t, <1>1, <1>2, <1>3, <2>1 DEF IngestTypeOK
<1>5. FlagCovers'
  <2>1. CASE SaveToken
    BY <2>1 DEF SaveToken, FlagCovers
  <2>2. CASE RequestRecheck \/ ForceRecheck
    BY <2>2 DEF RequestRecheck, ForceRecheck, FlagCovers
  <2>3. CASE LoginCallback
    <3>1. via' = "login"
      BY <2>3 DEF LoginCallback, NewToken
    <3> QED
      BY <3>1 DEF FlagCovers
  <2>4. CASE TokenExpires
    BY <1>t, <1>1, <2>4 DEF TokenExpires, FlagCovers, MayAwaitToken
  <2>5. CASE FlagExpires
    <3>1. feedStep' = "stream"
      BY <1>1, <2>5 DEF FlagExpires
    <3> QED
      BY <3>1 DEF FlagCovers, MayAwaitToken
  <2> QED
    BY <2>1, <2>2, <2>3, <2>4, <2>5
<1>6. WaitFitsCause' /\ (feedStep' = "stream" => failures' = 0)
  BY <1>1 DEF IngestIInv, WaitFitsCause
<1> QED
  BY <1>4, <1>5, <1>6 DEF IngestIInv

\* The attempts of the supervisor that fail.
LEMMA AttemptKeeps ==
  ASSUME IngestIInv, Authenticate \/ Connect \/ SessionEnds \/ AttemptFails
  PROVE  IngestIInv'
<1>t. IngestTypeOK /\ FlagCovers /\ WaitFitsCause /\ (feedStep = "stream" => failures = 0)
  BY DEF IngestIInv
<1>1. UNCHANGED <<store, forceRecheck>>
  BY DEF Authenticate, Connect, SessionEnds, AttemptFails
<1>2. accessToken' \in 0..stored /\ feedFaults' \in 0..MaxFeedFaults
  BY <1>t, IngestionAssumption
  DEF IngestTypeOK, Tokens, Authenticate, Connect, SessionEnds, AttemptFails
<1>3. CASE \E how \in {"refused", "error", "session"} :
             /\ Retry(how, failures)
             /\ how = "session" => feedStep = "stream"
             /\ how = "refused" => accessToken' = stored \/ (feedStep = "connect" /\ accessToken' = accessToken)
  <2>1. PICK how \in {"refused", "error", "session"} :
             /\ Retry(how, failures)
             /\ how = "session" => feedStep = "stream"
             /\ how = "refused" => accessToken' = stored \/ (feedStep = "connect" /\ accessToken' = accessToken)
    BY <1>3
  <2>2. /\ feedStep' = "wait" /\ ended' = how
        /\ authFailure' = (how = "refused")
        /\ failures' \in 1..(MaxBackoff + 1)
        /\ delay' \in 0..AuthBackoff
        /\ WaitFitsCause'
    BY <1>t, <2>1, RetryFits
  <2>3. authFailure' \in BOOLEAN
    BY <2>2
  <2>4. IngestTypeOK'
    BY <1>t, <1>1, <1>2, <2>2, <2>3, IngestionAssumption DEF IngestTypeOK, store
  <2>5. FlagCovers'
    <3>1. SUFFICES ASSUME authFailure', accessToken' < stored', via' = "dashboard"
                   PROVE  forceRecheck' \/ saving'
      BY <2>2 DEF FlagCovers, MayAwaitToken
    <3>2. how = "refused" /\ stored' = stored /\ via = "dashboard"
      BY <1>1, <2>2, <3>1 DEF store
    <3>3. accessToken' # stored
      BY <1>t, <1>2, <3>1, <3>2 DEF IngestTypeOK, Tokens
    <3>4. feedStep = "connect" /\ accessToken < stored
      BY <2>1, <3>1, <3>2, <3>3
    <3> QED
      BY <1>t, <1>1, <3>2, <3>4 DEF FlagCovers, MayAwaitToken, store
  <2> QED
    BY <2>2, <2>4, <2>5 DEF IngestIInv
<1>4. CASE \/ Goto("connect") /\ accessToken' = stored
           \/ Goto("subscribe")
  <2>1. /\ UNCHANGED <<failures, authFailure, delay, ended>>
        /\ feedStep' \in {"connect", "subscribe"}
        /\ feedStep' = "connect" => accessToken' = stored
    BY <1>4 DEF Goto
  <2>2. IngestTypeOK'
    BY <1>t, <1>1, <1>2, <2>1 DEF IngestTypeOK, store
  <2>3. FlagCovers'
    <3>1. CASE feedStep' = "connect"
      <4>1. ~(accessToken' < stored')
        BY <1>t, <1>1, <2>1, <3>1 DEF IngestTypeOK, Tokens, store
      <4> QED
        BY <4>1 DEF FlagCovers
    <3> QED
      BY <2>1, <3>1 DEF FlagCovers, MayAwaitToken
  <2> QED
    BY <2>1, <2>2, <2>3 DEF IngestIInv, WaitFitsCause
<1> QED
  <2>1. CASE Authenticate
    BY <1>3, <1>4, <2>1 DEF Authenticate
  <2>2. CASE Connect
    BY <1>3, <1>4, <2>2 DEF Connect
  <2>3. CASE SessionEnds
    BY <1>3, <2>3 DEF SessionEnds
  <2>4. CASE AttemptFails
    BY <1>3, <2>4 DEF AttemptFails
  <2> QED
    BY <2>1, <2>2, <2>3, <2>4

\* The wait, its end, and what resets the supervisor.
LEMMA WaitKeeps ==
  ASSUME IngestIInv,
         \/ Subscribe \/ Poll \/ WaitOver \/ PollFindsFlag \/ Wake
         \/ PollFails \/ IngestRestart
  PROVE  IngestIInv'
<1>t. IngestTypeOK /\ FlagCovers /\ WaitFitsCause
  BY DEF IngestIInv
<1>1. UNCHANGED store
  BY DEF Subscribe, Poll, WaitOver, PollFindsFlag, Wake, PollFails, IngestRestart
<1>2. IngestTypeOK'
  <2>1. forceRecheck' \in BOOLEAN /\ authFailure' \in BOOLEAN
    BY <1>t DEF IngestTypeOK, Subscribe, Poll, WaitOver, PollFindsFlag, Wake, PollFails,
       IngestRestart, Goto
  <2>2. failures' \in 0..(MaxBackoff + 1)
    BY <1>t, IngestionAssumption DEF IngestTypeOK, Subscribe, Poll, WaitOver, PollFindsFlag,
       Wake, PollFails, IngestRestart, Goto
  <2>3. delay' \in 0..AuthBackoff
    BY <1>t, IngestionAssumption DEF IngestTypeOK, Subscribe, Poll, WaitOver, PollFindsFlag,
       Wake, PollFails, IngestRestart, Goto
  <2>4. feedFaults' \in 0..MaxFeedFaults
    BY <1>t, IngestionAssumption DEF IngestTypeOK, Subscribe, Poll, WaitOver, PollFindsFlag,
       Wake, PollFails, IngestRestart, Goto
  <2>5. accessToken' \in 0..stored
    BY <1>t DEF IngestTypeOK, Tokens, Subscribe, Poll, WaitOver, PollFindsFlag,
       Wake, PollFails, IngestRestart, Goto
  <2>6. /\ feedStep' \in {"authenticate", "connect", "subscribe", "stream", "wait", "wake"}
        /\ ended' \in {"none", "refused", "error", "session"}
    BY <1>t DEF IngestTypeOK, Subscribe, Poll, WaitOver, PollFindsFlag,
       Wake, PollFails, IngestRestart, Goto
  <2> QED
    BY <1>t, <1>1, <2>1, <2>2, <2>3, <2>4, <2>5, <2>6 DEF IngestTypeOK, store
<1>3. CASE Poll
  <2>1. /\ UNCHANGED <<feedStep, accessToken, failures, authFailure, ended, forceRecheck>>
        /\ feedStep = "wait" /\ delay' = delay - 1
    BY <1>3 DEF Poll
  <2>2. FlagCovers'
    BY <1>t, <1>1, <2>1 DEF FlagCovers, MayAwaitToken, store
  <2>3. Backoff(1) \in 1..MaxBackoff /\ delay \in Nat /\ AuthBackoff \in Nat /\ MaxBackoff \in Nat
    BY <1>t, BackoffBounded, IngestionAssumption DEF IngestTypeOK
  <2>4. WaitFitsCause'
    <3>1. \A bound \in Nat : delay <= bound => delay' <= bound
      BY <2>1, <2>3
    <3>2. Backoff(1) \in Nat
      BY <2>3
    <3> QED
      BY <1>t, <2>1, <2>3, <3>1, <3>2 DEF WaitFitsCause
  <2> QED
    BY <1>2, <2>1, <2>2, <2>4 DEF IngestIInv
<1>4. CASE \/ Subscribe \/ WaitOver \/ PollFindsFlag \/ Wake \/ PollFails \/ IngestRestart
  <2>1. feedStep' \in {"stream", "wake", "authenticate"} /\ (feedStep' = "stream" => failures' = 0)
    BY <1>4 DEF Subscribe, WaitOver, PollFindsFlag, Wake, PollFails, IngestRestart, Goto
  <2> QED
    BY <1>2, <2>1 DEF IngestIInv, FlagCovers, MayAwaitToken, WaitFitsCause
<1> QED
  BY <1>3, <1>4

LEMMA IngestStep == IngestIInv /\ [IngestNext]_ingestVars => IngestIInv'
<1> SUFFICES ASSUME IngestIInv, [IngestNext]_ingestVars PROVE IngestIInv'
  OBVIOUS
<1>1. CASE IngestNext
  BY <1>1, TokensKeep, AttemptKeeps, WaitKeeps DEF IngestNext, SupervisorStep
<1>2. CASE UNCHANGED ingestVars
  BY <1>2 DEF ingestVars, store, supervisor, IngestIInv, IngestTypeOK, FlagCovers, MayAwaitToken,
     WaitFitsCause
<1> QED
  BY <1>1, <1>2

\* What the supervisor needs of its flag to keep its word about saved tokens: the flag
\* is there already while it connects, and the count is reset before the feed streams.
THEOREM IngestInvariant == IngestSpec => []IngestIInv
<1> QED
  BY InitIngest, IngestStep, PTL DEF IngestSpec

\* A token saved on the dashboard is never slept over, and no wait of the supervisor is
\* longer than its cause deserves.
THEOREM TokensAreNoticed == IngestSpec => []IngestSafe
<1>1. IngestIInv => IngestSafe
  <2> SUFFICES ASSUME IngestIInv PROVE IngestTypeOK /\ SavedTokenWakes /\ WaitFitsCause
    BY DEF IngestSafe
  <2>1. IngestTypeOK /\ FlagCovers /\ WaitFitsCause
    BY DEF IngestIInv
  <2> QED
    BY <2>1 DEF FlagCovers, MayAwaitToken, SavedTokenWakes, WaitsForToken
<1> QED
  BY <1>1, IngestInvariant, PTL

-----------------------------------------------------------------------------
(* The gateway. *)

\* However many clients there are, their number is a number.
LEMMA ClientsCount ==
  \A S \in SUBSET Ids : Cardinality(S) \in 0..Cardinality(Ids)
<1> SUFFICES ASSUME NEW S \in SUBSET Ids PROVE Cardinality(S) \in 0..Cardinality(Ids)
  OBVIOUS
<1>1. /\ IsFiniteSet(S) /\ IsFiniteSet(Ids) /\ Cardinality(S) <= Cardinality(Ids)
  BY GatewayAssumption, FS_Subset
<1>2. Cardinality(S) \in Nat /\ Cardinality(Ids) \in Nat
  BY <1>1, FS_CardinalityType
<1> QED
  BY <1>1, <1>2

Walks == [message : 0..latest, visited : SUBSET Ids, size : 0..Cardinality(Ids),
          dead : SUBSET walk.visited]

LEMMA NoWalkFits ==
  /\ NoWalk.message = 0 /\ NoWalk.visited = {} /\ NoWalk.size = 0 /\ NoWalk.dead = {}
  /\ \A n \in Nat : NoWalk \in [message : 0..n, visited : SUBSET Ids,
                                size : 0..Cardinality(Ids), dead : SUBSET {}]
<1>1. 0 \in 0..Cardinality(Ids)
  BY ClientsCount
<1> QED
  BY <1>1 DEF NoWalk

LEMMA InitGate == GateInit => GateSafe
<1> SUFFICES ASSUME GateInit PROVE GateSafe
  OBVIOUS
<1> USE DEF GateInit
<1>1. walk \in Walks
  BY NoWalkFits DEF Walks
<1>2. crashed \in BOOLEAN
  OBVIOUS
<1>3. /\ socket \in [Ids -> {"new", "open", "broken", "gone"}]
      /\ clients \subseteq Ids
      /\ latest \in 0..MaxUpdates /\ buffered \in 0..latest
      /\ shown \in [Ids -> 0..latest]
  BY GatewayAssumption
<1> QED
  BY <1>1, <1>2, <1>3 DEF GateSafe, GateTypeOK, NoGhostClients, Walks

\* The handlers: whoever leaves has left the registry.
LEMMA HandlersKeep ==
  ASSUME GateSafe, NEW b \in Ids, ClientConnects(b) \/ SocketBreaks(b) \/ HandlerEnds(b)
  PROVE  GateSafe'
<1>t. GateTypeOK /\ NoGhostClients
  BY DEF GateSafe
<1>1. UNCHANGED <<latest, buffered, walk, shown, crashed>>
  BY DEF ClientConnects, SocketBreaks, HandlerEnds
<1>2. socket' \in [Ids -> {"new", "open", "broken", "gone"}] /\ clients' \subseteq Ids
  BY <1>t DEF GateTypeOK, ClientConnects, SocketBreaks, HandlerEnds
<1>3. GateTypeOK'
  BY <1>t, <1>1, <1>2 DEF GateTypeOK
<1>4. NoGhostClients'
  BY <1>t DEF GateTypeOK, NoGhostClients, ClientConnects, SocketBreaks, HandlerEnds
<1> QED
  BY <1>3, <1>4 DEF GateSafe

\* Ticks, the flusher and the restart.
LEMMA FlusherKeeps ==
  ASSUME GateSafe, BufferTick \/ Flusher \/ GateRestart
  PROVE  GateSafe'
<1>t. GateTypeOK /\ NoGhostClients
  BY DEF GateSafe
<1>n. /\ latest \in Nat /\ latest <= MaxUpdates /\ buffered \in 0..latest
      /\ walk \in Walks /\ shown \in [Ids -> 0..latest]
      /\ clients \subseteq Ids /\ socket \in [Ids -> {"new", "open", "broken", "gone"}]
  BY <1>t, GatewayAssumption DEF GateTypeOK, Walks
<1>c. crashed \in BOOLEAN
  BY <1>t DEF GateTypeOK
<1>1. CASE BufferTick
  <2>1. /\ latest' = latest + 1 /\ latest' \in 0..MaxUpdates /\ buffered' = latest'
        /\ UNCHANGED <<socket, clients, walk, shown, crashed>>
    BY <1>n, <1>1, GatewayAssumption DEF BufferTick
  <2>2. 0..latest \subseteq 0..latest' /\ buffered' \in 0..latest'
    BY <1>n, <2>1
  <2>3. walk' \in Walks' /\ shown' \in [Ids -> 0..latest']
    BY <1>n, <2>1, <2>2 DEF Walks
  <2> QED
    BY <1>t, <2>1, <2>2, <2>3 DEF GateSafe, GateTypeOK, NoGhostClients, Walks
<1>2. CASE FlushBatch
  <2>1. UNCHANGED <<socket, clients, latest, shown, crashed>> /\ buffered' = 0 /\ walk = NoWalk
    BY <1>2 DEF FlushBatch
  <2>2. walk' \in Walks'
    <3>1. CASE clients = {}
      BY <1>n, <1>2, <2>1, <3>1 DEF FlushBatch, Walks
    <3>2. CASE clients # {}
      <4>1. walk' = [[NoWalk EXCEPT !.message = buffered] EXCEPT !.size = Cardinality(clients)]
        BY <1>2, <3>2 DEF FlushBatch, NoWalk
      <4>2. /\ walk'.message = buffered /\ walk'.visited = {} /\ walk'.dead = {}
            /\ walk'.size = Cardinality(clients)
            /\ walk' = [message |-> walk'.message, visited |-> walk'.visited,
                        size |-> walk'.size, dead |-> walk'.dead]
        BY <4>1 DEF NoWalk
      <4>3. Cardinality(clients) \in 0..Cardinality(Ids)
        BY <1>n, ClientsCount
      <4> QED
        BY <1>n, <2>1, <4>2, <4>3 DEF Walks
    <3> QED
      BY <3>1, <3>2
  <2>3. buffered' \in 0..latest'
    BY <1>n, <2>1
  <2> QED
    BY <1>t, <2>1, <2>2, <2>3 DEF GateSafe, GateTypeOK, NoGhostClients, Walks
<1>3. CASE \E b \in Ids : SendTo(b)
  <2>1. PICK b \in Ids : SendTo(b)
    BY <1>3
  <2>2. UNCHANGED <<socket, clients, latest, buffered, crashed>>
    BY <2>1 DEF SendTo
  <2>3. walk.message \in 0..latest /\ walk.visited \in SUBSET Ids
        /\ walk.size \in 0..Cardinality(Ids) /\ walk.dead \in SUBSET walk.visited
    BY <1>n DEF Walks
  <2>4. shown' \in [Ids -> 0..latest']
    BY <1>n, <2>1, <2>2, <2>3 DEF SendTo
  <2>5. walk' \in Walks'
    <3> DEFINE seen == [walk EXCEPT !.visited = walk.visited \cup {b}]
    <3>1. /\ seen.message = walk.message /\ seen.visited = walk.visited \cup {b}
          /\ seen.size = walk.size /\ seen.dead = walk.dead
          /\ seen \in [message : 0..latest, visited : SUBSET Ids,
                       size : 0..Cardinality(Ids), dead : SUBSET Ids]
      BY <1>n, <2>3 DEF Walks
    <3>2. walk' = IF socket[b] = "open" THEN seen
                  ELSE [seen EXCEPT !.dead = seen.dead \cup {b}]
      BY <2>1 DEF SendTo
    <3> HIDE DEF seen
    <3>3. /\ walk'.visited = seen.visited /\ walk'.dead \subseteq seen.visited
          /\ walk' \in [message : 0..latest, visited : SUBSET Ids,
                        size : 0..Cardinality(Ids), dead : SUBSET Ids]
      <4>1. CASE socket[b] = "open"
        BY <2>3, <3>1, <3>2, <4>1
      <4>2. CASE socket[b] # "open"
        <5>1. walk' = [seen EXCEPT !.dead = seen.dead \cup {b}]
          BY <3>2, <4>2
        <5> QED
          BY <2>3, <3>1, <5>1
      <4> QED
        BY <4>1, <4>2
    <3> QED
      BY <2>2, <2>3, <3>3 DEF Walks
  <2> QED
    BY <1>t, <2>2, <2>4, <2>5 DEF GateSafe, GateTypeOK, NoGhostClients, Walks
<1>4. CASE FlushEnds
  <2>1. UNCHANGED <<socket, latest, buffered, shown, crashed>> /\ clients' \subseteq clients
        /\ walk' = NoWalk
    BY <1>4 DEF FlushEnds
  <2>2. walk' \in Walks'
    BY <1>n, <2>1, NoWalkFits DEF Walks
  <2> QED
    BY <1>t, <1>n, <2>1, <2>2 DEF GateSafe, GateTypeOK, NoGhostClients, Walks
<1>5. CASE FlushRaises
  <2>1. UNCHANGED <<latest, shown>> /\ clients' = {} /\ buffered' = 0 /\ walk' = NoWalk
        /\ socket' \in [Ids -> {"new", "open", "broken", "gone"}]
    BY <1>5 DEF FlushRaises
  <2>2. walk' \in Walks' /\ buffered' \in 0..latest'
    BY <1>n, <2>1, NoWalkFits DEF Walks
  <2>3. crashed' \in BOOLEAN
    BY <1>5 DEF FlushRaises
  <2> QED
    BY <1>t, <2>1, <2>2, <2>3 DEF GateSafe, GateTypeOK, NoGhostClients, Walks
<1>6. CASE GateRestart
  <2>1. UNCHANGED <<socket, clients, latest, buffered, walk, shown>>
    BY <1>6 DEF GateRestart
  <2>2. crashed' \in BOOLEAN
    BY <1>6 DEF GateRestart
  <2> QED
    BY <1>t, <2>1, <2>2 DEF GateSafe, GateTypeOK, NoGhostClients
<1> QED
  BY <1>1, <1>2, <1>3, <1>4, <1>5, <1>6 DEF Flusher

LEMMA GateStep == GateSafe /\ [GateNext]_gateVars => GateSafe'
<1> SUFFICES ASSUME GateSafe, [GateNext]_gateVars PROVE GateSafe'
  OBVIOUS
<1>1. CASE GateNext
  BY <1>1, HandlersKeep, FlusherKeeps DEF GateNext
<1>2. CASE UNCHANGED gateVars
  BY <1>2 DEF gateVars, GateSafe, GateTypeOK, NoGhostClients
<1> QED
  BY <1>1, <1>2

\* However clients come, leave and break while flush_batch is at its sends, and however
\* often the walk raises, nobody stays in the registry without a handler.
THEOREM NoGhosts == GateSpec => []GateSafe
<1> QED
  BY InitGate, GateStep, PTL DEF GateSpec

-----------------------------------------------------------------------------
(* The streams. *)

\* The initial state satisfies the inductive invariant.
LEMMA InitIInv == Init => IInv
<1> SUFFICES ASSUME Init PROVE IInv
  OBVIOUS
<1> USE ConsumerAssumption DEF Init
<1>1. handed \in Seq(Messages) /\ DOMAIN handed = {}
  OBVIOUS
<1>2. TypeOK
  BY <1>1 DEF TypeOK, Outcomes, Messages
<1> QED
  BY <1>1, <1>2 DEF IInv, BatchTaken, WorkInBatch, HandedBehind,
     SettledBeforeAck, AcknowledgedIsSettled, NothingSkipped

\* What XREADGROUP hands out lies past the cursor and inside the stream.
LEMMA DeliverBounds ==
  ASSUME TypeOK, Deliver
  PROVE  /\ Oldest \in (cursor + 1)..published
         /\ Newest \in Oldest..published
         /\ cursor' = Newest
         /\ delivered' \subseteq 1..Newest
         /\ pending' \subseteq delivered'
         /\ Oldest = cursor + 1 \/ Oldest = first
<1> USE ConsumerAssumption
<1>1. /\ Oldest \in Int
      /\ Oldest >= cursor + 1
      /\ Oldest <= published
      /\ Oldest = cursor + 1 \/ Oldest = first
  BY DEF TypeOK, Deliver, Oldest
<1>2. Newest \in Oldest..published
  BY <1>1 DEF TypeOK, Newest
<1>3. delivered' \subseteq 1..Newest /\ pending' \subseteq delivered'
  BY <1>1, <1>2 DEF TypeOK, Deliver
<1> QED
  BY <1>1, <1>2, <1>3 DEF TypeOK, Deliver

\* A delivery keeps what is acknowledged settled, and leaves no gap.
LEMMA DeliverKeeps ==
  ASSUME TypeOK, AcknowledgedIsSettled, NothingSkipped, Deliver,
         UNCHANGED <<outcome, first>>
  PROVE  AcknowledgedIsSettled' /\ NothingSkipped'
<1>1. AcknowledgedIsSettled'
  BY DEF Deliver, AcknowledgedIsSettled
<1>2. NothingSkipped'
  <2> SUFFICES ASSUME NEW m \in (1..cursor') \ delivered'
               PROVE  m < first
    BY DEF NothingSkipped
  <2>1. m < Oldest
    BY DeliverBounds DEF Deliver, TypeOK
  <2>2. CASE m <= cursor
    BY <2>2 DEF NothingSkipped, Deliver, TypeOK
  <2>3. CASE m > cursor
    BY <2>1, <2>3, DeliverBounds DEF TypeOK
  <2> QED
    BY <2>2, <2>3 DEF TypeOK
<1> QED
  BY <1>1, <1>2

\* Every step keeps the inductive invariant.
LEMMA NextIInv == IInv /\ [Next]_vars => IInv'
<1> SUFFICES ASSUME IInv, [Next]_vars PROVE IInv'
  OBVIOUS
<1> USE ConsumerAssumption
<1>t. /\ TypeOK /\ BatchTaken /\ WorkInBatch /\ HandedBehind
      /\ SettledBeforeAck /\ AcknowledgedIsSettled /\ NothingSkipped
  BY DEF IInv
<1>1. CASE Publish
  <2>1. TypeOK'
    BY <1>t, <1>1 DEF TypeOK, Publish, group, loop, history
  <2>2. NothingSkipped'
    BY <1>t, <1>1 DEF TypeOK, NothingSkipped, Publish, group, history
  <2> QED
    BY <1>t, <1>1, <2>1, <2>2 DEF IInv, Publish, group, loop, history, BatchTaken,
       WorkInBatch, HandedBehind, SettledBeforeAck, AcknowledgedIsSettled
<1>2. CASE Read
  <2>1. TypeOK'
    BY <1>t, <1>2, DeliverBounds DEF TypeOK, Read, At, stream
  <2>2. HandedBehind'
    BY <1>t, <1>2, DeliverBounds DEF TypeOK, HandedBehind, BatchTaken, Read, At
  <2>3. AcknowledgedIsSettled' /\ NothingSkipped'
    BY <1>t, <1>2, DeliverKeeps DEF Read, stream
  <2> QED
    BY <1>t, <1>2, <2>1, <2>2, <2>3 DEF IInv, Read, At, BatchTaken, WorkInBatch,
       SettledBeforeAck
<1>3. CASE ReadReplyLost
  <2>1. TypeOK'
    BY <1>t, <1>3, DeliverBounds DEF TypeOK, ReadReplyLost, At, stream
  <2>2. HandedBehind'
    BY <1>t, <1>3, DeliverBounds
       DEF TypeOK, HandedBehind, BatchTaken, ReadReplyLost, At
  <2>3. AcknowledgedIsSettled' /\ NothingSkipped'
    BY <1>t, <1>3, DeliverKeeps DEF ReadReplyLost, stream
  <2> QED
    BY <1>t, <1>3, <2>1, <2>2, <2>3 DEF IInv, ReadReplyLost, At, BatchTaken,
       WorkInBatch, SettledBeforeAck
<1>4. CASE Yield
  <2>1. next \in Messages
    BY <1>t, <1>4 DEF TypeOK, Yield, Messages
  <2>2. handed' \in Seq(Messages) /\ Len(handed') = Len(handed) + 1
    BY <1>t, <1>4, <2>1 DEF TypeOK, Yield
  <2>3. TypeOK'
    BY <1>t, <1>4, <2>2 DEF TypeOK, Yield, stream, group
  <2>4. HandedBehind'
    <3> SUFFICES ASSUME NEW i \in DOMAIN handed'
                 PROVE  handed'[i] < next \/ handed'[i] = next
      BY <1>4 DEF HandedBehind, Yield
    <3>1. i \in 1..(Len(handed) + 1)
      BY <2>2
    <3>2. CASE i = Len(handed) + 1
      BY <1>t, <1>4, <2>1, <3>2 DEF TypeOK, Yield
    <3>3. CASE i \in 1..Len(handed)
      BY <1>t, <1>4, <2>1, <3>3 DEF TypeOK, Yield, HandedBehind
    <3> QED
      BY <1>t, <3>1, <3>2, <3>3 DEF TypeOK
  <2> QED
    BY <1>t, <1>4, <2>3, <2>4 DEF IInv, Yield, At, stream, group, BatchTaken,
       WorkInBatch, SettledBeforeAck, AcknowledgedIsSettled, NothingSkipped
<1>5. CASE Divert
  BY <1>t, <1>5 DEF IInv, TypeOK, Divert, At, stream, group, history, BatchTaken,
     WorkInBatch, HandedBehind, SettledBeforeAck, AcknowledgedIsSettled,
     NothingSkipped
<1>6. CASE BatchDone
  BY <1>t, <1>6 DEF IInv, TypeOK, BatchDone, At, stream, group, history, BatchTaken,
     WorkInBatch, HandedBehind, SettledBeforeAck, AcknowledgedIsSettled,
     NothingSkipped
<1>7. ASSUME NEW how \in Outcomes \ {"open"}, Ends(how)
      PROVE  /\ outcome' \in [Messages -> Outcomes]
             /\ next \in Messages => outcome'[next] # "open"
             /\ \A m \in delivered \ pending : outcome'[m] # "open"
  <2>1. delivered \subseteq Messages
    BY <1>t DEF TypeOK, Messages
  <2> QED
    BY <1>t, <1>7, <2>1 DEF TypeOK, Ends, AcknowledgedIsSettled
<1>8. CASE SendToDlq
  <2>1. PICK how \in Outcomes \ {"open"} : Ends(how)
    BY <1>8 DEF SendToDlq, Outcomes
  <2>2. next \in Messages
    BY <1>t, <1>8 DEF TypeOK, WorkInBatch, SendToDlq, At, Messages
  <2>3. /\ outcome' \in [Messages -> Outcomes]
        /\ outcome'[next] # "open"
        /\ \A m \in delivered \ pending : outcome'[m] # "open"
    BY <1>7, <2>1, <2>2
  <2> QED
    BY <1>t, <1>8, <2>3 DEF IInv, TypeOK, SendToDlq, At, stream, group, BatchTaken,
       WorkInBatch, HandedBehind, SettledBeforeAck, AcknowledgedIsSettled,
       NothingSkipped
<1>9. CASE HandlerReturns
  <2>1. next \in Messages
    BY <1>t, <1>9 DEF TypeOK, WorkInBatch, HandlerReturns, At, Messages
  <2>2. /\ outcome' \in [Messages -> Outcomes]
        /\ outcome'[next] # "open"
        /\ \A m \in delivered \ pending : outcome'[m] # "open"
    BY <1>7, <1>9, <2>1 DEF HandlerReturns, Outcomes
  <2> QED
    BY <1>t, <1>9, <2>2 DEF IInv, TypeOK, HandlerReturns, At, stream, group,
       BatchTaken, WorkInBatch, HandedBehind, SettledBeforeAck,
       AcknowledgedIsSettled, NothingSkipped
<1>10. CASE HandlerRaises
  <2>1. next \in Messages
    BY <1>t, <1>10 DEF TypeOK, WorkInBatch, HandlerRaises, At, Messages
  <2>2. /\ outcome' \in [Messages -> Outcomes]
        /\ outcome'[next] # "open"
        /\ \A m \in delivered \ pending : outcome'[m] # "open"
    BY <1>7, <1>10, <2>1 DEF HandlerRaises, Outcomes
  <2>3. CASE CatchErrors
    BY <1>t, <1>10, <2>2, <2>3 DEF IInv, TypeOK, HandlerRaises, At, stream, group,
       BatchTaken, WorkInBatch, HandedBehind, SettledBeforeAck,
       AcknowledgedIsSettled, NothingSkipped
  <2>4. CASE ~CatchErrors
    <3>1. TypeOK'
      BY <1>t, <1>10, <2>2, <2>4 DEF TypeOK, HandlerRaises, LoopDies, stream, group
    <3>2. HandedBehind'
      BY <1>t, <1>10, <2>4 DEF TypeOK, HandlerRaises, LoopDies, group, HandedBehind,
         WorkInBatch, At
    <3>3. AcknowledgedIsSettled' /\ NothingSkipped'
      BY <1>t, <1>10, <2>2 DEF HandlerRaises, stream, group,
         AcknowledgedIsSettled, NothingSkipped
    <3> QED
      BY <1>10, <2>4, <3>1, <3>2, <3>3 DEF IInv, HandlerRaises, LoopDies, group,
         BatchTaken, WorkInBatch, SettledBeforeAck
  <2> QED
    BY <2>3, <2>4
<1>11. CASE Ack
  BY <1>t, <1>11 DEF IInv, TypeOK, Ack, AtAck, At, stream, history, BatchTaken,
     WorkInBatch, HandedBehind, SettledBeforeAck, AcknowledgedIsSettled,
     NothingSkipped
<1>12. CASE AckFails
  <2>1. TypeOK'
    BY <1>t, <1>12 DEF TypeOK, AckFails, LoopDies, AtAck, At, stream
  <2>2. AcknowledgedIsSettled'
    BY <1>t, <1>12 DEF TypeOK, AckFails, AtAck, At, SettledBeforeAck,
       AcknowledgedIsSettled
  <2> QED
    BY <1>t, <1>12, <2>1, <2>2 DEF IInv, TypeOK, AckFails, LoopDies, AtAck, At, stream,
       BatchTaken, WorkInBatch, HandedBehind, SettledBeforeAck, NothingSkipped
<1>13. CASE Crash
  <2>1. TypeOK'
    BY <1>t, <1>13 DEF TypeOK, Crash, stream, group
  <2>2. HandedBehind'
    <3>1. /\ handed' = handed
          /\ next' = cursor + 1
      BY <1>13 DEF Crash
    <3>2. ASSUME NEW i \in DOMAIN handed PROVE handed[i] < cursor + 1
      <4>1. handed[i] \in Int /\ next \in Int /\ cursor \in Int /\ next <= cursor + 1
        BY <1>t DEF TypeOK, Messages
      <4>2. handed[i] < next \/ (handed[i] = next /\ next <= cursor)
        BY <1>t DEF HandedBehind, WorkInBatch
      <4> QED
        BY <4>1, <4>2
    <3> QED
      BY <3>1, <3>2 DEF HandedBehind
  <2> QED
    BY <1>t, <1>13, <2>1, <2>2 DEF IInv, Crash, stream, group, BatchTaken,
       WorkInBatch, SettledBeforeAck, AcknowledgedIsSettled, NothingSkipped
<1>14. CASE Restart
  BY <1>t, <1>14 DEF IInv, TypeOK, Restart, stream, group, history, BatchTaken,
     WorkInBatch, HandedBehind, SettledBeforeAck, AcknowledgedIsSettled,
     NothingSkipped
<1>15. CASE UNCHANGED vars
  BY <1>t, <1>15 DEF IInv, TypeOK, vars, stream, group, loop, history, BatchTaken,
     WorkInBatch, HandedBehind, SettledBeforeAck, AcknowledgedIsSettled,
     NothingSkipped
<1> QED
  BY <1>1, <1>2, <1>3, <1>4, <1>5, <1>6, <1>8, <1>9, <1>10, <1>11, <1>12, <1>13,
     <1>14, <1>15 DEF Next, LoopStep

\* The inductive invariant holds in every reachable state.
THEOREM Invariant == Spec => []IInv
  BY InitIInv, NextIInv, PTL DEF Spec

\* Every variable keeps its type, for every value of the constants.
THEOREM TypeCorrect == Spec => []TypeOK
<1>1. IInv => TypeOK
  BY DEF IInv
<1> QED
  BY <1>1, Invariant, PTL

\* No acknowledgement runs ahead of the handler or of the dead letters.
THEOREM Settled == Spec => []AcknowledgedIsSettled
<1>1. IInv => AcknowledgedIsSettled
  BY DEF IInv
<1> QED
  BY <1>1, Invariant, PTL

\* The group never jumps over a message that is still in the stream.
THEOREM NoGap == Spec => []NothingSkipped
<1>1. IInv => NothingSkipped
  BY DEF IInv
<1> QED
  BY <1>1, Invariant, PTL

\* What the group says of a message and what has become of it agree, whatever
\* crashes, lost replies and failing acknowledgements there are (consume).
THEOREM StreamsSafe == Spec => []StreamSafe
<1>1. TypeOK /\ AcknowledgedIsSettled /\ NothingSkipped => StreamSafe
  BY DEF StreamSafe
<1> QED
  BY <1>1, TypeCorrect, Settled, NoGap, PTL

\* The consumer implements ordered delivery: crashes, lost replies and failing
\* acknowledgements never make the handler see a message again, or too late.
THEOREM Refinement == Spec => InOrderAtMostOnce
<1>1. Init => Delivery!Init
  BY DEF Init, Delivery!Init
<1>2. IInv /\ [Next]_vars => [Delivery!Next]_<<published, handed>>
  <2> SUFFICES ASSUME IInv, [Next]_vars
               PROVE  Delivery!Next \/ UNCHANGED <<published, handed>>
    OBVIOUS
  <2>1. CASE Publish
    BY <2>1 DEF Publish, history, Delivery!Next, Delivery!Publish
  <2>2. CASE Yield
    <3>1. next \in 1..published
      BY <2>2 DEF IInv, TypeOK, Yield
    <3>2. Delivery!HandOver(next)
      BY <2>2 DEF IInv, HandedBehind, Yield, At, stream, Delivery!HandOver
    <3> QED
      BY <3>1, <3>2 DEF Delivery!Next
  <2>3. CASE Next /\ ~Publish /\ ~Yield
    BY <2>3 DEF Next, LoopStep, Read, ReadReplyLost, Divert, BatchDone, SendToDlq,
       HandlerReturns, HandlerRaises, Ack, AckFails, Crash, Restart, stream, history
  <2>4. CASE UNCHANGED vars
    BY <2>4 DEF vars, stream, history
  <2> QED
    BY <2>1, <2>2, <2>3, <2>4
<1> QED
  BY <1>1, <1>2, Invariant, PTL DEF Spec, InOrderAtMostOnce, Delivery!Spec
==============================================================================
