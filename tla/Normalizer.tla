------------------------------- MODULE Normalizer -------------------------------
(***************************************************************************)
(* What the normalizer does with the ticks of one symbol                   *)
(* (services/normalizer): it resolves the broker's key, drops a duplicate, *)
(* drops what comes too soon for the symbol's tier, marks what is late,    *)
(* publishes the rest and writes it to infusion:tick:{symbol}.  The four   *)
(* filters keep their state in memory and decide at once; publishing and   *)
(* the hash are awaited, one after the other, before the next tick.  An    *)
(* exception leaves the loop and ends the process (StreamConsumer with     *)
(* CatchErrors and Detached false); the next one begins with empty         *)
(* filters.                                                                *)
(*                                                                         *)
(* A tick is its exchange time.  The exchange may repeat ticks and send    *)
(* them late.  NewestOfAll and PublishTickUnmarked are faulty variants,    *)
(* kept to see the properties fail.                                        *)
(***************************************************************************)
EXTENDS Integers, FiniteSets, SequencesExt

CONSTANTS
  RingSize,       \* dedup_ring_size
  TierInterval,   \* min_interval of the lower tiers
  MaxStamp,       \* bound: exchange times
  MaxRaw,         \* bound: ticks in a behaviour that are new to the ring
  MaxNormFaults   \* bound: crashes and calls to Redis that raise

ASSUME NormalizerAssumption ==
  /\ RingSize \in Nat \ {0}
  /\ TierInterval \in Nat
  /\ MaxStamp \in Nat
  /\ MaxRaw \in Nat
  /\ MaxNormFaults \in Nat

Stamps == 1..MaxStamp

VARIABLES
  master,      \* whether infusion:symbols has the key
  resolver,    \* whether the process has loaded it
  interval,    \* the least time between two ticks of the symbol's tier
  monotonic,   \* the clock of the throttler
  ring,        \* TickDedup: the last exchange times seen
  forwarded,   \* TierThrottler: time of the last tick let through, or never
  newest,      \* OutOfOrderDetector: newest exchange time, or 0
  work,        \* the tick being published
  normalized,  \* infusion:stream:tick:normalized
  started,     \* its length when the process started
  hot,         \* infusion:tick:{symbol}: the exchange time shown, or 0
  received,    \* ticks that were new to the ring
  normFaults

filters == <<ring, forwarded, newest>>
outputs == <<normalized, started, hot>>
symbols == <<master, resolver, interval>>
normVars ==
  <<symbols, monotonic, filters, work, outputs, received, normFaults>>

Never == -1 - TierInterval
NoTick == [step |-> "idle", ts |-> 0, late |-> FALSE, nth |-> 0]

NormTypeOK ==
  /\ master \in BOOLEAN /\ resolver \in BOOLEAN
  /\ interval \in {0, TierInterval}
  /\ Len(ring) <= RingSize /\ Range(ring) \subseteq Stamps
  /\ Cardinality(Range(ring)) = Len(ring)
  /\ forwarded \in {Never} \cup 0..monotonic
  /\ newest \in {0} \cup Stamps
  /\ work.step \in {"idle", "publish", "hot", "down"}
  /\ hot \in {0} \cup {normalized[i].ts : i \in DOMAIN normalized}
  /\ started \in 0..Len(normalized)
  /\ normFaults \in 0..MaxNormFaults

NormInit ==
  /\ master \in BOOLEAN
  /\ resolver = master
  /\ interval \in {0, TierInterval}
  /\ monotonic = 0
  /\ ring = <<>>
  /\ forwarded = Never
  /\ newest = 0
  /\ work = NoTick
  /\ normalized = <<>>
  /\ started = 0
  /\ hot = 0
  /\ received = 0
  /\ normFaults = 0

-----------------------------------------------------------------------------
(* The filters. *)

\* deque(maxlen=ring_size).append
Remembered(ts) ==
  Append(IF Len(ring) = RingSize THEN Tail(ring) ELSE ring, ts)

TooSoon == interval > 0 /\ monotonic - forwarded < interval

IsLate(ts) == newest > 0 /\ ts < newest

NewestOfAll(ts) == ts

\* check: a late tick does not move the newest time back.
NewestOf(ts) == IF IsLate(ts) THEN newest ELSE ts

\* resolve finds no symbol, or the ring has the exchange time: the tick is
\* acknowledged and leaves no trace.
Ignore ==
  /\ work.step = "idle"
  /\ ~resolver \/ ring # <<>>
  /\ UNCHANGED normVars

\* A tick that is new to the ring.
Receive(ts) ==
  /\ work.step = "idle"
  /\ resolver
  /\ ts \notin Range(ring)
  /\ received < MaxRaw
  /\ received' = received + 1
  /\ ring' = Remembered(ts)
  /\ UNCHANGED <<symbols, monotonic, outputs, normFaults>>

\* The throttler comes after the ring and before the detector, which never
\* hears of the tick.
DropTooSoon(ts) ==
  /\ TooSoon
  /\ Receive(ts)
  /\ UNCHANGED <<forwarded, newest, work>>

Forward(ts) ==
  /\ ~TooSoon
  /\ Receive(ts)
  /\ forwarded' = IF interval > 0 THEN monotonic ELSE forwarded
  /\ newest' = NewestOf(ts)
  /\ work' = [step |-> "publish", ts |-> ts, late |-> IsLate(ts), nth |-> received]

-----------------------------------------------------------------------------
(* The stream and the hash. *)

Entry(w) == [ts |-> w.ts, late |-> w.late, nth |-> w.nth]

PublishTickUnmarked ==
  /\ work.step = "publish"
  /\ normalized' = Append(normalized, [Entry(work) EXCEPT !.late = FALSE])
  /\ work' = [work EXCEPT !.step = "hot"]
  /\ UNCHANGED <<symbols, monotonic, filters, started, hot, received, normFaults>>

PublishTick ==
  /\ work.step = "publish"
  /\ normalized' = Append(normalized, Entry(work))
  /\ work' = [work EXCEPT !.step = "hot"]
  /\ UNCHANGED <<symbols, monotonic, filters, started, hot, received, normFaults>>

UpdateHot ==
  /\ work.step = "hot"
  /\ hot' = work.ts
  /\ work' = NoTick
  /\ UNCHANGED <<symbols, monotonic, filters, normalized, started, received, normFaults>>

-----------------------------------------------------------------------------
(* The process and its surroundings. *)

\* Killed, or a call to Redis raises; what the call wrote is a step above.
NormDies ==
  /\ work.step # "down"
  /\ normFaults < MaxNormFaults
  /\ normFaults' = normFaults + 1
  /\ work' = [NoTick EXCEPT !.step = "down"]
  /\ UNCHANGED <<symbols, monotonic, filters, outputs, received>>

\* SymbolResolver.load runs here, and nowhere else.
NormRestart ==
  /\ work.step = "down"
  /\ work' = NoTick
  /\ resolver' = master
  /\ ring' = <<>>
  /\ forwarded' = Never
  /\ newest' = 0
  /\ started' = Len(normalized)
  /\ UNCHANGED <<master, interval, monotonic, normalized, hot, received, normFaults>>

\* nse-scraper fills infusion:symbols, or its hourly refresh brings a new key.
PopulateSymbols ==
  /\ ~master
  /\ master' = TRUE
  /\ UNCHANGED <<resolver, interval, monotonic, filters, work, outputs,
                 received, normFaults>>

TimePasses ==
  /\ interval > 0
  /\ monotonic < MaxRaw
  /\ monotonic' = monotonic + 1
  /\ UNCHANGED <<symbols, filters, work, outputs, received, normFaults>>

NormNext ==
  \/ Ignore
  \/ \E ts \in Stamps : DropTooSoon(ts) \/ Forward(ts)
  \/ PublishTick
  \/ UpdateHot
  \/ NormDies
  \/ NormRestart
  \/ PopulateSymbols
  \/ TimePasses

NormFairness ==
  WF_normVars(PublishTick) /\ WF_normVars(UpdateHot) /\ WF_normVars(NormRestart)

NormSpec == NormInit /\ [][NormNext]_normVars /\ NormFairness

-----------------------------------------------------------------------------
(* Properties. *)

\* The stream as its consumers read it.
Feed == INSTANCE FlaggedFeed
  WITH out <- [i \in DOMAIN normalized |->
                 [ts |-> normalized[i].ts, late |-> normalized[i].late]],
       begin <- started

\* A published tick is marked late exactly if a newer one was published before
\* it in this life, whatever was dropped between the two.
MarksAreExact == Feed!FeedSpec

\* A tick comes out twice in one life only if the ring has seen so many others
\* in between that it had to forget it.
RepeatsFarApart ==
  \A i, j \in (started + 1)..Len(normalized) :
    (i < j /\ normalized[i].ts = normalized[j].ts) =>
      normalized[j].nth - normalized[i].nth > RingSize

\* The price shown goes back in time only for a tick that the stream marks as
\* late, or for the first tick of a life.
ShownGoesBackMarked ==
  [][hot' < hot =>
       \/ Last(normalized).late
       \/ Len(normalized) = started + 1]_normVars

\* What the ring, the stream and the hash say of the ticks is sound.
NormSafe == []NormTypeOK /\ []RepeatsFarApart /\ ShownGoesBackMarked

-----------------------------------------------------------------------------
(* What makes NormSafe and MarksAreExact inductive. *)

Entries == [ts: Stamps, late: BOOLEAN, nth: Nat]

\* The ticks published since the normalizer last started.
ThisLife == (started + 1)..Len(normalized)

DataTypeOK ==
  /\ ring \in Seq(Stamps)
  /\ normalized \in Seq(Entries)
  /\ work \in [step: {"idle", "publish", "hot", "down"}, ts: {0} \cup Stamps,
              late: BOOLEAN, nth: Nat]
  /\ monotonic \in Nat
  /\ received \in Nat

\* The ring holds each exchange time once.
RingIsInjective ==
  \A p, q \in DOMAIN ring : ring[p] = ring[q] => p = q

\* The n-th tick that was new to the ring is at its place there, or the ring has
\* forgotten it.
InRing(ts, n) ==
  \/ received - n > RingSize
  \/ LET p == Len(ring) - received + 1 + n IN p \in DOMAIN ring /\ ring[p] = ts

PublishedInRing == \A i \in ThisLife : InRing(normalized[i].ts, normalized[i].nth)

\* The detector's newest time is the newest published in this life, or that of
\* the tick being published.
NewestIsPublished ==
  work.step # "down" =>
    /\ \A i \in ThisLife : normalized[i].ts <= newest
    /\ \/ \E i \in ThisLife : normalized[i].ts = newest
       \/ work.step = "publish" /\ work.ts = newest
       \/ work.step # "publish" /\ ThisLife = {} /\ newest = 0

\* The tick being published is still what the filters said it is.
WorkIsTrue ==
  work.step = "publish" =>
    /\ work.ts \in Stamps /\ work.ts <= newest
    /\ InRing(work.ts, work.nth)
    /\ work.late <=> \E i \in ThisLife : normalized[i].ts > work.ts
    /\ \A i \in ThisLife :
         normalized[i].ts = work.ts => work.nth - normalized[i].nth > RingSize

\* Once published it is the stream's last entry, until the hash shows it.
HotIsLast ==
  work.step = "hot" =>
    /\ ThisLife # {}
    /\ normalized[Len(normalized)] = Entry(work)
    /\ work.late <=> \E i \in ThisLife : normalized[i].ts > work.ts

\* The hash shows a tick of this life as soon as one has gone through.
ShownIsOfLife ==
  LET shown == IF work.step = "hot" THEN ThisLife \ {Len(normalized)} ELSE ThisLife
  IN  work.step # "down" /\ shown # {} => \E i \in shown : normalized[i].ts = hot

NormIInv ==
  /\ NormTypeOK
  /\ DataTypeOK
  /\ RingIsInjective
  /\ PublishedInRing
  /\ NewestIsPublished
  /\ WorkIsTrue
  /\ HotIsLast
  /\ ShownIsOfLife
  /\ RepeatsFarApart
=============================================================================
