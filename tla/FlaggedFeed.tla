------------------------------ MODULE FlaggedFeed ------------------------------
(***************************************************************************)
(* What the consumers of infusion:stream:tick:normalized are promised of   *)
(* one symbol: ticks are only added, and a tick is marked late exactly if  *)
(* the stream holds a newer one since the normalizer last started.         *)
(***************************************************************************)
EXTENDS Integers, Sequences

CONSTANT Stamps   \* exchange times

VARIABLES
  out,    \* the stream: exchange times and marks
  begin   \* how much of it was there when the normalizer last started

feedVars == <<out, begin>>

Newer(ts) == \E i \in (begin + 1)..Len(out) : out[i].ts > ts

FeedInit == out = <<>> /\ begin = 0

FeedPublish ==
  /\ \E ts \in Stamps : out' = Append(out, [ts |-> ts, late |-> Newer(ts)])
  /\ UNCHANGED begin

FeedRestart == begin' = Len(out) /\ UNCHANGED out

FeedSpec == FeedInit /\ [][FeedPublish \/ FeedRestart]_feedVars
=============================================================================
