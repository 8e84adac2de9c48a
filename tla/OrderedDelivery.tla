--------------------------- MODULE OrderedDelivery ---------------------------
(***************************************************************************)
(* What the handler behind a stream consumer may rely on: messages are     *)
(* published one after the other, and those that reach the handler reach   *)
(* it in that order, each at most once.  Some may never reach it.          *)
(***************************************************************************)
EXTENDS Naturals, Sequences

VARIABLES
  published,   \* number of messages published so far; they are 1..published
  handed       \* the messages the handler was given, in the order it got them

Init == published = 0 /\ handed = <<>>

Publish == published' = published + 1 /\ UNCHANGED handed

HandOver(m) ==
  /\ \A i \in DOMAIN handed : handed[i] < m
  /\ handed' = Append(handed, m)
  /\ UNCHANGED published

Next == Publish \/ \E m \in 1..published : HandOver(m)

Spec == Init /\ [][Next]_<<published, handed>>
=============================================================================
