---------------------------- MODULE StreamConsumer ----------------------------
(***************************************************************************)
(* A Redis stream, one consumer group and the service that reads it        *)
(* through StreamConsumer.consume (libs/infusion-streams).  Every service  *)
(* of the pipeline behind ingestion is built on this loop; what differs is *)
(* what happens to an exception:                                           *)
(*   CatchErrors  the loop body logs an exception of the handler and       *)
(*                acknowledges the message all the same (scanner, alerter, *)
(*                archiver) or lets it out of the loop (normalizer,        *)
(*                feature-engine, ws-gateway);                             *)
(*   Detached     the loop is a task nobody awaits before the shutdown     *)
(*                signal (ServiceLifecycle.run_until_shutdown), so an      *)
(*                exception that leaves the loop ends the task and not the *)
(*                process; otherwise (ws-gateway gathers its tasks) the    *)
(*                process ends and Docker restarts it.                     *)
(* Messages are numbered in the order of the stream.  The group is created *)
(* at id 0 and only ever asks for ">", the messages after the last one it  *)
(* delivered.  One XREADGROUP delivers a run of consecutive messages, so   *)
(* what is left of a batch is next..cursor.                                *)
(* BatchDoneWaits, RestartRecreatesGroup and RestartAtTail are faulty      *)
(* variants, kept to see the properties fail.                              *)
(***************************************************************************)
EXTENDS Integers, Sequences

CONSTANTS
  MaxMsgs,       \* bound: messages published in a behaviour
  BatchSize,     \* COUNT of XREADGROUP
  StreamMaxLen,  \* MAXLEN of the producer's XADD
  MaxFaults,     \* bound: crashes, lost replies and failing acknowledgements
  CatchErrors,
  Detached

ASSUME ConsumerAssumption ==
  /\ MaxMsgs \in Nat
  /\ BatchSize \in Nat \ {0}
  /\ StreamMaxLen \in Nat \ {0}
  /\ MaxFaults \in Nat
  /\ CatchErrors \in BOOLEAN
  /\ Detached \in BOOLEAN

Messages == 1..MaxMsgs

VARIABLES
  published,  \* messages 1..published have been added to the stream
  malformed,  \* those whose payload is missing or does not decode
  first,      \* first message that trimming has left in the stream
  cursor,     \* last-delivered id of the group
  pending,    \* the group's pending entries list
  proc,       \* the process: running, halted (its loop is dead), down
  step,       \* where the loop is
  next,       \* next message of the batch; the batch is done past cursor
  handed,     \* history: messages given to the handler, in order
  delivered,  \* history: messages XREADGROUP took off the stream
  outcome,    \* history: how each message ended
  faults      \* faults so far

stream == <<published, malformed, first>>
group == <<cursor, pending>>
loop == <<proc, step, next>>
history == <<handed, delivered, outcome, faults>>
vars == <<stream, group, loop, history>>

Outcomes == {"open", "handled", "failed", "dead_letter", "dlq_lost"}

TypeOK ==
  /\ published \in 0..MaxMsgs
  /\ malformed \subseteq 1..published
  /\ first \in 1..(published + 1)
  /\ cursor \in 0..published
  /\ pending \subseteq delivered
  /\ proc \in {"running", "halted", "down"}
  /\ step \in {"read", "yield", "dlq", "dlq_ack", "handle", "ack"}
  /\ next \in 1..(cursor + 1)
  /\ handed \in Seq(Messages)
  /\ delivered \subseteq 1..cursor
  /\ outcome \in [Messages -> Outcomes]
  /\ faults \in 0..MaxFaults

Init ==
  /\ published = 0
  /\ malformed = {}
  /\ first = 1
  /\ cursor = 0
  /\ pending = {}
  /\ proc = "running"
  /\ step = "read"
  /\ next = 1
  /\ handed = <<>>
  /\ delivered = {}
  /\ outcome = [m \in Messages |-> "open"]
  /\ faults = 0

-----------------------------------------------------------------------------
(* The producer. *)

\* XADD with an approximate MAXLEN: Redis may trim old messages, down to
\* StreamMaxLen of them and not below.
Publish ==
  /\ published < MaxMsgs
  /\ published' = published + 1
  /\ malformed' \in {malformed, malformed \cup {published + 1}}
  /\ \E f \in first..(published + 1) :
       /\ f > first => (published + 1) - f + 1 >= StreamMaxLen
       /\ first' = f
  /\ UNCHANGED <<group, loop, history>>

-----------------------------------------------------------------------------
(* The consumer loop. *)

At(s) == proc = "running" /\ step = s

Ends(how) == outcome' = [outcome EXCEPT ![next] = how]

\* An exception leaves the loop: the rest of the batch is forgotten.
LoopDies ==
  /\ proc' = IF Detached THEN "halted" ELSE "down"
  /\ step' = "read"
  /\ next' = cursor + 1

\* The messages the next XREADGROUP would deliver.
Oldest == IF cursor + 1 < first THEN first ELSE cursor + 1
Newest == IF Oldest + BatchSize - 1 < published
            THEN Oldest + BatchSize - 1 ELSE published

\* The server hands out a batch: it is pending from now on.
Deliver ==
  /\ Oldest <= published
  /\ cursor' = Newest
  /\ pending' = pending \cup Oldest..Newest
  /\ delivered' = delivered \cup Oldest..Newest

Read ==
  /\ At("read")
  /\ Deliver
  /\ next' = Oldest
  /\ step' = "yield"
  /\ UNCHANGED <<stream, proc, handed, outcome, faults>>

\* XREADGROUP raises after the server has executed it; the loop sleeps and
\* reads on.  (If it raises before, nothing happens.)
ReadReplyLost ==
  /\ At("read")
  /\ faults < MaxFaults
  /\ Deliver
  /\ next' = cursor' + 1
  /\ faults' = faults + 1
  /\ UNCHANGED <<stream, proc, step, handed, outcome>>

\* The caller gets the message and hands it to its handler.

Yield ==
  /\ At("yield")
  /\ next <= cursor
  /\ next \notin malformed
  /\ handed' = Append(handed, next)
  /\ step' = "handle"
  /\ UNCHANGED <<stream, group, proc, next, delivered, outcome, faults>>

\* Missing data, or decode_event raises.
Divert ==
  /\ At("yield")
  /\ next <= cursor
  /\ next \in malformed
  /\ step' = "dlq"
  /\ UNCHANGED <<stream, group, proc, next, history>>

BatchDoneWaits ==
  /\ At("yield")
  /\ next > cursor
  /\ pending = {}
  /\ step' = "read"
  /\ UNCHANGED <<stream, group, proc, next, history>>

BatchDone ==
  /\ At("yield")
  /\ next > cursor
  /\ step' = "read"
  /\ UNCHANGED <<stream, group, proc, next, history>>

\* _send_to_dlq swallows the error of its own XADD.
SendToDlq ==
  /\ At("dlq")
  /\ Ends("dead_letter") \/ Ends("dlq_lost")
  /\ step' = "dlq_ack"
  /\ UNCHANGED <<stream, group, proc, next, handed, delivered, faults>>

HandlerReturns ==
  /\ At("handle")
  /\ Ends("handled")
  /\ step' = "ack"
  /\ UNCHANGED <<stream, group, proc, next, handed, delivered, faults>>

HandlerRaises ==
  /\ At("handle")
  /\ Ends("failed")
  /\ IF CatchErrors
       THEN step' = "ack" /\ UNCHANGED <<proc, next>>
       ELSE LoopDies
  /\ UNCHANGED <<stream, group, handed, delivered, faults>>

AtAck == At("ack") \/ At("dlq_ack")

Ack ==
  /\ AtAck
  /\ pending' = pending \ {next}
  /\ next' = next + 1
  /\ step' = "yield"
  /\ UNCHANGED <<stream, cursor, proc, history>>

\* XACK raises, before or after the server has executed it.  Both calls are
\* outside every try of the loop.
AckFails ==
  /\ AtAck
  /\ faults < MaxFaults
  /\ pending' \in {pending, pending \ {next}}
  /\ LoopDies
  /\ faults' = faults + 1
  /\ UNCHANGED <<stream, cursor, handed, delivered, outcome>>

LoopStep ==
  \/ Read
  \/ Yield
  \/ Divert
  \/ BatchDone
  \/ SendToDlq
  \/ HandlerReturns
  \/ HandlerRaises
  \/ Ack

-----------------------------------------------------------------------------
(* The process. *)

\* Killed, or stopped by a signal: the batch in memory is gone either way.
Crash ==
  /\ proc # "down"
  /\ faults < MaxFaults
  /\ proc' = "down"
  /\ step' = "read"
  /\ next' = cursor + 1
  /\ faults' = faults + 1
  /\ UNCHANGED <<stream, group, handed, delivered, outcome>>

RestartRecreatesGroup ==
  /\ proc = "down"
  /\ proc' = "running"
  /\ cursor' = 0
  /\ pending' = {}
  /\ next' = 1
  /\ UNCHANGED <<stream, step, history>>

RestartAtTail ==
  /\ proc = "down"
  /\ proc' = "running"
  /\ cursor' = published
  /\ next' = published + 1
  /\ UNCHANGED <<stream, pending, step, history>>

\* Docker restarts the process; the group exists (BUSYGROUP), and so do its
\* cursor and its pending entries, which nobody asks for.
Restart ==
  /\ proc = "down"
  /\ proc' = "running"
  /\ UNCHANGED <<stream, group, step, next, history>>

Next ==
  \/ Publish
  \/ LoopStep
  \/ ReadReplyLost
  \/ AckFails
  \/ Crash
  \/ Restart

Fairness == WF_vars(LoopStep) /\ WF_vars(Restart)

Spec == Init /\ [][Next]_vars /\ Fairness

-----------------------------------------------------------------------------
(* Properties. *)

Delivery == INSTANCE OrderedDelivery

\* The handler gets messages in stream order and none twice, whatever crashes,
\* lost replies and failing acknowledgements there are: the group never hands
\* out an old message again.
InOrderAtMostOnce == Delivery!Spec

\* A message leaves the pending list only when it is settled: its handler has
\* run to the end, or it has gone to the dead letters.
AcknowledgedIsSettled ==
  \A m \in delivered \ pending : outcome[m] # "open"

\* The group does not jump over a message that is still in the stream, not
\* even across restarts.
NothingSkipped ==
  \A m \in (1..cursor) \ delivered : m < first

\* What the group says of a message and what has become of it agree.
StreamSafe == TypeOK /\ AcknowledgedIsSettled /\ NothingSkipped

\* "On failure, caller should NOT call ack_fn - the message stays in PEL"
\* (consume): a message whose handler raised is still pending.
FailedStaysPending ==
  \A m \in delivered : outcome[m] = "failed" => m \in pending

\* No message blocks those behind it: each one is settled in the end, or trimmed
\* off the stream, unless a fault has left it pending behind the loop, which
\* never asks for it again, or has ended the loop.
EveryMessageSettles ==
  \A m \in Messages :
    (m <= published) ~> \/ outcome[m] # "open"
                        \/ m < first
                        \/ m \in pending /\ m < next
                        \/ proc = "halted"

\* The loop comes back to reading from every failure.
KeepsReading == []<>At("read")

-----------------------------------------------------------------------------
(* The inductive strengthening of the invariants. *)

\* Between two batches nothing is left of the old one.
BatchTaken == step = "read" => next = cursor + 1

\* A message being worked on belongs to the batch and the loop is alive.
WorkInBatch ==
  /\ step \in {"dlq", "dlq_ack", "handle", "ack"} => next <= cursor
  /\ step # "read" => proc = "running"

\* The handler has only seen messages before the next one.
HandedBehind ==
  \A i \in DOMAIN handed :
    handed[i] < next \/ (step \in {"handle", "ack"} /\ handed[i] = next)

SettledBeforeAck == step \in {"ack", "dlq_ack"} => outcome[next] # "open"

IInv ==
  /\ TypeOK
  /\ BatchTaken
  /\ WorkInBatch
  /\ HandedBehind
  /\ SettledBeforeAck
  /\ AcknowledgedIsSettled
  /\ NothingSkipped
=============================================================================
