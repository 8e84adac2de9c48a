---------------------------- MODULE ArchiverWrites ----------------------------
(***************************************************************************)
(* How the archiver gets the signals of a stream into Postgres             *)
(* (services/archiver, main.py and writer.py).  At every start it reads    *)
(* the stream from the checkpoint to its end (_backfill) and moves the     *)
(* checkpoint, which nothing else ever moves.  Then two tasks share one    *)
(* buffer: _consume_stream adds what the consumer group hands out and      *)
(* acknowledges it before it is written, and _periodic_flush writes what   *)
(* has been lying there for some seconds.  flush takes the whole buffer    *)
(* into an INSERT of its own and puts it back if the INSERT fails; while   *)
(* it waits for Postgres the other task goes on.                           *)
(*                                                                         *)
(* A batch is inserted as a whole or not at all, and inserting a row again *)
(* does nothing (ON CONFLICT DO NOTHING).  Acknowledging only shortens the *)
(* pending list, which nobody reads (StreamConsumer), and is left out.  So *)
(* are the second stream, whose consumer shares the buffer in the same way *)
(* as the timer does, and the order of the buffer.                         *)
(* SaveCheckpointEarly, PutBackCleared and RestartAtCursor are faulty      *)
(* variants, kept to see the properties fail.                              *)
(***************************************************************************)
EXTENDS Integers, FiniteSets

CONSTANTS
  MaxMsgs,       \* bound: messages published in a behaviour
  ReadSize,      \* archiver_batch_size
  WriteSize,     \* write_batch_size
  StreamMaxLen,  \* MAXLEN of the producer's XADD
  MaxCrashes,    \* bound: crashes and shutdowns
  MaxDbFaults,   \* bound: INSERTs that fail although all their rows are valid
  Poison         \* whether events come that Postgres refuses

ASSUME ArchiverAssumption ==
  /\ MaxMsgs \in Nat
  /\ ReadSize \in Nat \ {0}
  /\ WriteSize \in Nat \ {0}
  /\ StreamMaxLen \in Nat \ {0}
  /\ MaxCrashes \in Nat
  /\ MaxDbFaults \in Nat
  /\ Poison \in BOOLEAN

Messages == 1..MaxMsgs

\* row: a signal; skipped: a recap or a test alert, which add leaves out;
\* refused: a position warning, whose signal_id is not a UUID.
Kinds == {"row", "skipped"} \cup (IF Poison THEN {"refused"} ELSE {})

Tasks == {"main", "timer"}

VARIABLES
  published,   \* messages 1..published have been added to the stream
  kind,        \* what each of them is
  first,       \* first message that trimming has left in the stream
  cursor,      \* last-delivered id of the consumer group
  next,        \* next message of the consumer's batch
  checkpoint,  \* KEY_ARCHIVER_CHECKPOINT of the stream
  db,          \* the messages that have their row in Postgres
  phase,       \* down, backfill, last_flush (the backfill's), running
  last,        \* last message the backfill has read
  buffer,      \* SignalWriter._buffer
  flight,      \* per task: the batch its flush is inserting
  crashes,
  dbFaults

stream == <<published, kind, first>>
group == <<cursor, next>>
memory == <<phase, last, buffer, flight>>
vars == <<stream, group, checkpoint, db, memory, crashes, dbFaults>>

TypeOK ==
  /\ published \in 0..MaxMsgs
  /\ kind \in [Messages -> Kinds]
  /\ first \in 1..(published + 1)
  /\ cursor \in 0..published
  /\ next \in 1..(cursor + 1)
  /\ checkpoint \in 0..published
  /\ db \subseteq 1..published
  /\ phase \in {"down", "backfill", "last_flush", "running"}
  /\ last \in 0..published
  /\ buffer \subseteq 1..published
  /\ flight \in [Tasks -> SUBSET (1..published)]
  /\ crashes \in 0..MaxCrashes
  /\ dbFaults \in 0..MaxDbFaults

Init ==
  /\ published = 0
  /\ kind = [m \in Messages |-> "row"]
  /\ first = 1
  /\ cursor = 0
  /\ next = 1
  /\ checkpoint = 0
  /\ db = {}
  /\ phase = "backfill"
  /\ last = 0
  /\ buffer = {}
  /\ flight = [t \in Tasks |-> {}]
  /\ crashes = 0
  /\ dbFaults = 0

-----------------------------------------------------------------------------
(* The producers. *)

Publish ==
  /\ published < MaxMsgs
  /\ published' = published + 1
  /\ \E k \in Kinds : kind' = [kind EXCEPT ![published + 1] = k]
  /\ \E f \in first..(published + 1) :
       /\ f > first => (published + 1) - f + 1 >= StreamMaxLen
       /\ first' = f
  /\ UNCHANGED <<group, checkpoint, db, memory, crashes, dbFaults>>

-----------------------------------------------------------------------------
(* The writer. *)

\* writer.add, and the flush if it says the buffer is full: up to the point
\* where it waits for a connection.
Add(m) ==
  LET added == IF kind[m] = "skipped" THEN buffer ELSE buffer \cup {m}
  IN  IF kind[m] # "skipped" /\ Cardinality(added) >= WriteSize
        THEN buffer' = {} /\ flight' = [flight EXCEPT !["main"] = added]
        ELSE buffer' = added /\ UNCHANGED flight

TakeBuffer(task) ==
  /\ flight' = [flight EXCEPT ![task] = buffer]
  /\ buffer' = {}

Refused(batch) == \E m \in batch : kind[m] = "refused"

\* The INSERT is done.
FlushWritten(task) ==
  /\ flight[task] # {}
  /\ ~Refused(flight[task])
  /\ db' = db \cup flight[task]
  /\ flight' = [flight EXCEPT ![task] = {}]
  /\ UNCHANGED <<stream, group, checkpoint, phase, last, buffer, crashes,
                 dbFaults>>

PutBackCleared(task) ==
  /\ flight' = [flight EXCEPT ![task] = {}]
  /\ UNCHANGED buffer

PutBack(task) ==
  /\ buffer' = buffer \cup flight[task]
  /\ flight' = [flight EXCEPT ![task] = {}]

\* One row is invalid: the INSERT fails, every time.
FlushRefused(task) ==
  /\ flight[task] # {}
  /\ Refused(flight[task])
  /\ PutBack(task)
  /\ UNCHANGED <<stream, group, checkpoint, db, phase, last, crashes, dbFaults>>

\* Postgres is away, or slower than the command timeout.
FlushFails(task) ==
  /\ flight[task] # {}
  /\ dbFaults < MaxDbFaults
  /\ dbFaults' = dbFaults + 1
  /\ PutBack(task)
  /\ UNCHANGED <<stream, group, checkpoint, db, phase, last, crashes>>

-----------------------------------------------------------------------------
(* _backfill. *)

\* One message of XRANGE; the flush, if there is one, is awaited.
BackfillAdd ==
  /\ phase = "backfill"
  /\ flight["main"] = {}
  /\ LET m == IF last + 1 < first THEN first ELSE last + 1
     IN  /\ m <= published
         /\ Add(m)
         /\ last' = m
  /\ UNCHANGED <<stream, group, checkpoint, db, phase, crashes, dbFaults>>

\* The stream has been read to its end.
LastFlush ==
  /\ phase = "backfill"
  /\ flight["main"] = {}
  /\ last >= published
  /\ phase' = "last_flush"
  /\ TakeBuffer("main")
  /\ UNCHANGED <<stream, group, checkpoint, db, last, crashes, dbFaults>>

SaveCheckpointEarly ==
  /\ phase = "last_flush"
  /\ checkpoint' = last
  /\ phase' = "running"
  /\ UNCHANGED <<stream, group, db, last, buffer, flight, crashes, dbFaults>>

\* flush has returned, with or without an error.  The consumers start.
SaveCheckpoint ==
  /\ phase = "last_flush"
  /\ flight["main"] = {}
  /\ checkpoint' = last
  /\ phase' = "running"
  /\ UNCHANGED <<stream, group, db, last, buffer, flight, crashes, dbFaults>>

-----------------------------------------------------------------------------
(* The tasks that run from then on. *)

\* XREADGROUP, once the batch before has been handled.
Read ==
  /\ phase = "running"
  /\ flight["main"] = {}
  /\ next = cursor + 1
  /\ LET oldest == IF next < first THEN first ELSE next
         newest == IF oldest + ReadSize - 1 < published
                     THEN oldest + ReadSize - 1 ELSE published
     IN  /\ oldest <= published
         /\ cursor' = newest
         /\ next' = oldest
  /\ UNCHANGED <<stream, checkpoint, db, memory, crashes, dbFaults>>

\* _consume_stream: one message; the flush, if there is one, is awaited.
Consume ==
  /\ phase = "running"
  /\ flight["main"] = {}
  /\ next <= cursor
  /\ Add(next)
  /\ next' = next + 1
  /\ UNCHANGED <<stream, cursor, checkpoint, db, phase, last, crashes, dbFaults>>

\* _periodic_flush: write_flush_sec have passed since the last flush.
TimerFlush ==
  /\ phase = "running"
  /\ flight["timer"] = {}
  /\ buffer # {}
  /\ TakeBuffer("timer")
  /\ UNCHANGED <<stream, group, checkpoint, db, phase, last, crashes, dbFaults>>

-----------------------------------------------------------------------------
(* The process. *)

\* Killed, or shut down: main.py registers no last flush.
Crash ==
  /\ phase # "down"
  /\ crashes < MaxCrashes
  /\ crashes' = crashes + 1
  /\ phase' = "down"
  /\ buffer' = {}
  /\ flight' = [t \in Tasks |-> {}]
  /\ next' = cursor + 1
  /\ UNCHANGED <<stream, cursor, checkpoint, db, last, dbFaults>>

RestartAtCursor ==
  /\ phase = "down"
  /\ phase' = "backfill"
  /\ last' = cursor
  /\ UNCHANGED <<stream, group, checkpoint, db, buffer, flight, crashes, dbFaults>>

\* The backfill starts at the checkpoint.
Restart ==
  /\ phase = "down"
  /\ phase' = "backfill"
  /\ last' = checkpoint
  /\ UNCHANGED <<stream, group, checkpoint, db, buffer, flight, crashes, dbFaults>>

MainTask ==
  \/ BackfillAdd \/ LastFlush \/ SaveCheckpoint
  \/ Read \/ Consume
  \/ FlushWritten("main") \/ FlushRefused("main")

TimerTask == TimerFlush \/ FlushWritten("timer") \/ FlushRefused("timer")

Next ==
  \/ Publish
  \/ MainTask
  \/ TimerTask
  \/ \E task \in Tasks : FlushFails(task)
  \/ Crash
  \/ Restart

\* Both tasks are scheduled, every INSERT is answered or times out, and Docker
\* restarts the process.
Fairness == WF_vars(MainTask) /\ WF_vars(TimerTask) /\ WF_vars(Restart)

Spec == Init /\ [][Next]_vars /\ Fairness

-----------------------------------------------------------------------------
(* Properties. *)

Rows == {m \in 1..published : kind[m] = "row"}

RefusedSeen == \E m \in 1..published : kind[m] = "refused"

\* Postgres has failed no INSERT and has no reason to refuse one.
Healthy == dbFaults = 0 /\ ~RefusedSeen

\* What the next backfill will not read is in Postgres, or was trimmed before
\* the archiver came to it: as long as no INSERT fails, crashes and shutdowns
\* at any point lose nothing.
CheckpointedIsArchived ==
  Healthy => \A m \in Rows : m <= checkpoint => m \in db \/ m < first

\* As long as the process lives, nothing it has read is dropped, whatever
\* Postgres refuses and whichever task's INSERT fails.
NothingDropped ==
  crashes = 0 =>
    \A m \in Rows : m <= last \/ m < next =>
      m \in db \cup buffer \cup flight["main"] \cup flight["timer"] \/ m < first

\* Every signal gets its row, although it is acknowledged before it is written
\* and a crash loses the buffer, unless the buffer holds something Postgres
\* refuses or a crash meets a failed INSERT.
SignalsAreArchived ==
  \A m \in Messages :
    (m <= published /\ kind[m] = "row") ~>
      (m \in db \/ m < first \/ RefusedSeen \/ (dbFaults > 0 /\ crashes > 0))

\* As long as no INSERT fails, the buffer stays below a batch.
BufferBounded == Healthy => Cardinality(buffer) < WriteSize

\* The two tasks never insert the same row at the same time, which could have
\* Postgres abort one of them, unless the row was read twice: once by the
\* backfill and once by the consumer.
NotWrittenTwiceAtOnce ==
  \A m \in Messages :
    m \in flight["main"] \cap (flight["timer"] \cup buffer)
      => m <= checkpoint

\* The write buffer: nothing falls out of it, it does not grow, and its two
\* writers keep out of each other's way.
BufferSafe == TypeOK /\ NothingDropped /\ BufferBounded /\ NotWrittenTwiceAtOnce

\* "Re-buffer failed rows for retry on next flush" (flush): a signal in the
\* buffer is written in the end.
BufferedIsWritten ==
  \A m \in Messages :
    (m \in buffer /\ kind[m] = "row") ~> (m \in db)

-----------------------------------------------------------------------------
(* What makes CheckpointedIsArchived inductive. *)

\* Every signal up to n is in one of the places, or trimmed.
Kept(n, places) == \A m \in Rows : m <= n => m \in places \/ m < first

\* A backfill has lost nothing of what it has read so far.
BackfillKeeps ==
  phase = "backfill" => Kept(last, db \cup buffer \cup flight["main"])

\* Before the checkpoint moves, what it will cover is written or being written.
LastFlushKeeps ==
  phase = "last_flush" => Kept(last, db \cup flight["main"])

IInv ==
  /\ TypeOK
  /\ Healthy => /\ Kept(checkpoint, db)
                /\ BackfillKeeps
                /\ LastFlushKeeps

-----------------------------------------------------------------------------
(* What makes BufferSafe inductive. *)

Held == buffer \cup flight["main"] \cup flight["timer"]

\* What the writer holds has been read in this life of the process: by the
\* backfill, or by the consumer since.
HeldWasRead ==
  /\ phase = "down" => Held = {}
  /\ phase # "running" => flight["timer"] = {}
  /\ phase \in {"backfill", "last_flush"} => \A m \in Held : m <= last
  /\ phase = "running" => \A m \in Held : m <= checkpoint \/ m < next

\* A message the backfill has not read is in one place only.
HeldOnce ==
  \A m \in Messages :
    m > checkpoint => /\ m \in flight["main"] => m \notin flight["timer"] \cup buffer
                      /\ m \in flight["timer"] => m \notin buffer

DownIsCrashed == phase = "down" => crashes > 0

BufferIInv ==
  /\ TypeOK
  /\ DownIsCrashed
  /\ NothingDropped
  /\ BufferBounded
  /\ HeldWasRead
  /\ HeldOnce
=============================================================================
