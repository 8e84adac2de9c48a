---------------------------- MODULE DeliveryProofs ----------------------------
(***************************************************************************)
(* What leaves the system is written or told once, as often as faults      *)
(* allow: theorems about ArchiverWrites and AlertGate.                     *)
(*                                                                         *)
(* The archiver's are for every length of the stream, size of the batches  *)
(* and number of crashes and failing INSERTs.  Of IInv, the parts about    *)
(* what is kept hold until an INSERT fails: Healthy is never regained, so  *)
(* they have to be shown for the steps that keep it only.  BufferIInv is   *)
(* about the three places a message can be held in.                        *)
(*                                                                         *)
(* The alerter's are for any symbols, limits, lives of the keys and number *)
(* of faults: what the gate read still holds when the delivery is recorded *)
(* many steps later, a second message is always paid for by a fault, and a *)
(* counter that is forgotten has outlived the hour of its first delivery.  *)
(***************************************************************************)
EXTENDS ArchiverWrites, AlertGate, FiniteSetTheorems, SetLemmas

-----------------------------------------------------------------------------
(* The archiver. *)

\* Adding a message loses nothing: it goes to the buffer, or with the buffer
\* into the batch that is being written.
LEMMA AddKeeps ==
  ASSUME TypeOK, NEW m \in 1..published, flight["main"] = {}, Add(m)
  PROVE  /\ buffer' \subseteq 1..published
         /\ flight' \in [Tasks -> SUBSET (1..published)]
         /\ buffer \subseteq buffer' \cup flight'["main"]
         /\ kind[m] = "row" => m \in buffer' \cup flight'["main"]
<1> DEFINE added == IF kind[m] = "skipped" THEN buffer ELSE buffer \cup {m}
<1>1. added \subseteq 1..published /\ buffer \subseteq added
  BY DEF TypeOK
<1>2. kind[m] = "row" => m \in added
  OBVIOUS
<1>3. \/ buffer' = {} /\ flight' = [flight EXCEPT !["main"] = added]
      \/ buffer' = added /\ flight' = flight
  BY DEF Add
<1>4. flight \in [Tasks -> SUBSET (1..published)] /\ "main" \in Tasks
  BY DEF TypeOK, Tasks
<1> HIDE DEF added
<1>5. CASE buffer' = {} /\ flight' = [flight EXCEPT !["main"] = added]
  BY <1>1, <1>2, <1>4, <1>5
<1>6. CASE buffer' = added /\ flight' = flight
  BY <1>1, <1>2, <1>4, <1>6
<1> QED
  BY <1>3, <1>5, <1>6

\* Taking the buffer into a batch, and putting a batch back, keep the types.
LEMMA BatchTypes ==
  ASSUME TypeOK, NEW task \in Tasks, TakeBuffer(task) \/ PutBack(task)
  PROVE  buffer' \subseteq 1..published /\ flight' \in [Tasks -> SUBSET (1..published)]
  BY DEF TypeOK, TakeBuffer, PutBack

LEMMA InitTypeOK == Init => TypeOK
  BY ArchiverAssumption DEF Init, TypeOK, Kinds, Tasks, Messages

LEMMA NextTypeOK == TypeOK /\ [Next]_vars => TypeOK'
<1> SUFFICES ASSUME TypeOK, [Next]_vars PROVE TypeOK'
  OBVIOUS
<1> USE ArchiverAssumption
<1>t. /\ TypeOK
      /\ published \in Int /\ first \in Int /\ cursor \in Int /\ next \in Int
      /\ last \in Int /\ checkpoint \in Int
      /\ "main" \in Tasks /\ "timer" \in Tasks
  BY DEF TypeOK, Tasks
<1>1. CASE Publish
  <2>1. kind' \in [Messages -> Kinds]
    BY <1>t, <1>1 DEF TypeOK, Publish
  <2>2. first' \in 1..(published' + 1)
    BY <1>t, <1>1 DEF TypeOK, Publish
  <2> QED
    BY <1>t, <1>1, <2>1, <2>2 DEF TypeOK, Publish, group,
       memory
<1>2. CASE BackfillAdd
  <2> DEFINE m == IF last + 1 < first THEN first ELSE last + 1
  <2>1. m \in 1..published /\ Add(m) /\ last' = m
    BY <1>t, <1>2 DEF TypeOK, BackfillAdd, Messages
  <2>2. buffer' \subseteq 1..published /\ flight' \in [Tasks -> SUBSET (1..published)]
    BY <1>t, <1>2, <2>1, AddKeeps DEF BackfillAdd
  <2> HIDE DEF m
  <2> QED
    BY <1>t, <1>2, <2>1, <2>2 DEF TypeOK, BackfillAdd,
       stream, group, Messages
<1>3. CASE LastFlush
  <2>1. buffer' \subseteq 1..published /\ flight' \in [Tasks -> SUBSET (1..published)]
    BY <1>t, <1>3, BatchTypes DEF LastFlush
  <2> QED
    BY <1>t, <1>3, <2>1 DEF TypeOK, LastFlush, stream, group
<1>4. CASE SaveCheckpoint
  BY <1>t, <1>4 DEF TypeOK, SaveCheckpoint, stream, group
<1>5. CASE Read
  <2>1. cursor' \in next'..published /\ next' \in 1..published
    BY <1>t, <1>5 DEF TypeOK, Read
  <2> QED
    BY <1>t, <1>5, <2>1 DEF TypeOK, Read, stream, memory
<1>6. CASE Consume
  <2>1. next \in 1..published
    BY <1>t, <1>6 DEF TypeOK, Consume, Messages
  <2>2. buffer' \subseteq 1..published /\ flight' \in [Tasks -> SUBSET (1..published)]
    BY <1>t, <1>6, <2>1, AddKeeps DEF Consume
  <2> QED
    BY <1>t, <1>6, <2>1, <2>2 DEF TypeOK, Consume, stream
<1>7. CASE TimerFlush
  <2>1. buffer' \subseteq 1..published /\ flight' \in [Tasks -> SUBSET (1..published)]
    BY <1>t, <1>7, BatchTypes DEF TimerFlush
  <2> QED
    BY <1>t, <1>7, <2>1 DEF TypeOK, TimerFlush, stream, group
<1>8. ASSUME NEW task \in Tasks, FlushWritten(task) PROVE TypeOK'
  <2>1. db' \subseteq 1..published /\ flight' \in [Tasks -> SUBSET (1..published)]
    BY <1>t, <1>8 DEF TypeOK, FlushWritten
  <2> QED
    BY <1>t, <1>8, <2>1 DEF TypeOK, FlushWritten, stream,
       group
<1>9. ASSUME NEW task \in Tasks, FlushRefused(task) PROVE TypeOK'
  <2>1. buffer' \subseteq 1..published /\ flight' \in [Tasks -> SUBSET (1..published)]
    BY <1>t, <1>9, BatchTypes DEF FlushRefused
  <2> QED
    BY <1>t, <1>9, <2>1 DEF TypeOK, FlushRefused, stream,
       group
<1>10. ASSUME NEW task \in Tasks, FlushFails(task) PROVE TypeOK'
  <2>1. buffer' \subseteq 1..published /\ flight' \in [Tasks -> SUBSET (1..published)]
    BY <1>t, <1>10, BatchTypes DEF FlushFails
  <2> QED
    BY <1>t, <1>10, <2>1 DEF TypeOK, FlushFails, stream,
       group
<1>11. CASE Crash
  <2>1. buffer' \subseteq 1..published /\ flight' \in [Tasks -> SUBSET (1..published)]
    BY <1>11 DEF Crash
  <2> QED
    BY <1>t, <1>11, <2>1 DEF TypeOK, Crash, stream
<1>12. CASE Restart
  BY <1>t, <1>12 DEF TypeOK, Restart, stream, group
<1>13. CASE UNCHANGED vars
  BY <1>t, <1>13 DEF TypeOK, vars, stream, group, memory
<1> QED
  BY <1>t, <1>1, <1>2, <1>3, <1>4, <1>5, <1>6, <1>7, <1>8, <1>9, <1>10, <1>11, <1>12,
     <1>13 DEF Next, MainTask, TimerTask

\* Every variable keeps its type, for every value of the constants.
THEOREM TypeCorrect == Spec => []TypeOK
<1> QED
  BY InitTypeOK, NextTypeOK, PTL DEF Spec

-----------------------------------------------------------------------------
\* The initial state satisfies the inductive invariant.
LEMMA InitIInv == Init => IInv
<1> SUFFICES ASSUME Init PROVE IInv
  OBVIOUS
<1>1. \A m \in Rows : FALSE
  BY DEF Init, Rows
<1> QED
  BY <1>1, InitTypeOK DEF IInv, BackfillKeeps, LastFlushKeeps, Kept

\* Once an INSERT has failed or a row that will be refused has come, the
\* history shows it for ever.
LEMMA HealthyBefore == TypeOK /\ [Next]_vars /\ Healthy' => Healthy
<1> SUFFICES ASSUME TypeOK, [Next]_vars, Healthy' PROVE Healthy
  OBVIOUS
<1> USE ArchiverAssumption
<1>1. dbFaults \in Nat /\ published \in Nat
  BY DEF TypeOK
<1>2. dbFaults' = dbFaults \/ dbFaults' = dbFaults + 1
  BY DEF Next, MainTask, TimerTask, Publish, BackfillAdd, LastFlush, SaveCheckpoint,
     Read, Consume, TimerFlush, FlushWritten, FlushRefused, FlushFails, Crash,
     Restart, vars
<1>3. CASE Publish
  <2>1. \A m \in 1..published : m \in 1..published' /\ kind'[m] = kind[m]
    BY <1>1, <1>3 DEF Publish, TypeOK, Messages
  <2> QED
    BY <1>1, <1>2, <2>1 DEF Healthy, RefusedSeen
<1>4. CASE UNCHANGED stream
  BY <1>1, <1>2, <1>4 DEF Healthy, RefusedSeen, stream
<1> QED
  BY <1>3, <1>4 DEF Next, MainTask, TimerTask, BackfillAdd, LastFlush,
     SaveCheckpoint, Read, Consume, TimerFlush, FlushWritten, FlushRefused,
     FlushFails, Crash, Restart, vars

\* A step that neither publishes nor trims keeps what Kept says of places that
\* do not shrink.
LEMMA KeptGrows ==
  ASSUME NEW n, NEW old, NEW new, Kept(n, old), old \subseteq new,
         UNCHANGED stream
  PROVE  \A m \in Rows' : m <= n => m \in new \/ m < first'
  BY DEF Kept, Rows, stream

\* Every step keeps the inductive invariant.
LEMMA NextIInv == IInv /\ [Next]_vars => IInv'
<1> SUFFICES ASSUME IInv, [Next]_vars PROVE IInv'
  OBVIOUS
<1> USE ArchiverAssumption
<1>b. TypeOK'
  BY NextTypeOK DEF IInv
<1> SUFFICES ASSUME Healthy'
             PROVE  (Kept(checkpoint, db) /\ BackfillKeeps /\ LastFlushKeeps)'
  BY <1>b DEF IInv
<1>h. Healthy
  BY HealthyBefore DEF IInv
<1>t. /\ TypeOK
      /\ published \in Int /\ first \in Int
      /\ last \in Int /\ checkpoint \in Int
      /\ last <= published /\ checkpoint <= published
      /\ "main" \in Tasks /\ "timer" \in Tasks
  BY DEF IInv, TypeOK, Tasks
<1>k. /\ Kept(checkpoint, db)
      /\ phase = "backfill" => Kept(last, db \cup buffer \cup flight["main"])
      /\ phase = "last_flush" => Kept(last, db \cup flight["main"])
  BY <1>h DEF IInv, BackfillKeeps, LastFlushKeeps
<1> DEFINE Goal ==
      /\ Kept(checkpoint, db)'
      /\ phase' = "backfill" => Kept(last, db \cup buffer \cup flight["main"])'
      /\ phase' = "last_flush" => Kept(last, db \cup flight["main"])'
<1> SUFFICES Goal
  BY DEF BackfillKeeps, LastFlushKeeps
<1>1. CASE Publish
  <2>1. ASSUME NEW n, NEW places, n \in Int, n <= published, Kept(n, places)
        PROVE  \A m \in Rows' : m <= n => m \in places \/ m < first'
    <3> SUFFICES ASSUME NEW m \in Rows', m <= n PROVE m \in places \/ m < first'
      OBVIOUS
    <3>1. m \in 1..published /\ kind[m] = "row"
      BY <1>t, <1>1, <2>1 DEF Rows, Publish, TypeOK, Messages
    <3>2. m \in places \/ m < first
      BY <2>1, <3>1 DEF Kept, Rows
    <3>3. first' \in Int /\ first' >= first
      BY <1>t, <1>1 DEF Publish
    <3> QED
      BY <1>t, <3>1, <3>2, <3>3
  <2>2. UNCHANGED <<checkpoint, db, phase, last, buffer, flight>>
    BY <1>1 DEF Publish, memory
  <2> QED
    BY <1>t, <1>k, <2>1, <2>2 DEF Kept
<1>2. CASE BackfillAdd
  <2> DEFINE m == IF last + 1 < first THEN first ELSE last + 1
  <2>1. m \in 1..published /\ Add(m) /\ last' = m
    BY <1>t, <1>2 DEF TypeOK, BackfillAdd, Messages
  <2>2. /\ buffer \subseteq buffer' \cup flight'["main"]
        /\ kind[m] = "row" => m \in buffer' \cup flight'["main"]
    BY <1>t, <1>2, <2>1, AddKeeps DEF BackfillAdd
  <2>3. /\ UNCHANGED <<stream, checkpoint, db, phase>>
        /\ flight["main"] = {} /\ phase = "backfill"
    BY <1>2 DEF BackfillAdd
  <2>4. ASSUME NEW r \in Rows', r <= m
        PROVE  r \in db \cup buffer' \cup flight'["main"] \/ r < first
    <3>1. r \in Rows /\ r \in Int
      BY <2>3 DEF Rows, stream
    <3>2. CASE r <= last
      BY <1>k, <2>2, <2>3, <3>1, <3>2 DEF Kept
    <3>3. CASE r > last
      <4>1. r = m \/ r < first
        BY <1>t, <2>4, <3>1, <3>3
      <4> QED
        BY <2>2, <3>1, <4>1 DEF Rows
    <3> QED
      BY <1>t, <3>1, <3>2, <3>3
  <2>5. first' = first
    BY <2>3 DEF stream
  <2> HIDE DEF m
  <2> QED
    BY <1>k, <2>1, <2>3, <2>4, <2>5, KeptGrows DEF Kept
<1>3. CASE LastFlush
  <2>1. /\ UNCHANGED <<stream, checkpoint, db, last>>
        /\ phase = "backfill" /\ phase' = "last_flush"
        /\ flight["main"] = {}
        /\ flight'["main"] = buffer
    BY <1>t, <1>3 DEF LastFlush, TakeBuffer, TypeOK
  <2>2. db \cup buffer \cup flight["main"] = db' \cup flight'["main"]
    BY <2>1
  <2> QED
    BY <1>k, <2>1, <2>2, KeptGrows DEF Kept
<1>4. CASE SaveCheckpoint
  <2>1. /\ UNCHANGED <<stream, db, last>>
        /\ phase = "last_flush" /\ phase' = "running"
        /\ flight["main"] = {}
        /\ checkpoint' = last
    BY <1>4 DEF SaveCheckpoint
  <2>2. db \cup flight["main"] = db'
    BY <2>1
  <2> QED
    BY <1>k, <2>1, <2>2, KeptGrows DEF Kept
<1>5. CASE Read \/ Consume \/ TimerFlush
  <2>1. /\ UNCHANGED <<stream, checkpoint, db, phase>>
        /\ phase = "running"
    BY <1>5 DEF Read, Consume, TimerFlush, memory
  <2> QED
    BY <1>k, <2>1, KeptGrows DEF Kept
<1>6. ASSUME NEW task \in Tasks, FlushWritten(task) PROVE Goal
  <2>1. /\ UNCHANGED <<stream, checkpoint, phase, last, buffer>>
        /\ db \subseteq db'
        /\ flight["main"] \subseteq db' \cup flight'["main"]
    BY <1>t, <1>6 DEF FlushWritten, TypeOK
  <2>2. /\ db \cup buffer \cup flight["main"] \subseteq db' \cup buffer' \cup flight'["main"]
        /\ db \cup flight["main"] \subseteq db' \cup flight'["main"]
    BY <2>1
  <2> QED
    BY <1>k, <2>1, <2>2, KeptGrows DEF Kept
<1>7. ASSUME NEW task \in Tasks, FlushRefused(task) PROVE FALSE
  <2>1. RefusedSeen
    BY <1>t, <1>7 DEF FlushRefused, Refused, RefusedSeen, TypeOK
  <2> QED
    BY <1>h, <2>1 DEF Healthy
<1>8. ASSUME NEW task \in Tasks, FlushFails(task) PROVE FALSE
  <2>1. dbFaults' = dbFaults + 1 /\ dbFaults \in Nat
    BY <1>t, <1>8 DEF FlushFails, TypeOK
  <2>2. dbFaults' = 0
    BY DEF Healthy
  <2> QED
    BY <2>1, <2>2
<1>9. CASE Crash
  <2>1. UNCHANGED <<stream, checkpoint, db>> /\ phase' = "down"
    BY <1>9 DEF Crash
  <2> QED
    BY <1>k, <2>1, KeptGrows DEF Kept
<1>10. CASE Restart
  <2>1. /\ UNCHANGED <<stream, checkpoint, db, buffer, flight>>
        /\ phase' = "backfill" /\ last' = checkpoint
    BY <1>10 DEF Restart
  <2>2. db \subseteq db' \cup buffer' \cup flight'["main"]
    BY <2>1
  <2> QED
    BY <1>k, <2>1, <2>2, KeptGrows DEF Kept
<1>11. CASE UNCHANGED vars
  BY <1>k, <1>11 DEF vars, stream, memory, Kept, Rows
<1> HIDE DEF Goal
<1> QED
  BY <1>t, <1>1, <1>2, <1>3, <1>4, <1>5, <1>6, <1>7, <1>8, <1>9, <1>10, <1>11
     DEF Next, MainTask, TimerTask

\* As long as Postgres takes every INSERT, what the checkpoint covers is
\* archived, whatever crashes when and however the two tasks interleave.
THEOREM NothingForgotten == Spec => []CheckpointedIsArchived
<1>1. IInv => CheckpointedIsArchived
  BY DEF IInv, Kept, CheckpointedIsArchived
<1> QED
  BY <1>1, InitIInv, NextIInv, PTL DEF Spec

-----------------------------------------------------------------------------
(* The buffer and the two batches taken from it. *)

LEMMA InitBufferIInv == Init => BufferIInv
<1> SUFFICES ASSUME Init PROVE BufferIInv
  OBVIOUS
<1> USE ArchiverAssumption
<1>1. Rows = {} /\ Held = {} /\ flight["main"] = {} /\ flight["timer"] = {}
  BY DEF Init, Rows, Held, Tasks
<1>2. BufferBounded
  BY FS_EmptySet DEF Init, BufferBounded
<1> QED
  BY <1>1, <1>2, InitTypeOK DEF BufferIInv, NothingDropped, HeldWasRead,
     HeldOnce, DownIsCrashed, Init

\* The size of the buffer is a number.
LEMMA BufferFinite ==
  ASSUME NEW n \in Nat, NEW set \in SUBSET (1..n)
  PROVE  Cardinality(set) \in Nat
<1>1. IsFiniteSet(1..n)
  BY FS_Interval
<1> QED
  BY <1>1, FS_Subset, FS_CardinalityType

\* While no INSERT fails the buffer only grows by Add, which empties it when it
\* holds a batch.
LEMMA BoundedStep ==
  ASSUME TypeOK, BufferBounded, [Next]_vars
  PROVE  BufferBounded'
<1> SUFFICES ASSUME Healthy' PROVE Cardinality(buffer') < WriteSize
  BY DEF BufferBounded
<1> USE ArchiverAssumption
<1>h. Healthy
  BY HealthyBefore
<1>t. /\ Cardinality(buffer) < WriteSize
      /\ published \in Nat /\ buffer \subseteq 1..published
      /\ flight \in [Tasks -> SUBSET (1..published)]
      /\ "main" \in Tasks /\ "timer" \in Tasks
  BY <1>h DEF TypeOK, BufferBounded, Tasks
<1>e. Cardinality({}) < WriteSize
  BY FS_EmptySet
<1>a. ASSUME NEW m \in 1..published, Add(m)
      PROVE  Cardinality(buffer') < WriteSize
  <2> DEFINE added == IF kind[m] = "skipped" THEN buffer ELSE buffer \cup {m}
  <2>1. \/ buffer' = {}
        \/ /\ buffer' = added
           /\ ~(kind[m] # "skipped" /\ Cardinality(added) >= WriteSize)
    BY <1>a DEF Add
  <2>2. Cardinality(added) \in Nat
    BY <1>t, BufferFinite
  <2>3. kind[m] = "skipped" => added = buffer
    OBVIOUS
  <2> HIDE DEF added
  <2> QED
    BY <1>t, <1>e, <2>1, <2>2, <2>3
<1>1. CASE BackfillAdd
  <2>1. \E m \in 1..published : Add(m)
    BY <1>1 DEF TypeOK, BackfillAdd, Messages
  <2> QED
    BY <1>a, <2>1
<1>2. CASE Consume
  <2>1. next \in 1..published /\ Add(next)
    BY <1>2 DEF TypeOK, Consume
  <2> QED
    BY <1>a, <2>1
<1>3. CASE LastFlush \/ TimerFlush \/ Crash
  BY <1>3, <1>e DEF LastFlush, TimerFlush, Crash, TakeBuffer
<1>4. ASSUME NEW task \in Tasks, FlushRefused(task) PROVE FALSE
  <2>1. RefusedSeen
    BY <1>t, <1>4 DEF FlushRefused, Refused, RefusedSeen
  <2> QED
    BY <1>h, <2>1 DEF Healthy
<1>5. ASSUME NEW task \in Tasks, FlushFails(task) PROVE FALSE
  <2>1. dbFaults' = dbFaults + 1 /\ dbFaults \in Nat /\ dbFaults' = 0
    BY <1>5 DEF FlushFails, TypeOK, Healthy
  <2> QED
    BY <2>1
<1>6. ASSUME UNCHANGED buffer PROVE Cardinality(buffer') < WriteSize
  BY <1>t, <1>6
<1>7. (Publish \/ SaveCheckpoint \/ Read \/ Restart \/ UNCHANGED vars) => UNCHANGED buffer
  BY DEF Publish, SaveCheckpoint, Read, Restart, vars, memory
<1>8. \A task \in Tasks : FlushWritten(task) => UNCHANGED buffer
  BY DEF FlushWritten
<1> QED
  BY <1>t, <1>1, <1>2, <1>3, <1>4, <1>5, <1>6, <1>7, <1>8
     DEF Next, MainTask, TimerTask

\* No step but a crash takes a message out of the places it can be in: a flush
\* moves it to Postgres or puts it back.
LEMMA NoneLeaves ==
  ASSUME TypeOK, [Next]_vars, ~Crash
  PROVE  db \cup Held \subseteq db' \cup Held'
<1> USE DEF Held
<1>t. /\ flight \in [Tasks -> SUBSET (1..published)]
      /\ "main" \in Tasks /\ "timer" \in Tasks /\ Tasks = {"main", "timer"}
  BY DEF TypeOK, Tasks
<1>1. CASE BackfillAdd \/ Consume
  <2>1. flight["main"] = {} /\ db' = db /\ (BackfillAdd => phase = "backfill")
    BY <1>1 DEF BackfillAdd, Consume
  <2>2. PICK m : Add(m)
    BY <1>1 DEF BackfillAdd, Consume
  <2>3. CASE buffer' = {} /\ flight' = [flight EXCEPT !["main"] =
                 IF kind[m] = "skipped" THEN buffer ELSE buffer \cup {m}]
    <3>1. buffer \subseteq flight'["main"] /\ flight'["timer"] = flight["timer"]
      BY <1>t, <2>3
    <3> QED
      BY <2>1, <3>1
  <2>4. CASE buffer \subseteq buffer' /\ flight' = flight
    BY <2>1, <2>4
  <2> QED
    BY <2>2, <2>3, <2>4 DEF Add
<1>2. CASE LastFlush
  <2>1. flight["main"] = {} /\ flight'["main"] = buffer /\ flight'["timer"] = flight["timer"]
    BY <1>t, <1>2 DEF LastFlush, TakeBuffer
  <2> QED
    BY <1>2, <2>1 DEF LastFlush
<1>3. CASE TimerFlush
  <2>1. flight["timer"] = {} /\ flight'["timer"] = buffer /\ flight'["main"] = flight["main"]
    BY <1>t, <1>3 DEF TimerFlush, TakeBuffer
  <2> QED
    BY <1>3, <2>1 DEF TimerFlush
<1>4. ASSUME NEW task \in Tasks, FlushWritten(task)
      PROVE  db \cup Held \subseteq db' \cup Held'
  <2>1. /\ db' = db \cup flight[task] /\ buffer' = buffer
        /\ \A t \in Tasks : t # task => flight'[t] = flight[t]
    BY <1>t, <1>4 DEF FlushWritten
  <2> QED
    BY <1>t, <2>1
<1>5. ASSUME NEW task \in Tasks, FlushRefused(task) \/ FlushFails(task)
      PROVE  db \cup Held \subseteq db' \cup Held'
  <2>1. /\ db' = db /\ buffer' = buffer \cup flight[task]
        /\ \A t \in Tasks : t # task => flight'[t] = flight[t]
    BY <1>t, <1>5 DEF FlushRefused, FlushFails, PutBack
  <2> QED
    BY <1>t, <2>1
<1>6. CASE UNCHANGED <<db, buffer, flight>>
  BY <1>6
<1>7. Publish \/ SaveCheckpoint \/ Read \/ Restart \/ UNCHANGED vars
        => UNCHANGED <<db, buffer, flight>>
  BY DEF Publish, SaveCheckpoint, Read, Restart, vars, memory
<1> QED
  BY <1>t, <1>1, <1>2, <1>3, <1>4, <1>5, <1>6, <1>7 DEF Next, MainTask, TimerTask

\* What is read goes to one of the places.
LEMMA DroppedStep ==
  ASSUME TypeOK, DownIsCrashed, NothingDropped, [Next]_vars
  PROVE  NothingDropped'
<1> USE ArchiverAssumption
<1>t. /\ published \in Nat /\ first \in Nat /\ cursor \in Nat /\ next \in Nat
      /\ last \in Nat /\ last <= published /\ next <= published + 1
      /\ crashes \in Nat /\ "main" \in Tasks
  BY DEF TypeOK, Tasks
<1> DEFINE Goal == \A m \in Rows' : m <= last' \/ m < next' => m \in db' \cup Held' \/ m < first'
<1> SUFFICES ASSUME crashes' = 0 PROVE Goal
  BY DEF NothingDropped, Held
<1>0. ~Crash /\ crashes' = crashes /\ phase # "down"
  <2>1. ~Crash
    BY <1>t DEF Crash
  <2>2. crashes' = crashes
    BY <2>1 DEF Next, MainTask, TimerTask, Publish, BackfillAdd, LastFlush,
       SaveCheckpoint, Read, Consume, TimerFlush, FlushWritten, FlushRefused,
       FlushFails, Restart, vars
  <2> QED
    BY <1>t, <2>1, <2>2 DEF DownIsCrashed
<1>1. \A m \in Rows : m <= last \/ m < next => m \in db \cup Held \/ m < first
  BY <1>0 DEF NothingDropped, Held
<1>2. db \cup Held \subseteq db' \cup Held'
  BY <1>0, NoneLeaves
<1>3. CASE Publish
  <2> SUFFICES ASSUME NEW m \in Rows', m <= last \/ m < next
               PROVE  m \in db' \cup Held' \/ m < first'
    BY <1>3 DEF Publish, group, memory
  <2>1. m \in Nat /\ m \in Rows
    BY <1>t, <1>3 DEF Rows, Publish, TypeOK, Messages
  <2>2. first' \in Nat /\ first <= first'
    BY <1>t, <1>3 DEF Publish
  <2> QED
    BY <1>t, <1>1, <1>2, <2>1, <2>2
<1>4. ASSUME UNCHANGED <<stream, last, next>> PROVE Goal
  BY <1>1, <1>2, <1>4 DEF stream, Rows
<1>5. CASE BackfillAdd
  <2> DEFINE new == IF last + 1 < first THEN first ELSE last + 1
  <2>1. new \in 1..published /\ Add(new) /\ last' = new /\ flight["main"] = {}
    BY <1>t, <1>5 DEF TypeOK, BackfillAdd, Messages
  <2>2. kind[new] = "row" => new \in Held'
    BY <2>1, AddKeeps DEF Held
  <2>3. UNCHANGED <<stream, next>>
    BY <1>5 DEF BackfillAdd, group
  <2>4. ASSUME NEW m \in Rows, m <= new \/ m < next, ~(m <= last \/ m < next)
        PROVE  m = new \/ m < first
    BY <1>t, <2>1, <2>4 DEF Rows
  <2> HIDE DEF new
  <2> QED
    BY <1>1, <1>2, <2>1, <2>2, <2>3, <2>4 DEF stream, Rows
<1>6. CASE Read
  <2>1. UNCHANGED <<stream, last>> /\ next' = IF next < first THEN first ELSE next
    BY <1>6 DEF Read, memory
  <2>2. ASSUME NEW m \in Rows, m < next' PROVE m < next \/ m < first
    BY <1>t, <2>1, <2>2 DEF Rows
  <2> QED
    BY <1>1, <1>2, <2>1, <2>2 DEF stream, Rows
<1>7. CASE Consume
  <2>1. /\ next \in 1..published /\ Add(next) /\ flight["main"] = {}
        /\ next' = next + 1 /\ UNCHANGED <<stream, last>>
    BY <1>t, <1>7 DEF TypeOK, Consume, Messages
  <2>2. kind[next] = "row" => next \in Held'
    BY <2>1, AddKeeps DEF Held
  <2>3. ASSUME NEW m \in Rows, m < next' PROVE m < next \/ m = next
    BY <1>t, <2>1, <2>3 DEF Rows
  <2> QED
    BY <1>1, <1>2, <2>1, <2>2, <2>3 DEF stream, Rows
<1>8. ~Restart
  BY <1>0 DEF Restart
<1>9. LastFlush \/ SaveCheckpoint \/ TimerFlush \/ UNCHANGED vars
        => UNCHANGED <<stream, last, next>>
  BY DEF LastFlush, SaveCheckpoint, TimerFlush, vars, group, memory
<1>10. \A task \in Tasks : FlushWritten(task) \/ FlushRefused(task) \/ FlushFails(task)
         => UNCHANGED <<stream, last, next>>
  BY DEF FlushWritten, FlushRefused, FlushFails, group
<1>11. "timer" \in Tasks
  BY DEF Tasks
<1> HIDE DEF Goal
<1> QED
  BY <1>t, <1>0, <1>3, <1>4, <1>5, <1>6, <1>7, <1>8, <1>9, <1>10, <1>11
     DEF Next, MainTask, TimerTask

LEMMA DownStep ==
  ASSUME TypeOK, DownIsCrashed, [Next]_vars
  PROVE  DownIsCrashed'
<1>1. crashes \in Nat
  BY ArchiverAssumption DEF TypeOK
<1>2. CASE Crash
  BY <1>1, <1>2 DEF Crash, DownIsCrashed
<1>3. CASE ~Crash
  <2>1. crashes' = crashes /\ (phase' = "down" => phase = "down")
    BY <1>3 DEF Next, MainTask, TimerTask, Publish, BackfillAdd, LastFlush,
       SaveCheckpoint, Read, Consume, TimerFlush, FlushWritten, FlushRefused,
       FlushFails, Restart, vars, memory
  <2> QED
    BY <2>1 DEF DownIsCrashed
<1> QED
  BY <1>2, <1>3

\* What Add makes of the three places: either the message joins the buffer, or
\* the buffer becomes the main task's batch.
LEMMA AddPlaces ==
  ASSUME TypeOK, NEW m \in 1..published, flight["main"] = {}, Add(m)
  PROVE  /\ flight'["timer"] = flight["timer"]
         /\ \/ buffer' \subseteq buffer \cup {m} /\ flight'["main"] = {}
            \/ buffer' = {} /\ flight'["main"] \subseteq buffer \cup {m}
<1>1. flight \in [Tasks -> SUBSET (1..published)] /\ "main" \in Tasks /\ "timer" \in Tasks
  BY DEF TypeOK, Tasks
<1> QED
  BY <1>1 DEF Add

\* The consumer, the backfill and the flushes only hold what has been read.
LEMMA HeldStep ==
  ASSUME TypeOK, HeldWasRead, [Next]_vars
  PROVE  HeldWasRead'
<1> USE ArchiverAssumption
<1>t. /\ published \in Nat /\ first \in Nat /\ cursor \in Nat /\ next \in Nat
      /\ last \in Nat /\ checkpoint \in Nat /\ next <= cursor + 1
      /\ flight \in [Tasks -> SUBSET (1..published)] /\ buffer \subseteq 1..published
      /\ "main" \in Tasks /\ "timer" \in Tasks /\ Tasks = {"main", "timer"}
  BY DEF TypeOK, Tasks
<1>n. \A m \in Held : m \in Nat
  <2>1. Held \subseteq 1..published
    BY <1>t DEF Held
  <2> QED
    BY <1>t, <2>1
<1> DEFINE Goal == /\ phase' = "down" => Held' = {}
                   /\ phase' # "running" => flight'["timer"] = {}
                   /\ phase' \in {"backfill", "last_flush"} => \A m \in Held' : m <= last'
                   /\ phase' = "running" => \A m \in Held' : m <= checkpoint' \/ m < next'
<1> SUFFICES Goal
  BY DEF HeldWasRead
<1>0. /\ phase = "down" => Held = {}
      /\ phase # "running" => flight["timer"] = {}
      /\ phase \in {"backfill", "last_flush"} => \A m \in Held : m <= last
      /\ phase = "running" => \A m \in Held : m <= checkpoint \/ m < next
  BY DEF HeldWasRead
<1>1. CASE BackfillAdd
  <2> DEFINE new == IF last + 1 < first THEN first ELSE last + 1
  <2>1. /\ new \in 1..published /\ Add(new) /\ last' = new /\ flight["main"] = {}
        /\ phase = "backfill" /\ phase' = "backfill"
    BY <1>t, <1>1 DEF TypeOK, BackfillAdd, Messages
  <2>2. Held' \subseteq Held \cup {new} /\ flight'["timer"] = {}
    BY <1>0, <2>1, AddPlaces DEF Held
  <2>3. last <= new /\ new \in Nat
    BY <1>t
  <2> HIDE DEF new
  <2> QED
    BY <1>t, <1>n, <1>0, <2>1, <2>2, <2>3
<1>2. CASE Consume
  <2>1. /\ next \in 1..published /\ Add(next) /\ flight["main"] = {}
        /\ next' = next + 1 /\ phase = "running" /\ UNCHANGED <<phase, last, checkpoint>>
    BY <1>t, <1>2 DEF TypeOK, Consume, Messages
  <2>2. Held' \subseteq Held \cup {next}
    BY <2>1, AddPlaces DEF Held
  <2> QED
    BY <1>t, <1>n, <1>0, <2>1, <2>2
<1>3. CASE LastFlush
  <2>1. /\ Held' = Held /\ flight'["timer"] = flight["timer"] /\ phase = "backfill"
        /\ phase' = "last_flush" /\ last' = last
    BY <1>t, <1>3 DEF LastFlush, TakeBuffer, Held
  <2> QED
    BY <1>0, <2>1
<1>4. CASE SaveCheckpoint
  <2>1. /\ Held' = Held /\ phase = "last_flush" /\ phase' = "running" /\ checkpoint' = last
    BY <1>4 DEF SaveCheckpoint, Held
  <2> QED
    BY <1>0, <2>1
<1>5. CASE Read
  <2>1. /\ next <= next' /\ next' \in Nat
        /\ phase = "running" /\ UNCHANGED <<phase, checkpoint, buffer, flight>>
    BY <1>t, <1>5 DEF Read, memory
  <2>2. Held' = Held
    BY <2>1 DEF Held
  <2> QED
    BY <1>t, <1>n, <1>0, <2>1, <2>2
<1>6. CASE TimerFlush
  <2>1. /\ Held' \subseteq Held /\ phase = "running"
        /\ UNCHANGED <<phase, last, checkpoint, next>>
    BY <1>t, <1>6 DEF TimerFlush, TakeBuffer, Held, group
  <2> QED
    BY <1>0, <2>1
<1>7. ASSUME NEW task \in Tasks, FlushWritten(task) \/ FlushRefused(task) \/ FlushFails(task)
      PROVE  Goal
  <2>1. /\ UNCHANGED <<phase, last, checkpoint, next>>
        /\ flight' = [flight EXCEPT ![task] = {}]
        /\ buffer' = buffer \/ buffer' = buffer \cup flight[task]
    BY <1>7 DEF FlushWritten, FlushRefused, FlushFails, PutBack, group
  <2>2. Held' \subseteq Held /\ (flight["timer"] = {} => flight'["timer"] = {})
    BY <1>t, <2>1 DEF Held
  <2> QED
    BY <1>0, <2>1, <2>2
<1>8. CASE Crash
  <2>1. buffer' = {} /\ flight'["main"] = {} /\ flight'["timer"] = {} /\ phase' = "down"
    BY <1>t, <1>8 DEF Crash
  <2> QED
    BY <2>1 DEF Held
<1>9. CASE Restart
  BY <1>0, <1>9 DEF Restart, Held
<1>10. CASE Publish \/ UNCHANGED vars
  <2>1. UNCHANGED <<phase, last, checkpoint, next, buffer, flight>>
    BY <1>10 DEF Publish, vars, group, memory
  <2> QED
    BY <1>0, <2>1 DEF Held
<1> HIDE DEF Goal
<1> QED
  BY <1>t, <1>1, <1>2, <1>3, <1>4, <1>5, <1>6, <1>7, <1>8, <1>9, <1>10
     DEF Next, MainTask, TimerTask

\* The consumer sees a message once, so that it is only in two places if the
\* backfill has read it too.
LEMMA OnceStep ==
  ASSUME TypeOK, TypeOK', HeldWasRead, HeldOnce, [Next]_vars
  PROVE  HeldOnce'
<1> USE ArchiverAssumption
<1>t. /\ published \in Nat /\ next \in Nat /\ last \in Nat /\ checkpoint \in Nat
      /\ flight \in [Tasks -> SUBSET (1..published)] /\ buffer \subseteq 1..published
      /\ "main" \in Tasks /\ "timer" \in Tasks /\ Tasks = {"main", "timer"}
  BY DEF TypeOK, Tasks
<1> DEFINE Apart(m) == /\ m \in flight["main"] => m \notin flight["timer"] \cup buffer
                       /\ m \in flight["timer"] => m \notin buffer
<1>0. \A m \in Messages : m > checkpoint => Apart(m)
  BY DEF HeldOnce
<1> SUFFICES ASSUME NEW m \in Messages, m > checkpoint' PROVE Apart(m)'
  BY DEF HeldOnce
<1>m. m \in Nat
  BY DEF Messages
<1>1. CASE BackfillAdd
  <2> DEFINE new == IF last + 1 < first THEN first ELSE last + 1
  <2>1. new \in 1..published /\ Add(new) /\ flight["main"] = {} /\ phase = "backfill"
    BY <1>t, <1>1 DEF TypeOK, BackfillAdd, Messages
  <2>2. flight'["timer"] = {} /\ (buffer' = {} \/ flight'["main"] = {})
    BY <2>1, AddPlaces DEF HeldWasRead
  <2> QED
    BY <2>2
<1>2. CASE Consume
  <2>1. /\ next \in 1..published /\ Add(next) /\ flight["main"] = {}
        /\ phase = "running" /\ checkpoint' = checkpoint
    BY <1>t, <1>2 DEF TypeOK, Consume, Messages
  <2>2. m \in flight["timer"] => m < next /\ m \notin buffer
    BY <1>t, <1>m, <1>0, <2>1 DEF HeldWasRead, Held
  <2>3. m \in flight["timer"] => m \notin buffer \cup {next}
    BY <1>t, <1>m, <2>2
  <2> QED
    BY <2>1, <2>3, AddPlaces
<1>3. CASE LastFlush
  <2>1. buffer' = {} /\ flight'["timer"] = {}
    BY <1>t, <1>3 DEF LastFlush, TakeBuffer, HeldWasRead
  <2> QED
    BY <2>1
<1>4. CASE SaveCheckpoint
  <2>1. /\ UNCHANGED <<buffer, flight>> /\ checkpoint' = last /\ phase = "last_flush"
    BY <1>4 DEF SaveCheckpoint
  <2>2. \A held \in Held : held <= last
    BY <2>1 DEF HeldWasRead
  <2>3. m \notin Held
    BY <1>t, <1>m, <2>1, <2>2
  <2> QED
    BY <2>1, <2>3 DEF Held
<1>5. CASE TimerFlush
  <2>1. /\ buffer' = {} /\ flight'["timer"] = buffer /\ flight'["main"] = flight["main"]
        /\ checkpoint' = checkpoint
    BY <1>t, <1>5 DEF TimerFlush, TakeBuffer
  <2> QED
    BY <1>0, <2>1
<1>6. ASSUME NEW task \in Tasks, FlushWritten(task) \/ FlushRefused(task) \/ FlushFails(task)
      PROVE  Apart(m)'
  <2>1. /\ checkpoint' = checkpoint
        /\ flight' = [flight EXCEPT ![task] = {}]
        /\ buffer' = buffer \/ buffer' = buffer \cup flight[task]
    BY <1>6 DEF FlushWritten, FlushRefused, FlushFails, PutBack
  <2>2. Apart(m)
    BY <1>0, <2>1
  <2>3. CASE task = "main"
    BY <1>t, <2>1, <2>2, <2>3
  <2>4. CASE task = "timer"
    BY <1>t, <2>1, <2>2, <2>4
  <2> QED
    BY <1>t, <2>3, <2>4
<1>7. CASE Crash
  BY <1>t, <1>7 DEF Crash
<1>8. CASE Publish \/ Read \/ Restart \/ UNCHANGED vars
  <2>1. UNCHANGED <<checkpoint, buffer, flight>>
    BY <1>8 DEF Publish, Read, Restart, vars, memory
  <2> QED
    BY <1>0, <2>1
<1> HIDE DEF Apart
<1> QED
  BY <1>t, <1>1, <1>2, <1>3, <1>4, <1>5, <1>6, <1>7, <1>8
     DEF Next, MainTask, TimerTask

LEMMA NextBufferIInv ==
  ASSUME BufferIInv, [Next]_vars
  PROVE  BufferIInv'
BY NextTypeOK, BoundedStep, DroppedStep, DownStep, HeldStep, OnceStep DEF BufferIInv

\* The write buffer loses nothing, does not grow and never has its two writers
\* (_consume_stream and _periodic_flush) insert the same row, whatever Postgres
\* refuses and whenever the process crashes.
THEOREM BufferIsSafe == Spec => []BufferSafe
<1>1. ASSUME BufferIInv PROVE BufferSafe
  <2>1. checkpoint \in Int /\ Messages \subseteq Int
    BY <1>1 DEF BufferIInv, TypeOK, Messages
  <2>2. NotWrittenTwiceAtOnce
    BY <1>1, <2>1 DEF BufferIInv, HeldOnce, NotWrittenTwiceAtOnce
  <2> QED
    BY <1>1, <2>2 DEF BufferIInv, BufferSafe
<1> QED
  BY <1>1, InitBufferIInv, NextBufferIInv, PTL DEF Spec

-----------------------------------------------------------------------------
(* The messages, the gates and the counters. *)

LEMMA KindsApart ==
  /\ \A m \in Signals : m.symbol \in AlertSymbols /\ m \notin Warnings /\ m \notin Direct
  /\ \A m \in Warnings : m.symbol \in AlertSymbols /\ m \notin Signals /\ m \notin Direct
  BY DEF Signals, Warnings, Direct

LEMMA GateOrder ==
  /\ Gates[1] = "muted" /\ Gates[2] = "duplicate" /\ Gates[3] = "cooldown"
  /\ Gates[4] = "rate" /\ Gates[5] = "burst" /\ Gates[6] = "post"
  BY DEF Gates

LEMMA StepNames ==
  AlertSteps = {"muted", "duplicate", "cooldown", "rate", "burst", "post", "idle",
                "exists", "setex", "record", "rate_ttl", "burst_ttl", "log"}
<1>1. DOMAIN Gates = 1..6
  BY DEF Gates
<1>2. \A i \in 1..6 : i \in {1, 2, 3, 4, 5, 6}
  OBVIOUS
<1> QED
  BY <1>1, <1>2, GateOrder DEF AlertSteps

LEMMA CounterClosed ==
  ASSUME NEW ttl \in Nat, NEW counter \in Counters(ttl)
  PROVE  /\ Incremented(counter) \in Counters(ttl)
         /\ Incremented(counter).n = counter.n + 1
         /\ AgedCounter(counter) \in Counters(ttl)
         /\ AgedCounter(counter).n \in {0, counter.n}
         /\ Limited(counter, ttl) \in Counters(ttl)
         /\ Limited(counter, ttl).n = counter.n
         /\ counter.n \in Nat
<1> USE DEF Counters, Life, NoExpiry, Absent
<1>1. counter.n \in Nat /\ counter.life \in Life(ttl)
  OBVIOUS
<1>2. /\ Touched(counter.life) \in Life(ttl) /\ Aged(counter.life) \in Life(ttl)
  BY <1>1 DEF Touched, Aged
<1>3. Incremented(counter) \in Counters(ttl) /\ Incremented(counter).n = counter.n + 1
  BY <1>1, <1>2 DEF Incremented
<1>4. AgedCounter(counter) \in Counters(ttl) /\ AgedCounter(counter).n \in {0, counter.n}
  <2>1. CASE Aged(counter.life) = Absent
    BY <2>1 DEF AgedCounter, NoCounter
  <2>2. CASE Aged(counter.life) # Absent
    BY <1>1, <1>2, <2>2 DEF AgedCounter
  <2> QED
    BY <2>1, <2>2
<1>5. Limited(counter, ttl) \in Counters(ttl) /\ Limited(counter, ttl).n = counter.n
  BY <1>1 DEF Limited
<1> QED
  BY <1>1, <1>3, <1>4, <1>5

LEMMA ThenType ==
  ASSUME AlertTypeOK, NEW then \in AlertSteps, Then(then)
  PROVE  /\ step' = then /\ attempt' \in 0..RetryMax
         /\ item' \in Signals \cup Warnings \cup Direct \cup {NoItem}
         /\ then # "idle" => item' = item
         /\ then = "idle" => item' = NoItem
  BY AlertAssumption DEF AlertTypeOK, Then

LEMMA NoItemIsNone == NoItem \notin Signals /\ NoItem \notin Warnings
  BY DEF NoItem, Signals, Warnings

-----------------------------------------------------------------------------
(* The inductive invariant. *)

LEMMA InitAlert == AlertInit => AlertIInv
<1> SUFFICES ASSUME AlertInit PROVE AlertIInv
  OBVIOUS
<1> USE AlertAssumption DEF AlertInit
<1>1. NoCounter \in Counters(RateTtl) /\ NoCounter \in Counters(BurstTtl)
  BY DEF NoCounter, Counters, Life, Absent
<1>2. step \in AlertSteps
  BY StepNames
<1>3. AlertTypeOK
  BY <1>1, <1>2 DEF AlertTypeOK
<1>4. RateBounded
  BY DEF RateBounded, NoCounter
<1>5. EachCostsAFault
  BY DEF EachCostsAFault
<1> QED
  BY <1>3, <1>4, <1>5 DEF AlertIInv, ItemFitsStep, GatesStillHold, WarningStaysFresh,
     RecordedWasAccepted, LoggedIsDelivered

\* The parts of the invariant that say nothing of an idle handler hold when it
\* becomes idle.
LEMMA IdleParts ==
  ASSUME step' = "idle", item' = NoItem
  PROVE  ItemFitsStep' /\ GatesStillHold' /\ WarningStaysFresh' /\ RecordedWasAccepted'
  BY NoItemIsNone DEF ItemFitsStep, GatesStillHold, WarningStaysFresh, RecordedWasAccepted

\* The handler ends: what it has left undone after a post has cost a fault.
LEMMA IdleKeeps ==
  ASSUME AlertIInv, Then("idle"), UNCHANGED <<alertKeys, accepted, counted>>,
         \/ faults' = faults /\ step # "record"
         \/ faults' = faults + 1 /\ faults < MaxFaults
  PROVE  AlertIInv'
<1> USE AlertAssumption
<1>t. AlertTypeOK /\ RateBounded /\ EachCostsAFault /\ LoggedIsDelivered
  BY DEF AlertIInv
<1>1. step' = "idle" /\ item' = NoItem /\ attempt' \in 0..RetryMax
  BY <1>t, ThenType, StepNames
<1>2. faults \in Nat /\ faults' \in 0..MaxFaults /\ faults <= faults'
  BY <1>t DEF AlertTypeOK
<1>3. AlertTypeOK'
  BY <1>t, <1>1, <1>2, StepNames DEF AlertTypeOK, alertKeys
<1>4. EachCostsAFault'
  <2>1. \A m \in Signals \cup Warnings : accepted[m] \in Nat
    BY <1>t DEF AlertTypeOK
  <2>2. ASSUME NEW m \in Signals
        PROVE  \/ accepted[m] <= faults'
               \/ accepted[m] <= 1 + faults' /\ m \in delivered'
    BY <1>t, <1>2, <2>1, <2>2 DEF EachCostsAFault, alertKeys
  <2>3. ASSUME NEW m \in Warnings
        PROVE  accepted[m] <= 1 + faults'
    BY <1>t, <1>2, <2>1, <2>3 DEF EachCostsAFault
  <2> QED
    BY <1>1, <2>2, <2>3 DEF EachCostsAFault
<1> QED
  BY <1>t, <1>1, <1>3, <1>4, IdleParts DEF AlertIInv, RateBounded, LoggedIsDelivered,
     alertKeys

LEMMA ReceiveKeeps ==
  ASSUME AlertIInv, ReceiveAny
  PROVE  AlertIInv'
<1> USE AlertAssumption
<1>t. AlertTypeOK /\ RateBounded /\ EachCostsAFault /\ LoggedIsDelivered
  BY DEF AlertIInv
<1>1. /\ step = "idle" /\ attempt' = 0 /\ UNCHANGED <<alertKeys, alertHistory>>
      /\ \/ item' \in Signals /\ step' = "muted"
         \/ item' \in Warnings /\ step' = "exists"
         \/ item' \in Direct /\ step' = "post"
  BY DEF ReceiveAny, Receive
<1>2. AlertTypeOK'
  BY <1>t, <1>1, StepNames DEF AlertTypeOK, alertKeys, alertHistory
<1>3. ItemFitsStep' /\ GatesStillHold' /\ WarningStaysFresh' /\ RecordedWasAccepted'
  BY <1>1, KindsApart DEF ItemFitsStep, GatesStillHold, WarningStaysFresh,
     RecordedWasAccepted
<1>4. EachCostsAFault'
  BY <1>t, <1>1, KindsApart DEF EachCostsAFault, alertKeys, alertHistory
<1> QED
  BY <1>t, <1>1, <1>2, <1>3, <1>4 DEF AlertIInv, RateBounded, LoggedIsDelivered,
     alertKeys, alertHistory

\* Passing a gate adds what the gate has found to what still holds.
LEMMA PassKeeps ==
  ASSUME AlertIInv, PassGate
  PROVE  AlertIInv'
<1> USE AlertAssumption
<1>t. /\ AlertTypeOK /\ ItemFitsStep /\ GatesStillHold /\ RateBounded /\ EachCostsAFault
      /\ LoggedIsDelivered
  BY DEF AlertIInv
<1>1. PICK i \in 1..5 : step = Gates[i] /\ Then(Gates[i + 1])
  BY DEF PassGate
<1>2. /\ ~Blocks(step) /\ UNCHANGED <<alertKeys, alertHistory>>
      /\ <<step, step'>> \in {<<"muted", "duplicate">>, <<"duplicate", "cooldown">>,
                             <<"cooldown", "rate">>, <<"rate", "burst">>, <<"burst", "post">>}
  <2>1. i \in {1, 2, 3, 4, 5}
    OBVIOUS
  <2>2. ~Blocks(step) /\ UNCHANGED <<alertKeys, alertHistory>>
    BY DEF PassGate
  <2> QED
    BY <1>1, <2>1, <2>2, GateOrder DEF Then
<1>3. Gates[i + 1] \in AlertSteps /\ Gates[i + 1] # "idle"
  <2>1. i \in {1, 2, 3, 4, 5}
    OBVIOUS
  <2> QED
    BY <2>1, GateOrder, StepNames
<1>4. item' = item /\ item \in Signals /\ step' \in AlertSteps /\ attempt' \in 0..RetryMax
  BY <1>t, <1>1, <1>2, <1>3, ThenType DEF ItemFitsStep
<1>5. AlertTypeOK'
  BY <1>t, <1>2, <1>4 DEF AlertTypeOK, alertKeys, alertHistory
<1>6. ItemFitsStep' /\ WarningStaysFresh' /\ RecordedWasAccepted'
  BY <1>2, <1>4 DEF ItemFitsStep, WarningStaysFresh, RecordedWasAccepted
<1>7. GatesStillHold'
  <2>1. alertCooldown[item.symbol] \in Nat /\ rate.n \in Nat /\ burst.n \in Nat
    BY <1>t, <1>4, KindsApart, CounterClosed DEF AlertTypeOK
  <2>2. UNCHANGED <<delivered, alertCooldown, rate, burst, item>>
    BY <1>2, <1>4 DEF alertKeys
  <2>3. CASE step = "muted"
    BY <1>2, <2>3 DEF GatesStillHold
  <2>4. CASE step = "duplicate"
    BY <1>2, <2>2, <2>4 DEF GatesStillHold, Blocks, AlreadyDelivered
  <2>5. CASE step = "cooldown"
    BY <1>t, <1>2, <1>4, <2>1, <2>2, <2>5 DEF GatesStillHold, Blocks, InCooldown
  <2>6. CASE step = "rate"
    BY <1>t, <1>2, <1>4, <2>1, <2>2, <2>6 DEF GatesStillHold, Blocks, LimitReached
  <2>7. CASE step = "burst"
    BY <1>t, <1>2, <1>4, <2>1, <2>2, <2>7 DEF GatesStillHold, Blocks, LimitReached
  <2> QED
    BY <1>2, <2>3, <2>4, <2>5, <2>6, <2>7
<1>8. EachCostsAFault'
  BY <1>t, <1>2, <1>4, KindsApart DEF EachCostsAFault, alertKeys, alertHistory
<1> QED
  BY <1>t, <1>2, <1>5, <1>6, <1>7, <1>8 DEF AlertIInv, RateBounded, LoggedIsDelivered,
     alertKeys, alertHistory

\* The warning's own cooldown is read and then set by the same handler.
LEMMA WarningKeeps ==
  ASSUME AlertIInv, WarningIsFresh \/ SetWarningCooldown
  PROVE  AlertIInv'
<1> USE AlertAssumption
<1>t. /\ AlertTypeOK /\ ItemFitsStep /\ RateBounded /\ EachCostsAFault /\ LoggedIsDelivered
  BY DEF AlertIInv
<1>1. CASE WarningIsFresh
  <2>1. /\ item' = item /\ step' = "setex" /\ attempt' \in 0..RetryMax /\ step = "exists"
        /\ warned[item.symbol] = 0 /\ UNCHANGED <<alertKeys, alertHistory>>
    BY <1>t, <1>1, ThenType, StepNames DEF WarningIsFresh
  <2>2. item \in Warnings
    BY <1>t, <2>1 DEF ItemFitsStep
  <2>3. AlertTypeOK'
    BY <1>t, <2>1, StepNames DEF AlertTypeOK, alertKeys, alertHistory
  <2>4. EachCostsAFault'
    BY <1>t, <2>1, <2>2, KindsApart DEF EachCostsAFault, alertKeys, alertHistory
  <2> QED
    BY <1>t, <2>1, <2>2, <2>3, <2>4, KindsApart DEF AlertIInv, ItemFitsStep,
       GatesStillHold, WarningStaysFresh, RecordedWasAccepted, RateBounded,
       LoggedIsDelivered, alertKeys, alertHistory
<1>2. CASE SetWarningCooldown
  <2>1. /\ item' = item /\ step' = "post" /\ attempt' \in 0..RetryMax /\ step = "setex"
        /\ warned' = [warned EXCEPT ![item.symbol] = WarningTtl]
        /\ accepted' = [accepted EXCEPT ![item] = 0]
        /\ UNCHANGED <<alertCooldown, rate, burst, delivered, logged, counted, faults>>
    BY <1>t, <1>2, ThenType, StepNames DEF SetWarningCooldown
  <2>2. item \in Warnings /\ item.symbol \in AlertSymbols
    BY <1>t, <2>1, KindsApart DEF ItemFitsStep
  <2>3. AlertTypeOK'
    BY <1>t, <2>1, <2>2, StepNames DEF AlertTypeOK
  <2>4. /\ accepted'[item] = 0
        /\ \A m \in Signals \cup Warnings : m # item => accepted'[m] = accepted[m]
        /\ faults \in Nat
    BY <1>t, <2>1, <2>2 DEF AlertTypeOK
  <2>5. EachCostsAFault'
    BY <1>t, <2>1, <2>2, <2>4, KindsApart DEF EachCostsAFault
  <2>6. LoggedIsDelivered'
    BY <1>t, <2>1, <2>2, <2>4, KindsApart DEF LoggedIsDelivered, AlertTypeOK
  <2> QED
    BY <1>t, <2>1, <2>2, <2>3, <2>5, <2>6, KindsApart DEF AlertIInv, ItemFitsStep,
       GatesStillHold, WarningStaysFresh, RecordedWasAccepted, RateBounded
<1> QED
  BY <1>1, <1>2

\* Telegram takes the message: the first time, or once more for a lost answer.
LEMMA AcceptCounts ==
  ASSUME AlertIInv, step = "post", Accept
  PROVE  /\ accepted' \in [Signals \cup Warnings -> Nat]
         /\ \A m \in Signals \cup Warnings : accepted'[m] >= accepted[m]
         /\ \A m \in Signals \cup Warnings : m # item => accepted'[m] = accepted[m]
         /\ item \in Signals \cup Warnings =>
              accepted'[item] >= 1 /\ accepted'[item] <= 1 + faults
<1> USE AlertAssumption
<1>t. /\ AlertTypeOK /\ GatesStillHold /\ EachCostsAFault
      /\ item \in Signals \cup Warnings \cup Direct
      /\ accepted \in [Signals \cup Warnings -> Nat] /\ faults \in Nat
  BY DEF AlertIInv, ItemFitsStep, AlertTypeOK
<1>1. CASE item \in Direct
  BY <1>t, <1>1, KindsApart DEF Accept
<1>2. CASE item \in Signals \cup Warnings
  <2>1. accepted' = [accepted EXCEPT ![item] = accepted[item] + 1]
    BY <1>2, KindsApart DEF Accept
  <2>2. accepted[item] <= faults
    <3>1. CASE item \in Signals
      <4>1. item \notin delivered
        BY <1>t, <3>1 DEF GatesStillHold
      <4> QED
        BY <1>t, <3>1, <4>1 DEF EachCostsAFault
    <3>2. CASE item \in Warnings
      BY <1>t, <3>2 DEF EachCostsAFault
    <3> QED
      BY <1>2, <3>1, <3>2
  <2> QED
    BY <1>t, <1>2, <2>1, <2>2
<1> QED
  BY <1>t, <1>1, <1>2

\* Every message Telegram has taken beyond the first is paid for.
LEMMA PostKeeps ==
  ASSUME AlertIInv, PostAccepted \/ PostTimesOut
  PROVE  AlertIInv'
<1> USE AlertAssumption
<1>t. /\ AlertTypeOK /\ ItemFitsStep /\ GatesStillHold /\ RateBounded /\ EachCostsAFault
      /\ LoggedIsDelivered /\ step = "post" /\ UNCHANGED <<alertKeys, counted>> /\ Accept
      /\ item \in Signals \cup Warnings \cup Direct
      /\ accepted \in [Signals \cup Warnings -> Nat] /\ faults \in Nat
      /\ faults' \in 0..MaxFaults
  BY DEF AlertIInv, ItemFitsStep, AlertTypeOK, PostAccepted, PostTimesOut
<1>a. /\ accepted' \in [Signals \cup Warnings -> Nat]
      /\ \A m \in Signals \cup Warnings : accepted'[m] >= accepted[m]
      /\ \A m \in Signals \cup Warnings : m # item => accepted'[m] = accepted[m]
      /\ item \in Signals \cup Warnings =>
           accepted'[item] >= 1 /\ accepted'[item] <= 1 + faults
  BY <1>t, AcceptCounts
<1>l. LoggedIsDelivered'
  <2>1. \A m \in delivered : m \in Signals
    BY <1>t DEF AlertTypeOK
  <2>2. \A m \in delivered : accepted'[m] >= 1
    BY <1>t, <1>a, <2>1 DEF LoggedIsDelivered
  <2> QED
    BY <1>t, <2>2 DEF LoggedIsDelivered, alertKeys
<1>r. RateBounded'
  BY <1>t DEF RateBounded, alertKeys
<1>1. CASE PostAccepted
  <2>1. faults' = faults /\ Then(IF item \in Signals THEN "record" ELSE "idle")
    BY <1>1 DEF PostAccepted
  <2>2. CASE item \in Signals
    <3>1. step' = "record" /\ item' = item /\ attempt' \in 0..RetryMax
      BY <1>t, <2>1, <2>2, ThenType, StepNames
    <3>2. AlertTypeOK'
      BY <1>t, <1>a, <3>1, StepNames DEF AlertTypeOK, alertKeys
    <3>3. EachCostsAFault'
      BY <1>t, <1>a, <2>1, <2>2, <3>1, KindsApart DEF EachCostsAFault, alertKeys
    <3>4. ItemFitsStep' /\ GatesStillHold' /\ WarningStaysFresh' /\ RecordedWasAccepted'
      BY <1>t, <1>a, <2>2, <3>1 DEF ItemFitsStep, GatesStillHold, WarningStaysFresh,
         RecordedWasAccepted, alertKeys
    <3> QED
      BY <1>l, <1>r, <3>2, <3>3, <3>4 DEF AlertIInv
  <2>3. CASE item \notin Signals
    <3>1. step' = "idle" /\ item' = NoItem /\ attempt' \in 0..RetryMax
      BY <1>t, <2>1, <2>3, ThenType, StepNames
    <3>2. AlertTypeOK'
      BY <1>t, <1>a, <3>1, StepNames DEF AlertTypeOK, alertKeys
    <3>3. EachCostsAFault'
      BY <1>t, <1>a, <2>1, <2>3, <3>1, NoItemIsNone DEF EachCostsAFault, alertKeys
    <3> QED
      BY <1>l, <1>r, <3>1, <3>2, <3>3, IdleParts DEF AlertIInv
  <2> QED
    BY <2>2, <2>3
<1>2. CASE PostTimesOut
  <2>1. faults' = faults + 1 /\ Retry
    BY <1>2 DEF PostTimesOut
  <2>3. EachCostsAFault'
    <3>1. ASSUME NEW m \in Signals
          PROVE  accepted'[m] <= faults'
      <4>1. CASE m = item
        BY <1>a, <1>t, <2>1, <4>1
      <4>2. CASE m # item
        BY <1>a, <1>t, <2>1, <4>2 DEF EachCostsAFault
      <4> QED
        BY <4>1, <4>2
    <3>2. ASSUME NEW m \in Warnings
          PROVE  accepted'[m] <= faults'
      <4>1. CASE m = item
        BY <1>a, <1>t, <2>1, <4>1
      <4>2. CASE m # item
        BY <1>a, <1>t, <2>1, <4>2 DEF EachCostsAFault
      <4> QED
        BY <4>1, <4>2
    <3>3. faults' \in Nat /\ \A m \in Warnings : accepted'[m] \in Nat
      BY <1>a, <1>t, <2>1
    <3> QED
      BY <3>1, <3>2, <3>3 DEF EachCostsAFault
  <2>4. CASE attempt + 1 < RetryMax
    <3>1. attempt' = attempt + 1 /\ item' = item /\ step' = step
      BY <2>1, <2>4 DEF Retry
    <3>2. attempt' \in 0..RetryMax
      BY <1>t, <2>4, <3>1 DEF AlertTypeOK
    <3>3. AlertTypeOK'
      BY <1>t, <1>a, <3>1, <3>2, StepNames DEF AlertTypeOK, alertKeys
    <3>4. ItemFitsStep' /\ GatesStillHold' /\ WarningStaysFresh' /\ RecordedWasAccepted'
      BY <1>t, <3>1 DEF ItemFitsStep, GatesStillHold, WarningStaysFresh,
         RecordedWasAccepted, alertKeys
    <3> QED
      BY <1>l, <1>r, <2>3, <3>3, <3>4 DEF AlertIInv
  <2>5. CASE ~(attempt + 1 < RetryMax)
    <3>1. step' = "idle" /\ item' = NoItem /\ attempt' \in 0..RetryMax
      BY <1>t, <2>1, <2>5, ThenType, StepNames DEF Retry
    <3>2. AlertTypeOK'
      BY <1>t, <1>a, <3>1, StepNames DEF AlertTypeOK, alertKeys
    <3> QED
      BY <1>l, <1>r, <2>3, <3>1, <3>2, IdleParts DEF AlertIInv
  <2> QED
    BY <2>4, <2>5
<1> QED
  BY <1>1, <1>2

\* A post that fails, is refused, or a handler that stops at a gate or dies, has
\* delivered nothing more.
LEMMA EndsKeeps ==
  ASSUME AlertIInv,
         BlockAtGate \/ WarningIsBlocked \/ PostRefused \/ PostFails \/ HandlerDies
  PROVE  AlertIInv'
<1>t. faults \in Nat /\ attempt \in 0..RetryMax /\ AlertTypeOK
  BY DEF AlertIInv, AlertTypeOK
<1>1. CASE BlockAtGate
  <2>1. step # "record"
    <3>1. PICK i \in 1..5 : step = Gates[i]
      BY <1>1 DEF BlockAtGate
    <3>2. i \in {1, 2, 3, 4, 5}
      OBVIOUS
    <3> QED
      BY <3>1, <3>2, GateOrder
  <2> QED
    BY <1>1, <2>1, IdleKeeps DEF BlockAtGate, alertHistory
<1>2. CASE WarningIsBlocked
  BY <1>2, IdleKeeps DEF WarningIsBlocked, alertHistory
<1>3. CASE PostRefused
  BY <1>3, IdleKeeps DEF PostRefused, alertHistory
<1>4. CASE PostFails
  <2>1. CASE attempt + 1 < RetryMax
    <3>1. /\ attempt' = attempt + 1 /\ item' = item /\ step' = step
          /\ UNCHANGED <<alertKeys, alertHistory>>
      BY <1>4, <2>1 DEF PostFails, Retry
    <3>2. attempt' \in 0..RetryMax
      BY <1>t, <2>1, <3>1, AlertAssumption
    <3>3. AlertTypeOK'
      BY <1>t, <3>1, <3>2 DEF AlertTypeOK, alertKeys, alertHistory
    <3> QED
      BY <3>1, <3>3 DEF AlertIInv, ItemFitsStep, GatesStillHold, WarningStaysFresh,
         RateBounded, EachCostsAFault, RecordedWasAccepted, LoggedIsDelivered, alertKeys,
         alertHistory
  <2>2. CASE ~(attempt + 1 < RetryMax)
    <3>1. Then("idle") /\ step # "record" /\ UNCHANGED <<alertKeys, alertHistory>>
      BY <1>4, <2>2 DEF PostFails, Retry
    <3> QED
      BY <3>1, IdleKeeps DEF alertHistory
  <2> QED
    BY <2>1, <2>2
<1>5. CASE HandlerDies
  BY <1>5, IdleKeeps DEF HandlerDies
<1> QED
  BY <1>1, <1>2, <1>3, <1>4, <1>5

-----------------------------------------------------------------------------
(* The delivery is recorded. *)

\* A part of the pipeline: the counters stay in their limits, because the gate's
\* finding still holds, and what is delivered has been accepted.
LEMMA PipelineCounts ==
  ASSUME AlertIInv, step = "record", NEW n \in 0..4, FirstCommands(n)
  PROVE  /\ item \in Signals /\ item.symbol \in AlertSymbols /\ accepted[item] >= 1
         /\ alertCooldown' \in [AlertSymbols -> 0..AlertCooldown]
         /\ rate' \in Counters(RateTtl) /\ rate'.n <= RateLimit
         /\ burst' \in Counters(BurstTtl)
         /\ counted' \in [0..(RateTtl - 1) -> Nat]
         /\ delivered \subseteq delivered' /\ delivered' \subseteq delivered \cup {item}
         /\ n = 4 => item \in delivered'
<1> USE AlertAssumption
<1>t. /\ AlertTypeOK /\ ItemFitsStep /\ GatesStillHold /\ RateBounded
      /\ RecordedWasAccepted
  BY DEF AlertIInv
<1>1. item \in Signals /\ item.symbol \in AlertSymbols /\ accepted[item] >= 1
  BY <1>t, KindsApart DEF ItemFitsStep, RecordedWasAccepted
<1>2. alertCooldown' \in [AlertSymbols -> 0..AlertCooldown]
  BY <1>t, <1>1 DEF FirstCommands, AlertTypeOK
<1>3. /\ Incremented(rate) \in Counters(RateTtl) /\ Incremented(rate).n = rate.n + 1
      /\ rate.n \in Nat /\ Incremented(burst) \in Counters(BurstTtl)
  BY <1>t, CounterClosed DEF AlertTypeOK
<1>4. rate.n < RateLimit
  BY <1>t, <1>1 DEF GatesStillHold
<1>5. rate' \in Counters(RateTtl) /\ rate'.n <= RateLimit
  BY <1>t, <1>3, <1>4 DEF FirstCommands, AlertTypeOK
<1>6. burst' \in Counters(BurstTtl)
  BY <1>t, <1>3 DEF FirstCommands, AlertTypeOK
<1>7. counted' \in [0..(RateTtl - 1) -> Nat]
  <2>1. 0 \in 0..(RateTtl - 1) /\ counted \in [0..(RateTtl - 1) -> Nat]
    BY <1>t DEF AlertTypeOK
  <2> QED
    BY <2>1 DEF FirstCommands
<1>8. /\ delivered \subseteq delivered' /\ delivered' \subseteq delivered \cup {item}
      /\ n = 4 => item \in delivered'
  BY DEF FirstCommands
<1> QED
  BY <1>1, <1>2, <1>5, <1>6, <1>7, <1>8

LEMMA RecordKeeps ==
  ASSUME AlertIInv, Record \/ RecordTorn
  PROVE  AlertIInv'
<1> USE AlertAssumption
<1>t. /\ AlertTypeOK /\ EachCostsAFault /\ LoggedIsDelivered /\ step = "record"
      /\ UNCHANGED <<warned, logged, accepted>>
      /\ accepted \in [Signals \cup Warnings -> Nat] /\ faults \in Nat
      /\ delivered \subseteq Signals /\ logged \subseteq delivered
      /\ \A m \in delivered : accepted[m] >= 1
      /\ faults' \in 0..MaxFaults
  BY DEF AlertIInv, AlertTypeOK, LoggedIsDelivered, Record, RecordTorn
<1>1. PICK n \in 0..4 : FirstCommands(n) /\ (Record => n = 4)
  BY DEF Record, RecordTorn
<1>2. /\ item \in Signals /\ item.symbol \in AlertSymbols /\ accepted[item] >= 1
      /\ alertCooldown' \in [AlertSymbols -> 0..AlertCooldown]
      /\ rate' \in Counters(RateTtl) /\ rate'.n <= RateLimit
      /\ burst' \in Counters(BurstTtl)
      /\ counted' \in [0..(RateTtl - 1) -> Nat]
      /\ delivered \subseteq delivered' /\ delivered' \subseteq delivered \cup {item}
      /\ n = 4 => item \in delivered'
  BY <1>t, <1>1, PipelineCounts
<1>3. LoggedIsDelivered'
  BY <1>t, <1>2 DEF LoggedIsDelivered
<1>4. delivered' \subseteq Signals /\ logged' \subseteq Signals
  BY <1>t, <1>2
<1>5. CASE Record
  <2>1. /\ step' = "rate_ttl" /\ item' = item /\ attempt' \in 0..RetryMax
        /\ faults' = faults /\ item \in delivered'
    BY <1>t, <1>1, <1>2, <1>5, ThenType, StepNames DEF Record
  <2>2. AlertTypeOK'
    BY <1>t, <1>2, <1>4, <2>1, StepNames DEF AlertTypeOK
  <2>3. EachCostsAFault'
    BY <1>t, <1>2, <2>1, KindsApart DEF EachCostsAFault
  <2>4. ItemFitsStep' /\ GatesStillHold' /\ WarningStaysFresh' /\ RecordedWasAccepted'
    BY <1>2, <2>1 DEF ItemFitsStep, GatesStillHold, WarningStaysFresh,
       RecordedWasAccepted
  <2> QED
    BY <1>2, <1>3, <2>2, <2>3, <2>4 DEF AlertIInv, RateBounded
<1>6. CASE RecordTorn
  <2>1. /\ step' = "idle" /\ item' = NoItem /\ attempt' \in 0..RetryMax
        /\ faults' = faults + 1
    BY <1>t, <1>6, ThenType, StepNames DEF RecordTorn
  <2>2. AlertTypeOK'
    BY <1>t, <1>2, <1>4, <2>1, StepNames DEF AlertTypeOK
  <2>3. EachCostsAFault'
    <3>1. ASSUME NEW m \in Signals
          PROVE  accepted'[m] <= faults'
      BY <1>t, <2>1, <3>1 DEF EachCostsAFault
    <3>2. ASSUME NEW m \in Warnings
          PROVE  accepted'[m] <= 1 + faults'
      BY <1>t, <2>1, <3>2 DEF EachCostsAFault
    <3> QED
      BY <2>1, <3>1, <3>2, NoItemIsNone DEF EachCostsAFault
  <2> QED
    BY <1>2, <1>3, <2>1, <2>2, <2>3, IdleParts DEF AlertIInv, RateBounded
<1> QED
  BY <1>5, <1>6

\* The expiries touch no counter, and what is logged is remembered as delivered.
LEMMA RecordedKeeps ==
  ASSUME AlertIInv, EnsureRateTtl \/ EnsureBurstTtl \/ Log
  PROVE  AlertIInv'
<1> USE AlertAssumption
<1>t. /\ AlertTypeOK /\ ItemFitsStep /\ RateBounded /\ EachCostsAFault
      /\ LoggedIsDelivered /\ RecordedWasAccepted
      /\ step \in {"rate_ttl", "burst_ttl", "log"}
      /\ item \in Signals /\ item \in delivered
      /\ UNCHANGED <<alertCooldown, delivered, warned, accepted, counted, faults>>
  BY DEF AlertIInv, EnsureRateTtl, EnsureBurstTtl, Log, ItemFitsStep,
     RecordedWasAccepted, alertHistory
<1>1. /\ Limited(rate, RateTtl) \in Counters(RateTtl)
      /\ Limited(rate, RateTtl).n = rate.n
      /\ Limited(burst, BurstTtl) \in Counters(BurstTtl)
  BY <1>t, CounterClosed DEF AlertTypeOK
<1>2. /\ rate' \in Counters(RateTtl) /\ rate'.n = rate.n /\ burst' \in Counters(BurstTtl)
  BY <1>t, <1>1 DEF AlertTypeOK, EnsureRateTtl, EnsureBurstTtl, Log
<1>3. \/ step' \in {"burst_ttl", "log"} /\ item' = item /\ attempt' \in 0..RetryMax
      \/ step' = "idle" /\ item' = NoItem /\ attempt' \in 0..RetryMax
  BY <1>t, ThenType, StepNames DEF EnsureRateTtl, EnsureBurstTtl, Log
<1>4. logged' \subseteq Signals /\ logged' \subseteq delivered
  BY <1>t DEF EnsureRateTtl, EnsureBurstTtl, Log, AlertTypeOK, LoggedIsDelivered
<1>5. AlertTypeOK'
  BY <1>t, <1>2, <1>3, <1>4, StepNames DEF AlertTypeOK
<1>6. ItemFitsStep' /\ GatesStillHold' /\ WarningStaysFresh' /\ RecordedWasAccepted'
  BY <1>t, <1>3, IdleParts DEF ItemFitsStep, GatesStillHold, WarningStaysFresh,
     RecordedWasAccepted
<1>7. EachCostsAFault'
  BY <1>t, <1>3, KindsApart, NoItemIsNone DEF EachCostsAFault
<1>8. RateBounded' /\ LoggedIsDelivered'
  BY <1>t, <1>2, <1>4 DEF RateBounded, LoggedIsDelivered
<1> QED
  BY <1>5, <1>6, <1>7, <1>8 DEF AlertIInv

\* The clock only takes away: cooldowns run down and counters expire.
LEMMA TickKeeps ==
  ASSUME AlertIInv, AlertTick
  PROVE  AlertIInv'
<1> USE AlertAssumption
<1>t. /\ AlertTypeOK /\ ItemFitsStep /\ GatesStillHold /\ WarningStaysFresh
      /\ RateBounded /\ EachCostsAFault /\ LoggedIsDelivered /\ RecordedWasAccepted
      /\ UNCHANGED <<delivered, logged, item, step, attempt, accepted, faults>>
  BY DEF AlertIInv, AlertTick, alertHandler
<1>1. /\ rate' \in Counters(RateTtl) /\ rate'.n \in {0, rate.n} /\ rate.n \in Nat
      /\ burst' \in Counters(BurstTtl) /\ burst'.n \in {0, burst.n} /\ burst.n \in Nat
  BY <1>t, CounterClosed DEF AlertTick, AlertTypeOK
<1>2. /\ alertCooldown' \in [AlertSymbols -> 0..AlertCooldown]
      /\ \A s \in AlertSymbols : alertCooldown[s] = 0 => alertCooldown'[s] = 0
  BY <1>t DEF AlertTick, AlertTypeOK, Aged, Absent, NoExpiry
<1>3. /\ warned' \in [AlertSymbols -> 0..WarningTtl]
      /\ \A s \in AlertSymbols : warned[s] = 0 => warned'[s] = 0
  BY <1>t DEF AlertTick, AlertTypeOK, Aged, Absent, NoExpiry
<1>4. counted' \in [0..(RateTtl - 1) -> Nat]
  BY <1>t DEF AlertTick, AlertTypeOK
<1>5. AlertTypeOK'
  BY <1>t, <1>1, <1>2, <1>3, <1>4 DEF AlertTypeOK
<1>6. GatesStillHold'
  BY <1>t, <1>1, <1>2, KindsApart DEF GatesStillHold
<1>7. ItemFitsStep' /\ WarningStaysFresh' /\ RecordedWasAccepted'
  BY <1>t, <1>3, KindsApart DEF ItemFitsStep, WarningStaysFresh, RecordedWasAccepted
<1>8. RateBounded' /\ EachCostsAFault' /\ LoggedIsDelivered'
  BY <1>t, <1>1 DEF RateBounded, EachCostsAFault, LoggedIsDelivered
<1> QED
  BY <1>5, <1>6, <1>7, <1>8 DEF AlertIInv

LEMMA AlertStep == AlertIInv /\ [AlertNext]_alertVars => AlertIInv'
<1> SUFFICES ASSUME AlertIInv, [AlertNext]_alertVars
             PROVE  AlertIInv'
  OBVIOUS
<1>1. CASE UNCHANGED alertVars
  BY <1>1 DEF AlertIInv, AlertTypeOK, ItemFitsStep, GatesStillHold, WarningStaysFresh,
     RateBounded, EachCostsAFault, RecordedWasAccepted, LoggedIsDelivered, alertVars,
     alertKeys, alertHandler, alertHistory
<1>2. CASE ReceiveAny
  BY <1>2, ReceiveKeeps
<1>3. CASE PassGate
  BY <1>3, PassKeeps
<1>4. CASE BlockAtGate \/ WarningIsBlocked \/ PostRefused \/ PostFails \/ HandlerDies
  BY <1>4, EndsKeeps
<1>5. CASE WarningIsFresh \/ SetWarningCooldown
  BY <1>5, WarningKeeps
<1>6. CASE PostAccepted \/ PostTimesOut
  BY <1>6, PostKeeps
<1>7. CASE Record \/ RecordTorn
  BY <1>7, RecordKeeps
<1>8. CASE EnsureRateTtl \/ EnsureBurstTtl \/ Log
  BY <1>8, RecordedKeeps
<1>9. CASE AlertTick
  BY <1>9, TickKeeps
<1> QED
  BY <1>1, <1>2, <1>3, <1>4, <1>5, <1>6, <1>7, <1>8, <1>9 DEF AlertNext, Handle, Fault

-----------------------------------------------------------------------------
(* The theorems. *)

\* What a gate of the alerter has found is true until the delivery is recorded,
\* and what Telegram accepted beyond the first message has cost a fault.
THEOREM AlertInvariant == AlertSpec => []AlertIInv
<1>1. AlertInit => AlertIInv
  BY InitAlert
<1>2. AlertIInv /\ [AlertNext]_alertVars => AlertIInv'
  BY AlertStep
<1> QED
  BY <1>1, <1>2, PTL DEF AlertSpec

\* The hourly counter never passes its limit, no message is sent twice without a
\* fault, and what the log reports was accepted.
THEOREM AlertsAreSafe == AlertSpec => []AlertSafe
<1>1. AlertIInv => AlertSafe
  <2> SUFFICES ASSUME AlertIInv PROVE AlertSafe
    OBVIOUS
  <2>1. \A m \in Signals \cup Warnings : accepted[m] \in Nat
    BY DEF AlertIInv, AlertTypeOK
  <2>2. faults \in Nat
    BY DEF AlertIInv, AlertTypeOK
  <2>3. OneMessagePerFault
    BY <2>1, <2>2 DEF AlertIInv, EachCostsAFault, OneMessagePerFault
  <2> QED
    BY <2>3 DEF AlertIInv, AlertSafe
<1> QED
  BY <1>1, AlertInvariant, PTL

\* Alerts come no faster than the gate allows, although the gate reads its
\* counters and cooldowns many steps before record_delivery writes them.
THEOREM AlertsKeepPace == AlertSpec => AlertPace
<1>1. AlertIInv /\ [AlertNext]_alertVars
        => [burst'.n > burst.n /\ burst'.n > BurstLimit
              => item.kind = "CRITICAL"]_alertVars
  <2> SUFFICES ASSUME AlertIInv, AlertNext, burst'.n > burst.n, burst'.n > BurstLimit
               PROVE  item.kind = "CRITICAL"
    OBVIOUS
  <2> USE AlertAssumption
  <2>t. burst \in Counters(BurstTtl) /\ rate \in Counters(RateTtl) /\ ItemFitsStep
        /\ GatesStillHold
    BY DEF AlertIInv, AlertTypeOK
  <2>1. /\ Incremented(burst).n = burst.n + 1 /\ AgedCounter(burst).n \in {0, burst.n}
        /\ Limited(burst, BurstTtl).n = burst.n /\ burst.n \in Nat
    BY <2>t, CounterClosed
  <2>2. step = "record" /\ burst' = Incremented(burst)
    <3>1. CASE ReceiveAny \/ PassGate \/ BlockAtGate \/ WarningIsFresh \/ WarningIsBlocked
      BY <2>1, <3>1 DEF ReceiveAny, Receive, PassGate, BlockAtGate, WarningIsFresh,
         WarningIsBlocked, alertKeys
    <3>2. CASE SetWarningCooldown \/ PostAccepted \/ PostRefused \/ PostFails
               \/ PostTimesOut \/ HandlerDies
      BY <2>1, <3>2 DEF SetWarningCooldown, PostAccepted, PostRefused, PostFails,
         PostTimesOut, HandlerDies, alertKeys
    <3>3. CASE EnsureRateTtl \/ EnsureBurstTtl \/ Log \/ AlertTick
      BY <2>1, <3>3 DEF EnsureRateTtl, EnsureBurstTtl, Log, AlertTick
    <3>4. CASE Record \/ RecordTorn
      BY <2>1, <3>4 DEF Record, RecordTorn, FirstCommands
    <3> QED
      BY <3>1, <3>2, <3>3, <3>4 DEF AlertNext, Handle, Fault
  <2>3. item \in Signals
    BY <2>t, <2>2 DEF ItemFitsStep
  <2> QED
    BY <2>t, <2>1, <2>2, <2>3 DEF GatesStillHold
<1>2. AlertIInv /\ [AlertNext]_alertVars
        => [/\ rate'.n > rate.n => alertCooldown[item.symbol] = 0
            /\ step = "setex" /\ step' = "post" => warned[item.symbol] = 0]_alertVars
  <2> SUFFICES ASSUME AlertIInv, AlertNext
               PROVE  /\ rate'.n > rate.n => alertCooldown[item.symbol] = 0
                      /\ step = "setex" => warned[item.symbol] = 0
    OBVIOUS
  <2> USE AlertAssumption
  <2>t. burst \in Counters(BurstTtl) /\ rate \in Counters(RateTtl) /\ ItemFitsStep
        /\ GatesStillHold
    BY DEF AlertIInv, AlertTypeOK
  <2>1. /\ Incremented(rate).n = rate.n + 1 /\ AgedCounter(rate).n \in {0, rate.n}
        /\ Limited(rate, RateTtl).n = rate.n /\ rate.n \in Nat
    BY <2>t, CounterClosed
  <2>2. ASSUME rate'.n > rate.n
        PROVE  step = "record"
    <3>1. CASE ReceiveAny \/ PassGate \/ BlockAtGate \/ WarningIsFresh \/ WarningIsBlocked
      BY <2>1, <2>2, <3>1 DEF ReceiveAny, Receive, PassGate, BlockAtGate, WarningIsFresh,
         WarningIsBlocked, alertKeys
    <3>2. CASE SetWarningCooldown \/ PostAccepted \/ PostRefused \/ PostFails
               \/ PostTimesOut \/ HandlerDies
      BY <2>1, <2>2, <3>2 DEF SetWarningCooldown, PostAccepted, PostRefused, PostFails,
         PostTimesOut, HandlerDies, alertKeys
    <3>3. CASE EnsureRateTtl \/ EnsureBurstTtl \/ Log \/ AlertTick
      BY <2>1, <2>2, <3>3 DEF EnsureRateTtl, EnsureBurstTtl, Log, AlertTick
    <3>4. CASE Record \/ RecordTorn
      BY <3>4 DEF Record, RecordTorn
    <3> QED
      BY <3>1, <3>2, <3>3, <3>4 DEF AlertNext, Handle, Fault
  <2>3. step = "record" => alertCooldown[item.symbol] = 0
    BY <2>t DEF ItemFitsStep, GatesStillHold
  <2>4. step = "setex" => warned[item.symbol] = 0
    BY DEF AlertIInv, WarningStaysFresh
  <2> QED
    BY <2>2, <2>3, <2>4
<1>3. AlertSpec => BurstOnlyCritical
  BY <1>1, AlertInvariant, PTL DEF AlertSpec, BurstOnlyCritical
<1>4. AlertSpec => SpacedPerSymbol
  BY <1>2, AlertInvariant, PTL DEF AlertSpec, SpacedPerSymbol
<1> QED
  BY <1>3, <1>4 DEF AlertPace

-----------------------------------------------------------------------------
(* The hour: sums of what was counted at each age. *)

Ages == 0..(RateTtl - 1)

LEMMA FiniteAges ==
  /\ IsFiniteSet(Ages) /\ 0 \in Ages /\ RateTtl - 1 \in Ages /\ RateTtl \in Int
  /\ \A W \in SUBSET Ages : IsFiniteSet(W)
<1>1. RateTtl \in Int /\ RateTtl - 1 \in Int /\ RateTtl - 1 >= 0
  BY AlertAssumption
<1>2. IsFiniteSet(Ages)
  BY <1>1, FS_Interval DEF Ages
<1>3. \A W \in SUBSET Ages : IsFiniteSet(W)
  BY <1>2, FS_Subset
<1> QED
  BY <1>1, <1>2, <1>3 DEF Ages

LEMMA CountsAreSums ==
  ASSUME NEW f \in [Ages -> Nat], NEW W \in SUBSET Ages
  PROVE  MapThenSumSet(LAMBDA a : f[a], W) = SumOf(f, W) /\ SumOf(f, W) \in Nat
<1> DEFINE Body(it) == [u \in SUBSET W |-> IF u = {} THEN 0
                          ELSE f[CHOOSE m \in u : TRUE] + it[u \ {CHOOSE m \in u : TRUE}]]
           iter == CHOOSE it : it = Body(it)
<1>1. MapThenSumSet(LAMBDA a : f[a], W) = iter[W]
  BY DEF MapThenSumSet, MapThenFoldSet
<1>2. f \in [Ages -> Int] /\ W \in SUBSET W /\ IsFiniteSet(W)
  BY FiniteAges
<1>3. \A it : IsSum(it, f, W) <=> it = Body(it)
  BY DEF IsSum, Pick
<1> HIDE DEF Body
<1>4. \E it : it = Body(it)
  BY <1>2, <1>3, SumExists
<1>5. IsSum(iter, f, W)
  BY <1>3, <1>4
<1> HIDE DEF iter
<1>6. iter[W] = SumOf(f, W)
  BY <1>2, <1>5, SumOfSubset
<1>7. SumOf(f, W) \in Nat
  BY <1>2, SumNatural
<1> QED
  BY <1>1, <1>6, <1>7

\* The delivery that is recorded now is counted wherever the present is.
LEMMA SumOfOneMore ==
  ASSUME NEW f \in [Ages -> Nat], NEW g \in [Ages -> Nat],
         g[0] = f[0] + 1, \A a \in Ages \ {0} : g[a] = f[a], NEW W \in SUBSET Ages
  PROVE  /\ 0 \in W => SumOf(g, W) = SumOf(f, W) + 1
         /\ 0 \notin W => SumOf(g, W) = SumOf(f, W)
<1> DEFINE R == W \ {0}
<1>1. /\ f \in [Ages -> Int] /\ g \in [Ages -> Int] /\ IsFiniteSet(W) /\ 0 \in Ages
      /\ R \in SUBSET W /\ R \in SUBSET Ages /\ IsFiniteSet(R)
      /\ f \in [Ages -> Nat] /\ W \in SUBSET Ages
  BY FiniteAges
<1>2. \A a \in R : f[a] = g[a]
  BY <1>1
<1>3. SumOf(f, R) = SumOf(g, R) /\ SumOf(f, R) \in Nat
  <2> HIDE DEF R
  <2>1. R \in SUBSET (Ages \cap Ages)
    BY <1>1
  <2>2. SumOf(f, R) = SumOf(g, R)
    BY <1>1, <1>2, <2>1, SumSame
  <2>3. SumOf(f, R) \in Nat
    BY <1>1, SumNatural
  <2> QED
    BY <2>2, <2>3
<1>4. CASE 0 \in W
  <2>1. SumOf(f, W) = f[0] + SumOf(f, R) /\ SumOf(g, W) = g[0] + SumOf(g, R)
    <3>1. \A x \in W : SumOf(f, W) = f[x] + SumOf(f, W \ {x})
      BY <1>1, SumFacts
    <3>2. \A x \in W : SumOf(g, W) = g[x] + SumOf(g, W \ {x})
      BY <1>1, SumFacts
    <3> QED
      BY <1>4, <3>1, <3>2
  <2> QED
    BY <1>1, <1>3, <1>4, <2>1
<1>5. CASE 0 \notin W
  <2>1. R = W
    BY <1>5
  <2> QED
    BY <1>3, <1>5, <2>1
<1> QED
  BY <1>4, <1>5

LEMMA SumOfAges ==
  ASSUME NEW f \in [Ages -> Int], NEW S \in SUBSET Ages
  PROVE  \A x \in S : SumOf(f, S) = f[x] + SumOf(f, S \ {x})
<1>1. IsFiniteSet(S)
  BY FiniteAges
<1> QED
  BY <1>1, SumFacts

LEMMA SumOfLonger ==
  ASSUME NEW h \in [Ages -> Nat], NEW k \in Ages
  PROVE  SumOf(h, 0..k) = h[k] + SumOf(h, 0..(k - 1))
<1> DEFINE S == 0..k
<1>1. k \in Nat /\ S \in SUBSET Ages /\ S \ {k} = 0..(k - 1) /\ k \in S
  BY AlertAssumption DEF Ages
<1>2. h \in [Ages -> Int]
  OBVIOUS
<1> HIDE DEF S
<1>3. \A x \in S : SumOf(h, S) = h[x] + SumOf(h, S \ {x})
  BY <1>1, <1>2, SumOfAges
<1>4. SumOf(h, S) = h[k] + SumOf(h, 0..(k - 1))
  BY <1>1, <1>3
<1> QED
  BY <1>4 DEF S

\* What was counted grows older: the first ages hold what the ages before held.
LEMMA SumOfOlder ==
  ASSUME NEW f \in [Ages -> Nat], NEW g \in [Ages -> Nat],
         \A a \in Ages : g[a] = IF a = 0 THEN 0 ELSE f[a - 1]
  PROVE  \A m \in Ages : SumOf(g, 0..m) = SumOf(f, 0..(m - 1))
<1> DEFINE Bad == {m \in Ages : SumOf(g, 0..m) # SumOf(f, 0..(m - 1))}
<1> SUFFICES ASSUME Bad # {} PROVE FALSE
  OBVIOUS
<1>0. Bad \in SUBSET Nat
  BY AlertAssumption DEF Ages
<1>1. PICK m \in Bad : \A y \in Bad : m <= y
  <2> HIDE DEF Bad
  <2> QED
    BY <1>0, LeastNatural
<1>2. m \in Ages /\ m \in Nat /\ SumOf(g, 0..m) # SumOf(f, 0..(m - 1))
  BY <1>0, <1>1
<1>3. /\ 0..m \in SUBSET Ages /\ (0..m) \ {m} = 0..(m - 1) /\ m \in 0..m
      /\ 0..(m - 1) \in SUBSET Ages
  <2>1. RateTtl \in Nat /\ m \in 0..(RateTtl - 1)
    BY <1>2, AlertAssumption DEF Ages
  <2>2. (0..m) \ {m} = 0..(m - 1) /\ m \in 0..m
    BY <1>2
  <2>3. 0..m \subseteq 0..(RateTtl - 1) /\ 0..(m - 1) \subseteq 0..(RateTtl - 1)
    BY <2>1
  <2> QED
    BY <2>2, <2>3 DEF Ages
<1>4. SumOf(g, 0..m) = g[m] + SumOf(g, 0..(m - 1))
  BY <1>2, SumOfLonger
<1>5. CASE m = 0
  <2>1. 0..(m - 1) = {} /\ g[m] = 0
    BY <1>2, <1>5
  <2>2. SumOf(g, {}) = 0 /\ SumOf(f, {}) = 0
    <3>1. f \in [Ages -> Int] /\ g \in [Ages -> Int] /\ {} \in SUBSET Ages /\ IsFiniteSet({})
      BY FiniteAges
    <3> QED
      BY <3>1, SumFacts
  <2> QED
    BY <1>2, <1>4, <2>1, <2>2
<1>6. CASE m # 0
  <2> DEFINE l == m - 1
  <2>1. l \in Ages /\ l \notin Bad /\ g[m] = f[l]
    BY <1>1, <1>2, <1>6, AlertAssumption DEF Ages
  <2>2. SumOf(g, 0..l) = SumOf(f, 0..(l - 1))
    BY <2>1
  <2>4. SumOf(f, 0..l) = f[l] + SumOf(f, 0..(l - 1))
    BY SumOfLonger, <2>1
  <2> QED
    BY <1>2, <1>4, <2>1, <2>2, <2>4
<1> QED
  BY <1>5, <1>6

LEMMA AgeOfExpiry ==
  ASSUME NEW l \in 2..RateTtl
  PROVE  /\ RateTtl - l \in Ages /\ RateTtl - (l - 1) - 1 = RateTtl - l
         /\ RateTtl - l - 1 = (RateTtl - l) - 1
  BY AlertAssumption DEF Ages

LEMMA HourParts ==
  ASSUME AlertTypeOK
  PROVE  /\ rate.n \in Nat /\ rate.life \in Life(RateTtl) /\ counted \in [Ages -> Nat]
         /\ CountedIn(DOMAIN counted) = SumOf(counted, Ages)
         /\ rate.life > 0 =>
              /\ 0..(RateTtl - rate.life - 1) \in SUBSET Ages
              /\ CountedIn(0..(RateTtl - rate.life - 1))
                   = SumOf(counted, 0..(RateTtl - rate.life - 1))
<1>1. rate.n \in Nat /\ rate.life \in Life(RateTtl) /\ counted \in [Ages -> Nat]
  BY DEF AlertTypeOK, Counters, Ages
<1>2. ASSUME NEW W \in SUBSET Ages
      PROVE  CountedIn(W) = SumOf(counted, W)
  BY <1>1, CountsAreSums DEF CountedIn
<1>3. rate.life > 0 => 0..(RateTtl - rate.life - 1) \in SUBSET Ages
  BY <1>1, AlertAssumption DEF Life, NoExpiry, Ages
<1> QED
  BY <1>1, <1>2, <1>3

\* The same of the state after a step.
LEMMA HourPartsNext ==
  ASSUME AlertTypeOK'
  PROVE  /\ rate'.n \in Nat /\ rate'.life \in Life(RateTtl) /\ counted' \in [Ages -> Nat]
         /\ CountedIn(DOMAIN counted)' = SumOf(counted', Ages)
         /\ rate'.life > 0 =>
              /\ 0..(RateTtl - rate'.life - 1) \in SUBSET Ages
              /\ CountedIn(0..(RateTtl - rate.life - 1))'
                   = SumOf(counted', 0..(RateTtl - rate'.life - 1))
<1>1. rate'.n \in Nat /\ rate'.life \in Life(RateTtl) /\ counted' \in [Ages -> Nat]
  BY DEF AlertTypeOK, Counters, Ages
<1>2. ASSUME NEW W \in SUBSET Ages
      PROVE  MapThenSumSet(LAMBDA a : counted'[a], W) = SumOf(counted', W)
  <2> DEFINE f == counted'
  <2>1. f \in [Ages -> Nat]
    BY <1>1
  <2>2. MapThenSumSet(LAMBDA a : f[a], W) = SumOf(f, W)
    <3> HIDE DEF f
    <3> QED
      BY <2>1, CountsAreSums
  <2> QED
    BY <2>2 DEF f, MapThenSumSet, MapThenFoldSet
<1>3. rate'.life > 0 => 0..(RateTtl - rate'.life - 1) \in SUBSET Ages
  BY <1>1, AlertAssumption DEF Life, NoExpiry, Ages
<1>4. CountedIn(DOMAIN counted)' = SumOf(counted', Ages)
  <2>1. DOMAIN counted' = Ages
    BY <1>1
  <2> QED
    BY <1>2, <2>1 DEF CountedIn, MapThenSumSet, MapThenFoldSet
<1>5. ASSUME rate'.life > 0
      PROVE  CountedIn(0..(RateTtl - rate.life - 1))'
               = SumOf(counted', 0..(RateTtl - rate'.life - 1))
  BY <1>2, <1>3, <1>5 DEF CountedIn, MapThenSumSet, MapThenFoldSet
<1> QED
  BY <1>1, <1>3, <1>4, <1>5

LEMMA HourInit == AlertInit => HourIInv
<1> SUFFICES ASSUME AlertInit PROVE HourIInv
  OBVIOUS
<1>1. AlertTypeOK
  BY InitAlert DEF AlertIInv
<1>2. rate.n = 0 /\ rate.life = 0 /\ counted = [a \in Ages |-> 0]
  BY DEF AlertInit, NoCounter, Absent, Ages
<1>3. counted \in [Ages -> Nat] /\ counted \in [Ages -> Int] /\ IsFiniteSet(Ages)
  BY <1>2, FS_Interval, AlertAssumption DEF Ages
<1>4. SumOf(counted, Ages) = 0
  <2>1. \A s \in SUBSET Ages : IsFiniteSet(s)
    BY <1>3, FS_Subset
  <2> DEFINE Good == {s \in SUBSET Ages : SumOf(counted, s) = 0}
  <2>2. {} \in Good
    BY <1>3, <2>1, SumFacts
  <2>3. ASSUME NEW s \in SUBSET Ages, s # {}, \A x \in s : s \ {x} \in Good
        PROVE  s \in Good
    <3>1. PICK x \in s : TRUE
      BY <2>3
    <3>2. SumOf(counted, s) = counted[x] + SumOf(counted, s \ {x})
      BY <1>3, <2>1, SumFacts
    <3>3. counted[x] = 0 /\ SumOf(counted, s \ {x}) = 0
      BY <1>2, <2>3
    <3> QED
      BY <3>2, <3>3
  <2>4. Good \in SUBSET (SUBSET Ages)
    OBVIOUS
  <2> HIDE DEF Good
  <2>5. Ages \in Good
    BY <1>3, <2>2, <2>3, <2>4, SubsetInduction
  <2> QED
    BY <2>5 DEF Good
<1> QED
  BY <1>1, <1>2, <1>4, HourParts, AlertAssumption
     DEF HourIInv, CounterHasBegun, LittleIsForgotten, FirstIsEarlier, Absent

\* A delivery is counted twice, in the counter and in the history.
LEMMA CountKeepsHour ==
  ASSUME AlertTypeOK, AlertTypeOK', HourIInv, rate' = Incremented(rate),
         counted' = [counted EXCEPT ![0] = @ + 1]
  PROVE  HourIInv'
<1> USE AlertAssumption
<1>0. counted'[0] = counted[0] + 1 /\ \A a \in Ages \ {0} : counted'[a] = counted[a]
  BY HourParts, FiniteAges
<1>1. /\ rate'.n = rate.n + 1 /\ rate'.life = Touched(rate.life)
      /\ rate'.life > 0 => rate'.life = rate.life
      /\ rate'.life # Absent
  BY HourParts DEF Incremented, Touched, Life, Absent, NoExpiry
<1>2. /\ SumOf(counted', Ages) = SumOf(counted, Ages) + 1
      /\ SumOf(counted, Ages) \in Nat
  <2>1. 0 \in Ages /\ counted \in [Ages -> Nat] /\ counted' \in [Ages -> Nat]
    BY HourParts, HourPartsNext DEF Ages
  <2>2. SumOf(counted, Ages) \in Nat
    BY <2>1, CountsAreSums
  <2>3. SumOf(counted', Ages) = SumOf(counted, Ages) + 1
    <3> DEFINE f == counted
               g == counted'
    <3>1. /\ f \in [Ages -> Nat] /\ g \in [Ages -> Nat] /\ g[0] = f[0] + 1
          /\ \A a \in Ages \ {0} : g[a] = f[a]
      BY <1>0, <2>1
    <3>2. Ages \in SUBSET Ages /\ 0 \in Ages
      BY <2>1
    <3> HIDE DEF f, g
    <3>3. SumOf(g, Ages) = SumOf(f, Ages) + 1
      BY <3>1, <3>2, SumOfOneMore
    <3> QED
      BY <3>3 DEF f, g
  <2> QED
    BY <2>2, <2>3
<1>3. ASSUME rate'.life > 0
      PROVE  SumOf(counted', 0..(RateTtl - rate'.life - 1)) < rate'.n
  <2> DEFINE W == 0..(RateTtl - rate.life - 1)
  <2>1. /\ W \in SUBSET Ages /\ counted \in [Ages -> Nat] /\ counted' \in [Ages -> Nat]
        /\ SumOf(counted, W) < rate.n /\ rate.n \in Nat /\ rate'.life = rate.life
    BY <1>1, <1>3, HourParts, HourPartsNext DEF HourIInv, FirstIsEarlier
  <2> HIDE DEF W
  <2>2. SumOf(counted', W) \in {SumOf(counted, W), SumOf(counted, W) + 1}
        /\ SumOf(counted, W) \in Nat
    <3> DEFINE f == counted
               g == counted'
    <3>1. /\ f \in [Ages -> Nat] /\ g \in [Ages -> Nat] /\ g[0] = f[0] + 1
          /\ \A a \in Ages \ {0} : g[a] = f[a]
      BY <1>0, <2>1
    <3>2. SumOf(g, W) \in {SumOf(f, W), SumOf(f, W) + 1} /\ SumOf(f, W) \in Nat
      <4>1. W \in SUBSET Ages
        BY <2>1
      <4> HIDE DEF f, g
      <4>2. SumOf(f, W) \in Nat
        BY <3>1, <4>1, CountsAreSums
      <4>3. /\ 0 \in W => SumOf(g, W) = SumOf(f, W) + 1
            /\ 0 \notin W => SumOf(g, W) = SumOf(f, W)
        BY <3>1, <4>1, SumOfOneMore
      <4> QED
        BY <4>2, <4>3
    <3> QED
      BY <3>2
  <2>3. SumOf(counted', W) < rate'.n
    BY <1>1, <2>1, <2>2
  <2> QED
    BY <2>1, <2>3 DEF W
<1>4. CounterHasBegun'
  BY <1>1, HourParts DEF CounterHasBegun
<1>5. LittleIsForgotten'
  BY <1>1, <1>2, HourParts, HourPartsNext DEF HourIInv, LittleIsForgotten
<1>6. FirstIsEarlier'
  BY <1>3, HourPartsNext DEF FirstIsEarlier
<1> QED
  BY <1>4, <1>5, <1>6 DEF HourIInv

\* The expiry is set after the first delivery: nothing is younger than it yet.
LEMMA LimitKeepsHour ==
  ASSUME AlertTypeOK, AlertTypeOK', HourIInv, rate' = Limited(rate, RateTtl),
         counted' = counted
  PROVE  HourIInv'
<1> USE AlertAssumption
<1>1. /\ rate'.n = rate.n
      /\ \/ rate'.life = rate.life
         \/ rate.life = NoExpiry /\ rate'.life = RateTtl
  BY HourParts DEF Limited, AlertTypeOK, Counters
<1>2. CounterHasBegun'
  BY <1>1 DEF HourIInv, CounterHasBegun, Absent, NoExpiry
<1>3. LittleIsForgotten'
  BY <1>1, HourParts, HourPartsNext DEF HourIInv, LittleIsForgotten
<1>4. FirstIsEarlier'
  <2>1. CASE rate'.life = rate.life
    BY <1>1, <2>1, HourParts, HourPartsNext DEF HourIInv, FirstIsEarlier
  <2>2. CASE rate.life = NoExpiry /\ rate'.life = RateTtl
    <3>1. 0..(RateTtl - rate'.life - 1) = {}
      BY <2>2
    <3>2. SumOf(counted', {}) = 0
      <4>1. counted' \in [Ages -> Int] /\ {} \in SUBSET Ages /\ IsFiniteSet({})
        BY HourPartsNext, FS_EmptySet
      <4> QED
        BY <4>1, SumFacts
    <3>3. rate'.n > 0
      BY <1>1, <2>2, HourParts DEF HourIInv, CounterHasBegun, NoExpiry, Absent
    <3> QED
      BY <3>1, <3>2, <3>3, HourPartsNext DEF FirstIsEarlier
  <2> QED
    BY <1>1, <2>1, <2>2
<1> QED
  BY <1>2, <1>3, <1>4 DEF HourIInv

\* When a counter dies, its first delivery is an hour old, and everything before it.
LEMMA TickKeepsHour ==
  ASSUME AlertTypeOK, AlertTypeOK', HourIInv, RateBounded, rate' = AgedCounter(rate),
         counted' = [a \in Ages |-> IF a = 0 THEN 0 ELSE counted[a - 1]]
  PROVE  HourIInv'
<1> USE AlertAssumption
<1>t. /\ rate.n \in Nat /\ rate.life \in Life(RateTtl) /\ counted \in [Ages -> Nat]
      /\ counted' \in [Ages -> Nat]
      /\ CountedIn(DOMAIN counted) = SumOf(counted, Ages)
      /\ CountedIn(DOMAIN counted)' = SumOf(counted', Ages)
  BY HourParts, HourPartsNext
<1>1. ASSUME NEW m \in Ages
      PROVE  SumOf(counted', 0..m) = SumOf(counted, 0..(m - 1))
  BY <1>t, SumOfOlder
<1>2. /\ SumOf(counted', Ages) = SumOf(counted, 0..(RateTtl - 2))
      /\ SumOf(counted', Ages) \in Nat /\ SumOf(counted, Ages) \in Nat
      /\ SumOf(counted', Ages) <= SumOf(counted, Ages)
  <2>1. RateTtl - 1 \in Ages /\ 0..(RateTtl - 2) \in SUBSET Ages /\ IsFiniteSet(Ages)
    BY FS_Interval DEF Ages
  <2>2. SumOf(counted', Ages) = SumOf(counted, 0..((RateTtl - 1) - 1))
    BY <1>1, <2>1 DEF Ages
  <2>3. 0..((RateTtl - 1) - 1) = 0..(RateTtl - 2)
    OBVIOUS
  <2>4. SumOf(counted', Ages) = SumOf(counted, 0..(RateTtl - 2))
    BY <2>2, <2>3
  <2> QED
    BY <1>t, <2>1, <2>4, SumOfPart
<1>3. CASE rate.life = Absent
  <2>1. rate'.n = 0 /\ rate'.life = 0 /\ rate.n = 0
    BY <1>3 DEF HourIInv, CounterHasBegun, AgedCounter, Aged, NoCounter, Absent
  <2> QED
    BY <1>t, <1>2, <2>1 DEF HourIInv, CounterHasBegun, LittleIsForgotten,
       FirstIsEarlier, Absent
<1>4. CASE rate.life = NoExpiry
  <2>1. rate'.n = rate.n /\ rate'.life = rate.life
    BY <1>4 DEF AgedCounter, Aged, Absent, NoExpiry
  <2> QED
    BY <1>t, <1>2, <1>4, <2>1 DEF HourIInv, CounterHasBegun, LittleIsForgotten,
       FirstIsEarlier, NoExpiry
<1>5. CASE rate.life = 1
  <2>1. rate'.n = 0 /\ rate'.life = 0
    BY <1>5 DEF AgedCounter, Aged, NoCounter, Absent
  <2>2. SumOf(counted, 0..(RateTtl - 2)) < rate.n
    <3>1. 0..(RateTtl - rate.life - 1) = 0..(RateTtl - 2)
      BY <1>5
    <3> QED
      BY <1>5, <3>1, HourParts DEF HourIInv, FirstIsEarlier
  <2>3. rate.n <= RateLimit
    BY DEF RateBounded
  <2> QED
    BY <1>t, <1>2, <2>1, <2>2, <2>3 DEF HourIInv, CounterHasBegun, LittleIsForgotten,
       FirstIsEarlier, Absent
<1>6. CASE rate.life > 1
  <2>1. rate'.n = rate.n /\ rate'.life = rate.life - 1 /\ rate'.life > 0
    BY <1>t, <1>6 DEF AgedCounter, Aged, Absent, Life, NoExpiry
  <2>2. SumOf(counted', 0..(RateTtl - rate'.life - 1)) < rate'.n
    <3> DEFINE m == RateTtl - rate.life
    <3>1. m \in Ages /\ RateTtl - rate'.life - 1 = m /\ RateTtl - rate.life - 1 = m - 1
      <4>1. rate.life \in 2..RateTtl /\ RateTtl \in Int
        BY <1>t, <1>6, FiniteAges DEF Life, NoExpiry
      <4> QED
        BY <2>1, <4>1, AgeOfExpiry
    <3>2. SumOf(counted, 0..(m - 1)) < rate.n
      <4>1. rate.life > 0
        BY <1>t, <1>6 DEF Life, NoExpiry
      <4>2. SumOf(counted, 0..(RateTtl - rate.life - 1)) < rate.n
        BY <4>1, HourParts DEF HourIInv, FirstIsEarlier
      <4> QED
        BY <3>1, <4>2
    <3> QED
      BY <1>1, <2>1, <3>1, <3>2
  <2>3. FirstIsEarlier'
    BY <2>1, <2>2, HourPartsNext DEF FirstIsEarlier
  <2>4. LittleIsForgotten'
    BY <1>t, <1>2, <2>1 DEF HourIInv, LittleIsForgotten
  <2>5. CounterHasBegun'
    BY <1>t, <1>6, <2>1 DEF HourIInv, CounterHasBegun, Absent
  <2> QED
    BY <2>3, <2>4, <2>5 DEF HourIInv
<1> QED
  BY <1>t, <1>3, <1>4, <1>5, <1>6 DEF Life, Absent, NoExpiry

LEMMA HourStep ==
  AlertIInv /\ AlertIInv' /\ HourIInv /\ [AlertNext]_alertVars => HourIInv'
<1> SUFFICES ASSUME AlertIInv, AlertIInv', HourIInv, [AlertNext]_alertVars
             PROVE  HourIInv'
  OBVIOUS
<1>t. AlertTypeOK /\ AlertTypeOK' /\ RateBounded
  BY DEF AlertIInv
<1>0. ASSUME rate' = rate, counted' = counted
      PROVE  HourIInv'
  BY <1>t, <1>0, HourParts, HourPartsNext
     DEF HourIInv, CounterHasBegun, LittleIsForgotten, FirstIsEarlier
<1>1. CASE UNCHANGED alertVars
  BY <1>0, <1>1 DEF alertVars, alertKeys, alertHistory
<1>2. CASE ReceiveAny \/ PassGate \/ BlockAtGate \/ WarningIsFresh \/ WarningIsBlocked
  BY <1>0, <1>2 DEF ReceiveAny, Receive, PassGate, BlockAtGate, WarningIsFresh,
     WarningIsBlocked, alertKeys, alertHistory
<1>3. CASE SetWarningCooldown \/ PostAccepted \/ PostRefused \/ PostFails
           \/ PostTimesOut \/ HandlerDies
  BY <1>0, <1>3 DEF SetWarningCooldown, PostAccepted, PostRefused, PostFails,
     PostTimesOut, HandlerDies, alertKeys, alertHistory
<1>4. CASE EnsureBurstTtl \/ Log
  BY <1>0, <1>4 DEF EnsureBurstTtl, Log, alertHistory
<1>5. CASE Record \/ RecordTorn
  <2>1. PICK n \in 0..4 : FirstCommands(n)
    BY <1>5 DEF Record, RecordTorn
  <2>2. CASE n >= 2
    BY <1>t, <2>1, <2>2, CountKeepsHour DEF FirstCommands
  <2>3. CASE ~(n >= 2)
    BY <1>0, <2>1, <2>3 DEF FirstCommands
  <2> QED
    BY <2>2, <2>3
<1>6. CASE EnsureRateTtl
  BY <1>t, <1>6, LimitKeepsHour DEF EnsureRateTtl, alertHistory
<1>7. CASE AlertTick
  BY <1>t, <1>7, TickKeepsHour DEF AlertTick, Ages
<1> QED
  BY <1>1, <1>2, <1>3, <1>4, <1>5, <1>6, <1>7 DEF AlertNext, Handle, Fault

\* No hour holds as many deliveries as two counters may count: when the counter of
\* one hour expires, its first delivery is already an hour old.
THEOREM HourIsBounded == AlertSpec => []HourBounded
<1>1. AlertIInv /\ HourIInv => HourBounded
  <2> SUFFICES ASSUME AlertIInv, HourIInv PROVE HourBounded
    OBVIOUS
  <2>1. /\ AlertTypeOK /\ rate.n <= RateLimit
        /\ CountedIn(DOMAIN counted) < rate.n + RateLimit
    BY DEF AlertIInv, HourIInv, LittleIsForgotten, RateBounded
  <2>2. rate.n \in Nat /\ CountedIn(DOMAIN counted) \in Nat /\ RateLimit \in Nat
    BY <2>1, HourParts, CountsAreSums, AlertAssumption
  <2> QED
    BY <2>1, <2>2 DEF HourBounded
<1> QED
  BY <1>1, HourInit, HourStep, AlertInvariant, PTL DEF AlertSpec
=============================================================================
