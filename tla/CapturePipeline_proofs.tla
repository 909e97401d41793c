------------------------ MODULE CapturePipeline_proofs ------------------------
(***************************************************************************)
(* Proofs about CapturePipeline for every number of rows, batch size, set  *)
(* of odd rows and bound: no message is skipped, only captured messages    *)
(* are archived, and the archive is write-once.                            *)
(***************************************************************************)
EXTENDS CapturePipeline, TLAPS, WellFoundedInduction, FiniteSetTheorems

Captured(r) == r \in Normal /\ r <= chat

(* What holds besides the properties and makes them inductive: where the   *)
(* checkpoint can be, when a request is out and that its messages are not  *)
(* waiting for a backoff to end, and that the queue and the abandoned      *)
(* requests hold messages of chat.db only.                                 *)
Bookkeeping ==
  /\ checkpoint <= reached /\ reached <= chat
  /\ post = "none" <=> sending = {}
  /\ \A o \in sending : o.ready
  /\ \A o \in outbound : Captured(o.row)
  /\ \A ms \in late : \A m \in ms : Captured(m[2])

(* A loss of power, now, would skip nothing: of what the database on disk  *)
(* has passed it has kept every message that is not archived or given up.  *)
OnDisk(r) == \E o \in disk.outbound : o.row = r

DiskIsWhole ==
  /\ disk.checkpoint <= disk.reached /\ disk.reached <= chat
  /\ \A o \in disk.outbound : Captured(o.row)
  /\ ~wiped => \A r \in Row \ Meta : r <= disk.reached => OnDisk(r) \/ Archived(r) \/ GaveUp(r)

IInv ==
  /\ TypeOK
  /\ Bookkeeping
  /\ AwaitedBatch
  /\ NothingSkipped
  /\ ArchiveIsCaptured

USE CaptureAssumption, PipelineAssumption DEF CaptureAssumption, PipelineAssumption

(* A message that failed is still the same message, with legal counters.   *)
LEMMA FailedType ==
  ASSUME NEW o \in Queued
  PROVE  /\ Failed(o) \in Queued /\ Failed(o).row = o.row
         /\ Failed(o).conv = o.conv /\ Failed(o).tick = o.tick
<1> DEFINE a == IF o.attempts < MaxAttempts THEN o.attempts + 1 ELSE o.attempts
<1>1. /\ o.attempts \in 0..MaxAttempts
      /\ o.tick \in Nat /\ o.row \in Row /\ o.conv \in Copy /\ o.form \in Form
  BY DEF Queued
<1>2. a \in 0..MaxAttempts
  BY <1>1
<1>3. Failed(o) = [tick |-> o.tick, row |-> o.row, conv |-> o.conv, form |-> o.form,
                   attempts |-> a, ready |-> FALSE]
  <2>1. Failed(o) = [o EXCEPT !.attempts = a, !.ready = FALSE]
    BY Zenon DEF Failed
  <2>2. o = [tick |-> o.tick, row |-> o.row, conv |-> o.conv, form |-> o.form,
             attempts |-> o.attempts, ready |-> o.ready]
    BY DEF Queued
  <2> HIDE DEF a
  <2>3. PICK t, r, c, f, x, z : o = [tick |-> t, row |-> r, conv |-> c, form |-> f,
                                     attempts |-> x, ready |-> z]
    BY <2>2
  <2> QED BY <2>1, <2>3
<1> HIDE DEF a
<1> QED BY <1>1, <1>2, <1>3 DEF Queued

(* The messages of a set of queued ones.                                   *)
LEMMA MessagesType ==
  ASSUME NEW S \in SUBSET Queued
  PROVE  /\ Messages(S) \subseteq Message
         /\ \A o \in S : <<o.tick, o.row, Version(o)>> \in Messages(S)
         /\ \A m \in Messages(S) : \E o \in S : m[2] = o.row
<1>1. ASSUME NEW o \in S PROVE Version(o) \in 1..MaxVersion
  <2>1. o.form \in 1..MaxForm /\ o.conv \in 1..2
    BY DEF Queued, Form, Copy
  <2> QED BY <2>1 DEF Version, MaxVersion
<1>2. \A o \in S : o.tick \in Nat /\ o.row \in Row
  BY DEF Queued
<1> HIDE DEF Version, MaxVersion
<1> QED BY <1>1, <1>2 DEF Messages, Message

(* Of the copies of a message in a request, one comes first.               *)
LEMMA FirstExists ==
  ASSUME NEW S \in SUBSET Message, S # {}
  PROVE  First(S) \in S
<1>1. \A m \in S : m[1] \in Nat /\ m[3] \in Nat
  BY DEF Message
<1> DEFINE T == {m[1] : m \in S}
<1>2. PICK t \in T : \A u \in T : ~(u < t)
  <2>1. T \subseteq Nat /\ T # {}
    BY <1>1
  <2>2. PICK t \in T : \A u \in T : <<u, t>> \notin OpToRel(<, Nat)
    BY <2>1, WFMin, NatLessThanWellFounded, Zenon
  <2> QED BY <2>1, <2>2, Zenon DEF OpToRel
<1> DEFINE V == {m[3] : m \in {n \in S : n[1] = t}}
<1>3. PICK v \in V : \A w \in V : ~(w < v)
  <2>1. V \subseteq Nat /\ V # {}
    BY <1>1, <1>2
  <2> HIDE DEF V, T
  <2>2. PICK v \in V : \A w \in V : <<w, v>> \notin OpToRel(<, Nat)
    BY <2>1, WFMin, NatLessThanWellFounded, Zenon
  <2> QED BY <2>1, <2>2, Zenon DEF OpToRel
<1>4. PICK m \in S : m[1] = t /\ m[3] = v
  BY <1>3
<1>5. ASSUME NEW n \in S PROVE ~Ahead(n, m)
  <2>1. ~(n[1] < t)
    BY <1>2
  <2>2. n[1] = t => ~(n[3] < v)
    BY <1>3
  <2> HIDE DEF T, V
  <2> QED BY <1>4, <2>1, <2>2 DEF Ahead
<1> HIDE DEF Ahead
<1> QED BY <1>4, <1>5 DEF First

(* The upsert stores what it is given, and changes only rows that had      *)
(* nothing.                                                                *)
LEMMA UpsertStores ==
  ASSUME NEW ms \in SUBSET Message, archive \in [Row -> 0..MaxVersion], Upsert(ms)
  PROVE  /\ archive' \in [Row -> 0..MaxVersion]
         /\ \A m \in ms : archive'[m[2]] # 0
         /\ \A r \in Row : archive[r] # 0 => archive'[r] = archive[r]
         /\ \A r \in Row : archive'[r] # archive[r] => archive[r] = 0 /\ \E m \in ms : m[2] = r
<1>1. ASSUME NEW r \in Row, Of(ms, r) # {}
      PROVE  /\ First(Of(ms, r))[3] \in 0..MaxVersion /\ First(Of(ms, r))[3] # 0
             /\ \E m \in ms : m[2] = r
  <2>1. Of(ms, r) \in SUBSET Message
    BY DEF Of
  <2>2. First(Of(ms, r)) \in Of(ms, r)
    BY <1>1, <2>1, FirstExists
  <2>3. \A m \in Message : m[3] \in 0..MaxVersion /\ m[3] # 0
    BY DEF Message, MaxVersion
  <2> HIDE DEF First
  <2> QED BY <2>1, <2>2, <2>3 DEF Of
<1>3. ASSUME NEW m \in ms PROVE m[2] \in Row /\ Of(ms, m[2]) # {}
  BY DEF Message, Of
<1>4. \A r \in Row : archive'[r] = IF archive[r] # 0 \/ Of(ms, r) = {} THEN archive[r]
                                   ELSE First(Of(ms, r))[3]
  BY DEF Upsert
<1> HIDE DEF Of, First
<1>5. archive' = [r \in Row |-> archive'[r]]
  BY <1>4 DEF Upsert
<1>6. ASSUME NEW r \in Row
      PROVE  archive'[r] \in 0..MaxVersion /\ (archive[r] # 0 => archive'[r] = archive[r])
  <2>1. CASE archive[r] # 0 \/ Of(ms, r) = {}
    BY <2>1, <1>4
  <2>2. CASE archive[r] = 0 /\ Of(ms, r) # {}
    BY <2>2, <1>1, <1>4
  <2> QED BY <2>1, <2>2
<1>7. ASSUME NEW m \in ms PROVE archive'[m[2]] # 0
  <2>1. m[2] \in Row /\ Of(ms, m[2]) # {}
    BY <1>3
  <2>2. CASE archive[m[2]] # 0
    BY <2>1, <2>2, <1>6
  <2>3. CASE archive[m[2]] = 0
    BY <2>1, <2>3, <1>1, <1>4
  <2> QED BY <2>2, <2>3
<1>8. ASSUME NEW r \in Row, archive'[r] # archive[r]
      PROVE  archive[r] = 0 /\ \E m \in ms : m[2] = r
  <2>1. archive[r] = 0 /\ Of(ms, r) # {}
    BY <1>8, <1>4
  <2> QED BY <2>1, <1>1
<1>9. archive' \in [Row -> 0..MaxVersion]
  BY <1>5, <1>6
<1> QED BY <1>6, <1>7, <1>8, <1>9

(* The initial state.                                                      *)
LEMMA InitIInv == Init => IInv
<1> SUFFICES ASSUME Init PROVE IInv
  OBVIOUS
<1> USE DEF Init, CaptureInit
<1>1. CaptureTypeOK
  <2>1. 0 \in 0..MaxRow /\ 0 \in 0..MaxFailures /\ 0 \in 0..MaxResyncs /\ 1 \in Form
    BY DEF Form
  <2> QED BY <2>1 DEF CaptureTypeOK
<1>2. TypeOK
  <2>1. disk = [checkpoint |-> 0, outbound |-> {}, ticks |-> 0, reached |-> 0]
    BY DEF Durable
  <2> QED BY <1>1, <2>1 DEF TypeOK, Row, MaxVersion
<1>3. \A r \in Row : r >= 1 /\ archive[r] = 0
  BY DEF Row
<1>4. Bookkeeping /\ AwaitedBatch
  BY DEF Bookkeeping, AwaitedBatch
<1>5. NothingSkipped /\ ArchiveIsCaptured
  BY <1>3 DEF NothingSkipped, ArchiveIsCaptured, Archived, Row
<1> QED BY <1>2, <1>4, <1>5 DEF IInv

(* What a tick reads: rows of chat.db the checkpoint has not passed.       *)
LEMMA FetchedType ==
  ASSUME NEW j \in Fetched
  PROVE  /\ j \in Row \X Copy /\ j = <<j[1], j[2]>> /\ j[1] \in Row
         /\ checkpoint < j[1] /\ j[1] <= chat
BY DEF Fetched, New, Joined, Copy

(* LIMIT cuts off nothing but rows behind the last one read and the second *)
(* copy of that one.                                                       *)
LEMMA NoneLeftOut ==
  ASSUME TypeOK, NEW last \in Fetched, NEW r \in Row, checkpoint < r, r <= last[1]
  PROVE  <<r, 1>> \in Fetched
<1>1. last \in New /\ last[1] \in Row /\ last[1] <= chat /\ chat \in Nat
  BY DEF Fetched, New, Joined, TypeOK, CaptureTypeOK
<1>2. <<r, 1>> \in New
  BY <1>1 DEF New, Joined, Row
<1>3. ASSUME NEW k \in Before(New, <<r, 1>>) PROVE k \in Before(New, last)
  <2>1. k \in New /\ Precedes(k, <<r, 1>>)
    BY DEF Before
  <2>2. k[1] \in Nat /\ k[2] \in {1, 2} /\ r \in Nat /\ last[1] \in Nat
    <3>1. k \in Row \X {1, 2}
      BY <2>1 DEF New, Joined
    <3> QED BY <1>1, <3>1 DEF Row
  <2>3. k[1] < r
    BY <2>1, <2>2 DEF Precedes
  <2> QED BY <2>1, <2>2, <2>3 DEF Precedes, Before
<1>4. IsFiniteSet(Before(New, last))
  <2>1. IsFiniteSet(Row) /\ IsFiniteSet(Copy)
    <3>1. 1 \in Int /\ 2 \in Int /\ MaxRow \in Int
      OBVIOUS
    <3> QED BY <3>1, FS_Interval DEF Row, Copy
  <2>2. IsFiniteSet(Row \X Copy)
    BY <2>1, FS_Product
  <2>3. Before(New, last) \in SUBSET (Row \X Copy)
    BY DEF Before, New, Joined, Copy
  <2> QED BY <2>2, <2>3, FS_Subset
<1>5. Cardinality(Before(New, <<r, 1>>)) <= Cardinality(Before(New, last))
  BY <1>3, <1>4, FS_Subset
<1>6. Cardinality(Before(New, <<r, 1>>)) \in Nat /\ Cardinality(Before(New, last)) \in Nat
  <2>1. Before(New, <<r, 1>>) \in SUBSET Before(New, last)
    BY <1>3
  <2>2. IsFiniteSet(Before(New, <<r, 1>>))
    BY <2>1, <1>4, FS_Subset
  <2> QED BY <1>4, <2>2, FS_CardinalityType
<1>7. Cardinality(Before(New, last)) < BatchSize
  BY DEF Fetched
<1> QED BY <1>2, <1>5, <1>6, <1>7 DEF Fetched

(* What enqueue() does to the queue: it grows by legal messages, one for   *)
(* every fetched row that is not a system row.                             *)
LEMMA EnqueueGrows ==
  ASSUME TypeOK, Bookkeeping, NEW rows \in SUBSET (Fetched \ Raising)
  PROVE  /\ outbound \subseteq Enqueue(rows) /\ Enqueue(rows) \subseteq Queued
         /\ \A o \in Enqueue(rows) : Captured(o.row)
         /\ \A j \in rows : j[1] \notin Meta => \E o \in Enqueue(rows) : o.row = j[1]
<1>1. Enqueue(rows) = outbound \cup {Fresh(j) : j \in {k \in rows : k[1] \notin Meta}}
  BY DEF Enqueue
<1>2. ASSUME NEW j \in rows, j[1] \notin Meta
      PROVE  Fresh(j) \in Queued /\ Fresh(j).row = j[1] /\ Captured(j[1])
  <2>1. j[1] \in Row /\ j[2] \in Copy /\ j[1] <= chat /\ j[1] \notin Poison
    BY FetchedType DEF Raising
  <2>2. ticks \in Nat /\ decoder \in Form /\ 0 \in 0..MaxAttempts
    BY DEF TypeOK, CaptureTypeOK
  <2> QED BY <1>2, <2>1, <2>2 DEF Fresh, Queued, Captured, Normal
<1> HIDE DEF Fresh
<1>3. outbound \subseteq Queued
  BY DEF TypeOK, CaptureTypeOK
<1> QED BY <1>1, <1>2, <1>3 DEF Bookkeeping

(* A wider queue loses no message and takes none from under the forwarder. *)
LEMMA WiderQueue ==
  ASSUME NothingSkipped, AwaitedBatch, outbound \subseteq outbound', sending' \subseteq sending,
         post' = post \/ post' = "none", archive' = archive, dropped' = dropped,
         reached' = reached, wiped' = wiped
  PROVE  NothingSkipped' /\ AwaitedBatch'
<1>1. NothingSkipped'
  BY DEF NothingSkipped, InQueue, Archived, GaveUp
<1>2. AwaitedBatch'
  BY DEF AwaitedBatch, Archived
<1> QED BY <1>1, <1>2

(* Giving up a request leaves the abandoned requests legal.                *)
LEMMA AbandonLate ==
  ASSUME TypeOK, Bookkeeping, AwaitedBatch, Abandon
  PROVE  late' \subseteq SUBSET Message /\ \A ms \in late' : \A m \in ms : Captured(m[2])
<1>1. sending \subseteq outbound /\ sending \subseteq Queued
  BY DEF AwaitedBatch, TypeOK, CaptureTypeOK
<1>2. /\ Messages(sending) \subseteq Message
      /\ \A m \in Messages(sending) : \E o \in sending : m[2] = o.row
  BY <1>1, MessagesType
<1>3. \A m \in Messages(sending) : Captured(m[2])
  BY <1>1, <1>2 DEF Bookkeeping
<1>4. late' \subseteq late \cup {Messages(sending)}
  BY DEF Abandon
<1> QED BY <1>2, <1>3, <1>4 DEF TypeOK, Bookkeeping
-----------------------------------------------------------------------------
(* The invariant is inductive: one lemma per family of steps.              *)

(* Ticks that queue rows without moving the checkpoint: one on a row that  *)
(* raises, and one that breaks off.                                        *)
LEMMA PartialTick ==
  ASSUME IInv, Local(TickRaises) \/ Local(TickFails) \/ Stop(TickCut)
  PROVE  IInv'
<1> USE DEF IInv
<1>1. PICK rows \in SUBSET (Fetched \ Raising) : outbound' = Enqueue(rows)
  <2>1. CASE Local(TickRaises)
    <3>1. PICK j \in Raising :
            Before(Fetched, j) \cap Raising = {} /\ outbound' = Enqueue(Before(Fetched, j))
      BY <2>1 DEF Local, TickRaises
    <3>2. Before(Fetched, j) \subseteq Fetched \ Raising
      BY <3>1 DEF Before
    <3> QED BY <3>1, <3>2
  <2>2. CASE Local(TickFails) \/ Stop(TickCut)
    <3>1. PICK j \in Fetched : /\ (Before(Fetched, j) \cup {j}) \cap Raising = {}
                               /\ outbound' = Enqueue(Before(Fetched, j) \cup {j})
      BY <2>2 DEF Local, Stop, TickCut, TickFails, TickBreaksOff
    <3>2. Before(Fetched, j) \cup {j} \subseteq Fetched \ Raising
      BY <3>1 DEF Before
    <3> QED BY <3>1, <3>2
  <2> QED BY <2>1, <2>2
<1>2. /\ outbound \subseteq outbound' /\ outbound' \subseteq Queued
      /\ \A o \in outbound' : Captured(o.row)
  BY <1>1, EnqueueGrows
<1>3. /\ UNCHANGED <<chat, wiped, paused, checkpoint, decoder, reached, dropped, resyncs,
                     archive, outages, disk>>
      /\ ticks' = ticks + 1
      /\ failures' = failures \/ (failures < MaxFailures /\ failures' = failures + 1)
      /\ \/ UNCHANGED <<running, sending, post, late>>
         \/ running' = FALSE /\ sending' = {} /\ post' = "none" /\ Abandon
  BY DEF Local, Stop, TickRaises, TickCut, TickFails, TickBreaksOff, Dies
<1>4. late' \subseteq SUBSET Message /\ \A ms \in late' : \A m \in ms : Captured(m[2])
  <2>1. CASE late' = late
    BY <2>1 DEF TypeOK, Bookkeeping
  <2>2. CASE Abandon
    BY <2>2, AbandonLate
  <2> QED BY <1>3, <2>1, <2>2
<1>5. TypeOK'
  <2>1. ticks' \in Nat /\ failures' \in 0..MaxFailures
    BY <1>3 DEF TypeOK, CaptureTypeOK
  <2>2. running' \in BOOLEAN /\ sending' \subseteq Queued
    BY <1>3 DEF TypeOK, CaptureTypeOK
  <2>3. post' \in {"none", "sent", "accepted", "rejected", "failed"}
    BY <1>3 DEF TypeOK
  <2> QED BY <1>2, <1>3, <1>4, <2>1, <2>2, <2>3 DEF TypeOK, CaptureTypeOK
<1>6. NothingSkipped' /\ AwaitedBatch'
  BY <1>2, <1>3, WiderQueue
<1>7. Bookkeeping'
  BY <1>2, <1>3, <1>4 DEF Bookkeeping, Captured
<1>8. ArchiveIsCaptured'
  BY <1>3 DEF ArchiveIsCaptured, Archived
<1> QED BY <1>5, <1>6, <1>7, <1>8

(* A whole tick: the checkpoint moves past the fetched rows, all of which  *)
(* are in the queue by then.                                               *)
LEMMA WholeTick ==
  ASSUME IInv, Local(Tick)
  PROVE  IInv'
<1> USE DEF IInv
<1>1. /\ Raising = {} /\ outbound' = Enqueue(Fetched) /\ ticks' = ticks + 1
      /\ reached' = IF checkpoint' > reached THEN checkpoint' ELSE reached
      /\ UNCHANGED <<chat, running, wiped, paused, sending, decoder, dropped, failures,
                     resyncs, post, late, archive, outages, disk>>
  BY DEF Local, Tick, Advance
<1>2. PICK last \in Fetched : checkpoint' = last[1]
  BY DEF Local, Tick, Advance
<1>3. /\ outbound \subseteq outbound' /\ outbound' \subseteq Queued
      /\ \A o \in outbound' : Captured(o.row)
      /\ \A j \in Fetched : j[1] \notin Meta => \E o \in outbound' : o.row = j[1]
  BY <1>1, EnqueueGrows
<1>4. /\ checkpoint \in 0..MaxRow /\ reached \in 0..MaxRow /\ chat \in 0..MaxRow
      /\ checkpoint <= reached /\ reached <= chat /\ MaxRow \in Nat
  BY DEF TypeOK, CaptureTypeOK, Bookkeeping
<1>5. last[1] \in 1..MaxRow /\ checkpoint < last[1] /\ last[1] <= chat
  BY FetchedType DEF Row
<1>6. /\ checkpoint' \in 0..MaxRow /\ reached' \in 0..MaxRow
      /\ checkpoint' <= reached' /\ reached' <= chat
  BY <1>1, <1>2, <1>4, <1>5
<1>7. TypeOK'
  <2>1. ticks' \in Nat
    BY <1>1 DEF TypeOK, CaptureTypeOK
  <2> QED BY <1>1, <1>3, <1>6, <2>1 DEF TypeOK, CaptureTypeOK
<1>8. Bookkeeping'
  BY <1>1, <1>3, <1>6 DEF Bookkeeping, Captured
<1>9. AwaitedBatch' /\ ArchiveIsCaptured'
  BY <1>1, <1>3 DEF AwaitedBatch, ArchiveIsCaptured, Archived
<1>10. NothingSkipped'
  <2> SUFFICES ASSUME ~wiped', NEW r \in Row \ Meta, r <= reached'
               PROVE  InQueue(r)' \/ Archived(r)' \/ GaveUp(r)'
    BY DEF NothingSkipped
  <2>1. CASE r <= reached
    BY <2>1, <1>1, <1>3 DEF NothingSkipped, InQueue, Archived, GaveUp
  <2>2. CASE ~(r <= reached)
    <3>1. r \in 1..MaxRow
      BY DEF Row
    <3>2. checkpoint < r /\ r <= last[1]
      BY <1>1, <1>2, <1>4, <1>5, <2>2, <3>1
    <3>3. <<r, 1>> \in Fetched /\ r \notin Meta
      BY <3>2, NoneLeftOut
    <3> QED BY <3>3, <1>3 DEF InQueue
  <2> QED BY <2>1, <2>2
<1> QED BY <1>7, <1>8, <1>9, <1>10

(* Steps that touch neither the queue nor the archive nor a request.       *)
LEMMA QuietStep ==
  ASSUME IInv,
         Local(NewRow) \/ Local(Pause) \/ Local(Resume) \/ Local(Resync) \/ Local(Start)
  PROVE  IInv'
<1> USE DEF IInv
<1>1. UNCHANGED <<wiped, outbound, ticks, sending, reached, dropped, failures, post, late,
                  archive, outages, disk>>
  BY DEF Local, NewRow, Pause, Resume, Resync, Start
<1>2. /\ chat \in 0..MaxRow /\ checkpoint \in 0..MaxRow /\ reached \in 0..MaxRow
      /\ checkpoint <= reached /\ reached <= chat /\ resyncs \in 0..MaxResyncs
      /\ decoder \in Form /\ running \in BOOLEAN /\ paused \in BOOLEAN
  BY DEF TypeOK, CaptureTypeOK, Bookkeeping
<1>3. chat' \in 0..MaxRow /\ chat <= chat'
  BY <1>2 DEF Local, NewRow, Pause, Resume, Resync, Start
<1>4. checkpoint' \in {0, checkpoint}
  BY DEF Local, NewRow, Pause, Resume, Resync, Start
<1>5. running' \in BOOLEAN /\ paused' \in BOOLEAN
  BY <1>2 DEF Local, NewRow, Pause, Resume, Resync, Start
<1>6. resyncs' \in 0..MaxResyncs
  BY <1>2 DEF Local, NewRow, Pause, Resume, Resync, Start
<1>7. decoder' \in Form
  BY <1>2 DEF Local, NewRow, Pause, Resume, Resync, Start, Form
<1>8. checkpoint' \in 0..MaxRow /\ checkpoint' <= reached /\ reached <= chat'
  BY <1>2, <1>3, <1>4
<1>9. TypeOK'
  BY <1>1, <1>3, <1>5, <1>6, <1>7, <1>8 DEF TypeOK, CaptureTypeOK
<1>10. \A r \in Row : r <= chat => r <= chat'
  BY <1>2, <1>3 DEF Row
<1>11. Bookkeeping'
  BY <1>1, <1>8, <1>10 DEF Bookkeeping, Captured, Normal
<1>12. NothingSkipped' /\ AwaitedBatch'
  BY <1>1 DEF NothingSkipped, AwaitedBatch, InQueue, Archived, GaveUp
<1>13. ArchiveIsCaptured'
  BY <1>1, <1>10 DEF ArchiveIsCaptured, Archived
<1> QED BY <1>9, <1>11, <1>12, <1>13

(* The forwarder takes a batch: part of the queue, and nobody waits.       *)
LEMMA SendStep ==
  ASSUME IInv, SendBatch
  PROVE  IInv'
<1> USE DEF IInv
<1>1. /\ sending' = Peek /\ Peek # {} /\ post' = "sent"
      /\ UNCHANGED <<chat, running, wiped, paused, checkpoint, outbound, ticks, decoder,
                     reached, dropped, failures, resyncs, late, archive, outages, disk>>
  BY DEF SendBatch, DrainStart
<1>2. sending' \subseteq outbound /\ \A o \in sending' : o.ready
  BY <1>1 DEF Peek
<1>3. TypeOK'
  BY <1>1, <1>2 DEF TypeOK, CaptureTypeOK
<1>4. Bookkeeping'
  BY <1>1, <1>2 DEF Bookkeeping, Captured
<1>5. NothingSkipped' /\ AwaitedBatch' /\ ArchiveIsCaptured'
  BY <1>1, <1>2 DEF NothingSkipped, AwaitedBatch, ArchiveIsCaptured, InQueue, Archived, GaveUp
<1> QED BY <1>3, <1>4, <1>5
(* The forwarder deletes an accepted batch: every message is archived.  Or *)
(* it fails to, and keeps it.                                              *)
LEMMA SentStep ==
  ASSUME IInv, BatchAccepted \/ BatchStays
  PROVE  IInv'
<1> USE DEF IInv
<1>1. /\ post = "accepted" /\ sending' = {} /\ post' = "none"
      /\ outbound' = outbound \ sending \/ outbound' = outbound
      /\ failures' = failures \/ (failures < MaxFailures /\ failures' = failures + 1)
      /\ UNCHANGED <<chat, running, wiped, paused, checkpoint, ticks, decoder, reached,
                     dropped, resyncs, late, archive, outages, disk>>
  BY DEF BatchAccepted, BatchStays, DrainSent, DrainSentFails
<1>2. TypeOK'
  <2>1. failures' \in 0..MaxFailures /\ outbound' \subseteq Queued
    BY <1>1 DEF TypeOK, CaptureTypeOK
  <2> QED BY <1>1, <2>1 DEF TypeOK, CaptureTypeOK
<1>3. Bookkeeping'
  BY <1>1 DEF Bookkeeping, Captured
<1>4. AwaitedBatch' /\ ArchiveIsCaptured'
  BY <1>1 DEF AwaitedBatch, ArchiveIsCaptured, Archived
<1>5. NothingSkipped'
  <2>1. \A o \in sending : archive[o.row] # 0
    BY <1>1 DEF AwaitedBatch, Archived
  <2> QED BY <1>1, <2>1 DEF NothingSkipped, InQueue, Archived, GaveUp
<1> QED BY <1>2, <1>3, <1>4, <1>5

(* What mark_failed leaves of a set of messages.                           *)
LEMMA FailedSet ==
  ASSUME IInv, NEW S \in SUBSET sending
  PROVE  /\ {Failed(o) : o \in S} \subseteq Queued
         /\ \A p \in {Failed(o) : o \in S} : Captured(p.row)
         /\ \A o \in S : \E p \in {Failed(q) : q \in S} : p.row = o.row
<1>1. ASSUME NEW o \in S PROVE o \in Queued /\ Captured(o.row)
  BY DEF IInv, TypeOK, CaptureTypeOK, AwaitedBatch, Bookkeeping
<1>2. ASSUME NEW o \in S PROVE Failed(o) \in Queued /\ Failed(o).row = o.row
  BY <1>1, FailedType
<1> HIDE DEF Failed
<1> QED BY <1>1, <1>2

(* A batch that failed or timed out stays in the queue, also when the      *)
(* marking of its messages breaks off.                                     *)
LEMMA FailedStep ==
  ASSUME IInv, BatchFailed \/ BatchTimesOut \/ BatchFailedCut
  PROVE  IInv'
<1> USE DEF IInv
<1>1. PICK S \in SUBSET sending : outbound' = Postponed(S)
  BY DEF BatchFailed, BatchTimesOut, BatchFailedCut, Stop, DrainFailed, DrainFailedCut, Firsts
<1> DEFINE again == {Failed(o) : o \in S}
<1>2. /\ sending' = {} /\ post' = "none"
      /\ UNCHANGED <<chat, wiped, paused, checkpoint, ticks, decoder, reached, dropped,
                     resyncs, archive, disk>>
      /\ running' = running \/ running' \in BOOLEAN
      /\ failures' = failures \/ (failures < MaxFailures /\ failures' = failures + 1)
      /\ late' = late \/ Abandon
      /\ outages' = outages \/ (outages < MaxOutages /\ outages' = outages + 1)
  BY DEF BatchFailed, BatchTimesOut, BatchFailedCut, Stop, DrainFailed, DrainFailedCut, Outage
<1>3. /\ again \subseteq Queued /\ \A p \in again : Captured(p.row)
      /\ \A o \in S : \E p \in again : p.row = o.row
  BY FailedSet
<1>4. outbound' = (outbound \ S) \cup again
  BY <1>1 DEF Postponed
<1> HIDE DEF again
<1>5. late' \subseteq SUBSET Message /\ \A ms \in late' : \A m \in ms : Captured(m[2])
  <2>1. CASE late' = late
    BY <2>1 DEF TypeOK, Bookkeeping
  <2>2. CASE Abandon
    BY <2>2, AbandonLate
  <2> QED BY <1>2, <2>1, <2>2
<1>6. outages' \in 0..MaxOutages /\ failures' \in 0..MaxFailures
  BY <1>2 DEF TypeOK, CaptureTypeOK
<1>7. running' \in BOOLEAN
  BY <1>2 DEF TypeOK, CaptureTypeOK
<1>8. TypeOK'
  BY <1>2, <1>3, <1>4, <1>5, <1>6, <1>7 DEF TypeOK, CaptureTypeOK
<1>9. Bookkeeping'
  BY <1>2, <1>3, <1>4, <1>5 DEF Bookkeeping, Captured
<1>10. AwaitedBatch' /\ ArchiveIsCaptured'
  BY <1>2 DEF AwaitedBatch, ArchiveIsCaptured, Archived
<1>11. \A r \in Row : InQueue(r) => InQueue(r)'
  BY <1>3, <1>4 DEF InQueue
<1>12. NothingSkipped'
  BY <1>2, <1>11 DEF NothingSkipped, Archived, GaveUp
<1> QED BY <1>8, <1>9, <1>10, <1>12

(* A refused batch stays in the queue but for the messages given up.       *)
LEMMA RejectedStep ==
  ASSUME IInv, BatchRejected \/ BatchRejectedCut
  PROVE  IInv'
<1> USE DEF IInv
<1>1. PICK S \in SUBSET sending : outbound' = Refused(S) /\ dropped' = dropped \cup Drops(S)
  BY DEF BatchRejected, BatchRejectedCut, Stop, DrainRejected, DrainRejectedCut, Firsts
<1> DEFINE again == {Failed(o) : o \in S \ GivenUp(S)}
           gone  == Drops(S)
<1>2. /\ sending' = {} /\ post' = "none"
      /\ UNCHANGED <<chat, wiped, paused, checkpoint, ticks, decoder, reached,
                     resyncs, late, archive, outages, disk>>
      /\ running' = running \/ running' \in BOOLEAN
      /\ failures' = failures \/ (failures < MaxFailures /\ failures' = failures + 1)
  BY DEF BatchRejected, BatchRejectedCut, Stop, Abandon, DrainRejected, DrainRejectedCut
<1>3. /\ again \subseteq Queued /\ \A p \in again : Captured(p.row)
      /\ \A o \in S \ GivenUp(S) : \E p \in again : p.row = o.row
  BY FailedSet
<1>4. gone \subseteq Row /\ \A o \in GivenUp(S) : o.row \in gone
  BY DEF Drops, GivenUp, TypeOK, CaptureTypeOK, Queued
<1>5. outbound' = (outbound \ S) \cup again /\ dropped' = dropped \cup gone
  BY <1>1 DEF Refused
<1> HIDE DEF again, gone
<1>6. failures' \in 0..MaxFailures
  BY <1>2 DEF TypeOK, CaptureTypeOK
<1>7. running' \in BOOLEAN
  BY <1>2 DEF TypeOK, CaptureTypeOK
<1>8. TypeOK'
  BY <1>2, <1>3, <1>4, <1>5, <1>6, <1>7 DEF TypeOK, CaptureTypeOK
<1>9. Bookkeeping'
  BY <1>2, <1>3, <1>5 DEF Bookkeeping, Captured
<1>10. AwaitedBatch' /\ ArchiveIsCaptured'
  BY <1>2 DEF AwaitedBatch, ArchiveIsCaptured, Archived
<1>11. \A r \in Row : InQueue(r) => InQueue(r)' \/ GaveUp(r)'
  BY <1>3, <1>4, <1>5 DEF InQueue, GaveUp
<1>12. \A r \in Row : GaveUp(r) => GaveUp(r)'
  BY <1>5 DEF GaveUp
<1>13. NothingSkipped'
  BY <1>2, <1>11, <1>12 DEF NothingSkipped, Archived
<1> QED BY <1>8, <1>9, <1>10, <1>13

(* A backoff ends, of a message no request holds.                          *)
LEMMA BackoffStep ==
  ASSUME IInv, NEW o \in outbound, Local(BackoffOver(o))
  PROVE  IInv'
<1> USE DEF IInv
<1> DEFINE due == [o EXCEPT !.ready = TRUE]
<1>1. /\ ~o.ready /\ outbound' = (outbound \ {o}) \cup {due}
      /\ UNCHANGED <<chat, running, wiped, paused, checkpoint, ticks, sending, decoder,
                     reached, dropped, failures, resyncs, post, late, archive, outages, disk>>
  BY DEF Local, BackoffOver
<1>2. due \in Queued /\ due.row = o.row /\ Captured(o.row)
  BY DEF TypeOK, CaptureTypeOK, Queued, Bookkeeping
<1> HIDE DEF due
<1>3. o \notin sending
  BY <1>1 DEF Bookkeeping
<1>4. TypeOK'
  BY <1>1, <1>2 DEF TypeOK, CaptureTypeOK
<1>5. Bookkeeping'
  BY <1>1, <1>2 DEF Bookkeeping, Captured
<1>6. AwaitedBatch' /\ ArchiveIsCaptured'
  BY <1>1, <1>3 DEF AwaitedBatch, ArchiveIsCaptured, Archived
<1>7. \A r \in Row : InQueue(r) => InQueue(r)'
  BY <1>1, <1>2 DEF InQueue
<1>8. NothingSkipped'
  BY <1>1, <1>7 DEF NothingSkipped, Archived, GaveUp
<1> QED BY <1>4, <1>5, <1>6, <1>8

(* The process ends: the wait for an answer is lost; revoke takes the      *)
(* queue with it.                                                          *)
LEMMA StopStep ==
  ASSUME IInv, Stop(Crash) \/ Stop(Revoke)
  PROVE  IInv'
<1> USE DEF IInv
<1>1. /\ running' = FALSE /\ sending' = {} /\ post' = "none" /\ Abandon
      /\ UNCHANGED <<chat, ticks, decoder, reached, dropped, resyncs, archive, outages, disk>>
      /\ \/ /\ failures < MaxFailures /\ failures' = failures + 1
            /\ UNCHANGED <<wiped, paused, checkpoint, outbound>>
         \/ /\ wiped' = TRUE /\ paused' = FALSE /\ checkpoint' = 0 /\ outbound' = {}
            /\ UNCHANGED failures
  BY DEF Stop, Crash, Revoke, Dies
<1>2. late' \subseteq SUBSET Message /\ \A ms \in late' : \A m \in ms : Captured(m[2])
  BY <1>1, AbandonLate
<1>3. failures' \in 0..MaxFailures
  BY <1>1 DEF TypeOK, CaptureTypeOK
<1>4. /\ checkpoint' \in 0..MaxRow /\ checkpoint' <= reached
  BY <1>1 DEF TypeOK, CaptureTypeOK, Bookkeeping
<1>5. wiped' \in BOOLEAN /\ paused' \in BOOLEAN /\ outbound' \subseteq outbound
  BY <1>1 DEF TypeOK, CaptureTypeOK
<1>6. TypeOK'
  BY <1>1, <1>2, <1>3, <1>4, <1>5 DEF TypeOK, CaptureTypeOK
<1>7. Bookkeeping'
  BY <1>1, <1>2, <1>4, <1>5 DEF Bookkeeping, Captured
<1>8. AwaitedBatch' /\ ArchiveIsCaptured'
  BY <1>1 DEF AwaitedBatch, ArchiveIsCaptured, Archived
<1>9. NothingSkipped'
  BY <1>1 DEF NothingSkipped, InQueue, Archived, GaveUp
<1> QED BY <1>6, <1>7, <1>8, <1>9
(* Once a message is archived it stays, so an upsert skips nothing; what   *)
(* it adds is what the request carries.                                    *)
LEMMA UpsertStep ==
  ASSUME IInv, NEW ms \in SUBSET Message, Upsert(ms), Acceptable(ms),
         \A m \in ms : Captured(m[2]),
         UNCHANGED <<captureVars, outages>>
  PROVE  /\ archive' \in [Row -> 0..MaxVersion]
         /\ \A r \in Row : Archived(r) => Archived(r)'
         /\ NothingSkipped' /\ ArchiveIsCaptured'
<1> USE DEF IInv
<1>1. /\ archive' \in [Row -> 0..MaxVersion]
      /\ \A r \in Row : archive[r] # 0 => archive'[r] = archive[r]
      /\ \A r \in Row : archive'[r] # archive[r] => archive[r] = 0 /\ \E m \in ms : m[2] = r
  BY UpsertStores DEF TypeOK
<1>2. \A r \in Row : Archived(r) => Archived(r)'
  BY <1>1 DEF Archived
<1>3. NothingSkipped'
  BY <1>2 DEF NothingSkipped, InQueue, GaveUp, captureVars
<1>4. ArchiveIsCaptured'
  <2> SUFFICES ASSUME NEW r \in Row, Archived(r)'
               PROVE  r \in Normal \ Malformed /\ r <= chat
    BY DEF ArchiveIsCaptured, captureVars
  <2>1. CASE Archived(r)
    BY <2>1 DEF ArchiveIsCaptured
  <2>2. CASE ~Archived(r)
    <3>1. PICK m \in ms : m[2] = r
      BY <2>2, <1>1 DEF Archived
    <3> QED BY <3>1 DEF Captured, Acceptable
  <2> QED BY <2>1, <2>2
<1> QED BY <1>1, <1>2, <1>3, <1>4

(* The messages of the awaited request, and those of an abandoned one.     *)
LEMMA RequestsCaptured ==
  ASSUME IInv
  PROVE  /\ Messages(sending) \subseteq Message
         /\ \A m \in Messages(sending) : Captured(m[2])
         /\ \A ms \in late : ms \subseteq Message /\ \A m \in ms : Captured(m[2])
<1>1. sending \subseteq outbound /\ sending \subseteq Queued
  BY DEF IInv, AwaitedBatch, TypeOK, CaptureTypeOK
<1>2. /\ Messages(sending) \subseteq Message
      /\ \A m \in Messages(sending) : \E o \in sending : m[2] = o.row
  BY <1>1, MessagesType
<1> QED BY <1>1, <1>2 DEF IInv, Bookkeeping, TypeOK

(* The ingest handler accepts the awaited batch.                           *)
LEMMA AcceptStep ==
  ASSUME IInv, IngestAccepts
  PROVE  IInv'
<1> USE DEF IInv
<1>1. /\ post = "sent" /\ Acceptable(Messages(sending)) /\ Upsert(Messages(sending))
      /\ post' = "accepted" /\ UNCHANGED <<captureVars, late, outages, disk>>
  BY DEF IngestAccepts, Answer
<1>2. /\ archive' \in [Row -> 0..MaxVersion] /\ NothingSkipped' /\ ArchiveIsCaptured'
  BY <1>1, RequestsCaptured, UpsertStep
<1>3. TypeOK'
  BY <1>1, <1>2 DEF TypeOK, CaptureTypeOK, captureVars
<1>4. Bookkeeping'
  BY <1>1 DEF Bookkeeping, Captured, captureVars
<1>5. AwaitedBatch'
  <2>1. sending \subseteq Queued /\ archive \in [Row -> 0..MaxVersion]
    BY DEF TypeOK, CaptureTypeOK
  <2>2. \A m \in Messages(sending) : archive'[m[2]] # 0
    BY <1>1, <2>1, RequestsCaptured, UpsertStores
  <2>3. \A o \in sending : archive'[o.row] # 0
    <3>1. \A o \in sending : <<o.tick, o.row, Version(o)>> \in Messages(sending)
      BY <2>1, MessagesType
    <3> QED BY <2>2, <3>1
  <2> QED BY <1>1, <2>3 DEF AwaitedBatch, Archived, captureVars
<1> QED BY <1>2, <1>3, <1>4, <1>5

(* The answer is a refusal or an error: nothing is stored.                 *)
LEMMA RefuseStep ==
  ASSUME IInv, IngestRejects \/ IngestFails
  PROVE  IInv'
<1> USE DEF IInv
<1>1. /\ post # "none" /\ post' \in {"rejected", "failed"}
      /\ UNCHANGED <<captureVars, late, archive, disk>>
      /\ outages' = outages \/ (outages < MaxOutages /\ outages' = outages + 1)
  BY DEF IngestRejects, IngestFails, Answer, Outage
<1>2. outages' \in 0..MaxOutages
  BY <1>1 DEF TypeOK
<1>3. TypeOK'
  BY <1>1, <1>2 DEF TypeOK, CaptureTypeOK, captureVars
<1>4. Bookkeeping'
  BY <1>1 DEF Bookkeeping, Captured, captureVars
<1>5. NothingSkipped' /\ AwaitedBatch' /\ ArchiveIsCaptured'
  BY <1>1 DEF NothingSkipped, AwaitedBatch, ArchiveIsCaptured, InQueue, Archived, GaveUp, captureVars
<1> QED BY <1>3, <1>4, <1>5

(* An abandoned request arrives late, or never.                            *)
LEMMA LateStep ==
  ASSUME IInv, NEW ms \in late, LateIngest(ms) \/ LateLost(ms)
  PROVE  IInv'
<1> USE DEF IInv
<1>1. late' = late \ {ms} /\ UNCHANGED <<captureVars, post, outages, disk>>
  BY DEF LateIngest, LateLost
<1>2. /\ archive' \in [Row -> 0..MaxVersion] /\ \A r \in Row : Archived(r) => Archived(r)'
      /\ NothingSkipped' /\ ArchiveIsCaptured'
  <2>1. CASE archive' = archive
    BY <1>1, <2>1 DEF TypeOK, NothingSkipped, ArchiveIsCaptured, InQueue, Archived, GaveUp, captureVars
  <2>2. CASE Acceptable(ms) /\ Upsert(ms)
    BY <1>1, <2>2, RequestsCaptured, UpsertStep
  <2> QED BY <2>1, <2>2 DEF LateIngest, LateLost
<1>3. TypeOK'
  BY <1>1, <1>2 DEF TypeOK, CaptureTypeOK, captureVars
<1>4. Bookkeeping'
  BY <1>1 DEF Bookkeeping, Captured, captureVars
<1>5. AwaitedBatch'
  <2>1. \A o \in sending : o.row \in Row
    BY DEF TypeOK, CaptureTypeOK, Queued
  <2> QED BY <1>1, <1>2, <2>1 DEF AwaitedBatch, captureVars
<1> QED BY <1>2, <1>3, <1>4, <1>5

(* Power is lost: the agent has what the disk has.                         *)
LEMMA PowerStep ==
  ASSUME IInv, DiskIsWhole, Stop(PowerLost)
  PROVE  IInv'
<1> USE DEF IInv
<1>1. /\ running' = FALSE /\ sending' = {} /\ post' = "none" /\ Abandon
      /\ failures < MaxFailures /\ failures' = failures + 1
      /\ checkpoint' = disk.checkpoint /\ outbound' = disk.outbound
      /\ ticks' = disk.ticks /\ reached' = disk.reached
      /\ UNCHANGED <<chat, wiped, paused, decoder, dropped, resyncs, archive, outages, disk>>
  BY DEF Stop, PowerLost, BackAsItWas, Dies
<1>2. late' \subseteq SUBSET Message /\ \A ms \in late' : \A m \in ms : Captured(m[2])
  BY <1>1, AbandonLate
<1>3. failures' \in 0..MaxFailures
  BY <1>1 DEF TypeOK, CaptureTypeOK
<1>4. /\ checkpoint' \in 0..MaxRow /\ reached' \in 0..MaxRow
      /\ ticks' \in Nat /\ outbound' \subseteq Queued
  BY <1>1 DEF TypeOK
<1>5. TypeOK'
  BY <1>1, <1>2, <1>3, <1>4 DEF TypeOK, CaptureTypeOK
<1>6. Bookkeeping'
  BY <1>1, <1>2 DEF Bookkeeping, DiskIsWhole, Captured
<1>7. AwaitedBatch' /\ ArchiveIsCaptured'
  BY <1>1 DEF AwaitedBatch, ArchiveIsCaptured, Archived
<1>8. NothingSkipped'
  BY <1>1 DEF NothingSkipped, DiskIsWhole, OnDisk, InQueue, Archived, GaveUp
<1> QED BY <1>5, <1>6, <1>7, <1>8

(* The disk catches up.                                                    *)
LEMMA SyncedStep ==
  ASSUME IInv, Synced
  PROVE  IInv' /\ DiskIsWhole'
<1> USE DEF IInv
<1>1. disk' = Durable /\ UNCHANGED <<captureVars, post, late, archive, outages>>
  BY DEF Synced
<1>2. disk' \in [checkpoint : 0..MaxRow, outbound : SUBSET Queued, ticks : Nat,
                 reached : 0..MaxRow]
  BY <1>1 DEF Durable, TypeOK, CaptureTypeOK
<1>3. TypeOK'
  BY <1>1, <1>2 DEF TypeOK, CaptureTypeOK, captureVars
<1>4. Bookkeeping' /\ AwaitedBatch' /\ NothingSkipped' /\ ArchiveIsCaptured'
  BY <1>1 DEF Bookkeeping, Captured, AwaitedBatch, NothingSkipped, ArchiveIsCaptured,
     InQueue, Archived, GaveUp, captureVars
<1>5. DiskIsWhole'
  BY <1>1 DEF DiskIsWhole, OnDisk, Durable, Bookkeeping, Captured, NothingSkipped,
     InQueue, Archived, GaveUp, captureVars
<1> QED BY <1>3, <1>4, <1>5

LEMMA NextIInv == IInv /\ DiskIsWhole /\ [Next]_vars => IInv'
<1> SUFFICES ASSUME IInv, DiskIsWhole, [Next]_vars PROVE IInv'
  OBVIOUS
<1>1. CASE Local(TickRaises) \/ Local(TickFails) \/ Stop(TickCut)
  BY <1>1, PartialTick
<1>2. CASE Local(Tick)
  BY <1>2, WholeTick
<1>3. CASE Local(NewRow) \/ Local(Pause) \/ Local(Resume) \/ Local(Resync) \/ Local(Start)
  BY <1>3, QuietStep
<1>4. CASE SendBatch
  BY <1>4, SendStep
<1>5. CASE BatchAccepted \/ BatchStays
  BY <1>5, SentStep
<1>6. CASE BatchFailed \/ BatchTimesOut \/ BatchFailedCut
  BY <1>6, FailedStep
<1>7. CASE BatchRejected \/ BatchRejectedCut
  BY <1>7, RejectedStep
<1>8. CASE \E o \in outbound : Local(BackoffOver(o))
  BY <1>8, BackoffStep
<1>9. CASE Stop(Crash) \/ Stop(Revoke)
  BY <1>9, StopStep
<1>10. CASE IngestAccepts
  BY <1>10, AcceptStep
<1>11. CASE IngestRejects \/ IngestFails
  BY <1>11, RefuseStep
<1>12. CASE \E ms \in late : LateIngest(ms) \/ LateLost(ms)
  BY <1>12, LateStep
<1>13. CASE UNCHANGED vars
  BY <1>13 DEF vars, IInv, TypeOK, CaptureTypeOK, Bookkeeping, Captured, AwaitedBatch,
               NothingSkipped, ArchiveIsCaptured, InQueue, Archived, GaveUp
<1>14. CASE Synced \/ Stop(PowerLost)
  BY <1>14, SyncedStep, PowerStep
<1> QED BY <1>1, <1>2, <1>3, <1>4, <1>5, <1>6, <1>7, <1>8, <1>9, <1>10, <1>11, <1>12, <1>13,
           <1>14
        DEF Next, Pump, Forward

(* What is archived or given up stays so, and chat.db only grows: the disk *)
(* needs no step of its own to stay whole.                                 *)
LEMMA Grows ==
  ASSUME IInv, [Next]_vars, ~Synced
  PROVE  /\ chat <= chat' /\ dropped \subseteq dropped' /\ (wiped => wiped') /\ disk' = disk
         /\ \A r \in Row : Archived(r) => Archived(r)'
<1> USE DEF IInv
<1>1. chat \in Nat
  BY DEF TypeOK, CaptureTypeOK
<1>2. ASSUME NEW ms \in SUBSET Message, Upsert(ms), UNCHANGED <<captureVars, disk>>
      PROVE  /\ chat <= chat' /\ dropped \subseteq dropped' /\ (wiped => wiped') /\ disk' = disk
             /\ \A r \in Row : Archived(r) => Archived(r)'
  BY <1>1, <1>2, UpsertStores DEF captureVars, Archived, TypeOK
<1>3. CASE IngestAccepts
  BY <1>3, <1>2, RequestsCaptured DEF IngestAccepts, Answer
<1>4. CASE \E ms \in late : LateIngest(ms) \/ LateLost(ms)
  <2>1. PICK ms \in late : LateIngest(ms) \/ LateLost(ms)
    BY <1>4
  <2>2. UNCHANGED <<captureVars, disk>> /\ (archive' = archive \/ Upsert(ms))
    BY <2>1 DEF LateIngest, LateLost
  <2>3. CASE archive' = archive
    BY <1>1, <2>2, <2>3 DEF captureVars, Archived
  <2> QED BY <2>2, <2>3, <1>2, RequestsCaptured
<1>5. CASE Pump \/ Forward \/ BatchTimesOut \/ Stop(Crash) \/ Stop(TickCut) \/ Stop(Revoke)
           \/ BatchFailedCut \/ BatchRejectedCut \/ BatchStays \/ Local(TickFails)
           \/ Stop(PowerLost)
  BY <1>1, <1>5 DEF Pump, Forward, SendBatch, BatchAccepted, BatchFailed, BatchRejected,
     BatchTimesOut, Local, Stop, Tick, TickRaises, DrainStart, DrainSent, DrainFailed,
     DrainRejected, BatchFailedCut, BatchRejectedCut, DrainFailedCut, DrainRejectedCut,
     BatchStays, DrainSentFails, TickFails, TickBreaksOff, Crash, TickCut, Revoke, PowerLost,
     Archived
<1>6. CASE Local(NewRow) \/ Local(Pause) \/ Local(Resume) \/ Local(Resync) \/ Local(Start)
           \/ \E o \in outbound : Local(BackoffOver(o))
  BY <1>1, <1>6 DEF Local, NewRow, Pause, Resume, Resync, Start, BackoffOver, Archived
<1>7. CASE IngestRejects \/ IngestFails \/ UNCHANGED vars
  BY <1>1, <1>7 DEF IngestRejects, IngestFails, Answer, captureVars, vars, Archived
<1> QED BY <1>3, <1>4, <1>5, <1>6, <1>7 DEF Next

LEMMA NextDisk == IInv /\ DiskIsWhole /\ [Next]_vars => DiskIsWhole'
<1> SUFFICES ASSUME IInv, DiskIsWhole, [Next]_vars, ~Synced PROVE DiskIsWhole'
  BY SyncedStep
<1>1. /\ chat <= chat' /\ dropped \subseteq dropped' /\ (wiped => wiped') /\ disk' = disk
      /\ \A r \in Row : Archived(r) => Archived(r)'
  BY Grows
<1>2. chat \in Nat /\ disk.reached \in Nat /\ chat' \in Nat
  BY NextIInv DEF IInv, TypeOK, CaptureTypeOK
<1>3. \A r \in Row : r <= chat => r <= chat'
  BY <1>1, <1>2 DEF Row
<1>4. \A r \in Row : GaveUp(r) => GaveUp(r)'
  BY <1>1 DEF GaveUp
<1>5. /\ disk'.checkpoint <= disk'.reached /\ disk'.reached <= chat'
      /\ \A o \in disk'.outbound : Captured(o.row)'
  BY <1>1, <1>2, <1>3 DEF DiskIsWhole, Captured, Normal
<1>6. ASSUME ~wiped', NEW r \in Row \ Meta, r <= disk'.reached
      PROVE  OnDisk(r)' \/ Archived(r)' \/ GaveUp(r)'
  BY <1>1, <1>4, <1>6 DEF DiskIsWhole, OnDisk
<1> QED BY <1>5, <1>6 DEF DiskIsWhole

-----------------------------------------------------------------------------
(* The theorems.                                                           *)

LEMMA Invariance == Spec => [](IInv /\ DiskIsWhole)
<1>1. Init => DiskIsWhole
  BY DEF Init, CaptureInit, Durable, DiskIsWhole, Row
<1> QED BY <1>1, InitIInv, NextIInv, NextDisk, PTL DEF Spec

(* Type correctness of the pump, the queue, the forwarder and the ingest   *)
(* handler; in particular every version archived is one of a message.      *)
THEOREM TypesHold == Spec => []TypeOK
<1>1. IInv => TypeOK
  BY DEF IInv
<1> QED BY <1>1, Invariance, PTL

(* Whatever failures, is lost or comes late, every message the pump's       *)
(* checkpoint ever passed is queued, archived or was given up.             *)
THEOREM CheckpointIsSafe == Spec => []NothingSkipped
<1>1. IInv => NothingSkipped
  BY DEF IInv
<1> QED BY <1>1, Invariance, PTL

(* The ingest handler stores only messages the device captured, also when  *)
(* it processes a request the forwarder no longer waits for.               *)
THEOREM OnlyCapturedArchived == Spec => []ArchiveIsCaptured
<1>1. IInv => ArchiveIsCaptured
  BY DEF IInv
<1> QED BY <1>1, Invariance, PTL

(* Nothing that runs during drain_once's await disturbs its batch, and the *)
(* rows it deletes after a 2xx are in the archive.                         *)
THEOREM DeleteIsSafe == Spec => []AwaitedBatch
<1>1. IInv => AwaitedBatch
  BY DEF IInv
<1> QED BY <1>1, Invariance, PTL
(* Every step is, seen from the archive, a message that appears, a store   *)
(* of messages that had not been stored, or nothing.                       *)
LEMMA StepIsPromised ==
  IInv /\ [Next]_vars => [Promise!Write \/ Promise!Store]_<<chat, archive>>
<1> SUFFICES ASSUME IInv, [Next]_vars
             PROVE  Promise!Write \/ Promise!Store \/ UNCHANGED <<chat, archive>>
  OBVIOUS
<1> USE DEF IInv
<1>1. ASSUME NEW ms \in SUBSET Message, Upsert(ms), \A m \in ms : Captured(m[2]), chat' = chat
      PROVE  Promise!Store
  <2>1. /\ archive' \in [Row -> 0..MaxVersion]
        /\ \A r \in Row : archive'[r] # archive[r] => archive[r] = 0 /\ \E m \in ms : m[2] = r
    BY <1>1, UpsertStores DEF TypeOK
  <2>2. \A r \in Row : archive'[r] # archive[r] => archive[r] = 0 /\ r <= chat
    BY <1>1, <2>1 DEF Captured
  <2> QED BY <1>1, <2>1, <2>2 DEF Promise!Store, Row
<1>2. CASE IngestAccepts
  BY <1>2, <1>1, RequestsCaptured DEF IngestAccepts, Answer, captureVars
<1>3. CASE \E ms \in late : LateIngest(ms) \/ LateLost(ms)
  <2>1. PICK ms \in late : LateIngest(ms) \/ LateLost(ms)
    BY <1>3
  <2>2. chat' = chat /\ (archive' = archive \/ Upsert(ms))
    BY <2>1 DEF LateIngest, LateLost, captureVars
  <2> QED BY <2>2, <1>1, RequestsCaptured
<1>4. CASE Local(NewRow)
  BY <1>4 DEF Local, NewRow, Promise!Write
<1>5. CASE Pump \/ Forward \/ BatchTimesOut \/ Stop(Crash) \/ Stop(TickCut) \/ Stop(Revoke)
           \/ BatchFailedCut \/ BatchRejectedCut \/ BatchStays \/ Local(TickFails)
  BY <1>5 DEF Pump, Forward, SendBatch, BatchAccepted, BatchFailed, BatchRejected,
     BatchTimesOut, Local, Stop, Tick, TickRaises, DrainStart, DrainSent, DrainFailed,
     DrainRejected, BatchFailedCut, BatchRejectedCut, DrainFailedCut, DrainRejectedCut,
     BatchStays, DrainSentFails, TickFails, TickBreaksOff, Crash, TickCut, Revoke
<1>6. CASE Local(Pause) \/ Local(Resume) \/ Local(Resync) \/ Local(Start)
           \/ \E o \in outbound : Local(BackoffOver(o))
  BY <1>6 DEF Local, Pause, Resume, Resync, Start, BackoffOver
<1>7. CASE IngestRejects \/ IngestFails \/ Synced \/ Stop(PowerLost) \/ UNCHANGED vars
  BY <1>7 DEF IngestRejects, IngestFails, Answer, Synced, Stop, PowerLost, captureVars, vars
<1> QED BY <1>2, <1>3, <1>4, <1>5, <1>6, <1>7 DEF Next

(* The pipeline implements the write-once archive: resends, late requests, *)
(* resyncs and new releases of the agent never change what is stored.      *)
THEOREM ImplementsWriteOnce == Spec => WriteOnce
<1>1. Init => Promise!Init
  BY DEF Init, CaptureInit, Promise!Init, Row
<1> QED BY <1>1, StepIsPromised, Invariance, PTL DEF Spec, WriteOnce, Promise!Spec

-----------------------------------------------------------------------------
(* Copies.  The copies in the queue of one joined row are those of         *)
(* different ticks.  A tick queues a row again only when the checkpoint is *)
(* before it; what put it there was a tick that broke off before its end,  *)
(* a resync or a loss of power, and each allows one copy more.  The same   *)
(* is true of what is on disk, which may become the queue.                 *)

Pair == Row \X Copy
Key(o) == <<o.row, o.conv>>
TicksOf(S, q) == {o.tick : o \in {p \in S : Key(p) = q}}

Passed(q, k) == IF q[1] <= k THEN 1 ELSE 0

(* The queue S is in order for a checkpoint k, a tick counter t and n      *)
(* failures and resyncs.                                                   *)
Keyed(S) == \A o, p \in S : o.tick = p.tick /\ Key(o) = Key(p) => o = p
Counted(S, k, t, n) ==
  /\ \A o \in S : o.tick < t
  /\ Keyed(S)
  /\ \A q \in Pair : Cardinality(TicksOf(S, q)) <= n + Passed(q, k)

Causes == failures + resyncs

CopiesInv ==
  /\ Counted(outbound, checkpoint, ticks, Causes)
  /\ Counted(disk.outbound, disk.checkpoint, disk.ticks, Causes)

LEMMA TicksAreFinite ==
  ASSUME NEW S \in SUBSET Queued, NEW t \in Nat, \A o \in S : o.tick < t, NEW r
  PROVE  IsFiniteSet(TicksOf(S, r)) /\ Cardinality(TicksOf(S, r)) \in Nat
<1>1. TicksOf(S, r) \in SUBSET Nat /\ \A x \in TicksOf(S, r) : x <= t
  BY DEF TicksOf, Queued
<1>2. IsFiniteSet(TicksOf(S, r))
  BY <1>1, FS_BoundedSetOfNaturals
<1> QED BY <1>2, FS_CardinalityType

(* A queue that got no new ticks is in order if the old one was, and       *)
(* stays so when the causes grow.                                          *)
LEMMA CountKept ==
  ASSUME NEW S \in SUBSET Queued, NEW k, NEW t \in Nat, NEW n \in Nat, Counted(S, k, t, n),
         NEW T, Keyed(T), \A y \in T : \E o \in S : o.tick = y.tick /\ Key(o) = Key(y),
         NEW j, NEW m \in Nat, \A r \in Pair : n + Passed(r, k) <= m + Passed(r, j)
  PROVE  Counted(T, j, t, m)
<1>1. \A y \in T : y.tick < t
  BY DEF Counted
<1>2. ASSUME NEW r \in Pair PROVE Cardinality(TicksOf(T, r)) <= m + Passed(r, j)
  <2>1. TicksOf(T, r) \in SUBSET TicksOf(S, r)
    BY DEF TicksOf
  <2>2. IsFiniteSet(TicksOf(S, r)) /\ Cardinality(TicksOf(S, r)) \in Nat
    BY TicksAreFinite DEF Counted
  <2>3. IsFiniteSet(TicksOf(T, r)) /\ Cardinality(TicksOf(T, r)) <= Cardinality(TicksOf(S, r))
    BY <2>1, <2>2, FS_Subset
  <2>4. Cardinality(TicksOf(T, r)) \in Nat
    BY <2>3, FS_CardinalityType
  <2>5. Cardinality(TicksOf(S, r)) <= n + Passed(r, k)
    BY DEF Counted
  <2>6. Passed(r, k) \in Nat /\ Passed(r, j) \in Nat
    BY DEF Passed
  <2> QED BY <2>2, <2>3, <2>4, <2>5, <2>6
<1> QED BY <1>1, <1>2 DEF Counted

(* A tick adds a copy of each of some rows, none of which the checkpoint   *)
(* has passed; either it passes them now, or there is one more cause.      *)
LEMMA CountGrows ==
  ASSUME NEW S \in SUBSET Queued, NEW k, NEW t \in Nat, NEW n \in Nat, Counted(S, k, t, n),
         NEW rows \in SUBSET Pair, NEW T, S \subseteq T,
         \A y \in T \ S : y.tick = t /\ Key(y) \in rows,
         \A y, z \in T \ S : Key(y) = Key(z) => y = z,
         NEW j, NEW m \in Nat,
         \A r \in rows : n + Passed(r, k) + 1 <= m + Passed(r, j),
         \A r \in Pair \ rows : n + Passed(r, k) <= m + Passed(r, j)
  PROVE  Counted(T, j, t + 1, m)
<1>1. \A o \in S : o.tick \in Nat /\ o.tick < t
  BY DEF Counted, Queued
<1>2. (\A y \in T : y.tick < t + 1) /\ Keyed(T)
  BY <1>1 DEF Counted, Keyed
<1>3. ASSUME NEW r \in Pair PROVE Cardinality(TicksOf(T, r)) <= m + Passed(r, j)
  <2>1. IsFiniteSet(TicksOf(S, r)) /\ Cardinality(TicksOf(S, r)) \in Nat
    BY TicksAreFinite DEF Counted
  <2>2. /\ Cardinality(TicksOf(S, r)) <= n + Passed(r, k)
        /\ Passed(r, k) \in Nat /\ Passed(r, j) \in Nat
    BY DEF Counted, Passed
  <2>3. CASE r \in rows
    <3>1. IsFiniteSet(TicksOf(S, r) \cup {t}) /\
          Cardinality(TicksOf(S, r) \cup {t}) <= Cardinality(TicksOf(S, r)) + 1
      <4>1. /\ IsFiniteSet(TicksOf(S, r) \cup {t})
            /\ \/ Cardinality(TicksOf(S, r) \cup {t}) = Cardinality(TicksOf(S, r))
               \/ Cardinality(TicksOf(S, r) \cup {t}) = Cardinality(TicksOf(S, r)) + 1
        BY <2>1, FS_AddElement, Zenon
      <4> QED BY <2>1, <4>1
    <3>2. TicksOf(T, r) \in SUBSET (TicksOf(S, r) \cup {t})
      BY DEF TicksOf
    <3>3. /\ Cardinality(TicksOf(T, r)) <= Cardinality(TicksOf(S, r) \cup {t})
          /\ Cardinality(TicksOf(T, r)) \in Nat /\ Cardinality(TicksOf(S, r) \cup {t}) \in Nat
      BY <3>1, <3>2, FS_Subset, FS_CardinalityType
    <3>4. n + Passed(r, k) + 1 <= m + Passed(r, j)
      BY <2>3
    <3> QED BY <2>1, <2>2, <3>1, <3>3, <3>4
  <2>4. CASE r \notin rows
    <3>1. TicksOf(T, r) = TicksOf(S, r)
      BY <2>4 DEF TicksOf
    <3>2. n + Passed(r, k) <= m + Passed(r, j)
      BY <2>4
    <3> QED BY <2>1, <2>2, <3>1, <3>2
  <2> QED BY <2>3, <2>4
<1> QED BY <1>2, <1>3 DEF Counted

(* The new messages of a tick: one for each joined row, all of this tick.  *)
LEMMA EnqueueAdds ==
  ASSUME NEW rows \in SUBSET Fetched
  PROVE  /\ outbound \subseteq Enqueue(rows)
         /\ \A y \in Enqueue(rows) \ outbound : y.tick = ticks /\ Key(y) \in rows
         /\ \A y, z \in Enqueue(rows) \ outbound : Key(y) = Key(z) => y = z
<1>1. \A j \in rows : Fresh(j).tick = ticks /\ Key(Fresh(j)) = j
  BY FetchedType DEF Fresh, Key
<1>2. Enqueue(rows) = outbound \cup {Fresh(j) : j \in {k \in rows : k[1] \notin Meta}}
  BY DEF Enqueue
<1> HIDE DEF Fresh, Key
<1>3. \A y \in Enqueue(rows) \ outbound : \E j \in rows : y = Fresh(j)
  BY <1>2
<1> QED BY <1>1, <1>2, <1>3

(* What the forwarder marks and drops brings in no new tick.               *)
Marked(Q, S, U) == (Q \ S) \cup {Failed(o) : o \in U}

LEMMA MarkedKeeps ==
  ASSUME NEW Q \in SUBSET Queued, Keyed(Q), NEW S \in SUBSET Q, NEW U \in SUBSET S
  PROVE  /\ Keyed(Marked(Q, S, U))
         /\ \A y \in Marked(Q, S, U) : \E o \in Q : o.tick = y.tick /\ Key(o) = Key(y)
<1>1. \A o \in U : Failed(o).tick = o.tick /\ Key(Failed(o)) = Key(o)
  BY FailedType DEF Key
<1> HIDE DEF Failed, Key
<1>2. \A y \in Marked(Q, S, U) :
        \/ y \in Q /\ y \notin S
        \/ \E o \in U : y = Failed(o) /\ y.tick = o.tick /\ Key(y) = Key(o)
  BY <1>1 DEF Marked
<1> QED BY <1>2 DEF Keyed

(* What a step does to the queue is one of five things.                    *)
LEMMA CopiesStep ==
  ASSUME Poison = {}, IInv, CopiesInv, [Next]_vars
  PROVE  CopiesInv'
<1> USE DEF IInv
<1>1. /\ outbound \in SUBSET Queued /\ ticks \in Nat /\ checkpoint \in Nat
      /\ disk.outbound \in SUBSET Queued /\ disk.ticks \in Nat
      /\ failures \in Nat /\ resyncs \in Nat /\ Causes \in Nat
  BY DEF TypeOK, CaptureTypeOK, Causes
<1>2. Keyed(outbound) /\ Keyed(disk.outbound)
  BY DEF CopiesInv, Counted
<1>3. ASSUME NEW n \in Nat, Causes <= n
      PROVE  /\ Counted(outbound, checkpoint, ticks, n)
             /\ Counted(disk.outbound, disk.checkpoint, disk.ticks, n)
  <2>1. \A r \in Pair : \A k : Causes + Passed(r, k) <= n + Passed(r, k)
    BY <1>1, <1>3 DEF Passed
  <2> QED BY <1>1, <1>2, <2>1, CountKept DEF CopiesInv
<1>16. ASSUME /\ UNCHANGED <<checkpoint, ticks, disk, resyncs>>
              /\ failures' \in {failures, failures + 1}
              /\ Keyed(outbound')
              /\ \A y \in outbound' : \E o \in outbound : o.tick = y.tick /\ Key(o) = Key(y)
       PROVE  CopiesInv'
  <2>1. Causes' \in Nat /\ Causes <= Causes'
    <3>1. /\ resyncs \in Nat /\ failures \in Nat
          /\ resyncs' = resyncs /\ (failures' = failures \/ failures' = failures + 1)
      BY <1>1, <1>16
    <3> HIDE DEF IInv
    <3> QED BY <3>1 DEF Causes
  <2>2. \A r \in Pair : \A k : Causes + Passed(r, k) <= Causes' + Passed(r, k)
    <3> HIDE DEF IInv, Causes
    <3>1. Causes \in Nat
      BY <1>1
    <3>2. \A r \in Pair : \A k : Passed(r, k) \in Nat
      BY DEF Passed
    <3> QED BY <2>1, <3>1, <3>2
  <2>3. Counted(outbound', checkpoint, ticks, Causes')
    <3>1. Counted(outbound, checkpoint, ticks, Causes)
      BY DEF CopiesInv
    <3> HIDE DEF IInv, Causes
    <3> QED BY <1>1, <1>16, <2>1, <2>2, <3>1, CountKept
  <2>4. Counted(disk.outbound, disk.checkpoint, disk.ticks, Causes')
    BY <1>3, <2>1
  <2> QED BY <1>16, <2>3, <2>4 DEF CopiesInv
<1>17. ASSUME NEW rows \in SUBSET Fetched
       PROVE  LET T == Enqueue(rows) IN
              /\ outbound \subseteq T
              /\ \A y \in T \ outbound : y.tick = ticks /\ Key(y) \in Fetched
              /\ \A y, z \in T \ outbound : Key(y) = Key(z) => y = z
  BY EnqueueAdds
<1>18. Fetched \in SUBSET Pair /\ \A q \in Pair : \A k : Passed(q, k) \in Nat
  BY FetchedType DEF Passed, Pair
<1>4. CASE Local(Tick)
  <2>1. /\ outbound' = Enqueue(Fetched) /\ ticks' = ticks + 1
        /\ UNCHANGED <<failures, resyncs, disk>>
    BY <1>4 DEF Local, Tick
  <2>2. PICK last \in Fetched : (\A j \in Fetched : j[1] <= last[1]) /\ checkpoint' = last[1]
    BY <1>4 DEF Local, Tick, Advance
  <2>3. ASSUME NEW r \in Pair
        PROVE  /\ r \in Fetched => Passed(r, checkpoint) + 1 <= Passed(r, last[1])
               /\ r \notin Fetched => Passed(r, checkpoint) <= Passed(r, last[1])
    <3>1. /\ last[1] \in Nat /\ checkpoint < last[1] /\ r[1] \in Nat
          /\ r \in Fetched => checkpoint < r[1]
      BY FetchedType DEF Pair, Row
    <3> QED BY <1>1, <2>2, <3>1 DEF Passed
  <2>4. Counted(outbound', last[1], ticks + 1, Causes)
    <3>1. /\ outbound \subseteq outbound'
          /\ \A y \in outbound' \ outbound : y.tick = ticks /\ Key(y) \in Fetched
          /\ \A y, z \in outbound' \ outbound : Key(y) = Key(z) => y = z
      BY <2>1, <1>17
    <3>3. /\ \A r \in Fetched : Causes + Passed(r, checkpoint) + 1 <= Causes + Passed(r, last[1])
          /\ \A r \in Pair \ Fetched : Causes + Passed(r, checkpoint) <= Causes + Passed(r, last[1])
      BY <1>1, <1>18, <2>3
    <3>4. Counted(outbound, checkpoint, ticks, Causes)
      BY DEF CopiesInv
    <3> DEFINE top == last[1]
    <3> HIDE DEF IInv, Causes, top
    <3>5. Counted(outbound', top, ticks + 1, Causes)
      BY <1>1, <1>18, <3>1, <3>3, <3>4, CountGrows DEF top
    <3> QED BY <3>5 DEF top
  <2> QED BY <2>1, <2>2, <2>4 DEF CopiesInv, Causes
<1>5. CASE Local(TickFails) \/ Stop(TickCut)
  <2>1. PICK j \in Fetched : outbound' = Enqueue(Before(Fetched, j) \cup {j})
    BY <1>5 DEF Local, Stop, TickCut, TickFails, TickBreaksOff
  <2>2. /\ ticks' = ticks + 1 /\ failures' = failures + 1
        /\ UNCHANGED <<checkpoint, resyncs, disk>>
    BY <1>5 DEF Local, Stop, TickCut, TickFails, TickBreaksOff
  <2>3. Counted(outbound', checkpoint, ticks + 1, Causes + 1)
    <3>1. /\ outbound \subseteq outbound'
          /\ \A y \in outbound' \ outbound : y.tick = ticks /\ Key(y) \in Fetched
          /\ \A y, z \in outbound' \ outbound : Key(y) = Key(z) => y = z
      <4>1. Before(Fetched, j) \cup {j} \subseteq Fetched
        BY DEF Before
      <4> QED BY <2>1, <4>1, <1>17
    <3> DEFINE more == Causes + 1
    <3>3. /\ \A q \in Fetched : Causes + Passed(q, checkpoint) + 1 <= more + Passed(q, checkpoint)
          /\ \A q \in Pair \ Fetched : Causes + Passed(q, checkpoint) <= more + Passed(q, checkpoint)
          /\ more \in Nat
      BY <1>1, <1>18
    <3>4. Counted(outbound, checkpoint, ticks, Causes)
      BY DEF CopiesInv
    <3> HIDE DEF IInv, Causes, more
    <3>5. Counted(outbound', checkpoint, ticks + 1, more)
      <4>1. outbound \in SUBSET Queued /\ ticks \in Nat /\ Causes \in Nat /\ Fetched \in SUBSET Pair
        BY <1>1, <1>18
      <4> DEFINE T == outbound'
      <4> HIDE DEF T
      <4>2. /\ outbound \subseteq T
            /\ \A y \in T \ outbound : y.tick = ticks /\ Key(y) \in Fetched
            /\ \A y, z \in T \ outbound : Key(y) = Key(z) => y = z
        BY <3>1 DEF T
      <4>3. Counted(T, checkpoint, ticks + 1, more)
        BY <3>3, <3>4, <4>1, <4>2, CountGrows
      <4> QED BY <4>3 DEF T
    <3> QED BY <3>5 DEF more
  <2>4. Causes' = Causes + 1
    BY <1>1, <2>2 DEF Causes
  <2>5. Counted(disk.outbound, disk.checkpoint, disk.ticks, Causes + 1)
    BY <1>1, <1>3
  <2> QED BY <2>2, <2>3, <2>4, <2>5 DEF CopiesInv
<1>6. CASE Local(TickRaises)
  BY <1>6 DEF Local, TickRaises, Raising
<1>7. CASE BatchFailed \/ BatchTimesOut \/ BatchFailedCut
  <2>1. PICK S \in SUBSET sending : outbound' = Postponed(S)
    BY <1>7 DEF BatchFailed, BatchTimesOut, BatchFailedCut, Stop, DrainFailed, DrainFailedCut,
       Firsts
  <2>2. UNCHANGED <<checkpoint, ticks, disk, resyncs>> /\ failures' \in {failures, failures + 1}
    BY <1>7 DEF BatchFailed, BatchTimesOut, BatchFailedCut, Stop, DrainFailed, DrainFailedCut
  <2>3. S \in SUBSET outbound
    BY DEF AwaitedBatch
  <2>4. /\ Keyed(outbound')
        /\ \A y \in outbound' : \E o \in outbound : o.tick = y.tick /\ Key(o) = Key(y)
    <3>1. outbound' = Marked(outbound, S, S)
      BY <2>1, Zenon DEF Postponed, Marked
    <3>2. outbound \in SUBSET Queued
      BY <1>1
    <3> HIDE DEF IInv
    <3> QED BY <1>2, <2>3, <3>1, <3>2, MarkedKeeps
  <2> QED BY <1>1, <1>16, <2>2, <2>4
<1>8. CASE BatchRejected \/ BatchRejectedCut
  <2>1. PICK S \in SUBSET sending : outbound' = Refused(S)
    BY <1>8 DEF BatchRejected, BatchRejectedCut, Stop, DrainRejected, DrainRejectedCut, Firsts
  <2>2. UNCHANGED <<checkpoint, ticks, disk, resyncs>> /\ failures' \in {failures, failures + 1}
    BY <1>8 DEF BatchRejected, BatchRejectedCut, Stop, DrainRejected, DrainRejectedCut
  <2>3. S \in SUBSET outbound /\ S \ GivenUp(S) \in SUBSET S
    BY DEF AwaitedBatch
  <2>4. /\ Keyed(outbound')
        /\ \A y \in outbound' : \E o \in outbound : o.tick = y.tick /\ Key(o) = Key(y)
    <3>1. outbound' = Marked(outbound, S, S \ GivenUp(S))
      BY <2>1, Zenon DEF Refused, Marked
    <3>2. outbound \in SUBSET Queued
      BY <1>1
    <3> HIDE DEF IInv
    <3> QED BY <1>2, <2>3, <3>1, <3>2, MarkedKeeps
  <2> QED BY <1>1, <1>16, <2>2, <2>4
<1>9. CASE BatchAccepted \/ BatchStays
  <2>1. /\ outbound' = outbound \ sending \/ outbound' = outbound
        /\ UNCHANGED <<checkpoint, ticks, disk, resyncs>> /\ failures' \in {failures, failures + 1}
    BY <1>9 DEF BatchAccepted, BatchStays, DrainSent, DrainSentFails
  <2>2. /\ Keyed(outbound')
        /\ \A y \in outbound' : \E o \in outbound : o.tick = y.tick /\ Key(o) = Key(y)
    BY <1>2, <2>1 DEF Keyed
  <2> QED BY <1>1, <1>16, <2>1, <2>2
<1>10. CASE \E o \in outbound : Local(BackoffOver(o))
  <2>1. PICK o \in outbound : Local(BackoffOver(o))
    BY <1>10
  <2>2. /\ outbound' = (outbound \ {o}) \cup {[o EXCEPT !.ready = TRUE]}
        /\ UNCHANGED <<checkpoint, ticks, disk, resyncs, failures>>
    BY <2>1 DEF Local, BackoffOver
  <2> DEFINE p == [o EXCEPT !.ready = TRUE]
  <2>3. p.tick = o.tick /\ Key(p) = Key(o)
    BY <1>1 DEF Queued, Key
  <2>5. outbound' = (outbound \ {o}) \cup {p}
    BY <2>2
  <2> HIDE DEF p, IInv, Key
  <2>4. /\ Keyed(outbound')
        /\ \A y \in outbound' : \E q \in outbound : q.tick = y.tick /\ Key(q) = Key(y)
    BY <1>2, <2>3, <2>5 DEF Keyed
  <2> QED BY <1>1, <1>16, <2>2, <2>4
<1>11. CASE Local(Resync)
  <2>1. /\ checkpoint' = 0 /\ resyncs' = resyncs + 1
        /\ UNCHANGED <<outbound, ticks, failures, disk>>
    BY <1>11 DEF Local, Resync
  <2>2. Causes' = Causes + 1
    BY <1>1, <2>1 DEF Causes
  <2>3. \A r \in Pair : Causes + Passed(r, checkpoint) <= Causes + 1 + Passed(r, 0)
    BY <1>1 DEF Passed, Pair, Row
  <2>4. Counted(outbound, 0, ticks, Causes + 1)
    <3>1. Counted(outbound, checkpoint, ticks, Causes) /\ Causes + 1 \in Nat
      BY <1>1 DEF CopiesInv
    <3> HIDE DEF IInv, Causes
    <3> QED BY <1>1, <1>2, <2>3, <3>1, CountKept
  <2>5. Counted(disk.outbound, disk.checkpoint, disk.ticks, Causes + 1)
    BY <1>1, <1>3
  <2> QED BY <2>1, <2>2, <2>4, <2>5 DEF CopiesInv
<1>12. CASE Stop(Revoke)
  <2>1. /\ checkpoint' = 0 /\ outbound' = {}
        /\ UNCHANGED <<ticks, failures, resyncs, disk>>
    BY <1>12 DEF Stop, Revoke
  <2>2. \A r \in Pair : Cardinality(TicksOf({}, r)) = 0
    <3>1. \A r \in Pair : TicksOf({}, r) = {}
      BY DEF TicksOf
    <3> QED BY <3>1, FS_EmptySet
  <2>3. Counted({}, 0, ticks, Causes)
    BY <1>1, <2>2 DEF Counted, Keyed, Passed
  <2> QED BY <2>1, <2>3 DEF CopiesInv, Causes
<1>13. CASE Stop(PowerLost)
  <2>1. /\ outbound' = disk.outbound /\ ticks' = disk.ticks /\ checkpoint' = disk.checkpoint
        /\ failures' = failures + 1 /\ UNCHANGED <<resyncs, disk>>
    BY <1>13 DEF Stop, PowerLost, BackAsItWas
  <2>2. Causes' = Causes + 1
    BY <1>1, <2>1 DEF Causes
  <2>3. Counted(disk.outbound, disk.checkpoint, disk.ticks, Causes + 1)
    BY <1>1, <1>3
  <2> QED BY <2>1, <2>2, <2>3 DEF CopiesInv
<1>14. CASE Synced
  <2>1. disk' = Durable /\ UNCHANGED <<outbound, checkpoint, ticks, failures, resyncs>>
    BY <1>14 DEF Synced, captureVars
  <2>2. /\ disk'.outbound = outbound /\ disk'.checkpoint = checkpoint
        /\ disk'.ticks = ticks
    BY <2>1 DEF Durable
  <2> QED BY <2>1, <2>2 DEF CopiesInv, Causes
<1>15. CASE \/ IngestAccepts \/ IngestRejects \/ IngestFails
            \/ \E ms \in late : LateIngest(ms) \/ LateLost(ms)
            \/ Local(NewRow) \/ SendBatch \/ Local(Pause) \/ Local(Resume) \/ Local(Start)
            \/ Stop(Crash) \/ UNCHANGED vars
  <2>1. /\ UNCHANGED <<outbound, checkpoint, ticks, disk, resyncs>>
        /\ failures' \in {failures, failures + 1}
    BY <1>15 DEF IngestAccepts, IngestRejects, IngestFails, Answer, LateIngest, LateLost, Local,
       NewRow, SendBatch, DrainStart, Pause, Resume, Start, Stop, Crash, captureVars, vars
  <2> QED BY <1>1, <1>2, <1>16, <2>1
<1> QED
  BY <1>4, <1>5, <1>6, <1>7, <1>8, <1>9, <1>10, <1>11, <1>12, <1>13, <1>14, <1>15
  DEF Next, Pump, Forward

(* The number of copies is bounded by the causes of repetition.            *)
LEMMA FewCopies ==
  ASSUME TypeOK, CopiesInv
  PROVE  \A r \in Row, c \in Copy : CopiesOf(r, c) <= 1 + failures + resyncs
<1>1. outbound \in SUBSET Queued /\ ticks \in Nat /\ failures \in Nat /\ resyncs \in Nat
  BY DEF TypeOK, CaptureTypeOK
<1>2. (\A o \in outbound : o.tick < ticks) /\ Keyed(outbound)
  BY DEF CopiesInv, Counted
<1> TAKE r \in Row, c \in Copy
<1> DEFINE q == <<r, c>>
           C == {o \in outbound : o.row = r /\ o.conv = c}
           f == [o \in C |-> o.tick]
<1>3. IsFiniteSet(TicksOf(outbound, q)) /\ Cardinality(TicksOf(outbound, q)) \in Nat
  BY <1>1, <1>2, TicksAreFinite
<1>4. f \in Injection(C, TicksOf(outbound, q))
  <2>1. \A o \in C : o.tick \in TicksOf(outbound, q)
    BY DEF TicksOf, Key
  <2>2. \A o, p \in C : o.tick = p.tick => o = p
    BY <1>2 DEF Keyed, Key
  <2> QED BY <2>1, <2>2 DEF Injection, IsInjective
<1>5. IsFiniteSet(C) /\ Cardinality(C) <= Cardinality(TicksOf(outbound, q))
  <2> HIDE DEF f, C
  <2> QED BY <1>3, <1>4, FS_Injection
<1>6. Cardinality(C) \in Nat
  BY <1>5, FS_CardinalityType
<1>7. Cardinality(TicksOf(outbound, q)) <= failures + resyncs + Passed(q, checkpoint)
  <2>1. q \in Pair
    BY DEF Pair
  <2> HIDE DEF q
  <2> QED BY <2>1 DEF CopiesInv, Counted, Causes
<1>8. Passed(q, checkpoint) \in Nat /\ Passed(q, checkpoint) <= 1
  BY DEF Passed
<1> QED BY <1>1, <1>3, <1>5, <1>6, <1>7, <1>8 DEF CopiesOf

(* The copy of a message for one chat is queued again only after a resync, *)
(* a crash, a loss of power or a failed write: the pump by itself never    *)
(* repeats what it has read, however ticks, batches and retries interleave.*)
THEOREM RepeatsAreCaused == Spec => []RepeatsNeedACause
<1>1. ASSUME Poison # {} PROVE Spec => []RepeatsNeedACause
  <2>1. RepeatsNeedACause
    BY <1>1 DEF RepeatsNeedACause
  <2> QED BY <2>1, PTL
<1>2. ASSUME Poison = {} PROVE Spec => []RepeatsNeedACause
  <2>1. Init => CopiesInv
    <3> SUFFICES ASSUME Init PROVE CopiesInv
      OBVIOUS
    <3>1. /\ outbound = {} /\ ticks = 0 /\ checkpoint = 0 /\ failures = 0 /\ resyncs = 0
          /\ disk.outbound = {} /\ disk.ticks = 0 /\ disk.checkpoint = 0
      BY DEF Init, CaptureInit, Durable
    <3>2. \A r \in Pair : TicksOf({}, r) = {}
      BY DEF TicksOf
    <3>3. \A r \in Pair : Cardinality(TicksOf({}, r)) = 0
      BY <3>2, FS_EmptySet
    <3> QED BY <3>1, <3>3 DEF CopiesInv, Counted, Keyed, Causes, Passed
  <2>2. IInv /\ CopiesInv /\ [Next]_vars => CopiesInv'
    BY <1>2, CopiesStep
  <2>3. IInv /\ CopiesInv => RepeatsNeedACause
    BY FewCopies DEF IInv, RepeatsNeedACause
  <2> QED BY <2>1, <2>2, <2>3, Invariance, PTL DEF Spec
<1> QED BY <1>1, <1>2
=============================================================================
