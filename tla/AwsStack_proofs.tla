---------------------------- MODULE AwsStack_proofs ----------------------------
(***************************************************************************)
(* Proofs about AwsStack, for every number of devices, codes, messages and *)
(* POSTs, whatever entries SQS refuses.                                    *)
(***************************************************************************)
EXTENDS AwsStack, TLAPS, FiniteSetTheorems

(* A code has one transaction at a time, and a used code none.             *)
OneTransaction ==
  /\ \A q \in enroll : q.at = "found" => code[q.code] # "used"
  /\ \A p, q \in enroll :
       p.at = "found" /\ q.at = "found" /\ p.code = q.code => p = q

PairedIsUsed == \A d \in Device : \A c \in pairedBy[d] : code[c] = "used"

CommittedIsEnrolled ==
  \A q \in enroll : q.at = "committed" => device[q.device] = "enrolled"

EnrollInv ==
  /\ EnrollTypeOK /\ CodePairsOne /\ AttestedIsEnrolled
  /\ OneTransaction /\ PairedIsUsed /\ CommittedIsEnrolled /\ UsedCodeEnrolled

(* What is on its way, in S3 or in a row was captured, and posted, before. *)
Deliveries ==
  /\ unacked \subseteq 1..chat /\ batch \subseteq 1..chat /\ unsent \subseteq batch
  /\ answer # "none" => posts # 0
  /\ answer = "202" => unsent = {}
  /\ \A x \in queue \cup taken : x.at <= posts /\ x.row <= chat
  /\ \A x \in queue : x.receives < MaxReceives
  /\ objects \subseteq Row \X (1..posts)
  /\ \A r \in Row : Indexed(r) => r <= chat
  /\ \A r \in Row : Indexed(r) <=> meta[r].at # 0

(* The object of the record at hand is there before its row.               *)
StoredIsThere ==
  stored => todo # {} /\ \A x \in todo : AtHand(x) => Object(x) \in objects

PathInv == ArchiveTypeOK /\ Deliveries /\ IndexedIsStored /\ StoredIsThere

IInv == EnrollInv /\ PathInv

USE ArchiveAssumption, SenderAssumption DEF ArchiveAssumption

LEMMA InitInv == Init => IInv
<1> SUFFICES ASSUME Init PROVE IInv
  OBVIOUS
<1>1. EnrollInv
  BY DEF Init, EnrollInit, EnrollInv, EnrollTypeOK, CodePairsOne, AttestedIsEnrolled,
     OneTransaction, PairedIsUsed, CommittedIsEnrolled, UsedCodeEnrolled
<1>2. PathInv
  <2> USE DEF Init, ArchiveInit
  <2>1. 0 \in 0..MaxRow /\ 0 \in 0..MaxForm
    OBVIOUS
  <2>2. meta \in [Row -> [seq : Nat, at : 0..MaxForm]] /\ \A r \in Row : ~Indexed(r)
    BY <2>1 DEF Indexed
  <2>3. ArchiveTypeOK
    BY <2>1, <2>2 DEF ArchiveTypeOK
  <2>4. Deliveries
    BY <2>2 DEF Deliveries, Indexed
  <2> QED BY <2>2, <2>3, <2>4 DEF PathInv, IndexedIsStored, StoredIsThere
<1> QED BY <1>1, <1>2 DEF IInv

-----------------------------------------------------------------------------
(* Enrollment.                                                             *)

(* A commit pairs one code, whose transaction ends.                        *)
LEMMA CommitInv ==
  ASSUME EnrollInv, NEW q \in enroll, EnrollCommit(q)
  PROVE  EnrollInv'
<1> USE DEF EnrollInv
<1> DEFINE m == [q EXCEPT !.at = "committed"]
<1>1. /\ q.at = "found" /\ q.code \in Code /\ q.device \in Device
      /\ m \in [at : {"found", "committed"}, code : Code, device : Device]
      /\ m.at = "committed" /\ m.code = q.code /\ m.device = q.device
  BY DEF EnrollTypeOK, EnrollCommit
<1>2. /\ code' = [code EXCEPT ![q.code] = "used"] /\ device[q.device] = "none"
      /\ device' = [device EXCEPT ![q.device] = "enrolled"]
      /\ pairedBy' = [pairedBy EXCEPT ![q.device] = @ \cup {q.code}]
      /\ enroll' = (enroll \ {q}) \cup {m} /\ UNCHANGED attested
  BY DEF EnrollCommit, Registered
<1> HIDE DEF m
<1>3. /\ code'[q.code] = "used" /\ \A c \in Code : c # q.code => code'[c] = code[c]
      /\ device'[q.device] = "enrolled"
      /\ \A d \in Device : d # q.device => device'[d] = device[d]
      /\ pairedBy'[q.device] = pairedBy[q.device] \cup {q.code}
      /\ \A d \in Device : d # q.device => pairedBy'[d] = pairedBy[d]
  BY <1>1, <1>2 DEF EnrollTypeOK
<1>4. enroll \subseteq [at : {"found", "committed"}, code : Code, device : Device]
  BY DEF EnrollTypeOK
<1>5. code[q.code] # "used"
  BY <1>1 DEF OneTransaction
<1>6. EnrollTypeOK'
  BY <1>1, <1>2 DEF EnrollTypeOK
<1>7. CodePairsOne'
  <2>1. \A d \in Device : q.code \notin pairedBy[d]
    BY <1>5 DEF PairedIsUsed
  <2> QED BY <1>3, <2>1 DEF CodePairsOne
<1>8. AttestedIsEnrolled'
  BY <1>2, <1>3 DEF AttestedIsEnrolled, EnrollTypeOK
<1>9. OneTransaction'
  <2>1. ASSUME NEW p \in enroll', p.at = "found"
        PROVE  p \in enroll /\ p # q
    BY <1>1, <1>2, <2>1
  <2>2. ASSUME NEW p \in enroll', p.at = "found"
        PROVE  code'[p.code] # "used"
    <3>1. p.code # q.code /\ p.code \in Code
      BY <1>1, <1>4, <2>1, <2>2 DEF OneTransaction
    <3> QED BY <1>3, <2>1, <2>2, <3>1 DEF OneTransaction
  <2> QED BY <2>1, <2>2 DEF OneTransaction
<1>10. PairedIsUsed'
  BY <1>1, <1>3 DEF PairedIsUsed, EnrollTypeOK
<1>11. CommittedIsEnrolled'
  BY <1>1, <1>2, <1>3, <1>4 DEF CommittedIsEnrolled
<1>12. UsedCodeEnrolled'
  BY <1>1, <1>2, <1>3 DEF UsedCodeEnrolled
<1> QED BY <1>6, <1>7, <1>8, <1>9, <1>10, <1>11, <1>12

LEMMA EnrollNextInv ==
  ASSUME EnrollInv, EnrollNext
  PROVE  EnrollInv'
<1> USE DEF EnrollInv
<1>1. ASSUME NEW c \in Code, IssueCode(c) \/ Expire(c) PROVE EnrollInv'
  <2>1. /\ UNCHANGED <<device, pairedBy, enroll, attested>>
        /\ code' \in [Code -> {"none", "unused", "used", "expired"}]
        /\ \A e \in Code : code'[e] = "used" <=> code[e] = "used"
    BY <1>1 DEF IssueCode, Expire, EnrollTypeOK
  <2>2. /\ \A q \in enroll : q.code \in Code
        /\ \A d \in Device : pairedBy[d] \subseteq Code
    BY DEF EnrollTypeOK
  <2>3. OneTransaction' /\ PairedIsUsed'
    BY <2>1, <2>2 DEF OneTransaction, PairedIsUsed
  <2> QED BY <2>1, <2>3 DEF EnrollTypeOK, CodePairsOne, AttestedIsEnrolled,
             CommittedIsEnrolled, UsedCodeEnrolled
<1>2. ASSUME NEW c \in Code, NEW d \in Device, EnrollLookup(c, d) PROVE EnrollInv'
  <2>1. /\ enroll' = enroll \cup {Found(c, d)} /\ code[c] = "unused"
        /\ \A q \in enroll : ~(q.at = "found" /\ q.code = c)
        /\ UNCHANGED <<code, device, pairedBy, attested>>
    BY <1>2 DEF EnrollLookup
  <2>2. /\ Found(c, d) \in [at : {"found", "committed"}, code : Code, device : Device]
        /\ Found(c, d).at = "found" /\ Found(c, d).code = c
    BY DEF Found
  <2>3. EnrollTypeOK' /\ CodePairsOne' /\ AttestedIsEnrolled' /\ PairedIsUsed'
    BY <2>1, <2>2 DEF EnrollTypeOK, CodePairsOne, AttestedIsEnrolled, PairedIsUsed
  <2>4. OneTransaction' /\ CommittedIsEnrolled' /\ UsedCodeEnrolled'
    BY <2>1, <2>2 DEF OneTransaction, CommittedIsEnrolled, UsedCodeEnrolled
  <2> QED BY <2>3, <2>4
<1>3. ASSUME NEW q \in enroll, EnrollRollback(q) \/ StoreAttestation(q) \/ StoreFails(q)
      PROVE  EnrollInv'
  <2>1. /\ enroll' = enroll \ {q} /\ UNCHANGED <<code, device, pairedBy>>
        /\ attested' = attested \/ (q.at = "committed" /\ attested' = attested \cup {q.device})
    BY <1>3 DEF EnrollRollback, StoreAttestation, StoreFails
  <2>2. q.device \in Device
    BY DEF EnrollTypeOK
  <2>3. EnrollTypeOK' /\ AttestedIsEnrolled'
    BY <2>1, <2>2 DEF EnrollTypeOK, AttestedIsEnrolled, CommittedIsEnrolled
  <2> QED BY <2>1, <2>3 DEF CodePairsOne, OneTransaction, PairedIsUsed, CommittedIsEnrolled,
             UsedCodeEnrolled
<1> QED BY <1>1, <1>2, <1>3, CommitInv DEF EnrollNext

(* PathInv speaks of the path of the messages alone.                       *)
LEMMA PathKept ==
  ASSUME PathInv, UNCHANGED archiveVars
  PROVE  PathInv'
BY DEF PathInv, ArchiveTypeOK, Deliveries, IndexedIsStored, StoredIsThere, Indexed, AtHand,
   Object, archiveVars

(* What the path of the messages does to enrollment: a device row where    *)
(* there was none, at most.                                                *)
DevicesKept ==
  /\ UNCHANGED <<code, pairedBy, enroll, attested>>
  /\ UNCHANGED device \/ Placeholder

LEMMA PlaceholderInv ==
  ASSUME EnrollInv, DevicesKept
  PROVE  EnrollInv'
<1> USE DEF EnrollInv
<1>1. /\ device' \in [Device -> {"none", "enrolled", "placeholder"}]
      /\ \A d \in Device : device[d] = "enrolled" => device'[d] = "enrolled"
  BY DEF DevicesKept, Placeholder, EnrollTypeOK
<1>2. UNCHANGED <<code, pairedBy, enroll, attested>>
  BY DEF DevicesKept
<1>3. EnrollTypeOK' /\ CodePairsOne' /\ OneTransaction' /\ PairedIsUsed'
  BY <1>1, <1>2 DEF EnrollTypeOK, CodePairsOne, OneTransaction, PairedIsUsed
<1>4. AttestedIsEnrolled' /\ CommittedIsEnrolled' /\ UsedCodeEnrolled'
  BY <1>1, <1>2 DEF AttestedIsEnrolled, CommittedIsEnrolled, UsedCodeEnrolled, EnrollTypeOK
<1> QED BY <1>3, <1>4

-----------------------------------------------------------------------------
(* The path of the messages.                                               *)

LEMMA RowIsFinite == IsFiniteSet(Row) /\ NextSeq \in Nat \ {0}
<1>1. IsFiniteSet(Row)
  BY FS_Interval DEF Row
<1>2. IsFiniteSet({r \in Row : Indexed(r)})
  BY <1>1, FS_Subset
<1> QED BY <1>1, <1>2, FS_CardinalityType DEF NextSeq

(* A captured message, and a POST with what becomes of it.                 *)
LEMMA PostStep ==
  ASSUME PathInv, Capture \/ Post \/ SendEntry \/ Accept \/ IngestFails \/ Acked
  PROVE  PathInv'
<1> USE DEF PathInv
<1>1. UNCHANGED <<taken, todo, failures, stored, objects, meta, dlq>>
  BY DEF Capture, Post, SendEntry, Accept, IngestFails, Acked, agentVars, ingestVars
<1>2. /\ chat \in 0..MaxRow /\ posts \in 0..MaxForm
      /\ chat' \in 0..MaxRow /\ posts' \in 0..MaxForm /\ chat <= chat' /\ posts <= posts'
  BY DEF Capture, Post, SendEntry, Accept, IngestFails, Acked, agentVars, ingestVars,
     ArchiveTypeOK
<1>3. /\ unacked' \subseteq 1..chat' /\ batch' \subseteq 1..chat' /\ unsent' \subseteq batch'
      /\ answer' \in {"none", "wait", "202"} /\ (answer' # "none" => posts' # 0)
      /\ answer' = "202" => unsent' = {}
  <2> USE <1>2 DEF ArchiveTypeOK, Deliveries, agentVars, ingestVars
  <2>1. CASE Capture
    BY <2>1 DEF Capture
  <2>2. CASE Post
    BY <2>2 DEF Post
  <2>3. CASE SendEntry
    BY <2>3 DEF SendEntry
  <2>4. CASE Accept
    BY <2>4 DEF Accept
  <2>5. CASE IngestFails
    BY <2>5 DEF IngestFails
  <2>6. CASE Acked
    BY <2>6 DEF Acked
  <2> QED BY <2>1, <2>2, <2>3, <2>4, <2>5, <2>6
<1>4. 1..chat' \subseteq Row
  BY <1>2 DEF Row
<1>5. ASSUME NEW x \in queue'
      PROVE  x \in Record /\ x.at <= posts' /\ x.row <= chat' /\ x.receives < MaxReceives
  <2>1. CASE x \in queue
    <3>1. x.at \in 1..MaxForm /\ x.row \in 1..MaxRow /\ x.at <= posts /\ x.row <= chat
      BY <2>1 DEF ArchiveTypeOK, Deliveries, Record, Row
    <3> QED BY <1>2, <2>1, <3>1 DEF ArchiveTypeOK, Deliveries
  <2>2. CASE x \notin queue
    <3>1. PICK r \in unsent : /\ x = [row |-> r, at |-> posts, receives |-> 0]
                             /\ answer = "wait" /\ posts' = posts
      BY <2>2 DEF Capture, Post, SendEntry, Accept, IngestFails, Acked, agentVars, ingestVars
    <3>2. r \in 1..chat /\ r \in Row /\ posts \in 1..MaxForm /\ r <= chat'
      BY <3>1, <1>2, <1>4 DEF ArchiveTypeOK, Deliveries, Row
    <3> QED BY <3>1, <3>2, <1>2 DEF Record
  <2> QED BY <2>1, <2>2
<1>6. ASSUME NEW x \in taken PROVE x.at <= posts' /\ x.row <= chat'
  <2>1. x.at \in 1..MaxForm /\ x.row \in 1..MaxRow /\ x.at <= posts /\ x.row <= chat
    BY DEF ArchiveTypeOK, Deliveries, Record, Row
  <2> QED BY <1>2, <2>1
<1>7. objects' \subseteq Row \X (1..posts')
  <2>1. 1..posts \subseteq 1..posts'
    BY <1>2
  <2> QED BY <1>1, <2>1 DEF Deliveries
<1>8. \A r \in Row : Indexed(r)' => r <= chat'
  BY <1>1, <1>2 DEF Deliveries, Indexed, Row
<1>9. ArchiveTypeOK'
  <2>1. refused' \subseteq Row
    BY <1>2, <1>4 DEF Capture, Post, SendEntry, Accept, IngestFails, Acked, ingestVars, ArchiveTypeOK
  <2> QED BY <1>1, <1>2, <1>3, <1>4, <1>5, <2>1 DEF ArchiveTypeOK
<1>10. Deliveries'
  BY <1>1, <1>3, <1>5, <1>6, <1>7, <1>8 DEF Deliveries, Indexed
<1>11. IndexedIsStored' /\ StoredIsThere'
  BY <1>1 DEF IndexedIsStored, StoredIsThere, Indexed, AtHand, Object
<1> QED BY <1>9, <1>10, <1>11

(* An invocation begins: its records count one receive more.               *)
LEMMA ReceiveStep ==
  ASSUME PathInv, Receive
  PROVE  PathInv'
<1> USE DEF PathInv
<1> DEFINE up(x) == [x EXCEPT !.receives = @ + 1]
<1>1. PICK S \in Batches : taken' = {up(x) : x \in S} /\ queue' = queue \ S
  BY DEF Receive
<1>2. /\ taken = {} /\ todo' = taken' /\ S \subseteq queue
      /\ UNCHANGED <<agentVars, ingestVars, failures, stored, objects, meta, dlq>>
  BY DEF Receive, Batches
<1>3. ASSUME NEW x \in queue
      PROVE  up(x) \in Record /\ up(x).at = x.at /\ up(x).row = x.row
  <2>1. x \in Record /\ x.receives < MaxReceives
    BY DEF ArchiveTypeOK, Deliveries
  <2> QED BY <2>1 DEF Record
<1> HIDE DEF up
<1>4. ~stored /\ failures = {}
  BY <1>2 DEF ArchiveTypeOK, StoredIsThere
<1>5. ArchiveTypeOK'
  BY <1>1, <1>2, <1>3, <1>4 DEF ArchiveTypeOK, agentVars, ingestVars
<1>6. Deliveries'
  BY <1>1, <1>2, <1>3 DEF Deliveries, Indexed, agentVars, ingestVars
<1>7. IndexedIsStored' /\ StoredIsThere'
  BY <1>2, <1>4 DEF IndexedIsStored, StoredIsThere, Indexed
<1> QED BY <1>5, <1>6, <1>7

LEMMA PutStep ==
  ASSUME PathInv, NEW x \in todo, Put(x)
  PROVE  PathInv'
<1> USE DEF PathInv
<1>1. /\ AtHand(x) /\ stored' = TRUE /\ objects' = objects \cup {Object(x)}
      /\ UNCHANGED <<agentVars, ingestVars, queue, taken, todo, failures, meta, dlq>>
  BY DEF Put
<1>2. /\ x \in taken /\ x.row \in Row /\ x.at \in 1..MaxForm /\ x.at <= posts
      /\ posts \in Nat
  BY DEF ArchiveTypeOK, Deliveries, Record
<1>3. Object(x) \in Row \X (1..posts) /\ Object(x) \in Row \X Nat
  BY <1>2 DEF Object
<1>4. ArchiveTypeOK' /\ Deliveries'
  BY <1>1, <1>3 DEF ArchiveTypeOK, Deliveries, Indexed, agentVars, ingestVars
<1>5. IndexedIsStored'
  BY <1>1 DEF IndexedIsStored, Indexed
<1>6. ASSUME NEW y \in todo, AtHand(y) PROVE Object(y) = Object(x)
  <2>1. x \in Record /\ y \in Record
    BY DEF ArchiveTypeOK
  <2>2. x.at = y.at /\ x.row = y.row
    BY <1>1, <1>6, <2>1 DEF AtHand, Earlier, Record, Row
  <2> QED BY <2>2 DEF Object
<1>7. StoredIsThere'
  BY <1>1, <1>6 DEF StoredIsThere, AtHand, Object
<1> QED BY <1>4, <1>5, <1>7

(* The transaction's insert adds at most the row of the record at hand,    *)
(* and only where there was none.                                          *)
LEMMA InsertAdds ==
  ASSUME ArchiveTypeOK, NEW x \in todo, Inserted(x)
  PROVE  /\ meta' \in [Row -> [seq : Nat, at : 0..MaxForm]]
         /\ Indexed(x.row)'
         /\ \A r \in Row :
              \/ meta'[r] = meta[r]
              \/ r = x.row /\ ~Indexed(r) /\ Indexed(r)' /\ meta'[r].at = x.at
<1> DEFINE new == [seq |-> NextSeq, at |-> x.at]
<1>1. x.row \in Row /\ x.at \in 1..MaxForm
  BY DEF ArchiveTypeOK, Record
<1>2. new \in [seq : Nat, at : 0..MaxForm] /\ new.seq # 0 /\ new.at = x.at
  BY <1>1, RowIsFinite
<1>3. meta' = IF Indexed(x.row) THEN meta ELSE [meta EXCEPT ![x.row] = new]
  BY DEF Inserted
<1> HIDE DEF new
<1> QED BY <1>1, <1>2, <1>3 DEF Indexed, ArchiveTypeOK

(* The loop goes on to the next record, whether or not the row of this one *)
(* was inserted: if it was, its object is there.                           *)
LEMMA GoesOnStep ==
  ASSUME PathInv, NEW x \in todo, Index(x) \/ RecordFails(x)
  PROVE  PathInv'
<1> USE DEF PathInv
<1>1. /\ AtHand(x) /\ todo' = todo \ {x} /\ stored' = FALSE
      /\ failures' = failures \/ failures' = failures \cup {x}
      /\ UNCHANGED meta \/ (stored /\ Inserted(x))
      /\ UNCHANGED <<agentVars, ingestVars, queue, taken, objects, dlq>>
  BY DEF Index, RecordFails, GoesOn
<1>2. /\ x \in taken /\ x.row \in Row /\ x.at \in 1..MaxForm /\ x.row <= chat
  BY DEF ArchiveTypeOK, Deliveries, Record
<1>3. /\ meta' \in [Row -> [seq : Nat, at : 0..MaxForm]]
      /\ \A r \in Row :
           \/ meta'[r] = meta[r]
           \/ r = x.row /\ stored /\ ~Indexed(r) /\ Indexed(r)' /\ meta'[r].at = x.at
  BY <1>1, InsertAdds DEF ArchiveTypeOK
<1>4. ArchiveTypeOK'
  BY <1>1, <1>2, <1>3 DEF ArchiveTypeOK, agentVars, ingestVars
<1>5. Deliveries'
  <2>1. \A r \in Row : /\ Indexed(r)' => r <= chat
                       /\ Indexed(r)' <=> meta'[r].at # 0
    BY <1>2, <1>3 DEF Deliveries, Indexed
  <2>2. UNCHANGED <<chat, unacked, batch, posts, unsent, answer>>
    BY <1>1 DEF agentVars, ingestVars
  <2> QED BY <1>1, <2>1, <2>2 DEF Deliveries, Indexed
<1>6. IndexedIsStored'
  BY <1>1, <1>3 DEF IndexedIsStored, StoredIsThere, Indexed, Object
<1>7. StoredIsThere'
  BY <1>1 DEF StoredIsThere
<1> QED BY <1>4, <1>5, <1>6, <1>7

(* The end of an invocation.                                               *)
LEMMA SettledStep ==
  ASSUME PathInv, Report \/ WorkerDies
  PROVE  PathInv'
<1> USE DEF PathInv
<1>1. PICK P \in SUBSET taken : Settled(P)
  BY DEF Report, WorkerDies, ArchiveTypeOK
<1>2. /\ queue' = queue \cup {x \in P : x.receives < MaxReceives}
      /\ dlq' = dlq \cup {x.row : x \in {y \in P : y.receives >= MaxReceives}}
      /\ taken' = {} /\ todo' = {} /\ failures' = {} /\ stored' = FALSE
      /\ UNCHANGED <<agentVars, ingestVars, objects, meta>>
  BY <1>1 DEF Settled, Report, WorkerDies
<1>3. P \subseteq Record
  BY DEF ArchiveTypeOK
<1>4. ArchiveTypeOK'
  BY <1>2, <1>3 DEF ArchiveTypeOK, Record, agentVars, ingestVars
<1>5. Deliveries'
  BY <1>2 DEF Deliveries, Indexed, agentVars, ingestVars
<1>6. IndexedIsStored' /\ StoredIsThere'
  BY <1>2 DEF IndexedIsStored, StoredIsThere, Indexed
<1> QED BY <1>4, <1>5, <1>6

-----------------------------------------------------------------------------
(* The whole.                                                              *)

(* The steps of the path, as Next has them, and what each leaves alone.    *)
PathStep ==
  \/ Capture \/ Post \/ SendEntry \/ Accept \/ IngestFails \/ Acked
  \/ Receive \/ Report \/ WorkerDies
  \/ \E x \in todo : Put(x) \/ Index(x) \/ RecordFails(x)

LEMMA PathStepInv ==
  ASSUME PathInv, PathStep
  PROVE  PathInv'
BY PostStep, ReceiveStep, PutStep, GoesOnStep, SettledStep DEF PathStep

(* A step is one of enrollment, or one of the path, which may add a device *)
(* row.                                                                    *)
LEMMA NextSplits ==
  ASSUME Next
  PROVE  \/ EnrollNext /\ UNCHANGED archiveVars
         \/ PathStep /\ DevicesKept
BY DEF Next, Worker, Alone, AuthorizedPost, WithPlaceholder, PathStep, DevicesKept, enrollVars

LEMMA NextInv == IInv /\ [Next]_vars => IInv'
<1> SUFFICES ASSUME IInv, [Next]_vars PROVE IInv'
  OBVIOUS
<1>1. CASE UNCHANGED vars
  <2>1. UNCHANGED archiveVars /\ DevicesKept
    BY <1>1 DEF vars, enrollVars, DevicesKept
  <2> QED BY <2>1, PlaceholderInv, PathKept DEF IInv
<1>2. CASE EnrollNext /\ UNCHANGED archiveVars
  BY <1>2, EnrollNextInv, PathKept DEF IInv
<1>3. CASE PathStep /\ DevicesKept
  BY <1>3, PathStepInv, PlaceholderInv DEF IInv
<1> QED BY <1>1, <1>2, <1>3, NextSplits

LEMMA Invariance == Spec => []IInv
<1> QED BY InitInv, NextInv, PTL DEF Spec

(* "Codes expire and cannot be reused": whatever requests overlap, no two  *)
(* devices are enrolled with one code.                                     *)
THEOREM CodesPairOne == Spec => []CodePairsOne
<1>1. IInv => CodePairsOne
  BY DEF IInv, EnrollInv
<1> QED BY <1>1, Invariance, PTL

(* No attestation, which nothing can delete, is that of a device whose     *)
(* enrollment was rolled back.                                             *)
THEOREM AttestationsAreEnrolled == Spec => []AttestedIsEnrolled
<1>1. IInv => AttestedIsEnrolled
  BY DEF IInv, EnrollInv
<1> QED BY <1>1, Invariance, PTL

(* A consumed code stands for a device that keeps the key registered with  *)
(* it, whatever device ids the archiver meets and inserts.                 *)
THEOREM UsedCodesBuyKeys == Spec => []UsedCodeEnrolled
<1>1. IInv => UsedCodeEnrolled
  BY DEF IInv, EnrollInv
<1> QED BY <1>1, Invariance, PTL

(* Through failed puts, failed transactions, lost answers and dead         *)
(* Lambdas, a row of message_meta names an object that exists.             *)
THEOREM RowsHaveObjects == Spec => []IndexedIsStored
<1>1. IInv => IndexedIsStored
  BY DEF IInv, PathInv
<1> QED BY <1>1, Invariance, PTL

(* Every variable of the AWS stack keeps its type; in particular no record *)
(* is received more often than the queue's limit says.                     *)
THEOREM TypesHold == Spec => []TypeOK
<1>1. IInv => TypeOK
  BY DEF IInv, EnrollInv, PathInv, TypeOK
<1> QED BY <1>1, Invariance, PTL

(* "Idempotent across retries": however often a record is delivered again, *)
(* S3 has at most one object of its message for every POST.                *)
THEOREM ObjectsAreBounded == Spec => []OneObjectPerPost
<1>1. IInv => OneObjectPerPost
  <2> SUFFICES ASSUME IInv, NEW r \in Row PROVE Cardinality(ObjectsOf(r)) <= posts
    BY DEF OneObjectPerPost
  <2>1. posts \in Nat /\ objects \subseteq Row \X (1..posts)
    BY DEF IInv, PathInv, ArchiveTypeOK, Deliveries
  <2> DEFINE f == [o \in ObjectsOf(r) |-> o[2]]
  <2>2. f \in Injection(ObjectsOf(r), 1..posts)
    <3>1. \A o \in ObjectsOf(r) : o[2] \in 1..posts /\ o = <<r, o[2]>>
      BY <2>1 DEF ObjectsOf
    <3>2. f \in [ObjectsOf(r) -> 1..posts]
      BY <3>1
    <3>3. \A o, p \in ObjectsOf(r) : f[o] = f[p] => o = p
      BY <3>1
    <3> QED BY <3>2, <3>3 DEF Injection, IsInjective
  <2>3. IsFiniteSet(1..posts) /\ Cardinality(1..posts) = posts
    <3>1. 1 \in Int /\ posts \in Int
      BY <2>1
    <3>2. IsFiniteSet(1..posts) /\ Cardinality(1..posts) = IF 1 > posts THEN 0 ELSE posts - 1 + 1
      BY <3>1, FS_Interval
    <3> QED BY <2>1, <3>2
  <2> QED BY <2>2, <2>3, FS_Injection
<1> QED BY <1>1, Invariance, PTL

-----------------------------------------------------------------------------
(* What is accepted is kept.                                               *)

Settles(r) == InQueue(r) \/ Indexed(r) \/ r \in dlq

(* What the ingest Lambda is done with has reached the queue or was        *)
(* refused there, and what the loop of the archiver is done with has a     *)
(* row, or will be reported.                                               *)
Handled ==
  /\ \A r \in batch \ unsent : Settles(r) \/ r \in refused
  /\ \A x \in taken : x \in todo \/ x \in failures \/ Indexed(x.row)

(* The queue, the archive and the dead-letter queue lose no message        *)
(* between them.                                                           *)
LEMMA SettlesForGood ==
  ASSUME PathInv, Handled, PathStep, NEW r \in Row, Settles(r)
  PROVE  Settles(r)'
<1>1. CASE Capture \/ Post \/ SendEntry \/ Accept \/ IngestFails \/ Acked
           \/ \E x \in todo : Put(x)
  BY <1>1 DEF Capture, Post, SendEntry, Accept, IngestFails, Acked, Put, Settles, InQueue,
     Indexed
<1>2. CASE Receive
  <2>1. PICK S \in Batches :
          taken' = {[x EXCEPT !.receives = @ + 1] : x \in S} /\ queue' = queue \ S
    BY <1>2 DEF Receive
  <2>2. taken = {} /\ UNCHANGED <<meta, dlq>>
    BY <1>2 DEF Receive
  <2>3. \A x \in S : x \in Record /\ [x EXCEPT !.receives = @ + 1].row = x.row
    BY DEF PathInv, ArchiveTypeOK, Batches, Record
  <2>4. InQueue(r) => InQueue(r)'
    BY <2>1, <2>2, <2>3 DEF InQueue
  <2> QED BY <2>2, <2>4 DEF Settles, Indexed
<1>3. CASE \E x \in todo : Index(x) \/ RecordFails(x)
  <2>1. PICK x \in todo : Index(x) \/ RecordFails(x)
    BY <1>3
  <2>2. UNCHANGED <<queue, taken, dlq>> /\ (meta' = meta \/ Inserted(x))
    BY <2>1 DEF Index, RecordFails
  <2>3. Indexed(r) => Indexed(r)'
    BY <2>2, InsertAdds DEF PathInv, Indexed
  <2> QED BY <2>2, <2>3 DEF Settles, InQueue
<1>4. CASE Report \/ WorkerDies
  <2>1. PICK P \in SUBSET taken :
          Settled(P) /\ \A x \in taken : x \in P \/ Indexed(x.row)
    BY <1>4 DEF Report, WorkerDies, PathInv, ArchiveTypeOK, Handled
  <2>2. UNCHANGED meta
    BY <1>4 DEF Report, WorkerDies
  <2>3. ASSUME NEW x \in taken, x.row = r, x \in P PROVE Settles(r)'
    <3>1. x.receives \in Nat /\ MaxReceives \in Nat
      BY DEF PathInv, ArchiveTypeOK, Record
    <3> QED BY <2>1, <2>3, <3>1 DEF Settled, Settles, InQueue
  <2> QED BY <2>1, <2>2, <2>3 DEF Settled, Settles, InQueue, Indexed
<1> QED BY <1>1, <1>2, <1>3, <1>4 DEF PathStep

LEMMA HandledStep ==
  ASSUME PathInv, Handled, PathStep
  PROVE  Handled'
<1> USE DEF PathInv
<1>1. \A r \in Row : Settles(r) => Settles(r)'
  BY SettlesForGood
<1>2. ASSUME NEW r \in batch' \ unsent' PROVE Settles(r)' \/ r \in refused'
  <2>1. CASE SendEntry
    <3>1. PICK s \in unsent :
            /\ unsent' = unsent \ {s} /\ batch' = batch
            /\ \/ /\ queue' = queue \cup {[row |-> s, at |-> posts, receives |-> 0]}
                  /\ refused' = refused \ {s}
               \/ refused' = refused \cup {s}
      BY <2>1 DEF SendEntry, agentVars
    <3>2. r = s => InQueue(r)' \/ r \in refused'
      <4>1. \/ [row |-> s, at |-> posts, receives |-> 0] \in queue' \cup taken'
            \/ s \in refused'
        BY <3>1
      <4> QED BY <4>1 DEF InQueue
    <3> QED BY <1>1, <3>1, <3>2 DEF Handled, ArchiveTypeOK, Settles
  <2>2. CASE ~SendEntry
    <3>1. batch' \ unsent' \subseteq batch \ unsent
      BY <2>2 DEF PathStep, Capture, Post, Accept, IngestFails, Acked, Receive, Report,
         WorkerDies, Put, Index, RecordFails, agentVars, ingestVars, Deliveries
    <3>2. UNCHANGED refused
      BY <2>2 DEF PathStep, Capture, Post, Accept, IngestFails, Acked, Receive, Report,
         WorkerDies, Put, Index, RecordFails, ingestVars
    <3> QED BY <1>1, <3>1, <3>2 DEF Handled, ArchiveTypeOK
  <2> QED BY <2>1, <2>2
<1>3. ASSUME NEW y \in taken' PROVE y \in todo' \/ y \in failures' \/ Indexed(y.row)'
  <2>1. CASE Receive \/ Report \/ WorkerDies
    BY <2>1 DEF Receive, Report, WorkerDies, Settled
  <2>2. CASE Capture \/ Post \/ SendEntry \/ Accept \/ IngestFails \/ Acked
             \/ \E x \in todo : Put(x)
    BY <2>2 DEF Capture, Post, SendEntry, Accept, IngestFails, Acked, Put, Handled, Indexed
  <2>3. CASE \E x \in todo : Index(x) \/ RecordFails(x)
    <3>1. PICK x \in todo : Index(x) \/ RecordFails(x)
      BY <2>3
    <3>2. /\ taken' = taken /\ todo' = todo \ {x} /\ failures \subseteq failures'
          /\ x \in failures' \/ Inserted(x)
          /\ UNCHANGED meta \/ Inserted(x)
      BY <3>1 DEF Index, RecordFails, GoesOn
    <3>3. y.row \in Row
      BY <3>2 DEF ArchiveTypeOK, Record
    <3>4. Indexed(y.row) => Indexed(y.row)'
      BY <3>2, <3>3, InsertAdds DEF Indexed
    <3>5. Inserted(x) => Indexed(x.row)'
      BY InsertAdds
    <3> QED BY <3>2, <3>4, <3>5 DEF Handled
  <2> QED BY <2>1, <2>2, <2>3 DEF PathStep
<1> QED BY <1>2, <1>3 DEF Handled

(* A refused entry is forgotten only when the message's next one reaches   *)
(* the queue.                                                              *)
LEMMA RefusedStays ==
  ASSUME PathStep, NEW r \in refused
  PROVE  r \in refused' \/ InQueue(r)'
<1>1. CASE SendEntry
  <2>1. PICK s \in unsent :
          \/ /\ queue' = queue \cup {[row |-> s, at |-> posts, receives |-> 0]}
             /\ refused' = refused \ {s}
          \/ refused' = refused \cup {s}
    BY <1>1 DEF SendEntry
  <2>2. \/ [row |-> s, at |-> posts, receives |-> 0] \in queue' \cup taken'
        \/ refused' = refused \cup {s}
    BY <2>1
  <2> QED BY <2>1, <2>2 DEF InQueue
<1>2. CASE ~SendEntry
  BY <1>2 DEF PathStep, Capture, Post, Accept, IngestFails, Acked, Receive, Report,
     WorkerDies, Put, Index, RecordFails, ingestVars
<1> QED BY <1>1, <1>2

LEMMA AcceptedStep ==
  ASSUME PathInv, Handled, AcceptedIsKept, PathStep
  PROVE  AcceptedIsKept'
<1> USE DEF PathInv
<1>1. \A r \in Row : Settles(r) \/ r \in refused => Settles(r)' \/ r \in refused'
  BY SettlesForGood, RefusedStays DEF Settles
<1>2. ASSUME NEW r \in 1..chat' PROVE r \in unacked' \/ Settles(r)' \/ r \in refused'
  <2>1. chat \in 0..MaxRow /\ chat' \in 0..MaxRow
    BY PathStepInv DEF ArchiveTypeOK
  <2>2. CASE Capture
    <3>1. chat' = chat + 1 /\ unacked' = unacked \cup {chat + 1}
      BY <2>2 DEF Capture
    <3>2. r = chat + 1 \/ r \in 1..chat
      BY <2>1, <3>1
    <3>3. r \in Row
      BY <2>1 DEF Row
    <3> QED BY <1>1, <3>1, <3>2, <3>3 DEF AcceptedIsKept, Settles
  <2>3. CASE ~Capture
    <3>1. chat' = chat
      BY <2>3 DEF PathStep, Post, SendEntry, Accept, IngestFails, Acked, Receive, Report,
         WorkerDies, Put, Index, RecordFails, agentVars
    <3>2. r \in Row /\ r \in 1..chat
      BY <2>1, <3>1 DEF Row
    <3>3. unacked \subseteq unacked' \/ (Acked /\ unacked' = unacked \ batch)
      BY <2>3 DEF PathStep, Post, SendEntry, Accept, IngestFails, Acked, Receive, Report,
         WorkerDies, Put, Index, RecordFails, agentVars
    <3>4. Acked => unsent = {}
      BY DEF Acked, Deliveries
    <3> QED BY <1>1, <3>2, <3>3, <3>4 DEF AcceptedIsKept, Handled, Settles
  <2> QED BY <2>2, <2>3
<1> QED BY <1>2 DEF AcceptedIsKept, Settles

(* A message the agent deleted from its queue after a 202 is in the FIFO   *)
(* queue, in the archive or in the dead-letter queue, or is lost for one   *)
(* reason only: SQS refused its entry the last time it was sent            *)
(* (ingest.ts reads no answer to its entries).                             *)
THEOREM AcceptedStays == Spec => []AcceptedIsKept
<1> DEFINE KeptInv == Handled /\ AcceptedIsKept
<1>1. Init => KeptInv
  BY DEF Init, ArchiveInit, Handled, AcceptedIsKept
<1>2. IInv /\ KeptInv /\ [Next]_vars => KeptInv'
  <2> SUFFICES ASSUME IInv, KeptInv, [Next]_vars PROVE KeptInv'
    OBVIOUS
  <2>1. CASE PathStep
    BY <2>1, HandledStep, AcceptedStep DEF IInv
  <2>2. CASE UNCHANGED archiveVars
    BY <2>2 DEF Handled, AcceptedIsKept, Settles, InQueue, Indexed, archiveVars
  <2> QED BY <2>1, <2>2, NextSplits DEF vars
<1> QED BY <1>1, <1>2, Invariance, PTL DEF Spec

-----------------------------------------------------------------------------
(* The refinement.                                                         *)

(* Every step is, seen from the index, a message that appears, a row for a *)
(* message that had none, or nothing.                                      *)
LEMMA StepIsPromised ==
  IInv /\ [Next]_vars
    => [Promise!Write \/ Promise!Store]_<<chat, [r \in Row |-> meta[r].at]>>
<1> SUFFICES ASSUME IInv, [Next]_vars
             PROVE  \/ Promise!Write \/ Promise!Store
                    \/ UNCHANGED <<chat, [r \in Row |-> meta[r].at]>>
  OBVIOUS
<1> USE DEF IInv, PathInv
<1>1. CASE Capture
  BY <1>1 DEF Capture, Promise!Write
<1>2. CASE \E x \in todo : Index(x) \/ RecordFails(x)
  <2>1. PICK x \in todo : Index(x) \/ RecordFails(x)
    BY <1>2
  <2>2. UNCHANGED chat /\ (meta' = meta \/ Inserted(x))
    BY <2>1 DEF Index, RecordFails, agentVars
  <2>3. x.row <= chat
    BY DEF ArchiveTypeOK, Deliveries
  <2>4. CASE Inserted(x)
    <3>1. /\ \A r \in Row : meta'[r].at \in 0..MaxForm
          /\ \A r \in Row : meta'[r].at # meta[r].at => r = x.row /\ ~Indexed(r)
      BY <2>4, InsertAdds
    <3>2. \A r \in Row : ~Indexed(r) => meta[r].at = 0
      BY DEF Deliveries
    <3> QED BY <2>2, <2>3, <3>1, <3>2 DEF Promise!Store, Row
  <2> QED BY <2>2, <2>4
<1>3. CASE PathStep /\ ~Capture /\ ~\E x \in todo : Index(x) \/ RecordFails(x)
  BY <1>3 DEF PathStep, Post, SendEntry, Accept, IngestFails, Acked, Receive, Report,
     WorkerDies, Put, agentVars
<1>4. CASE UNCHANGED archiveVars
  BY <1>4 DEF archiveVars
<1> QED BY <1>1, <1>2, <1>3, <1>4, NextSplits DEF vars

(* The AWS stack implements the write-once archive: whatever is delivered  *)
(* again, fails or is answered late, message_meta never names another      *)
(* object for a message, nor loses its row.                                *)
THEOREM ImplementsWriteOnce == Spec => IndexWriteOnce
<1>1. Init => Promise!Init
  BY DEF Init, ArchiveInit, Promise!Init, Row
<1> QED BY <1>1, StepIsPromised, Invariance, PTL DEF Spec, IndexWriteOnce, Promise!Spec
=============================================================================
