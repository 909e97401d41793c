------------------------------- MODULE AwsArchive -------------------------------
(***************************************************************************)
(* The AWS path of a message: the agent's queue, the ingest Lambda, the    *)
(* FIFO queue of one employee, the archiver Lambda, S3 and message_meta.   *)
(* The queue hands out the records of a group to one invocation at a time: *)
(* its visibility timeout is longer than the Lambda may run.  Records that *)
(* come back take their old place, so the order of the group is always     *)
(* that of sending, and a set of records stands for it.                    *)
(***************************************************************************)
EXTENDS Naturals, FiniteSets

CONSTANTS MaxRow,       \* bound: messages captured
          MaxForm,      \* bound: POSTs, each with an ingested_at of its own
          BatchLimit,   \* records of one invocation of the archiver (10)
          MaxReceives   \* maxReceiveCount of the queue (5)

Row == 1..MaxRow

ASSUME ArchiveAssumption ==
  /\ MaxRow \in Nat /\ MaxForm \in Nat
  /\ {BatchLimit, MaxReceives} \subseteq Nat \ {0}

VARIABLES
  chat,     \* messages captured so far are 1..chat
  unacked,  \* messages in the agent's queue
  posts,    \* POSTs so far; the number of a POST is its ingested_at
  batch,    \* the messages of the POST the agent waits for
  unsent,   \* those the ingest Lambda has not yet passed to SQS
  answer,   \* "none", "wait", or "202" on its way
  refused,  \* history: messages whose entry SQS refused when it was sent last
  queue,    \* the FIFO queue: records [row, at, receives]
  taken,    \* the records of the archiver's invocation
  todo,     \* those the loop has not got past
  failures, \* those in batchItemFailures
  stored,   \* whether the object of the record at hand is in S3
  objects,  \* S3 objects by content, <<row, ingested_at>>
  meta,     \* message_meta: row -> [seq, at], zeros if there is none
  dlq       \* rows in the dead-letter queue

agentVars   == <<chat, unacked, batch>>
ingestVars  == <<posts, unsent, answer, refused>>
archiveVars == <<chat, unacked, batch, posts, unsent, answer, refused, queue, taken,
                 todo, failures, stored, objects, meta, dlq>>

ArchiveInit ==
  /\ chat = 0 /\ unacked = {} /\ batch = {}
  /\ posts = 0 /\ unsent = {} /\ answer = "none" /\ refused = {}
  /\ queue = {} /\ taken = {} /\ todo = {} /\ failures = {} /\ stored = FALSE
  /\ objects = {} /\ meta = [r \in Row |-> [seq |-> 0, at |-> 0]] /\ dlq = {}

Capture ==
  /\ chat < MaxRow /\ chat' = chat + 1 /\ unacked' = unacked \cup {chat + 1}
  /\ UNCHANGED <<batch, ingestVars, queue, taken, todo, failures, stored, objects,
                 meta, dlq>>

-----------------------------------------------------------------------------
(* POST /v1/ingest, once the authorizer has let it through.                *)

Post ==
  /\ answer = "none" /\ posts < MaxForm
  /\ batch' \in SUBSET unacked \ {{}}
  /\ unsent' = batch' /\ posts' = posts + 1 /\ answer' = "wait"
  /\ UNCHANGED <<chat, unacked, refused, queue, taken, todo, failures, stored, objects,
                 meta, dlq>>

(* The entries of the SendMessageBatch calls, in order.  SQS can refuse    *)
(* some and take the others; it names them in a result nobody reads.       *)
SendEntry ==
  /\ answer = "wait"
  /\ \E r \in unsent :
       /\ \A s \in unsent : r <= s
       /\ unsent' = unsent \ {r}
       /\ \/ /\ queue' = queue \cup {[row |-> r, at |-> posts, receives |-> 0]}
             /\ refused' = refused \ {r}
          \/ refused' = refused \cup {r} /\ UNCHANGED queue
  /\ UNCHANGED <<agentVars, posts, answer, taken, todo, failures, stored, objects, meta,
                 dlq>>

(* Mutant: the answer does not wait for the queue.                         *)
AcceptEarly ==
  /\ answer = "wait" /\ answer' = "202" /\ unsent' = {}
  /\ UNCHANGED <<agentVars, posts, refused, queue, taken, todo, failures, stored, objects,
                 meta, dlq>>

Accept ==
  /\ answer = "wait" /\ unsent = {} /\ answer' = "202"
  /\ UNCHANGED <<agentVars, posts, unsent, refused, queue, taken, todo, failures, stored,
                 objects, meta, dlq>>

(* A call throws, the Lambda dies, or the answer is lost on its way.       *)
IngestFails ==
  /\ answer \in {"wait", "202"}
  /\ answer' = "none" /\ unsent' = {} /\ batch' = {}
  /\ UNCHANGED <<chat, unacked, posts, refused, queue, taken, todo, failures, stored,
                 objects, meta, dlq>>

(* The agent's mark_sent.                                                  *)
Acked ==
  /\ answer = "202"
  /\ unacked' = unacked \ batch /\ batch' = {} /\ answer' = "none"
  /\ UNCHANGED <<chat, posts, unsent, refused, queue, taken, todo, failures, stored, objects,
                 meta, dlq>>

-----------------------------------------------------------------------------
(* The archiver Lambda.                                                    *)

(* The order of sending: by POST, and within one by message.               *)
Earlier(x, y) == x.at < y.at \/ (x.at = y.at /\ x.row < y.row)

(* What an invocation can be given: the first records, BatchLimit at most. *)
Batches ==
  {S \in SUBSET queue :
     /\ S # {} /\ Cardinality(S) <= BatchLimit
     /\ \A x \in S, y \in queue : Earlier(y, x) => y \in S}

Receive ==
  /\ taken = {}
  /\ \E S \in Batches :
       /\ taken' = {[x EXCEPT !.receives = @ + 1] : x \in S}
       /\ queue' = queue \ S
  /\ todo' = taken'
  /\ UNCHANGED <<agentVars, ingestVars, failures, stored, objects, meta, dlq>>

(* The loop takes the records one by one, in order.                        *)
AtHand(x) == x \in todo /\ \A y \in todo : ~Earlier(y, x)

(* Mutant: the key is that of the attempt, not of the content.             *)
ObjectPerAttempt(x) == <<x.row, x.at + MaxForm * (x.receives - 1)>>

(* canonicalPayload and s3KeyFor: the same record, the same object.        *)
Object(x) == <<x.row, x.at>>

Put(x) ==
  /\ AtHand(x) /\ ~stored /\ stored' = TRUE
  /\ objects' = objects \cup {Object(x)}
  /\ UNCHANGED <<agentVars, ingestVars, queue, taken, todo, failures, meta, dlq>>

Indexed(r) == meta[r].seq # 0

(* nextval, up to the gaps that rolled back transactions leave.            *)
NextSeq == Cardinality({r \in Row : Indexed(r)}) + 1

(* Mutant: ON CONFLICT DO UPDATE.                                          *)
InsertedLatest(x) == meta' = [meta EXCEPT ![x.row] = [seq |-> NextSeq, at |-> x.at]]

(* The transaction's insert ON CONFLICT DO NOTHING.                        *)
Inserted(x) ==
  meta' = IF Indexed(x.row) THEN meta
          ELSE [meta EXCEPT ![x.row] = [seq |-> NextSeq, at |-> x.at]]

GoesOn(x) == todo' = todo \ {x} /\ stored' = FALSE

(* Mutant: the row is written before the object.                           *)
IndexFirst(x) ==
  /\ AtHand(x) /\ Inserted(x) /\ GoesOn(x)
  /\ UNCHANGED <<agentVars, ingestVars, queue, taken, failures, objects, dlq>>

Index(x) ==
  /\ AtHand(x) /\ stored /\ Inserted(x) /\ GoesOn(x)
  /\ UNCHANGED <<agentVars, ingestVars, queue, taken, failures, objects, dlq>>

(* The put fails, or the transaction, or only the answer to its commit:    *)
(* the loop notes it and goes on.                                          *)
RecordFails(x) ==
  /\ AtHand(x) /\ GoesOn(x)
  /\ failures' = failures \cup {x}
  /\ UNCHANGED meta \/ (stored /\ Inserted(x))
  /\ UNCHANGED <<agentVars, ingestVars, queue, taken, objects, dlq>>

(* Mutant: the queue has no dead-letter policy.                            *)
SettledForever(P) ==
  /\ queue' = queue \cup P /\ dlq' = dlq
  /\ taken' = {} /\ todo' = {} /\ failures' = {} /\ stored' = FALSE

(* Records that were not deleted come back, or go to the dead-letter queue *)
(* after MaxReceives.                                                      *)
Settled(P) ==
  /\ queue' = queue \cup {x \in P : x.receives < MaxReceives}
  /\ dlq' = dlq \cup {x.row : x \in {y \in P : y.receives >= MaxReceives}}
  /\ taken' = {} /\ todo' = {} /\ failures' = {} /\ stored' = FALSE

(* Mutant: failed records are not reported.                                *)
ReportNothing ==
  /\ taken # {} /\ todo = {} /\ Settled({})
  /\ UNCHANGED <<agentVars, ingestVars, objects, meta>>

Report ==
  /\ taken # {} /\ todo = {} /\ Settled(failures)
  /\ UNCHANGED <<agentVars, ingestVars, objects, meta>>

(* The Lambda dies or times out, and the whole batch comes back.           *)
WorkerDies ==
  /\ todo # {} /\ Settled(taken)
  /\ UNCHANGED <<agentVars, ingestVars, objects, meta>>

Record == [row : Row, at : 1..MaxForm, receives : 0..MaxReceives]

ArchiveTypeOK ==
  /\ chat \in 0..MaxRow
  /\ unacked \subseteq Row /\ batch \subseteq Row /\ unsent \subseteq Row
  /\ posts \in 0..MaxForm /\ answer \in {"none", "wait", "202"} /\ refused \subseteq Row
  /\ queue \subseteq Record /\ taken \subseteq Record
  /\ todo \subseteq taken /\ failures \subseteq taken /\ stored \in BOOLEAN
  /\ objects \subseteq Row \X Nat
  /\ meta \in [Row -> [seq : Nat, at : 0..MaxForm]] /\ dlq \subseteq Row
=============================================================================
