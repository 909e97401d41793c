------------------------------- MODULE AwsStack -------------------------------
(***************************************************************************)
(* The AWS stack: enrollment and the path of messages that carry one       *)
(* device_id share the device table.  The authorizer reads it on every     *)
(* request, enrollment adds to it, and so does the archiver, which puts a  *)
(* placeholder where it finds no device, so that the foreign key of        *)
(* message_meta holds.                                                     *)
(***************************************************************************)
EXTENDS AwsEnroll, AwsArchive

CONSTANT Sender  \* the device_id the messages carry

ASSUME SenderAssumption == Sender \in Device

vars == <<enrollVars, archiveVars>>

Init == EnrollInit /\ ArchiveInit

(* The authorizer finds the device that signed the request, and its key    *)
(* verifies the signature; a placeholder's key does not parse.  Nothing    *)
(* compares that device with the one the messages name: any enrolled       *)
(* device of the firm can deliver what was captured under another id.      *)
Authorized == \E d \in Device : device[d] = "enrolled"

AuthorizedPost == Authorized /\ Post /\ UNCHANGED enrollVars

(* Mutant: ON CONFLICT DO UPDATE.                                          *)
PlaceholderOverwrites == device' = [device EXCEPT ![Sender] = "placeholder"]

(* The inserts of the archiver's transaction ON CONFLICT DO NOTHING.       *)
Placeholder ==
  device' = IF device[Sender] = "none" THEN [device EXCEPT ![Sender] = "placeholder"] ELSE device

WithPlaceholder(A) ==
  /\ A /\ IF meta' # meta THEN Placeholder ELSE UNCHANGED device
  /\ UNCHANGED <<code, pairedBy, enroll, attested>>

Alone(A) == A /\ UNCHANGED enrollVars

Worker ==
  \/ Alone(Receive) \/ Alone(Report)
  \/ \E x \in todo : Alone(Put(x)) \/ WithPlaceholder(Index(x))

Next ==
  \/ EnrollNext /\ UNCHANGED archiveVars
  \/ AuthorizedPost
  \/ Alone(Capture) \/ Alone(SendEntry) \/ Alone(Accept) \/ Alone(IngestFails) \/ Alone(Acked)
  \/ Worker \/ Alone(WorkerDies)
  \/ \E x \in todo : WithPlaceholder(RecordFails(x))

Spec == Init /\ [][Next]_vars

TypeOK == EnrollTypeOK /\ ArchiveTypeOK

-----------------------------------------------------------------------------
(* Safety.                                                                 *)

InQueue(r) == \E x \in queue \cup taken : x.row = r

(* Whatever fails between S3 and the database, a row of message_meta names *)
(* an object that exists.                                                  *)
IndexedIsStored == \A r \in Row : Indexed(r) => <<r, meta[r].at>> \in objects

(* "Idempotent across retries": redeliveries of a record add no object; a  *)
(* message has at most one for every POST that carried it.                 *)
ObjectsOf(r) == {o \in objects : o[1] = r}
OneObjectPerPost == \A r \in Row : Cardinality(ObjectsOf(r)) <= posts

(* What the agent has been told is accepted, and has deleted, is in the    *)
(* queue, in the archive, or with the operator in the dead-letter queue,   *)
(* unless it is a single entry that SQS refused: the ingest Lambda reads   *)
(* no result of the batch and answers 202 all the same, and such a message *)
(* is lost.  Nothing else loses one.                                       *)
AcceptedIsKept ==
  \A r \in 1..chat :
    r \in unacked \/ InQueue(r) \/ Indexed(r) \/ r \in dlq \/ r \in refused

(* message_meta is the index of a write-once archive.                      *)
Promise == INSTANCE WriteOnceArchive WITH archive <- [r \in Row |-> meta[r].at]
IndexWriteOnce == Promise!Spec

(* Every queued message is archived or ends in the dead-letter queue.      *)
FairSpec == Spec /\ WF_vars(Worker)
EveryRecordSettles == \A r \in Row : InQueue(r) ~> (Indexed(r) \/ r \in dlq)

-----------------------------------------------------------------------------
(* What comments say and the code does not keep.                           *)

(* "per-employee order is preserved across concurrent workers": of the     *)
(* messages of one POST, archive_seq follows the order they were queued in.*)
OrderPreserved ==
  \A r, s \in Row :
    r < s /\ Indexed(r) /\ Indexed(s) /\ meta[r].at = meta[s].at => meta[r].seq < meta[s].seq
=============================================================================
