---------------------------- MODULE CapturePipeline ----------------------------
(***************************************************************************)
(* From chat.db to the archive: the capture agent, POST /v1/ingest on the  *)
(* dashboard, and the network between them.  A request the forwarder gave  *)
(* up on may still be processed, later.                                    *)
(***************************************************************************)
EXTENDS CaptureAgent

CONSTANTS Malformed,    \* rows whose message the ingest schema rejects
          MayRefuse,    \* whether authentication can fail (clock skew)
          MaxLate,      \* bound: abandoned requests still on their way
          MaxOutages,   \* bound: lost requests and replies and 5xx answers, if CountOutages
          CountOutages, \* FALSE: any number of them
          MayLosePower  \* whether power can be lost in this model

ASSUME PipelineAssumption ==
  /\ Malformed \subseteq Row \ (Meta \cup Poison)
  /\ {MayRefuse, CountOutages, MayLosePower} \subseteq BOOLEAN
  /\ MaxLate \in Nat /\ MaxOutages \in Nat

VARIABLES
  post,     \* the awaited POST: "none", "sent", or the class of its answer
  late,     \* abandoned POSTs, each the set of its messages
  archive,  \* message_meta: row -> the version archived, 0 if none
  outages,
  disk      \* what of the agent's database would survive a loss of power

vars == <<chat, running, wiped, paused, checkpoint, outbound, ticks, sending, decoder,
          reached, dropped, failures, resyncs, post, late, archive, outages, disk>>

Normal == Row \ (Meta \cup Poison)

Durable ==
  [checkpoint |-> checkpoint, outbound |-> outbound, ticks |-> ticks, reached |-> reached]

Init ==
  /\ CaptureInit /\ disk = Durable
  /\ post = "none" /\ late = {} /\ archive = [r \in Row |-> 0] /\ outages = 0

(* What the archive keeps of a message: the chat it names, and the release *)
(* that decoded it, as one number.                                         *)
MaxVersion == 2 * MaxForm
Version(o) == 2 * (o.form - 1) + o.conv

(* The messages of a request, each with its place in it.                   *)
Message == Nat \X Row \X (1..MaxVersion)
Messages(S) == {<<o.tick, o.row, Version(o)>> : o \in S}

(* The copies of row r in a request, and which of them comes first: of one *)
(* tick the first chat's, which is the lower version too.                  *)
Of(ms, r) == {m \in ms : m[2] = r}
Ahead(m, n) == m[1] < n[1] \/ (m[1] = n[1] /\ m[3] < n[3])
First(S) == CHOOSE m \in S : \A n \in S : ~Ahead(n, m)
Last(S)  == CHOOSE m \in S : \A n \in S : ~Ahead(m, n)

(* Mutant: the upsert merges, so the last version wins.                    *)
UpsertMerge(ms) ==
  archive' = [r \in Row |-> IF Of(ms, r) = {} THEN archive[r] ELSE Last(Of(ms, r))[3]]

(* The upsert with ignoreDuplicates: the first version of a message stays. *)
Upsert(ms) ==
  archive' = [r \in Row |-> IF archive[r] # 0 \/ Of(ms, r) = {} THEN archive[r]
                            ELSE First(Of(ms, r))[3]]

Acceptable(ms) == \A m \in ms : m[2] \notin Malformed

-----------------------------------------------------------------------------
(* POST /v1/ingest.                                                        *)

Answer(a) == post' = a /\ UNCHANGED <<captureVars, late, outages, disk>>

IngestAccepts ==
  /\ post = "sent" /\ Acceptable(Messages(sending))
  /\ Upsert(Messages(sending))
  /\ Answer("accepted")

(* One malformed message fails the whole envelope.                         *)
IngestRejects ==
  /\ post = "sent" /\ (MayRefuse \/ ~Acceptable(Messages(sending)))
  /\ Answer("rejected") /\ UNCHANGED archive

Outage == IF CountOutages THEN outages < MaxOutages /\ outages' = outages + 1 ELSE UNCHANGED outages

(* A 5xx answer, or the request or its reply is lost.                      *)
IngestFails ==
  /\ post \in {"sent", "accepted", "rejected"}
  /\ Outage /\ post' = "failed"
  /\ UNCHANGED <<captureVars, late, archive, disk>>

(* A request the forwarder no longer waits for reaches the handler, whose  *)
(* answer nobody reads, or is lost.                                        *)
LateIngest(ms) ==
  /\ ms \in late
  /\ IF Acceptable(ms) THEN Upsert(ms) ELSE UNCHANGED archive
  /\ late' = late \ {ms}
  /\ UNCHANGED <<captureVars, post, outages, disk>>

LateLost(ms) ==
  /\ ms \in late /\ late' = late \ {ms}
  /\ UNCHANGED <<captureVars, post, archive, outages, disk>>

-----------------------------------------------------------------------------
(* The agent's steps, with the request they start or end.                  *)

Local(A) == A /\ UNCHANGED <<post, late, archive, outages, disk>>

SendBatch == DrainStart /\ post' = "sent" /\ UNCHANGED <<late, archive, outages, disk>>

BatchAccepted ==
  post = "accepted" /\ DrainSent /\ post' = "none" /\ UNCHANGED <<late, archive, outages, disk>>

BatchStays ==
  /\ post = "accepted" /\ DrainSentFails /\ post' = "none"
  /\ UNCHANGED <<late, archive, outages, disk>>

BatchFailed ==
  post = "failed" /\ DrainFailed /\ post' = "none" /\ UNCHANGED <<late, archive, outages, disk>>

BatchRejected ==
  post = "rejected" /\ DrainRejected /\ post' = "none" /\ UNCHANGED <<late, archive, outages, disk>>

(* The request is given up while the handler has not run yet.              *)
Abandon ==
  IF post = "sent" /\ Cardinality(late) < MaxLate
  THEN late' \in {late, late \cup {Messages(sending)}} ELSE UNCHANGED late

BatchTimesOut ==
  /\ post = "sent" /\ Outage
  /\ DrainFailed /\ Abandon /\ post' = "none"
  /\ UNCHANGED <<archive, disk>>

(* The wait ends, with the process or because something raised.            *)
Stop(A) == A /\ Abandon /\ post' = "none" /\ UNCHANGED <<archive, outages, disk>>

BatchFailedCut == post \in {"sent", "failed"} /\ Stop(DrainFailedCut)

BatchRejectedCut == post = "rejected" /\ Stop(DrainRejectedCut)

(* The database is in WAL mode with synchronous=NORMAL: a commit is in the  *)
(* log at once and on disk some time later, after those before it.         *)
Synced ==
  /\ MayLosePower /\ ~wiped /\ failures < MaxFailures
  /\ disk' = Durable
  /\ UNCHANGED <<captureVars, post, late, archive, outages>>

(* Mutant: the checkpoint is kept in a file of its own, which is synced.   *)
BackAsItWasButCheckpoint ==
  /\ outbound' = disk.outbound /\ ticks' = disk.ticks
  /\ UNCHANGED <<checkpoint, reached>>

(* What was committed and not synced is undone, in queue and checkpoint.   *)
BackAsItWas ==
  /\ outbound' = disk.outbound /\ ticks' = disk.ticks
  /\ checkpoint' = disk.checkpoint /\ reached' = disk.reached

PowerLost ==
  /\ MayLosePower /\ ~wiped /\ failures < MaxFailures
  /\ BackAsItWas
  /\ Dies /\ failures' = failures + 1
  /\ UNCHANGED <<chat, wiped, paused, decoder, dropped, resyncs>>

Pump == Local(Tick) \/ Local(TickRaises)

Forward == SendBatch \/ BatchAccepted \/ BatchFailed \/ BatchRejected

Next ==
  \/ Local(NewRow) \/ Pump \/ Forward
  \/ Local(Pause) \/ Local(Resume) \/ Local(Resync) \/ Local(Start)
  \/ \E o \in outbound : Local(BackoffOver(o))
  \/ BatchTimesOut \/ BatchStays \/ Local(TickFails)
  \/ Stop(Crash) \/ Stop(TickCut) \/ Stop(Revoke) \/ Synced \/ Stop(PowerLost)
  \/ BatchFailedCut \/ BatchRejectedCut
  \/ IngestAccepts \/ IngestRejects \/ IngestFails
  \/ \E ms \in late : LateIngest(ms) \/ LateLost(ms)

Spec == Init /\ [][Next]_vars

TypeOK ==
  /\ CaptureTypeOK
  /\ post \in {"none", "sent", "accepted", "rejected", "failed"}
  /\ late \subseteq SUBSET Message
  /\ archive \in [Row -> 0..MaxVersion]
  /\ outages \in 0..MaxOutages
  /\ disk \in [checkpoint : 0..MaxRow, outbound : SUBSET Queued, ticks : Nat,
               reached : 0..MaxRow]

-----------------------------------------------------------------------------
(* Safety.                                                                 *)

InQueue(r)  == \E o \in outbound : o.row = r
Archived(r) == archive[r] # 0
GaveUp(r)   == r \in dropped

(* Nothing falls between the pump's two writes, the forwarder's delete and *)
(* the archive: every message the checkpoint ever passed is still queued,  *)
(* is archived, or was given up by the forwarder; unless revoke wiped the  *)
(* device.  In particular the checkpoint never passes a row that raises,   *)
(* and a loss of power undoes no more of the queue than of the checkpoint. *)
NothingSkipped ==
  ~wiped => \A r \in Row \ Meta : r <= reached => InQueue(r) \/ Archived(r) \/ GaveUp(r)

(* Only messages of chat.db are archived, and no row the agent skips or    *)
(* fails on.                                                               *)
ArchiveIsCaptured == \A r \in Row : Archived(r) => r \in Normal \ Malformed /\ r <= chat

(* Nothing that runs during the forwarder's await takes a message out from *)
(* under it, and when it deletes a batch, the archive has every message.   *)
AwaitedBatch ==
  /\ sending \subseteq outbound
  /\ post = "accepted" => \A o \in sending : Archived(o.row)

(* The copy of a message for one of its chats is queued again only after a *)
(* resync, a crash or a failed write of the database, unless a row that    *)
(* raises makes the pump repeat itself.                                    *)
CopiesOf(r, c) == Cardinality({o \in outbound : o.row = r /\ o.conv = c})
RepeatsNeedACause ==
  Poison = {} => \A r \in Row, c \in Copy : CopiesOf(r, c) <= 1 + failures + resyncs

(* The archive is write-once: resends, late requests and resyncs never     *)
(* change or remove a message that is stored.                              *)
Promise == INSTANCE WriteOnceArchive
             WITH MaxRow <- MaxRow, MaxForm <- MaxVersion, chat <- chat, archive <- archive
WriteOnce == Promise!Spec

-----------------------------------------------------------------------------
(* Liveness.                                                               *)

(* The loops go on, backoffs end, a paused device is resumed in the end.   *)
Fairness ==
  /\ SF_vars(Pump) /\ WF_vars(Forward)
  /\ WF_vars(\E o \in outbound : Local(BackoffOver(o)))
  /\ WF_vars(IngestAccepts \/ IngestRejects)
  /\ WF_vars(Local(Start)) /\ SF_vars(paused /\ Local(Resume))

FairSpec == Spec /\ Fairness

(* Every message chat.db ever holds ends up in the archive; a row that    *)
(* raises keeps out the rows behind it, not those before it.               *)
EveryRowArchived ==
  \A r \in Row : r <= chat /\ (\A p \in Poison : r < p) ~> Archived(r)
=============================================================================
