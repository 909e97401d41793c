------------------------------ MODULE Enrollment ------------------------------
(***************************************************************************)
(* Enrollment against the dashboard: `archiveglp-agent enroll` on several  *)
(* devices, POST /api/v1/enroll, the files the agent writes, `run`, and    *)
(* the wipe a revoke command does.  The route is a sequence of separate    *)
(* statements; requests interleave, outlive the client that gave up on     *)
(* them, and stop between any two statements.                              *)
(***************************************************************************)
EXTENDS Naturals, FiniteSets

CONSTANTS Device, Code,
          MaxKeys  \* bound: key pairs a device generates

ASSUME KeysAssumption == MaxKeys \in Nat

VARIABLES
  code,       \* pending_enrollment: "none", "unused", "used" or "expired"
  usedBy,     \* used_by_device_id, as pairs <<code, device>>
  rowKey,     \* device row: its public key, 0 if there is no row
  revoked,    \* devices with revoked_at
  requests,   \* POSTs: [at, code, device, key, awaited]
  made,       \* keys each device has generated
  keyFile,    \* device.key: the key in it, 0 if there is none
  torn,       \* devices whose device.key was created and never written
  serverKey,  \* "none", "spki" or "both": which of the two files are there
  marker,     \* devices with the `enrolled` marker
  running,    \* devices whose agent runs
  pc          \* the enroll command: "idle", "wait", then the file to write

serverVars == <<code, usedBy, rowKey, revoked>>
filesVars  == <<made, keyFile, torn, serverKey, marker>>
vars == <<code, usedBy, rowKey, revoked, requests, made, keyFile, torn, serverKey,
          marker, running, pc>>

Init ==
  /\ code = [c \in Code |-> "none"] /\ usedBy = {} /\ rowKey = [d \in Device |-> 0]
  /\ revoked = {} /\ requests = {}
  /\ made = [d \in Device |-> 0] /\ keyFile = [d \in Device |-> 0] /\ torn = {}
  /\ serverKey = [d \in Device |-> "none"] /\ marker = {} /\ running = {}
  /\ pc = [d \in Device |-> "idle"]

-----------------------------------------------------------------------------
(* The dashboard.                                                          *)

(* POST /api/admin/pending-enrollments; later its expires_at may pass.     *)
IssueCode(c) ==
  /\ code[c] = "none" /\ code' = [code EXCEPT ![c] = "unused"]
  /\ UNCHANGED <<usedBy, rowKey, revoked, requests, filesVars, running, pc>>

Expire(c) ==
  /\ code[c] = "unused" /\ code' = [code EXCEPT ![c] = "expired"]
  /\ UNCHANGED <<usedBy, rowKey, revoked, requests, filesVars, running, pc>>

Moves(q, to) ==
  /\ requests' = (requests \ {q}) \cup {[q EXCEPT !.at = to]}
  /\ UNCHANGED <<filesVars, running, pc>>

Refuse(q) == Moves(q, "refused") /\ UNCHANGED serverVars

Lookup(q) ==
  /\ q.at = "sent"
  /\ IF code[q.code] = "unused" THEN Moves(q, "found") ELSE Moves(q, "refused")
  /\ UNCHANGED serverVars

CheckDevice(q) ==
  /\ q.at = "found"
  /\ IF rowKey[q.device] = 0 THEN Moves(q, "fresh") ELSE Moves(q, "refused")
  /\ UNCHANGED serverVars

(* Mutant: the device is upserted.                                         *)
UpsertDevice(q) ==
  /\ q.at = "fresh"
  /\ rowKey' = [rowKey EXCEPT ![q.device] = q.key] /\ Moves(q, "inserted")
  /\ UNCHANGED <<code, usedBy, revoked>>

(* The upserts of firm and employee, then the insert, whose primary key    *)
(* refuses a second row.                                                   *)
InsertDevice(q) ==
  /\ q.at = "fresh"
  /\ \/ /\ rowKey[q.device] = 0
        /\ rowKey' = [rowKey EXCEPT ![q.device] = q.key] /\ Moves(q, "inserted")
        /\ UNCHANGED <<code, usedBy, revoked>>
     \/ Refuse(q)

Consumed(q) ==
  /\ code' = [code EXCEPT ![q.code] = "used"]
  /\ usedBy' = {p \in usedBy : p[1] # q.code} \cup {<<q.code, q.device>>}

(* Mutant: the code is consumed before the device is inserted.             *)
ConsumeFirst(q) ==
  \/ /\ q.at = "found" /\ Moves(q, "fresh") /\ Consumed(q) /\ UNCHANGED <<rowKey, revoked>>
  \/ /\ q.at = "inserted" /\ Moves(q, "consumed") /\ UNCHANGED serverVars

(* The update names the code and nothing else, and its error is not looked *)
(* at; nor is that of the audit row that follows.                          *)
Consume(q) ==
  /\ q.at = "inserted" /\ Moves(q, "consumed")
  /\ Consumed(q) \/ UNCHANGED <<code, usedBy>>
  /\ UNCHANGED <<rowKey, revoked>>

(* 200 with the command-signing key, unless the signer is misconfigured.   *)
Respond(q) ==
  /\ q.at = "consumed" /\ (Moves(q, "ok") \/ Moves(q, "refused"))
  /\ UNCHANGED serverVars

(* The function dies, or the request or its answer is lost.                *)
RequestLost(q) ==
  /\ requests' = requests \ {q}
  /\ UNCHANGED <<serverVars, filesVars, running, pc>>

-----------------------------------------------------------------------------
(* The agent.                                                              *)

(* Mutant: the key file is opened without O_EXCL.                          *)
MakeKeyAgain(d) ==
  /\ pc[d] = "idle" /\ made[d] < MaxKeys
  /\ made' = [made EXCEPT ![d] = @ + 1]
  /\ keyFile' = [keyFile EXCEPT ![d] = made[d] + 1]
  /\ UNCHANGED <<serverVars, requests, torn, serverKey, marker, running, pc>>

(* load_or_create creates the file and then writes it; the process can die *)
(* in between, and from then on the file does not load.                    *)
MakeKey(d) ==
  /\ pc[d] = "idle" /\ keyFile[d] = 0 /\ d \notin torn /\ made[d] < MaxKeys
  /\ made' = [made EXCEPT ![d] = @ + 1]
  /\ \/ keyFile' = [keyFile EXCEPT ![d] = made[d] + 1] /\ UNCHANGED torn
     \/ torn' = torn \cup {d} /\ UNCHANGED keyFile
  /\ UNCHANGED <<serverVars, requests, serverKey, marker, running, pc>>

(* enroll() posts the public key of the file, with the code typed in.      *)
SendEnroll(d, c) ==
  /\ pc[d] = "idle" /\ keyFile[d] # 0
  /\ requests' = requests \cup
       {[at |-> "sent", code |-> c, device |-> d, key |-> keyFile[d], awaited |-> TRUE]}
  /\ pc' = [pc EXCEPT ![d] = "wait"]
  /\ UNCHANGED <<serverVars, filesVars, running>>

Awaited(d) == {q \in requests : q.device = d /\ q.awaited}

Answered(d, at, next) ==
  /\ pc[d] = "wait"
  /\ \E q \in Awaited(d) : q.at = at /\ requests' = requests \ {q}
  /\ pc' = [pc EXCEPT ![d] = next]
  /\ UNCHANGED <<serverVars, filesVars, running>>

Accepted(d) == Answered(d, "ok", "spki")
Refused(d)  == Answered(d, "refused", "idle")

(* persist_server_key and the marker: three files, one after the other.    *)
WriteSpki(d) ==
  /\ pc[d] = "spki" /\ pc' = [pc EXCEPT ![d] = "id"]
  /\ serverKey' = [serverKey EXCEPT ![d] = "spki"]
  /\ UNCHANGED <<serverVars, requests, made, keyFile, torn, marker, running>>

WriteId(d) ==
  /\ pc[d] = "id" /\ pc' = [pc EXCEPT ![d] = "marker"]
  /\ serverKey' = [serverKey EXCEPT ![d] = "both"]
  /\ UNCHANGED <<serverVars, requests, made, keyFile, torn, marker, running>>

(* Mutant: the marker is written as soon as the answer is there.           *)
WriteMarkerFirst(d) ==
  /\ pc[d] \in {"spki", "marker"} /\ marker' = marker \cup {d}
  /\ pc' = [pc EXCEPT ![d] = IF @ = "spki" THEN @ ELSE "idle"]
  /\ UNCHANGED <<serverVars, requests, made, keyFile, torn, serverKey, running>>

WriteMarker(d) ==
  /\ pc[d] = "marker" /\ pc' = [pc EXCEPT ![d] = "idle"]
  /\ marker' = marker \cup {d}
  /\ UNCHANGED <<serverVars, requests, made, keyFile, torn, serverKey, running>>

(* The command gives up on its request, or dies between two files.         *)
EnrollEnds(d) ==
  /\ pc[d] # "idle" /\ pc' = [pc EXCEPT ![d] = "idle"]
  /\ requests' = (requests \ Awaited(d)) \cup {[q EXCEPT !.awaited = FALSE] : q \in Awaited(d)}
  /\ UNCHANGED <<serverVars, filesVars, running>>

(* `run` looks for device.key and loads it.                                *)
Run(d) ==
  /\ keyFile[d] # 0 /\ running' = running \cup {d}
  /\ UNCHANGED <<serverVars, requests, filesVars, pc>>

(* A revoke command reaches an agent that can poll and verify it; no       *)
(* enroll command is open on that device.                                  *)
Revoke(d) ==
  /\ d \in running /\ pc[d] = "idle"
  /\ rowKey[d] = keyFile[d] /\ d \notin revoked /\ serverKey[d] = "both"
  /\ keyFile' = [keyFile EXCEPT ![d] = 0] /\ serverKey' = [serverKey EXCEPT ![d] = "none"]
  /\ marker' = marker \ {d} /\ running' = running \ {d}
  /\ revoked' = revoked \cup {d}
  /\ UNCHANGED <<code, usedBy, rowKey, requests, made, torn, pc>>

Serve(q) ==
  Lookup(q) \/ CheckDevice(q) \/ InsertDevice(q) \/ Consume(q) \/ Respond(q) \/ RequestLost(q)

Next ==
  \/ \E c \in Code : IssueCode(c) \/ Expire(c)
  \/ \E q \in requests : Serve(q)
  \/ \E d \in Device :
       \/ MakeKey(d) \/ Accepted(d) \/ Refused(d) \/ WriteSpki(d) \/ WriteId(d)
       \/ WriteMarker(d) \/ EnrollEnds(d) \/ Run(d) \/ Revoke(d)
       \/ \E c \in Code : SendEnroll(d, c)

Spec == Init /\ [][Next]_vars

RequestAt == {"sent", "found", "fresh", "inserted", "consumed", "ok", "refused"}
Key == 0..MaxKeys

TypeOK ==
  /\ code \in [Code -> {"none", "unused", "used", "expired"}]
  /\ usedBy \subseteq Code \X Device
  /\ rowKey \in [Device -> Key] /\ revoked \subseteq Device
  /\ requests \subseteq [at : RequestAt, code : Code, device : Device, key : Key \ {0},
                         awaited : BOOLEAN]
  /\ made \in [Device -> Key] /\ keyFile \in [Device -> Key] /\ torn \subseteq Device
  /\ serverKey \in [Device -> {"none", "spki", "both"}]
  /\ marker \subseteq Device /\ running \subseteq Device
  /\ pc \in [Device -> {"idle", "wait", "spki", "id", "marker"}]

-----------------------------------------------------------------------------
(* Properties.                                                             *)

(* The device holds the private key of its row, through crashes, lost      *)
(* answers and further attempts, until revoke wipes it: what the dashboard *)
(* registered can sign.                                                    *)
RegisteredKeyIsHeld ==
  \A d \in Device : rowKey[d] # 0 /\ d \notin revoked => keyFile[d] = rowKey[d]

(* A device with the `enrolled` marker is registered under its own key and *)
(* has the key its commands are signed with.                               *)
MarkerMeansReady ==
  \A d \in marker : serverKey[d] = "both" /\ rowKey[d] # 0 /\ rowKey[d] = keyFile[d]

(* A consumed code names a device that is registered: no code is burnt     *)
(* without one.                                                            *)
ConsumedIsEnrolled == \A p \in usedBy : rowKey[p[2]] # 0

(* Overlapping requests of one device with two codes consume one of them.  *)
OneCodePerDevice == \A p, r \in usedBy : p[2] = r[2] => p = r

(* What a message of the program says and the code does not keep.  run     *)
(* refuses with "Device not enrolled. Run `archiveglp-agent enroll`        *)
(* first."; it looks for device.key, which enroll writes before it posts.  *)
RunMeansEnrolled == \A d \in running : rowKey[d] # 0
=============================================================================
