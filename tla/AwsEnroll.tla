------------------------------- MODULE AwsEnroll -------------------------------
(***************************************************************************)
(* Enrollment on the AWS stack: the admin Lambda issues pairing codes, the *)
(* enroll Lambda turns one into a device row, in one transaction, and then *)
(* writes the signed attestation to S3.                                    *)
(***************************************************************************)
EXTENDS Naturals, FiniteSets

CONSTANTS Device, Code

VARIABLES
  code,     \* pending_enrollment: "none", "unused", "used" or "expired"
  device,   \* device row: "none", "enrolled", or "placeholder" (the archiver's)
  pairedBy, \* history: device -> the codes it was enrolled with
  enroll,   \* the requests past their lookup: [at, code, device]
  attested  \* devices whose attestation is in S3

enrollVars == <<code, device, pairedBy, enroll, attested>>

EnrollInit ==
  /\ code = [c \in Code |-> "none"] /\ device = [d \in Device |-> "none"]
  /\ pairedBy = [d \in Device |-> {}] /\ enroll = {} /\ attested = {}

IssueCode(c) ==
  /\ code[c] = "none" /\ code' = [code EXCEPT ![c] = "unused"]
  /\ UNCHANGED <<device, pairedBy, enroll, attested>>

Expire(c) ==
  /\ code[c] = "unused" /\ code' = [code EXCEPT ![c] = "expired"]
  /\ UNCHANGED <<device, pairedBy, enroll, attested>>

Found(c, d) == [at |-> "found", code |-> c, device |-> d]

(* Mutant: the row is read without FOR UPDATE.                             *)
EnrollLookupUnlocked(c, d) ==
  /\ code[c] = "unused"
  /\ enroll' = enroll \cup {Found(c, d)}
  /\ UNCHANGED <<code, device, pairedBy, attested>>

(* The transaction's first statement reads and locks the row of an unused  *)
(* code; a request for a locked row waits.                                 *)
EnrollLookup(c, d) ==
  /\ code[c] = "unused"
  /\ \A q \in enroll : ~(q.at = "found" /\ q.code = c)
  /\ enroll' = enroll \cup {Found(c, d)}
  /\ UNCHANGED <<code, device, pairedBy, attested>>

(* 409 for a known device, 403 for another employee's code, or any error:  *)
(* rolled back.                                                            *)
EnrollRollback(q) ==
  /\ q.at = "found" /\ enroll' = enroll \ {q}
  /\ UNCHANGED <<code, device, pairedBy, attested>>

Registered(q) ==
  /\ device[q.device] = "none"
  /\ device' = [device EXCEPT ![q.device] = "enrolled"]
  /\ pairedBy' = [pairedBy EXCEPT ![q.device] = @ \cup {q.code}]
  /\ code' = [code EXCEPT ![q.code] = "used"]
  /\ enroll' = (enroll \ {q}) \cup {[q EXCEPT !.at = "committed"]}

(* Mutant: the attestation is stored before the transaction commits.       *)
EnrollCommitAttestFirst(q) ==
  /\ q.at = "found" /\ attested' = attested \cup {q.device}
  /\ \/ Registered(q)
     \/ enroll' = enroll \ {q} /\ UNCHANGED <<code, device, pairedBy>>

EnrollCommit(q) == q.at = "found" /\ Registered(q) /\ UNCHANGED attested

StoreAttestation(q) ==
  /\ q.at = "committed" /\ enroll' = enroll \ {q}
  /\ attested' = attested \cup {q.device}
  /\ UNCHANGED <<code, device, pairedBy>>

(* The put fails, the commit's answer is lost, or the Lambda dies.         *)
StoreFails(q) ==
  /\ q.at = "committed" /\ enroll' = enroll \ {q}
  /\ UNCHANGED <<code, device, pairedBy, attested>>

EnrollNext ==
  \/ \E c \in Code : IssueCode(c) \/ Expire(c)
  \/ \E c \in Code, d \in Device : EnrollLookup(c, d)
  \/ \E q \in enroll :
       EnrollCommit(q) \/ EnrollRollback(q) \/ StoreAttestation(q) \/ StoreFails(q)

EnrollTypeOK ==
  /\ code \in [Code -> {"none", "unused", "used", "expired"}]
  /\ device \in [Device -> {"none", "enrolled", "placeholder"}]
  /\ pairedBy \in [Device -> SUBSET Code]
  /\ enroll \subseteq [at : {"found", "committed"}, code : Code, device : Device]
  /\ attested \subseteq Device

-----------------------------------------------------------------------------
(* Properties.                                                             *)

(* "Codes expire and cannot be reused": two devices never enroll with one  *)
(* code, whatever overlaps.                                                *)
CodePairsOne ==
  \A d, e \in Device : pairedBy[d] \cap pairedBy[e] # {} => d = e

(* An attestation, which cannot be deleted once written, is that of a      *)
(* registered device.                                                      *)
AttestedIsEnrolled == \A d \in attested : device[d] = "enrolled"

(* A consumed code has bought something: the key registered with it stays  *)
(* the device's key, and nothing replaces it by a placeholder.  A device   *)
(* that lost its key could not enroll again: enroll answers 409.           *)
UsedCodeEnrolled ==
  \A c \in Code :
    code[c] = "used" => \E d \in Device : c \in pairedBy[d] /\ device[d] = "enrolled"

(* What a comment says and the code does not keep.  "Archive the           *)
(* attestation itself ...; regulators ask to see it": once its request is  *)
(* over, an enrolled device has one.                                       *)
AttestationArchived ==
  \A d \in Device :
    device[d] = "enrolled" =>
      d \in attested \/ \E q \in enroll : q.at = "committed" /\ q.device = d
=============================================================================
