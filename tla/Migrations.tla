------------------------------ MODULE Migrations ------------------------------
(***************************************************************************)
(* The migration runner of the AWS stack.  CloudFormation invokes the      *)
(* migrate Lambda on every deployment; an invocation that dies or times    *)
(* out is invoked again, so runners overlap.  A transaction that is not    *)
(* committed leaves nothing behind, and the primary key of                 *)
(* schema_migrations makes an insert wait for an open one of the same name *)
(* and fail after a committed one.                                         *)
(***************************************************************************)
EXTENDS Naturals, FiniteSets

CONSTANTS Runner,      \* invocations of the Lambda
          MaxRelease   \* migrations written so far; release v ships the first v

ASSUME MigrationsAssumption == MaxRelease \in Nat

Migration == 1..MaxRelease

VARIABLES
  applied,  \* schema_migrations
  effects,  \* history: migration -> how often its statements were committed
  ships,    \* runner -> its release
  already,  \* runner -> the names it read, and those it has applied since
  cur,      \* runner -> the migration its transaction is for, 0 if none
  pc

vars == <<applied, effects, ships, already, cur, pc>>

Init ==
  /\ applied = {} /\ effects = [m \in Migration |-> 0]
  /\ ships = [d \in Runner |-> 0] /\ already = [d \in Runner |-> {}]
  /\ cur = [d \in Runner |-> 0] /\ pc = [d \in Runner |-> "idle"]

Goto(d, from, to) == pc[d] = from /\ pc' = [pc EXCEPT ![d] = to]

(* A Create or Update event; Delete answers SUCCESS and touches nothing.   *)
Invoke(d) ==
  /\ Goto(d, "idle", "read")
  /\ \E v \in Migration : ships' = [ships EXCEPT ![d] = v]
  /\ UNCHANGED <<applied, effects, already, cur>>

InvokeDelete(d) ==
  /\ Goto(d, "idle", "deleted")
  /\ UNCHANGED <<applied, effects, ships, already, cur>>

(* Both statements before the loop: the table exists from the first on,    *)
(* the second reads it outside of any transaction.                         *)
ReadApplied(d) ==
  /\ Goto(d, "read", "loop")
  /\ already' = [already EXCEPT ![d] = applied]
  /\ UNCHANGED <<applied, effects, ships, cur>>

Pending(d) == (1..ships[d]) \ already[d]

(* Mutant: the loop takes any migration it has not seen.                   *)
NextPendingAny(d, m) == m \in Pending(d)

(* The loop goes through the shipped migrations in order.                  *)
NextPending(d, m) == m \in Pending(d) /\ \A n \in Pending(d) : m <= n

BeginTx(d) ==
  /\ Goto(d, "loop", "tx")
  /\ \E m \in Migration : NextPending(d, m) /\ cur' = [cur EXCEPT ![d] = m]
  /\ UNCHANGED <<applied, effects, ships, already>>

(* Mutant: the insert says ON CONFLICT DO NOTHING.                         *)
RecordAnyway(d) ==
  /\ Goto(d, "tx", "recorded")
  /\ UNCHANGED <<applied, effects, ships, already, cur>>

(* The last statement of the transaction, after the migration's own.       *)
Record(d) ==
  /\ Goto(d, "tx", "recorded")
  /\ cur[d] \notin applied
  /\ \A e \in Runner : ~(pc[e] = "recorded" /\ cur[e] = cur[d])
  /\ UNCHANGED <<applied, effects, ships, already, cur>>

Committed(d) ==
  /\ applied' = applied \cup {cur[d]}
  /\ effects' = [effects EXCEPT ![cur[d]] = @ + 1]
  /\ cur' = [cur EXCEPT ![d] = 0]
  /\ UNCHANGED ships

Commit(d) ==
  /\ Goto(d, "recorded", "loop") /\ Committed(d)
  /\ already' = [already EXCEPT ![d] = @ \cup {cur[d]}]

(* The commit happens and its answer is lost; the rollback that follows    *)
(* finds no transaction, and its error is swallowed.                       *)
CommitUnknown(d) == Goto(d, "recorded", "failed") /\ Committed(d) /\ UNCHANGED already

(* Mutant: after an error the loop tries the same migration again.         *)
FailRetries(d) ==
  /\ \E at \in {"tx", "recorded"} : Goto(d, at, "loop")
  /\ cur' = [cur EXCEPT ![d] = 0]
  /\ UNCHANGED <<applied, effects, ships, already>>

(* A statement fails (as the insert does after a commit of the same name), *)
(* or the Lambda dies: the transaction is rolled back.                     *)
Fail(d) ==
  /\ \E at \in {"read", "loop", "tx", "recorded"} : Goto(d, at, "failed")
  /\ cur' = [cur EXCEPT ![d] = 0]
  /\ UNCHANGED <<applied, effects, ships, already>>

(* Mutant: one transaction's error does not end the loop.                  *)
FinishEarly(d) ==
  /\ Goto(d, "loop", "done")
  /\ UNCHANGED <<applied, effects, ships, already, cur>>

Finish(d) ==
  /\ Goto(d, "loop", "done") /\ Pending(d) = {}
  /\ UNCHANGED <<applied, effects, ships, already, cur>>

Run(d) == ReadApplied(d) \/ BeginTx(d) \/ Record(d) \/ Commit(d) \/ Finish(d)

Next ==
  \E d \in Runner : Invoke(d) \/ InvokeDelete(d) \/ Run(d) \/ CommitUnknown(d) \/ Fail(d)

Spec == Init /\ [][Next]_vars

Points == {"idle", "read", "loop", "tx", "recorded", "done", "failed", "deleted"}

TypeOK ==
  /\ applied \subseteq Migration
  /\ effects \in [Migration -> Nat]
  /\ ships \in [Runner -> 0..MaxRelease]
  /\ already \in [Runner -> SUBSET Migration]
  /\ cur \in [Runner -> 0..MaxRelease]
  /\ pc \in [Runner -> Points]

-----------------------------------------------------------------------------
(* Properties.                                                             *)

(* Every migration takes effect once, whatever overlaps, fails or is       *)
(* repeated, and exactly when schema_migrations says so.                   *)
AppliedOnce == \A m \in Migration : effects[m] = IF m \in applied THEN 1 ELSE 0

(* No migration runs on a schema that lacks an earlier one, though every   *)
(* runner works from a list it read outside of its transactions.           *)
InOrder == \A m \in applied : \A n \in Migration : n <= m => n \in applied

(* When the handler answers with Status SUCCESS, everything its release    *)
(* ships is in the schema.  It answers failures too, with Status FAILED,   *)
(* instead of throwing; what the framework in front of it makes of that    *)
(* answer is not in this model.                                            *)
SuccessMeansMigrated == \A d \in Runner : pc[d] = "done" => 1..ships[d] \subseteq applied

(* Runners that wait for each other's insert get out of it, and a run      *)
(* whose statements go through reports.                                    *)
Fairness == \A d \in Runner : WF_vars(Run(d)) /\ WF_vars(cur[d] \in applied /\ Fail(d))
FairSpec == Spec /\ Fairness
EveryRunReports == \A d \in Runner : pc[d] = "read" ~> pc[d] \in {"done", "failed"}
=============================================================================
