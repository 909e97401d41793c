--------------------------- MODULE Migrations_proofs ---------------------------
(***************************************************************************)
(* Proofs about Migrations, for every number of runners and releases.      *)
(***************************************************************************)
EXTENDS Migrations, TLAPS

(* The lists the runners work from only grow stale in one direction.       *)
KnownIsApplied == \A d \in Runner : already[d] \subseteq applied

(* An open transaction is for a migration whose predecessors are applied;  *)
(* once it has inserted its name, it is alone with that migration.         *)
TxInOrder ==
  \A d \in Runner :
    pc[d] \in {"tx", "recorded"} =>
      cur[d] \in Migration /\ \A n \in Migration : n < cur[d] => n \in applied

TxAlone ==
  /\ \A d \in Runner : pc[d] = "recorded" => cur[d] \notin applied
  /\ \A d, e \in Runner :
       pc[d] = "recorded" /\ pc[e] = "recorded" /\ cur[d] = cur[e] => d = e

IInv ==
  /\ TypeOK /\ AppliedOnce /\ InOrder /\ SuccessMeansMigrated
  /\ KnownIsApplied /\ TxInOrder /\ TxAlone

USE MigrationsAssumption DEF MigrationsAssumption

LEMMA InitInv == Init => IInv
BY DEF Init, IInv, TypeOK, AppliedOnce, InOrder, SuccessMeansMigrated, KnownIsApplied,
   TxInOrder, TxAlone, Migration, Points

(* Goto moves one runner between two points of the program.                *)
LEMMA GotoMoves ==
  ASSUME NEW d \in Runner, NEW from \in Points, NEW to \in Points,
         pc \in [Runner -> Points], Goto(d, from, to)
  PROVE  /\ pc[d] = from /\ pc'[d] = to
         /\ pc' \in [Runner -> Points]
         /\ \A e \in Runner : e # d => pc'[e] = pc[e]
BY DEF Goto

(* A step that writes nothing to the schema, and whose runner ends outside *)
(* of a transaction, needs only its own part of the invariant.             *)
LEMMA Aside ==
  ASSUME IInv, NEW d \in Runner,
         pc' \in [Runner -> Points], pc'[d] \notin {"tx", "recorded", "done"},
         \A e \in Runner : e # d => pc'[e] = pc[e] /\ cur'[e] = cur[e] /\ ships'[e] = ships[e],
         cur' \in [Runner -> 0..MaxRelease], ships' \in [Runner -> 0..MaxRelease],
         already' \in [Runner -> SUBSET Migration],
         \A e \in Runner : already'[e] \subseteq applied,
         UNCHANGED <<applied, effects>>
  PROVE  IInv'
<1> USE DEF IInv
<1>1. TypeOK'
  BY DEF TypeOK
<1>2. AppliedOnce' /\ InOrder' /\ KnownIsApplied'
  BY DEF AppliedOnce, InOrder, KnownIsApplied
<1>3. SuccessMeansMigrated'
  BY DEF SuccessMeansMigrated
<1>4. TxInOrder' /\ TxAlone'
  BY DEF TxInOrder, TxAlone
<1> QED BY <1>1, <1>2, <1>3, <1>4

(* A commit adds the one migration that comes next, once.                  *)
LEMMA CommitInv ==
  ASSUME IInv, NEW d \in Runner, NEW to \in {"loop", "failed"},
         Goto(d, "recorded", to), Committed(d),
         already' \in [Runner -> SUBSET Migration],
         \A e \in Runner : already'[e] \subseteq already[e] \cup {cur[d]}
  PROVE  IInv'
<1> USE DEF IInv
<1>1. /\ pc[d] = "recorded" /\ pc'[d] = to /\ pc' \in [Runner -> Points]
      /\ \A e \in Runner : e # d => pc'[e] = pc[e]
  BY GotoMoves DEF TypeOK, Points
<1>2. /\ cur[d] \in Migration /\ cur[d] \notin applied
      /\ \A n \in Migration : n < cur[d] => n \in applied
      /\ \A e \in Runner : e # d /\ pc[e] = "recorded" => cur[e] # cur[d]
  BY <1>1 DEF TxInOrder, TxAlone
<1>3. /\ applied' = applied \cup {cur[d]}
      /\ effects' = [effects EXCEPT ![cur[d]] = @ + 1]
      /\ cur' = [cur EXCEPT ![d] = 0]
      /\ ships' = ships
  BY DEF Committed
<1>4. \A e \in Runner : e # d => cur'[e] = cur[e]
  BY <1>3 DEF TypeOK
<1>5. TypeOK'
  <2>1. applied' \subseteq Migration /\ effects' \in [Migration -> Nat]
    BY <1>2, <1>3 DEF TypeOK
  <2>2. cur' \in [Runner -> 0..MaxRelease] /\ ships' \in [Runner -> 0..MaxRelease]
    BY <1>3 DEF TypeOK
  <2> QED BY <1>1, <2>1, <2>2 DEF TypeOK
<1>6. AppliedOnce'
  <2> SUFFICES ASSUME NEW m \in Migration
               PROVE  effects'[m] = IF m \in applied' THEN 1 ELSE 0
    BY DEF AppliedOnce
  <2>1. CASE m = cur[d]
    BY <2>1, <1>2, <1>3 DEF AppliedOnce, TypeOK
  <2>2. CASE m # cur[d]
    BY <2>2, <1>2, <1>3 DEF AppliedOnce, TypeOK
  <2> QED BY <2>1, <2>2
<1>7. InOrder'
  BY <1>2, <1>3 DEF InOrder, Migration
<1>8. SuccessMeansMigrated'
  BY <1>1, <1>3 DEF SuccessMeansMigrated
<1>9. KnownIsApplied'
  BY <1>3 DEF KnownIsApplied
<1>10. TxInOrder'
  BY <1>1, <1>3, <1>4 DEF TxInOrder
<1>11. TxAlone'
  BY <1>1, <1>2, <1>3, <1>4 DEF TxAlone
<1> QED BY <1>5, <1>6, <1>7, <1>8, <1>9, <1>10, <1>11

(* The loop opens a transaction for the first migration it has not seen:   *)
(* all before it are in its list, hence applied.                           *)
LEMMA BeginInv ==
  ASSUME IInv, NEW d \in Runner, BeginTx(d)
  PROVE  IInv'
<1> USE DEF IInv
<1>1. PICK m \in Migration : NextPending(d, m) /\ cur' = [cur EXCEPT ![d] = m]
  BY DEF BeginTx
<1>2. /\ pc[d] = "loop" /\ pc'[d] = "tx" /\ pc' \in [Runner -> Points]
      /\ \A e \in Runner : e # d => pc'[e] = pc[e]
  BY GotoMoves DEF TypeOK, Points, BeginTx
<1>3. /\ cur'[d] = m /\ cur' \in [Runner -> 0..MaxRelease]
      /\ \A e \in Runner : e # d => cur'[e] = cur[e]
  BY <1>1 DEF TypeOK, Migration
<1>4. UNCHANGED <<applied, effects, ships, already>>
  BY DEF BeginTx
<1>5. \A n \in Migration : n < m => n \in applied
  <2> SUFFICES ASSUME NEW n \in Migration, n < m PROVE n \in applied
    OBVIOUS
  <2>1. /\ m \in 1..ships[d] /\ ships[d] \in 0..MaxRelease
        /\ \A k \in Pending(d) : m <= k
    BY <1>1 DEF NextPending, Pending, TypeOK
  <2>2. n \in 1..ships[d] /\ n \notin Pending(d)
    BY <2>1 DEF Migration
  <2> QED BY <2>2 DEF Pending, KnownIsApplied
<1>6. TypeOK' /\ AppliedOnce' /\ InOrder' /\ KnownIsApplied'
  BY <1>2, <1>3, <1>4 DEF TypeOK, AppliedOnce, InOrder, KnownIsApplied
<1>7. SuccessMeansMigrated'
  BY <1>2, <1>4 DEF SuccessMeansMigrated
<1>8. TxInOrder'
  <2> SUFFICES ASSUME NEW e \in Runner, pc'[e] \in {"tx", "recorded"}
               PROVE  cur'[e] \in Migration /\ \A n \in Migration : n < cur'[e] => n \in applied'
    BY DEF TxInOrder
  <2>1. CASE e = d
    BY <2>1, <1>3, <1>4, <1>5
  <2>2. CASE e # d
    BY <2>2, <1>2, <1>3, <1>4 DEF TxInOrder
  <2> QED BY <2>1, <2>2
<1>9. TxAlone'
  BY <1>2, <1>3, <1>4 DEF TxAlone
<1> QED BY <1>6, <1>7, <1>8, <1>9

(* The insert goes through where nobody has, or is about to have, the      *)
(* same name in the table.                                                 *)
LEMMA RecordInv ==
  ASSUME IInv, NEW d \in Runner, Record(d)
  PROVE  IInv'
<1> USE DEF IInv
<1>1. /\ pc[d] = "tx" /\ pc'[d] = "recorded" /\ pc' \in [Runner -> Points]
      /\ \A e \in Runner : e # d => pc'[e] = pc[e]
  BY GotoMoves DEF TypeOK, Points, Record
<1>2. UNCHANGED <<applied, effects, ships, already, cur>>
  BY DEF Record
<1>3. cur[d] \notin applied /\ \A e \in Runner : ~(pc[e] = "recorded" /\ cur[e] = cur[d])
  BY DEF Record
<1>4. TypeOK' /\ AppliedOnce' /\ InOrder' /\ KnownIsApplied'
  BY <1>1, <1>2 DEF TypeOK, AppliedOnce, InOrder, KnownIsApplied
<1>5. SuccessMeansMigrated' /\ TxInOrder'
  BY <1>1, <1>2 DEF SuccessMeansMigrated, TxInOrder
<1>6. TxAlone'
  BY <1>1, <1>2, <1>3 DEF TxAlone
<1> QED BY <1>4, <1>5, <1>6

LEMMA FinishInv ==
  ASSUME IInv, NEW d \in Runner, Finish(d)
  PROVE  IInv'
<1> USE DEF IInv
<1>1. /\ pc[d] = "loop" /\ pc'[d] = "done" /\ pc' \in [Runner -> Points]
      /\ \A e \in Runner : e # d => pc'[e] = pc[e]
  BY GotoMoves DEF TypeOK, Points, Finish
<1>2. UNCHANGED <<applied, effects, ships, already, cur>>
  BY DEF Finish
<1>3. 1..ships[d] \subseteq applied
  BY DEF Finish, Pending, KnownIsApplied
<1>4. TypeOK' /\ AppliedOnce' /\ InOrder' /\ KnownIsApplied'
  BY <1>1, <1>2 DEF TypeOK, AppliedOnce, InOrder, KnownIsApplied
<1>5. SuccessMeansMigrated'
  BY <1>1, <1>2, <1>3 DEF SuccessMeansMigrated
<1>6. TxInOrder' /\ TxAlone'
  BY <1>1, <1>2 DEF TxInOrder, TxAlone
<1> QED BY <1>4, <1>5, <1>6

LEMMA NextInv == IInv /\ [Next]_vars => IInv'
<1> SUFFICES ASSUME IInv, [Next]_vars PROVE IInv'
  OBVIOUS
<1>1. ASSUME NEW d \in Runner, Invoke(d) PROVE IInv'
  <2>1. PICK v \in Migration : ships' = [ships EXCEPT ![d] = v]
    BY <1>1 DEF Invoke
  <2>2. /\ pc'[d] = "read" /\ pc' \in [Runner -> Points]
        /\ \A e \in Runner : e # d => pc'[e] = pc[e]
    BY <1>1, GotoMoves DEF Invoke, IInv, TypeOK, Points
  <2>3. /\ ships' \in [Runner -> 0..MaxRelease]
        /\ \A e \in Runner : e # d => ships'[e] = ships[e]
    BY <2>1 DEF IInv, TypeOK, Migration
  <2> QED BY <1>1, <2>2, <2>3, Aside DEF Invoke, IInv, TypeOK, KnownIsApplied
<1>2. ASSUME NEW d \in Runner, InvokeDelete(d) PROVE IInv'
  <2>1. /\ pc'[d] = "deleted" /\ pc' \in [Runner -> Points]
        /\ \A e \in Runner : e # d => pc'[e] = pc[e]
    BY <1>2, GotoMoves DEF InvokeDelete, IInv, TypeOK, Points
  <2> QED BY <1>2, <2>1, Aside DEF InvokeDelete, IInv, TypeOK, KnownIsApplied
<1>3. ASSUME NEW d \in Runner, ReadApplied(d) PROVE IInv'
  <2>1. /\ pc'[d] = "loop" /\ pc' \in [Runner -> Points]
        /\ \A e \in Runner : e # d => pc'[e] = pc[e]
    BY <1>3, GotoMoves DEF ReadApplied, IInv, TypeOK, Points
  <2>2. /\ already' \in [Runner -> SUBSET Migration]
        /\ \A e \in Runner : already'[e] \subseteq applied
    BY <1>3 DEF ReadApplied, IInv, TypeOK, KnownIsApplied
  <2> QED BY <1>3, <2>1, <2>2, Aside DEF ReadApplied, IInv, TypeOK
<1>4. ASSUME NEW d \in Runner, Fail(d) PROVE IInv'
  <2>1. PICK at \in {"read", "loop", "tx", "recorded"} : Goto(d, at, "failed")
    BY <1>4 DEF Fail
  <2>2. /\ pc'[d] = "failed" /\ pc' \in [Runner -> Points]
        /\ \A e \in Runner : e # d => pc'[e] = pc[e]
    BY <2>1, GotoMoves DEF IInv, TypeOK, Points
  <2>3. /\ cur' \in [Runner -> 0..MaxRelease]
        /\ \A e \in Runner : e # d => cur'[e] = cur[e]
    BY <1>4 DEF Fail, IInv, TypeOK
  <2> QED BY <1>4, <2>2, <2>3, Aside DEF Fail, IInv, TypeOK, KnownIsApplied
<1>5. ASSUME NEW d \in Runner, Commit(d) PROVE IInv'
  <2>1. cur[d] \in Migration
    BY <1>5 DEF Commit, Goto, IInv, TxInOrder
  <2>2. /\ already' \in [Runner -> SUBSET Migration]
        /\ \A e \in Runner : already'[e] \subseteq already[e] \cup {cur[d]}
    BY <1>5, <2>1 DEF Commit, IInv, TypeOK
  <2> QED BY <1>5, <2>2, CommitInv DEF Commit
<1>6. ASSUME NEW d \in Runner, CommitUnknown(d) PROVE IInv'
  BY <1>6, CommitInv DEF CommitUnknown, IInv, TypeOK
<1>7. CASE UNCHANGED vars
  BY <1>7 DEF vars, IInv, TypeOK, AppliedOnce, InOrder, SuccessMeansMigrated, KnownIsApplied,
     TxInOrder, TxAlone, Pending
<1> QED BY <1>1, <1>2, <1>3, <1>4, <1>5, <1>6, <1>7, BeginInv, RecordInv, FinishInv
        DEF Next, Run

LEMMA Invariance == Spec => []IInv
<1> QED BY InitInv, NextInv, PTL DEF Spec

(* Every variable of the migration runner keeps its type.                  *)
THEOREM TypesHold == Spec => []TypeOK
<1>1. IInv => TypeOK
  BY DEF IInv
<1> QED BY <1>1, Invariance, PTL

(* However many deployments overlap, fail and are repeated, a migration    *)
(* takes effect once, and exactly if schema_migrations names it.           *)
THEOREM EffectOnce == Spec => []AppliedOnce
<1>1. IInv => AppliedOnce
  BY DEF IInv
<1> QED BY <1>1, Invariance, PTL

(* No migration is applied before an earlier one.                          *)
THEOREM OrderHolds == Spec => []InOrder
<1>1. IInv => InOrder
  BY DEF IInv
<1> QED BY <1>1, Invariance, PTL

(* An invocation whose handler answers Status SUCCESS leaves a database    *)
(* with everything its release ships, and so does every later state.       *)
THEOREM SuccessIsReal == Spec => []SuccessMeansMigrated
<1>1. IInv => SuccessMeansMigrated
  BY DEF IInv
<1> QED BY <1>1, Invariance, PTL
=============================================================================
