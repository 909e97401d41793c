----------------------------- MODULE Fleet_proofs -----------------------------
(***************************************************************************)
(* Proofs about Fleet, for every setting of the thresholds, every          *)
(* difference between the clocks, and every bound.                         *)
(***************************************************************************)
EXTENDS Fleet, TLAPS

(* What the server can know of the agent's last sign of life.              *)
SignsOfLife ==
  /\ alive => seenAlive = now
  /\ seenAlive <= now
  /\ row.beat # Null => row.beat <= seenAlive + Ahead
  /\ \A b \in beats : b.time <= seenAlive + Ahead

IInv == TypeOK /\ SignsOfLife

USE FleetAssumption DEF FleetAssumption

(* The types of the device row, one column at a time.                      *)
RowType ==
  [beat : -1..(MaxTime + Ahead), captured : {Null}, enrolled : {0},
   paused : BOOLEAN, revoked : BOOLEAN, queue : Queues, skew : {"ok"},
   disk : {"unknown"}, messagesApp : {"unknown"}, fda : {"unknown"}]

LEMMA RowTyped == TypeOK <=> TypeOK /\ row \in RowType
BY DEF TypeOK, RowType

LEMMA InitInv == Init => IInv
<1> SUFFICES ASSUME Init PROVE IInv
  OBVIOUS
<1>1. row \in RowType
  BY DEF Init, RowType, Null
<1>2. TypeOK
  <2>1. "short" \in Queues /\ {MaxTime, MaxStarts} \subseteq Nat
    OBVIOUS
  <2>2. /\ now \in 0..MaxTime /\ seenAlive \in 0..MaxTime /\ starts \in 0..MaxStarts
        /\ queue \in Queues /\ beats = {}
    BY <2>1 DEF Init
  <2>3. alive \in BOOLEAN /\ marker \in BOOLEAN /\ flowing \in BOOLEAN
    BY Zenon DEF Init
  <2> QED BY <1>1, <2>2, <2>3 DEF TypeOK, RowType
<1>3. SignsOfLife
  <2>1. row.beat = Null
    BY DEF Init
  <2> QED BY <2>1 DEF Init, SignsOfLife
<1> QED BY <1>2, <1>3 DEF IInv

(* A heartbeat that is stored keeps the row a row, and says no more than   *)
(* the heartbeat did.                                                      *)
LEMMA StoreTyped ==
  ASSUME TypeOK, NEW b \in beats, BeatRow(b)
  PROVE  /\ row' \in RowType
         /\ row'.beat = b.time /\ row'.revoked = row.revoked
<1>1. b \in Beat
  BY DEF TypeOK
<1>2. b.time \in 0..(MaxTime + Ahead) /\ b.paused \in BOOLEAN /\ b.queue \in Queues
  BY <1>1 DEF Beat
<1>3. row \in RowType
  BY RowTyped
<1>4. row' = [row EXCEPT !.beat = b.time, !.captured = Null, !.paused = b.paused,
                         !.queue = b.queue, !.skew = "ok"]
  BY DEF BeatRow
<1>5. b.time \in -1..(MaxTime + Ahead)
  BY <1>2
<1> QED BY <1>2, <1>3, <1>4, <1>5 DEF RowType

LEMMA RevokeTyped ==
  ASSUME TypeOK, Revoke
  PROVE  /\ row' \in RowType
         /\ row'.beat = row.beat /\ row'.revoked = TRUE
<1>1. row \in RowType
  BY RowTyped
<1> QED BY <1>1 DEF Revoke, RowType

LEMMA NextInv == IInv /\ [Next]_vars => IInv'
<1> SUFFICES ASSUME IInv, [Next]_vars PROVE IInv'
  OBVIOUS
<1> USE DEF IInv
<1>1. CASE Tick
  <2>1. now' \in 0..MaxTime /\ seenAlive' \in 0..MaxTime
    BY <1>1 DEF Tick, TypeOK
  <2>2. TypeOK'
    BY <1>1, <2>1 DEF Tick, TypeOK
  <2>3. seenAlive <= seenAlive' /\ seenAlive' <= now' /\ (alive => seenAlive' = now')
    BY <1>1 DEF Tick, TypeOK, SignsOfLife
  <2>4. row.beat \in Int /\ \A b \in beats : b.time \in Int
    BY RowTyped DEF TypeOK, RowType, Beat
  <2>5. SignsOfLife'
    BY <1>1, <2>1, <2>3, <2>4 DEF Tick, TypeOK, SignsOfLife
  <2> QED BY <2>2, <2>5
<1>2. CASE Die \/ Start \/ PauseOrResume \/ Archive \/ QueueMoves
  <2>1. row' = row /\ beats' = beats /\ now' = now
    BY <1>2 DEF Die, Start, PauseOrResume, Archive, QueueMoves
  <2>2. seenAlive' \in 0..MaxTime /\ seenAlive <= seenAlive' /\ seenAlive' <= now
    BY <1>2 DEF Die, Start, PauseOrResume, Archive, QueueMoves, TypeOK, SignsOfLife
  <2>3. TypeOK'
    <3>1. starts' \in 0..MaxStarts /\ queue' \in Queues
      BY <1>2 DEF Die, Start, PauseOrResume, Archive, QueueMoves, TypeOK
    <3>2. alive' \in BOOLEAN /\ marker' \in BOOLEAN /\ flowing' \in BOOLEAN
      BY <1>2, Zenon DEF Die, Start, PauseOrResume, Archive, QueueMoves, TypeOK
    <3> QED BY <2>1, <2>2, <3>1, <3>2 DEF TypeOK
  <2>4. alive' => seenAlive' = now
    BY <1>2 DEF Die, Start, PauseOrResume, Archive, QueueMoves, SignsOfLife
  <2>5. row.beat \in Int /\ \A b \in beats : b.time \in Int
    BY RowTyped DEF TypeOK, RowType, Beat
  <2>6. SignsOfLife'
    BY <2>1, <2>2, <2>4, <2>5 DEF TypeOK, SignsOfLife
  <2> QED BY <2>3, <2>6
<1>3. CASE Revoke
  <2>1. row' \in RowType /\ row'.beat = row.beat
    BY <1>3, RevokeTyped
  <2>2. TypeOK'
    BY <1>3, <2>1 DEF Revoke, TypeOK, RowType
  <2>3. SignsOfLife'
    BY <1>3, <2>1 DEF Revoke, SignsOfLife
  <2> QED BY <2>2, <2>3
<1>4. CASE SendBeat
  <2> DEFINE new == [at |-> "sent", time |-> now + Ahead, paused |-> marker, queue |-> queue]
  <2>1. beats' = beats \cup {new} /\ alive
    BY <1>4 DEF SendBeat
  <2>2. new \in Beat /\ new.time <= seenAlive + Ahead
    BY <2>1 DEF TypeOK, SignsOfLife, Beat
  <2>3. TypeOK'
    BY <1>4, <2>1, <2>2 DEF SendBeat, TypeOK
  <2> HIDE DEF new
  <2>4. SignsOfLife'
    BY <1>4, <2>1, <2>2 DEF SendBeat, SignsOfLife
  <2> QED BY <2>3, <2>4
<1>5. ASSUME NEW b \in beats, BeatAuth(b) PROVE IInv'
  <2> DEFINE passed == [b EXCEPT !.at = "row"]
  <2>1. b \in Beat /\ b.time <= seenAlive + Ahead
    BY DEF TypeOK, SignsOfLife
  <2>2. passed \in Beat /\ passed.time = b.time
    BY <2>1 DEF Beat
  <2>3. beats' \subseteq beats \cup {passed}
    BY <1>5 DEF BeatAuth
  <2> HIDE DEF passed
  <2>4. TypeOK'
    BY <1>5, <2>2, <2>3 DEF BeatAuth, TypeOK
  <2>5. SignsOfLife'
    BY <1>5, <2>1, <2>2, <2>3 DEF BeatAuth, SignsOfLife
  <2> QED BY <2>4, <2>5
<1>6. ASSUME NEW b \in beats, BeatRow(b) PROVE IInv'
  <2>1. row' \in RowType /\ row'.beat = b.time
    BY <1>6, StoreTyped
  <2>2. beats' \subseteq beats
    BY <1>6 DEF BeatRow
  <2>3. TypeOK'
    BY <1>6, <2>1, <2>2 DEF BeatRow, TypeOK, RowType
  <2>4. SignsOfLife'
    BY <1>6, <2>1, <2>2 DEF BeatRow, SignsOfLife
  <2> QED BY <2>3, <2>4
<1>7. ASSUME NEW b \in beats, BeatLost(b) PROVE IInv'
  BY <1>7 DEF BeatLost, TypeOK, SignsOfLife
<1>8. CASE UNCHANGED vars
  BY <1>8 DEF vars, TypeOK, SignsOfLife
<1> QED BY <1>1, <1>2, <1>3, <1>4, <1>5, <1>6, <1>7, <1>8 DEF Next

LEMMA Invariance == Spec => []IInv
BY InitInv, NextInv, PTL DEF Spec

-----------------------------------------------------------------------------
(* What computeHealth makes of a row.                                      *)

(* Healthy takes a heartbeat no older than HeartbeatWarn.                  *)
LEMMA HealthyBeat ==
  ASSUME NEW d, d.beat \in Int, now \in Int, ComputeHealth(d) = "healthy"
  PROVE  d.beat # Null /\ now - d.beat <= HeartbeatWarn
<1>1. ~Critical(d) /\ ~Warning(d)
  BY DEF ComputeHealth
<1>2. d.beat # Null
  BY <1>1 DEF Critical
<1>3. ~BeatStale(d, HeartbeatWarn)
  BY <1>1 DEF Warning
<1> QED BY <1>2, <1>3 DEF BeatStale, Age

(* A last heartbeat older than HeartbeatCrit, or none, is critical.        *)
LEMMA StaleBeat ==
  ASSUME NEW d, d.beat \in Int, now \in Int, d.beat = Null \/ now - d.beat > HeartbeatCrit
  PROVE  ComputeHealth(d) \in {"critical", "paused", "revoked"}
<1>1. Critical(d)
  BY DEF Critical, BeatStale, Age
<1> QED BY <1>1 DEF ComputeHealth

LEMMA SignsDecide == IInv => HealthyMeansAlive /\ DeadIsCritical
<1> SUFFICES ASSUME IInv PROVE HealthyMeansAlive /\ DeadIsCritical
  OBVIOUS
<1>1. /\ row.beat \in Int /\ now \in Int /\ seenAlive \in Int
      /\ row.beat # Null => row.beat <= seenAlive + Ahead
  BY RowTyped DEF IInv, TypeOK, SignsOfLife, RowType, Null
<1>2. HealthyMeansAlive
  BY <1>1, HealthyBeat DEF HealthyMeansAlive, DevicesPage
<1>3. ASSUME now - seenAlive > HeartbeatCrit + Ahead
      PROVE  {DevicesPage, EmployeePage} \subseteq {"critical", "paused", "revoked"}
  <2> DEFINE seen == [row EXCEPT !.enrolled = Null, !.captured = Null]
  <2>1. seen.beat = row.beat
    BY RowTyped DEF IInv, RowType
  <2>2. row.beat = Null \/ now - row.beat > HeartbeatCrit
    BY <1>1, <1>3
  <2>3. DevicesPage \in {"critical", "paused", "revoked"}
    BY <1>1, <2>2, StaleBeat DEF DevicesPage
  <2> HIDE DEF seen
  <2>4. ComputeHealth(seen) \in {"critical", "paused", "revoked"}
    BY <1>1, <2>1, <2>2, StaleBeat
  <2> QED BY <2>3, <2>4 DEF EmployeePage, seen
<1> QED BY <1>2, <1>3 DEF DeadIsCritical

(* Every variable keeps its type.                                          *)
THEOREM TypesHold == Spec => []TypeOK
<1>1. IInv => TypeOK
  BY DEF IInv
<1> QED BY <1>1, Invariance, PTL

(* No delay, loss or reordering of heartbeats makes a device look healthy  *)
(* whose agent has been gone for more than HeartbeatWarn and the           *)
(* difference of the clocks.                                               *)
THEOREM NoFalseHealth == Spec => []HealthyMeansAlive
<1>1. IInv => HealthyMeansAlive
  BY SignsDecide
<1> QED BY <1>1, Invariance, PTL

(* Both pages report an agent that died, in time.                          *)
THEOREM DeathIsSeen == Spec => []DeadIsCritical
<1>1. IInv => DeadIsCritical
  BY SignsDecide
<1> QED BY <1>1, Invariance, PTL

(* A device shown as revoked is shown as revoked for ever.                 *)
LEMMA RevokedStep ==
  IInv /\ [Next]_vars => [DevicesPage = "revoked" => DevicesPage' = "revoked"]_vars
<1> SUFFICES ASSUME IInv, Next, DevicesPage = "revoked" PROVE DevicesPage' = "revoked"
  OBVIOUS
<1>1. row.revoked
  BY DEF DevicesPage, ComputeHealth
<1>2. row'.revoked
  <2>1. CASE Revoke
    BY <2>1, RevokeTyped DEF IInv
  <2>2. ASSUME NEW b \in beats, BeatRow(b) PROVE row'.revoked
    BY <1>1, <2>2, StoreTyped DEF IInv
  <2>3. CASE row' = row
    BY <1>1, <2>3
  <2> QED BY <2>1, <2>2, <2>3 DEF Next, Tick, Die, Start, PauseOrResume, Archive, QueueMoves,
          SendBeat, BeatAuth, BeatLost
<1> QED BY <1>2 DEF DevicesPage, ComputeHealth

(* A heartbeat sent before a revocation cannot undo it on the page.        *)
THEOREM RevocationIsFinal == Spec => RevokedStays
<1> QED BY Invariance, RevokedStep, PTL DEF Spec, RevokedStays
=============================================================================
