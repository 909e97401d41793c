------------------------- MODULE CommandLedger_proofs -------------------------
(***************************************************************************)
(* RemoteCommands implements CommandLedger, for any number of commands,    *)
(* polls, supervisors, losses and faults.                                  *)
(***************************************************************************)
EXTENDS RemoteCommands_proofs

(* Commands that travel were issued.                                       *)
KnownInv ==
  /\ \A m \in acks : Issued(m.cmd)
  /\ \A r \in Req : \A c \in get[r].rows : Issued(c)
  /\ \A c \in batch : Issued(c)
  /\ pc \in {"record", "wipe", "ack", "exec", "reboot"} => Issued(cur.cmd)

(* A supervisor's request that passed the lookup is for an action.         *)
RequestInv == \A a \in Admin : admin[a].at \in {"check", "insert"} => admin[a].kind \in Kinds

(* What the executor is about to do is what the command says, and only a   *)
(* command whose signature verified gets that far.                         *)
CourseInv ==
  /\ pc = "wipe" => kind[cur.cmd] = "revoke" /\ cur.ack = "result"
  /\ AboutTo /\ pc # "wipe" => kind[cur.cmd] \in Restarts
  /\ AboutTo \/ pc = "record" => keyOk
  /\ pc = "record" /\ kind[cur.cmd] \notin Restarts => executed[cur.cmd] = "no"

(* The answer a to command c was received, is on its way, or comes next.   *)
Verdict(c, a) ==
  \/ outcome[c] = a
  \/ \E m \in acks : m.cmd = c /\ m.outcome = a
  \/ pc = "ack" /\ cur.cmd = c /\ cur.ack = a

(* All answers to a command are the same: that of the log while there is   *)
(* one, an error if no signature verifies.                                 *)
VerdictInv ==
  \A c \in Cmd : kind[c] \notin Restarts =>
    /\ ~(Verdict(c, "result") /\ Verdict(c, "error"))
    /\ \A a \in {"result", "error"} :
         Verdict(c, a) /\ enrolled => IF keyOk THEN executed[c] = a ELSE a = "error"

LedgerInv == KnownInv /\ RequestInv /\ CourseInv /\ VerdictInv

LEMMA InitLedger == Init => LedgerInv
<1> SUFFICES ASSUME Init PROVE LedgerInv
  OBVIOUS
<1>1. /\ acks = {} /\ batch = {} /\ pc = "sleep" /\ get = [r \in Req |-> NoGet]
      /\ admin = [a \in Admin |-> NoAdmin] /\ outcome = [c \in Cmd |-> "open"]
  BY DEF Init, ServerInit, AgentInit
<1>2. KnownInv /\ RequestInv
  BY <1>1 DEF KnownInv, RequestInv, NoGet, NoAdmin
<1>3. CourseInv /\ VerdictInv
  BY <1>1 DEF CourseInv, VerdictInv, Verdict, AboutTo
<1> QED BY <1>2, <1>3 DEF LedgerInv

-----------------------------------------------------------------------------
(* Verdicts.                                                               *)

(* No new answer, and the log only gets lines it did not have.             *)
LEMMA VerdictKept ==
  ASSUME VerdictInv, keyOk' = keyOk,
         \A c \in Cmd : kind'[c] \notin Restarts => kind[c] \notin Restarts,
         \A c \in Cmd : \A a \in {"result", "error"} : Verdict(c, a)' => Verdict(c, a),
         \A c \in Cmd : enrolled' => enrolled /\ (executed'[c] = executed[c] \/ executed[c] = "no")
  PROVE  VerdictInv'
<1> HIDE DEF Verdict
<1> QED BY DEF VerdictInv

(* One new answer, to d: no other was given, and it is that of the log.    *)
LEMMA VerdictAdded ==
  ASSUME VerdictInv, keyOk' = keyOk, kind' = kind,
         NEW d \in Cmd, NEW v \in {"result", "error"},
         \A c \in Cmd : \A a \in {"result", "error"} :
           Verdict(c, a)' => Verdict(c, a) \/ (c = d /\ a = v),
         \A c \in Cmd : enrolled' => enrolled /\ (executed'[c] = executed[c] \/ executed[c] = "no"),
         kind[d] \notin Restarts =>
           /\ \A w \in {"result", "error"} : Verdict(d, w) => w = v
           /\ enrolled' => IF keyOk THEN executed'[d] = v ELSE v = "error"
  PROVE  VerdictInv'
<1> HIDE DEF Verdict
<1> QED BY DEF VerdictInv

-----------------------------------------------------------------------------
(* The steps of CommandLedger, in the terms of RemoteCommands.             *)

LedgerStutter == UNCHANGED <<kind, outcome, runs, enrolled>>

LEMMA Stutters ==
  ASSUME LedgerStutter
  PROVE  [Ledger!Next]_(Ledger!ledger)
BY DEF LedgerStutter, Ledger!ledger

LEMMA Issues ==
  ASSUME NEW c \in NextRow, NEW k \in Kinds, kind' = [kind EXCEPT ![c] = k],
         UNCHANGED <<outcome, runs, enrolled>>
  PROVE  [Ledger!Next]_(Ledger!ledger)
<1>1. c \in Ledger!Cmd /\ Ledger!Issue(c)
  BY DEF NextRow, Cmd, Issued, Ledger!Cmd, Ledger!Issue, Ledger!Issued
<1> QED BY <1>1 DEF Ledger!Next

LEMMA Happens ==
  ASSUME NEW c \in Cmd, kind[c] \in EffectFirst \/ (kind[c] \in LogFirst /\ runs[c] = 0),
         enrolled, enrolled' \in BOOLEAN, enrolled' <=> kind[c] # "revoke",
         runs' = [runs EXCEPT ![c] = @ + 1], UNCHANGED <<kind, outcome>>
  PROVE  [Ledger!Next]_(Ledger!ledger)
<1>1. c \in Ledger!Cmd
  BY DEF Cmd, Ledger!Cmd
<1>2. kind[c] \in Ledger!EffectFirst \/ (kind[c] \in Ledger!LogFirst /\ runs[c] = 0)
  BY DEF EffectFirst, LogFirst, Ledger!EffectFirst, Ledger!LogFirst
<1>3. ~enrolled' = (kind[c] = "revoke")
  OBVIOUS
<1>4. Ledger!Happen(c)
  BY <1>2, <1>3 DEF Ledger!Happen
<1> QED BY <1>1, <1>4 DEF Ledger!Next

LEMMA Closes ==
  ASSUME NEW S \in SUBSET Cmd, \A c \in S : Open(c), NEW how \in {"expired", "canceled"},
         outcome' = [c \in Cmd |-> IF c \in S THEN how ELSE outcome[c]],
         UNCHANGED <<kind, runs, enrolled>>
  PROVE  [Ledger!Next]_(Ledger!ledger)
<1>1. S \in SUBSET Ledger!Cmd
  BY DEF Cmd, Ledger!Cmd
<1>2. Ledger!Close(S, how)
  BY DEF Ledger!Close, Ledger!Issued, Ledger!Cmd, Cmd, Open, Issued
<1> QED BY <1>1, <1>2 DEF Ledger!Next

LEMMA Answers ==
  ASSUME NEW c \in Cmd, NEW a \in {"result", "error"}, Issued(c), a = "result" => Done(c),
         kind[c] \notin Restarts => outcome[c] \notin {"result", "error"} \ {a},
         outcome' = [outcome EXCEPT ![c] = a], UNCHANGED <<kind, runs, enrolled>>
  PROVE  [Ledger!Next]_(Ledger!ledger)
<1>1. c \in Ledger!Cmd
  BY DEF Cmd, Ledger!Cmd
<1>2. a = "result" => Ledger!Announced(c)
  BY DEF Done, EffectFirst, LogFirst, Ledger!Announced, Ledger!EffectFirst, Ledger!LogFirst
<1>3. Ledger!Answer(c, a)
  BY <1>2 DEF Ledger!Answer, Ledger!Issued, Issued, Restarts, Ledger!Restarts
<1> QED BY <1>1, <1>3 DEF Ledger!Next

-----------------------------------------------------------------------------
(* The dashboard.                                                          *)

(* The reaper.                                                             *)
Reaps ==
  /\ outcome' = [c \in Cmd |-> IF Open(c) /\ c \in lapsed THEN "expired" ELSE outcome[c]]
  /\ UNCHANGED kind

(* A cancellation that finds its row open.                                 *)
Cancels(c) ==
  /\ Open(c) /\ outcome' = [outcome EXCEPT ![c] = "canceled"]
  /\ UNCHANGED kind

(* An ack that reaches its row.                                            *)
Completes(m) ==
  /\ outcome' = [outcome EXCEPT ![m.cmd] = m.outcome]
  /\ UNCHANGED kind

Inserts(c, k) == kind' = [kind EXCEPT ![c] = k] /\ UNCHANGED outcome

(* What one step of a handler does to the rows.                            *)
LEMMA ServerMoves ==
  ASSUME TypeOK, RequestInv, ServerNext
  PROVE  \/ UNCHANGED <<kind, outcome>>
         \/ Reaps
         \/ \E c \in Cmd : Cancels(c)
         \/ \E m \in acks : Completes(m)
         \/ \E c \in NextRow, k \in Kinds : Inserts(c, k)
<1> USE DEF TypeOK, ServerTypeOK
<1>1. ASSUME NEW r \in Req, GetStep(r) \/ GetLost(r)
      PROVE  UNCHANGED <<kind, outcome>> \/ Reaps
  BY <1>1 DEF GetStep, GetAuth, GetReap, GetSelect, GetStamp, GetStampFails, GetLost, rowVars, Reaps
<1>2. ASSUME NEW m \in acks, AckAuth(m) \/ AckRow(m) \/ AckDevice(m) \/ AckDeviceFails(m) \/ AckLost(m)
      PROVE  UNCHANGED <<kind, outcome>> \/ Completes(m)
  BY <1>2 DEF AckAuth, AckRow, AckDevice, AckDeviceFails, AckLost, rowVars, Completes
<1>3. ASSUME NEW b \in beats, BeatAuth(b) \/ BeatRow(b) \/ BeatLost(b)
      PROVE  UNCHANGED <<kind, outcome>>
  BY <1>3 DEF BeatAuth, BeatRow, BeatLost, rowVars
<1>4. ASSUME NEW a \in Admin, AdminBegin(a) \/ AdminFinish(a)
      PROVE  \/ UNCHANGED <<kind, outcome>>
             \/ \E c \in Cmd : Cancels(c)
             \/ \E c \in NextRow, k \in Kinds : Inserts(c, k)
  <2>1. CASE IssueInsert(a)
    <3>1. admin[a].kind \in Kinds
      BY <2>1 DEF IssueInsert, RequestInv
    <3>2. PICK c \in NextRow : kind' = [kind EXCEPT ![c] = admin[a].kind]
      BY <2>1 DEF IssueInsert
    <3> QED BY <2>1, <3>1, <3>2 DEF IssueInsert, Inserts
  <2>2. CASE CancelUpdate(a)
    <3>1. admin[a].cmd \in Cmd
      OBVIOUS
    <3> QED BY <2>2, <3>1 DEF CancelUpdate, Cancels
  <2>3. CASE ~IssueInsert(a) /\ ~CancelUpdate(a)
    BY <1>4, <2>3 DEF AdminBegin, AdminFinish, IssueLookup, IssueCheck, IssueAudit, IssueAuditFails,
       CancelLookup, rowVars
  <2> QED BY <2>1, <2>2, <2>3
<1>5. ASSUME NEW c \in Cmd, Lapse(c) \/ WindowPasses(c) PROVE UNCHANGED <<kind, outcome>>
  BY <1>5 DEF Lapse, WindowPasses
<1> QED BY <1>1, <1>2, <1>3, <1>4, <1>5 DEF ServerNext, AckStep, BeatStep, Loss, Clock

(* What a poll selects was issued, and a request keeps its action.         *)
LEMMA ServerRequests ==
  ASSUME TypeOK, KnownInv, RequestInv, ServerNext
  PROVE  /\ \A r \in Req : \A c \in get'[r].rows : Issued(c)
         /\ RequestInv'
<1> USE DEF TypeOK, ServerTypeOK
<1>1. ASSUME NEW r \in Req, GetStep(r) \/ GetLost(r)
      PROVE  /\ \A q \in Req : \A c \in get'[q].rows : Issued(c)
             /\ RequestInv'
  <2>1. Selected \in SUBSET {c \in Cmd : Issued(c)}
    BY DEF Selected, Due, Open
  <2>2. get'[r].rows = Selected \/ get'[r].rows = get[r].rows \/ get'[r].rows = {}
    <3> HIDE DEF Selected
    <3>1. CASE GetAuth(r) \/ GetReap(r)
      BY <3>1 DEF GetAuth, GetReap
    <3>2. CASE GetSelect(r)
      BY <3>2 DEF GetSelect
    <3>3. ASSUME NEW c \in Cmd, GetStamp(r, c) \/ GetStampFails(r, c) PROVE get'[r].rows = get[r].rows
      BY <3>3 DEF GetStamp, StampDone, GetStampFails
    <3>4. CASE GetLost(r)
      BY <3>4 DEF GetLost, NoGet
    <3> QED BY <1>1, <3>1, <3>2, <3>3, <3>4 DEF GetStep
  <2>3. \A q \in Req \ {r} : get'[q] = get[q]
    <3> HIDE DEF Selected
    <3> QED BY <1>1 DEF GetStep, GetAuth, GetReap, GetSelect, GetStamp, StampDone, GetStampFails, GetLost
  <2>4. admin' = admin
    BY <1>1 DEF GetStep, GetAuth, GetReap, GetSelect, GetStamp, GetStampFails, GetLost
  <2> QED BY <2>1, <2>2, <2>3, <2>4 DEF KnownInv, RequestInv
<1>2. ASSUME UNCHANGED get PROVE \A q \in Req : \A c \in get'[q].rows : Issued(c)
  BY <1>2 DEF KnownInv
<1>3. ASSUME NEW m \in acks, AckAuth(m) \/ AckRow(m) \/ AckDevice(m) \/ AckDeviceFails(m) \/ AckLost(m)
      PROVE  UNCHANGED <<get, admin>>
  BY <1>3 DEF AckAuth, AckRow, AckDevice, AckDeviceFails, AckLost
<1>4. ASSUME NEW b \in beats, BeatAuth(b) \/ BeatRow(b) \/ BeatLost(b) PROVE UNCHANGED <<get, admin>>
  BY <1>4 DEF BeatAuth, BeatRow, BeatLost
<1>5. ASSUME NEW c \in Cmd, Lapse(c) \/ WindowPasses(c) PROVE UNCHANGED <<get, admin>>
  BY <1>5 DEF Lapse, WindowPasses
<1>6. ASSUME UNCHANGED admin PROVE RequestInv'
  BY <1>6 DEF RequestInv
<1>7. ASSUME NEW a \in Admin, AdminBegin(a) \/ AdminFinish(a) PROVE UNCHANGED get /\ RequestInv'
  <2>1. UNCHANGED get
    BY <1>7 DEF AdminBegin, AdminFinish, IssueLookup, IssueCheck, IssueInsert, IssueAudit,
       IssueAuditFails, CancelLookup, CancelUpdate
  <2>2. \A b \in Admin \ {a} : admin'[b] = admin[b]
    BY <1>7 DEF AdminBegin, AdminFinish, IssueLookup, IssueCheck, IssueInsert, IssueAudit,
       IssueAuditFails, CancelLookup, CancelUpdate, AdminStep
  <2>3. admin'[a].at \in {"check", "insert"} => admin'[a].kind \in Kinds
    BY <1>7 DEF AdminBegin, AdminFinish, IssueLookup, IssueCheck, IssueInsert, IssueAudit,
       IssueAuditFails, CancelLookup, CancelUpdate, AdminStep, NoAdmin, RequestInv
  <2> QED BY <2>1, <2>2, <2>3 DEF RequestInv
<1> QED BY <1>1, <1>2, <1>3, <1>4, <1>5, <1>6, <1>7 DEF ServerNext, AckStep, BeatStep, Loss, Clock

(* The dashboard's own steps: rows are inserted, closed while open, and    *)
(* completed with what an ack says.                                        *)
LEMMA ServerLedger ==
  ASSUME IInv, LedgerInv, Server(ServerNext)
  PROVE  LedgerInv' /\ [Ledger!Next]_(Ledger!ledger)
<1>1. /\ ServerNext /\ TypeOK /\ KnownInv /\ RequestInv
      /\ UNCHANGED <<up, pc, batch, cur, keyOk, enrolled, executed, runs>>
  BY DEF IInv, LedgerInv, Server, agentVars
<1>2. /\ \A c \in Cmd : kind[c] # "none" => kind'[c] = kind[c]
      /\ \A m \in acks' : \E n \in acks : m.cmd = n.cmd /\ m.outcome = n.outcome
  BY <1>1, ServerKeeps
<1>3. /\ cur.cmd \in Cmd /\ batch \subseteq Cmd
      /\ \A m \in acks : m.cmd \in Cmd /\ m.outcome \in {"result", "error"}
      /\ outcome \in [Cmd -> Outcomes]
  BY <1>1 DEF TypeOK, AgentTypeOK, ServerTypeOK, Ack
<1>4. /\ \A r \in Req : \A c \in get'[r].rows : c \in Cmd /\ Issued(c)
      /\ RequestInv'
  <2>1. TypeOK'
    BY <1>1, NextType DEF Next
  <2> QED BY <1>1, <2>1, ServerRequests DEF TypeOK, ServerTypeOK
<1>5. \A c \in Cmd : Issued(c) => Issued(c)'
  BY <1>2 DEF Issued
<1>6. KnownInv'
  BY <1>1, <1>2, <1>3, <1>4, <1>5 DEF KnownInv
<1>7. CourseInv'
  <2>1. pc \in {"record", "wipe", "ack", "exec", "reboot"} => kind'[cur.cmd] = kind[cur.cmd]
    BY <1>1, <1>2, <1>3 DEF KnownInv, Issued
  <2> QED BY <1>1, <2>1 DEF CourseInv, AboutTo, LedgerInv
<1>8. \A c \in Cmd : \A a \in {"result", "error"} : outcome'[c] = a
        => outcome[c] = a \/ \E m \in acks : m.cmd = c /\ m.outcome = a
  BY <1>1, <1>3, ServerMoves DEF Reaps, Cancels, Completes, Inserts
<1>9. VerdictInv'
  <2>1. \A c \in Cmd : \A a \in {"result", "error"} : Verdict(c, a)' => Verdict(c, a)
    BY <1>1, <1>2, <1>8 DEF Verdict
  <2>2. \A c \in Cmd : kind'[c] \notin Restarts => kind[c] \notin Restarts
    BY <1>2 DEF Restarts
  <2> QED BY <1>1, <2>1, <2>2, VerdictKept DEF LedgerInv
<1>10. [Ledger!Next]_(Ledger!ledger)
  <2>1. CASE UNCHANGED <<kind, outcome>>
    BY <1>1, <2>1, Stutters DEF LedgerStutter
  <2>2. CASE Reaps
    <3>1. outcome' = [c \in Cmd |-> IF c \in {d \in Cmd : Open(d) /\ d \in lapsed} THEN "expired"
                                    ELSE outcome[c]]
      BY <2>2 DEF Reaps
    <3> QED BY <1>1, <2>2, <3>1, Closes DEF Reaps
  <2>3. ASSUME NEW c \in Cmd, Cancels(c) PROVE [Ledger!Next]_(Ledger!ledger)
    <3>1. outcome' = [d \in Cmd |-> IF d \in {c} THEN "canceled" ELSE outcome[d]]
      BY <1>3, <2>3 DEF Cancels
    <3> QED BY <1>1, <2>3, <3>1, Closes DEF Cancels
  <2>4. ASSUME NEW m \in acks, Completes(m) PROVE [Ledger!Next]_(Ledger!ledger)
    <3>1. Issued(m.cmd) /\ (m.outcome = "result" => Done(m.cmd))
      BY DEF LedgerInv, KnownInv, IInv, ToldInv
    <3>2. kind[m.cmd] \notin Restarts => outcome[m.cmd] \notin {"result", "error"} \ {m.outcome}
      BY <1>3 DEF LedgerInv, VerdictInv, Verdict
    <3> QED BY <1>1, <1>3, <2>4, <3>1, <3>2, Answers DEF Completes
  <2>5. ASSUME NEW c \in NextRow, NEW k \in Kinds, Inserts(c, k) PROVE [Ledger!Next]_(Ledger!ledger)
    BY <1>1, <2>5, Issues DEF Inserts
  <2> QED BY <1>1, <2>1, <2>2, <2>3, <2>4, <2>5, ServerMoves
<1> QED BY <1>4, <1>6, <1>7, <1>9, <1>10 DEF LedgerInv

-----------------------------------------------------------------------------
(* The agent.                                                              *)

(* execute(): the answer to a command is that of the log.                  *)
LEMMA ExecuteLedger ==
  ASSUME IInv, LedgerInv, NEW c \in Cmd, ExecuteNext(c)
  PROVE  LedgerInv' /\ [Ledger!Next]_(Ledger!ledger)
<1>1. Execute(c, kind[c]) /\ UNCHANGED <<kind, outcome, acks, get, admin>>
  BY DEF ExecuteNext, serverVars
<1>2. /\ runs \in [Cmd -> Nat] /\ executed \in [Cmd -> {"no", "result", "error"}]
      /\ enrolled \in BOOLEAN
  BY DEF IInv, TypeOK, AgentTypeOK
<1>3. PICK p, a, t : Take(c, p, a, t)
  BY <1>1 DEF Execute, Reject, Replay, Effect, EffectFails, Refuse, LogBeforeEffect, LogFails
<1>4. c \in batch /\ Issued(c) /\ batch' \subseteq batch /\ enrolled /\ pc = "batch" /\ cur'.cmd = c
  BY <1>3, Taken DEF Take, Oldest, LedgerInv, KnownInv
<1>5. UNCHANGED <<keyOk, enrolled>>
  BY <1>1 DEF Execute, Reject, Replay, Effect, EffectFails, Refuse, LogBeforeEffect, LogFails
<1>6. KnownInv' /\ RequestInv'
  BY <1>1, <1>4 DEF LedgerInv, KnownInv, RequestInv, Issued
<1>7. \A w \in {"result", "error"} : Verdict(c, w) /\ kind[c] \notin Restarts
        => IF keyOk THEN executed[c] = w ELSE w = "error"
  <2> HIDE DEF Verdict
  <2> QED BY <1>4 DEF LedgerInv, VerdictInv
<1>8. ASSUME pc' # "ack" PROVE \A d \in Cmd : \A w \in {"result", "error"} : Verdict(d, w)' => Verdict(d, w)
  BY <1>1, <1>8 DEF Verdict
<1>9. ASSUME NEW v, cur'.ack = v
      PROVE  \A d \in Cmd : \A w \in {"result", "error"} : Verdict(d, w)' => Verdict(d, w) \/ (d = c /\ w = v)
  BY <1>1, <1>4, <1>9 DEF Verdict
<1>10. \A d \in Cmd \ {c} : executed'[d] = executed[d]
  BY <1>1, <1>2 DEF Execute, Reject, Replay, Effect, EffectFails, Refuse, LogBeforeEffect, LogFails
<1> HIDE DEF Verdict
<1>11. CASE Reject(c)
  <2>1. /\ UNCHANGED <<executed, runs>> /\ ~keyOk
        /\ pc' = "ack" /\ cur'.ack = "error" /\ cur'.then = "batch"
    BY <1>11, Taken DEF Reject
  <2>2. VerdictInv'
    BY <1>1, <1>5, <1>7, <1>9, <2>1, VerdictAdded DEF LedgerInv
  <2>3. CourseInv'
    BY <2>1 DEF CourseInv, AboutTo
  <2> QED BY <1>1, <1>5, <1>6, <2>1, <2>2, <2>3, Stutters DEF LedgerInv, LedgerStutter
<1>12. CASE Replay(c)
  <2>1. /\ UNCHANGED <<executed, runs>> /\ keyOk /\ executed[c] \in {"result", "error"}
        /\ pc' = "ack" /\ cur'.ack = executed[c] /\ cur'.then = "batch"
    BY <1>2, <1>12, Taken DEF Replay
  <2>2. VerdictInv'
    BY <1>1, <1>5, <1>7, <1>9, <2>1, VerdictAdded DEF LedgerInv
  <2>3. CourseInv'
    BY <2>1 DEF CourseInv, AboutTo
  <2> QED BY <1>1, <1>5, <1>6, <2>1, <2>2, <2>3, Stutters DEF LedgerInv, LedgerStutter
<1>13. CASE Effect(c, kind[c]) \/ EffectFails(c, kind[c]) \/ LogFails(c, kind[c])
  <2>1. /\ UNCHANGED executed /\ keyOk /\ executed[c] = "no" /\ pc' = "record"
        /\ \/ UNCHANGED runs
           \/ runs' = [runs EXCEPT ![c] = @ + 1] /\ kind[c] \in EffectFirst
    BY <1>13, Taken DEF Effect, EffectFails, LogFails, New
  <2>2. VerdictInv'
    BY <1>1, <1>4, <1>5, <1>8, <2>1, VerdictKept DEF LedgerInv
  <2>3. CourseInv'
    BY <1>4, <1>5, <2>1 DEF CourseInv, AboutTo
  <2>4. [Ledger!Next]_(Ledger!ledger)
    <3>1. CASE UNCHANGED runs
      BY <1>1, <1>5, <3>1, Stutters DEF LedgerStutter
    <3>2. CASE runs' = [runs EXCEPT ![c] = @ + 1] /\ kind[c] \in EffectFirst
      BY <1>1, <1>2, <1>4, <1>5, <3>2, Happens DEF EffectFirst
    <3> QED BY <2>1, <3>1, <3>2
  <2> QED BY <1>6, <2>2, <2>3, <2>4 DEF LedgerInv
<1>14. CASE Refuse(c, kind[c])
  <2>1. /\ UNCHANGED runs /\ keyOk /\ executed[c] = "no" /\ executed'[c] = "error"
        /\ pc' = "ack" /\ cur'.ack = "error" /\ cur'.then = "batch"
    BY <1>2, <1>14, Taken DEF Refuse, New
  <2>2. VerdictInv'
    BY <1>1, <1>4, <1>5, <1>7, <1>9, <1>10, <2>1, VerdictAdded DEF LedgerInv
  <2>3. CourseInv'
    BY <2>1 DEF CourseInv, AboutTo
  <2> QED BY <1>1, <1>5, <1>6, <2>1, <2>2, <2>3, Stutters DEF LedgerInv, LedgerStutter
<1>15. CASE LogBeforeEffect(c, kind[c])
  <2>1. /\ UNCHANGED runs /\ keyOk /\ executed[c] = "no" /\ executed'[c] = "result"
        /\ kind[c] \in LogFirst /\ cur'.ack = "result"
        /\ pc' = IF kind[c] = "revoke" THEN "wipe" ELSE "ack"
    BY <1>2, <1>15, Taken DEF LogBeforeEffect, New
  <2>2. VerdictInv'
    <3>1. CASE kind[c] = "revoke"
      BY <1>1, <1>4, <1>5, <1>8, <1>10, <2>1, <3>1, VerdictKept DEF LedgerInv
    <3>2. CASE kind[c] # "revoke"
      BY <1>1, <1>4, <1>5, <1>7, <1>9, <1>10, <2>1, <3>2, VerdictAdded DEF LedgerInv
    <3> QED BY <3>1, <3>2
  <2>3. CourseInv'
    BY <1>1, <1>4, <1>5, <2>1 DEF CourseInv, AboutTo, LogFirst, Restarts
  <2> QED BY <1>1, <1>5, <1>6, <2>1, <2>2, <2>3, Stutters DEF LedgerInv, LedgerStutter
<1> QED BY <1>1, <1>11, <1>12, <1>13, <1>14, <1>15 DEF Execute

(* The rest of execute(): what is recorded is what will be answered.       *)
LEMMA ContinueLedger ==
  ASSUME IInv, LedgerInv, ContinueCommand
  PROVE  LedgerInv' /\ [Ledger!Next]_(Ledger!ledger)
<1>1. Continue /\ UNCHANGED <<kind, outcome, acks, get, admin>>
  BY DEF ContinueCommand, serverVars
<1>2. /\ runs \in [Cmd -> Nat] /\ executed \in [Cmd -> {"no", "result", "error"}]
      /\ cur \in [cmd : Cmd, ack : {"result", "error"}, then : {"batch", "exit", "exec", "reboot"}]
      /\ enrolled \in BOOLEAN
  BY DEF IInv, TypeOK, AgentTypeOK
<1>3. UNCHANGED keyOk
  BY <1>1 DEF Continue, BatchDone, Record, RecordFails, Wipe, Exec, Reboot, RestartFails, Start
<1>4. RequestInv'
  BY <1>1 DEF LedgerInv, RequestInv
<1>5. /\ batch' \subseteq batch
      /\ \/ pc' = "sleep"
         \/ pc \in {"record", "wipe", "exec", "reboot"} /\ pc' \in {"record", "ack"} /\ cur'.cmd = cur.cmd
  BY <1>1, <1>2 DEF Continue, BatchDone, Record, RecordFails, Wipe, Exec, Reboot, RestartFails, Start,
     At, IInv, ProcessInv
<1>6. KnownInv'
  BY <1>1, <1>5 DEF LedgerInv, KnownInv, Issued
<1>7. ASSUME pc' # "ack" PROVE \A d \in Cmd : \A w \in {"result", "error"} : Verdict(d, w)' => Verdict(d, w)
  BY <1>1, <1>7 DEF Verdict
<1>8. ASSUME NEW v, cur'.ack = v, cur'.cmd = cur.cmd
      PROVE  \A d \in Cmd : \A w \in {"result", "error"} :
               Verdict(d, w)' => Verdict(d, w) \/ (d = cur.cmd /\ w = v)
  BY <1>1, <1>8 DEF Verdict
<1>9. \A w \in {"result", "error"} : Verdict(cur.cmd, w) /\ kind[cur.cmd] \notin Restarts /\ enrolled
        => IF keyOk THEN executed[cur.cmd] = w ELSE w = "error"
  <2> HIDE DEF Verdict
  <2> QED BY <1>2 DEF LedgerInv, VerdictInv
<1> HIDE DEF Verdict
<1>10. CASE BatchDone \/ Start \/ RecordFails \/ RestartFails
  <2>1. /\ UNCHANGED <<runs, enrolled, executed>> /\ pc' # "ack" /\ ~AboutTo'
        /\ pc' = "record" => \/ pc = "record" /\ cur'.cmd = cur.cmd
                             \/ pc \in {"exec", "reboot"} /\ cur'.cmd = cur.cmd
    BY <1>2, <1>10 DEF BatchDone, Start, RecordFails, RestartFails, At, IInv, ProcessInv, AboutTo
  <2>2. VerdictInv'
    BY <1>1, <1>3, <1>7, <2>1, VerdictKept DEF LedgerInv
  <2>3. CourseInv'
    BY <1>1, <1>3, <2>1 DEF LedgerInv, CourseInv, AboutTo
  <2> QED BY <1>1, <1>4, <1>6, <2>1, <2>2, <2>3, Stutters DEF LedgerInv, LedgerStutter
<1>11. CASE Record
  <2>1. /\ UNCHANGED <<runs, enrolled, cur>> /\ pc = "record" /\ pc' = "ack" /\ cur.then = "batch"
        /\ executed' = [executed EXCEPT ![cur.cmd] = IF @ = "no" THEN cur.ack ELSE @]
        /\ enrolled
    BY <1>11 DEF Record, At, IInv, ProcessInv
  <2>2. /\ \A d \in Cmd : executed'[d] = executed[d] \/ executed[d] = "no"
        /\ cur.cmd \in Cmd /\ cur.ack \in {"result", "error"}
    BY <1>2, <2>1
  <2>3. kind[cur.cmd] \notin Restarts => executed[cur.cmd] = "no" /\ executed'[cur.cmd] = cur.ack
    BY <1>2, <2>1 DEF LedgerInv, CourseInv
  <2>4. keyOk
    BY <2>1 DEF LedgerInv, CourseInv
  <2>5. VerdictInv'
    BY <1>1, <1>3, <1>8, <1>9, <2>1, <2>2, <2>3, <2>4, VerdictAdded DEF LedgerInv
  <2>6. CourseInv'
    BY <2>1 DEF CourseInv, AboutTo
  <2> QED BY <1>1, <1>4, <1>6, <2>1, <2>5, <2>6, Stutters DEF LedgerInv, LedgerStutter
<1>12. CASE Wipe
  <2>1. /\ enrolled' = FALSE /\ UNCHANGED cur /\ pc = "wipe" /\ pc' = "ack" /\ enrolled /\ cur.then = "exit"
        /\ runs' = [runs EXCEPT ![cur.cmd] = @ + 1]
    BY <1>2, <1>12 DEF Wipe, At, IInv, ProcessInv
  <2>2. /\ kind[cur.cmd] = "revoke" /\ cur.ack = "result" /\ keyOk
        /\ executed[cur.cmd] = "result" /\ runs[cur.cmd] = 0
    BY <2>1 DEF LedgerInv, CourseInv, AboutTo, IInv, OnceInv
  <2>3. VerdictInv'
    BY <1>1, <1>2, <1>3, <1>8, <1>9, <2>1, <2>2, VerdictAdded DEF LedgerInv, Restarts
  <2>4. CourseInv'
    BY <2>1 DEF CourseInv, AboutTo
  <2>5. [Ledger!Next]_(Ledger!ledger)
    BY <1>1, <1>2, <2>1, <2>2, Happens DEF LogFirst
  <2> QED BY <1>4, <1>6, <2>3, <2>4, <2>5 DEF LedgerInv
<1>13. CASE Exec \/ Reboot
  <2>1. /\ UNCHANGED <<enrolled, executed>> /\ pc \in {"exec", "reboot"} /\ pc' = "sleep" /\ enrolled
        /\ runs' = [runs EXCEPT ![cur.cmd] = @ + 1]
    BY <1>13 DEF Exec, Reboot, At, IInv, ProcessInv
  <2>2. kind[cur.cmd] \in Restarts /\ runs[cur.cmd] = 0
    BY <2>1 DEF LedgerInv, CourseInv, AboutTo, IInv, OnceInv
  <2>3. VerdictInv'
    BY <1>1, <1>3, <1>7, <2>1, VerdictKept DEF LedgerInv
  <2>4. CourseInv'
    BY <2>1 DEF CourseInv, AboutTo
  <2>5. [Ledger!Next]_(Ledger!ledger)
    BY <1>1, <1>2, <2>1, <2>2, Happens DEF LogFirst, Restarts
  <2> QED BY <1>4, <1>6, <2>3, <2>4, <2>5 DEF LedgerInv
<1> QED BY <1>1, <1>10, <1>11, <1>12, <1>13 DEF Continue

(* Sending, receiving and crashing: an answer that leaves is the one that  *)
(* was recorded, and the rest forgets.                                     *)
LEMMA ExchangeLedger ==
  ASSUME IInv, LedgerInv,
         \/ \E r \in Req : SendPoll(r) \/ ReceiveReply(r) \/ DiscardReply(r)
         \/ PollTimesOut \/ AgentCrash \/ SendAck \/ SendBeat
  PROVE  LedgerInv' /\ [Ledger!Next]_(Ledger!ledger)
<1>1. /\ cur \in [cmd : Cmd, ack : {"result", "error"}, then : {"batch", "exit", "exec", "reboot"}]
      /\ get \in [Req -> [at : {"idle", "sent", "reap", "select", "stamp", "reply"},
                         rows : SUBSET Cmd, todo : SUBSET Cmd]]
  BY DEF IInv, TypeOK, AgentTypeOK, ServerTypeOK
<1>2. UNCHANGED <<kind, outcome, admin, keyOk, enrolled, executed, runs>>
  BY DEF SendPoll, ReceiveReply, DiscardReply, PollTimesOut, AgentCrash, SendAck, SendBeat,
     Poll, Receive, PollFails, Crash, Acked, serverVars, rowVars, agentVars
<1>3. RequestInv' /\ [Ledger!Next]_(Ledger!ledger)
  BY <1>2, Stutters DEF LedgerInv, RequestInv, LedgerStutter
<1>4. CASE SendAck
  <2> DEFINE sent == [cmd |-> cur.cmd, outcome |-> cur.ack, at |-> "sent"]
  <2>1. /\ acks' = acks \cup {sent} /\ pc = "ack" /\ UNCHANGED get /\ batch' \subseteq batch
        /\ \/ pc' = "sleep"
           \/ pc' = cur.then /\ cur.then \in {"batch", "exec", "reboot"} /\ cur' = cur
    BY <1>1, <1>4 DEF SendAck, Acked, At
  <2>2. sent.cmd = cur.cmd /\ sent.outcome = cur.ack
    OBVIOUS
  <2> HIDE DEF sent
  <2>3. KnownInv'
    BY <1>2, <2>1, <2>2 DEF LedgerInv, KnownInv, Issued
  <2>4. CourseInv'
    BY <1>2, <2>1 DEF LedgerInv, CourseInv, AboutTo
  <2>5. \A c \in Cmd : \A a \in {"result", "error"} : Verdict(c, a)' => Verdict(c, a)
    BY <1>2, <2>1, <2>2 DEF Verdict
  <2>6. VerdictInv'
    BY <1>2, <2>5, VerdictKept DEF LedgerInv
  <2> QED BY <1>3, <2>3, <2>4, <2>6 DEF LedgerInv
<1>5. CASE ~SendAck
  <2>1. /\ UNCHANGED acks
        /\ pc' \in {"sleep", "await", "batch"} \/ UNCHANGED <<pc, cur>>
    BY <1>5 DEF SendPoll, ReceiveReply, DiscardReply, PollTimesOut, AgentCrash, SendBeat,
       Poll, Receive, PollFails, Crash, At, serverVars, rowVars, agentVars
  <2>2. \A r \in Req : get'[r].rows \in {{}, get[r].rows}
    BY <1>1, <1>5 DEF SendPoll, ReceiveReply, DiscardReply, PollTimesOut, AgentCrash, SendBeat,
       NoGet, serverVars, rowVars, agentVars
  <2>3. batch' \subseteq batch \/ \E r \in Req : batch' = get[r].rows
    BY <1>5 DEF SendPoll, ReceiveReply, DiscardReply, PollTimesOut, AgentCrash, SendBeat,
       Poll, Receive, PollFails, Crash, serverVars, rowVars, agentVars
  <2>4. KnownInv'
    BY <1>2, <2>1, <2>2, <2>3 DEF LedgerInv, KnownInv, Issued
  <2>5. CourseInv'
    BY <1>2, <2>1 DEF LedgerInv, CourseInv, AboutTo
  <2>6. \A c \in Cmd : \A a \in {"result", "error"} : Verdict(c, a)' => Verdict(c, a)
    BY <1>2, <2>1 DEF Verdict
  <2>7. VerdictInv'
    BY <1>2, <2>6, VerdictKept DEF LedgerInv
  <2> QED BY <1>3, <2>4, <2>5, <2>7 DEF LedgerInv
<1> QED BY <1>4, <1>5

LEMMA NextLedger ==
  ASSUME IInv, LedgerInv, [Next]_vars
  PROVE  LedgerInv' /\ [Ledger!Next]_(Ledger!ledger)
<1>1. CASE UNCHANGED vars
  <2>1. LedgerInv'
    BY <1>1 DEF LedgerInv, KnownInv, RequestInv, CourseInv, VerdictInv, Verdict, AboutTo, Issued, vars
  <2> QED BY <1>1, <2>1, Stutters DEF vars, LedgerStutter
<1>2. CASE Next
  BY <1>2, ServerLedger, ExecuteLedger, ContinueLedger, ExchangeLedger DEF Next, AgentStep
<1> QED BY <1>1, <1>2

(* End to end, no loss, reordering, redelivery, crash or failed write lets *)
(* anything happen that was not issued, happen again when it ends or wipes *)
(* the agent, be announced as a success before it is certain, or be        *)
(* answered both ways; and what the dashboard closes by itself was open.   *)
(* RemoteCommands implements CommandLedger.                                *)
THEOREM ImplementsLedger == Spec => KeepsLedger
<1>1. Init => Ledger!Init
  BY DEF Init, ServerInit, AgentInit, Ledger!Init, Ledger!Cmd, Cmd
<1>2. IInv /\ LedgerInv /\ [Next]_vars => LedgerInv' /\ [Ledger!Next]_(Ledger!ledger)
  BY NextLedger
<1> QED BY InitLedger, Invariance, <1>1, <1>2, PTL DEF Spec, KeepsLedger, Ledger!Spec

=============================================================================
