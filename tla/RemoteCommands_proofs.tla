------------------------- MODULE RemoteCommands_proofs -------------------------
(***************************************************************************)
(* Theorems about RemoteCommands, for any number of commands, polls,       *)
(* supervisors, losses and faults.                                         *)
(***************************************************************************)
EXTENDS RemoteCommands, FiniteSetTheorems, TLAPS

(* What has been announced in the log and is about to happen.              *)
AboutTo == pc \in {"wipe", "exec", "reboot"} \/ (pc = "ack" /\ cur.then \in {"exec", "reboot"})

(* The row is a command the agent can rightly call a success.              *)
Done(c) == kind[c] \in LogFirst \/ (kind[c] \in EffectFirst /\ runs[c] > 0)

(* A process that is not running holds nothing; once the state directory   *)
(* is gone, only the ack of revoke is left to do.                          *)
ProcessInv ==
  /\ pc # "sleep" => up
  /\ ~enrolled => ~up \/ (pc = "ack" /\ cur.then = "exit")
  /\ pc = "wipe" => cur.then = "exit"
  /\ pc = "record" => cur.then = "batch"

(* The effect of a log-first command is in the log before it happens, and  *)
(* leaves no second chance.                                                *)
OnceInv ==
  /\ AboutTo => kind[cur.cmd] \in LogFirst /\ executed[cur.cmd] = "result" /\ runs[cur.cmd] = 0
  /\ \A c \in Cmd : kind[c] = "none" => runs[c] = 0
  /\ \A c \in Cmd : kind[c] \in LogFirst /\ runs[c] > 0 => executed[c] # "no" \/ ~enrolled

(* What the agent is about to record or to ack as a success.               *)
AnswerInv ==
  /\ pc = "record" /\ cur.ack = "result" => executed[cur.cmd] = "no"
  /\ pc = "ack" /\ cur.ack = "result" => LoggedSuccess(cur.cmd)
  /\ pc \in {"record", "ack"} /\ cur.ack = "result" => Done(cur.cmd)
  /\ \A c \in Cmd : executed[c] = "result" => Done(c)

(* What the dashboard was told or will be told.                            *)
ToldInv ==
  /\ \A m \in acks : m.outcome = "result" => Done(m.cmd)
  /\ \A c \in Cmd : outcome[c] = "result" => Done(c)

(* A repetition has been paid for by a fault, but for the effect whose log *)
(* line is about to be written.                                            *)
FaultInv ==
  \A c \in Cmd :
    executed[c] = "no" /\ enrolled
      => runs[c] <= agentFaults \/ (pc = "record" /\ cur.cmd = c /\ runs[c] <= 1 + agentFaults)

IInv ==
  /\ TypeOK
  /\ ProcessInv
  /\ OnceInv
  /\ AnswerInv
  /\ ToldInv
  /\ FaultInv
  /\ RestartsAtMostOnce
  /\ RepeatsNeedAFault
  /\ SuccessIsLogged

USE CommandsAssumption, ServerAssumption, AgentAssumption, ChannelAssumption
    DEF CommandsAssumption, ServerAssumption, AgentAssumption, ChannelAssumption

LEMMA FirstRow == 1 \in Cmd
BY DEF Cmd

LEMMA NoCurType == NoCur \in [cmd : Cmd, ack : {"result", "error"}, then : {"batch", "exit", "exec", "reboot"}]
BY FirstRow DEF NoCur

-----------------------------------------------------------------------------
(* Type correctness.                                                       *)

LEMMA InitType == Init => TypeOK
<1>1. ASSUME ServerInit PROVE ServerTypeOK
  <2>1. /\ kind \in [Cmd -> Kinds \cup {"none"}] /\ outcome \in [Cmd -> Outcomes]
        /\ offered \in [Cmd -> {"never", "recent", "stale"}]
    BY <1>1 DEF ServerInit, Outcomes
  <2>2. get \in [Req -> [at : {"idle", "sent", "reap", "select", "stamp", "reply"},
                         rows : SUBSET Cmd, todo : SUBSET Cmd]]
    BY <1>1 DEF ServerInit, NoGet
  <2>3. admin \in [Admin -> [at : {"idle", "check", "insert", "audit", "cancel"},
                             kind : Kinds \cup {"none"}, cmd : Cmd]]
    BY <1>1, FirstRow DEF ServerInit, NoAdmin
  <2>4. serverFaults \in 0..MaxServerFaults /\ losses \in 0..MaxLosses
    BY <1>1 DEF ServerInit
  <2> QED BY <1>1, <2>1, <2>2, <2>3, <2>4 DEF ServerInit, ServerTypeOK
<1> HIDE DEF NoCur
<1>2. ASSUME AgentInit PROVE AgentTypeOK
  <2>1. /\ executed \in [Cmd -> {"no", "result", "error"}] /\ runs \in [Cmd -> Nat]
        /\ agentFaults \in 0..MaxAgentFaults
    BY <1>2 DEF AgentInit
  <2> QED BY <1>2, <2>1, NoCurType DEF AgentInit, AgentTypeOK
<1> QED BY <1>1, <1>2 DEF Init, TypeOK

(* The handlers of GET.                                                    *)
LEMMA GetType ==
  ASSUME ServerTypeOK, NEW r \in Req, GetStep(r) \/ GetLost(r)
  PROVE  ServerTypeOK'
<1>1. CASE GetAuth(r)
  BY <1>1 DEF GetAuth, ServerTypeOK, rowVars, deviceVars
<1>2. CASE GetReap(r)
  BY <1>2 DEF GetReap, ServerTypeOK, deviceVars, Outcomes
<1>3. CASE GetSelect(r)
  <2>1. Selected \subseteq Cmd
    BY DEF Selected
  <2> HIDE DEF Selected
  <2> QED BY <1>3, <2>1 DEF GetSelect, ServerTypeOK, rowVars, deviceVars
<1>4. ASSUME NEW c \in Cmd, GetStamp(r, c) \/ GetStampFails(r, c) PROVE ServerTypeOK'
  <2>1. get' \in [Req -> [at : {"idle", "sent", "reap", "select", "stamp", "reply"},
                          rows : SUBSET Cmd, todo : SUBSET Cmd]]
    BY <1>4 DEF GetStamp, GetStampFails, StampDone, ServerTypeOK
  <2> QED BY <1>4, <2>1 DEF GetStamp, GetStampFails, ServerTypeOK, rowVars, deviceVars
<1>5. CASE GetLost(r)
  BY <1>5 DEF GetLost, Lose, NoGet, ServerTypeOK, rowVars, deviceVars
<1> QED BY <1>1, <1>2, <1>3, <1>4, <1>5 DEF GetStep

(* The handlers of acks and heartbeats.                                    *)
LEMMA AckType ==
  ASSUME ServerTypeOK, NEW m \in acks,
         AckAuth(m) \/ AckRow(m) \/ AckDevice(m) \/ AckDeviceFails(m) \/ AckLost(m)
  PROVE  ServerTypeOK'
<1>1. m \in Ack /\ m.cmd \in Cmd /\ m.outcome \in Outcomes
  BY DEF ServerTypeOK, Ack, Outcomes
<1>2. \A p \in {"row", "device"} : [m EXCEPT !.at = p] \in Ack
  BY <1>1 DEF Ack
<1>3. acks' \subseteq Ack
  BY <1>1, <1>2 DEF AckAuth, AckRow, AckDevice, AckDeviceFails, AckLost, ServerTypeOK
<1>4. outcome' \in [Cmd -> Outcomes]
  BY <1>1 DEF AckAuth, AckRow, AckDevice, AckDeviceFails, AckLost, ServerTypeOK, rowVars
<1>5. paused' \in BOOLEAN /\ revoked' \in BOOLEAN
  BY DEF AckAuth, AckRow, AckDevice, AckDeviceFails, AckLost, ServerTypeOK, deviceVars
<1>6. serverFaults' \in 0..MaxServerFaults /\ losses' \in 0..MaxLosses
  BY DEF AckAuth, AckRow, AckDevice, AckDeviceFails, AckLost, Lose, ServerTypeOK
<1>7. UNCHANGED <<kind, offered, lapsed, audit, get, beats, admin>>
  BY DEF AckAuth, AckRow, AckDevice, AckDeviceFails, AckLost, rowVars
<1> QED BY <1>3, <1>4, <1>5, <1>6, <1>7 DEF ServerTypeOK

LEMMA BeatType ==
  ASSUME ServerTypeOK, NEW b \in beats, BeatAuth(b) \/ BeatRow(b) \/ BeatLost(b)
  PROVE  ServerTypeOK'
<1>1. b \in Beat /\ b.paused \in BOOLEAN /\ [b EXCEPT !.at = "row"] \in Beat
  BY DEF ServerTypeOK, Beat
<1>2. beats' \subseteq Beat /\ paused' \in BOOLEAN
  BY <1>1 DEF BeatAuth, BeatRow, BeatLost, ServerTypeOK, deviceVars
<1>3. losses' \in 0..MaxLosses
  BY DEF BeatAuth, BeatRow, BeatLost, Lose, ServerTypeOK
<1>4. UNCHANGED <<rowVars, revoked, audit, get, acks, admin, serverFaults>>
  BY DEF BeatAuth, BeatRow, BeatLost, deviceVars
<1> QED BY <1>2, <1>3, <1>4 DEF ServerTypeOK, rowVars

(* The supervisors' requests.                                              *)
LEMMA AdminType ==
  ASSUME ServerTypeOK, NEW a \in Admin, AdminBegin(a) \/ AdminFinish(a)
  PROVE  ServerTypeOK'
<1> DEFINE adminType == [at : {"idle", "check", "insert", "audit", "cancel"},
                         kind : Kinds \cup {"none"}, cmd : Cmd]
<1> USE DEF ServerTypeOK
<1>1. /\ admin[a] \in adminType /\ admin[a].kind \in Kinds \cup {"none"} /\ admin[a].cmd \in Cmd
      /\ NoAdmin \in adminType
  BY FirstRow DEF NoAdmin
<1>2. ASSUME NEW k \in Kinds, IssueLookup(a, k) PROVE ServerTypeOK'
  BY <1>2, FirstRow DEF IssueLookup, AdminStep, rowVars, deviceVars
<1>3. ASSUME NEW c \in Cmd, CancelLookup(a, c) PROVE ServerTypeOK'
  <2>1. kind[c] \in Kinds \cup {"none"}
    OBVIOUS
  <2> QED BY <1>3, <2>1 DEF CancelLookup, AdminStep, rowVars, deviceVars
<1>4. CASE IssueCheck(a)
  BY <1>1, <1>4, FirstRow DEF IssueCheck, AdminStep, rowVars, deviceVars
<1>5. CASE IssueInsert(a)
  <2>1. PICK c \in NextRow :
          kind' = [kind EXCEPT ![c] = admin[a].kind] /\ AdminStep(a, "audit", admin[a].kind, c)
    BY <1>5 DEF IssueInsert
  <2>2. c \in Cmd
    BY DEF NextRow
  <2>3. admin' \in [Admin -> adminType] /\ kind' \in [Cmd -> Kinds \cup {"none"}]
    BY <1>1, <2>1, <2>2 DEF AdminStep
  <2> QED BY <1>5, <2>3 DEF IssueInsert, deviceVars
<1>6. CASE IssueAudit(a) \/ IssueAuditFails(a)
  <2>1. admin' \in [Admin -> adminType]
    BY <1>1, <1>6 DEF IssueAudit, IssueAuditFails
  <2>2. audit' \subseteq {"command_issued", "command_canceled"} \X Cmd
    BY <1>1, <1>6 DEF IssueAudit, IssueAuditFails
  <2>3. serverFaults' \in 0..MaxServerFaults
    BY <1>6 DEF IssueAudit, IssueAuditFails
  <2> QED BY <1>6, <2>1, <2>2, <2>3 DEF IssueAudit, IssueAuditFails, rowVars, deviceVars
<1>7. CASE CancelUpdate(a)
  <2>1. admin' \in [Admin -> adminType]
    BY <1>1, <1>7 DEF CancelUpdate
  <2>2. audit' \subseteq {"command_issued", "command_canceled"} \X Cmd
    BY <1>1, <1>7 DEF CancelUpdate
  <2>3. outcome' \in [Cmd -> Outcomes]
    BY <1>1, <1>7 DEF CancelUpdate, Outcomes
  <2> QED BY <1>7, <2>1, <2>2, <2>3 DEF CancelUpdate, deviceVars
<1> QED BY <1>2, <1>3, <1>4, <1>5, <1>6, <1>7 DEF AdminBegin, AdminFinish

LEMMA ServerType ==
  ASSUME ServerTypeOK, ServerNext
  PROVE  ServerTypeOK'
<1>1. ASSUME NEW r \in Req, GetStep(r) \/ GetLost(r) PROVE ServerTypeOK'
  BY <1>1, GetType
<1>2. ASSUME NEW m \in acks, AckAuth(m) \/ AckRow(m) \/ AckDevice(m) \/ AckDeviceFails(m) \/ AckLost(m)
      PROVE  ServerTypeOK'
  BY <1>2, AckType
<1>3. ASSUME NEW b \in beats, BeatAuth(b) \/ BeatRow(b) \/ BeatLost(b) PROVE ServerTypeOK'
  BY <1>3, BeatType
<1>4. ASSUME NEW a \in Admin, AdminBegin(a) \/ AdminFinish(a) PROVE ServerTypeOK'
  BY <1>4, AdminType
<1>5. ASSUME NEW c \in Cmd, Lapse(c) \/ WindowPasses(c) PROVE ServerTypeOK'
  BY <1>5 DEF Lapse, WindowPasses, ServerTypeOK
<1> QED BY <1>1, <1>2, <1>3, <1>4, <1>5 DEF ServerNext, AckStep, BeatStep, Loss, Clock

(* CommandExecutor.                                                        *)
LEMMA ExecuteType ==
  ASSUME AgentTypeOK, NEW c \in Cmd, NEW k, Execute(c, k)
  PROVE  AgentTypeOK'
<1> USE DEF AgentTypeOK
<1>1. ASSUME NEW p \in {"record", "wipe", "ack"}, NEW a \in {"result", "error"},
             NEW t \in {"batch", "exit", "exec", "reboot"}, Take(c, p, a, t)
      PROVE  /\ pc' \in {"sleep", "await", "batch", "record", "wipe", "ack", "exec", "reboot"}
             /\ batch' \subseteq Cmd
             /\ cur' \in [cmd : Cmd, ack : {"result", "error"}, then : {"batch", "exit", "exec", "reboot"}]
  BY <1>1 DEF Take
<1>2. CASE Reject(c)
  BY <1>1, <1>2 DEF Reject
<1>3. CASE Replay(c)
  BY <1>1, <1>3 DEF Replay
<1>4. CASE Effect(c, k)
  <2>1. marker' \in BOOLEAN
    BY <1>4 DEF Effect
  <2>2. runs' \in [Cmd -> Nat]
    BY <1>4 DEF Effect
  <2> QED BY <1>1, <1>4, <2>1, <2>2 DEF Effect
<1>5. CASE EffectFails(c, k)
  BY <1>1, <1>5 DEF EffectFails
<1>6. CASE Refuse(c, k)
  BY <1>1, <1>6 DEF Refuse
<1>7. CASE LogBeforeEffect(c, k)
  BY <1>1, <1>7 DEF LogBeforeEffect
<1>8. CASE LogFails(c, k)
  BY <1>1, <1>8 DEF LogFails
<1> QED BY <1>2, <1>3, <1>4, <1>5, <1>6, <1>7, <1>8 DEF Execute

LEMMA ContinueType ==
  ASSUME AgentTypeOK, Continue
  PROVE  AgentTypeOK'
<1> USE NoCurType DEF AgentTypeOK
<1> HIDE DEF NoCur
<1>1. CASE BatchDone \/ Start
  BY <1>1 DEF BatchDone, Start, At
<1>2. CASE Record
  BY <1>2 DEF Record, At
<1>3. CASE RecordFails
  BY <1>3 DEF RecordFails, At
<1>4. CASE Wipe
  <2>1. runs' \in [Cmd -> Nat] /\ executed' \in [Cmd -> {"no", "result", "error"}]
    BY <1>4 DEF Wipe
  <2> QED BY <1>4, <2>1 DEF Wipe, At
<1>5. CASE Exec \/ Reboot
  <2>1. runs' \in [Cmd -> Nat]
    BY <1>5 DEF Exec, Reboot
  <2> QED BY <1>5, <2>1 DEF Exec, Reboot, At
<1>6. CASE RestartFails
  BY <1>6 DEF RestartFails, At
<1> QED BY <1>1, <1>2, <1>3, <1>4, <1>5, <1>6 DEF Continue

LEMMA CrashType ==
  ASSUME AgentTypeOK, Crash
  PROVE  AgentTypeOK'
<1> USE DEF AgentTypeOK
<1> HIDE DEF NoCur
<1>1. agentFaults' \in 0..MaxAgentFaults
  BY DEF Crash
<1>2. /\ up' = FALSE /\ pc' = "sleep" /\ batch' = {} /\ cur' = NoCur
      /\ UNCHANGED <<keyOk, enrolled, executed, marker, runs>>
  BY Zenon DEF Crash
<1> QED BY <1>1, <1>2, NoCurType

(* The steps that move a request: the dashboard sees a new one, or the     *)
(* agent an answer.                                                        *)
LEMMA ExchangeType ==
  ASSUME TypeOK,
         \/ \E r \in Req : SendPoll(r) \/ ReceiveReply(r) \/ DiscardReply(r)
         \/ PollTimesOut \/ AgentCrash \/ SendAck \/ SendBeat
  PROVE  TypeOK'
<1> USE DEF TypeOK
<1>1. ASSUME NEW r \in Req, SendPoll(r) PROVE TypeOK'
  BY <1>1 DEF SendPoll, Poll, At, ServerTypeOK, AgentTypeOK, rowVars, deviceVars
<1>2. ASSUME NEW r \in Req, ReceiveReply(r) PROVE TypeOK'
  <2>1. get[r].rows \subseteq Cmd
    BY DEF ServerTypeOK
  <2>2. NoGet \in [at : {"idle", "sent", "reap", "select", "stamp", "reply"}, rows : SUBSET Cmd, todo : SUBSET Cmd]
    BY DEF NoGet
  <2> QED BY <1>2, <2>1, <2>2 DEF ReceiveReply, Receive, At, ServerTypeOK, AgentTypeOK, rowVars, deviceVars
<1>3. ASSUME NEW r \in Req, DiscardReply(r) PROVE TypeOK'
  <2>1. NoGet \in [at : {"idle", "sent", "reap", "select", "stamp", "reply"}, rows : SUBSET Cmd, todo : SUBSET Cmd]
    BY DEF NoGet
  <2> QED BY <1>3, <2>1 DEF DiscardReply, ServerTypeOK, AgentTypeOK, rowVars, deviceVars, agentVars
<1>4. CASE PollTimesOut
  BY <1>4 DEF PollTimesOut, PollFails, At, ServerTypeOK, AgentTypeOK, serverVars
<1>5. CASE AgentCrash
  <2>1. AgentTypeOK'
    BY <1>5, CrashType DEF AgentCrash
  <2>2. ServerTypeOK' /\ waiting' = {}
    BY <1>5 DEF AgentCrash, ServerTypeOK, serverVars
  <2> QED BY <2>1, <2>2
<1>6. CASE SendAck
  <2>1. [cmd |-> cur.cmd, outcome |-> cur.ack, at |-> "sent"] \in Ack
    BY DEF Ack, AgentTypeOK
  <2>2. acks' \subseteq Ack /\ UNCHANGED <<rowVars, deviceVars, audit, get, beats, admin, serverFaults, losses, waiting>>
    BY <1>6, <2>1 DEF SendAck, ServerTypeOK
  <2>3. ServerTypeOK'
    BY <2>2 DEF ServerTypeOK, rowVars, deviceVars
  <2>4. AgentTypeOK'
    BY <1>6, NoCurType DEF SendAck, Acked, At, AgentTypeOK
  <2> QED BY <2>2, <2>3, <2>4
<1>7. CASE SendBeat
  <2>1. [paused |-> marker, at |-> "sent"] \in Beat
    BY DEF Beat, AgentTypeOK
  <2> QED BY <1>7, <2>1 DEF SendBeat, ServerTypeOK, AgentTypeOK, rowVars, deviceVars, agentVars
<1> QED BY <1>1, <1>2, <1>3, <1>4, <1>5, <1>6, <1>7

LEMMA NextType ==
  ASSUME TypeOK, Next
  PROVE  TypeOK'
<1> USE DEF TypeOK
<1>1. CASE Server(ServerNext)
  <2>1. ServerTypeOK' /\ UNCHANGED <<agentVars, waiting>>
    BY <1>1, ServerType DEF Server
  <2>2. AgentTypeOK'
    BY <2>1 DEF AgentTypeOK, agentVars
  <2> QED BY <2>1, <2>2
<1>2. ASSUME NEW c \in Cmd, ExecuteNext(c) PROVE TypeOK'
  <2>1. AgentTypeOK' /\ UNCHANGED <<serverVars, waiting>>
    BY <1>2, ExecuteType DEF ExecuteNext
  <2>2. ServerTypeOK'
    BY <2>1 DEF ServerTypeOK, serverVars
  <2> QED BY <2>1, <2>2
<1>3. CASE ContinueCommand
  <2>1. AgentTypeOK' /\ UNCHANGED <<serverVars, waiting>>
    BY <1>3, ContinueType DEF ContinueCommand
  <2>2. ServerTypeOK'
    BY <2>1 DEF ServerTypeOK, serverVars
  <2> QED BY <2>1, <2>2
<1> QED BY <1>1, <1>2, <1>3, ExchangeType DEF Next, AgentStep

(* Every variable keeps its type, however many commands, polls, acks and   *)
(* heartbeats are under way.                                               *)
THEOREM TypesHold == Spec => []TypeOK
<1>1. ASSUME TypeOK, UNCHANGED vars PROVE TypeOK'
  BY <1>1 DEF TypeOK, ServerTypeOK, AgentTypeOK, vars
<1>2. TypeOK /\ [Next]_vars => TypeOK'
  BY <1>1, NextType
<1> QED BY InitType, <1>2, PTL DEF Spec

-----------------------------------------------------------------------------
(* The inductive invariant.                                                *)

LEMMA InitIInv == Init => IInv
<1> SUFFICES ASSUME Init PROVE IInv
  OBVIOUS
<1>1. TypeOK
  BY InitType
<1>2. /\ pc = "sleep" /\ up = TRUE /\ enrolled = TRUE /\ cur = NoCur /\ acks = {}
      /\ executed = [c \in Cmd |-> "no"] /\ runs = [c \in Cmd |-> 0] /\ agentFaults = 0
      /\ outcome = [c \in Cmd |-> "open"]
  BY DEF Init, ServerInit, AgentInit
<1>3. ProcessInv /\ OnceInv /\ AnswerInv
  BY <1>2 DEF ProcessInv, OnceInv, AnswerInv, AboutTo
<1>4. ToldInv /\ FaultInv /\ RestartsAtMostOnce /\ RepeatsNeedAFault /\ SuccessIsLogged
  BY <1>2 DEF ToldInv, FaultInv, RestartsAtMostOnce, RepeatsNeedAFault, SuccessIsLogged
<1> QED BY <1>1, <1>3, <1>4 DEF IInv

(* What a handler can change that the agent's bookkeeping rests on: a row  *)
(* gets its action once, and answers come from acks.                       *)
LEMMA ServerKeeps ==
  ASSUME TypeOK, ServerNext
  PROVE  /\ \A c \in Cmd : kind[c] # "none" => kind'[c] = kind[c]
         /\ \A m \in acks' : \E n \in acks : m.cmd = n.cmd /\ m.outcome = n.outcome
         /\ \A c \in Cmd : outcome'[c] = "result"
              => outcome[c] = "result" \/ \E m \in acks : m.cmd = c /\ m.outcome = "result"
<1> USE DEF TypeOK, ServerTypeOK
<1> DEFINE Kept == UNCHANGED <<kind, acks, outcome>>
<1>1. ASSUME NEW r \in Req, GetStep(r) \/ GetLost(r)
      PROVE  /\ UNCHANGED <<kind, acks>>
             /\ \A c \in Cmd : outcome'[c] = "result" => outcome[c] = "result"
  BY <1>1 DEF GetStep, GetAuth, GetReap, GetSelect, GetStamp, GetStampFails, GetLost, rowVars
<1>2. ASSUME NEW m \in acks, AckAuth(m) \/ AckRow(m) \/ AckDevice(m) \/ AckDeviceFails(m) \/ AckLost(m)
      PROVE  /\ UNCHANGED kind
             /\ \A n \in acks' : \E o \in acks : n.cmd = o.cmd /\ n.outcome = o.outcome
             /\ \A c \in Cmd : outcome'[c] = "result"
                  => outcome[c] = "result" \/ (m.cmd = c /\ m.outcome = "result")
  <2>1. m \in Ack
    OBVIOUS
  <2>2. \A p \in {"row", "device"} : [m EXCEPT !.at = p].cmd = m.cmd /\ [m EXCEPT !.at = p].outcome = m.outcome
    BY <2>1 DEF Ack
  <2>3. \A n \in acks' : n \in acks \/ (n.cmd = m.cmd /\ n.outcome = m.outcome)
    <3>1. acks' \subseteq acks \cup {[m EXCEPT !.at = "row"], [m EXCEPT !.at = "device"]}
      <4> HIDE DEF TypeOK, ServerTypeOK
      <4>1. CASE AckAuth(m)
        BY <4>1, Zenon DEF AckAuth
      <4>2. CASE AckRow(m)
        BY <4>2, Zenon DEF AckRow
      <4>3. CASE AckDevice(m) \/ AckDeviceFails(m) \/ AckLost(m)
        BY <4>3, Zenon DEF AckDevice, AckDeviceFails, AckLost
      <4> QED BY <1>2, <4>1, <4>2, <4>3, Zenon
    <3>2. \A q : q = [m EXCEPT !.at = "row"] \/ q = [m EXCEPT !.at = "device"]
            => q.cmd = m.cmd /\ q.outcome = m.outcome
      BY <2>2, Zenon
    <3>3. ASSUME NEW n \in acks' PROVE n \in acks \/ (n.cmd = m.cmd /\ n.outcome = m.outcome)
      <4> HIDE DEF TypeOK, ServerTypeOK
      <4>1. n \in acks \/ n = [m EXCEPT !.at = "row"] \/ n = [m EXCEPT !.at = "device"]
        BY <3>1, Zenon
      <4> QED BY <3>2, <4>1, Zenon
    <3> QED BY <3>3
  <2>4. UNCHANGED kind
    BY <1>2 DEF AckAuth, AckRow, AckDevice, AckDeviceFails, AckLost, rowVars
  <2>5. outcome' = outcome \/ outcome' = [outcome EXCEPT ![m.cmd] = m.outcome]
    BY <1>2 DEF AckAuth, AckRow, AckDevice, AckDeviceFails, AckLost, rowVars
  <2> QED BY <2>3, <2>4, <2>5
<1>3. ASSUME NEW b \in beats, BeatAuth(b) \/ BeatRow(b) \/ BeatLost(b) PROVE Kept
  BY <1>3 DEF BeatAuth, BeatRow, BeatLost, rowVars
<1>4. ASSUME NEW a \in Admin, AdminBegin(a) \/ AdminFinish(a)
      PROVE  /\ UNCHANGED acks
             /\ \A c \in Cmd : kind[c] # "none" => kind'[c] = kind[c]
             /\ \A c \in Cmd : outcome'[c] = "result" => outcome[c] = "result"
  <2>1. CASE IssueInsert(a)
    <3>1. PICK c \in NextRow : kind' = [kind EXCEPT ![c] = admin[a].kind]
      BY <2>1 DEF IssueInsert
    <3>2. c \in Cmd /\ kind[c] = "none"
      BY DEF NextRow, Issued
    <3> QED BY <2>1, <3>1, <3>2 DEF IssueInsert
  <2>2. CASE CancelUpdate(a)
    BY <2>2 DEF CancelUpdate
  <2>3. CASE ~IssueInsert(a) /\ ~CancelUpdate(a)
    BY <1>4, <2>3 DEF AdminBegin, AdminFinish, IssueLookup, IssueCheck, IssueAudit, IssueAuditFails,
       CancelLookup, rowVars
  <2> QED BY <2>1, <2>2, <2>3
<1>5. ASSUME NEW c \in Cmd, Lapse(c) \/ WindowPasses(c) PROVE Kept
  BY <1>5 DEF Lapse, WindowPasses
<1> QED BY <1>1, <1>2, <1>3, <1>4, <1>5 DEF ServerNext, AckStep, BeatStep, Loss, Clock

(* No handler breaks what the agent guarantees.                            *)
LEMMA ServerStep ==
  ASSUME IInv, Server(ServerNext)
  PROVE  IInv'
<1> USE DEF IInv
<1>1. /\ \A c \in Cmd : kind[c] # "none" => kind'[c] = kind[c]
      /\ \A m \in acks' : \E n \in acks : m.cmd = n.cmd /\ m.outcome = n.outcome
      /\ \A c \in Cmd : outcome'[c] = "result"
           => outcome[c] = "result" \/ \E m \in acks : m.cmd = c /\ m.outcome = "result"
  BY ServerKeeps DEF Server
<1>2. UNCHANGED <<up, pc, cur, enrolled, executed, runs, agentFaults>>
  BY DEF Server, agentVars
<1>3. TypeOK'
  BY NextType DEF Next
<1>4. cur.cmd \in Cmd /\ \A m \in acks : m.cmd \in Cmd
  BY DEF TypeOK, AgentTypeOK, ServerTypeOK, Ack
<1>5. \A c \in Cmd : Done(c) => Done(c)'
  BY <1>1, <1>2 DEF Done, LogFirst, EffectFirst
<1>6. ProcessInv'
  BY <1>2 DEF ProcessInv
<1>7. OnceInv' /\ RestartsAtMostOnce'
  <2>1. \A c \in Cmd : kind[c] \in LogFirst => kind'[c] = kind[c]
    BY <1>1 DEF LogFirst
  <2>2. \A c \in Cmd : kind'[c] \in LogFirst => kind[c] \in LogFirst \/ runs[c] = 0
    BY <1>1 DEF LogFirst, OnceInv
  <2> QED BY <1>1, <1>2, <1>4, <2>1, <2>2 DEF OnceInv, RestartsAtMostOnce, AboutTo
<1>8. AnswerInv' /\ FaultInv' /\ RepeatsNeedAFault'
  BY <1>2, <1>4, <1>5 DEF AnswerInv, FaultInv, RepeatsNeedAFault, LoggedSuccess
<1>9. ToldInv' /\ SuccessIsLogged'
  BY <1>1, <1>2, <1>4, <1>5 DEF ToldInv, SuccessIsLogged, LoggedSuccess
<1> QED BY <1>3, <1>6, <1>7, <1>8, <1>9

(* Steps of the agent that have no command in hand afterwards.             *)
LEMMA IdleStep ==
  ASSUME IInv, TypeOK', UNCHANGED <<kind, outcome, acks, enrolled, executed, runs>>,
         \/ pc # "record" /\ agentFaults' = agentFaults
         \/ agentFaults' = agentFaults + 1,
         pc' \in {"sleep", "await", "batch"},
         pc' # "sleep" => up', ~enrolled => ~up'
  PROVE  IInv'
<1> USE DEF IInv
<1>1. agentFaults \in Nat /\ \A c \in Cmd : runs[c] \in Nat
  BY DEF TypeOK, AgentTypeOK
<1>2. ProcessInv'
  BY DEF ProcessInv
<1>3. OnceInv' /\ RestartsAtMostOnce'
  BY DEF OnceInv, RestartsAtMostOnce, AboutTo
<1>4. AnswerInv' /\ ToldInv' /\ SuccessIsLogged'
  BY DEF AnswerInv, ToldInv, SuccessIsLogged, LoggedSuccess, Done
<1>5. FaultInv' /\ RepeatsNeedAFault'
  BY <1>1 DEF FaultInv, RepeatsNeedAFault
<1> QED BY <1>2, <1>3, <1>4, <1>5

(* Steps that only move messages.                                          *)
LEMMA MessageStep ==
  ASSUME IInv, TypeOK', UNCHANGED <<kind, outcome, acks, agentVars>>
  PROVE  IInv'
<1> USE DEF IInv
<1>1. ProcessInv' /\ OnceInv' /\ AnswerInv' /\ ToldInv' /\ FaultInv'
  BY DEF ProcessInv, OnceInv, AnswerInv, ToldInv, FaultInv, AboutTo, Done, LoggedSuccess, agentVars
<1>2. RestartsAtMostOnce' /\ RepeatsNeedAFault' /\ SuccessIsLogged'
  BY DEF RestartsAtMostOnce, RepeatsNeedAFault, SuccessIsLogged, LoggedSuccess, agentVars
<1> QED BY <1>1, <1>2

(* The executor takes a command: what is true when it does.                *)
LEMMA Taken ==
  ASSUME IInv, NEW c \in Cmd, NEW p, NEW a, NEW t, Take(c, p, a, t)
  PROVE  /\ up /\ enrolled /\ pc = "batch" /\ pc' = p
         /\ cur'.cmd = c /\ cur'.ack = a /\ cur'.then = t
BY DEF Take, At, IInv, ProcessInv

(* execute(): nothing is done that the log does not know of, but for the   *)
(* effect whose line comes next.                                           *)
LEMMA ExecuteStep ==
  ASSUME IInv, NEW c \in Cmd, ExecuteNext(c)
  PROVE  IInv'
<1> USE DEF IInv
<1>1. TypeOK'
  BY NextType DEF Next, AgentStep
<1>2. Execute(c, kind[c]) /\ UNCHANGED <<kind, outcome, acks>>
  BY DEF ExecuteNext, serverVars
<1>3. /\ agentFaults \in Nat /\ \A d \in Cmd : runs[d] \in Nat
      /\ runs \in [Cmd -> Nat] /\ executed \in [Cmd -> {"no", "result", "error"}]
  BY DEF TypeOK, AgentTypeOK
<1>4. CASE Reject(c) \/ Replay(c)
  <2>1. /\ UNCHANGED <<up, enrolled, executed, runs, agentFaults>>
        /\ Take(c, "ack", "error", "batch") \/ Take(c, "ack", executed[c], "batch")
    BY <1>4 DEF Reject, Replay
  <2>2. /\ up /\ enrolled /\ pc = "batch" /\ pc' = "ack" /\ cur'.cmd = c /\ cur'.then = "batch"
        /\ cur'.ack = "error" \/ cur'.ack = executed[c]
    BY <2>1, Taken
  <2>3. ProcessInv' /\ OnceInv' /\ RestartsAtMostOnce'
    BY <1>2, <2>1, <2>2 DEF ProcessInv, OnceInv, RestartsAtMostOnce, AboutTo
  <2>4. AnswerInv' /\ ToldInv' /\ SuccessIsLogged'
    BY <1>2, <2>1, <2>2 DEF AnswerInv, ToldInv, SuccessIsLogged, LoggedSuccess, Done
  <2>5. FaultInv' /\ RepeatsNeedAFault'
    BY <1>2, <2>1, <2>2 DEF FaultInv, RepeatsNeedAFault
  <2> QED BY <1>1, <2>3, <2>4, <2>5
<1>5. CASE Effect(c, kind[c])
  <2>1. /\ UNCHANGED <<up, enrolled, executed, agentFaults>> /\ runs' = [runs EXCEPT ![c] = @ + 1]
        /\ executed[c] = "no" /\ kind[c] \in EffectFirst /\ Take(c, "record", "result", "batch")
    BY <1>5 DEF Effect, New
  <2>2. /\ up /\ enrolled /\ pc = "batch" /\ pc' = "record" /\ cur'.cmd = c /\ cur'.then = "batch"
        /\ cur'.ack = "result"
    BY <2>1, Taken
  <2>3. /\ runs'[c] = runs[c] + 1 /\ \A d \in Cmd \ {c} : runs'[d] = runs[d]
        /\ runs[c] <= agentFaults
    BY <1>3, <2>1, <2>2 DEF FaultInv
  <2>4. \A d \in Cmd : Done(d) => Done(d)'
    BY <1>2, <1>3, <2>3 DEF Done
  <2>5. Done(c)'
    BY <1>2, <1>3, <2>1, <2>3 DEF Done
  <2>6. ProcessInv' /\ OnceInv' /\ RestartsAtMostOnce'
    BY <1>2, <2>1, <2>2, <2>3 DEF ProcessInv, OnceInv, RestartsAtMostOnce, AboutTo, LogFirst, EffectFirst
  <2>7. AnswerInv'
    BY <1>2, <2>1, <2>2, <2>4, <2>5 DEF AnswerInv
  <2>8. \A m \in acks : m.cmd \in Cmd
    BY DEF TypeOK, ServerTypeOK, Ack
  <2>9. ToldInv' /\ SuccessIsLogged'
    BY <1>2, <2>1, <2>4, <2>8 DEF ToldInv, SuccessIsLogged, LoggedSuccess
  <2>10. FaultInv' /\ RepeatsNeedAFault'
    BY <1>2, <1>3, <2>1, <2>2, <2>3 DEF FaultInv, RepeatsNeedAFault
  <2> QED BY <1>1, <2>6, <2>7, <2>9, <2>10
<1>6. CASE EffectFails(c, kind[c]) \/ LogFails(c, kind[c])
  <2>1. /\ UNCHANGED <<up, enrolled, executed, runs>> /\ Take(c, "record", "error", "batch")
        /\ agentFaults' = agentFaults \/ agentFaults' = agentFaults + 1
    BY <1>6 DEF EffectFails, LogFails
  <2>2. /\ up /\ enrolled /\ pc = "batch" /\ pc' = "record" /\ cur'.cmd = c /\ cur'.then = "batch"
        /\ cur'.ack = "error"
    BY <2>1, Taken
  <2>3. ProcessInv' /\ OnceInv' /\ RestartsAtMostOnce'
    BY <1>2, <2>1, <2>2 DEF ProcessInv, OnceInv, RestartsAtMostOnce, AboutTo
  <2>4. AnswerInv' /\ ToldInv' /\ SuccessIsLogged'
    BY <1>2, <2>1, <2>2 DEF AnswerInv, ToldInv, SuccessIsLogged, LoggedSuccess, Done
  <2>5. FaultInv' /\ RepeatsNeedAFault'
    BY <1>2, <1>3, <2>1, <2>2 DEF FaultInv, RepeatsNeedAFault
  <2> QED BY <1>1, <2>3, <2>4, <2>5
<1>7. CASE Refuse(c, kind[c]) \/ LogBeforeEffect(c, kind[c])
  <2>1. PICK p, a, t : /\ Take(c, p, a, t) /\ executed' = [executed EXCEPT ![c] = a]
                       /\ \/ p = "ack" /\ a = "error" /\ t = "batch" /\ kind[c] \in Unimplemented
                          \/ p = "wipe" /\ a = "result" /\ t = "exit" /\ kind[c] \in LogFirst
                          \/ p = "ack" /\ a = "result" /\ t \in {"exec", "reboot"} /\ kind[c] \in LogFirst
    BY <1>7 DEF Refuse, LogBeforeEffect, New, LogFirst
  <2>2. /\ up /\ enrolled /\ pc = "batch" /\ pc' = p
        /\ cur'.cmd = c /\ cur'.ack = a /\ cur'.then = t
    BY <2>1, Taken
  <2>3. UNCHANGED <<up, enrolled, runs, agentFaults>> /\ executed[c] = "no"
    BY <1>7 DEF Refuse, LogBeforeEffect, New
  <2>4. executed'[c] = a /\ \A d \in Cmd \ {c} : executed'[d] = executed[d]
    BY <1>3, <2>1
  <2>5. kind[c] \in LogFirst => runs[c] = 0
    BY <1>3, <2>2, <2>3 DEF OnceInv
  <2>6. \A d \in Cmd : LoggedSuccess(d) => LoggedSuccess(d)'
    BY <2>2, <2>3, <2>4 DEF LoggedSuccess
  <2>7. ProcessInv' /\ RestartsAtMostOnce'
    BY <1>2, <2>1, <2>2, <2>3 DEF ProcessInv, RestartsAtMostOnce
  <2>8. OnceInv'
    BY <1>2, <2>1, <2>2, <2>3, <2>4, <2>5 DEF OnceInv, AboutTo
  <2>9. \A m \in acks : m.cmd \in Cmd
    BY DEF TypeOK, ServerTypeOK, Ack
  <2>10. \A d \in Cmd : Done(d)' <=> Done(d)
    BY <1>2, <2>3 DEF Done
  <2>11. AnswerInv'
    BY <1>2, <2>1, <2>2, <2>4, <2>10 DEF AnswerInv, LoggedSuccess, Done
  <2>12. ToldInv' /\ SuccessIsLogged'
    BY <1>2, <2>6, <2>9, <2>10 DEF ToldInv, SuccessIsLogged
  <2>13. FaultInv' /\ RepeatsNeedAFault'
    BY <1>2, <1>3, <2>1, <2>2, <2>3, <2>4 DEF FaultInv, RepeatsNeedAFault
  <2> QED BY <1>1, <2>7, <2>8, <2>11, <2>12, <2>13
<1> QED BY <1>2, <1>4, <1>5, <1>6, <1>7 DEF Execute
(* execute() after its first write, and the loops around it.               *)
LEMMA ContinueStep ==
  ASSUME IInv, ContinueCommand
  PROVE  IInv'
<1> USE DEF IInv
<1>1. TypeOK'
  BY NextType DEF Next, AgentStep
<1>2. Continue /\ UNCHANGED <<kind, outcome, acks>>
  BY DEF ContinueCommand, serverVars
<1>3. /\ agentFaults \in Nat /\ \A d \in Cmd : runs[d] \in Nat
      /\ runs \in [Cmd -> Nat] /\ executed \in [Cmd -> {"no", "result", "error"}]
      /\ cur.cmd \in Cmd /\ \A m \in acks : m.cmd \in Cmd
      /\ cur \in [cmd : Cmd, ack : {"result", "error"}, then : {"batch", "exit", "exec", "reboot"}]
  BY DEF TypeOK, AgentTypeOK, ServerTypeOK, Ack
<1>4. CASE BatchDone \/ Start
  <2>1. /\ UNCHANGED <<enrolled, executed, runs, agentFaults>> /\ pc # "record"
        /\ pc' = "sleep" /\ enrolled
    BY <1>4 DEF BatchDone, Start, At, ProcessInv
  <2> QED BY <1>1, <1>2, <2>1, IdleStep
<1>5. CASE Record
  <2>1. /\ UNCHANGED <<up, cur, enrolled, runs, agentFaults>> /\ up /\ pc = "record" /\ pc' = "ack"
        /\ executed' = [executed EXCEPT ![cur.cmd] = IF @ = "no" THEN cur.ack ELSE @]
    BY <1>5 DEF Record, At
  <2>2. enrolled /\ cur.then = "batch"
    BY <2>1 DEF ProcessInv
  <2>3. /\ executed'[cur.cmd] = IF executed[cur.cmd] = "no" THEN cur.ack ELSE executed[cur.cmd]
        /\ executed'[cur.cmd] # "no"
        /\ \A d \in Cmd \ {cur.cmd} : executed'[d] = executed[d]
    BY <1>3, <2>1
  <2>4. \A d \in Cmd : Done(d)' <=> Done(d)
    BY <1>2, <2>1 DEF Done
  <2>5. \A d \in Cmd : LoggedSuccess(d) => LoggedSuccess(d)'
    BY <2>1, <2>3 DEF LoggedSuccess
  <2>6. ProcessInv' /\ OnceInv' /\ RestartsAtMostOnce'
    BY <1>2, <2>1, <2>2, <2>3 DEF ProcessInv, OnceInv, RestartsAtMostOnce, AboutTo
  <2>7. AnswerInv'
    BY <1>3, <2>1, <2>2, <2>3, <2>4 DEF AnswerInv, LoggedSuccess
  <2>8. ToldInv' /\ SuccessIsLogged'
    BY <1>2, <1>3, <2>4, <2>5 DEF ToldInv, SuccessIsLogged
  <2>9. FaultInv' /\ RepeatsNeedAFault'
    BY <1>2, <1>3, <2>1, <2>2, <2>3 DEF FaultInv, RepeatsNeedAFault
  <2> QED BY <1>1, <2>6, <2>7, <2>8, <2>9
<1>6. CASE RecordFails
  <2>1. UNCHANGED <<up, enrolled, executed, runs>> /\ agentFaults' = agentFaults + 1 /\ pc = "record" /\ up
    BY <1>6 DEF RecordFails, At
  <2>2. enrolled /\ cur.then = "batch"
    BY <2>1 DEF ProcessInv
  <2>3. CASE pc' = "sleep"
    BY <1>1, <1>2, <2>1, <2>2, <2>3, IdleStep
  <2>4. CASE pc' # "sleep"
    <3>1. pc' = "record" /\ cur' = [cur EXCEPT !.ack = "error"]
      BY <1>6, <2>1, <2>4 DEF RecordFails
    <3>2. cur'.cmd = cur.cmd /\ cur'.ack = "error" /\ cur'.then = "batch"
      BY <1>3, <2>2, <3>1
    <3>3. ProcessInv' /\ OnceInv' /\ RestartsAtMostOnce'
      BY <1>2, <2>1, <2>2, <3>1, <3>2 DEF ProcessInv, OnceInv, RestartsAtMostOnce, AboutTo
    <3>4. AnswerInv' /\ ToldInv' /\ SuccessIsLogged'
      BY <1>2, <2>1, <3>1, <3>2 DEF AnswerInv, ToldInv, SuccessIsLogged, LoggedSuccess, Done
    <3>5. FaultInv' /\ RepeatsNeedAFault'
      BY <1>2, <1>3, <2>1, <3>1, <3>2 DEF FaultInv, RepeatsNeedAFault
    <3> QED BY <1>1, <3>3, <3>4, <3>5
  <2> QED BY <2>3, <2>4
<1>7. CASE Wipe
  <2>1. /\ UNCHANGED <<up, cur, agentFaults>> /\ up /\ pc = "wipe" /\ pc' = "ack" /\ ~enrolled'
        /\ executed' = [c \in Cmd |-> "no"] /\ runs' = [runs EXCEPT ![cur.cmd] = @ + 1]
    BY <1>7 DEF Wipe, At
  <2>2. /\ cur.then = "exit" /\ kind[cur.cmd] \in LogFirst /\ runs[cur.cmd] = 0
    BY <2>1 DEF ProcessInv, OnceInv, AboutTo
  <2>3. runs'[cur.cmd] = 1 /\ \A d \in Cmd \ {cur.cmd} : runs'[d] = runs[d]
    BY <1>3, <2>1, <2>2
  <2>4. \A d \in Cmd : Done(d) => Done(d)'
    BY <1>2, <1>3, <2>3 DEF Done
  <2>5. Done(cur.cmd)'
    BY <1>2, <2>1, <2>2 DEF Done
  <2>6. ProcessInv' /\ OnceInv' /\ RestartsAtMostOnce'
    BY <1>2, <2>1, <2>2, <2>3 DEF ProcessInv, OnceInv, RestartsAtMostOnce, AboutTo, LogFirst
  <2>7. AnswerInv'
    BY <1>2, <2>1, <2>2, <2>5 DEF AnswerInv, LoggedSuccess
  <2>8. ToldInv' /\ SuccessIsLogged'
    BY <1>2, <1>3, <2>1, <2>4 DEF ToldInv, SuccessIsLogged, LoggedSuccess
  <2>9. FaultInv' /\ RepeatsNeedAFault'
    BY <1>3, <2>1, <2>3 DEF FaultInv, RepeatsNeedAFault
  <2> QED BY <1>1, <2>6, <2>7, <2>8, <2>9
<1>8. CASE Exec \/ Reboot
  <2>1. /\ UNCHANGED <<enrolled, executed, agentFaults>> /\ up /\ pc \in {"exec", "reboot"} /\ pc' = "sleep"
        /\ runs' = [runs EXCEPT ![cur.cmd] = @ + 1]
    BY <1>8 DEF Exec, Reboot, At
  <2>2. /\ enrolled /\ kind[cur.cmd] \in LogFirst /\ runs[cur.cmd] = 0 /\ executed[cur.cmd] = "result"
    BY <2>1 DEF ProcessInv, OnceInv, AboutTo
  <2>3. runs'[cur.cmd] = 1 /\ \A d \in Cmd \ {cur.cmd} : runs'[d] = runs[d]
    BY <1>3, <2>1, <2>2
  <2>4. \A d \in Cmd : Done(d) => Done(d)'
    BY <1>2, <1>3, <2>3 DEF Done
  <2>5. ProcessInv' /\ OnceInv' /\ RestartsAtMostOnce'
    BY <1>2, <2>1, <2>2, <2>3 DEF ProcessInv, OnceInv, RestartsAtMostOnce, AboutTo, LogFirst
  <2>6. AnswerInv' /\ ToldInv' /\ SuccessIsLogged'
    BY <1>2, <1>3, <2>1, <2>4 DEF AnswerInv, ToldInv, SuccessIsLogged, LoggedSuccess
  <2>7. FaultInv' /\ RepeatsNeedAFault'
    BY <1>3, <2>1, <2>2, <2>3 DEF FaultInv, RepeatsNeedAFault
  <2> QED BY <1>1, <2>5, <2>6, <2>7
<1>9. CASE RestartFails
  <2>1. /\ UNCHANGED <<up, enrolled, executed, runs, agentFaults>> /\ up /\ pc \in {"exec", "reboot"}
        /\ pc' = "record" /\ cur' = [cur EXCEPT !.ack = "error", !.then = "batch"]
    BY <1>9 DEF RestartFails, At
  <2>2. cur'.cmd = cur.cmd /\ cur'.ack = "error" /\ cur'.then = "batch"
    BY <1>3, <2>1
  <2>3. ProcessInv' /\ OnceInv' /\ RestartsAtMostOnce'
    BY <1>2, <2>1, <2>2 DEF ProcessInv, OnceInv, RestartsAtMostOnce, AboutTo
  <2>4. AnswerInv' /\ ToldInv' /\ SuccessIsLogged'
    BY <1>2, <2>1, <2>2 DEF AnswerInv, ToldInv, SuccessIsLogged, LoggedSuccess, Done
  <2>5. FaultInv' /\ RepeatsNeedAFault'
    BY <1>2, <1>3, <2>1, <2>2 DEF FaultInv, RepeatsNeedAFault
  <2> QED BY <1>1, <2>3, <2>4, <2>5
<1> QED BY <1>2, <1>4, <1>5, <1>6, <1>7, <1>8, <1>9 DEF Continue

(* Requests and replies: only an ack carries an answer.                    *)
LEMMA ExchangeStep ==
  ASSUME IInv,
         \/ \E r \in Req : SendPoll(r) \/ ReceiveReply(r) \/ DiscardReply(r)
         \/ PollTimesOut \/ AgentCrash \/ SendAck \/ SendBeat
  PROVE  IInv'
<1> USE DEF IInv
<1>1. TypeOK'
  BY NextType DEF Next, AgentStep
<1>2. ASSUME NEW r \in Req, SendPoll(r) \/ ReceiveReply(r) PROVE IInv'
  <2>1. /\ UNCHANGED <<kind, outcome, acks, up, enrolled, executed, runs, agentFaults>> /\ up
        /\ pc \in {"sleep", "await"} /\ pc' \in {"sleep", "await", "batch"}
    BY <1>2 DEF SendPoll, ReceiveReply, Poll, Receive, At, rowVars
  <2>2. enrolled
    BY <2>1 DEF ProcessInv
  <2> QED BY <1>1, <2>1, <2>2, IdleStep
<1>3. CASE PollTimesOut
  <2>1. /\ UNCHANGED <<kind, outcome, acks, up, enrolled, executed, runs, agentFaults>> /\ up
        /\ pc = "await" /\ pc' = "sleep"
    BY <1>3 DEF PollTimesOut, PollFails, At, serverVars
  <2>2. enrolled
    BY <2>1 DEF ProcessInv
  <2> QED BY <1>1, <2>1, <2>2, IdleStep
<1>4. CASE AgentCrash
  <2>1. /\ UNCHANGED <<kind, outcome, acks, enrolled, executed, runs>>
        /\ agentFaults' = agentFaults + 1 /\ ~up' /\ pc' = "sleep"
    BY <1>4 DEF AgentCrash, Crash, serverVars
  <2> QED BY <1>1, <2>1, IdleStep
<1>5. ASSUME NEW r \in Req, DiscardReply(r) PROVE IInv'
  <2>1. UNCHANGED <<kind, outcome, acks, agentVars>>
    BY <1>5 DEF DiscardReply, rowVars
  <2> QED BY <1>1, <2>1, MessageStep
<1>6. CASE SendBeat
  <2>1. UNCHANGED <<kind, outcome, acks, agentVars>>
    BY <1>6 DEF SendBeat, rowVars
  <2> QED BY <1>1, <2>1, MessageStep
<1>7. CASE SendAck
  <2> DEFINE sent == [cmd |-> cur.cmd, outcome |-> cur.ack, at |-> "sent"]
  <2>1. /\ UNCHANGED <<kind, outcome, enrolled, executed, runs, agentFaults>>
        /\ acks' = acks \cup {sent} /\ up /\ pc = "ack"
        /\ \/ cur.then = "exit" /\ ~up' /\ pc' = "sleep"
           \/ cur.then # "exit" /\ up' = up /\ pc' = cur.then /\ cur' = cur
    BY <1>7 DEF SendAck, Acked, At, rowVars
  <2>2. /\ sent.cmd = cur.cmd /\ sent.outcome = cur.ack
        /\ cur.then \in {"batch", "exit", "exec", "reboot"}
    BY DEF TypeOK, AgentTypeOK
  <2>3. ProcessInv' /\ OnceInv' /\ RestartsAtMostOnce'
    BY <2>1, <2>2 DEF ProcessInv, OnceInv, RestartsAtMostOnce, AboutTo
  <2>4. AnswerInv'
    BY <2>1, <2>2 DEF AnswerInv, LoggedSuccess, Done
  <2>5. ToldInv' /\ SuccessIsLogged'
    BY <2>1, <2>2 DEF ToldInv, SuccessIsLogged, AnswerInv, LoggedSuccess, Done
  <2>6. FaultInv' /\ RepeatsNeedAFault'
    BY <2>1, <2>2 DEF FaultInv, RepeatsNeedAFault
  <2> QED BY <1>1, <2>3, <2>4, <2>5, <2>6
<1> QED BY <1>2, <1>3, <1>4, <1>5, <1>6, <1>7

(* IInv is inductive.                                                      *)
LEMMA NextIInv ==
  ASSUME IInv, [Next]_vars
  PROVE  IInv'
<1>1. CASE UNCHANGED vars
  <2>1. UNCHANGED <<kind, outcome, acks, agentVars>>
    BY <1>1 DEF vars, agentVars
  <2>2. TypeOK'
    BY <1>1 DEF IInv, TypeOK, ServerTypeOK, AgentTypeOK, vars
  <2> QED BY <2>1, <2>2, MessageStep
<1>2. CASE Next
  BY <1>2, ServerStep, ExecuteStep, ContinueStep, ExchangeStep DEF Next, AgentStep
<1> QED BY <1>1, <1>2

LEMMA Invariance == Spec => []IInv
<1>1. IInv /\ [Next]_vars => IInv'
  BY NextIInv
<1> QED BY InitIInv, <1>1, PTL DEF Spec

(* A command that ends or wipes the agent has its effect at most once,     *)
(* whatever is lost, delivered again or interrupted (commands.py logs it   *)
(* before the effect).                                                     *)
THEOREM NoRestartLoop == Spec => []RestartsAtMostOnce
<1>1. IInv => RestartsAtMostOnce
  BY DEF IInv
<1> QED BY Invariance, <1>1, PTL

(* Every repetition of an effect has its own crash or failed write: at     *)
(* least-once delivery alone never repeats one.                            *)
THEOREM RepetitionIsPaidFor == Spec => []RepeatsNeedAFault
<1>1. IInv => RepeatsNeedAFault
  BY DEF IInv
<1> QED BY Invariance, <1>1, PTL

(* A success in a row or on its way there is in the executed-command log,  *)
(* or the log was wiped by revoke.                                         *)
THEOREM LogBacksSuccess == Spec => []SuccessIsLogged
<1>1. IInv => SuccessIsLogged
  BY DEF IInv
<1> QED BY Invariance, <1>1, PTL

(* A row completed with a result had its effect on the device.             *)
THEOREM SuccessIsReal == Spec => []SuccessMeansRun
<1>1. IInv => SuccessMeansRun
  BY DEF IInv, ToldInv, SuccessMeansRun, Done, LogFirst, EffectFirst
<1> QED BY Invariance, <1>1, PTL
-----------------------------------------------------------------------------
(* What the dashboard says of a revoke.                                    *)

(* What explains a revoke that is called done without a wipe.              *)
Excused == ~enrolled \/ agentFaults > 0

(* Until there is an excuse nobody has called a revoke done but the log,   *)
(* and that only between its line and the wipe.                            *)
NothingRevoked ==
  /\ ~revoked
  /\ \A c \in Cmd : kind[c] = "revoke" => outcome[c] # "result"
  /\ \A c \in Cmd : kind[c] = "revoke" /\ executed[c] = "result" => pc = "wipe"
  /\ \A m \in acks : m.outcome = "result" => kind[m.cmd] # "revoke"
  /\ pc \in {"record", "ack"} /\ cur.ack = "result" => kind[cur.cmd] # "revoke"

(* Only the ack of a success reaches the device row.                       *)
WipeInv ==
  /\ \A m \in acks : m.at = "device" => m.outcome = "result"
  /\ Excused \/ NothingRevoked

LEMMA DeviceAcks ==
  ASSUME TypeOK, WipeInv, ServerNext
  PROVE  /\ \A m \in acks' : m.at = "device" => m.outcome = "result"
         /\ revoked' => revoked \/ \E m \in acks : m.outcome = "result" /\ kind[m.cmd] = "revoke"
<1> USE DEF TypeOK, ServerTypeOK, WipeInv
<1>1. ASSUME NEW m \in acks, AckAuth(m) \/ AckRow(m) \/ AckDevice(m) \/ AckDeviceFails(m) \/ AckLost(m)
      PROVE  /\ \A n \in acks' : n.at = "device" => n.outcome = "result"
             /\ revoked' => revoked \/ (m.outcome = "result" /\ kind[m.cmd] = "revoke")
  <2>1. m \in Ack
    OBVIOUS
  <2>2. /\ [m EXCEPT !.at = "row"].at = "row"
        /\ [m EXCEPT !.at = "device"].outcome = m.outcome
    BY <2>1 DEF Ack
  <2>3. CASE AckAuth(m)
    BY <2>2, <2>3 DEF AckAuth, deviceVars
  <2>4. CASE AckRow(m)
    BY <2>2, <2>4 DEF AckRow, deviceVars
  <2>5. CASE AckDevice(m) \/ AckDeviceFails(m) \/ AckLost(m)
    BY <2>5 DEF AckDevice, AckDeviceFails, AckLost, deviceVars
  <2> QED BY <1>1, <2>3, <2>4, <2>5
<1>2. ASSUME \/ \E r \in Req : GetStep(r) \/ GetLost(r)
             \/ \E b \in beats : BeatAuth(b) \/ BeatRow(b) \/ BeatLost(b)
             \/ \E a \in Admin : AdminBegin(a) \/ AdminFinish(a)
             \/ \E c \in Cmd : Lapse(c) \/ WindowPasses(c)
      PROVE  UNCHANGED <<acks, revoked>>
  BY <1>2 DEF GetStep, GetAuth, GetReap, GetSelect, GetStamp, GetStampFails, GetLost, BeatAuth, BeatRow, BeatLost,
     AdminBegin, AdminFinish, IssueLookup, IssueCheck, IssueInsert, IssueAudit, IssueAuditFails, CancelLookup,
     CancelUpdate, Lapse, WindowPasses, deviceVars
<1> QED BY <1>1, <1>2 DEF ServerNext, AckStep, BeatStep, Loss, Clock

(* The handlers pass on what the agent said.                               *)
LEMMA ServerWipe ==
  ASSUME IInv, WipeInv, Server(ServerNext)
  PROVE  WipeInv'
<1> USE DEF IInv
<1>1. UNCHANGED <<pc, cur, enrolled, executed, runs, agentFaults>> /\ ServerNext
  BY DEF Server, agentVars
<1>2. /\ \A m \in acks' : m.at = "device" => m.outcome = "result"
      /\ revoked' => revoked \/ \E m \in acks : m.outcome = "result" /\ kind[m.cmd] = "revoke"
  BY <1>1, DeviceAcks
<1>3. /\ \A c \in Cmd : kind[c] # "none" => kind'[c] = kind[c]
      /\ \A m \in acks' : \E n \in acks : m.cmd = n.cmd /\ m.outcome = n.outcome
      /\ \A c \in Cmd : outcome'[c] = "result"
           => outcome[c] = "result" \/ \E m \in acks : m.cmd = c /\ m.outcome = "result"
  BY <1>1, ServerKeeps
<1>4. CASE Excused
  BY <1>1, <1>2, <1>4 DEF WipeInv, Excused
<1>5. CASE NothingRevoked
  <2>1. \A c \in Cmd : Done(c) => kind'[c] = kind[c]
    BY <1>3 DEF Done, LogFirst, EffectFirst
  <2>2. cur.cmd \in Cmd /\ \A m \in acks : m.cmd \in Cmd
    BY DEF TypeOK, AgentTypeOK, ServerTypeOK, Ack
  <2>3. ~revoked'
    BY <1>2, <1>5 DEF NothingRevoked
  <2>4. \A c \in Cmd : kind'[c] = "revoke" => outcome'[c] # "result"
    BY <1>3, <1>5, <2>1 DEF NothingRevoked, ToldInv
  <2>5. \A c \in Cmd : kind'[c] = "revoke" /\ executed[c] = "result" => pc = "wipe"
    BY <1>5, <2>1 DEF NothingRevoked, AnswerInv
  <2>6. \A m \in acks' : m.outcome = "result" => kind'[m.cmd] # "revoke"
    BY <1>3, <1>5, <2>1, <2>2 DEF NothingRevoked, ToldInv
  <2>7. pc \in {"record", "ack"} /\ cur.ack = "result" => kind'[cur.cmd] # "revoke"
    BY <1>5, <2>1, <2>2 DEF NothingRevoked, AnswerInv
  <2> QED BY <1>1, <1>2, <2>3, <2>4, <2>5, <2>6, <2>7 DEF NothingRevoked, WipeInv
<1> QED BY <1>4, <1>5 DEF WipeInv

(* The agent says a revoke is done only after the wipe.                    *)
LEMMA ExecuteWipe ==
  ASSUME IInv, WipeInv, NEW c \in Cmd, ExecuteNext(c)
  PROVE  WipeInv'
<1> USE DEF IInv
<1>1. Execute(c, kind[c]) /\ UNCHANGED <<kind, outcome, acks, revoked>>
  BY DEF ExecuteNext, serverVars, deviceVars
<1>2. UNCHANGED enrolled /\ (agentFaults' = agentFaults \/ agentFaults' = agentFaults + 1)
  BY <1>1 DEF Execute, Reject, Replay, Effect, EffectFails, Refuse, LogBeforeEffect, LogFails
<1>3. agentFaults \in Nat /\ executed \in [Cmd -> {"no", "result", "error"}]
  BY DEF TypeOK, AgentTypeOK
<1>4. CASE Excused
  BY <1>1, <1>2, <1>3, <1>4 DEF WipeInv, Excused
<1>5. CASE NothingRevoked
  <2>1. PICK p, a, t :
          /\ Take(c, p, a, t)
          /\ \/ executed' = executed /\ (p \in {"record", "ack"} /\ a = "result" => kind[c] # "revoke")
             \/ executed' = [executed EXCEPT ![c] = a] /\ a = "error"
             \/ executed' = [executed EXCEPT ![c] = a] /\ p = (IF kind[c] = "revoke" THEN "wipe" ELSE "ack")
    <3>1. CASE Reject(c)
      BY <3>1 DEF Reject
    <3>2. CASE Replay(c)
      <4>1. Take(c, "ack", executed[c], "batch") /\ executed' = executed /\ pc = "batch"
        BY <3>2 DEF Replay, Take, At
      <4> QED BY <1>5, <4>1 DEF NothingRevoked
    <3>3. CASE Effect(c, kind[c]) \/ EffectFails(c, kind[c])
      <4>1. kind[c] # "revoke"
        BY <3>3 DEF Effect, EffectFails, New, EffectFirst
      <4> QED BY <3>3, <4>1 DEF Effect, EffectFails
    <3>4. CASE Refuse(c, kind[c]) \/ LogFails(c, kind[c])
      BY <3>4 DEF Refuse, LogFails
    <3>5. CASE LogBeforeEffect(c, kind[c])
      BY <3>5 DEF LogBeforeEffect
    <3> QED BY <1>1, <3>1, <3>2, <3>3, <3>4, <3>5 DEF Execute
  <2>2. pc = "batch" /\ pc' = p /\ cur'.cmd = c /\ cur'.ack = a
    BY <2>1, Taken
  <2>3. \A d \in Cmd \ {c} : executed'[d] = executed[d]
    BY <1>3, <2>1
  <2>4. executed'[c] = executed[c] \/ executed'[c] = a
    BY <1>3, <2>1
  <2>5. \A d \in Cmd : kind[d] = "revoke" /\ executed'[d] = "result" => p = "wipe"
    <3>1. \A d \in Cmd : kind[d] = "revoke" => executed[d] # "result"
      BY <1>5, <2>2 DEF NothingRevoked
    <3> QED BY <1>3, <2>1, <2>3, <2>4, <3>1
  <2>6. p \in {"record", "ack"} /\ a = "result" => kind[c] # "revoke"
    BY <2>1
  <2> QED BY <1>1, <1>5, <2>2, <2>5, <2>6 DEF NothingRevoked, WipeInv
<1> QED BY <1>4, <1>5 DEF WipeInv

LEMMA ContinueWipe ==
  ASSUME IInv, WipeInv, ContinueCommand
  PROVE  WipeInv'
<1> USE DEF IInv
<1>1. Continue /\ UNCHANGED <<kind, outcome, acks, revoked>>
  BY DEF ContinueCommand, serverVars, deviceVars
<1>2. /\ agentFaults \in Nat /\ cur.cmd \in Cmd
      /\ executed \in [Cmd -> {"no", "result", "error"}]
      /\ cur \in [cmd : Cmd, ack : {"result", "error"}, then : {"batch", "exit", "exec", "reboot"}]
  BY DEF TypeOK, AgentTypeOK
<1>3. /\ ~enrolled => ~enrolled'
      /\ agentFaults' = agentFaults \/ agentFaults' = agentFaults + 1
  BY <1>1 DEF Continue, BatchDone, Record, RecordFails, Wipe, Exec, Reboot, RestartFails, Start
<1>4. CASE Excused \/ Wipe
  BY <1>1, <1>2, <1>3, <1>4 DEF WipeInv, Excused, Wipe
<1>5. CASE NothingRevoked /\ Record
  <2>1. /\ UNCHANGED <<cur, enrolled, agentFaults>> /\ pc = "record" /\ pc' = "ack"
        /\ executed' = [executed EXCEPT ![cur.cmd] = IF @ = "no" THEN cur.ack ELSE @]
    BY <1>5 DEF Record, At
  <2>2. /\ executed'[cur.cmd] \in {executed[cur.cmd], cur.ack}
        /\ \A d \in Cmd \ {cur.cmd} : executed'[d] = executed[d]
    BY <1>2, <2>1
  <2>3. \A d \in Cmd : kind[d] = "revoke" => executed'[d] # "result"
    BY <1>5, <2>1, <2>2 DEF NothingRevoked
  <2> QED BY <1>1, <1>5, <2>1, <2>3 DEF NothingRevoked, WipeInv
<1>6. CASE NothingRevoked /\ (RecordFails \/ RestartFails)
  <2>1. /\ UNCHANGED executed /\ pc # "wipe"
        /\ pc' = "sleep" \/ (cur'.ack = "error" /\ pc' # "wipe")
    BY <1>2, <1>6 DEF RecordFails, RestartFails, At
  <2> QED BY <1>1, <1>6, <2>1 DEF NothingRevoked, WipeInv
<1>7. CASE NothingRevoked /\ (BatchDone \/ Exec \/ Reboot \/ Start)
  <2>1. /\ UNCHANGED executed /\ pc' \in {"sleep"} /\ pc # "wipe"
    BY <1>7 DEF BatchDone, Exec, Reboot, Start, At, ProcessInv
  <2> QED BY <1>1, <1>7, <2>1 DEF NothingRevoked, WipeInv
<1> QED BY <1>1, <1>4, <1>5, <1>6, <1>7 DEF Continue, WipeInv

LEMMA ExchangeWipe ==
  ASSUME IInv, WipeInv,
         \/ \E r \in Req : SendPoll(r) \/ ReceiveReply(r) \/ DiscardReply(r)
         \/ PollTimesOut \/ AgentCrash \/ SendAck \/ SendBeat
  PROVE  WipeInv'
<1> USE DEF IInv
<1>1. UNCHANGED <<kind, outcome, revoked, enrolled, executed>>
  BY DEF SendPoll, ReceiveReply, DiscardReply, PollTimesOut, AgentCrash, SendAck, SendBeat, Poll, Receive,
     PollFails, Crash, Acked, rowVars, deviceVars, serverVars, agentVars
<1>2. agentFaults \in Nat
  BY DEF TypeOK, AgentTypeOK
<1>3. CASE AgentCrash
  BY <1>2, <1>3 DEF AgentCrash, Crash, WipeInv, Excused, serverVars
<1>4. CASE SendAck
  <2> DEFINE sent == [cmd |-> cur.cmd, outcome |-> cur.ack, at |-> "sent"]
  <2>1. /\ acks' = acks \cup {sent} /\ pc = "ack" /\ UNCHANGED agentFaults
        /\ sent.cmd = cur.cmd /\ sent.outcome = cur.ack /\ sent.at = "sent"
        /\ pc' = "sleep" \/ pc' = cur.then
    BY <1>4 DEF SendAck, Acked, At
  <2>2. cur.then \in {"batch", "exit", "exec", "reboot"}
    BY DEF TypeOK, AgentTypeOK
  <2> QED BY <1>1, <2>1, <2>2 DEF WipeInv, Excused, NothingRevoked
<1>5. CASE ~AgentCrash /\ ~SendAck
  <2>1. /\ UNCHANGED <<acks, agentFaults>>
        /\ UNCHANGED <<pc, cur>> \/ (pc # "wipe" /\ pc' \in {"sleep", "await", "batch"})
    BY <1>5 DEF SendPoll, ReceiveReply, DiscardReply, PollTimesOut, SendBeat, Poll, Receive,
       PollFails, At, serverVars, agentVars
  <2> QED BY <1>1, <2>1 DEF WipeInv, Excused, NothingRevoked
<1> QED BY <1>3, <1>4, <1>5

(* A device the dashboard calls revoked, or a revoke it calls done, has    *)
(* been wiped, unless a crash or a failed write of the agent came between  *)
(* (commands.py logs the revoke before it removes the state directory).    *)
THEOREM RevocationIsReal == Spec => []RevokedIsWiped
<1>1. Init => WipeInv
  <2> SUFFICES ASSUME Init PROVE WipeInv
    OBVIOUS
  <2>1. /\ pc = "sleep" /\ acks = {} /\ revoked = FALSE
        /\ executed = [c \in Cmd |-> "no"] /\ outcome = [c \in Cmd |-> "open"]
    BY DEF Init, ServerInit, AgentInit
  <2> QED BY <2>1 DEF WipeInv, NothingRevoked
<1>2. ASSUME IInv, WipeInv, [Next]_vars PROVE WipeInv'
  <2>1. CASE UNCHANGED vars
    BY <1>2, <2>1 DEF WipeInv, NothingRevoked, Excused, vars
  <2>2. CASE Next
    BY <1>2, <2>2, ServerWipe, ExecuteWipe, ContinueWipe, ExchangeWipe DEF Next, AgentStep
  <2> QED BY <1>2, <2>1, <2>2
<1>3. IInv /\ WipeInv => RevokedIsWiped
  <2> SUFFICES ASSUME IInv, WipeInv PROVE RevokedIsWiped
    OBVIOUS
  <2> QED BY DEF WipeInv, NothingRevoked, Excused, RevokedIsWiped
<1> QED BY Invariance, <1>1, <1>2, <1>3, PTL DEF Spec
-----------------------------------------------------------------------------
(* The premise of the cancel guards, when no stamp fails.                  *)

(* Nothing gets past the dashboard without a stamp: neither a reply, nor   *)
(* the batch, nor the command in hand.                                     *)
StampInv ==
  /\ \A r \in Req : get[r].at # "stamp" => get[r].todo = {}
  /\ \A r \in Req : \A c \in get[r].rows : offered[c] = "never" => c \in get[r].todo
  /\ pc \in {"record", "wipe", "ack", "exec", "reboot"} => offered[cur.cmd] # "never"

OfferInv == TypeOK /\ StampInv /\ UnofferedNeverSeen

LEMMA InitOffer == Init => OfferInv
<1> SUFFICES ASSUME Init PROVE OfferInv
  OBVIOUS
<1>1. /\ get = [r \in Req |-> NoGet] /\ pc = "sleep" /\ batch = {}
      /\ runs = [c \in Cmd |-> 0] /\ executed = [c \in Cmd |-> "no"]
  BY DEF Init, ServerInit, AgentInit
<1> QED BY <1>1, InitType DEF OfferInv, StampInv, UnofferedNeverSeen, NoGet

(* The handlers: a row leaves todo when it is stamped, and only then.      *)
LEMMA ServerOffers ==
  ASSUME MaxServerFaults = 0, TypeOK, StampInv, ServerNext
  PROVE  /\ \A c \in Cmd : offered'[c] = "never" => offered[c] = "never"
         /\ \A r \in Req : get'[r].at # "stamp" => get'[r].todo = {}
         /\ \A r \in Req : \A c \in get'[r].rows : offered'[c] = "never" => c \in get'[r].todo
<1> USE DEF TypeOK, ServerTypeOK, StampInv
<1>1. ASSUME NEW r \in Req, GetAuth(r) \/ GetReap(r) \/ GetSelect(r) \/ GetLost(r)
      PROVE  /\ offered' = offered
             /\ \A q \in Req : get'[q].at # "stamp" => get'[q].todo = {}
             /\ \A q \in Req : \A c \in get'[q].rows : offered[c] = "never" => c \in get'[q].todo
  <2>1. offered' = offered
    BY <1>1 DEF GetAuth, GetReap, GetSelect, GetLost, rowVars
  <2>2. CASE GetAuth(r) \/ GetReap(r)
    <3>1. PICK p \in {"reap", "select", "reply"} : get' = [get EXCEPT ![r].at = p]
      BY <2>2 DEF GetAuth, GetReap
    <3>2. get[r].at # "stamp"
      BY <2>2 DEF GetAuth, GetReap
    <3> QED BY <2>1, <3>1, <3>2
  <2>3. CASE GetSelect(r) \/ GetLost(r)
    <3>1. PICK S, p : get' = [get EXCEPT ![r] = [at |-> p, rows |-> S, todo |-> S]] /\ (S = {} \/ p = "stamp")
      BY <2>3 DEF GetSelect, GetLost, NoGet
    <3> QED BY <2>1, <3>1
  <2> QED BY <1>1, <2>1, <2>2, <2>3
<1>2. ASSUME NEW r \in Req, NEW c \in Cmd, GetStamp(r, c)
      PROVE  /\ \A d \in Cmd : offered'[d] = "never" => offered[d] = "never"
             /\ \A q \in Req : get'[q].at # "stamp" => get'[q].todo = {}
             /\ \A q \in Req : \A d \in get'[q].rows : offered'[d] = "never" => d \in get'[q].todo
  <2>1. /\ offered' = [offered EXCEPT ![c] = "recent"]
        /\ get[r].at = "stamp" /\ c \in get[r].todo
        /\ get' = [get EXCEPT ![r].todo = @ \ {c},
                              ![r].at = IF get[r].todo = {c} THEN "reply" ELSE "stamp"]
    BY <1>2 DEF GetStamp, StampDone
  <2>2. /\ get'[r].rows = get[r].rows /\ get'[r].todo = get[r].todo \ {c}
        /\ get'[r].at = IF get[r].todo = {c} THEN "reply" ELSE "stamp"
        /\ \A q \in Req \ {r} : get'[q] = get[q]
    BY <2>1
  <2>3. offered'[c] = "recent" /\ \A d \in Cmd \ {c} : offered'[d] = offered[d]
    BY <2>1
  <2>4. \A q \in Req : get[q].rows \subseteq Cmd
    OBVIOUS
  <2> QED BY <2>1, <2>2, <2>3, <2>4
<1>3. ASSUME NEW r \in Req, NEW c \in Cmd, GetStampFails(r, c) PROVE FALSE
  BY <1>3 DEF GetStampFails
<1>4. ASSUME NEW c \in Cmd, WindowPasses(c)
      PROVE  get' = get /\ \A d \in Cmd : offered'[d] = "never" => offered[d] = "never"
  BY <1>4 DEF WindowPasses
<1>5. ASSUME \/ \E m \in acks : AckAuth(m) \/ AckRow(m) \/ AckDevice(m) \/ AckDeviceFails(m) \/ AckLost(m)
             \/ \E b \in beats : BeatAuth(b) \/ BeatRow(b) \/ BeatLost(b)
             \/ \E c \in Cmd : Lapse(c)
      PROVE  UNCHANGED <<get, offered>>
  BY <1>5 DEF AckAuth, AckRow, AckDevice, AckDeviceFails, AckLost, BeatAuth, BeatRow, BeatLost, Lapse, rowVars
<1>6. ASSUME NEW a \in Admin, AdminBegin(a) \/ AdminFinish(a)
      PROVE  UNCHANGED <<get, offered>>
  BY <1>6 DEF AdminBegin, AdminFinish, IssueLookup, IssueCheck, IssueInsert, IssueAudit, IssueAuditFails,
     CancelLookup, CancelUpdate, rowVars
<1>7. \A r \in Req : get[r].rows \subseteq Cmd
  OBVIOUS
<1> QED BY <1>1, <1>2, <1>3, <1>4, <1>5, <1>6, <1>7
     DEF ServerNext, GetStep, AckStep, BeatStep, Loss, Clock

(* The agent: what it takes into its hands came in a stamped reply.        *)
LEMMA AgentOffers ==
  ASSUME TypeOK, StampInv, UnofferedNeverSeen,
         \/ \E c \in Cmd : ExecuteNext(c)
         \/ ContinueCommand \/ SendAck \/ PollTimesOut \/ AgentCrash \/ SendBeat
  PROVE  StampInv' /\ UnofferedNeverSeen'
<1> USE DEF TypeOK, AgentTypeOK
<1>1. UNCHANGED <<get, offered>>
  BY DEF ExecuteNext, ContinueCommand, SendAck, PollTimesOut, AgentCrash, SendBeat, serverVars, rowVars
<1>2. ASSUME NEW c \in Cmd, ExecuteNext(c)
      PROVE  /\ c \in batch /\ batch' \subseteq batch /\ cur'.cmd = c
             /\ \A d \in Cmd \ {c} : runs'[d] = runs[d] /\ executed'[d] = executed[d]
  <2>1. Execute(c, kind[c])
    BY <1>2 DEF ExecuteNext
  <2>2. PICK p, a, t : Take(c, p, a, t)
    BY <2>1 DEF Execute, Reject, Replay, Effect, EffectFails, Refuse, LogBeforeEffect, LogFails
  <2>3. /\ runs' = runs \/ runs' = [runs EXCEPT ![c] = @ + 1]
        /\ executed' = executed \/ \E a2 : executed' = [executed EXCEPT ![c] = a2]
    BY <2>1 DEF Execute, Reject, Replay, Effect, EffectFails, Refuse, LogBeforeEffect, LogFails
  <2> QED BY <2>2, <2>3 DEF Take, Oldest
<1>3. ASSUME NEW c \in Cmd, ExecuteNext(c) PROVE StampInv' /\ UnofferedNeverSeen'
  BY <1>1, <1>2, <1>3 DEF StampInv, UnofferedNeverSeen
<1>4. CASE ContinueCommand
  <2>1. Continue
    BY <1>4 DEF ContinueCommand
  <2>2. /\ batch' \subseteq batch
        /\ \/ pc' = "sleep"
           \/ cur'.cmd = cur.cmd /\ (pc' = pc \/ pc \in {"record", "wipe", "exec", "reboot"})
    BY <2>1 DEF Continue, BatchDone, Record, RecordFails, Wipe, Exec, Reboot, RestartFails, Start, At
  <2>3. CASE pc \in {"record", "wipe", "exec", "reboot"}
    <3>1. \A d \in Cmd \ {cur.cmd} : runs'[d] = runs[d] /\ (executed'[d] = executed[d] \/ executed'[d] = "no")
      BY <2>1 DEF Continue, BatchDone, Record, RecordFails, Wipe, Exec, Reboot, RestartFails, Start
    <3> QED BY <1>1, <2>2, <2>3, <3>1 DEF StampInv, UnofferedNeverSeen
  <2>4. CASE pc \notin {"record", "wipe", "exec", "reboot"}
    <3>1. UNCHANGED <<runs, executed>>
      BY <2>1, <2>2, <2>4 DEF Continue, BatchDone, Record, RecordFails, Wipe, Exec, Reboot, RestartFails, Start, At
    <3> QED BY <1>1, <2>2, <3>1 DEF StampInv, UnofferedNeverSeen
  <2> QED BY <2>3, <2>4
<1>5. CASE SendAck \/ PollTimesOut \/ AgentCrash \/ SendBeat
  <2>1. /\ batch' \subseteq batch /\ UNCHANGED <<runs, executed>>
        /\ \/ pc' \in {"sleep", "batch"}
           \/ cur' = cur /\ (pc' = pc \/ pc = "ack")
    BY <1>5 DEF SendAck, Acked, PollTimesOut, PollFails, AgentCrash, Crash, SendBeat, At, agentVars
  <2> QED BY <1>1, <2>1 DEF StampInv, UnofferedNeverSeen
<1> QED BY <1>3, <1>4, <1>5

LEMMA ReplyOffers ==
  ASSUME TypeOK, StampInv, UnofferedNeverSeen, NEW r \in Req,
         SendPoll(r) \/ ReceiveReply(r) \/ DiscardReply(r)
  PROVE  StampInv' /\ UnofferedNeverSeen'
<1> USE DEF TypeOK, ServerTypeOK, AgentTypeOK
<1>1. /\ UNCHANGED <<offered, runs, executed>>
      /\ \E p : get' = [get EXCEPT ![r] = [at |-> p, rows |-> {}, todo |-> {}]]
      /\ \/ batch' = batch /\ UNCHANGED <<pc, cur>>
         \/ batch' = batch /\ pc' = "await"
         \/ batch' = get[r].rows /\ get[r].at = "reply" /\ pc' = "batch"
  BY DEF SendPoll, ReceiveReply, DiscardReply, Poll, Receive, At, NoGet, rowVars, agentVars
<1>2. get[r].at = "reply" => \A c \in get[r].rows : offered[c] # "never"
  BY DEF StampInv
<1> QED BY <1>1, <1>2 DEF StampInv, UnofferedNeverSeen

(* While delivered_at is null the agent has never seen the command, so     *)
(* both cancel guards say what they mean, provided no stamp ever fails     *)
(* (the route ignores the error of one that does).                         *)
THEOREM CancelPremise ==
  ASSUME MaxServerFaults = 0
  PROVE  Spec => []UnofferedNeverSeen
<1>1. ASSUME OfferInv, [Next]_vars PROVE OfferInv'
  <2> USE <1>1 DEF OfferInv
  <2>1. TypeOK'
    <3>1. CASE UNCHANGED vars
      BY <3>1 DEF TypeOK, ServerTypeOK, AgentTypeOK, vars
    <3> QED BY <1>1, <3>1, NextType
  <2>2. CASE UNCHANGED vars
    BY <2>1, <2>2 DEF StampInv, UnofferedNeverSeen, vars
  <2>3. CASE Server(ServerNext)
    <3>1. UNCHANGED <<pc, cur, batch, runs, executed>> /\ ServerNext
      BY <2>3 DEF Server, agentVars
    <3>2. cur.cmd \in Cmd
      BY DEF TypeOK, AgentTypeOK
    <3> QED BY <2>1, <3>1, <3>2, ServerOffers DEF StampInv, UnofferedNeverSeen
  <2>4. CASE Next /\ ~Server(ServerNext)
    BY <2>1, <2>4, AgentOffers, ReplyOffers DEF Next, AgentStep
  <2> QED BY <1>1, <2>2, <2>3, <2>4
<1>2. OfferInv => UnofferedNeverSeen
  BY DEF OfferInv
<1> QED BY InitOffer, <1>1, <1>2, PTL DEF Spec
-----------------------------------------------------------------------------
(* The duplicate check: how far overlapping requests can defeat it.        *)

(* Handlers other than the insert open no row and keep its age.            *)
LEMMA NothingOpens ==
  ASSUME TypeOK, ServerNext, \A a \in Admin : ~IssueInsert(a)
  PROVE  /\ UNCHANGED kind /\ lapsed \subseteq lapsed'
         /\ \A c \in Cmd : outcome'[c] = "open" => outcome[c] = "open"
<1> USE DEF TypeOK, ServerTypeOK
<1>1. ASSUME NEW r \in Req, GetStep(r) \/ GetLost(r)
      PROVE  UNCHANGED <<kind, lapsed>> /\ \A c \in Cmd : outcome'[c] = "open" => outcome[c] = "open"
  BY <1>1 DEF GetStep, GetAuth, GetReap, GetSelect, GetStamp, GetStampFails, GetLost, rowVars
<1>2. ASSUME NEW m \in acks, AckAuth(m) \/ AckRow(m) \/ AckDevice(m) \/ AckDeviceFails(m) \/ AckLost(m)
      PROVE  UNCHANGED <<kind, lapsed>> /\ \A c \in Cmd : outcome'[c] = "open" => outcome[c] = "open"
  <2>1. m.outcome # "open"
    BY DEF Ack
  <2>2. outcome' = outcome \/ outcome' = [outcome EXCEPT ![m.cmd] = m.outcome]
    BY <1>2 DEF AckAuth, AckRow, AckDevice, AckDeviceFails, AckLost, rowVars
  <2>3. UNCHANGED <<kind, lapsed>>
    BY <1>2 DEF AckAuth, AckRow, AckDevice, AckDeviceFails, AckLost, rowVars
  <2> QED BY <2>1, <2>2, <2>3
<1>3. ASSUME NEW b \in beats, BeatAuth(b) \/ BeatRow(b) \/ BeatLost(b)
      PROVE  UNCHANGED <<kind, outcome, lapsed>>
  BY <1>3 DEF BeatAuth, BeatRow, BeatLost, rowVars
<1>4. ASSUME NEW a \in Admin, AdminBegin(a) \/ AdminFinish(a)
      PROVE  UNCHANGED <<kind, lapsed>> /\ \A c \in Cmd : outcome'[c] = "open" => outcome[c] = "open"
  <2>1. CASE CancelUpdate(a)
    BY <2>1 DEF CancelUpdate
  <2>2. CASE ~CancelUpdate(a)
    BY <1>4, <2>2 DEF AdminBegin, AdminFinish, IssueLookup, IssueCheck, IssueAudit, IssueAuditFails,
       CancelLookup, rowVars
  <2> QED BY <2>1, <2>2
<1>5. ASSUME NEW c \in Cmd, Lapse(c) \/ WindowPasses(c)
      PROVE  UNCHANGED <<kind, outcome>> /\ lapsed \subseteq lapsed'
  BY <1>5 DEF Lapse, WindowPasses
<1> QED BY <1>1, <1>2, <1>3, <1>4, <1>5 DEF ServerNext, AckStep, BeatStep, Loss, Clock

(* A request comes to its insert by the check alone.                       *)
LEMMA InsertIsChecked ==
  ASSUME TypeOK, ServerNext, NEW a \in Admin, admin'[a].at = "insert"
  PROVE  \/ admin[a].at = "insert" /\ admin'[a] = admin[a]
         \/ IssueCheck(a) /\ admin'[a].kind = admin[a].kind
              /\ \A c \in Cmd : Open(c) /\ kind[c] = admin[a].kind => c \in lapsed
<1> USE DEF TypeOK, ServerTypeOK
<1>1. ASSUME NEW b \in Admin, AdminBegin(b) \/ AdminFinish(b)
      PROVE  \/ admin'[a] = admin[a]
             \/ IssueCheck(a) /\ admin'[a].kind = admin[a].kind
                  /\ \A c \in Cmd : Open(c) /\ kind[c] = admin[a].kind => c \in lapsed
  <2>1. CASE b # a
    <3>1. \E x : admin' = [admin EXCEPT ![b] = x]
      BY <1>1 DEF AdminBegin, AdminFinish, IssueLookup, IssueCheck, IssueInsert, IssueAudit, IssueAuditFails,
         CancelLookup, CancelUpdate, AdminStep
    <3> QED BY <2>1, <3>1
  <2>2. CASE b = a /\ IssueCheck(a)
    BY <2>2 DEF IssueCheck, AdminStep
  <2>3. CASE b = a /\ ~IssueCheck(a)
    <3>1. admin'[a].at # "insert"
      BY <1>1, <2>3 DEF AdminBegin, AdminFinish, IssueLookup, IssueInsert, IssueAudit, IssueAuditFails,
         CancelLookup, CancelUpdate, AdminStep, NoAdmin
    <3> QED BY <3>1
  <2> QED BY <2>1, <2>2, <2>3
<1>2. ASSUME \/ \E r \in Req : GetStep(r) \/ GetLost(r)
             \/ \E m \in acks : AckAuth(m) \/ AckRow(m) \/ AckDevice(m) \/ AckDeviceFails(m) \/ AckLost(m)
             \/ \E b \in beats : BeatAuth(b) \/ BeatRow(b) \/ BeatLost(b)
             \/ \E c \in Cmd : Lapse(c) \/ WindowPasses(c)
      PROVE  UNCHANGED admin
  BY <1>2 DEF GetStep, GetAuth, GetReap, GetSelect, GetStamp, GetStampFails, GetLost, AckAuth, AckRow,
     AckDevice, AckDeviceFails, AckLost, BeatAuth, BeatRow, BeatLost, Lapse, WindowPasses
<1> QED BY <1>1, <1>2 DEF ServerNext, AckStep, BeatStep, Loss, Clock

LEMMA OverlapStep ==
  ASSUME IsFiniteSet(Admin), TypeOK, DuplicatesOverlap, ServerNext
  PROVE  DuplicatesOverlap'
<1> USE DEF DuplicatesOverlap
<1>1. /\ IsFiniteSet(Cmd) /\ Cardinality(Admin) \in Nat
  BY FS_Interval, FS_CardinalityType DEF Cmd
<1>2. ASSUME NEW k \in Kinds
      PROVE  Cardinality(OpenOf(k)') + Cardinality(Passed(k)') <= Cardinality(Admin)
  <2> DEFINE O == OpenOf(k)
             P == Passed(k)
             O1 == {c \in Cmd : Open(c)' /\ kind'[c] = k /\ c \notin lapsed'}
             P1 == {a \in Admin : admin'[a].at = "insert" /\ admin'[a].kind = k}
  <2>1. /\ IsFiniteSet(O) /\ IsFiniteSet(P) /\ IsFiniteSet(P1)
        /\ Cardinality(O) \in Nat /\ Cardinality(P) \in Nat /\ Cardinality(P1) <= Cardinality(Admin)
        /\ Cardinality(P1) \in Nat
    BY <1>1, FS_Subset, FS_CardinalityType DEF OpenOf, Passed
  <2>2. O1 \subseteq O \/ \E a \in Admin : IssueInsert(a)
    <3> SUFFICES ASSUME \A a \in Admin : ~IssueInsert(a) PROVE O1 \subseteq O
      OBVIOUS
    <3> QED BY NothingOpens DEF OpenOf, Open, Issued
  <2>3. CASE \E a \in Admin : IssueInsert(a) /\ admin[a].kind = k
    <3>1. PICK a \in Admin : IssueInsert(a) /\ admin[a].kind = k
      BY <2>3
    <3>2. PICK c \in NextRow :
            kind' = [kind EXCEPT ![c] = k] /\ AdminStep(a, "audit", k, c)
      BY <3>1 DEF IssueInsert
    <3>3. O1 \subseteq O \cup {c}
      BY <3>1, <3>2 DEF IssueInsert, NextRow, OpenOf, Open, Issued, TypeOK, ServerTypeOK
    <3>4. a \in P /\ P1 \subseteq P \ {a}
      BY <3>1, <3>2 DEF IssueInsert, AdminStep, Passed, TypeOK, ServerTypeOK
    <3>5. Cardinality(O1) <= Cardinality(O) + 1 /\ Cardinality(O1) \in Nat
      <4> HIDE DEF O, O1
      <4>1. IsFiniteSet(O \cup {c}) /\ Cardinality(O \cup {c}) <= Cardinality(O) + 1
        <5>1. /\ IsFiniteSet(O \cup {c})
              /\ Cardinality(O \cup {c}) = IF c \in O THEN Cardinality(O) ELSE Cardinality(O) + 1
          BY <2>1, FS_AddElement
        <5> QED BY <2>1, <5>1
      <4>2. Cardinality(O1) <= Cardinality(O \cup {c}) /\ IsFiniteSet(O1)
        BY <3>3, <4>1, FS_Subset
      <4> QED BY <2>1, <4>1, <4>2, FS_CardinalityType
    <3>6. Cardinality(P1) <= Cardinality(P) - 1
      <4>1. IsFiniteSet(P \ {a}) /\ Cardinality(P \ {a}) = Cardinality(P) - 1
        BY <2>1, <3>4, FS_RemoveElement
      <4> QED BY <3>4, <4>1, FS_Subset
    <3> HIDE DEF O, P, O1, P1
    <3>7. Cardinality(O1) + Cardinality(P1) <= Cardinality(Admin)
      <4>1. Cardinality(O) + Cardinality(P) <= Cardinality(Admin)
        BY DEF O, P
      <4> QED BY <1>1, <2>1, <3>5, <3>6, <4>1
    <3> QED BY <3>7 DEF O1, P1, OpenOf, Passed
  <2>4. CASE \A a \in Admin : ~(IssueInsert(a) /\ admin[a].kind = k)
    <3>1. O1 \subseteq O
      <4>1. ASSUME NEW a \in Admin, IssueInsert(a) PROVE O1 \subseteq O
        <5>1. PICK c \in NextRow : kind' = [kind EXCEPT ![c] = admin[a].kind]
          BY <4>1 DEF IssueInsert
        <5> QED BY <2>4, <4>1, <5>1 DEF IssueInsert, NextRow, OpenOf, Open, Issued, TypeOK, ServerTypeOK
      <4> QED BY <2>2, <4>1
    <3>2. Cardinality(O1) <= Cardinality(O) /\ Cardinality(O1) \in Nat
      BY <2>1, <3>1, FS_Subset, FS_CardinalityType
    <3>3. CASE P1 \subseteq P
      <4>1. Cardinality(P1) <= Cardinality(P)
        BY <2>1, <3>3, FS_Subset
      <4>2. Cardinality(O) + Cardinality(P) <= Cardinality(Admin)
        OBVIOUS
      <4> HIDE DEF O, P, O1, P1
      <4>3. Cardinality(O1) + Cardinality(P1) <= Cardinality(Admin)
        BY <1>1, <2>1, <3>2, <4>1, <4>2
      <4> QED BY <4>3 DEF O1, P1, OpenOf, Passed
    <3>4. CASE ~(P1 \subseteq P)
      <4>1. PICK a \in Admin : a \in P1 /\ a \notin P
        BY <3>4
      <4>2. \A c \in Cmd : Open(c) /\ kind[c] = k => c \in lapsed
        BY <4>1, InsertIsChecked DEF Passed
      <4>3. O1 = {}
        BY <3>1, <4>2 DEF OpenOf
      <4>4. Cardinality(O1) = 0
        BY <4>3, FS_EmptySet
      <4> HIDE DEF O, P, O1, P1
      <4>5. Cardinality(O1) + Cardinality(P1) <= Cardinality(Admin)
        BY <1>1, <2>1, <4>4
      <4> QED BY <4>5 DEF O1, P1, OpenOf, Passed
    <3> QED BY <3>3, <3>4
  <2> QED BY <2>3, <2>4
<1> QED BY <1>2

(* At most as many open, unexpired commands of one kind as requests that   *)
(* can be in progress at once: overlapping requests can all pass the       *)
(* duplicate check of the issue route before any inserts, and one request  *)
(* at a time never gets past it twice.                                     *)
THEOREM DuplicatesNeedOverlap ==
  ASSUME IsFiniteSet(Admin)
  PROVE  Spec => []DuplicatesOverlap
<1>1. Init => DuplicatesOverlap
  <2> SUFFICES ASSUME Init, NEW k \in Kinds
               PROVE  Cardinality(OpenOf(k)) + Cardinality(Passed(k)) <= Cardinality(Admin)
    BY DEF DuplicatesOverlap
  <2>1. admin = [a \in Admin |-> NoAdmin] /\ kind = [c \in Cmd |-> "none"]
    BY DEF Init, ServerInit
  <2>2. OpenOf(k) = {} /\ Passed(k) = {}
    BY <2>1 DEF OpenOf, Passed, NoAdmin, Open, Issued
  <2>3. Cardinality({}) = 0 /\ Cardinality(Admin) \in Nat
    BY FS_EmptySet, FS_CardinalityType
  <2> QED BY <2>2, <2>3
<1>2. ASSUME TypeOK, DuplicatesOverlap, [Next]_vars PROVE DuplicatesOverlap'
  <2>1. CASE Server(ServerNext)
    BY <1>2, <2>1, OverlapStep DEF Server
  <2>2. CASE UNCHANGED vars \/ (Next /\ ~Server(ServerNext))
    <3>1. UNCHANGED <<kind, outcome, lapsed, admin>>
      BY <2>2 DEF Next, AgentStep, SendPoll, ReceiveReply, DiscardReply, PollTimesOut, AgentCrash, ExecuteNext,
         ContinueCommand, SendAck, SendBeat, rowVars, serverVars, vars
    <3> QED BY <1>2, <3>1 DEF DuplicatesOverlap, OpenOf, Passed, Open, Issued
  <2> QED BY <1>2, <2>1, <2>2
<1> QED BY TypesHold, <1>1, <1>2, PTL DEF Spec
=============================================================================
