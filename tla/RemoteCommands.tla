---------------------------- MODULE RemoteCommands ----------------------------
(***************************************************************************)
(* Remote remediation end to end: supervisors queue commands for a device  *)
(* on the dashboard, the device's agent polls for them, executes them and  *)
(* acks.  Requests and replies can be lost or arbitrarily late (the        *)
(* agent's timeouts say nothing about what the server still does with the  *)
(* request), and the agent can crash between any two of its writes.        *)
(***************************************************************************)
EXTENDS CommandServer, CommandAgent

CONSTANTS MaxAcks,   \* bound: acks in flight at once
          MaxBeats,  \* bound: heartbeats in flight at once
          Prompt     \* a request that is not lost is answered within the agent's timeout

ASSUME ChannelAssumption ==
  /\ MaxAcks \in Nat /\ MaxBeats \in Nat
  /\ Prompt \in BOOLEAN

VARIABLE waiting  \* the GET request whose reply the agent awaits, if any

vars == <<kind, outcome, offered, lapsed, paused, revoked, audit, get, acks, beats,
          admin, serverFaults, losses, up, pc, batch, cur, keyOk, enrolled, executed,
          marker, runs, agentFaults, waiting>>

Init == ServerInit /\ AgentInit /\ waiting = {}

(* The executor polls; its request takes a free slot.                      *)
SendPoll(r) ==
  /\ Poll
  /\ get[r].at = "idle"
  /\ get' = [get EXCEPT ![r] = [at |-> "sent", rows |-> {}, todo |-> {}]]
  /\ waiting' = {r}
  /\ UNCHANGED <<rowVars, deviceVars, audit, acks, beats, admin, serverFaults, losses>>

ReceiveReply(r) ==
  /\ r \in waiting /\ get[r].at = "reply"
  /\ Receive(get[r].rows)
  /\ get' = [get EXCEPT ![r] = NoGet]
  /\ waiting' = {}
  /\ UNCHANGED <<rowVars, deviceVars, audit, acks, beats, admin, serverFaults, losses>>

(* A reply nobody waits for any more.                                      *)
DiscardReply(r) ==
  /\ r \notin waiting /\ get[r].at = "reply"
  /\ get' = [get EXCEPT ![r] = NoGet]
  /\ UNCHANGED <<rowVars, deviceVars, audit, acks, beats, admin, serverFaults, losses,
                 agentVars, waiting>>

(* The client gives up on the request, which lives on at the server.       *)
PollTimesOut ==
  /\ PollFails
  /\ Prompt => \A r \in waiting : get[r].at = "idle"
  /\ waiting' = {}
  /\ UNCHANGED serverVars

AgentCrash == Crash /\ waiting' = {} /\ UNCHANGED serverVars

(* The command carries the action of its row, which never changes.         *)
ExecuteNext(c) == Execute(c, kind[c]) /\ UNCHANGED <<serverVars, waiting>>

ContinueCommand == Continue /\ UNCHANGED <<serverVars, waiting>>

SendAck ==
  /\ Cardinality(acks) < MaxAcks
  /\ Acked
  /\ acks' = acks \cup {[cmd |-> cur.cmd, outcome |-> cur.ack, at |-> "sent"]}
  /\ UNCHANGED <<rowVars, deviceVars, audit, get, beats, admin, serverFaults, losses, waiting>>

(* Mutant: the field is sent with its default.                             *)
SendBeatDefault ==
  /\ up /\ Cardinality(beats) < MaxBeats
  /\ beats' = beats \cup {[paused |-> FALSE, at |-> "sent"]}
  /\ UNCHANGED <<rowVars, deviceVars, audit, get, acks, admin, serverFaults, losses, agentVars, waiting>>

(* HeartbeatEmitter mirrors the pause marker up to the dashboard.          *)
SendBeat ==
  /\ up /\ Cardinality(beats) < MaxBeats
  /\ beats' = beats \cup {[paused |-> marker, at |-> "sent"]}
  /\ UNCHANGED <<rowVars, deviceVars, audit, get, acks, admin, serverFaults, losses, agentVars, waiting>>

AgentStep ==
  \/ \E r \in Req : SendPoll(r) \/ ReceiveReply(r)
  \/ PollTimesOut
  \/ \E c \in Cmd : ExecuteNext(c)
  \/ ContinueCommand \/ SendAck

Server(A) == A /\ UNCHANGED <<agentVars, waiting>>

Next ==
  \/ AgentStep \/ SendBeat \/ AgentCrash
  \/ Server(ServerNext)
  \/ \E r \in Req : DiscardReply(r)

Spec == Init /\ [][Next]_vars

TypeOK == ServerTypeOK /\ AgentTypeOK /\ waiting \subseteq Req

-----------------------------------------------------------------------------
(* Safety.                                                                 *)

(* A command whose effect is announced in the log before it happens        *)
(* (revoke, restart_agent, restart_machine) happens at most once, whatever *)
(* is lost, delivered again or interrupted: no reboot loop.                *)
RestartsAtMostOnce == \A c \in Cmd : kind[c] \in LogFirst => runs[c] <= 1

(* An effect is repeated only when a crash or a failed write came between  *)
(* it and its log line: redelivery alone never repeats one.                *)
RepeatsNeedAFault == \A c \in Cmd : runs[c] <= 1 + agentFaults

(* What the supervisor reads as a success happened on the device, for the  *)
(* commands whose effect comes first.                                      *)
SuccessMeansRun ==
  \A c \in Cmd : Issued(c) /\ outcome[c] = "result" /\ kind[c] \in EffectFirst => runs[c] > 0

(* Neither an ack on its way nor a row reports a success the device would  *)
(* forget: it is in the log, unless revoke has wiped the log, and then no  *)
(* agent is left to execute anything again.                                *)
LoggedSuccess(c) == executed[c] = "result" \/ ~enrolled
SuccessIsLogged ==
  /\ \A m \in acks : m.outcome = "result" => LoggedSuccess(m.cmd)
  /\ \A c \in Cmd : outcome[c] = "result" => LoggedSuccess(c)

(* The premise of both cancel guards: while delivered_at is null the agent *)
(* has never seen the command.                                             *)
UnofferedNeverSeen ==
  \A c \in Cmd : offered[c] = "never" => runs[c] = 0 /\ executed[c] = "no" /\ c \notin batch

(* The duplicate check reads before the insert and nothing serialises the  *)
(* two, so open, unexpired commands of one kind can overlap: one for every *)
(* request in progress at once and never more, since whoever checks while  *)
(* one is open is refused.                                                 *)
OpenOf(k) == {c \in Cmd : Open(c) /\ kind[c] = k /\ c \notin lapsed}
Passed(k) == {a \in Admin : admin[a].at = "insert" /\ admin[a].kind = k}
DuplicatesOverlap ==
  \A k \in Kinds : Cardinality(OpenOf(k)) + Cardinality(Passed(k)) <= Cardinality(Admin)

(* The dashboard calls a device revoked, or a revoke done, when the device *)
(* has wiped itself.  Only a crash or a failed write of the agent is an    *)
(* excuse: the log line of a revoke precedes the wipe, so that after a     *)
(* crash between the two the replay announces a wipe that never happened.  *)
RevokedIsWiped ==
  (revoked \/ \E c \in Cmd : kind[c] = "revoke" /\ outcome[c] = "result")
    => ~enrolled \/ agentFaults > 0

(* The end-to-end promise: seen as commands, effects and answers only, no  *)
(* loss, redelivery or crash lets anything happen that was not issued, or  *)
(* lets a success be announced of what did not happen or an answer change. *)
Ledger == INSTANCE CommandLedger WITH wiped <- ~enrolled
KeepsLedger == Ledger!Spec

-----------------------------------------------------------------------------
(* Fairness and liveness.                                                  *)

(* The agent's loops go on, and whatever started the agent starts it again *)
(* after a crash; handlers that have begun go on; the redelivery window    *)
(* ends.  Nothing makes a row lapse: what closes it must not count on that. *)
(* Liveness is checked with CountLosses: in the end nothing more is lost.  *)
Fairness ==
  /\ WF_vars(AgentStep) /\ WF_vars(SendBeat)
  /\ \A r \in Req : WF_vars(Server(GetStep(r))) /\ WF_vars(DiscardReply(r))
  /\ \A a \in Admin : WF_vars(Server(AdminFinish(a)))
  /\ WF_vars(Server(AckStep))
  /\ \A b \in Beat : WF_vars(Server(BeatAuth(b) \/ BeatRow(b)))
  /\ \A c \in Cmd : WF_vars(Server(WindowPasses(c)))

FairSpec == Spec /\ Fairness

(* The device takes no part any more: it has wiped itself, or the dashboard *)
(* refuses its requests as those of a revoked device.                      *)
Ended == ~enrolled \/ revoked

(* Every command closes: it is acked, or, once it has lapsed, the reaper   *)
(* of some later poll closes it.  The reaper runs in no other request, so  *)
(* what is open when the polls end stays open: a revoke whose one ack is   *)
(* lost after the wipe, or whatever else was queued behind it.             *)
EveryCommandCloses == \A c \in Cmd : Issued(c) ~> outcome[c] # "open" \/ Ended

(* Redelivery and re-acking suffice to close a command that time does not: *)
(* unless it lapses, or the device has ended, it ends with the agent's     *)
(* answer, or canceled.                                                    *)
EveryCommandAnswered ==
  \A c \in Cmd :
    Issued(c) ~> outcome[c] \in {"result", "error", "canceled"} \/ c \in lapsed \/ Ended

(* device.paused follows the pause marker in the end, whatever order acks  *)
(* and heartbeats arrived in.                                              *)
PausedConverges == <>[](paused = marker)
=============================================================================
