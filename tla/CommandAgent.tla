----------------------------- MODULE CommandAgent -----------------------------
(***************************************************************************)
(* The agent's half: CommandExecutor, which polls, verifies, executes and  *)
(* acks one command after another, the executed-command log it keeps in    *)
(* SQLite, the pause marker, and what revoke leaves of the state directory.*)
(* The log, the marker and the device key survive a crash; the batch in    *)
(* hand does not.                                                          *)
(*                                                                         *)
(* RemoteCommands joins the actions that send or receive with the requests *)
(* the dashboard sees.                                                     *)
(***************************************************************************)
EXTENDS RemediationKinds

CONSTANTS MaxAgentFaults  \* bound: crashes of the process, and failed writes to the log

ASSUME AgentAssumption == MaxAgentFaults \in Nat

VARIABLES
  up,         \* the process runs
  pc,         \* where CommandExecutor is between two awaits or two durable writes
  batch,      \* the commands of the last poll not yet executed
  cur,        \* the command being executed: its row, what to ack, what follows the ack
  keyOk,      \* the server key on file is the one the dashboard signs with
  enrolled,   \* device.key is in the state directory
  executed,   \* executed_command: row -> "no" or the outcome recorded
  marker,     \* the pause marker is present
  runs,       \* history: row -> how many times its effect happened
  agentFaults

agentVars == <<up, pc, batch, cur, keyOk, enrolled, executed, marker, runs, agentFaults>>

NoCur == [cmd |-> 1, ack |-> "error", then |-> "batch"]

AgentInit ==
  /\ up = TRUE /\ pc = "sleep"
  /\ batch = {} /\ cur = NoCur
  /\ keyOk \in BOOLEAN
  /\ enrolled = TRUE
  /\ executed = [c \in Cmd |-> "no"]
  /\ marker = FALSE
  /\ runs = [c \in Cmd |-> 0]
  /\ agentFaults = 0

(* for cmd in commands: the oldest of those left.                          *)
Oldest(c) == c \in batch /\ \A d \in batch : c <= d

At(p) == up /\ pc = p

(* The poll fails (network error or a status other than 2xx): no commands. *)
PollFails ==
  /\ At("await") /\ pc' = "sleep"
  /\ UNCHANGED <<up, batch, cur, keyOk, enrolled, executed, marker, runs, agentFaults>>

Poll ==
  /\ At("sleep") /\ pc' = "await"
  /\ UNCHANGED <<up, batch, cur, keyOk, enrolled, executed, marker, runs, agentFaults>>

Receive(rows) ==
  /\ At("await") /\ pc' = "batch"
  /\ batch' = rows
  /\ UNCHANGED <<up, cur, keyOk, enrolled, executed, marker, runs, agentFaults>>

BatchDone ==
  /\ At("batch") /\ batch = {}
  /\ pc' = "sleep"
  /\ UNCHANGED <<up, batch, cur, keyOk, enrolled, executed, marker, runs, agentFaults>>

-----------------------------------------------------------------------------
(* execute(command), up to its first await or durable write.               *)

Take(c, p, ack, then) ==
  /\ At("batch") /\ Oldest(c)
  /\ pc' = p
  /\ batch' = batch \ {c}
  /\ cur' = [cmd |-> c, ack |-> ack, then |-> then]

(* No usable server key, so the signature cannot verify: refused with an   *)
(* error ack, and not logged.                                              *)
Reject(c) ==
  /\ ~keyOk
  /\ Take(c, "ack", "error", "batch")
  /\ UNCHANGED <<up, keyOk, enrolled, executed, marker, runs, agentFaults>>

(* Mutant: a command that comes again is refused as a duplicate.           *)
ReplayRefused(c) ==
  /\ keyOk /\ executed[c] # "no"
  /\ Take(c, "ack", "error", "batch")
  /\ UNCHANGED <<up, keyOk, enrolled, executed, marker, runs, agentFaults>>

(* Already in the log: ack what was recorded, skip the effect.             *)
Replay(c) ==
  /\ keyOk /\ executed[c] # "no"
  /\ Take(c, "ack", executed[c], "batch")
  /\ UNCHANGED <<up, keyOk, enrolled, executed, marker, runs, agentFaults>>

New(c, kinds, k) == keyOk /\ executed[c] = "no" /\ k \in kinds

(* Mutant: the ack leaves before the log line is written.                  *)
EffectAckedFirst(c, k) ==
  /\ New(c, EffectFirst, k)
  /\ Take(c, "ack", "result", "batch")
  /\ marker' = CASE k = "pause" -> TRUE [] k = "resume" -> FALSE [] OTHER -> marker
  /\ runs' = [runs EXCEPT ![c] = @ + 1]
  /\ UNCHANGED <<up, keyOk, enrolled, executed, agentFaults>>

(* diagnose, resync, pause, resume: the effect, before anything is logged. *)
Effect(c, k) ==
  /\ New(c, EffectFirst, k)
  /\ Take(c, "record", "result", "batch")
  /\ marker' = CASE k = "pause" -> TRUE [] k = "resume" -> FALSE [] OTHER -> marker
  /\ runs' = [runs EXCEPT ![c] = @ + 1]
  /\ UNCHANGED <<up, keyOk, enrolled, executed, agentFaults>>

(* Mutant: the exception is swallowed.                                     *)
EffectFailsSwallowed(c, k) ==
  /\ New(c, EffectFirst, k)
  /\ Take(c, "record", "result", "batch")
  /\ UNCHANGED <<up, keyOk, enrolled, executed, marker, runs, agentFaults>>

(* The effect raises: the error is what is logged and acked.               *)
EffectFails(c, k) ==
  /\ New(c, EffectFirst, k)
  /\ Take(c, "record", "error", "batch")
  /\ UNCHANGED <<up, keyOk, enrolled, executed, marker, runs, agentFaults>>

Refuse(c, k) ==
  /\ New(c, Unimplemented, k)
  /\ Take(c, "ack", "error", "batch")
  /\ executed' = [executed EXCEPT ![c] = "error"]
  /\ UNCHANGED <<up, keyOk, enrolled, marker, runs, agentFaults>>

(* Mutant: nothing is logged before the effect.                            *)
EffectUnlogged(c, k) ==
  /\ New(c, LogFirst, k)
  /\ Take(c, IF k = "revoke" THEN "wipe" ELSE "ack", "result",
          CASE k = "revoke" -> "exit" [] k = "restart_agent" -> "exec" [] OTHER -> "reboot")
  /\ UNCHANGED <<up, keyOk, enrolled, executed, marker, runs, agentFaults>>

(* Mutant: revoke acks before it wipes, like the restarts.                 *)
LogThenAck(c, k) ==
  /\ New(c, LogFirst, k)
  /\ Take(c, "ack", "result",
          CASE k = "revoke" -> "wipe" [] k = "restart_agent" -> "exec" [] OTHER -> "reboot")
  /\ executed' = [executed EXCEPT ![c] = "result"]
  /\ UNCHANGED <<up, keyOk, enrolled, marker, runs, agentFaults>>

(* revoke, restart_agent, restart_machine: the log line, then the rest.    *)
LogBeforeEffect(c, k) ==
  /\ New(c, LogFirst, k)
  /\ Take(c, IF k = "revoke" THEN "wipe" ELSE "ack", "result",
          CASE k = "revoke" -> "exit" [] k = "restart_agent" -> "exec" [] OTHER -> "reboot")
  /\ executed' = [executed EXCEPT ![c] = "result"]
  /\ UNCHANGED <<up, keyOk, enrolled, marker, runs, agentFaults>>

(* The log line cannot be written: nothing has happened yet, and the       *)
(* exception handler goes on to record and ack an error.                   *)
LogFails(c, k) ==
  /\ New(c, LogFirst \cup Unimplemented, k)
  /\ agentFaults < MaxAgentFaults
  /\ agentFaults' = agentFaults + 1
  /\ Take(c, "record", "error", "batch")
  /\ UNCHANGED <<up, keyOk, enrolled, executed, marker, runs>>

-----------------------------------------------------------------------------
(* execute(command), the rest.                                             *)

(* Mutant: the insert never reaches the table.                             *)
RecordNothing ==
  /\ At("record") /\ pc' = "ack"
  /\ UNCHANGED <<up, batch, cur, keyOk, enrolled, executed, marker, runs, agentFaults>>

(* INSERT OR IGNORE: an outcome already recorded stays.                    *)
Record ==
  /\ At("record") /\ pc' = "ack"
  /\ executed' = [executed EXCEPT ![cur.cmd] = IF @ = "no" THEN cur.ack ELSE @]
  /\ UNCHANGED <<up, batch, cur, keyOk, enrolled, marker, runs, agentFaults>>

(* The write raises.  After a success the handler records an error         *)
(* instead; when that raises too, run_forever drops the rest of the batch. *)
RecordFails ==
  /\ At("record") /\ agentFaults < MaxAgentFaults
  /\ agentFaults' = agentFaults + 1
  /\ \/ cur.ack = "result" /\ cur' = [cur EXCEPT !.ack = "error"] /\ UNCHANGED <<pc, batch>>
     \/ pc' = "sleep" /\ batch' = {} /\ cur' = NoCur
  /\ UNCHANGED <<up, keyOk, enrolled, executed, marker, runs>>

(* _do_revoke: rmtree of the state directory, the log and the key with it. *)
Wipe ==
  /\ At("wipe") /\ pc' = "ack"
  /\ enrolled' = FALSE /\ marker' = FALSE
  /\ executed' = [c \in Cmd |-> "no"]
  /\ runs' = [runs EXCEPT ![cur.cmd] = @ + 1]
  /\ UNCHANGED <<up, batch, cur, keyOk, agentFaults>>

(* The ack leaves; whether it arrives makes no difference to the agent.    *)
Acked ==
  /\ At("ack")
  /\ IF cur.then = "exit" THEN up' = FALSE /\ pc' = "sleep" /\ batch' = {} /\ cur' = NoCur
     ELSE pc' = cur.then /\ UNCHANGED <<up, batch, cur>>
  /\ UNCHANGED <<keyOk, enrolled, executed, marker, runs, agentFaults>>

(* os.execvp replaces the process image: a new executor, nothing in hand.  *)
Exec ==
  /\ At("exec") /\ pc' = "sleep" /\ batch' = {} /\ cur' = NoCur
  /\ runs' = [runs EXCEPT ![cur.cmd] = @ + 1]
  /\ UNCHANGED <<up, keyOk, enrolled, executed, marker, agentFaults>>

(* osascript asks for the reboot and the agent exits.                      *)
Reboot ==
  /\ At("reboot") /\ up' = FALSE /\ pc' = "sleep" /\ batch' = {} /\ cur' = NoCur
  /\ runs' = [runs EXCEPT ![cur.cmd] = @ + 1]
  /\ UNCHANGED <<keyOk, enrolled, executed, marker, agentFaults>>

(* execvp or osascript fails after the success was logged and acked: the   *)
(* exception handler records (without effect) and acks an error.           *)
RestartFails ==
  /\ (At("exec") \/ At("reboot")) /\ pc' = "record"
  /\ cur' = [cur EXCEPT !.ack = "error", !.then = "batch"]
  /\ UNCHANGED <<up, batch, keyOk, enrolled, executed, marker, runs, agentFaults>>

Crash ==
  /\ up /\ agentFaults < MaxAgentFaults
  /\ agentFaults' = agentFaults + 1
  /\ up' = FALSE /\ pc' = "sleep" /\ batch' = {} /\ cur' = NoCur
  /\ UNCHANGED <<keyOk, enrolled, executed, marker, runs>>

(* run() exits at once when device.key is gone.                            *)
Start ==
  /\ ~up /\ enrolled /\ up' = TRUE
  /\ UNCHANGED <<pc, batch, cur, keyOk, enrolled, executed, marker, runs, agentFaults>>

Execute(c, k) ==
  Reject(c) \/ Replay(c) \/ Effect(c, k) \/ EffectFails(c, k) \/ Refuse(c, k)
  \/ LogBeforeEffect(c, k) \/ LogFails(c, k)

Continue == BatchDone \/ Record \/ RecordFails \/ Wipe \/ Exec \/ Reboot \/ RestartFails \/ Start

AgentTypeOK ==
  /\ up \in BOOLEAN /\ enrolled \in BOOLEAN /\ marker \in BOOLEAN
  /\ pc \in {"sleep", "await", "batch", "record", "wipe", "ack", "exec", "reboot"}
  /\ batch \subseteq Cmd
  /\ cur \in [cmd : Cmd, ack : {"result", "error"}, then : {"batch", "exit", "exec", "reboot"}]
  /\ keyOk \in BOOLEAN
  /\ executed \in [Cmd -> {"no", "result", "error"}]
  /\ runs \in [Cmd -> Nat]
  /\ agentFaults \in 0..MaxAgentFaults
=============================================================================
