-------------------------- MODULE RemediationKinds --------------------------
(***************************************************************************)
(* The vocabulary the dashboard and the agent share: the actions a         *)
(* supervisor can issue (the zod enum of POST /api/admin/commands) and how *)
(* CommandExecutor.execute orders the side effect of each against the line *)
(* it writes in its executed-command log.                                  *)
(***************************************************************************)
EXTENDS Naturals

CONSTANTS MaxCommands,   \* bound: rows of pending_command that are ever inserted
          Kinds          \* the remediation actions supervisors issue in this model

(* Rows are numbered in the order of their issued_at column, the order in  *)
(* which GET hands them out.                                               *)
Cmd == 1..MaxCommands

(* Side effect first, log line second, ack last.                           *)
EffectFirst == {"diagnose", "resync", "pause", "resume"}

(* Log line first: the effect ends the process or wipes the log itself.    *)
LogFirst == {"revoke", "restart_agent", "restart_machine"}

(* Of these, the two that are acked as a success before they are tried.    *)
Restarts == {"restart_agent", "restart_machine"}

(* Accepted by the dashboard, answered by the agent with an error.         *)
Unimplemented == {"rotate_key", "upgrade"}

AllKinds == EffectFirst \cup LogFirst \cup Unimplemented

ASSUME CommandsAssumption == MaxCommands \in Nat \ {0} /\ Kinds \subseteq AllKinds
=============================================================================
