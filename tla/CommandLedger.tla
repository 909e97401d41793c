---------------------------- MODULE CommandLedger ----------------------------
(***************************************************************************)
(* What remote remediation promises about the commands of one device,      *)
(* without polls, acks, logs, losses and crashes.  RemoteCommands          *)
(* implements it.  A command that was canceled or has expired can still    *)
(* happen and be answered: the code promises nothing else of it.           *)
(***************************************************************************)
EXTENDS RemediationKinds

VARIABLES kind,     \* command -> its action, "none" before it is issued
          outcome,  \* command -> "open", or why it is closed
          runs,     \* command -> how many times its effect happened
          wiped     \* revoke has happened

ledger == <<kind, outcome, runs, wiped>>

Init ==
  /\ kind = [c \in Cmd |-> "none"] /\ outcome = [c \in Cmd |-> "open"]
  /\ runs = [c \in Cmd |-> 0] /\ wiped = FALSE

Issued(c) == kind[c] # "none"

(* Commands are issued in order, and keep their action.                    *)
Issue(c) ==
  /\ ~Issued(c) /\ \A d \in 1..(c - 1) : Issued(d)
  /\ \E k \in Kinds : kind' = [kind EXCEPT ![c] = k]
  /\ UNCHANGED <<outcome, runs, wiped>>

(* Nothing happens that was not asked for, nor on a device that has been   *)
(* wiped; what ends or wipes the agent happens once.                       *)
Happen(c) ==
  /\ kind[c] \in EffectFirst \/ (kind[c] \in LogFirst /\ runs[c] = 0)
  /\ ~wiped /\ wiped' = (kind[c] = "revoke")
  /\ runs' = [runs EXCEPT ![c] = @ + 1]
  /\ UNCHANGED <<kind, outcome>>

(* The dashboard closes on its own only what is open.                      *)
Close(S, how) ==
  /\ \A c \in S : Issued(c) /\ outcome[c] = "open"
  /\ outcome' = [c \in Cmd |-> IF c \in S THEN how ELSE outcome[c]]
  /\ UNCHANGED <<kind, runs, wiped>>

(* A success is announced of what happened, or of what is logged as done   *)
(* before it can happen.                                                   *)
Announced(c) == kind[c] \in LogFirst \/ (kind[c] \in EffectFirst /\ runs[c] > 0)

(* The agent's answer is final: it never turns from error to success or    *)
(* back, but for restarts, whose failure comes after the success.          *)
Answer(c, a) ==
  /\ Issued(c) /\ (a = "result" => Announced(c))
  /\ kind[c] \notin Restarts => outcome[c] \notin {"result", "error"} \ {a}
  /\ outcome' = [outcome EXCEPT ![c] = a]
  /\ UNCHANGED <<kind, runs, wiped>>

Next ==
  \/ \E c \in Cmd : Issue(c) \/ Happen(c) \/ Answer(c, "result") \/ Answer(c, "error")
  \/ \E S \in SUBSET Cmd : Close(S, "expired") \/ Close(S, "canceled")

Spec == Init /\ [][Next]_ledger
=============================================================================
