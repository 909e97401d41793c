---------------------------- MODULE CommandServer ----------------------------
(***************************************************************************)
(* The dashboard's half of remote remediation: the pending_command rows of *)
(* one device, that device's row, and the route handlers that read and     *)
(* write them.  A handler is a sequence of database calls with an await    *)
(* between every two, so each call is an action of its own and handlers    *)
(* interleave between them.                                                *)
(*                                                                         *)
(* Time is abstract: WindowPasses makes the last offer of a row older than *)
(* REDELIVERY_WINDOW_SECONDS, Lapse moves now() past its expires_at.  A    *)
(* handler takes its time once, at its start; a row that changes age while *)
(* the handler runs is here a row that changed just before or just after.  *)
(***************************************************************************)
EXTENDS RemediationKinds, FiniteSets

CONSTANTS Req,             \* slots for GET /v1/commands requests in flight
          Admin,           \* supervisors' requests that can be in progress at once
          MaxServerFaults, \* bound: database errors a handler ignores, or its death half way
          BatchLimit,      \* rows one GET returns at most (.limit(20))
          MaxLosses,       \* bound: lost requests and replies, if CountLosses
          CountLosses,     \* FALSE: any number of them may be lost
          RowsLapse        \* whether a row's 24 hours can pass in this model

ASSUME ServerAssumption ==
  /\ MaxServerFaults \in Nat
  /\ BatchLimit \in Nat \ {0}
  /\ MaxLosses \in Nat
  /\ CountLosses \in BOOLEAN /\ RowsLapse \in BOOLEAN

VARIABLES
  kind,     \* row -> its action, "none" until it is inserted
  outcome,  \* row -> "open" (completed_at null) or why it was completed
  offered,  \* row -> "never" (delivered_at null), else the age of last_delivered_at
  lapsed,   \* the rows whose expires_at has passed
  paused,   \* device.paused
  revoked,  \* device.revoked_at is set
  audit,    \* audit_log: <<action, row>>
  get,      \* the GET requests being handled
  acks,     \* the POST /v1/commands requests sent and not yet finished
  beats,    \* the POST /v1/heartbeat requests sent and not yet finished
  admin,    \* the supervisors' requests being handled
  serverFaults, losses

rowVars    == <<kind, outcome, offered, lapsed>>
deviceVars == <<paused, revoked>>
serverVars == <<kind, outcome, offered, lapsed, paused, revoked, audit, get,
                acks, beats, admin, serverFaults, losses>>

Outcomes == {"open", "result", "error", "expired", "canceled"}
Ack      == [cmd : Cmd, outcome : {"result", "error"}, at : {"sent", "row", "device"}]
Beat     == [paused : BOOLEAN, at : {"sent", "row"}]
NoGet    == [at |-> "idle", rows |-> {}, todo |-> {}]
NoAdmin  == [at |-> "idle", kind |-> "none", cmd |-> 1]

ServerInit ==
  /\ kind = [c \in Cmd |-> "none"]
  /\ outcome = [c \in Cmd |-> "open"]
  /\ offered = [c \in Cmd |-> "never"]
  /\ lapsed = {}
  /\ paused = FALSE /\ revoked = FALSE
  /\ audit = {}
  /\ get = [r \in Req |-> NoGet]
  /\ acks = {} /\ beats = {}
  /\ admin = [a \in Admin |-> NoAdmin]
  /\ serverFaults = 0 /\ losses = 0

Issued(c) == kind[c] # "none"
Open(c)   == Issued(c) /\ outcome[c] = "open"

Lose == IF CountLosses THEN losses < MaxLosses /\ losses' = losses + 1 ELSE UNCHANGED losses

(* Time passes.  No handler asks how old a completed row is, so only open  *)
(* rows age.                                                               *)
Lapse(c) ==
  /\ RowsLapse /\ Open(c) /\ c \notin lapsed
  /\ lapsed' = lapsed \cup {c}
  /\ UNCHANGED <<kind, outcome, offered, paused, revoked, audit, get, acks,
                 beats, admin, serverFaults, losses>>

WindowPasses(c) ==
  /\ Open(c) /\ offered[c] = "recent"
  /\ offered' = [offered EXCEPT ![c] = "stale"]
  /\ UNCHANGED <<kind, outcome, lapsed, paused, revoked, audit, get, acks,
                 beats, admin, serverFaults, losses>>

-----------------------------------------------------------------------------
(* GET /v1/commands.                                                       *)

(* authenticateAgentRequest: a revoked device is refused with 403, which   *)
(* the agent treats like an empty list.                                    *)
GetAuth(r) ==
  /\ get[r].at = "sent"
  /\ get' = [get EXCEPT ![r].at = IF revoked THEN "reply" ELSE "reap"]
  /\ UNCHANGED <<rowVars, deviceVars, audit, acks, beats, admin, serverFaults, losses>>

(* Mutant: only rows that were never delivered are reaped.                 *)
GetReapUndelivered(r) ==
  /\ get[r].at = "reap"
  /\ outcome' = [c \in Cmd |-> IF Open(c) /\ c \in lapsed /\ offered[c] = "never"
                              THEN "expired" ELSE outcome[c]]
  /\ get' = [get EXCEPT ![r].at = "select"]
  /\ UNCHANGED <<kind, offered, lapsed, deviceVars, audit, acks, beats, admin, serverFaults, losses>>

(* The lazy reaper: one UPDATE over the device's expired open rows.        *)
GetReap(r) ==
  /\ get[r].at = "reap"
  /\ outcome' = [c \in Cmd |-> IF Open(c) /\ c \in lapsed THEN "expired" ELSE outcome[c]]
  /\ get' = [get EXCEPT ![r].at = "select"]
  /\ UNCHANGED <<kind, offered, lapsed, deviceVars, audit, acks, beats, admin, serverFaults, losses>>

(* Mutant: a row is offered once, however long ago.                        *)
DueOnce(c) == Open(c) /\ c \notin lapsed /\ offered[c] = "never"

Due(c) == Open(c) /\ c \notin lapsed /\ offered[c] \in {"never", "stale"}

(* The first BatchLimit due rows by issued_at; the reply lists them in that *)
(* order, so its set of rows says it all.                                  *)
Selected ==
  {c \in Cmd : Due(c) /\ Cardinality({d \in Cmd : Due(d) /\ d < c}) < BatchLimit}

(* Mutant: the rows are sent without a stamp.                              *)
GetSelectUnstamped(r) ==
  /\ get[r].at = "select"
  /\ get' = [get EXCEPT ![r] = [at |-> "reply", rows |-> Selected, todo |-> {}]]
  /\ UNCHANGED <<rowVars, deviceVars, audit, acks, beats, admin, serverFaults, losses>>

GetSelect(r) ==
  /\ get[r].at = "select"
  /\ get' = [get EXCEPT ![r] = [at |-> IF Selected = {} THEN "reply" ELSE "stamp",
                                rows |-> Selected, todo |-> Selected]]
  /\ UNCHANGED <<rowVars, deviceVars, audit, acks, beats, admin, serverFaults, losses>>

StampDone(r, c) ==
  get' = [get EXCEPT ![r].todo = @ \ {c},
                     ![r].at = IF get[r].todo = {c} THEN "reply" ELSE "stamp"]

(* Promise.all: one UPDATE per selected row, in any order, by command_id   *)
(* alone.  Nothing looks again at completed_at.                            *)
GetStamp(r, c) ==
  /\ get[r].at = "stamp" /\ c \in get[r].todo
  /\ offered' = [offered EXCEPT ![c] = "recent"]
  /\ StampDone(r, c)
  /\ UNCHANGED <<kind, outcome, lapsed, deviceVars, audit, acks, beats, admin, serverFaults, losses>>

(* The stamp fails; its error is not looked at and the row is sent anyway. *)
GetStampFails(r, c) ==
  /\ get[r].at = "stamp" /\ c \in get[r].todo
  /\ serverFaults < MaxServerFaults
  /\ serverFaults' = serverFaults + 1
  /\ StampDone(r, c)
  /\ UNCHANGED <<rowVars, deviceVars, audit, acks, beats, admin, losses>>

(* The request, its handler or its reply is lost.                          *)
GetLost(r) ==
  /\ Lose
  /\ get[r].at # "idle"
  /\ get' = [get EXCEPT ![r] = NoGet]
  /\ UNCHANGED <<rowVars, deviceVars, audit, acks, beats, admin, serverFaults>>

-----------------------------------------------------------------------------
(* POST /v1/commands: an ack.                                              *)

AckAuth(m) ==
  /\ m \in acks /\ m.at = "sent"
  /\ acks' = (acks \ {m}) \cup (IF revoked THEN {} ELSE {[m EXCEPT !.at = "row"]})
  /\ UNCHANGED <<rowVars, deviceVars, audit, get, beats, admin, serverFaults, losses>>

(* The row is completed whatever it held: neither completed_at nor         *)
(* expires_at guards the UPDATE.                                           *)
AckRow(m) ==
  /\ m \in acks /\ m.at = "row"
  /\ outcome' = [outcome EXCEPT ![m.cmd] = m.outcome]
  /\ acks' = (acks \ {m}) \cup
             (IF m.outcome = "result" /\ kind[m.cmd] \in {"pause", "resume", "revoke"}
              THEN {[m EXCEPT !.at = "device"]} ELSE {})
  /\ UNCHANGED <<kind, offered, lapsed, deviceVars, audit, get, beats, admin, serverFaults, losses>>

(* The second UPDATE copies a successful action to the device row.         *)
AckDevice(m) ==
  /\ m \in acks /\ m.at = "device"
  /\ paused' = (kind[m.cmd] = "pause")
  /\ revoked' = (revoked \/ kind[m.cmd] = "revoke")
  /\ acks' = acks \ {m}
  /\ UNCHANGED <<rowVars, audit, get, beats, admin, serverFaults, losses>>

AckLost(m) ==
  /\ Lose
  /\ m \in acks /\ m.at # "device"
  /\ acks' = acks \ {m}
  /\ UNCHANGED <<rowVars, deviceVars, audit, get, beats, admin, serverFaults>>

(* The second UPDATE fails unnoticed, or the handler dies before it.       *)
AckDeviceFails(m) ==
  /\ m \in acks /\ m.at = "device"
  /\ serverFaults < MaxServerFaults
  /\ serverFaults' = serverFaults + 1
  /\ acks' = acks \ {m}
  /\ UNCHANGED <<rowVars, deviceVars, audit, get, beats, admin, losses>>

-----------------------------------------------------------------------------
(* POST /v1/heartbeat, as far as it concerns commands: device.paused.      *)

BeatAuth(b) ==
  /\ b \in beats /\ b.at = "sent"
  /\ beats' = (beats \ {b}) \cup (IF revoked THEN {} ELSE {[b EXCEPT !.at = "row"]})
  /\ UNCHANGED <<rowVars, deviceVars, audit, get, acks, admin, serverFaults, losses>>

BeatRow(b) ==
  /\ b \in beats /\ b.at = "row"
  /\ paused' = b.paused
  /\ beats' = beats \ {b}
  /\ UNCHANGED <<rowVars, revoked, audit, get, acks, admin, serverFaults, losses>>

BeatLost(b) ==
  /\ Lose
  /\ b \in beats
  /\ beats' = beats \ {b}
  /\ UNCHANGED <<rowVars, deviceVars, audit, get, acks, admin, serverFaults>>

-----------------------------------------------------------------------------
(* POST /api/admin/commands: a supervisor issues a command.                *)

AdminStep(a, at, k, c) == admin' = [admin EXCEPT ![a] = [at |-> at, kind |-> k, cmd |-> c]]

(* Rows are inserted in order; MaxCommands bounds them.                    *)
NextRow == {c \in Cmd : ~Issued(c) /\ \A d \in 1..(c - 1) : Issued(d)}

(* The device lookup: on a revoked device only revoke may be issued.       *)
IssueLookup(a, k) ==
  /\ admin[a].at = "idle" /\ NextRow # {}
  /\ revoked => k = "revoke"
  /\ AdminStep(a, "check", k, 1)
  /\ UNCHANGED <<rowVars, deviceVars, audit, get, acks, beats, serverFaults, losses>>

(* The duplicate check: 409 if an open, unexpired row of the same action.  *)
IssueCheck(a) ==
  LET k == admin[a].kind
      conflict == \E c \in Cmd : Open(c) /\ kind[c] = k /\ c \notin lapsed
  IN  /\ admin[a].at = "check"
      /\ IF conflict THEN AdminStep(a, "idle", "none", 1) ELSE AdminStep(a, "insert", k, 1)
      /\ UNCHANGED <<rowVars, deviceVars, audit, get, acks, beats, serverFaults, losses>>

IssueInsert(a) ==
  /\ admin[a].at = "insert"
  /\ \E c \in NextRow :
       /\ kind' = [kind EXCEPT ![c] = admin[a].kind]
       /\ AdminStep(a, "audit", admin[a].kind, c)
  /\ UNCHANGED <<outcome, offered, lapsed, deviceVars, audit, get, acks, beats, serverFaults, losses>>

IssueAudit(a) ==
  /\ admin[a].at = "audit"
  /\ audit' = audit \cup {<<"command_issued", admin[a].cmd>>}
  /\ admin' = [admin EXCEPT ![a] = NoAdmin]
  /\ UNCHANGED <<rowVars, deviceVars, get, acks, beats, serverFaults, losses>>

(* recordAudit ignores the insert's error, or the handler dies before it.  *)
IssueAuditFails(a) ==
  /\ admin[a].at = "audit"
  /\ serverFaults < MaxServerFaults
  /\ serverFaults' = serverFaults + 1
  /\ admin' = [admin EXCEPT ![a] = NoAdmin]
  /\ UNCHANGED <<rowVars, deviceVars, audit, get, acks, beats, losses>>

-----------------------------------------------------------------------------
(* DELETE /api/admin/commands/:commandId: a supervisor cancels a command.  *)

CancelLookup(a, c) ==
  /\ admin[a].at = "idle"
  /\ Open(c) /\ offered[c] = "never"
  /\ AdminStep(a, "cancel", kind[c], c)
  /\ UNCHANGED <<rowVars, deviceVars, audit, get, acks, beats, serverFaults, losses>>

(* The UPDATE repeats both guards; the handler does not ask whether it     *)
(* changed a row before it records the cancellation and answers 204.       *)
CancelUpdate(a) ==
  LET c == admin[a].cmd
  IN  /\ admin[a].at = "cancel"
      /\ outcome' = IF Open(c) /\ offered[c] = "never"
                    THEN [outcome EXCEPT ![c] = "canceled"] ELSE outcome
      /\ audit' = audit \cup {<<"command_canceled", c>>}
      /\ admin' = [admin EXCEPT ![a] = NoAdmin]
      /\ UNCHANGED <<kind, offered, lapsed, deviceVars, get, acks, beats, serverFaults, losses>>

-----------------------------------------------------------------------------
GetStep(r) ==
  \/ GetAuth(r) \/ GetReap(r) \/ GetSelect(r)
  \/ \E c \in Cmd : GetStamp(r, c) \/ GetStampFails(r, c)

AckStep == \E m \in acks : AckAuth(m) \/ AckRow(m) \/ AckDevice(m) \/ AckDeviceFails(m)

BeatStep == \E b \in beats : BeatAuth(b) \/ BeatRow(b)

Loss ==
  \/ \E r \in Req : GetLost(r)
  \/ \E m \in acks : AckLost(m)
  \/ \E b \in beats : BeatLost(b)

AdminBegin(a) ==
  \/ \E k \in Kinds : IssueLookup(a, k)
  \/ \E c \in Cmd : CancelLookup(a, c)

AdminFinish(a) ==
  IssueCheck(a) \/ IssueInsert(a) \/ IssueAudit(a) \/ IssueAuditFails(a) \/ CancelUpdate(a)

Clock == \E c \in Cmd : Lapse(c) \/ WindowPasses(c)

ServerNext ==
  \/ \E r \in Req : GetStep(r)
  \/ AckStep \/ BeatStep \/ Loss
  \/ \E a \in Admin : AdminBegin(a) \/ AdminFinish(a)
  \/ Clock

ServerTypeOK ==
  /\ kind \in [Cmd -> Kinds \cup {"none"}]
  /\ outcome \in [Cmd -> Outcomes]
  /\ offered \in [Cmd -> {"never", "recent", "stale"}]
  /\ lapsed \subseteq Cmd
  /\ paused \in BOOLEAN /\ revoked \in BOOLEAN
  /\ audit \subseteq {"command_issued", "command_canceled"} \X Cmd
  /\ get \in [Req -> [at : {"idle", "sent", "reap", "select", "stamp", "reply"},
                      rows : SUBSET Cmd, todo : SUBSET Cmd]]
  /\ acks \subseteq Ack /\ beats \subseteq Beat
  /\ admin \in [Admin -> [at : {"idle", "check", "insert", "audit", "cancel"},
                          kind : Kinds \cup {"none"}, cmd : Cmd]]
  /\ serverFaults \in 0..MaxServerFaults
  /\ losses \in 0..MaxLosses
=============================================================================
