-------------------------------- MODULE Fleet --------------------------------
(***************************************************************************)
(* What the dashboard says about a device, and what is true of it: the     *)
(* agent's heartbeats, the device row they write, computeHealth over the   *)
(* row, and the pages that show its verdict.  Time is counted in steps of  *)
(* no particular length; the server's clock is the right one and the       *)
(* agent's is Ahead of it.                                                 *)
(***************************************************************************)
EXTENDS Integers, FiniteSets

CONSTANTS
  HeartbeatWarn, HeartbeatCrit,  \* HEARTBEAT_WARN_SECONDS, HEARTBEAT_CRIT_SECONDS
  SilentWarn, SilentCrit,        \* SILENT_WARN_SECONDS, SILENT_CRIT_SECONDS
  Freshness,                     \* FRESHNESS_WINDOW_SECONDS of the request signature
  Ahead,                         \* the agent's clock minus the server's
  Queues,                        \* depths the outbound queue has in this model
  MaxTime, MaxBeats, MaxStarts   \* bounds: time, heartbeats in flight, agent starts

ASSUME FleetAssumption ==
  /\ {HeartbeatWarn, HeartbeatCrit, SilentWarn, SilentCrit, Freshness, Ahead} \subseteq Nat
  /\ {MaxTime, MaxBeats, MaxStarts} \subseteq Nat
  /\ HeartbeatWarn < HeartbeatCrit /\ SilentWarn < SilentCrit
  /\ {"short"} \subseteq Queues /\ Queues \subseteq {"short", "long", "full"}

VARIABLES
  now,
  alive,     \* the agent process runs
  seenAlive, \* history: the last time it did
  starts,
  marker,    \* the pump's pause marker
  queue,     \* depth of the outbound queue: "short", "long" (1000 or more), "full" (5000 or more)
  beats,     \* heartbeats sent and not yet stored: [at, time, paused, queue]
  row,       \* the device row, as far as computeHealth reads it
  flowing    \* history: a message of the device was archived in this step of time

vars == <<now, alive, seenAlive, starts, marker, queue, beats, row, flowing>>

Null   == -1
Levels == {"healthy", "warning", "silent", "critical", "paused", "revoked"}

-----------------------------------------------------------------------------
(* computeHealth: every check that fails bumps the level, which never goes *)
(* down.                                                                   *)

Age(t) == IF now > t THEN now - t ELSE 0

BeatStale(d, limit) == d.beat # Null /\ Age(d.beat) > limit
Captured(d) == IF d.captured = Null THEN Age(d.enrolled) ELSE Age(d.captured)

(* A heartbeat came lately, and the enrollment is not recent.  A row read  *)
(* without enrolled_at counts as enrolled now.                             *)
Listening(d) ==
  /\ d.beat # Null /\ Age(d.beat) <= HeartbeatWarn
  /\ d.enrolled # Null /\ Age(d.enrolled) > SilentWarn

Critical(d) ==
  \/ d.beat = Null \/ BeatStale(d, HeartbeatCrit)
  \/ d.disk = "crit" \/ d.messagesApp = "stopped" \/ d.fda = "denied"
  \/ d.queue = "full" \/ d.skew = "crit"
  \/ Listening(d) /\ Captured(d) > SilentCrit

Silent(d) == Listening(d) /\ Captured(d) > SilentWarn

Warning(d) ==
  \/ BeatStale(d, HeartbeatWarn)
  \/ d.disk = "warn" \/ d.queue = "long" \/ d.skew = "warn"

(* Mutant: a device that never sent a heartbeat bumps nothing.             *)
ComputeHealthNoNever(d) ==
  CASE d.revoked                          -> "revoked"
    [] ~d.revoked /\ d.paused             -> "paused"
    [] ~d.revoked /\ ~d.paused /\ d.beat # Null /\ Critical(d) -> "critical"
    [] OTHER -> "healthy"

(* Mutant: paused is looked at before revoked.                             *)
ComputeHealthPausedFirst(d) ==
  IF d.paused THEN "paused" ELSE IF d.revoked THEN "revoked"
  ELSE IF Critical(d) THEN "critical" ELSE IF Silent(d) THEN "silent"
  ELSE IF Warning(d) THEN "warning" ELSE "healthy"

ComputeHealth(d) ==
  IF d.revoked THEN "revoked" ELSE IF d.paused THEN "paused"
  ELSE IF Critical(d) THEN "critical" ELSE IF Silent(d) THEN "silent"
  ELSE IF Warning(d) THEN "warning" ELSE "healthy"

(* The fleet list and the device page select every column; the employee    *)
(* page leaves out enrolled_at and last_captured_at.                       *)
DevicesPage  == ComputeHealth(row)
EmployeePage == ComputeHealth([row EXCEPT !.enrolled = Null, !.captured = Null])

-----------------------------------------------------------------------------
(* Enrollment wrote the row.  Nothing in the repository reports disk,      *)
(* Messages.app or Full Disk Access to it.                                 *)
Init ==
  /\ now = 0 /\ alive = TRUE /\ seenAlive = 0 /\ starts = 0
  /\ marker = FALSE /\ queue = "short" /\ beats = {} /\ flowing = FALSE
  /\ row = [beat |-> Null, captured |-> Null, enrolled |-> 0, paused |-> FALSE,
            revoked |-> FALSE, queue |-> "short", skew |-> "ok", disk |-> "unknown",
            messagesApp |-> "unknown", fda |-> "unknown"]

Tick ==
  /\ now < MaxTime /\ now' = now + 1
  /\ seenAlive' = IF alive THEN now + 1 ELSE seenAlive
  /\ flowing' = FALSE
  /\ UNCHANGED <<alive, starts, marker, queue, beats, row>>

Die ==
  /\ alive /\ alive' = FALSE
  /\ UNCHANGED <<now, seenAlive, starts, marker, queue, beats, row, flowing>>

Start ==
  /\ ~alive /\ ~row.revoked /\ starts < MaxStarts
  /\ alive' = TRUE /\ seenAlive' = now /\ starts' = starts + 1
  /\ UNCHANGED <<now, marker, queue, beats, row, flowing>>

(* Remediation: the pause marker comes and goes; a revoked device is wiped *)
(* and its row says so.                                                    *)
PauseOrResume ==
  /\ alive /\ marker' = ~marker
  /\ UNCHANGED <<now, alive, seenAlive, starts, queue, beats, row, flowing>>

Revoke ==
  /\ alive /\ alive' = FALSE
  /\ row' = [row EXCEPT !.revoked = TRUE, !.paused = FALSE]
  /\ UNCHANGED <<now, seenAlive, starts, marker, queue, beats, flowing>>

(* A message goes through to the archive; or the queue grows or shrinks.   *)
Archive ==
  /\ alive /\ flowing' = TRUE
  /\ UNCHANGED <<now, alive, seenAlive, starts, marker, queue, beats, row>>

QueueMoves ==
  /\ alive /\ queue' \in Queues
  /\ UNCHANGED <<now, alive, seenAlive, starts, marker, beats, row, flowing>>

(* build_heartbeat: last_captured_at is always None, clock_skew_ms always  *)
(* 0, status always "healthy".                                             *)
SendBeat ==
  /\ alive /\ Cardinality(beats) < MaxBeats
  /\ beats' = beats \cup {[at |-> "sent", time |-> now + Ahead, paused |-> marker, queue |-> queue]}
  /\ UNCHANGED <<now, alive, seenAlive, starts, marker, queue, row, flowing>>

Fresh(t) == now - t <= Freshness /\ t - now <= Freshness

(* authenticateAgentRequest: 401 for a stale signature, 403 for a revoked  *)
(* device.                                                                 *)
BeatAuth(b) ==
  /\ b.at = "sent"
  /\ beats' = (beats \ {b}) \cup
              IF Fresh(b.time) /\ ~row.revoked THEN {[b EXCEPT !.at = "row"]} ELSE {}
  /\ UNCHANGED <<now, alive, seenAlive, starts, marker, queue, row, flowing>>

(* Mutant: the time the heartbeat arrived is stored.                       *)
BeatRowArrival(b) ==
  /\ b.at = "row" /\ beats' = beats \ {b}
  /\ row' = [row EXCEPT !.beat = now, !.captured = Null, !.paused = b.paused,
                        !.queue = b.queue, !.skew = "ok"]
  /\ UNCHANGED <<now, alive, seenAlive, starts, marker, queue, flowing>>

(* The UPDATE stores what the heartbeat says, whatever the row holds: a    *)
(* late heartbeat overwrites a later one.                                  *)
BeatRow(b) ==
  /\ b.at = "row" /\ beats' = beats \ {b}
  /\ row' = [row EXCEPT !.beat = b.time, !.captured = Null, !.paused = b.paused,
                        !.queue = b.queue, !.skew = "ok"]
  /\ UNCHANGED <<now, alive, seenAlive, starts, marker, queue, flowing>>

BeatLost(b) ==
  /\ beats' = beats \ {b}
  /\ UNCHANGED <<now, alive, seenAlive, starts, marker, queue, row, flowing>>

Next ==
  \/ Tick \/ Die \/ Start \/ PauseOrResume \/ Revoke \/ Archive \/ QueueMoves
  \/ SendBeat \/ \E b \in beats : BeatAuth(b) \/ BeatRow(b) \/ BeatLost(b)

Spec == Init /\ [][Next]_vars

Beat == [at : {"sent", "row"}, time : 0..(MaxTime + Ahead), paused : BOOLEAN, queue : Queues]

TypeOK ==
  /\ now \in 0..MaxTime /\ seenAlive \in 0..MaxTime /\ alive \in BOOLEAN
  /\ starts \in 0..MaxStarts /\ marker \in BOOLEAN /\ queue \in Queues
  /\ beats \subseteq Beat
  /\ row \in [beat : -1..(MaxTime + Ahead), captured : {Null}, enrolled : {0},
              paused : BOOLEAN, revoked : BOOLEAN, queue : Queues, skew : {"ok"},
              disk : {"unknown"}, messagesApp : {"unknown"}, fda : {"unknown"}]
  /\ flowing \in BOOLEAN

-----------------------------------------------------------------------------
(* Properties.                                                             *)

(* A device shown as healthy had a living agent at most HeartbeatWarn ago, *)
(* as its own clock has it: late and reordered heartbeats do not keep the  *)
(* dead alive.                                                             *)
HealthyMeansAlive ==
  DevicesPage = "healthy" => now - seenAlive <= HeartbeatWarn + Ahead

(* An agent that died goes critical in the end, on every page, unless the  *)
(* row says paused or revoked: those hide its silence.                     *)
DeadIsCritical ==
  now - seenAlive > HeartbeatCrit + Ahead =>
    {DevicesPage, EmployeePage} \subseteq {"critical", "paused", "revoked"}

(* No heartbeat of before, still on its way, brings a revoked device back. *)
RevokedStays == [][DevicesPage = "revoked" => DevicesPage' = "revoked"]_vars

(* What a comment says and the code does not keep.  Silent means "agent    *)
(* heartbeats freshly but has captured no messages for a long time".       *)
SilentMeansQuiet ==
  DevicesPage = "silent" => ~flowing

(* "less severe than an unresponsive agent": as time goes by and no word   *)
(* comes from the device, its level does not get better.                   *)
Rank(l) == CASE l = "critical" -> 3 [] l = "silent" -> 2 [] l = "warning" -> 1 [] OTHER -> 0
TimeDoesNotHeal == [][Tick => Rank(DevicesPage') >= Rank(DevicesPage)]_vars
=============================================================================
