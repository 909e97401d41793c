----------------------------- MODULE CaptureAgent -----------------------------
(***************************************************************************)
(* The capture side of the agent: the pump, which copies new chat.db rows  *)
(* into a local queue and advances a checkpoint, and the forwarder, which  *)
(* drains the queue to the dashboard.  Both run in one asyncio thread and  *)
(* share one SQLite file in autocommit mode.  The pump's tick has no       *)
(* await, so only a crash or an exception can cut it; the forwarder awaits *)
(* the answer to each batch, and everything else runs meanwhile.  A write  *)
(* of the database may raise (it is full, or locked), which the two loops  *)
(* log and survive.                                                        *)
(*                                                                         *)
(* The row number stands for the rank of a ROWID; a message that is in two *)
(* chats is two rows of the join the pump reads, both with its ROWID.      *)
(* What the commands do to this state (pause, resume, resync, revoke) is   *)
(* here too: each is one synchronous call between two awaits.              *)
(***************************************************************************)
EXTENDS Naturals, FiniteSets

CONSTANTS MaxRow,       \* bound: rows that ever appear in chat.db
          BatchSize,    \* rows per tick and messages per POST (cfg.batch_size)
          MaxAttempts,  \* _MAX_ATTEMPTS
          MaxTicks,     \* bound: ticks that put something in the queue
          MaxFailures,  \* bound: crashes, and failed writes of the agent's database
          MaxResyncs,   \* bound: resync commands
          MaxForm,      \* bound: releases of the agent that decode rows differently
          MayRevoke,    \* whether the device can be revoked in this model
          MayPause,     \* whether the device can be paused in this model
          Shared,       \* rows of messages that are in two chats
          Meta,         \* rows with item_type # 0, skipped by normalize_row
          Poison        \* rows on which normalize_row raises

Row == 1..MaxRow

ASSUME CaptureAssumption ==
  /\ MaxRow \in Nat /\ BatchSize \in Nat \ {0} /\ MaxAttempts \in Nat
  /\ MaxTicks \in Nat /\ MaxFailures \in Nat /\ MaxResyncs \in Nat /\ MaxForm \in Nat \ {0}
  /\ MayRevoke \in BOOLEAN /\ MayPause \in BOOLEAN
  /\ Shared \subseteq Row /\ Meta \subseteq Row /\ Poison \subseteq Row
  /\ Meta \cap Poison = {}

VARIABLES
  chat,        \* rows of chat.db so far
  running,     \* the process runs
  wiped,       \* revoke has removed the state directory
  paused,      \* the pause marker is present
  checkpoint,  \* imessage_last_rowid
  outbound,    \* the outbound table
  ticks,       \* ticks that enqueued; orders the ids of outbound with the row
  sending,     \* the queued messages of the batch whose answer is awaited
  decoder,     \* the release that decodes the rows
  reached,     \* history: the highest checkpoint so far, but for what lost power undid
  dropped,     \* history: the rows of messages the forwarder gave up
  failures, resyncs

captureVars == <<chat, running, wiped, paused, checkpoint, outbound, ticks, sending,
                 decoder, reached, dropped, failures, resyncs>>

Form == 1..MaxForm
Copy == 1..2   \* which of its chats a queued message names
Queued == [tick : Nat, row : Row, conv : Copy, form : Form, attempts : 0..MaxAttempts,
           ready : BOOLEAN]

CaptureInit ==
  /\ chat = 0 /\ running = TRUE /\ wiped = FALSE /\ paused = FALSE
  /\ checkpoint = 0 /\ outbound = {} /\ ticks = 0 /\ sending = {}
  /\ decoder = 1 /\ reached = 0 /\ dropped = {}
  /\ failures = 0 /\ resyncs = 0

(* Messages.app commits another row.                                       *)
NewRow ==
  /\ chat < MaxRow /\ chat' = chat + 1
  /\ UNCHANGED <<running, wiped, paused, checkpoint, outbound, ticks, sending,
                 decoder, reached, dropped, failures, resyncs>>

-----------------------------------------------------------------------------
(* CapturePump.tick.                                                       *)

(* message LEFT JOIN chat_message_join: a row for each chat of a message.  *)
Joined == (Row \X {1}) \cup (Shared \X {2})

Precedes(j, k) == j[1] < k[1] \/ (j[1] = k[1] /\ j[2] < k[2])

(* The rows of S before j.                                                 *)
Before(S, j) == {k \in S : Precedes(k, j)}

(* fetch_since: the joined rows after the checkpoint, BatchSize of them,   *)
(* so that LIMIT may cut a message in two chats in half.                   *)
New == {j \in Joined : checkpoint < j[1] /\ j[1] <= chat}
Fetched == {j \in New : Cardinality(Before(New, j)) < BatchSize}

(* Those on which normalize_row raises.                                    *)
Raising == {j \in Fetched : j[1] \in Poison}

Fresh(j) == [tick |-> ticks, row |-> j[1], conv |-> j[2], form |-> decoder, attempts |-> 0,
             ready |-> TRUE]

(* Mutant: system rows are queued too.                                     *)
EnqueueAll(rows) == outbound \cup {Fresh(j) : j \in rows}

(* enqueue(): new rows of outbound for some of the fetched ones.           *)
Enqueue(rows) == outbound \cup {Fresh(j) : j \in {k \in rows : k[1] \notin Meta}}

Ticking == running /\ ~paused /\ Fetched # {} /\ ticks < MaxTicks

(* Mutant: set_last_rowid is not called.                                   *)
TickForgets ==
  /\ Ticking /\ Raising = {}
  /\ outbound' = Enqueue(Fetched)
  /\ ticks' = ticks + 1
  /\ UNCHANGED <<chat, running, wiped, paused, checkpoint, reached, sending, decoder,
                 dropped, failures, resyncs>>

(* set_last_rowid: the checkpoint moves to the highest fetched ROWID.      *)
Advance ==
  /\ \E j \in Fetched : (\A k \in Fetched : k[1] <= j[1]) /\ checkpoint' = j[1]
  /\ reached' = IF checkpoint' > reached THEN checkpoint' ELSE reached

(* All fetched rows are queued, then the checkpoint moves past the last.   *)
Tick ==
  /\ Ticking /\ Raising = {}
  /\ outbound' = Enqueue(Fetched)
  /\ Advance
  /\ ticks' = ticks + 1
  /\ UNCHANGED <<chat, running, wiped, paused, sending, decoder, dropped, failures, resyncs>>

(* Mutant: the row that raises is skipped by moving the checkpoint past it.*)
TickRaisesPastRow ==
  /\ Ticking
  /\ \E j \in Raising :
       /\ Before(Fetched, j) \cap Raising = {}
       /\ outbound' = Enqueue(Before(Fetched, j))
       /\ checkpoint' = j[1]
  /\ reached' = IF checkpoint' > reached THEN checkpoint' ELSE reached
  /\ ticks' = ticks + 1
  /\ UNCHANGED <<chat, running, wiped, paused, sending, decoder, dropped, failures, resyncs>>

(* normalize_row raises: what came before stays queued, the checkpoint     *)
(* stays where it was, and run_forever tries again at the next poll.       *)
TickRaises ==
  /\ Ticking
  /\ \E j \in Raising :
       /\ Before(Fetched, j) \cap Raising = {}
       /\ outbound' = Enqueue(Before(Fetched, j))
  /\ ticks' = ticks + 1
  /\ UNCHANGED <<chat, running, wiped, paused, checkpoint, sending, decoder, reached,
                 dropped, failures, resyncs>>

(* The process ends, and with it the wait for an answer.                   *)
Dies == running' = FALSE /\ sending' = {}

(* Mutant: the checkpoint is written first, the process dies after it.     *)
TickCutCheckpointFirst ==
  /\ Ticking /\ failures < MaxFailures
  /\ Advance /\ Dies
  /\ ticks' = ticks + 1 /\ failures' = failures + 1
  /\ UNCHANGED <<chat, wiped, paused, outbound, decoder, dropped, resyncs>>

(* The tick ends after one of its autocommitted writes to the queue.       *)
TickBreaksOff ==
  /\ Ticking /\ failures < MaxFailures
  /\ \E j \in Fetched :
       /\ (Before(Fetched, j) \cup {j}) \cap Raising = {}
       /\ outbound' = Enqueue(Before(Fetched, j) \cup {j})
  /\ ticks' = ticks + 1 /\ failures' = failures + 1
  /\ UNCHANGED <<chat, wiped, paused, checkpoint, decoder, reached, dropped, resyncs>>

(* The process dies there.                                                 *)
TickCut == TickBreaksOff /\ Dies

(* The next write raises, and run_forever tries again at the next poll.    *)
TickFails == TickBreaksOff /\ UNCHANGED <<running, sending>>

-----------------------------------------------------------------------------
(* Forwarder.drain_once, up to the POST and after its answer.              *)

(* The order of their ids.                                                 *)
Earlier(o, p) ==
  o.tick < p.tick \/ (o.tick = p.tick /\ Precedes(<<o.row, o.conv>>, <<p.row, p.conv>>))

(* Mutant: a message that failed once is not tried again.                  *)
PeekFresh == {o \in outbound : o.ready /\ o.attempts = 0}

(* peek_ready: the first BatchSize of those whose next_try_at has come.    *)
Peek ==
  LET due == {o \in outbound : o.ready}
  IN  {o \in due : Cardinality({p \in due : Earlier(p, o)}) < BatchSize}

DrainStart ==
  /\ running /\ sending = {} /\ Peek # {}
  /\ sending' = Peek
  /\ UNCHANGED <<chat, running, wiped, paused, checkpoint, outbound, ticks, decoder,
                 reached, dropped, failures, resyncs>>

(* 2xx: mark_sent, one DELETE.                                             *)
DrainSent ==
  /\ running /\ sending # {}
  /\ outbound' = outbound \ sending
  /\ sending' = {}
  /\ UNCHANGED <<chat, running, wiped, paused, checkpoint, ticks, decoder, reached,
                 dropped, failures, resyncs>>

(* The DELETE raises: the batch stays as it was, and is sent again.        *)
DrainSentFails ==
  /\ running /\ sending # {} /\ failures < MaxFailures
  /\ sending' = {} /\ failures' = failures + 1
  /\ UNCHANGED <<chat, running, wiped, paused, checkpoint, outbound, ticks, decoder, reached,
                 dropped, resyncs>>

(* mark_failed: one more attempt (counted up to MaxAttempts, which is all  *)
(* the code compares it with), and a wait before the next.                 *)
Failed(o) == [o EXCEPT !.attempts = IF @ < MaxAttempts THEN @ + 1 ELSE @, !.ready = FALSE]

(* A network error, a timeout or a 5xx: every message of S waits.          *)
Postponed(S) == (outbound \ S) \cup {Failed(o) : o \in S}

(* 4xx: the messages of S that have used up their attempts are dropped,    *)
(* the others wait.                                                        *)
GivenUp(S) == {o \in S : o.attempts >= MaxAttempts}
Refused(S) == (outbound \ S) \cup {Failed(o) : o \in S \ GivenUp(S)}
Drops(S)   == {o.row : o \in GivenUp(S)}

DrainFailed ==
  /\ running /\ sending # {}
  /\ outbound' = Postponed(sending)
  /\ sending' = {}
  /\ UNCHANGED <<chat, running, wiped, paused, checkpoint, ticks, decoder, reached,
                 dropped, failures, resyncs>>

DrainRejected ==
  /\ running /\ sending # {}
  /\ outbound' = Refused(sending)
  /\ dropped' = dropped \cup Drops(sending)
  /\ sending' = {}
  /\ UNCHANGED <<chat, running, wiped, paused, checkpoint, ticks, decoder, reached,
                 failures, resyncs>>

(* Both loops write message by message; between two of the writes, when    *)
(* the first messages of the batch have been dealt with, the process can   *)
(* die or the next write can raise.                                        *)
Firsts == {S \in SUBSET sending : \A o \in S, p \in sending : Earlier(p, o) => p \in S}

DrainFailedCut ==
  /\ running /\ sending # {} /\ failures < MaxFailures
  /\ \E S \in Firsts : outbound' = Postponed(S)
  /\ running' \in BOOLEAN /\ sending' = {} /\ failures' = failures + 1
  /\ UNCHANGED <<chat, wiped, paused, checkpoint, ticks, decoder, reached, dropped, resyncs>>

DrainRejectedCut ==
  /\ running /\ sending # {} /\ failures < MaxFailures
  /\ \E S \in Firsts : outbound' = Refused(S) /\ dropped' = dropped \cup Drops(S)
  /\ running' \in BOOLEAN /\ sending' = {} /\ failures' = failures + 1
  /\ UNCHANGED <<chat, wiped, paused, checkpoint, ticks, decoder, reached, resyncs>>

(* next_try_at comes.                                                      *)
BackoffOver(o) ==
  /\ o \in outbound /\ ~o.ready
  /\ outbound' = (outbound \ {o}) \cup {[o EXCEPT !.ready = TRUE]}
  /\ UNCHANGED <<chat, running, wiped, paused, checkpoint, ticks, sending, decoder,
                 reached, dropped, failures, resyncs>>

-----------------------------------------------------------------------------
(* What the remediation commands and the operating system do.              *)

Pause ==
  /\ MayPause /\ running /\ paused' = TRUE
  /\ UNCHANGED <<chat, running, wiped, checkpoint, outbound, ticks, sending, decoder,
                 reached, dropped, failures, resyncs>>

Resume ==
  /\ MayPause /\ running /\ paused' = FALSE
  /\ UNCHANGED <<chat, running, wiped, checkpoint, outbound, ticks, sending, decoder,
                 reached, dropped, failures, resyncs>>

(* Mutant: resync empties the queue as well.                               *)
ResyncPurges ==
  /\ running /\ resyncs < MaxResyncs
  /\ checkpoint' = 0 /\ resyncs' = resyncs + 1
  /\ outbound' = {}
  /\ UNCHANGED <<chat, running, wiped, paused, ticks, sending, decoder, reached, dropped, failures>>

Resync ==
  /\ running /\ resyncs < MaxResyncs
  /\ checkpoint' = 0 /\ resyncs' = resyncs + 1
  /\ UNCHANGED <<chat, running, wiped, paused, outbound, ticks, sending, decoder,
                 reached, dropped, failures>>

(* rmtree of the state directory, then the process ends for good.          *)
Revoke ==
  /\ MayRevoke /\ running
  /\ wiped' = TRUE /\ paused' = FALSE /\ Dies
  /\ checkpoint' = 0 /\ outbound' = {}
  /\ UNCHANGED <<chat, ticks, decoder, reached, dropped, failures, resyncs>>

Crash ==
  /\ running /\ failures < MaxFailures
  /\ Dies /\ failures' = failures + 1
  /\ UNCHANGED <<chat, wiped, paused, checkpoint, outbound, ticks, decoder, reached,
                 dropped, resyncs>>

(* The agent is started again, by the same release or by the next one.     *)
Start ==
  /\ ~running /\ ~wiped /\ running' = TRUE
  /\ decoder' \in {decoder} \cup {d \in {decoder + 1} : d <= MaxForm}
  /\ UNCHANGED <<chat, wiped, paused, checkpoint, outbound, ticks, sending, reached,
                 dropped, failures, resyncs>>

CaptureTypeOK ==
  /\ chat \in 0..MaxRow
  /\ running \in BOOLEAN /\ wiped \in BOOLEAN /\ paused \in BOOLEAN
  /\ checkpoint \in 0..MaxRow /\ reached \in 0..MaxRow
  /\ outbound \subseteq Queued /\ sending \subseteq Queued
  /\ ticks \in Nat
  /\ decoder \in Form
  /\ dropped \subseteq Row
  /\ failures \in 0..MaxFailures /\ resyncs \in 0..MaxResyncs
=============================================================================
