# ArchiveGLP in TLA+

ArchiveGLP archives the iMessages of a firm's advisers for compliance. An agent
on each Mac reads `chat.db`, queues what it finds, and forwards it, signed, to
the dashboard (Next.js over Supabase), which stores it and lets supervisors
remediate a device remotely. A second, AWS-hosted ingest path (SQS, an
archiving Lambda, S3 Object Lock) lives under `src/apps/api`.

This directory holds TLA+ modules of the parts where steps interleave, fail and
repeat, the TLC instances that check them, and the TLAPS proofs of what holds
for every size. `PROJECT.json` maps each definition to the source lines it models.

* [1. The system](#1-the-system)
* [2. Modules](#2-modules)
* [3. Runs](#3-runs)
* [4. Proofs](#4-proofs)
* [5. Where code and comments disagree](#5-where-code-and-comments-disagree)
* [6. Abstractions and what is not modelled](#6-abstractions-and-what-is-not-modelled)
* [7. What is left](#7-what-is-left)

## 1. The system

| Component | State | Operations | Hard behaviour |
|---|---|---|---|
| Remote remediation, dashboard (`app/api/v1/commands`, `app/api/admin/commands`, `lib/audit.ts`) | `pending_command` rows, `device.paused`, `device.revoked_at`, `audit_log` | GET: authenticate, reap, select, stamp each row; POST ack: authenticate, complete the row, update the device; issue: look up, check for a duplicate, insert, audit; cancel: look up, update, audit | every handler is several database calls with an await between them and no transaction; errors of most calls are ignored; redelivery after 90 s, expiry after 24 h |
| Remote remediation, agent (`commands.py`, `checkpoint.py`) | executed-command log in SQLite, pause marker, state directory, `device.key` | poll, verify, execute, log, ack; nine actions, three of which end the process or wipe the state | crash between effect and log line; lost replies and acks; failed restarts |
| Console (`session.ts`, `step-up.ts`, `RemediationPanel.tsx`, `CancelCommandButton.tsx`) | two signed cookies in the browser, the panel of each tab | sign in, click, give the password, post, retry once, cancel | cookies expire, are replaced by another person's and arrive late while a request is on its way |
| Heartbeat (`heartbeat.py`, `v1/heartbeat`) | telemetry columns of `device`, `device.paused` | send every 60 s, overwrite the row | its `paused` races the acks'; reordering; skewed clocks |
| Device health (`health.ts`, the device pages) | none: a function of the row and the time | `computeHealth` | precedence of states, ages, columns a page does not select |
| Capture pump (`pump.py`, `capture.py`, `normalize.py`, `checkpoint.py`) | `imessage_last_rowid`, the `outbound` table | tick: fetch, normalise, enqueue each, advance the checkpoint | autocommitted writes cut by a crash or a failed write, or undone by a loss of power; a row that raises; a message in two chats |
| Forwarder (`forwarder.py`, `checkpoint.py`) | `attempts` and `next_try_at` of `outbound` | peek a batch, POST, delete or postpone or drop | pump, resync and revoke run during its await; timeouts with the request still alive |
| Dashboard ingest (`v1/ingest`) | `message_meta` | authenticate, validate the envelope, upsert with `ignoreDuplicates` | duplicates, reordering, partial refusal |
| Enrollment (`v1/enroll`, `pending-enrollments`, `enroll.py`, `keystore.py`, `server_key.py`) | pairing codes, device rows; key file, two server-key files, `enrolled` marker | look up, check, insert, consume, audit, answer; make a key, post, write three files | no transaction; overlapping and repeated requests; lost answers; a crash between any two files |
| Agent authentication (`lib/agent-auth.ts`, signing) | `device` | freshness, revocation, Ed25519 signature | revocation read before it is used |
| Agent process (`__main__.py`) | key files | start, four loops in one thread, exit | restart with whatever is on disk |
| AWS enrollment (`api/src/enroll.ts`, `admin.ts`, `authorizer.ts`) | pairing codes, device rows, attestations in S3 | one transaction with a locked row, then a put | overlapping transactions; a failed put |
| AWS ingest and archiver (`api/src/ingest.ts`, `archiver.ts`, `infra/lib`) | SQS FIFO queue, S3, Postgres, dead-letter queue | batch to SQS; archive one record; partial batch answers | at-least-once delivery; S3 written before the row; lost answers to a commit |
| Migrations (`lib/migrations.ts`, `migrate.ts`, `lib/db.ts`) | `schema_migrations`, the schema | read what is applied, apply what is missing, one transaction each | overlapping deployments of different releases, repeated invocations |

How they interact. The four loops of the agent (pump, forwarder, heartbeat,
commands) share one event loop, one SQLite file and one state directory; they
meet the dashboard only through HTTP requests the agent starts. The dashboard's
handlers share nothing but the database. A command crosses both directions: a
supervisor's click becomes a row behind two cookie checks, a poll hands it out,
the agent executes it, and a POST acks it. `device.paused` is written by acks and
by heartbeats, and read by the health verdict. On AWS, enrollment, authorizer and
archiver share the device table, and ingest and archiver share a queue.

What makes them correct, in words: an action that ends or wipes the agent
happens at most once; a success shown to a supervisor happened and is in the
log; a device that is called revoked has wiped itself, unless a crash or a failed write kept it from that; every command
closes as long as the device is neither wiped nor revoked; a destructive command has a person behind it who gave
the password; the dashboard ends up showing the agent's pause state, and never
shows a dead agent as healthy; a registered device holds its key and a consumed
code names a device; no message is lost between `chat.db` and the archive, and
what is archived is never changed; every migration takes effect once, in order.
The lines at which each of these can go wrong are listed under "hazards".

## 2. Modules

| Module | Models | Notes |
|---|---|---|
| `RemediationKinds` | the action enum and the order effect / log line of each action | shared vocabulary |
| `CommandServer` | the dashboard's handlers for commands and for the heartbeat's `paused`, one action per database call | `get`, `acks`, `beats`, `admin` are handlers in progress: the local variables and the next call to make |
| `CommandAgent` | `CommandExecutor`, one action per step between two awaits or durable writes | `pc` is where it is, `cur` what it will ack and do next; `executed`, `marker`, `enrolled` survive a crash |
| `RemoteCommands` | both, joined by requests and replies; the specification, its properties and fairness | `waiting` is the poll the agent still waits for; a request it gave up lives on at the server |
| `CommandLedger` | what remote remediation promises about commands, effects and answers, without polls, acks, logs, losses and crashes | implemented by `RemoteCommands` (`KeepsLedger`) |
| `RemoteCommandsClaims` | what comments and migrations say of commands and the code does not keep | `CanceledNeverRuns` has a run; the others are statements section 5 refers to |
| `Console` | cookies, panels, the step-up handler, and the guards in front of `CommandServer`'s issue and cancel | extends `CommandServer`: the rest of each handler is that module's |
| `CaptureAgent` | pump, queue, forwarder, and what pause, resume, resync and revoke do to them | `sending` is the batch the forwarder awaits; the tick is atomic but for crashes, failed writes and exceptions, since it has no await; `conv` is the chat an entry names |
| `CapturePipeline` | the agent with `POST /v1/ingest` and the network | `post` is the awaited request, `late` the abandoned ones, `disk` what of the database a loss of power would leave |
| `WriteOnceArchive` | what an archive promises: messages are stored once and never altered | implemented by `CapturePipeline` (`WriteOnce`) and by `AwsStack` (`IndexWriteOnce`) |
| `Enrollment` | `POST /v1/enroll` statement by statement, the enroll command file by file, `run`, and the wipe | `requests` are the POSTs, those nobody waits for included |
| `Fleet` | heartbeats, the row they write, `computeHealth`, and the two projections of the row the pages show | time is explicit; the agent's clock is `Ahead` of the server's |
| `AwsEnroll` | the admin and enroll Lambdas | a transaction is its first, locking, statement and its commit |
| `AwsArchive` | agent queue, ingest Lambda, FIFO group, archiver, S3, `message_meta` | `at`, the time of a POST, tells two records of one message apart; records that come back take their old place in the FIFO group, so its order is always that of sending and the queue is a set |
| `AwsStack` | both, with the authorizer between them and the archiver's placeholder device | they share `device` |
| `Migrations` | the runner, the Lambda that calls it, CloudFormation's repetitions | a transaction's effects appear at its commit |
| `*_proofs` (eight) | theorems about `RemoteCommands` (two modules: the second is `CommandLedger_proofs`), `CapturePipeline`, `Enrollment`, `Fleet`, `Console`, `AwsStack`, `Migrations` | section 4 |
| `MCRemoteCommands`, `MCCapturePipeline`, `MCConsole` | instances for TLC | `Enrollment`, `Fleet`, `AwsStack` and `Migrations` need no more than a configuration |

Operators named `...First`, `...Undelivered`, `...Forgets` and so on that carry a
"Mutant" comment are wrong versions of the definition that follows them. Each
property of each passing run is broken by at least one (`PROJECT.json`,
"mutants"), so none of them holds for lack of anything to check.

### From code to actions: remediation

| Code | Action |
|---|---|
| `GET /v1/commands`: authenticate / reap / select / `Promise.all` of stamps | `GetAuth` / `GetReap` / `GetSelect` / `GetStamp` per row, in any order; `GetStampFails` when the ignored error is set |
| `POST /v1/commands`: authenticate / complete / copy to device | `AckAuth` / `AckRow` / `AckDevice`, `AckDeviceFails` |
| `POST /v1/heartbeat` | `BeatAuth`, `BeatRow` |
| issue: device lookup / duplicate check / insert / `recordAudit` | `IssueLookup` / `IssueCheck` / `IssueInsert` / `IssueAudit`, `IssueAuditFails` |
| cancel: lookup / guarded update and audit | `CancelLookup` / `CancelUpdate` |
| `CommandExecutor.poll` | `SendPoll`, `ReceiveReply`, `PollTimesOut` |
| `execute`: signature refused / already logged / effect / log line | `Reject` / `Replay` / `Effect`, `EffectFails`, `Record` / `LogBeforeEffect`, `Refuse` |
| `_do_revoke`, `_do_restart_agent`, `_do_restart_machine` | `Wipe`, `Exec`, `Reboot`, `RestartFails` |
| `ack` | `SendAck` |
| failed SQLite writes, crash, relaunch | `LogFails`, `RecordFails`, `AgentCrash`, `Start` |

### From code to actions: console

| Code | Action |
|---|---|
| `loginAction`, `verifySession`, `verifyStepUp` | `Login`, `Verify`, `VerifyStepUp` |
| `RemediationPanel`: button, confirmation and prompt, `fetch` of step-up and of the command, its answers | `Click`, `AnswerPrompt`, `StepUpReply`, `PostCommand`, `HandleRefuses`, `Answered`, `NetworkError` |
| `POST /api/admin/step-up` | `StepUpHandler` |
| `POST /api/admin/commands`, checks / rest | `HandlePost`, `HandleRefuses`, `HandleFails` / `HandlerGoesOn` |
| `CancelCommandButton` and `DELETE /api/admin/commands/[id]` | `HandleCancel` / `HandlerGoesOn` |

### From code to actions: capture

| Code | Action |
|---|---|
| `CapturePump.tick` | `Tick`; `TickRaises` when `normalize_row` raises half way; `TickCut` and `TickFails` when the process dies or a write raises half way |
| `Forwarder.drain_once` up to the POST | `SendBatch` (`Peek` is `peek_ready`) |
| after it: 2xx / network error, timeout, 5xx / 4xx | `BatchAccepted` / `BatchFailed`, `BatchTimesOut` / `BatchRejected`; `BatchStays` when the delete raises; `BatchFailedCut`, `BatchRejectedCut` when the process dies, or a write raises, between two of the per-message writes |
| `fetch_since`: the join and its `LIMIT` | `Joined`, `Fetched` |
| `POST /v1/ingest` | `IngestAccepts`, `IngestRejects`, `IngestFails`, and `LateIngest` for a request nobody waits for |
| `_do_pause`, `_do_resume`, `_do_resync`, `_do_revoke` | `Pause`, `Resume`, `Resync`, `Revoke` |
| `journal_mode=WAL`, `synchronous=NORMAL` | `Synced`, at any time after a commit; `PowerLost`, which brings back queue and checkpoint as they were then |

### From code to actions: enrollment and health

| Code | Action |
|---|---|
| `POST /api/admin/pending-enrollments`, `expires_at` | `IssueCode`, `Expire` |
| `POST /v1/enroll`: code lookup / device check / upserts and insert / consume and audit / answer | `Lookup` / `CheckDevice` / `InsertDevice` / `Consume`, whose error is ignored / `Respond`; `RequestLost` when the function dies or a message is lost |
| `load_or_create`, `enroll`, `persist_server_key`, marker | `MakeKey` (or a file that was created and never written), `SendEnroll`, `Accepted`, `Refused`, `WriteSpki`, `WriteId`, `WriteMarker`; `EnrollEnds` for a timeout or crash |
| `run`; `_do_revoke` and its ack | `Run`; `Revoke` |
| `build_heartbeat`, `send_heartbeat` | `SendBeat`, `BeatLost` |
| `POST /v1/heartbeat`: freshness and revocation / update | `BeatAuth` / `BeatRow` |
| `computeHealth`; its callers | `ComputeHealth`, `Critical`, `Silent`, `Warning`; `DevicesPage`, `EmployeePage` |

### From code to actions: AWS

| Code | Action |
|---|---|
| `admin.ts` | `IssueCode`, `Expire` |
| `enroll.ts`: `SELECT ... FOR UPDATE` / rest of the transaction / attestation | `EnrollLookup` / `EnrollCommit`, `EnrollRollback` / `StoreAttestation`, `StoreFails` |
| `authorizer.ts` before `ingest.ts` | `AuthorizedPost` |
| `ingest.ts`: `SendMessageBatch` / 202 / an error | `SendEntry` / `Accept` / `IngestFails` |
| `archiver.ts`: one record | `Put`, `Index` (with `Placeholder`), `RecordFails` |
| its event source: delivery / `batchItemFailures` / timeout | `Receive` / `Report` / `WorkerDies` (`Settled` is what SQS does with the answer) |
| `migrations.ts`: read / `withTx` per migration | `ReadApplied` / `BeginTx`, `Record`, `Commit`, `CommitUnknown`, `Fail` |
| `migrate.ts` and the custom resource | `Invoke`, `InvokeDelete`, `Finish` |

## 3. Runs

| Run | Shows |
|---|---|
| `OneCommand` | One command of every kind of execution, two overlapping polls, two acks in flight, unlimited loss, one crash or failed write. Actions that end the agent run at most once (`RestartsAtMostOnce`); any other effect repeats only if a fault came between it and its log line (`RepeatsNeedAFault`); an `ok` on a row means the effect happened (`SuccessMeansRun`) and that the device will not forget it (`SuccessIsLogged`); a row whose `delivered_at` is null was never seen by the agent, the premise of both cancel guards (`UnofferedNeverSeen`); a device called revoked has wiped itself unless a fault kept it from that (`RevokedIsWiped`); and the whole is a `CommandLedger` (`KeepsLedger`) |
| `Closing` | A pause, a restart or a revoke, through a lost message, a crash and a failed database call: unless the device was wiped or revoked, the row is closed (`EveryCommandCloses`), and by an answer unless it lapsed or was canceled (`EveryCommandAnswered`). Redelivery and replayed acks suffice; after a wipe there is no poll left to redeliver or reap anything (section 5) |
| `Converging` | `PausedConverges` for a pause and a resume whose acks and heartbeats overtake each other; deadlock is checked |
| `Consoling` | Two people at one browser, with cookies that expire, are replaced and arrive late: `DestructiveIsVouched`, and the panel's prompting ends (`EveryClickSettles`) |
| `Capture` | `NothingSkipped`, `ArchiveIsCaptured`, `AwaitedBatch`, `RepeatsNeedACause` and the refinement `WriteOnce`, with a crash or a failed write anywhere, a resync, a revoke, a release that decodes differently, a row that is no message, a message in two chats, a malformed one, refusals, unlimited outages and a late request |
| `CaptureLive` | `EveryRowArchived` through a crash, a failed write or a loss of power, an outage and pauses, for the rows before one that raises; `NothingSkipped` with such a row, and with a queue and a checkpoint that may go back |
| `Enrolling` | One device, two codes, two keys, overlapping and repeated requests, a crash between any two files or statements, a revocation: `RegisteredKeyIsHeld`, `MarkerMeansReady`, `ConsumedIsEnrolled`, `OneCodePerDevice` |
| `Watching` | Heartbeats late, lost and reordered, from a clock that is ahead: `HealthyMeansAlive`, `DeadIsCritical`, `RevokedStays` |
| `Aws` | Two devices and one code; two messages, two POSTs and records that may be received twice: `CodePairsOne`, `AttestedIsEnrolled`, `UsedCodeEnrolled`, `IndexedIsStored`, `OneObjectPerPost`, `AcceptedIsKept`, the refinement `IndexWriteOnce`, and `EveryRecordSettles` |
| `Migrating` | Three invocations, two releases, failures at any statement, lost answers to a commit: `AppliedOnce`, `InOrder`, `SuccessMeansMigrated` (of the handler's own answer), and `EveryRunReports` although runners wait for each other's inserts |
| `CancelRace`, `SilentAlarm` | counterexamples, section 5 |

`TypeOK` is checked in `Aws`, and proved for every module.

### Bounds, and why they are enough

* Commands: 1 or 2. Rows do not refer to each other; they meet in the batch, in
  the duplicate check and in `device.paused`, and two rows suffice for each.
  `Closing` has one of each of the three kinds that end differently: with an effect before its
  log line, with a restart, with a wipe.
* Polls (`Req`): 2 slots in `OneCommand`, since a poll given up by the agent can
  overlap the next; 1 elsewhere, where the agent polls again only once the slot
  is free.
* Acks: 2 in `OneCommand`: an old ack beside its replay. Heartbeats: one in
  flight there; `HeartbeatEmitter` awaits each before the next. `Watching` has two,
  one of them abandoned at a timeout.
* Supervisors (`Admin`): one. What requests of several can do to each other at the duplicate
  check is proved for any number of them (`DuplicatesNeedOverlap`).
* Faults: one crash or failed write per run. `RepeatsNeedAFault` states the
  dependence on their number. Losses: unlimited in `OneCommand`; one in
  `Closing` (an unlimited number defeats any retry).
* Capture: three rows, the second a message in two chats and so two rows of the join, with batches
  of two: in `Capture` the first tick ends between the two copies, or takes the message whole if it starts after the first row. `MaxFailures = 1` is a crash, a failed write or a
  loss of power; `MaxAttempts = 1` gives a first failure and a
  last. `MaxTicks` bounds only ticks that find rows.
* `RowsLapse`, `MayRevoke`, `MayPause`, `MayRefuse`, `MayLosePower` switch parts of the
  environment off, in runs about something else.
* Console: one tab, because tabs meet only in the cookies, which `Login` changes at
  any time; two people, the one who gave the password and another. `StepUpTtl = 0`,
  `SessionTtl = 1` and `MaxTime = 2` let each cookie be valid, expire, and expire before
  the other. `Kinds` has one destructive action and one that is not.
* Enrollment: two keys tell a registered key from a regenerated one. Devices share
  nothing but codes; what depends on that is proved for any number of them.
* Fleet: thresholds 1, 2, 3, 4 are in the order of the real ones and all are
  crossed within `MaxTime = 5`; `Ahead = 1` is enough to make a heartbeat look
  younger than it is, `Freshness = 1` to refuse one. No queue depth "full" in
  `Watching`: it only adds another reason to be critical.
* AWS: two messages are an order and a batch; `BatchLimit = 2` gives batches of one
  and of two; `MaxReceives = 2` a redelivery and the dead-letter queue; `MaxForm = 2` a
  POST and its retry. SQS may refuse any entry. The messages carry one of the two device ids and
  either device may sign for them.
* Migrations: two migrations are an order; of three runners two can race while a
  third repeats the one that failed.

### Fairness, and what justifies it

* `WF_vars(AgentStep)`, `WF_vars(SendBeat)`: the agent's loops are `while True`
  with a bounded sleep, and every request has a timeout. `ContinueCommand`
  includes `Start`: launchd runs the agent again after a crash.
* Handlers that began go on; requests on their way arrive or are lost. Loss
  itself is not fair, and with `CountLosses` it ends.
* `WindowPasses` is fair: redelivery becomes due. `Lapse` is not: nothing is closed
  only because a day is over. Supervisors are not fair: nothing makes them
  issue or cancel anything, but a request of theirs that began is finished.
* `Prompt` in the liveness runs: the 15 s timeout is longer than a handler takes,
  if nothing is lost. Without it agent and server could miss each other for
  ever.
* Console: a panel's step is fair, which includes that whoever sees a prompt answers
  or dismisses it; the two handlers are fair as above. Time and sign-ins are not.
* Capture: `SF_vars(Pump)` because pauses disable the pump over and over (a tick
  needs no luck beyond being unpaused at its poll); `SF` for resume because
  the device is resumed in the end, an assumption about supervisors; weak
  fairness for everything else. Outages are finite in `CaptureLive`.
* AWS: `WF_vars(Worker)`, SQS delivers and the Lambda runs. Failures are not fair, and
  the receive count bounds them: no assumption that they stop is made.
* Migrations: `Run` is fair for every runner; and a runner whose migration was
  committed by another fails, for its insert is refused: the database answers.

## 4. Proofs

Eight modules hold the theorems: every safety property a passing run checks, the
three refinements, and a few the runs are too small for, for all values of the constants. Each proves an inductive invariant `IInv`, one lemma
per action or group of actions that touch the same parts, and a lemma (`NextIInv`
or `NextInv`) that collects them.

### Capture

`CapturePipeline_proofs`, for every number of rows, batch size, number of
attempts, crashes, failed writes, losses of power, resyncs, releases and late requests, and for
every set of malformed, system and poisoned rows and of messages in two chats:

| Theorem | Statement |
|---|---|
| `TypesHold` | `Spec => []TypeOK` |
| `CheckpointIsSafe` | `Spec => []NothingSkipped` |
| `OnlyCapturedArchived` | `Spec => []ArchiveIsCaptured` |
| `DeleteIsSafe` | `Spec => []AwaitedBatch` |
| `ImplementsWriteOnce` | `Spec => WriteOnce`, the refinement |
| `RepeatsAreCaused` | `Spec => []RepeatsNeedACause` |

The argument. `NothingSkipped` is not inductive: to know that a delete loses
nothing, one has to know that what is deleted is in the archive, hence that an
accepted batch was stored, hence that nobody changed the batch during the await
(`AwaitedBatch`). To know that `ArchiveIsCaptured` survives an upsert one has to
know where the messages came from: everything in the queue, in flight and
abandoned is a row of `chat.db` that `normalize_row` accepted (`Captured`, part of
`Bookkeeping`), and what was answered 2xx was acceptable. `IInv` is the
conjunction. Beside it, `DiskIsWhole` says that the database a loss of power would leave skips
nothing either. It changes only when the disk catches up, where it follows from
`NothingSkipped`, and no other step breaks it, because archive and dropped messages only
grow (`Grows`). `StepIsPromised` shows that under `IInv` every step is a `Write`, a
`Store` or a stutter of `WriteOnceArchive`.

`RepeatsAreCaused` (where a row raises, every poll repeats the rows before it, section 5) bounds a
number of queue entries of a message for one of its chats, which by itself says nothing about the next tick. `CopiesInv` turns it into a
bound that can be kept: those entries
come from different ticks (`Keyed`), and there are no more of them than causes so
far (crashes, failed writes, losses of power and resyncs), and one more once the checkpoint has passed the row (`Counted`). A
tick moves the checkpoint past the rows it queues, so it uses up that one; only a cause takes the
checkpoint back, and pays for it. The same is kept of the database that a loss of
power would leave, of its own checkpoint and its own ticks. `MarkedKeeps`, `EnqueueAdds` and
`FewCopies` are the lemmas about postponing, queueing and counting.

### Remediation

`RemoteCommands_proofs`, for every number of commands, overlapping polls,
acks in flight, supervisors, faults, crashes and losses:

| Theorem | Statement | Assuming |
|---|---|---|
| `TypesHold` | `Spec => []TypeOK` | |
| `NoRestartLoop` | `Spec => []RestartsAtMostOnce` | |
| `RepetitionIsPaidFor` | `Spec => []RepeatsNeedAFault` | |
| `LogBacksSuccess` | `Spec => []SuccessIsLogged` | |
| `SuccessIsReal` | `Spec => []SuccessMeansRun` | |
| `CancelPremise` | `Spec => []UnofferedNeverSeen` | `MaxServerFaults = 0`: no stamp fails |
| `RevocationIsReal` | `Spec => []RevokedIsWiped` | |
| `DuplicatesNeedOverlap` | `Spec => []DuplicatesOverlap` | `IsFiniteSet(Admin)` |

The assumption of `CancelPremise` is needed: `GetStampFails` breaks the property (section 5). `OneCommand`
checks it under the same assumption. That of `DuplicatesNeedOverlap` only says that there is a number of
requests to compare with; the race of two requests is in the theorem, and what it says is how
far the race can go.

The first five share one invariant, `IInv`. That a row marked as a success ran
(`SuccessMeansRun`) depends on the acks in flight (`ToldInv`), those on what the
agent was about to record or ack (`AnswerInv`), and that on the log, since a
replay acks what the log says. That a restart happens once depends on
the log line being there before the effect and on no later poll of the
same row getting past it (`OnceInv`), which in turn needs that a process that
is about to end itself does nothing else, and that a wiped agent, whose
log is gone, never starts again (`ProcessInv`). `FaultInv` strengthens
`RepeatsNeedAFault` by the one effect whose log line is still to come.
The lemmas follow the groups of `Next`: `ServerStep` for the handlers, of which
`IInv` needs only what they leave alone (`ServerKeeps`), `ExecuteStep` and
`ContinueStep` for the agent, `ExchangeStep` for requests, replies and acks.

`CancelPremise` needs `StampInv`: every row a poll still holds either is stamped
or is among those its handler has yet to stamp, and the handler replies only when none is
left. `DuplicatesNeedOverlap` counts the open, unexpired rows of one action and the requests that
passed its duplicate check together (`OverlapStep`): an insert turns one of the second into one of the
first, and a request joins the second only when the first are none. `RevocationIsReal` needs `WipeInv`: as long as
nothing excuses it (`Excused`), nobody but the log calls a revoke done, and the log
only between its line and the wipe.

`CommandLedger_proofs` proves `ImplementsLedger`, `Spec => KeepsLedger`, without extra
assumptions. The mapping is direct (`kind`, `outcome`, `runs`, and `wiped` for no
device key); what has to be shown is that a step of a handler that knows one ack, or of an executor that
knows one command, is one the ledger allows.

* A row takes whatever an ack says, so acks must not contradict each other nor the row.
  `VerdictInv` is about every answer to a command at once, those received, on their
  way, and about to be sent (`Verdict`): they agree, and they agree with the log as long as there is one, or
  are all errors if the server key on file verifies nothing. The two restarts are exempt, in the
  ledger too, because of `RestartFails`. `VerdictKept` and `VerdictAdded` are
  the two ways a step can leave it true.
* An effect must be one the command asks for, and not come after a wipe: `CourseInv`
  relates what the executor is about to do to the row and the log, and `OnceInv` and
  `ProcessInv` of `IInv` say the rest.
* `KnownInv` and `RequestInv` say that commands in replies, batches and acks were issued, and
  what a supervisor's handler is about to insert is an action.

`Issues`, `Happens`, `Closes`, `Answers` and `Stutters` state the ledger's steps in the terms of
`RemoteCommands`; `ServerLedger`, `ExecuteLedger`, `ContinueLedger` and `ExchangeLedger` map each
group of actions to them.

### Console

`Console_proofs`, for every number of tabs, people, requests and commands, and for
every lifetime of the cookies: `TypesHold`, `DestructionIsVouched` (`ConsoleSpec =>
[]DestructiveIsVouched`) and `IssuersAreSignedIn` (`ConsoleSpec => []IssuerSignedIn`).
The properties speak of when a person really gave the password, the code of what
a cookie says. `CookiesAreHonest` joins the two, for the cookies in the browser and for the
copies requests carry: a cookie is never younger than its holder's last
sign-in or password. `InFlightVouched` carries the result of the check through the
calls between it and the insert, during which cookies and time move on.

### Enrollment

`Enrollment_proofs`, for every number of devices, codes, keys and overlapping
requests:

| Theorem | Statement |
|---|---|
| `TypesHold` | `Spec => []TypeOK` |
| `KeyIsHeld` | `Spec => []RegisteredKeyIsHeld` |
| `MarkerIsReady` | `Spec => []MarkerMeansReady` |
| `NoCodeIsBurnt` | `Spec => []ConsumedIsEnrolled` |
| `OneCode` | `Spec => []OneCodePerDevice` |

Requests outlive the command that sent them, so what is registered may come from a
request of long ago. `RequestsCarryKey` says that it carries the key that
is still in the file, as long as the device has not been wiped; `OneOfEach`, that of a device's
requests at most one is past its insert, which the primary key guarantees although
the check in front of it does not; `FilesInOrder` relates `pc`, the files
and the marker.

### Fleet

`Fleet_proofs`, for all thresholds, clock differences, numbers of heartbeats
and queue depths: `TypesHold`, `NoFalseHealth` (`HealthyMeansAlive`), `DeathIsSeen`
(`DeadIsCritical`) and `RevocationIsFinal` (`RevokedStays`, an action property). The
strengthening, `SignsOfLife`, bounds every time in the row and in a
heartbeat by the last moment the agent lived, plus `Ahead`; `SignsDecide` derives
both properties from it by looking at what `computeHealth` reads.

### AWS

`AwsStack_proofs`, for every number of devices, codes, messages and POSTs, every
batch size and receive count, and whatever entries SQS refuses:

| Theorem | Statement |
|---|---|
| `CodesPairOne` | `Spec => []CodePairsOne` |
| `AttestationsAreEnrolled` | `Spec => []AttestedIsEnrolled` |
| `UsedCodesBuyKeys` | `Spec => []UsedCodeEnrolled` |
| `RowsHaveObjects` | `Spec => []IndexedIsStored` |
| `TypesHold` | `Spec => []TypeOK` |
| `ObjectsAreBounded` | `Spec => []OneObjectPerPost` |
| `AcceptedStays` | `Spec => []AcceptedIsKept` |
| `ImplementsWriteOnce` | `Spec => IndexWriteOnce`, the refinement |

`UsedCodeEnrolled` is about both halves: what the archiver inserts for a device it may not find leaves one
that is there alone (`DevicesKept`, `PlaceholderInv`). That it finds the device is not so: the authorizer looks at the device that
signed (section 5). `CodePairsOne` needs that a code has one transaction at a
time and a used one none (`OneTransaction`); `IndexedIsStored` needs that the object of the
record at hand was put before its row (`StoredIsThere`), whatever the loop did with earlier ones.
`ObjectsAreBounded` maps the objects of a message, one to one, to POSTs, because nothing travels or is
stored that was not captured and posted before (`Deliveries`). `AcceptedStays` follows a message through the
hands it passes: what the ingest Lambda is done with is in the queue or further on, and what the archiver's loop is done with
has a row or will be reported as failed (`Handled`); redelivery, dead Lambdas and the
dead-letter queue lose nothing between them (`SettlesForGood`). `refused` are the entries that SQS refused when they were
sent last, the one way to lose what was answered 202 (`RefusedStays`). `ImplementsWriteOnce` needs only that a row names a message
that was captured, and that the insert of a second record of one message changes nothing.

### Migrations

`Migrations_proofs`, for every number of invocations, releases and migrations:
`TypesHold`, `EffectOnce` (`AppliedOnce`), `OrderHolds` (`InOrder`) and `SuccessIsReal`
(`SuccessMeansMigrated`: of the handler's own answer, see section 6). A runner works from a list that may be stale: what it knows is
applied (`KnownIsApplied`), so the migration it is about to run has all earlier
ones behind it (`TxInOrder`), and of the transactions that recorded one name only one is open (`TxAlone`).

### Assumptions and limits

The assumptions are otherwise the ones the modules declare (`CaptureAssumption`,
`PipelineAssumption`, `CommandsAssumption`, `ServerAssumption`, `AgentAssumption`,
`ChannelAssumption`, `ConsoleAssumption`, `KeysAssumption`, `FleetAssumption`,
`ArchiveAssumption`, `SenderAssumption`, `MigrationsAssumption`): ranges of the constants,
malformed rows being rows that normalise, thresholds in order. TLC evaluates
them on every run.

Only model-checked: liveness under fairness, which is out of the prover's reach
(`EveryCommandCloses`, `EveryCommandAnswered`, `PausedConverges`, `EveryClickSettles`,
`EveryRowArchived`, `EveryRecordSettles`, `EveryRunReports`).

## 5. Where code and comments disagree

Two have a run that ends in a counterexample.

1. **Cancel against poll** (`CancelRace`). GET selects, then stamps. A cancel in
   between sees `delivered_at` null, closes the row and reports success; the
   stamp does not look at `completed_at`, and the agent executes the command.
   `commands/[commandId]/route.ts:17` says cancel works "so the agent never sees the row".
2. **Silent devices** (`SilentAlarm`). `heartbeat.py:48` always reports
   `last_captured_at` as `None`, and the route stores it. `computeHealth` then takes the
   age of the enrollment for the time without messages: every device turns "silent", and
   later "critical", while its messages are archived.
   `health.ts:53-54` says silent means "has captured no messages for a long time".

The others are reachable behaviours of the actions named, or statements that the
modules define and no run checks.

Remediation:

* `ExpiredRowsRefuseAcks`: `command_ttl.sql:9-10` says the ack handler refuses acks
  for expired commands; it updates by `command_id` and `device_id` alone, so a late
  ack replaces `error='expired'` by a result.
* `RevokedMeansWiped`: revoke is logged first (`commands.py:334`). After a
  crash between the log line and `rmtree`, redelivery replays the recorded
  success: the dashboard marks the device revoked, and its key, queue and
  messages are all still there.
* The reaper runs inside an authenticated GET (`v1/commands/route.ts:40-44`), which a
  revoked device is refused: what was queued beside the revoke stays "queued" for ever.
* `Resync` is documented as the way to capture again after a decoding bug was fixed
  (`commands.py:19-21`). The archive ignores duplicates, so the new decoding of a message
  already archived never reaches it.
* `CancelUpdate`: a cancel that lost the race changes no row and is still audited
  as `command_canceled` and answered 204.
* `Effect`, `AgentCrash`, `Replay`: `checkpoint.py` says the log suppresses
  duplicate side effects; for the effect-first actions a crash between effect
  and log line repeats them (all four are idempotent or read-only, which is
  presumably why).
* `RestartFails`: after a restart was logged and acked as a success, its failure
  acks an error that replaces the row's answer; the log keeps the success.
* `Wipe`, `AckLost`: the only ack of a wiped device can be lost. Nothing polls for that device
  any more, so the dashboard never marks it revoked, and the reaper, which runs only inside a poll,
  never closes the row: it stays open for ever, as does whatever was queued behind it. `EveryCommandCloses`
  and `EveryCommandAnswered` therefore end with the device.
* `GetStampFails`: a row whose stamp failed is sent anyway and counts as never
  delivered, so it can be canceled after it ran.
* `IssueCheck`, `IssueInsert`: two supervisors' requests can both pass the
  duplicate check, and two commands of one action are then open. As many as overlap, and no more
  (`DuplicatesNeedOverlap`).
* `IssueAuditFails`: a command whose audit insert failed stays issued.
* `AckDeviceFails`: the second update of an ack (`v1/commands/route.ts:158`) can fail unnoticed after the row was completed;
  the device row then does not say what the command did.
* Redelivery can execute a pause after the resume that was issued later.
* `NetworkError`: when a `fetch` of the panel throws, its buttons come back while the
  handler may still be at work; a second click races the first.

Capture:

* `DrainRejected`: `attempts` counts outages too, so after a long one the first
  4xx drops a message; and one malformed message ages, and finally drops, the
  whole batch it is in.
* `TickRaises`: a row on which `normalize_row` raises stops the pump for good,
  and the rows before it in the batch are queued again at every poll.
* `Joined`: a message that is in two chats comes out of the join of `fetch_since` twice, once for each
  (`capture.py:77-81`), and is queued twice. Both copies have one `message_id`, so the archive keeps the first and
  ignores the second with its `conversation_id`. When `LIMIT` falls between
  them, the checkpoint passes the ROWID and the second is not even queued.
* `TickFails`, `BatchStays`: an SQLite error in the pump or the forwarder ends a tick after some of its writes,
  and what was queued or sent is queued or sent again.

Enrollment:

* Two devices can enroll with one code: `Consume` names the code and nothing else
  (`v1/enroll/route.ts:121-124`), against "single-use" at lines 12-13. The comment
  at 76-81 says a replay after a failure hits "already used"; it hits 409, "device already
  enrolled", and the agent has no server key. Nothing in the repository removes that row.
* A revoked device keeps its row and is refused by the same 409, although
  `RemediationPanel.tsx:82` and `commands.py:156` speak of enrolling it again.
* `RunMeansEnrolled`: `__main__.py:49-52` takes `device.key` for the
  enrollment, which `enroll.py:99` writes before it posts.
* A crash inside `load_or_create` leaves an empty `device.key` (`torn`), which every
  later command refuses to load.

Health:

* `TimeDoesNotHeal`: `health.ts:9-14` calls silent less severe than an unresponsive agent. Silence
  is only looked for while a heartbeat is fresh, so a device at "silent" or "critical" improves to
  "warning" when its heartbeats stop, before it turns critical again. (With `Ahead = 0`
  the constants of `Watching` show it.)
* The employee page selects neither `enrolled_at` nor `last_captured_at`; it never says silent, and so
  disagrees with the devices page over the same row (`health.ts:1-6` promises one verdict).
* "paused" hides a dead agent: `computeHealth` returns before it looks at the heartbeat.
* Heartbeats overwrite the row in the order they arrive; `paused` and the queue
  depth may go back to older values until the next one.
* `clock_skew_ms` is always 0 and disk, Messages.app and Full Disk Access are never
  reported, so the checks of `computeHealth` on them never fire.

AWS:

* `ingest.ts:97-117` does not read `Failed` of an SQS answer: entries that SQS refused are
  accepted, and the agent deletes them. These are all that is lost of what was answered 202 (`refused` in `AcceptedIsKept`).
* The authorizer checks the device whose header signs a request; `ingest.ts:69-85` compares only the firm and never
  that device with the `device_id` of the messages (`Authorized`). `archiver.ts:108-110` calls the placeholder inserts
  resilience to "out-of-order enrollment"; but an enrollment that comes after the placeholder finds a device row and is refused with 409
  (`enroll.ts:119-125`), for ever, and the placeholder's key verifies nothing. `UsedCodeEnrolled` holds because that
  order never costs a device a key it already has.
* `OrderPreserved`: when a record fails and the next of its batch does not, `archive_seq` no
  longer follows the order of the queue.
* `AttestationArchived`: when the put after the commit fails, the device is enrolled, a
  retry is refused, and there is no attestation.
* `canonicalPayload` (`archiver.ts:47-51`) passes the sorted top-level keys to `JSON.stringify` as a
  filter, which also filters nested objects: what is stored of an attachment lacks its fields, although
  `001_init.sql:3-6` says the tables can be rebuilt from S3.

## 6. Abstractions and what is not modelled

* Time: in `RemoteCommands` a row is offered never, recently or long ago, and has
  or has not lapsed; a backoff is over or not. Ages of closed rows are not tracked: no
  handler reads them. `Console` and `Fleet` have a clock, in steps.
* In-flight acks and heartbeats are sets: two equal ones are one, which matters to
  nothing, since each handler overwrites. So are the requests of `Enrollment`.
* The parameters, results and signatures of commands are left out; whether a
  signature verifies is `keyOk` (the server key on file is right). A message is
  its row, the release that decoded it and the chat it names (`Version`, one number, in the archive). A cookie's HMAC is that nobody can
  make up the record; requests from other origins are refused before anything
  the model contains, and send nothing.
* A row number is the rank of the ROWID; gaps change nothing in `fetch_since`. A message is in one chat or in
  two, from the moment it is in `chat.db`. The rows of the join with one ROWID come in the same order
  each time, which `ORDER BY m.ROWID` leaves to SQLite.
* `attempts` of the code grows without limit. In the model it stops at `MaxAttempts`, which is all the code compares
  it with; nothing is claimed about its size.
* `rmtree(..., ignore_errors=True)` is taken to succeed. A loss of power is modelled for
  queue and checkpoint, and takes nothing from `chat.db`, which is another program's. In the remediation
  models a crash is the process's: a loss of power could also undo a line of the executed-command log or an
  acked resync, and a redelivery would then repeat the command.
* The invalid-JSON branch of the forwarder cannot be reached: only the pump writes
  payloads. A read of SQLite that fails, in the pump or the forwarder, ends the tick before it did anything and is left out; failed
  writes are modelled.
* The revoke of `Enrollment` is the whole remote command in one step, and that of `Fleet` too; its
  parts are in `RemoteCommands`. No enroll command is open on a device that is being
  wiped: somebody would have to type it at that moment.
* Codes are bound to one employee, and the enrollment of a code for another is refused
  before anything is written; the models keep the codes of one employee.
* SQS: a FIFO group is handed to one invocation at a time, because the queue's visibility
  timeout (5 minutes) is longer than the archiver's own (2). Its deduplication is that a POST's records differ from
  every other POST's in `ingested_at`.
* Migrations: `migrate.ts:69-73` catches an error and answers with Status FAILED instead of throwing, to the
  `cr.Provider` that `infra/lib/migrations.ts:72-78` puts in front of it. That framework is not in the repository, so what
  CloudFormation makes of such an answer is not modelled: `SuccessMeansMigrated` is about the handler's answer, not
  about a deployment.
* `nextval` skips the gaps of transactions that were rolled back.
* `archive_seq` of the dashboard's `message_meta` is a fresh number per message and has no
  reader in `src/` that another property depends on.
* Commands and capture are two models: each sees of the other only the effect of
  pause, resume, resync and revoke on its own state.

Not modelled: Ed25519 and ECDSA signatures and the HMAC (assumed); decoding of
`attributedBody` and tapbacks, the wire schema and its zod types (functions from bytes to
values, well served by the unit tests beside them); the pages that render rows; what the CDK
stacks declare, beyond what `AwsArchive`, `AwsStack` and `Migrations` take from them; the
AWS heartbeat Lambda, one UPDATE whose columns nothing in `src/apps/api` reads; command-line
parsing and configuration; test harnesses and scripts.

## 7. What is left

1. A loss of power in `CommandAgent`: a log line undone after the effect.
2. Hazards without a property, because the code lets them happen and nothing repairs them: a stamp that fails
   (`GetStampFails`), a late pause after a resume, the device row that is not updated with its command (`AckDeviceFails`; a later
   heartbeat repairs `paused`, nothing repairs `revoked_at`), the cancellation that is audited and changed no row
   (`CancelUpdate`), the audit record that is not written (`IssueAuditFails`), the restart that fails after it was acked
   (`RestartFails`), and messages given up too early or together with a malformed one (`DrainRejected`). The duplicates of
   two supervisors have a theorem and no run. Section 5 describes all of them.
3. An abstract health verdict: a device is shown as what it was at some moment not long ago.
