# DSX-Connect: a verification development

This directory holds TLA+ models of the parts of the repository that decide things while
other things happen: the execution core and control plane of `src/dsx_connect_ng`, the
Celery tasks and the connector registry of the older `src/dsx_connect`, the engine of
`src/dsx_transfer`, and what the connectors of `src/connectors` do with files and with the
changes they hear of, and the folder scans of the desktops. TLC checks the models on small
instances; TLAPS proves, for any number of items, files, processes and messages, that the
outbox implements its contract, and the main safety properties of the scan stage, the
follow-on requests, the scan workers of both generations, the full scans and folder scans, the
actions on a file, the changes of drives, the control plane and the transfer engine.

Paths below are relative to `src/dsx_connect_ng/dsx_connect_ng/` unless they start with
`src/`.

## 1. The system

*dsx_connect_ng.* A client submits a job. The API writes a job row, one row per item and,
for every message it wants published, a row in the *outbox*, all in PostgreSQL. A publisher
(the API itself, a worker, or the relay) claims an outbox row, publishes the message to
RabbitMQ, waits for the confirm and marks the row. Workers consume the messages, keep
the item's five stage columns (`scan`, `policy`, `remediation`, `delivery`, `dianna`)
and its summary state, and create the outbox rows of the stages that follow. The state
of the parent job is recomputed from the states of its items by whoever changed one. The
policy worker decides what the other stages are to do; the remediation worker has a
connector do it. The *control plane* knows the integrations, the connector instances that
serve them (by leases), and the scopes they protect.

*dsx_connect.* Connectors post a scan request per file; each is a Celery task that scans
under a cap of slots held in Redis, sends a verdict task, which has the connector act,
which sends a result task, which logs, stores and may send the file to DIANNA. A Redis hash
counts the files of a job. API processes know the connectors from presence keys in Redis,
each through a cache of its own.

*dsx_transfer* copies files through a scan gate and keeps a checkpoint to resume from.
*Connectors* list, read, quarantine, tag and delete files of a platform, ask for a full scan
of it, and turn the platform's notifications into scan requests. Two *desktop applications*
scan the files of a local folder with several workers.

What goes wrong goes wrong *between* two calls to something shared: a repository
transaction, a call to the broker, to Redis, to a platform. Therefore one action of the
models is one such call, with the local decisions up to the next one.

### 1.1 Components

| component | state it keeps | operations | talks to |
|---|---|---|---|
| job service (`jobs/service.py`) | none of its own | submit, cancel, progress, stage updates, follow-on requests, publish, flush, replay | repository, bus |
| job repository (`jobs/postgres_repo.py`) | `cp_jobs`, `cp_job_items`, `cp_job_outbox`, `cp_scan_runtime_leases` | single transactions, row locks for claims and stage updates | – |
| relay (`workers/relay_worker.py`) | none across a restart | replay at start, `flush_outbox` for ever | job service |
| bus and consumer (`jobs/rabbitmq_bus.py`, `workers/consumer.py`) | queues, retry queues, dead-letter queues | publish with confirm, deliver, acknowledge, retry with a counted header, dead-letter | workers |
| scan worker (`workers/scan_worker.py`) | `_CANCELLED_JOB_IDS`, the completion buffer, the batch coordinator | scan, complete, fail for good | job service, bus, scanner |
| policy, remediation, DIANNA and sink workers (`workers/*_worker.py`) | none | run the stage, complete it, request what follows | job service, connectors |
| policy engine (`workers/policy_engine.py`) | none | decides which stages an item gets | policy worker |
| connector actions (`workers/connector_actions.py`) | none | calls a connector's item action | connectors |
| control plane (`control_plane/`) | integrations, leases of instances, scopes | row by row reads and writes | API, connectors |
| API, console, file gateway (`api/`, `app.py`), local runtime (`local/`), readers and sinks | none, or process handles | routes, start and stop, files | all services |
| `src/dsx_connect`: tasks | Redis job hashes, scanner slots, dead letters, stored results | scan request, verdict, result, DIANNA; requeue | Redis, Celery, connectors, scanner |
| `src/dsx_connect`: registry | presence keys, a cache in each process | register, heartbeat, sweep, publish | Redis, connectors |
| `src/dsx_transfer` | checkpoint file, audit log | copy items through a scan gate, resume | file systems, scanner |
| `src/connectors` | configuration, a persisted UUID, delta cursors kept by dsx-connect | register, enumerate, read, act on items, follow changes | dsx_connect, platforms |
| `src/dsxa_desktop`, `src/dsxa_desktop_electron` | jobs of the back end, state of the window | scan a folder, stop, quarantine | file system, scanner |
| SDKs, other front ends, deployment, documents | – | clients and packaging | – |

`PROJECT.json` lists the same parts with their source files and what is left out of each.

### 1.2 What is hard, and what correct means

* **Outbox.** Submitters, workers and relays race for the same rows, in single and in
  bulk; publishes fail before or after the broker took the message; publishers die.
  Correct: a claim is exclusive; a row is closed only when the broker has the message or
  the item it is about has ended; what was committed is published in the end.
* **Item row.** Stage updates read the row in one transaction and write it in another;
  workers of different stages, and publishers, do so at once. Messages are redelivered
  after crashes and duplicated by retries. Correct: an ended stage stays ended.
* **Follow-on requests.** Each worker decides from the row it reads who asks for delivery.
  Correct: what the policy decided, and nothing else, is carried out; delivery waits for
  DIANNA; nobody leaves it to the other for ever.
* **Parent job.** Its refresh is three transactions. Correct: it settles in the state its
  items call for.
* **Relay capacity.** Counted in one transaction, used later. Correct: the cap holds, and
  the requests it is not meant for go out.
* **Buffers of the scan worker.** Several coroutines add, drain and write. Correct:
  nothing is written twice at once or forgotten, no slot is lost, no window waits without
  a timer, and acknowledgement means what the mode says.
* **Leases, scopes and configurations.** Several connectors and operators change one
  integration. Correct: no setting is lost, no two scopes own one path, exactly the
  connectors that run have a lease.
* **Item actions.** Several calls to a platform, any of which may fail or be the last; a
  worker that gave up has its message delivered again while the connector is still at
  work. Correct: a quarantined file is never lost, and what is reported done is done.
* **Changes of a drive.** Notifications are lost, repeated and answered concurrently;
  queries go on from a cursor that is stored elsewhere. Correct: the cursor passes nothing
  that was not asked for, and every change is asked for in the end.
* **Scan tasks and their job.** Messages put back, retried, redelivered; counters updated
  in several calls. Correct: a file is counted once, the job finishes, slots are neither
  exceeded nor lost.
* **Tasks after a scan.** Correct: a verdict is in a queue, a dead letter or the log, and
  is reported once.
* **Registry.** Nothing orders presence keys, the channel and the caches. Correct: they
  converge to the connectors that are alive.
* **Full scans.** Each platform's handler lists, batches and counts in its own way, with
  tasks of its own. Correct: the end is reported when everything was asked for once, the
  limit is kept, and the scan ends.
* **Folder scans.** Workers, a stop and messages to the window race. Correct: the summary is
  true, the window does not show a scan for ever, a quarantine loses no file.
* **Transfers.** Interrupted runs, files replaced between runs and within them. Correct: nothing
  refused is delivered, the checkpoint tells the truth, reruns finish.

## 2. Modules

| module | models | code |
|---|---|---|
| `ItemStages` | the state vocabulary, the item state derived from its stages, the parent state derived from its items | `_derive_item_state_from_stages`, `_refresh_parent_job_state` |
| `OutboxContract` | abstract: what the outbox promises | – |
| `JobLedger` | rows, broker and locals of a batch; repository transactions; submit, cancel, progress, refresh | `jobs/service.py`, `jobs/postgres_repo.py`, `jobs/rabbitmq_bus.py` |
| `OutboxRelay` | publishing one record and in bulk, replay, the flush loop, relay crash | `_publish_outbox_record`, `_publish_low_persistence_scan_only_outbox_records`, `replay_nonterminal_scan_only_batches`, `flush_outbox`; `workers/relay_worker.py` |
| `ScanWorker` | the scan handler for scan-only items, retry, dead letter, crash | `process_scan_message`, `consume_queue` |
| `ScanOnlyBatch` | composition of `OutboxRelay` and `ScanWorker`, its properties, `OC == INSTANCE OutboxContract` | – |
| `ScanOnlyBatchProofs` | proofs about `ScanOnlyBatch`: types, scan stage and leases; claims; the refinement of `OutboxContract` | – |
| `PolicyRules` | from configuration, file and payload to the decision, and to what the job service makes of it | `workers/policy_engine.py`, `jobs/contracts.py`, predicates of `jobs/service.py` |
| `ItemLedger` | one item's row, its outbox and queues for all five stages: stage update, publish, relay | `_update_job_item_stage`, `_publish_outbox_record`, `flush_outbox` |
| `ItemWorkflow` | the five workers and the follow-on requests between them, its properties | `_maybe_emit_follow_on_requests` and what it calls, `workers/*_worker.py` |
| `ItemWorkflowProofs` | proofs about `ItemWorkflow`: types, claims and ended stages; requests and the summary; with `PolicyRules`, what decisions lead to | – |
| `CompletionBuffer` | the buffer of completed scans and its interval task | `ScanOnlyCompletionBuffer` |
| `BatchCoordinator` | windows, slots, timer, flush loop, interruption | `ScanOnlyBatchCoordinator` |
| `ScanCompletions` | `BatchCoordinator` and `CompletionBuffer` as instances, the properties of a worker that runs either | – |
| `CompletionProofs` | proofs about `ScanCompletions` | – |
| `ControlPlane` | one integration, leases, scopes, API processes | `control_plane/`, `api/routes/ui.py`, start and heartbeat of a connector |
| `ItemActions` | remediation worker, item action handlers of five platforms | `workers/remediation_worker.py`, `workers/connector_actions.py`, `item_action_handler` and its clients in `src/connectors` |
| `DriveChanges` | notifications, delta queries, cursors, restart | OneDrive, SharePoint and mail connectors, `src/shared/graph` |
| `Connectors` | `ControlPlane` with `ItemActions` and `DriveChanges` as instances, and their properties | – |
| `ConnectorsProofs` | proofs about `Connectors`, all three parts | – |
| `FullScans` | the full-scan handlers of six platforms, their batches, tasks and limits | `full_scan_handler` and its helpers in `src/connectors`, the framework's batches |
| `FolderScan` | window, back end, workers, stop and quarantine of both desktops | `src/dsxa_desktop`, `src/dsxa_desktop_electron` |
| `Scans` | `FullScans` and `FolderScan` as instances, and their properties | – |
| `ScansProofs` | proofs about `Scans`, both parts | – |
| `ScanTasks` | scan requests, slots, job hash, pause, resume, cancel | `src/dsx_connect/taskworkers`, `routers/scan_request.py` |
| `ScanTasksProofs` | proofs about `ScanTasks` | – |
| `ResultTasks` | verdict, result and DIANNA tasks, dead letters, requeue | `taskworkers/workers`, `routers/dead_letter.py` |
| `ResultTasksProofs` | proofs about `ResultTasks` | – |
| `ConnectorRegistry` | presence, caches, channel, sweeper, registration | `src/dsx_connect/connectors`, `routers/connectors.py` |
| `TransferEngine` | runs, gate, copy, checkpoint, audit, policy | `src/dsx_transfer/dsx_transfer` |
| `TransferEngineProofs` | proofs about `TransferEngine` | – |
| `MCScanOnlyBatch`, `MCItemWorkflow`, `MCTransferEngine` | the instances TLC checks | – |
| `MCScans`, `MCScanWorkers`, `MCConnectors`, `MCDsxConnect` | instances of two or three components that share no state, one at a time: `mode` or `part` says which | – |

The exact lines of every definition are in `PROJECT.json` under `map`. Operators keep the
names of the functions they stand for (`claim_outbox_record`, `update_job_item_stage`);
actions are named for the step of the handler (`SetQueued`, `MarkPublished`).

How code corresponds to model:

* A process is a value `p`, and `pc[p]` says which call it makes next. `ret[p]` is the
  return address of a helper (`_refresh_parent_job_state`, `_update_job_item_stage`,
  `_publish_outbox_record`). In the smaller modules a process is a record that holds its
  `pc` and its locals (`run`, `task`, `req`, `calls`).
* A row read in one transaction and used in a later one is a local (`snap`, `verdict`,
  `todo`, `covered`, `left`, `capacity`, `req.row`), so that it can be stale when it is used.
* A queue counts the copies of each message, without order; the attempt number of the
  retry header is part of the message. Work queue and retry queue are one: the delay of the
  retry queue is not modelled.
* Lifetimes (leases, presence keys, the slot counter) run out by an action of their own,
  with the guards that say when the code's numbers allow it.
* History variables and fields are marked as such: `delivered`, `intended`, `requested`,
  `dropped`, `logged`, `lost`, `sent`, `ended`, `spoiled`, `swapped`.
* In `asyncio` code that shares memory (both buffers, the control plane's handlers, the
  transfer engine) an action is what runs between two awaits that suspend.
* `ItemWorkflow` takes a decision from a set `Plans`; `MCItemWorkflow` obtains that set by
  evaluating `PolicyRules` on configurations and files, so that the runs see decisions that
  the engine can make.
* Operators marked `Mutant:` are deliberate defects, unused by the specifications; each
  property is known to fail when one of them takes the place of the operator that follows it.

## 3. Runs

Bounds are constants named in the modules (`Max...`). Deadlock is checked in `transfer`,
whose engine can always be run again. It is off in the other runs, because a job that has
settled, a file that was dealt with or a behaviour that has used up its bounds really stops;
the liveness properties take its place.

| run | instance | checks | distinct states |
|---|---|---|---|
| `scans` | batch: 2 items, 1 relay, 1 worker, cap 1, 1 retry, 2 scan failures, polling client; full scan: 5 objects of which 3 are to be scanned, limits 0 to 3, batches of 1 to 3, 2 requests at once, 1 failure; folder scan: 3 files, two of one name, 2 workers, or 1 file scanned twice, 2 failures | `ActiveWithinCap`, `LeaseHasWorker`, `ScanComplete`, `LimitKept`, `SummaryTrue`, `QuarantineKeeps`, `AllEnd` | 272 k |
| `redelivery` | 1 item, 1 relay, 2 workers, 1 retry, 1 failure, 1 worker crash, cancellation, polling client | `ScanStageStaysEnded` | 1.28 M |
| `outbox` | 1 item, 2 relays, inline submitter, bulk publish, 1 broker failure, 1 relay crash | `TypeOK`, `ExclusiveClaim`, `ImplementsContract` | 523 k |
| `stages` | 12 policy decisions, 5 workers, relay; for sequential decisions 1 failure or 1 crash, and 1 retry; for a deletion 1 broker failure and 1 refusal | `ExclusiveClaim`, `SummaryWaits`, `RequestsAccounted`, `RemediationAccounted`, `StagesStayEnded`, `DecisionCarriedOut`, `RequestsRetried` | 343 k |
| `scan_workers` | coordinator: 3 entries, window 2, 2 slots, 3 modes, 1 failure, 1 crash; buffer: 4 messages, batch of 2, 2 failed writes; tasks: 2 files, 2 workers, 1 slot, 1 retry, and one of four combinations of faults | `WorkHeld` (no slot idle, no future forgotten, nothing drained twice), `AckedIsDurable`, `StoppedKeepsAcked`, `SlotsBounded`, `CountedOnce`, `CompletionsWritten`, `ItemsEnd`, `JobFinishes` | 308 k |
| `transfer` | 2 files with 3 versions each, replaced at any time, 2 at a time, 2 exceptions, 2 interruptions | `DeliveredWasGated`, `CheckpointTrue`, `CleanReport`, `TransferCompletes` | 493 k |
| `dsx_connect` | registry: 1 connector started twice, 2 API processes, 1 fault; results: 1 file, 2 workers, 1 requeue, a policy of 1 retry or of 2, of which Celery allows 1 | `VerdictKept`, `ReportedOnce`, `CachesConverge` | 518 k |
| `connectors` | control plane: 2 processes or 1, 2 instances, 2 scopes, 2 updates, 1 fault; drives: 3 services, 2 items, 2 changes, 2 handlers, 1 fault; actions: 5 platforms, 2 workers, 3 calls, 2 faults | `OneOwner`, `ConfigKept`, `NothingSkipped`, `FileKept`, `SuccessIsReal`, `LeasesHeal`, `ChangesCatchUp` | 621 k |
| `stranded_claim` | 1 item, 1 relay crash | `IntentsPublished` – violated | |
| `refused_dianna` | 1 file with the raw verdict "non_compliant" | `RemediationRequested` – violated | |
| `missed_events` | SharePoint, 2 changes, 1 lost notification | `MissedEventsRecovered` – violated | |
| `swapped_file` | 1 file with 3 versions, replaced at any time | `DeliveredWasAllowed` – violated | |

Why these bounds. A conflict over an outbox record needs one record and three contenders (two
relays and the submitter), and a conflict over an item one item and two holders of its message;
more of either only repeats the pattern, and the proofs cover any number. Two items are needed
where items compete (the cap, the slots) or are summed up (the parent, the job). One failure of
each kind suffices to leave the straight path; two in `scans` and `transfer`, so that a retry or a
rerun can fail too. `MaxRecords` bounds the outbox records a replay or a redelivered message
creates; a process that needs one more stops there. No process is ever stopped by it in `scans`,
`redelivery` and `stages`. In `outbox` it cuts off the third record of the one item (nothing ends
the item there, so every restart of a relay requests its scan anew); the same run with three
records also passes, with 2.8 million states. Three entries fill a window of two and start the
next; four messages make two handlers and the interval task write at once. Three versions let a
file be refused, copied, and refused for another reason. `CeleryRetries` is 3 in `scan_workers`,
as Celery has it, above the policy's 1; in `dsx_connect` it is 1, so that the policies of 1 and 2
retries (`Limits`) are one within Celery's limit and one beyond it. Three calls of an item action
are the first, its redelivery while the first is at work, and one more. Two changes are the least
for one to be missed and another to be heard of. Three files to be scanned, between others, fill a
batch of two and leave one over, and reach, stay below and exceed the limits; two malicious files
of one name meet in the quarantine.

Fairness. Each process is weakly fair in what it does of its own accord: processes run under
a supervisor and their loops never return. Timers fire, lifetimes run out, scans end. No
failure, crash, cancellation or refusal is fair. In particular:

* `ScanTasks` has strong fairness for the delivery of each file's message: Celery hands
  messages out in order, so one that is put back does not wait for ever while others pass.
* `ConnectorRegistry` has strong fairness for requests and sweeps because the bound `MaxLag`
  on the channel makes a publisher wait, which the code never does.
* `ControlPlane` has strong fairness for the heartbeats of each connector that runs.
* `TransferEngine`: an operator reruns a transfer that was interrupted or has failures.
* `DriveChanges`: the connector is restarted after a stop, its loops go on, and Graph repeats
  a notification until it is answered (`Lose` is the exception, once).

* `MCScans` has weak fairness for the handler of a full scan and its requests, which a time
  limit ends, and for the back end and the messages of a folder scan.

For a batch, `AllEnd` has one assumption about the environment: a client polls `get_job_progress`
(`Polls`). The workers complete items with `refresh_parent=False`, so the last completion of a
scan-only batch leaves the parent "running" until somebody asks for progress
(`jobs/service.py:214`). Without the poll, TLC finds that behaviour at once.

Reductions. Idle workers and idle handlers that are alike are not told apart: a message goes
to the first that is idle. A run of several parts starts the parts it is not about in one
fixed state and never moves them.

What some runs leave out, because the code does not have the property there (section 6):

* `scans` injects, for a batch, no broker failure: a publish reported as failed whose message
  was delivered is counted as pending, so `ActiveWithinCap` can be exceeded; and no worker
  crash, which can leave a cancelled item's lease behind: `LeaseHasWorker` speaks of the time
  before the first one. Full scans are those of six platforms; what `LimitKept` and
  `ScanComplete` except is in section 6.
* `stages` disturbs decisions under which one worker at a time is at work (`Sequential`) by
  retries and crashes, and one other, the deletion of a malicious file, by a failed publish
  and a refusal; it has a cap above the one item. `StagesStayEnded`, `RequestsAccounted` and
  `SummaryWaits` speak of the time before the first failed publish (`NoSendFailed`), and TLC finds
  an ended stage reopened after it.
* `dsx_connect` combines with the tasks of a file either two failures, or one death of a
  worker, or one send that raises after it has sent. `ReportedOnce` excepts the log after the
  last two: there the code logs twice.
* `scan_workers` combines an error with a pause, or a crash, or a cancellation, or a lost
  answer with an acquisition that Redis refuses. `CountedOnce` excepts crashes.

## 4. Proofs

TLAPS checks the following for every value of the constants that the named assumptions
allow. They say that numbers are natural numbers (`MaxVersion`, `MaxInflight`, `MaxRecords`
positive), that the sets of processes are disjoint and the finite ones finite, and, in
`SelectorAssumption`, that normalizing a path yields a sequence of names, which the provers
cannot find out by themselves. For full scans and folder scans they also say that a batch size
and a concurrency are not zero, to which the handlers raise what they are asked for. TLC
evaluates all of them in the runs. Modules that are used through an instance state theirs as a
definition (`CoordinatorAssumption`, `BufferAssumption`, `FullAssumption`,
`FolderAssumption`), which the module with the instance assumes (`CompletionsAssumption`,
`ScansAssumption`). Those modules, `ScanCompletions`, `Connectors` and `Scans`, are extended by the
runs' modules as well as by the proofs, so that both speak of the same properties. An
invariant of one instance is proved from the specification of that instance (`Full!Spec`,
`Action!Spec`); the other variables may do as they like.

| theorem | says | condition |
|---|---|---|
| `ScanOnlyBatchProofs!ParentTerminal` | the refresh gives a job a terminal state exactly when all its items have ended | – |
| `ScanOnlyBatchProofs!TypeCorrect` | `Spec => []TypeOK` | – |
| `ScanOnlyBatchProofs!EndedScansStayEnded` | `Spec => ScanStageStaysEnded` | – |
| `ScanOnlyBatchProofs!LeasesHaveWorkers` | `Spec => []LeaseHasWorker` | – |
| `ScanOnlyBatchProofs!ClaimsExclusive` | `Spec => []ExclusiveClaim` | – |
| `ScanOnlyBatchProofs!OutboxKeepsContract` | `Spec => ImplementsContract`: the refinement of `OutboxContract` | – |
| `ScanOnlyBatchProofs!CapKept` | `Spec => []ActiveWithinCap` | `OneSureRelay` |
| `ItemWorkflowProofs!TypesKept` | `Spec => []TypeOK` | – |
| `ItemWorkflowProofs!OneClaimant` | `Spec => []ExclusiveClaim` | – |
| `ItemWorkflowProofs!EndedStagesStayEnded` | `Spec => StagesStayEnded` | – |
| `ItemWorkflowProofs!NoRequestLost` | `Spec => []RequestsAccounted` | – |
| `ItemWorkflowProofs!NoRemediationLost` | `Spec => []RemediationAccounted` | – |
| `ItemWorkflowProofs!SummaryHeldBack` | `Spec => []SummaryWaits` | – |
| `ItemWorkflowProofs!OnlyWhatWasDecided` | `Spec => []NothingUnasked` | – |
| `ItemWorkflowProofs!DecisionsCovered` | every decision of `PolicyRules` is in `Plan` | – |
| `ItemWorkflowProofs!FilesLeftAlone` | what the rules do not hold malicious is never remediated | `ByTheRules` |
| `ItemWorkflowProofs!ClearedNeverAnalyzed` | DIANNA is never asked about a file with another verdict than malicious or suspicious, nor without its content; no verdict at all lets it pass | – |
| `CompletionProofs!SlotsStayUsed` | `Coordinator!Spec => [](Coordinator!TypeOK /\ Coordinator!SlotsUsed)` | – |
| `CompletionProofs!NoFutureForgotten` | `Coordinator!Spec => []Coordinator!FuturesHeld` | – |
| `CompletionProofs!AcknowledgedIsDurable` | `Coordinator!Spec => []AckedIsDurable` | – |
| `CompletionProofs!InterruptedKeepsAcked` | `Coordinator!Spec => []Coordinator!StopKeepsAcked` | `~Crash` |
| `CompletionProofs!DrainedByOneWriter` | `Buffer!Spec => [](Buffer!TypeOK /\ Buffer!DrainedOnce)` | – |
| `CompletionProofs!BufferKeepsAcked` | `Buffer!Spec => []Buffer!StopKeepsAcked` | – |
| `CompletionProofs!WorkIsHeld` | `Coordinator!Spec /\ Buffer!Spec => []WorkHeld` | – |
| `CompletionProofs!StopsKeepAcked` | `Coordinator!Spec /\ Buffer!Spec => []StoppedKeepsAcked` | `~Crash` |
| `ConnectorsProofs!ActionTypesKept` | `Action!Spec => []ActionType` | – |
| `ConnectorsProofs!FilesAreKept` | `Action!Spec => []FileKept` | – |
| `ConnectorsProofs!ReportedIsReal` | `Action!Spec => []SuccessIsReal` | – |
| `ConnectorsProofs!DriveTypesKept` | `Drive!Spec => []DriveTypeOK` | – |
| `ConnectorsProofs!NoChangeSkipped` | `Drive!Spec => []NothingSkipped` | – |
| `ConnectorsProofs!SettingsKept` | `Spec => []ConfigKept` | – |
| `ConnectorsProofs!ScopesApart` | `Spec => []OneOwner` | – |
| `ScansProofs!ScansAreComplete` | `Full!Spec => []ScanComplete` | – |
| `ScansProofs!LimitsAreKept` | `Full!Spec => []LimitKept` | – |
| `ScansProofs!SummariesHold` | `Folder!Spec => []SummaryTrue` | – |
| `ScansProofs!FilesStay` | `Folder!Spec => []QuarantineKeeps` | – |
| `ScanTasksProofs!OneSlotKept` | `Spec => []SlotsBounded` | `MaxInflight = 1` |
| `ScanTasksProofs!CountsKept` | `Spec => []CountedOnce` | `~Batched` |
| `ResultTasksProofs!VerdictsKept` | `Spec => []VerdictKept` | – |
| `ResultTasksProofs!VerdictsReportedOnce` | `Spec => []ReportedOnce` | – |
| `TransferEngineProofs!TypesKept` | `Spec => []TypeOK` | – |
| `TransferEngineProofs!GateBeforeCommit` | `Spec => []DeliveredWasGated` | – |
| `TransferEngineProofs!CheckpointKept` | `Spec => []CheckpointTrue` | – |
| `TransferEngineProofs!ReportIsTrue` | `Spec => []CleanReport` | – |

The conditions are those under which the code has the property; the runs are instances of them.
*`OneSureRelay`*: deferred submission, one relay, no publish reported as failed, no relay crash
and no cancellation; TLC finds the cap exceeded as soon as one of these is dropped. Two relays
both count before either publishes; a submitter that publishes inline does not count; after a
publish reported as failed, and in the replay after a crash, an item whose message is out is set
back to "publish_pending" and no longer counted; and the items of a job whose row is cancelled are
not counted although they may still be queued. It also asks for recovery item by item, because
nothing is counted otherwise and no item becomes active. *`MaxInflight = 1`*: the counter's
lifetime belongs to the first slot and can end while later ones are held. *`~Batched`*: a batched
job can be completed while its batch task still sends. *`~Crash`*, that is
`[][~Coordinator!Crash]_(Coordinator!vars)`: a coordinator that dies before it is interrupted may
leave open what it acknowledged before the write; the run has room for one crash or one
interruption, so that it checks the same. `ConfigKept` and `OneOwner` speak of one API process
themselves; `SlotsBounded` and `CountedOnce` name the crashes they except. Section 6 has the
reasons in the code.

### 4.1 The batch (`ScanOnlyBatch`)

*Types.* `TypeOK` is not inductive: `RefreshWrite` stores `verdict`, which may be "keep" for a
process that is elsewhere. `VerdictReady` says it is not when the process is about to write;
`TypeInv == TypeOK /\ VerdictReady` is inductive, by one lemma per process kind.

*Scan stage.* Two actions write it. The completion writes "completed". The stage update may be
asked to write "running" from a row read long ago, and the repository refuses that under the
row lock; everything else leaves the column alone.

*Leases.* `LeaseHeld` adds where the worker with the message is: on a way that leads to
clearing the lease (`WillClear`), which includes the refresh it calls before.

*Claims.* What a publisher holds is a function of its program counter and locals (`Holding`).
The argument, `ClaimExchange`, is that a step takes up only records nobody holds, since those
are not "publishing", and changes only records it holds or nobody does; so what the others hold
stays "publishing". That each action fits this pattern needs `ClaimSupport`: a bulk flush never
has a record both to send and sent (`BulkLocals`), the submitter runs none
(`SubmitterIsInline`), and the bulk insert of a deferred batch finds no record in use
(`NothingBeforeBatch`).

*Refinement.* For the contract an intent is open, withdrawn or closed, and messages have been
delivered or not. A record that some publisher is about to skip (`Withdrawing`) is withdrawn;
an unpublished one is open otherwise. `ContractInv` adds to the claims that a publisher that
holds a confirm holds it for a message that is out (`SentIsDelivered`), so that closing the
record is allowed. Each step then records intents, delivers, withdraws, reopens or closes, or
changes the items that have ended, or is a stutter (`Calm`, `ClaimsOnly`); the claims are
needed so that no other publisher is withdrawing the same record.

*Cap.* Under `OneSureRelay`. The count and the publishes are separate transactions, so that the
invariant has to carry the room from one to the other (`RoomKept`): while the relay lists, the
items that count and its capacity are within the cap; then, the items that count together with
those of the records it still has in hand (`Due`). Queueing an item moves it from one side to the
other. What else changes an item must not add to those that count: an item with a message out has
been queued and not been set back (`Fresh`, `Underway`), an item that has ended has an ended scan
and is not reopened, and the replay at start finds every record pending (`RelayOrder`). That the
relay counts a job at all needs the job not to have ended before its items (`JobEnds`). TLC
checked `CapInv` first, on 2 items and 2 workers with a scan failure, a worker crash and polls
(1.6 million states).

### 4.2 The item (`ItemWorkflow`)

*Types and claims* as above, with `RetryBound`: a message is put aside only while its retries
last. `KeepsToItsClaim` is the exchange of the batch for single claims.

*Ended stages.* A worker asks for "running", "completed" or "skipped" and the repository
refuses the first on an ended stage. What remains is the error note of a failed publish: its
publisher writes back a stage it read earlier, which can reopen one that its worker has ended
since. Until a publish has failed no process is on that way (`QuietBus`), and that is what the
properties speak of (`NoSendFailed`); the remediation request alone is published without that
note, and `RemediationAccounted` holds beyond.

*Requests.* `RequestInv(k)` follows one kind of request: a record marked published, or about
to be marked (`SentIsOnItsWay`), has its message queued, in a worker's hands or dead-lettered,
or its stage has ended; and a worker that is done with the message in its hands, by its program
counter and return address (`AtWork`), may acknowledge it (`MayForget`): its stage has ended or
another copy waits. Handling a request changes nothing of another's (`Steady`), so it is proved
for one kind at a time.

*Summary.* `HeldBack` says that nobody asks for the summary while delivery has to wait. It
rests on an order: until the policy worker has stored that requirement (`wait`), nobody has got
beyond that point and no later request exists (`WaitComesFirst`, `Upstream`).

*Decisions.* `NothingUnasked` says that a request is in the outbox, a queue, a worker's hands or a
dead-letter queue only if `Wants` it: the decision asks for it, the fast path has not completed
the item, and `request_dianna_analysis` has not refused it. (The run checks the liveness half,
`DecisionCarriedOut`; that nothing else is done, in any state and through failures and crashes, is
proved.) `AskedInv` carries this around the loop of messages: what a worker has in hand was asked
for, so that a remediation or DIANNA worker's follow-on is one of an accepted decision; and a
worker that is past a point of `_maybe_emit_follow_on_requests` had the decision that leads there
(`Minds`), also by the return address of a call in progress. TLC checked it first, on decisions
with and without `fast` and `refused`. The theorems after it put `PolicyRules` in front, for every
configuration and file: `DecisionsCovered` says that the workflow's assumption about `Plans` is no
restriction; `FilesLeftAlone` and `ClearedNeverAnalyzed` follow a file from the rules to the
workers' queues. The second rests on the test in `request_dianna_analysis`
(`jobs/service.py:1517`), which compares the verdict only if there is one: of a scan without a
verdict DIANNA is requested if the configuration or the payload asks for it, so the theorem names
`NoVerdict` beside malicious and suspicious. They are about the behaviours that start with the
decision on that file (`plan = PlanFor(...)`), so about instances whose `Plans` has it.
*`ByTheRules`*: the payload brings no decision or plan, and `remediation_plan_by_verdict` names
none for a verdict other than "malicious"; with one of these the code does what it was told.

### 4.3 The scan tasks (`ScanTasks`)

*Slots.* `SlotInv`: whoever holds the slot is the one who set the counter's lifetime
(`opener`), so that the counter cannot expire under it; without deaths a counted slot has a
holder.

*Counts.* How often a file was sent and counted says nothing about the messages in between, so
the invariant needs an account of them. `TokenInv` says there is one: the n-th message that was
sent is about the file `of[n]` and is at `loc[n]`, in the queue as this or a later copy, with a
worker, counted, or dropped because it was revoked. `Accounts` ties both functions to the
counters, to the number of copies in the queue and to the workers that hold something
(`Busy`). Every step leaves the account as it is, adds a message (`OneIsSent`) or moves one
(`OneMoves`); three lemmas on labelled numbers (`LabelledBound`, `Relabelled`, `Extended`) do
the counting. Then `ended[i] <= sent[i]` is the inclusion of two sets of messages. That a
completed job has counted everything needs `JobInv`, the state of the enqueuer: once it has
reported its end, the total read back is the number sent, so that a count that reaches it has
reached every message.

### 4.4 Control plane (`ControlPlane`)

With one process one request is served at a time (`Alone`). *Settings:* the row in its hands
differs from what operators have set only in what the request itself is to change
(`KeepsConfig`, step by step). *Scopes:* selectors that are stored never overlap, enabled or
not (`Apart`), because a request that is about to store has found no overlap among the scopes
there still are (`NoOverlapFound`); two scopes that match one path would overlap, being both
prefixes of it (`PrefixChain`).

### 4.5 Transfers (`TransferEngine`)

`IInv` has, besides the properties: fingerprints are of versions the source has had; what is
being written was let through, unless it was replaced since (`swapped`); a file that is being
worked on has no record by which it would be skipped, so that an interruption leaves it to the
next run; and a record of use, or an outcome already counted, is of what is there or of an older
version.

### 4.6 Batch coordinator and completion buffer

*Slots and futures.* `CoordinatorInv`: an entry is in one place at a time (`Apart`),
what went back to the broker or was answered with an error has been let go (`Released`), and in
mode "completed" what is held is what somebody waits for (`Awaited`). The pump takes entries from
the queue; `PumpFills` says what it leaves for any queue: all slots taken, or nothing waiting,
and the entries it started are those at the queue's head.

*Acknowledgements.* `Durable`: a future is resolved, and a message acknowledged, after the write
of its window; the way between goes through the task that is writing. For an interruption `Kept`
says that, as long as nothing failed, whatever left the broker has ended or is held, and
`Ending` that the shutdown takes its steps in order, so that in the end nothing is held.

*Buffer.* `Placed` and `AtRest` say who may have drained something: the handler that is
flushing, the interval task at work, the flush at the end. `AckedHeld` follows a completion from
its acknowledgement to the write.

### 4.7 Item actions (`ItemActions`)

The invariant is about the rest of each handler's program. `CopyFirst`: a copy is followed by
the removal, and in a move nothing is removed before a copy is in quarantine, whoever made it.
`Suffices`: what is still to be done, with what has been, makes the action. Both are true of the
programs as they start (`ProgramUnderway`), and stay true when a call has its effect
(`TailUnderway`), is given up (`RestUnderway`) or becomes a move between file systems
(`CrossUnderway`). Another handler can only help: no step brings the source back, or takes back a
copy or a tag (`Progress`). So a program that has come to its end has done the action.

### 4.8 Changes of drives (`DriveChanges`)

No cursor may stand behind a change that nobody has asked for. `Passed` says so of the cursor
that dsx-connect keeps, and of the connector's copy: what they have passed is settled, which is
requested or let go of by the code (`dropped`), or it is in the hands of a task that has stored
the cursor and is about to ask for it (`InHand`). A query takes what is true of the cursor it
starts from to the position it has fetched (`Query`): up to there all is settled, in hand, or
among what it has still to ask for. That makes the order of the connectors visible in the proof.
A drive stores the position first, and is then what holds the changes; a mailbox stores it when
nothing is left to be asked for. `SettledKept` and `HandKept` say that no step of anyone else
takes a change back, and that only the end of the task itself, which asks for the change or
lets it go, takes it out of its hands. `FetchCovers` is where the exclusion of items that were
named in notifications comes in. A restart loses the tasks and lets go of what they held.

### 4.9 What follows a scan (`ResultTasks`)

*Kept.* `VerdictHeld` is stronger than `VerdictKept` in one place: of a worker that has the
verdict it asks that it is at a step that will still pass it on, and not about to acknowledge.
Every step that takes a message, a dead letter or a worker away from the verdict puts it
somewhere else, logs it, or adds its root to `lost`, as Celery does with a retry beyond its own
limit, the dead-letter store when it fails, and the requeue route when it dies.

*Reported once.* As long as no worker has died and no send has raised after sending, a root's
task is in one place: `Sole` says that it is logged at most once and nowhere else, or not yet
logged and one message, one dead letter, with the requeue route, or with one worker. A step
leaves all of it alone (`Untouched`, by `StepUntouched`), or is a step of the one that has it
(`ReceiveStep`, `BearerStep`, `PopStep`, `ResendStep`). A requeued scan request starts a new
root, and `Given` says that nothing carries a root that has not been given out. `AnalyzedOnce`
needs no such condition: whoever is about to send a job's request to DIANNA has set its guard,
which only one worker can do, in one step. TLC checked the whole invariant on the instance of
`dsx_connect` before it was proved.

### 4.10 Full scans (`FullScans`)

`FullInv` is an account of the objects. `FlowInv`: an object that was listed waits to be sent, is
in one request that is under way, or has an answer, one of the three and once; it has been asked
for exactly if its answer is "queued" or was lost. `CountInv` says that the handler's two numbers
are true: `count` is of the objects that were queued, `seen` of those that were listed. `TaskInv`
and `PendingInv` say where requests can be under way and objects wait, for the handlers with tasks
of their own and for those that collect a batch. So *asked for once* is a matter of flow, and
*complete* of the end: `LoopInv` and `LastInv` have the report come after the last request, and
`EndInv` has the listing end at its end or at the limit. For the limit `KeptInv` counts what is
queued together with what still can be (`Kept`), so that the comparison before a batch is sent is
good for all of it; Azure's single requests are compared after they were made, which is why they
are excepted.

### 4.11 Folder scans (`FolderScan`)

*Summary.* `JobInv`, for each job: a path is waiting, in the hands of one worker, or counted
(`CountsOnce`); the total is the number of the three together and the counters that of the last
(`Books`); a job that has not begun has counted nothing, and one that has ended has no worker
at work (`Ends`). After a stop only workers that had looked at the flag before take one more
file, so that those that took one and those that may are no more than there are workers
(`StopsSoon`).

*Quarantine.* `QuarantineKeeps` needs one thing more, `RemovesSafely`: a worker that is about to
remove an original, while the file is in the folder only, has had its copy replaced by another of
the same name. `DiskKept` is what each step may do: what was replaced stays replaced
until it arrives anew, and what leaves the quarantine has been replaced. A copy that breaks off
leaves its beginning under the name, and takes the place of what was there; the history variable
`spoiled` has those names.

### 4.12 Model-checked only

* Liveness (`AllEnd`, `DecisionCarriedOut`, `RequestsRetried`, `CompletionsWritten`, `ItemsEnd`,
  `JobFinishes`, `TransferCompletes`, `CachesConverge`, `LeasesHeal`, `ChangesCatchUp`): needs
  fairness and `ENABLED`, which the prover does not handle.
* What conditions leave out: `OneSlotKept` is about one slot, `CountsKept` about jobs that are
  not batched, as the runs are; the conditions in the table are the code's own limits.

Every invariant and every step property that a passing run checks is stated by a theorem;
`ExclusiveClaim` of `outbox` is that of `ScanOnlyBatch`, and of `stages` that of `ItemWorkflow`.

## 5. Disagreements between the code and what is said of it

* **`stranded_claim`** (`jobs/service.py:1573`). A publisher that dies between claim and
  publish leaves the record "publishing". The relay lists "pending" records only, and
  replay counts "publishing" as covered. The README calls the outbox the "producer-side
  durability boundary".
* **`refused_dianna`** (`jobs/service.py:1518`). For a verdict that the policy treats as
  malicious (a test has "Non-Compliant" lead to a remediation and a DIANNA request), the
  service asks for DIANNA first and refuses its own request, because it compares the raw
  verdict. The policy message is retried and dead-lettered; the remediation is never
  requested.
* **`missed_events`** (`src/connectors/sharepoint/sharepoint_connector.py:1020`). The
  documentation promises that delta reconciliation recovers missed events; the query is
  scheduled only after a notification that was incomplete, or none of whose items was
  posted.
* **`swapped_file`** (`src/dsx_transfer/dsx_transfer/engine.py:115`). The central promise of
  the transfer is that files that are malicious, blocked or excluded are not committed to the
  destination. The engine opens a file once for the gate and once more for the copy: a file that
  is replaced in between is committed unscanned. `DeliveredWasGated` is what does hold.

## 6. Known limits of the properties

Met while modelling; they bound what the passing runs claim.

Jobs:

* A refresh that read the job before it was cancelled overwrites the cancellation
  (`jobs/service.py:452`; `src/dsx_connect_ng/tests/test_job_service.py:959` asserts the
  contrary for the sequential case). `AllEnd` is checked without cancellation.
* The relay's cap, described as one for scan items (`workers/relay_worker.py:206`), also holds
  back the request that a counted item itself waits for (`jobs/service.py:1898`): at the
  cap, after a failed publish, the item waits for ever.
* After a remediation request is out, its publisher sets the item's state to "queued"
  (`jobs/service.py:1669`), which the comment at 1663 warns of for other message types. The
  DIANNA worker's stage update writes back the item state it has read. Either can leave
  an item whose stages have all ended in an earlier state, so `DecisionCarriedOut` speaks of
  the item's state for sequential decisions only.
* A failed publish whose message was delivered writes a stage it read earlier back with
  an error (`jobs/service.py:1609-1638`), and can reopen a stage the worker has ended since.
* `request_workflow_summary_emit` refuses while remediation is "running", not while it is
  "pending" (`jobs/service.py:1540`): with DIANNA the summary may precede remediation.
  `SummaryWaits` therefore states the DIANNA side of the condition only. When a scan result
  goes out too, the delivery stage is "skipped" and the item "completed" for the moment
  before the summary is requested.
* A refused remediation is dead-lettered with its stage still "running": only the scan worker
  has a terminal failure handler. `RemediationAccounted` states that the request is not lost.
* The interval task of the completion buffer ends with its first failed write, which
  `CompletionsWritten` excepts.

Policy rules:

* Every file type the scanner names contains "pe" (…FileTy*pe*), so the test
  `"pe" in file_type` (`workers/policy_engine.py:155`) makes an executable of every typed file:
  blocking executables blocks all of them.
* A scan without a verdict passes the test that refuses DIANNA for files that are neither
  malicious nor suspicious (`jobs/service.py:1517`).
* "malicious_only" is compared with the raw verdict, also for verdicts treated as malicious.
* The payload's delivery target serves the slow path only: with summary targets configured
  as empty, the fast path does not see it.

Connectors:

* The handlers of S3, GCS and Azure ignore a move or tagging that returns `False` and answer
  with success, which `SuccessIsReal` excepts. Azure's copy is only promised when the
  original is deleted; `FileKept` excepts it.
* When the call to a connector fails in any way but a refusal, the remediation worker falls
  back to a stub that reports "succeeded" (`workers/remediation_worker.py:74`).
  `SuccessIsReal` speaks of what a connector has reported.
* An action delivered again after it succeeded finds no file, is refused, and is
  dead-lettered with its stage "running". A new file at the same place would replace the
  one in quarantine.
* Drives store the new cursor before they post the changes it passes; a stop in between, or
  a refused post (`scan_file_request` never raises, so it is counted as posted), loses them.
  `exclude_ids` drops an item that changed again between request and query. A failed read of
  the cursor at startup overwrites it with a newer one. A SharePoint notification with data
  but no id is skipped without asking for a query
  (`src/connectors/sharepoint/sharepoint_connector.py:999`); beside a named one that is posted
  none is made (`:1020`), and nothing is done about the change, which therefore does not count
  as heard of in `ChangesCatchUp`. On OneDrive, a named item outside the asset base is excluded
  from the query, also when it is outside only because its path could not be looked up. A
  mailbox whose attachments cannot be listed has that message skipped. All are in
  `dropped`, or excepted in `CatchesUp`.
* `item_action_move_metainfo in scan_request.location`
  (`src/connectors/framework/dsx_connector.py:898`) is a substring test: with an empty
  quarantine path every request is skipped. The models take a path that is set.

Full scans:

* Azure's single requests are compared with the limit only once they have been gathered, 200 at
  a time, so that a limit below that is exceeded
  (`src/connectors/azure_blob_storage/azure_blob_storage_connector.py:240`). SharePoint's
  count tasks that have finished both as tasks and as enqueued, so that the scan stops short of
  its limit (`src/connectors/sharepoint/sharepoint_connector.py:775`). `LimitKept` excepts both.
* A file that is listed while its job is paused is refused and never asked for again. A batch
  counts the objects it leaves out; the pause is looked up for a batch's first request, and not
  at all when that one is in quarantine.
* When the listing fails, tasks that were created go on after the end of enqueueing was
  reported, which `ScanComplete` excepts.

Folder scans:

* With Tauri, an end that overtakes the answer to the start is not taken to be of the job in the
  window, which shows the scan for ever (`src/dsxa_desktop/web/src/main.js:657`), and so does a
  window whose job was replaced by a second one: a probe of the scanner, or the choice of a
  folder, between click and answer enables the button again. `AllEnd` excepts both (`dropped`).
* With Electron a late rejection of one job can clear the window of the next.
* A quarantined file replaces an earlier one with the same base name
  (`src/dsxa_desktop/src-tauri/src/lib.rs:481`), and a copy that breaks off leaves a part of the
  file in its place (`:484`); `QuarantineKeeps` names both.

Control plane: with two API processes the overlap check of two scopes can pass twice
(`control_plane/service.py:351`), and the completion of a configuration can overwrite what an
operator has just set (`:148`); `OneOwner` and `ConfigKept` are about one process.

dsx_connect:

* A terminal count that comes before `enqueue_done` finishes nothing; if all do, the job
  stays open (`src/dsx_connect/taskworkers/job_state.py:50`). A finish decided before a
  cancellation overwrites it (`:68`). A batched job can be completed while its batch task
  still sends (`src/dsx_connect/app/routers/scan_results.py:253`), and handlers of
  concurrent posts store its total in any order; the runs post singly.
* Tasks are retried by `self.retry` without `max_retries`
  (`src/dsx_connect/taskworkers/workers/base_worker.py:193`), so that Celery's default of 3 holds,
  while the production policy allows 5 (`src/dsx_connect/taskworkers/policy.py:96`). The retry
  beyond 3 raises the error instead: the task ends without a dead letter and without a terminal
  count. `ItemsEnd` and `JobFinishes` are about policies within Celery's limit
  (`RetriesAllowed`), and `VerdictKept` excepts what Celery lets go (`lost`).
* The slot counter's lifetime starts with its first slot
  (`src/dsx_connect/messaging/state_scripts.py:12`) and can end while later ones are held;
  checked with one slot.
* The verdict task turns connection errors of a connector into `unknown_error` dead letters,
  although the retry groups name them. Messages whose dead letter cannot be stored are lost
  (`faults`, `lost`), as is one that the requeue route holds when it dies.
* A dead letter of DIANNA is stored and sent again as a scan request: the file is scanned and
  acted on anew under a new id. DIANNA runs after the item action, on the original place.
  The guard against a second analysis is set before the send, so that a crash in between
  leaves none; without a job there may be no guard, and two.
* Only the death of a whole worker has its message delivered again: `task_acks_late` is set,
  `task_reject_on_worker_lost` is not.

dsx_transfer: text that is cut off in the checkpoint stops every later run, which
`TransferCompletes` excepts. A file that is replaced between the gate's reading and the
copy's is delivered unscanned (`src/dsx_transfer/dsx_transfer/engine.py:104`, `:115`), as run
`swapped_file` shows. The record then has the fingerprint taken when the run was planned, so a
later run scans the file again and may block it, but removes nothing from the destination. A
file that is being read when it is replaced is read to its end, as on a file system that
replaces by renaming; one that is overwritten in place while it is read is not modelled. Versions
only grow: an old file that is restored with its old time of modification is not covered.

## 7. Not modelled

In the modelled components: `submit_job` (single jobs and their idempotency key), manual
stage requests, the legacy policy decision, reports; a crash of the submitter; the wake-up
of the relay (`LISTEN/NOTIFY`); reconnection to the broker; ordering and delays of queues;
items that are not trusted, and leases, in the batch coordinator; failures of the terminal
failure handler; gateway applications and the policies of scopes in the control plane;
changes of a scope's selector; queries and clearing of dead letters; the upload hooks of
`src/dsx_transfer/dsx_transfer/app.py`, and two processes on one checkpoint; the actions of
the mail and Salesforce connectors, and the monitors of folders and buckets.
`ItemLedger` leaves out the parent row, cancellation and relay crashes, which `JobLedger`
has. The relay of `ItemLedger` counts and picks in one action: none of its properties is
about the cap being exceeded, which `OutboxRelay`, where they are two actions, is used for.

Whole components: the in-memory job repository (a test double), the result sinks, the local
runtime, the file helpers of `src/shared`, SDKs, the other front ends, deployment and documents
are input and output, presentation or packaging around the modelled parts. They are most of the
repository's lines: the console alone (`api/routes/ui.py`) has 2,260, nearly all of them queries
turned into views.

## 8. Plan

Built, in this order: `ItemStages`, `JobLedger`, `OutboxRelay`, `ScanWorker`,
`ScanOnlyBatch` with `OutboxContract`; `ItemLedger` and `ItemWorkflow`; `CompletionBuffer` and
`BatchCoordinator`; `TransferEngine`, `ScanTasks`, `ConnectorRegistry`, `ControlPlane`;
`PolicyRules`, `ItemActions`, `DriveChanges`, `ResultTasks`; `FullScans` and `FolderScan`; and
the proofs of section 4.

Next, most important first:

1. `submit_job` with its idempotency key, and the manual stage endpoints, in `JobLedger` and
   `ItemWorkflow`.
2. The readers and the file filters, as operators against a reference definition.
