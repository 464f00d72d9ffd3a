----------------------------- MODULE JobLedger ------------------------------
(***************************************************************************)
(* The shared state of a scan-only batch job of dsx_connect_ng: the rows of*)
(* cp_jobs, cp_job_items, cp_job_outbox and cp_scan_runtime_leases, the    *)
(* RabbitMQ scan queue, and the locals of the processes that work on them. *)
(* With it, the repository's transactions and the JobService operations the*)
(* API runs: submit_batch_job, cancel_job and get_job_progress.            *)
(*                                                                         *)
(* Every repository call of the code commits a transaction of its own, so  *)
(* every action is one such call (or one call to the bus), and a service   *)
(* method is a sequence of actions that other processes interleave with.   *)
(* What a method read earlier and still uses is a local.                   *)
(*                                                                         *)
(* A job's error code is "job_cancelled" exactly when its state is         *)
(* "cancelled" (they are always written together), so only the state is    *)
(* kept.                                                                   *)
(***************************************************************************)
EXTENDS Integers, FiniteSets, ItemStages

CONSTANTS
    Items,             \* the job's items
    Relays,            \* relay_worker processes
    Workers,           \* scan workers, one message in flight each
    Deferred,          \* submit_batch_job defers publication to the relay
    Coarse,            \* effectiveRecoveryMode # "item" (low persistence)
    BatchSize,         \* flush_outbox limit
    MaxActive,         \* --max-active-scan-items
    MaxRetry,          \* rabbitmq.retry_max_attempts
    MaxRecords,        \* bound: outbox records per item
    MaxBusFailures,    \* bound: bus.publish exceptions
    MaxScanFailures,   \* bound: exceptions raised while scanning
    MaxWorkerCrashes,  \* bound: scan worker crashes
    MaxRelayCrashes,   \* bound: relay crashes
    Cancels,           \* whether the operator cancels the job
    Polls              \* whether a client asks for progress

ASSUME ConstantsAssumption ==
    /\ IsFiniteSet(Items) /\ Items # {}
    /\ Relays \cap Workers = {}
    /\ {"api", "operator", "client"} \cap (Relays \cup Workers) = {}
    /\ {Deferred, Coarse, Cancels, Polls} \subseteq BOOLEAN
    /\ {BatchSize, MaxActive, MaxRetry, MaxRecords, MaxBusFailures,
        MaxScanFailures, MaxWorkerCrashes, MaxRelayCrashes} \subseteq Nat
    /\ MaxRecords > 0

VARIABLES
    jobState,   \* cp_jobs.state, "none" before create_job
    item,       \* cp_job_items.state, "none" before the row exists
    stage,      \* the five stage columns of cp_job_items
    outbox,     \* cp_job_outbox.publish_state, "none" before the row exists
    lease,      \* items with a row in cp_scan_runtime_leases
    queue,      \* copies of each message in the scan queue and its retry queue
    dlq,        \* items with a message in the dead-letter queue
    delivered,  \* history: records whose message the broker has accepted
    pc,         \* what each process does next
    ret,        \* where _refresh_parent_job_state returns to
    verdict,    \* the job state a refresh is about to write
    rec,        \* the outbox record (or the item of one to create) in hand
    todo,       \* records a flush has yet to publish
    sent,       \* records a bulk flush has published and not yet marked
    outcome,    \* results of the publishes of the current call
    capacity,   \* publish_limit of the current flush
    left,       \* items a replay has yet to visit
    covered,    \* items that had an open outbox record when replay looked
    msg,        \* the unacknowledged message of a worker
    snap,       \* the item row a stage update read before it writes
    cancelSeen, \* workers whose _CANCELLED_JOB_IDS holds the job
    failures    \* failures injected so far, per kind

rows == <<jobState, item, stage, lease>>
ledger == <<rows, outbox>>
broker == <<queue, dlq, delivered>>
flushVars == <<todo, sent, capacity>>
replayVars == <<left, covered>>
relayVars == <<flushVars, replayVars>>
publisherVars == <<rec, outcome, relayVars>>
workerVars == <<msg, snap, cancelSeen>>
refreshVars == <<ret, verdict>>
vars == <<ledger, broker, pc, refreshVars, publisherVars, workerVars, failures>>

NoRow == [state |-> "none", stages |-> NoStages]

Publishers == {"api"} \cup Relays
Procs == {"api", "operator", "client"} \cup Relays \cup Workers
Records == Items \X (1 .. MaxRecords)
Messages == Items \X (0 .. MaxRetry)
SomeRecord == CHOOSE r \in Records : TRUE
SomeMessage == CHOOSE m \in Messages : TRUE
Failures == {"bus", "scan", "worker", "relay"}

FailureBound(k) ==
    CASE k = "bus"    -> MaxBusFailures
      [] k = "scan"   -> MaxScanFailures
      [] k = "worker" -> MaxWorkerCrashes
      [] k = "relay"  -> MaxRelayCrashes

Created == {i \in Items : item[i] # "none"}
Pending == {r \in Records : outbox[r] = "pending"}

Init ==
    /\ jobState = "none"
    /\ item = [i \in Items |-> "none"]
    /\ stage = [i \in Items |-> NoStages]
    /\ outbox = [r \in Records |-> "none"]
    /\ lease = {}
    /\ queue = [m \in Messages |-> 0]
    /\ dlq = {}
    /\ delivered = {}
    /\ pc = [p \in Procs |->
               IF p = "api" THEN "submit" ELSE IF p \in Relays THEN "boot" ELSE "idle"]
    /\ ret = [p \in Procs |-> "idle"]
    /\ verdict = [p \in Procs |-> "keep"]
    /\ rec = [p \in Publishers |-> SomeRecord]
    /\ todo = [p \in Relays |-> {}]
    /\ sent = [p \in Relays |-> {}]
    /\ outcome = [p \in Publishers |-> {}]
    /\ capacity = [p \in Relays |-> 0]
    /\ left = [p \in Relays |-> {}]
    /\ covered = [p \in Relays |-> {}]
    /\ msg = [w \in Workers |-> SomeMessage]
    /\ snap = [w \in Workers |-> NoRow]
    /\ cancelSeen = {}
    /\ failures = [k \in Failures |-> 0]
-----------------------------------------------------------------------------
(***************************************************************************)
(* Repository transactions.                                                *)
(***************************************************************************)

update_job_state(s) == jobState' = s

update_job_item_state(i, s) == item' = [item EXCEPT ![i] = s]

\* Mutant: the update trusts the caller's earlier test of the stage.
update_job_item_stage_unchecked(i, name, s, derived) ==
    /\ stage' = [stage EXCEPT ![i][name] = s]
    /\ item' = [item EXCEPT ![i] = derived]

\* The row is locked; a terminal stage is never moved back to "running".
update_job_item_stage(i, name, s, derived) ==
    IF s = "running" /\ stage[i][name] \in TerminalStageStates
    THEN UNCHANGED <<item, stage>>
    ELSE /\ stage' = [stage EXCEPT ![i][name] = s]
         /\ item' = [item EXCEPT ![i] = derived]

\* The multi-stage update of complete_scan_only.
update_job_item_stages(i) ==
    /\ stage' = [stage EXCEPT ![i] =
                   [s \in StageNames |-> IF s = "scan" THEN "completed" ELSE "skipped"]]
    /\ item' = [item EXCEPT ![i] = "completed"]

cancel_job_items ==
    item' = [i \in Items |-> IF item[i] \in CancellableStates THEN "cancelled" ELSE item[i]]

create_outbox_record(r) ==
    /\ outbox[r] = "none"
    /\ outbox' = [outbox EXCEPT ![r] = "pending"]

claim_outbox_record(r) ==
    /\ outbox[r] = "pending"
    /\ outbox' = [outbox EXCEPT ![r] = "publishing"]

claim_outbox_records(R) ==
    outbox' = [r \in Records |-> IF r \in R /\ outbox[r] = "pending"
                                 THEN "publishing" ELSE outbox[r]]

mark_outbox_published(r) == outbox' = [outbox EXCEPT ![r] = "published"]

mark_outbox_published_many(R) ==
    outbox' = [r \in Records |-> IF r \in R THEN "published" ELSE outbox[r]]

\* Mutants: a failed publish is closed, or given a state nothing selects.
mark_outbox_failed_closed(r) == outbox' = [outbox EXCEPT ![r] = "published"]
mark_outbox_failed_kept(r) == outbox' = [outbox EXCEPT ![r] = "failed"]

mark_outbox_failed(r) == outbox' = [outbox EXCEPT ![r] = "pending"]

\* RabbitMQ: a persistent message joins the queue.
Enqueue(m) == queue' = [queue EXCEPT ![m] = @ + 1]

\* bus.publish of the message of record r.
BusAccepts(r) ==
    /\ Enqueue(<<r[1], 0>>)
    /\ delivered' = delivered \cup {r}
-----------------------------------------------------------------------------
Goto(p, l) == pc' = [pc EXCEPT ![p] = l]

Fail(k) ==
    /\ failures[k] < FailureBound(k)
    /\ failures' = [failures EXCEPT ![k] = @ + 1]

(***************************************************************************)
(* _refresh_parent_job_state: get_job, then summarize_job_items, then      *)
(* update_job_state, three transactions.                                   *)
(***************************************************************************)
CallRefresh(p, l) ==
    /\ Goto(p, "refresh")
    /\ ret' = [ret EXCEPT ![p] = l]
    /\ UNCHANGED verdict

RefreshReturn(p) ==
    /\ Goto(p, ret[p])
    /\ ret' = [ret EXCEPT ![p] = "idle"]

RefreshReadJob(p) ==
    /\ pc[p] = "refresh"
    /\ IF jobState = "cancelled"
       THEN Goto(p, "refresh_write") /\ verdict' = [verdict EXCEPT ![p] = "cancelled"]
       ELSE Goto(p, "refresh_summarize") /\ UNCHANGED verdict
    /\ UNCHANGED <<ledger, broker, ret, publisherVars, workerVars, failures>>

RefreshSummarize(p) ==
    /\ pc[p] = "refresh_summarize"
    /\ LET v == ParentState(item, Created)
       IN  /\ verdict' = [verdict EXCEPT ![p] = v]
           /\ IF v = "keep"
              THEN RefreshReturn(p)
              ELSE Goto(p, "refresh_write") /\ UNCHANGED ret
    /\ UNCHANGED <<ledger, broker, publisherVars, workerVars, failures>>

RefreshWrite(p) ==
    /\ pc[p] = "refresh_write"
    /\ update_job_state(verdict[p])
    /\ verdict' = [verdict EXCEPT ![p] = "keep"]
    /\ RefreshReturn(p)
    /\ UNCHANGED <<item, stage, outbox, lease, broker, publisherVars, workerVars,
                   failures>>

Refresh(p) == RefreshReadJob(p) \/ RefreshSummarize(p) \/ RefreshWrite(p)
-----------------------------------------------------------------------------
(***************************************************************************)
(* submit_batch_job, in its deferred form (items and outbox records in one *)
(* transaction) and its immediate one (item by item, published inline).    *)
(***************************************************************************)
CreateJob ==
    /\ pc["api"] = "submit"
    /\ update_job_state("accepted")
    /\ Goto("api", IF Deferred THEN "bulk_create" ELSE "next")
    /\ UNCHANGED <<item, stage, outbox, lease, broker, refreshVars, publisherVars,
                   workerVars, failures>>

BulkCreate ==
    /\ pc["api"] = "bulk_create"
    /\ item' = [i \in Items |-> "publish_pending"]
    /\ outbox' = [r \in Records |-> IF r[2] = 1 THEN "pending" ELSE outbox[r]]
    /\ Goto("api", "submitted")
    /\ UNCHANGED <<jobState, stage, lease, broker, refreshVars, publisherVars,
                   workerVars, failures>>

CreateItem(i) ==
    /\ pc["api"] = "next"
    /\ item[i] = "none"
    /\ update_job_item_state(i, "accepted")
    /\ rec' = [rec EXCEPT !["api"] = <<i, 1>>]
    /\ Goto("api", "create_outbox")
    /\ UNCHANGED <<jobState, stage, outbox, lease, broker, refreshVars, outcome,
                   relayVars, workerVars, failures>>

\* create_outbox_record with a fresh identifier, by the submitter or by a replay.
CreateOutbox(p) ==
    /\ pc[p] = "create_outbox"
    /\ \E n \in 1 .. MaxRecords :
         LET r == <<rec[p][1], n>>
         IN  /\ \A k \in 1 .. (n - 1) : outbox[<<rec[p][1], k>>] # "none"
             /\ create_outbox_record(r)
             /\ rec' = [rec EXCEPT ![p] = r]
    /\ Goto(p, IF p = "api" THEN "claim" ELSE "replay")
    /\ UNCHANGED <<rows, broker, refreshVars, outcome, relayVars, workerVars,
                   failures>>

\* The closing update_job_state overwrites whatever the state is by now.
SubmitDone ==
    /\ \/ pc["api"] = "submitted"
       \/ pc["api"] = "next" /\ Created = Items
    /\ update_job_state(IF Deferred \/ "failed" \in outcome["api"]
                        THEN "publish_pending" ELSE "queued")
    /\ Goto("api", "done")
    /\ UNCHANGED <<item, stage, outbox, lease, broker, refreshVars, publisherVars,
                   workerVars, failures>>

Submit ==
    \/ CreateJob \/ BulkCreate
    \/ \E i \in Items : CreateItem(i)
    \/ SubmitDone
-----------------------------------------------------------------------------
(***************************************************************************)
(* cancel_job: the job row, then its items, with no test of either.        *)
(***************************************************************************)
CancelJob ==
    /\ Cancels
    /\ pc["operator"] = "idle"
    /\ jobState # "none"
    /\ update_job_state("cancelled")
    /\ Goto("operator", "cancel_items")
    /\ UNCHANGED <<item, stage, outbox, lease, broker, refreshVars, publisherVars,
                   workerVars, failures>>

CancelItems ==
    /\ pc["operator"] = "cancel_items"
    /\ cancel_job_items
    /\ Goto("operator", "done")
    /\ UNCHANGED <<jobState, stage, outbox, lease, broker, refreshVars, publisherVars,
                   workerVars, failures>>

\* get_job_progress: the job is read, then its items; a job that was not
\* terminal while all its items are is refreshed.
PollReadJob ==
    /\ Polls
    /\ pc["client"] = "idle"
    /\ jobState \notin {"none"} \cup TerminalStates
    /\ Goto("client", "poll")
    /\ UNCHANGED <<ledger, broker, refreshVars, publisherVars, workerVars, failures>>

PollSummarize ==
    /\ pc["client"] = "poll"
    /\ IF Created # {} /\ \A i \in Created : item[i] \in TerminalStates
       THEN CallRefresh("client", "idle")
       ELSE Goto("client", "idle") /\ UNCHANGED refreshVars
    /\ UNCHANGED <<ledger, broker, publisherVars, workerVars, failures>>
=============================================================================
