----------------------------- MODULE ScanWorker -----------------------------
(***************************************************************************)
(* A scan worker on a scan-only batch: process_scan_message, run by        *)
(* consume_queue with its retry queue, dead-letter queue and terminal failure*)
(* handler.  A worker has one message in flight.                           *)
(***************************************************************************)
EXTENDS JobLedger

ItemOf(w) == msg[w][1]

\* A delivery; a worker that knows the job is cancelled acknowledges at once.
Deliver(w, m) ==
    /\ pc[w] = "idle"
    /\ queue[m] > 0
    /\ queue' = [queue EXCEPT ![m] = @ - 1]
    /\ msg' = [msg EXCEPT ![w] = m]
    /\ Goto(w, IF w \in cancelSeen THEN "ack" ELSE "check_item")
    /\ UNCHANGED <<ledger, dlq, delivered, refreshVars, publisherVars, snap,
                   cancelSeen, failures>>

\* get_job_item_or_404, before the scan and again after it.
CheckItem(w) ==
    /\ pc[w] \in {"check_item", "recheck_item"}
    /\ snap' = [snap EXCEPT ![w].state = item[ItemOf(w)]]
    /\ Goto(w, IF pc[w] = "check_item" THEN "check_job" ELSE "recheck_job")
    /\ UNCHANGED <<ledger, broker, refreshVars, publisherVars, msg, cancelSeen,
                   failures>>

\* is_job_cancelled; a cancelled item or job ends the handler.
CheckJob(w) ==
    /\ pc[w] \in {"check_job", "recheck_job"}
    /\ cancelSeen' = IF jobState = "cancelled" THEN cancelSeen \cup {w} ELSE cancelSeen
    /\ LET stop == w \in cancelSeen \/ jobState = "cancelled" \/ snap[w].state = "cancelled"
       IN  IF pc[w] = "check_job"
           THEN Goto(w, IF stop THEN "ack" ELSE IF Coarse THEN "lease" ELSE "run_read")
           ELSE Goto(w, IF stop THEN "release" ELSE "complete")
    /\ snap' = [snap EXCEPT ![w] = NoRow]
    /\ UNCHANGED <<ledger, broker, refreshVars, publisherVars, msg, failures>>

\* build_scan_reader raises TerminalScanError, which consume_queue receives.
ReaderUnavailable(w) ==
    /\ pc[w] = IF Coarse THEN "lease" ELSE "run_read"
    /\ Fail("scan")
    /\ Goto(w, "exhausted_read")
    /\ UNCHANGED <<ledger, broker, refreshVars, publisherVars, workerVars>>

\* _update_job_item_stage: the row is read in one transaction ...
ReadForUpdate(w) ==
    /\ pc[w] \in {"run_read", "fail_read", "exhausted_read"}
    /\ IF pc[w] = "run_read" /\ stage[ItemOf(w)]["scan"] \in TerminalStageStates
       THEN Goto(w, "lease") /\ UNCHANGED snap
       ELSE /\ snap' = [snap EXCEPT ![w] = [state  |-> item[ItemOf(w)],
                                            stages |-> stage[ItemOf(w)]]]
            /\ Goto(w, CASE pc[w] = "run_read"       -> "run_write"
                           [] pc[w] = "fail_read"      -> "fail_write"
                           [] pc[w] = "exhausted_read" -> "exhausted_write")
    /\ UNCHANGED <<ledger, broker, refreshVars, publisherVars, msg, cancelSeen,
                   failures>>

\* ... and written in another, with the item state derived from what was read.
WriteStage(w) ==
    /\ pc[w] \in {"run_write", "fail_write", "exhausted_write"}
    /\ LET s   == IF pc[w] = "run_write" THEN "running" ELSE "failed"
           new == [snap[w].stages EXCEPT !["scan"] = s]
       IN  update_job_item_stage(ItemOf(w), "scan", s,
                                 DeriveItemState(snap[w].state, new, "scan"))
    /\ CallRefresh(w, CASE pc[w] = "run_write"       -> "lease"
                        [] pc[w] = "fail_write"      -> "release"
                        [] pc[w] = "exhausted_write" -> "dead_letter")
    /\ snap' = [snap EXCEPT ![w] = NoRow]
    /\ UNCHANGED <<jobState, outbox, lease, broker, publisherVars, msg, cancelSeen,
                   failures>>

MarkRuntimeStarted(w) ==
    /\ pc[w] = "lease"
    /\ lease' = lease \cup {ItemOf(w)}
    /\ Goto(w, "scan")
    /\ UNCHANGED <<jobState, item, stage, outbox, broker, refreshVars, publisherVars,
                   workerVars, failures>>

\* execute_scan returns a result.
ScanSucceeds(w) ==
    /\ pc[w] = "scan"
    /\ Goto(w, "recheck_item")
    /\ UNCHANGED <<ledger, broker, refreshVars, publisherVars, workerVars, failures>>

\* execute_scan raises: TerminalScanError is recorded here, the rest retried.
ScanFails(w) ==
    /\ pc[w] = "scan"
    /\ Fail("scan")
    /\ Goto(w, "fail_read") \/ Goto(w, "release_retry")
    /\ UNCHANGED <<ledger, broker, refreshVars, publisherVars, workerVars>>

CompleteScanOnly(w) ==
    /\ pc[w] = "complete"
    /\ update_job_item_stages(ItemOf(w))
    /\ Goto(w, "release")
    /\ UNCHANGED <<jobState, outbox, lease, broker, refreshVars, publisherVars,
                   workerVars, failures>>

\* Mutant: the lease is cleared on the normal path only.
ClearRuntime_on_success(w) ==
    /\ pc[w] \in {"release", "release_retry"}
    /\ lease' = IF pc[w] = "release" THEN lease \ {ItemOf(w)} ELSE lease
    /\ Goto(w, IF pc[w] = "release" THEN "ack" ELSE "retry")
    /\ UNCHANGED <<jobState, item, stage, outbox, broker, refreshVars, publisherVars,
                   workerVars, failures>>

\* The finally clause: clear_scan_runtime.
ClearRuntime(w) ==
    /\ pc[w] \in {"release", "release_retry"}
    /\ lease' = lease \ {ItemOf(w)}
    /\ Goto(w, IF pc[w] = "release" THEN "ack" ELSE "retry")
    /\ UNCHANGED <<jobState, item, stage, outbox, broker, refreshVars, publisherVars,
                   workerVars, failures>>

\* Mutant: exhausted retries go to the dead-letter queue without the handler.
Retry_no_handler(w) ==
    /\ pc[w] = "retry"
    /\ \/ /\ msg[w][2] + 1 <= MaxRetry
          /\ Enqueue(<<ItemOf(w), msg[w][2] + 1>>)
          /\ Goto(w, "ack")
       \/ /\ msg[w][2] + 1 > MaxRetry
          /\ Goto(w, "dead_letter")
          /\ UNCHANGED queue
    /\ UNCHANGED <<ledger, dlq, delivered, refreshVars, publisherVars, workerVars,
                   failures>>

\* A copy with the next attempt number, or the terminal failure handler.
Retry(w) ==
    /\ pc[w] = "retry"
    /\ \/ /\ msg[w][2] + 1 <= MaxRetry
          /\ Enqueue(<<ItemOf(w), msg[w][2] + 1>>)
          /\ Goto(w, "ack")
       \/ /\ msg[w][2] + 1 > MaxRetry
          /\ Goto(w, "exhausted_read")
          /\ UNCHANGED queue
    /\ UNCHANGED <<ledger, dlq, delivered, refreshVars, publisherVars, workerVars,
                   failures>>

DeadLetter(w) ==
    /\ pc[w] = "dead_letter"
    /\ dlq' = dlq \cup {ItemOf(w)}
    /\ Goto(w, "ack")
    /\ UNCHANGED <<ledger, queue, delivered, refreshVars, publisherVars, workerVars,
                   failures>>

Ack(w) ==
    /\ pc[w] = "ack"
    /\ Goto(w, "idle")
    /\ msg' = [msg EXCEPT ![w] = SomeMessage]
    /\ snap' = [snap EXCEPT ![w] = NoRow]
    /\ UNCHANGED <<ledger, broker, refreshVars, publisherVars, cancelSeen, failures>>

Worker(w) ==
    \/ \E m \in Messages : Deliver(w, m)
    \/ CheckItem(w) \/ CheckJob(w) \/ ReadForUpdate(w) \/ WriteStage(w)
    \/ MarkRuntimeStarted(w) \/ ScanSucceeds(w) \/ CompleteScanOnly(w)
    \/ ClearRuntime(w) \/ Retry(w) \/ DeadLetter(w) \/ Ack(w)

\* The broker redelivers the unacknowledged message of a dead worker.
WorkerCrash(w) ==
    /\ pc[w] # "idle"
    /\ Fail("worker")
    /\ Enqueue(msg[w])
    /\ Goto(w, "idle")
    /\ verdict' = [verdict EXCEPT ![w] = "keep"]
    /\ ret' = [ret EXCEPT ![w] = "idle"]
    /\ msg' = [msg EXCEPT ![w] = SomeMessage]
    /\ snap' = [snap EXCEPT ![w] = NoRow]
    /\ cancelSeen' = cancelSeen \ {w}
    /\ UNCHANGED <<ledger, dlq, delivered, publisherVars>>
=============================================================================
