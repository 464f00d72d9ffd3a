---------------------------- MODULE ItemWorkflow ----------------------------
(***************************************************************************)
(* The workers of one job item: scan, policy, remediation, DIANNA and the  *)
(* result sink.  Each takes a request off its queue, marks its stage       *)
(* running, does its work, completes the stage and emits the requests that *)
(* follow (_maybe_emit_follow_on_requests).  What is decided on a row that *)
(* was just read is decided in the action that reads it.                   *)
(***************************************************************************)
EXTENDS ItemLedger

DeliveryBlockedByDianna(x) ==
    x.wait /\ x.stage["dianna"] \notin TerminalStageStates

\* consume_queue of a worker whose handler has raised.
Raised(w) == Goto(w, IF msg[w][2] < MaxRetry THEN "retry" ELSE "dead_letter")

(***************************************************************************)
(* Decisions on a row x, bottom up.  p goes on with the first request that *)
(* is due, or acknowledges its message.                                    *)
(***************************************************************************)

\* _maybe_request_workflow_summary_emit.
Summary(p, x) ==
    IF plan.summary THEN Continue(p, "request_summary")
    ELSE IF /\ x.stage["delivery"] = "pending"
            /\ x.stage["remediation"] \in TerminalStageStates
            /\ ~DeliveryBlockedByDianna(x)
         THEN CallUpdate(p, "delivery", "skipped", "ack")
         ELSE Continue(p, "ack")

\* A stage result goes out first, if the decision asks for it.
ResultThenSummary(p, x, due) ==
    IF due THEN CallRequest(p, "aux", "aux_done") ELSE Summary(p, x)

AfterDianna(p, x) ==
    IF plan.remediation THEN CallRequest(p, "remediation", "ack")
    ELSE IF x.stage["remediation"] = "pending"
         THEN CallUpdate(p, "remediation", "skipped", "remediation_done")
         ELSE ResultThenSummary(p, x, plan.scanResult)

\* Mutant: returns after the request, as it does after that of a remediation.
AfterPolicy_returns(p, x) ==
    IF plan.refused THEN Raised(p) /\ UNCHANGED <<ret, rec, update>>
    ELSE IF plan.dianna THEN CallRequest(p, "dianna", "ack")
    ELSE IF x.stage["dianna"] = "pending"
         THEN CallUpdate(p, "dianna", "skipped", "dianna_done")
         ELSE AfterDianna(p, x)

\* request_dianna_analysis raises a conflict for a verdict or a content source it does not
\* accept, and each redelivery of the message gets as far.
AfterPolicy(p, x) ==
    IF plan.refused THEN Raised(p) /\ UNCHANGED <<ret, rec, update>>
    ELSE IF plan.dianna THEN CallRequest(p, "dianna", "dianna_done")
    ELSE IF x.stage["dianna"] = "pending"
         THEN CallUpdate(p, "dianna", "skipped", "dianna_done")
         ELSE AfterDianna(p, x)

\* The row is read again where the code reads it again.
FollowOn(p) ==
    /\ \/ pc[p] = "followon" /\ p = "policy" /\ plan.wait /\ Continue(p, "set_wait")
       \/ pc[p] = "followon" /\ p = "policy" /\ ~plan.wait /\ AfterPolicy(p, Row)
       \/ pc[p] = "wait_set" /\ AfterPolicy(p, Row)
       \/ pc[p] = "dianna_done" /\ AfterDianna(p, Row)
       \/ pc[p] = "remediation_done" /\ ResultThenSummary(p, Row, plan.scanResult)
       \/ /\ pc[p] = "followon" /\ p = "remediation"
          /\ ResultThenSummary(p, Row, plan.remediationResult)
       \/ /\ pc[p] = "followon" /\ p = "dianna"
          /\ IF wait THEN ResultThenSummary(p, Row, plan.diannaResult)
                     ELSE Continue(p, "ack")
       \/ pc[p] = "summary" /\ Summary(p, Row)
    /\ UNCHANGED <<plan, row, outbox, queue, dlq, snap, msg, failures>>

SetWait(p) ==
    /\ pc[p] = "set_wait"
    /\ wait' = TRUE
    /\ Goto(p, "wait_set")
    /\ UNCHANGED <<plan, item, stage, outbox, queue, dlq, locals, failures>>

\* request_stage_result_delivery, once its request is out.
AuxDone(p) ==
    /\ pc[p] = "aux_done"
    /\ IF stage["remediation"] \in {"completed", "skipped"} /\ stage["delivery"] = "pending"
       THEN CallUpdate(p, "delivery", "skipped", "summary")
       ELSE Continue(p, "summary")
    /\ UNCHANGED <<plan, row, outbox, queue, dlq, snap, msg, failures>>

\* Mutant: the summary is requested whether or not DIANNA is still at work.
RequestSummary_unblocked(p) ==
    /\ pc[p] = "request_summary"
    /\ IF stage["remediation"] = "running"
       THEN Continue(p, "ack")
       ELSE IF item # "deliver_pending"
       THEN Continue(p, "set_deliver_pending")
       ELSE CallRequest(p, "summary", "ack")
    /\ UNCHANGED <<plan, row, outbox, queue, dlq, snap, msg, failures>>

\* request_workflow_summary_emit: a conflict ends the follow-on quietly.
RequestSummary(p) ==
    /\ pc[p] = "request_summary"
    /\ IF stage["remediation"] = "running" \/ DeliveryBlockedByDianna(Row)
       THEN Continue(p, "ack")
       ELSE IF item # "deliver_pending"
       THEN Continue(p, "set_deliver_pending")
       ELSE CallRequest(p, "summary", "ack")
    /\ UNCHANGED <<plan, row, outbox, queue, dlq, snap, msg, failures>>

SetDeliverPending(p) ==
    /\ pc[p] = "set_deliver_pending"
    /\ item' = "deliver_pending"
    /\ CallRequest(p, "summary", "ack")
    /\ UNCHANGED <<plan, stage, wait, outbox, queue, dlq, snap, msg, failures>>

Follow(p) ==
    \/ FollowOn(p) \/ SetWait(p) \/ AuxDone(p) \/ RequestSummary(p) \/ SetDeliverPending(p)
-----------------------------------------------------------------------------
(***************************************************************************)
(* The process_..._message handlers and consume_queue around them.         *)
(***************************************************************************)

\* A stage result is emitted without touching the delivery stage.
Deliver(w, m) ==
    /\ pc[w] = "idle"
    /\ m[1] \in KindsOf(w)
    /\ queue[m] > 0
    /\ queue' = [queue EXCEPT ![m] = @ - 1]
    /\ msg' = [msg EXCEPT ![w] = m]
    /\ IF m[1] = "aux"
       THEN /\ Goto(w, "execute_aux")
            /\ UNCHANGED <<ret, rec, update>>
       ELSE CallUpdate(w, StageOf(w), "running", "execute")
    /\ UNCHANGED <<plan, row, outbox, dlq, snap, failures>>

\* The executor returns; the stage is completed, all stages at once if the policy
\* decision leaves nothing to do.
Execute(w) ==
    /\ \/ pc[w] = "execute_aux" /\ Continue(w, "ack")
       \/ /\ pc[w] = "execute" /\ w = "policy" /\ plan.fast
          /\ IF plan.scanResult THEN CallRequest(w, "aux", "fast_write")
                                ELSE Continue(w, "fast_write")
       \/ /\ pc[w] = "execute" /\ ~(w = "policy" /\ plan.fast)
          /\ CallUpdate(w, StageOf(w), "completed",
                        CASE w = "scan" -> "request_policy"
                          [] w = "sink" -> "ack"
                          [] OTHER      -> "followon")
    /\ UNCHANGED <<plan, row, outbox, queue, dlq, snap, msg, failures>>

\* The multi-stage update of the fast path: not guarded by what is stored.
FastWrite(w) ==
    /\ pc[w] = "fast_write"
    /\ stage' = [s \in StageNames |->
                   IF s = "scan" THEN stage[s] ELSE IF s = "policy" THEN "completed" ELSE "skipped"]
    /\ item' = "completed"
    /\ Goto(w, "ack")
    /\ UNCHANGED <<plan, wait, outbox, queue, dlq, locals, failures>>

\* complete_scan_and_request_policy reads its update back before the request.
RequestPolicy(w) ==
    /\ pc[w] = "request_policy"
    /\ CallRequest(w, "policy", "ack")
    /\ UNCHANGED <<plan, row, outbox, queue, dlq, snap, msg, failures>>

\* The executor raises.
ExecuteFails(w) ==
    /\ pc[w] \in {"execute", "execute_aux"}
    /\ w # "scan"
    /\ Fail("exec")
    /\ Raised(w)
    /\ UNCHANGED <<plan, row, outbox, queue, dlq, locals>>

\* The connector refuses the action: a TerminalScanError.
RemediationRefused ==
    /\ pc["remediation"] = "execute"
    /\ Fail("refusal")
    /\ Goto("remediation", "dead_letter")
    /\ UNCHANGED <<plan, row, outbox, queue, dlq, locals>>

\* Mutant: the failed message is acknowledged and no copy is made.
Retry_dropped(w) ==
    /\ pc[w] = "retry"
    /\ Goto(w, "ack")
    /\ UNCHANGED <<plan, row, outbox, queue, dlq, locals, failures>>

Retry(w) ==
    /\ pc[w] = "retry"
    /\ Enqueue(<<msg[w][1], msg[w][2] + 1>>)
    /\ Goto(w, "ack")
    /\ UNCHANGED <<plan, row, outbox, dlq, locals, failures>>

\* Mutant: the failed message is acknowledged and kept nowhere.
DeadLetter_dropped(w) ==
    /\ pc[w] = "dead_letter"
    /\ Goto(w, "ack")
    /\ UNCHANGED <<plan, row, outbox, queue, dlq, locals, failures>>

\* Only the scan worker (see ScanWorker) has a terminal failure handler.
DeadLetter(w) ==
    /\ pc[w] = "dead_letter"
    /\ dlq' = dlq \cup {msg[w]}
    /\ Goto(w, "ack")
    /\ UNCHANGED <<plan, row, outbox, queue, locals, failures>>

Ack(w) ==
    /\ pc[w] = "ack"
    /\ Goto(w, "idle")
    /\ msg' = [msg EXCEPT ![w] = NoMessage]
    /\ UNCHANGED <<plan, row, outbox, queue, dlq, ret, rec, update, snap, failures>>

Worker(w) ==
    \/ \E m \in Messages : Deliver(w, m)
    \/ Execute(w) \/ FastWrite(w) \/ RequestPolicy(w) \/ Follow(w)
    \/ Retry(w) \/ DeadLetter(w) \/ Ack(w)

\* The process dies; the broker redelivers its unacknowledged message.
Crash(w) ==
    /\ pc[w] # "idle"
    /\ Fail("crash")
    /\ Enqueue(msg[w])
    /\ Goto(w, "idle")
    /\ ret' = [ret EXCEPT ![w] = "idle"]
    /\ rec' = [rec EXCEPT ![w] = NoRecord]
    /\ update' = [update EXCEPT ![w] = NoUpdate]
    /\ snap' = [snap EXCEPT ![w] = NoRow]
    /\ msg' = [msg EXCEPT ![w] = NoMessage]
    /\ UNCHANGED <<plan, row, outbox, dlq>>
-----------------------------------------------------------------------------
Step(p) ==
    \/ UpdateStage(p) \/ Publish(p)
    \/ p \in Workers /\ Worker(p)
    \/ p = "relay" /\ \E r \in Records : RelayPick(r)

Disturb ==
    \/ \E p \in Procs : SendFails(p)
    \/ \E w \in Workers : ExecuteFails(w) \/ Crash(w)
    \/ RemediationRefused

Next == (\E p \in Procs : Step(p)) \/ Disturb

Spec == Init /\ [][Next]_vars

\* Every process keeps running; failures are never owed.
FairSpec == Spec /\ \A p \in Procs : WF_vars(Step(p))
-----------------------------------------------------------------------------
(***************************************************************************)
(* Properties.                                                             *)
(***************************************************************************)
Labels ==
    {"idle", "read", "write", "create", "claim", "send", "sent", "unsent",
     "set_queued", "set_publish_pending", "error_read", "error_write",
     "followon", "set_wait", "wait_set", "dianna_done", "remediation_done",
     "aux_done", "summary", "request_summary", "set_deliver_pending",
     "execute", "execute_aux", "fast_write", "request_policy",
     "retry", "dead_letter", "ack"}

RowType == [item : ItemStates, stage : [StageNames -> StageStates], wait : BOOLEAN]

\* The shape of the row, the queues and the locals of the processes.
TypeOK ==
    /\ plan \in Plans
    /\ Row \in RowType
    /\ outbox \in [Records -> {"none", "pending", "publishing", "published"}]
    /\ queue \in [Messages -> Nat]
    /\ dlq \subseteq Messages
    /\ pc \in [Procs -> Labels]
    /\ ret \in [Procs -> Labels]
    /\ rec \in [Procs -> Records]
    /\ update \in [Procs -> StageNames \X StageStates]
    /\ snap \in [Procs -> RowType]
    /\ msg \in [Procs -> Messages]
    /\ failures \in [Failures -> Nat]

\* A claimed record is "publishing", and one process at a time works on it.
ExclusiveClaim ==
    \A p \in Procs : pc[p] \in {"send", "sent", "unsent"} =>
        /\ outbox[rec[p]] = "publishing"
        /\ \A q \in Procs \ {p} :
             pc[q] \in {"send", "sent", "unsent"} => rec[q] # rec[p]

\* A request is on its way: queued, in a worker's hands or dead-lettered.
OnItsWay(k) ==
    \/ \E a \in 0 .. MaxRetry : queue[<<k, a>>] > 0 \/ <<k, a>> \in dlq
    \/ \E w \in Workers : pc[w] # "idle" /\ msg[w][1] = k

Accounted(k) ==
    (\E n \in 1 .. MaxRecords : outbox[<<k, n>>] = "published") =>
        OnItsWay(k) \/ stage[ErrorStageOf(k)] \in TerminalStageStates

\* No publish was reported as failed.  Its publisher would write back, with the error, a stage
\* that it has read earlier.
NoSendFailed == failures["bus"] = 0

\* Messages are acknowledged late enough: a published request is on its way until the
\* stage it asks for has ended, as long as no publish has failed.
RequestsAccounted ==
    NoSendFailed => \A k \in {"policy", "remediation", "dianna", "summary"} : Accounted(k)

\* The same of remediation requests, which no failed publish rewrites the stage of.
RemediationAccounted == Accounted("remediation")

Requested(k) == \E n \in 1 .. MaxRecords : outbox[<<k, n>>] # "none"

\* delivery_requirements.wait_for_dianna holds the outward summary back until
\* DIANNA has reached a terminal state, whichever worker would request it, as long as no
\* publish has failed.
SummaryWaits ==
    (NoSendFailed /\ wait /\ Requested("summary")) => stage["dianna"] \in TerminalStageStates

\* A stage that has ended is never reopened by a late, retried or redelivered
\* message or by another worker's update, as long as no publish has failed.
StagesStayEnded ==
    [][NoSendFailed' => \A s \in StageNames : stage[s] \in TerminalStageStates
                                               => stage'[s] \in TerminalStageStates]_vars

\* A decision that never leaves two workers at work on the item, so that no update of one
\* can overtake another's.
Sequential(p) == ~(p.wait \/ p.dianna \/ p.remediation \/ (p.summary /\ p.scanResult))

\* What the policy asked for, and nothing else, gets done: no worker skips as not asked for
\* what another is to do, no follow-on request is lost between workers that each wait for the
\* other's stage, and an item with a sequential decision is completed, through retries and
\* crashes too.
DecisionCarriedOut ==
    <>[](Sequential(plan) \/ (\A k \in Failures : failures[k] = 0) =>
           /\ stage["remediation"] = IF plan.remediation THEN "completed" ELSE "skipped"
           /\ stage["dianna"] = IF plan.dianna THEN "completed" ELSE "skipped"
           /\ stage["delivery"] = IF plan.summary THEN "completed" ELSE "skipped"
           /\ Sequential(plan) => item = "completed")

\* What the policy has decided is asked for: the remediation is requested at some time.
RemediationRequested == <>(plan.remediation => Requested("remediation"))

\* The relay's cap is for scan requests: every other request that waits in the outbox,
\* after a failed publish or its publisher's death, is taken up again, and the outbox
\* empties.
RequestsRetried == []<>(\A r \in Records : outbox[r] # "pending")
=============================================================================
