---------------------------- MODULE ItemLedger -----------------------------
(***************************************************************************)
(* One job item of dsx_connect_ng after its scan has been requested: its   *)
(* row, its outbox records and queues, and what every process does to them:*)
(* _update_job_item_stage, create_outbox_record, _publish_outbox_record    *)
(* and the relay.  The parent job's row and cancellation are left to       *)
(* JobLedger; the workers are in ItemWorkflow.                             *)
(*                                                                         *)
(* As there, an action is one repository transaction or one call to the    *)
(* bus, together with the local decisions up to the next one.              *)
(***************************************************************************)
EXTENDS Integers, FiniteSets, ItemStages

CONSTANTS
    Plans,            \* what the policy engine may decide about the item
    MaxRetry,         \* rabbitmq.retry_max_attempts
    MaxActive,        \* relay.max_active_scan_items, unset = more than the one item
    MaxRecords,       \* bound: outbox records of one kind
    Limits            \* bound, for each plan: bus.publish exceptions ("bus"), retryable
                      \* exceptions of an executor ("exec"), terminal errors of the
                      \* remediation executor ("refusal"), worker crashes ("crash")

\* A policy decision, as PolicyRules derives it: complete the item at once, request
\* DIANNA (which the job service refuses), make delivery wait for it, request
\* remediation, deliver the scan, remediation or DIANNA result, deliver the workflow
\* summary.
Plan == [fast : BOOLEAN, dianna : BOOLEAN, refused : BOOLEAN, wait : BOOLEAN,
         remediation : BOOLEAN, scanResult : BOOLEAN, remediationResult : BOOLEAN,
         diannaResult : BOOLEAN, summary : BOOLEAN]

Failures == {"bus", "exec", "refusal", "crash"}

ASSUME WorkflowAssumption ==
    /\ Plans \subseteq Plan /\ Plans # {}
    /\ Limits \in [Plans -> [Failures -> Nat]]
    /\ MaxRetry \in Nat /\ MaxRecords \in Nat \ {0} /\ MaxActive \in Nat \ {0}

VARIABLES
    plan,      \* the decision, the same each time the item is evaluated
    item,      \* cp_job_items.state
    stage,     \* its five stage columns
    wait,      \* delivery_requirements.wait_for_dianna
    outbox,    \* cp_job_outbox.publish_state
    queue,     \* copies of each message in the work and retry queues
    dlq,       \* messages in the dead-letter queues
    pc,        \* what each process does next
    ret,       \* where the call in progress returns to
    rec,       \* the outbox record in hand
    update,    \* the stage update in hand, <<stage, state>>
    snap,      \* the row a read-modify-write has read
    msg,       \* the message in hand, <<kind, x-dsx-retry-attempt>>
    failures   \* failures injected so far

row == <<item, stage, wait>>
locals == <<ret, rec, update, snap, msg>>
vars == <<plan, row, outbox, queue, dlq, pc, locals, failures>>

Workers == {"scan", "policy", "remediation", "dianna", "sink"}
Procs == Workers \cup {"relay"}
Kinds == {"policy", "remediation", "dianna", "aux", "summary"}
Records == Kinds \X (1 .. MaxRecords)
Messages == ({"scan"} \cup Kinds) \X (0 .. MaxRetry)

\* The queue family of a worker; the stage a worker reports; the stage whose error
\* column records that a request could not be published.
KindsOf(w) == IF w = "sink" THEN {"aux", "summary"} ELSE {w}
StageOf(w) == IF w = "sink" THEN "delivery" ELSE w
ErrorStageOf(k) == IF k \in {"aux", "summary"} THEN "delivery" ELSE k

Row == [item |-> item, stage |-> stage, wait |-> wait]
NoRow == [item |-> "queued", stage |-> NoStages, wait |-> FALSE]
NoRecord == <<"policy", 1>>
NoUpdate == <<"scan", "running">>
NoMessage == <<"scan", 0>>

Init ==
    /\ plan \in Plans
    /\ item = "queued"
    /\ stage = NoStages
    /\ wait = FALSE
    /\ outbox = [r \in Records |-> "none"]
    /\ queue = [m \in Messages |-> IF m = <<"scan", 0>> THEN 1 ELSE 0]
    /\ dlq = {}
    /\ pc = [p \in Procs |-> "idle"]
    /\ ret = [p \in Procs |-> "idle"]
    /\ rec = [p \in Procs |-> NoRecord]
    /\ update = [p \in Procs |-> NoUpdate]
    /\ snap = [p \in Procs |-> NoRow]
    /\ msg = [p \in Procs |-> NoMessage]
    /\ failures = [k \in Failures |-> 0]
-----------------------------------------------------------------------------
Goto(p, l) == pc' = [pc EXCEPT ![p] = l]

Fail(k) ==
    /\ failures[k] < Limits[plan][k]
    /\ failures' = [failures EXCEPT ![k] = @ + 1]

Enqueue(m) == queue' = [queue EXCEPT ![m] = @ + 1]

\* The process calls _update_job_item_stage and goes on at l.
CallUpdate(p, name, s, l) ==
    /\ Goto(p, "read")
    /\ update' = [update EXCEPT ![p] = <<name, s>>]
    /\ ret' = [ret EXCEPT ![p] = l]
    /\ UNCHANGED rec

\* The process calls create_outbox_record and _publish_outbox_record.
CallRequest(p, k, l) ==
    /\ Goto(p, "create")
    /\ rec' = [rec EXCEPT ![p] = <<k, 1>>]
    /\ ret' = [ret EXCEPT ![p] = l]
    /\ UNCHANGED update

Return(p) == /\ Goto(p, ret[p])
             /\ ret' = [ret EXCEPT ![p] = "idle"]

Continue(p, l) == Goto(p, l) /\ UNCHANGED <<ret, rec, update>>

(***************************************************************************)
(* The repository's stage update: the row is locked, and a terminal stage  *)
(* is never moved back to "running"; the item state comes with it.         *)
(***************************************************************************)

update_job_item_stage(name, s, state) ==
    IF s = "running" /\ stage[name] \in TerminalStageStates
    THEN UNCHANGED <<item, stage>>
    ELSE stage' = [stage EXCEPT ![name] = s] /\ item' = state

\* _update_job_item_stage: the row is read in one transaction ...
ReadForUpdate(p) ==
    /\ pc[p] = "read"
    /\ LET name == update[p][1]
       IN  IF update[p][2] = "running" /\ stage[name] \in TerminalStageStates
           THEN /\ Return(p)
                /\ update' = [update EXCEPT ![p] = NoUpdate]
                /\ UNCHANGED snap
           ELSE /\ Goto(p, "write")
                /\ snap' = [snap EXCEPT ![p] = Row]
                /\ UNCHANGED <<ret, update>>
    /\ UNCHANGED <<plan, row, outbox, queue, dlq, rec, msg, failures>>

\* Mutant: the whole row that was read is written back.
WriteStage_whole_row(p) ==
    /\ pc[p] = "write"
    /\ stage' = [snap[p].stage EXCEPT ![update[p][1]] = update[p][2]]
    /\ item' = DeriveItemState(snap[p].item, stage', update[p][1])
    /\ snap' = [snap EXCEPT ![p] = NoRow]
    /\ update' = [update EXCEPT ![p] = NoUpdate]
    /\ Return(p)
    /\ UNCHANGED <<plan, wait, outbox, queue, dlq, rec, msg, failures>>

\* ... and written in another, with the item state derived from what was read.
WriteStage(p) ==
    /\ pc[p] = "write"
    /\ LET name == update[p][1]
           new  == [snap[p].stage EXCEPT ![name] = update[p][2]]
       IN  update_job_item_stage(name, update[p][2],
                                 DeriveItemState(snap[p].item, new, name))
    /\ snap' = [snap EXCEPT ![p] = NoRow]
    /\ update' = [update EXCEPT ![p] = NoUpdate]
    /\ Return(p)
    /\ UNCHANGED <<plan, wait, outbox, queue, dlq, rec, msg, failures>>

UpdateStage(p) == ReadForUpdate(p) \/ WriteStage(p)
-----------------------------------------------------------------------------
(***************************************************************************)
(* The outbox: create_outbox_record and _publish_outbox_record, run by the *)
(* worker that makes the request or, later, by the relay.                  *)
(***************************************************************************)
CreateOutbox(p) ==
    /\ pc[p] = "create"
    /\ \E n \in 1 .. MaxRecords :
         LET r == <<rec[p][1], n>>
         IN  /\ outbox[r] = "none"
             /\ \A k \in 1 .. (n - 1) : outbox[<<rec[p][1], k>>] # "none"
             /\ outbox' = [outbox EXCEPT ![r] = "pending"]
             /\ rec' = [rec EXCEPT ![p] = r]
    /\ Goto(p, "claim")
    /\ UNCHANGED <<plan, row, queue, dlq, ret, update, snap, msg, failures>>

\* Mutant: UPDATE without the test on publish_state.
Claim_unconditional(p) ==
    /\ pc[p] = "claim"
    /\ outbox' = [outbox EXCEPT ![rec[p]] = "publishing"]
    /\ Goto(p, "send")
    /\ UNCHANGED <<plan, row, queue, dlq, locals, failures>>

Claim(p) ==
    /\ pc[p] = "claim"
    /\ IF outbox[rec[p]] = "pending"
       THEN /\ outbox' = [outbox EXCEPT ![rec[p]] = "publishing"]
            /\ Goto(p, "send")
            /\ UNCHANGED <<ret, rec>>
       ELSE /\ Return(p)
            /\ rec' = [rec EXCEPT ![p] = NoRecord]
            /\ UNCHANGED outbox
    /\ UNCHANGED <<plan, row, queue, dlq, update, snap, msg, failures>>

Send(p) ==
    /\ pc[p] = "send"
    /\ Enqueue(<<rec[p][1], 0>>)
    /\ Goto(p, "sent")
    /\ UNCHANGED <<plan, row, outbox, dlq, locals, failures>>

\* bus.publish raises; the message may have reached the broker all the same.
SendFails(p) ==
    /\ pc[p] = "send"
    /\ Fail("bus")
    /\ Enqueue(<<rec[p][1], 0>>) \/ UNCHANGED queue
    /\ Goto(p, "unsent")
    /\ UNCHANGED <<plan, row, outbox, dlq, locals>>

\* After the publish, only a remediation request sets the item's state.
MarkPublished(p) ==
    /\ pc[p] = "sent"
    /\ outbox' = [outbox EXCEPT ![rec[p]] = "published"]
    /\ IF rec[p][1] = "remediation"
       THEN Goto(p, "set_queued") /\ UNCHANGED <<ret, rec>>
       ELSE Return(p) /\ rec' = [rec EXCEPT ![p] = NoRecord]
    /\ UNCHANGED <<plan, row, queue, dlq, update, snap, msg, failures>>

\* The fast path publishes with update_item_stage=False.
MarkFailed(p) ==
    /\ pc[p] = "unsent"
    /\ outbox' = [outbox EXCEPT ![rec[p]] = "pending"]
    /\ IF ret[p] = "fast_write"
       THEN Return(p) /\ rec' = [rec EXCEPT ![p] = NoRecord]
       ELSE /\ Goto(p, IF rec[p][1] = "remediation" THEN "set_publish_pending"
                                                     ELSE "error_read")
            /\ UNCHANGED <<ret, rec>>
    /\ UNCHANGED <<plan, row, queue, dlq, update, snap, msg, failures>>

SetItemState(p) ==
    /\ pc[p] \in {"set_queued", "set_publish_pending"}
    /\ item' = IF pc[p] = "set_queued" THEN "queued" ELSE "publish_pending"
    /\ Return(p)
    /\ rec' = [rec EXCEPT ![p] = NoRecord]
    /\ UNCHANGED <<plan, stage, wait, outbox, queue, dlq, update, snap, msg, failures>>

\* A failed publish is noted in the stage: the row is read ...
ReadForError(p) ==
    /\ pc[p] = "error_read"
    /\ snap' = [snap EXCEPT ![p] = Row]
    /\ Goto(p, "error_write")
    /\ UNCHANGED <<plan, row, outbox, queue, dlq, ret, rec, update, msg, failures>>

\* ... and its stage and item state are written back with the error.
WriteError(p) ==
    /\ pc[p] = "error_write"
    /\ LET name == ErrorStageOf(rec[p][1])
       IN  update_job_item_stage(name, snap[p].stage[name], snap[p].item)
    /\ snap' = [snap EXCEPT ![p] = NoRow]
    /\ rec' = [rec EXCEPT ![p] = NoRecord]
    /\ Return(p)
    /\ UNCHANGED <<plan, wait, outbox, queue, dlq, update, msg, failures>>

Publish(p) ==
    \/ CreateOutbox(p) \/ Claim(p) \/ Send(p) \/ MarkPublished(p) \/ MarkFailed(p)
    \/ SetItemState(p) \/ ReadForError(p) \/ WriteError(p)

\* active_scan_item_count of the one item.
ActiveScanItems == IF item \in {"queued", "scanning", "scanned"} THEN 1 ELSE 0

\* Mutant: the requests of an item that has ended are passed over.
RelayPick_open(r) ==
    /\ pc["relay"] = "idle"
    /\ item \notin TerminalStates
    /\ outbox[r] = "pending"
    /\ rec' = [rec EXCEPT !["relay"] = r]
    /\ Goto("relay", "claim")
    /\ UNCHANGED <<plan, row, outbox, queue, dlq, ret, update, snap, msg, failures>>

\* flush_outbox: within the cap, the relay takes up a pending record, of any topic.
\* The delay between wake-ups is not modelled.
RelayPick(r) ==
    /\ pc["relay"] = "idle"
    /\ ActiveScanItems < MaxActive
    /\ outbox[r] = "pending"
    /\ rec' = [rec EXCEPT !["relay"] = r]
    /\ Goto("relay", "claim")
    /\ UNCHANGED <<plan, row, outbox, queue, dlq, ret, update, snap, msg, failures>>
=============================================================================
