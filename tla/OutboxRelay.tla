---------------------------- MODULE OutboxRelay -----------------------------
(***************************************************************************)
(* The producer side of the outbox: _publish_outbox_record, which the      *)
(* submitter runs inline and the relay runs record by record, the bulk form*)
(* for low persistence scan-only batches, and relay_worker itself (replay at*)
(* start, then flush_outbox for ever).                                     *)
(***************************************************************************)
EXTENDS JobLedger
(***************************************************************************)
(* _publish_outbox_record, called by the submitter and by flush_outbox.    *)
(***************************************************************************)
Published(p) == outcome' = [outcome EXCEPT ![p] = @ \cup {"published"}]

PublishReturn(p) == IF p = "api" THEN "next" ELSE "flush"

Claim(p) ==
    /\ pc[p] = "claim"
    /\ \/ /\ claim_outbox_record(rec[p])
          /\ Goto(p, "load")
          /\ UNCHANGED outcome
       \/ /\ outbox[rec[p]] # "pending"
          /\ Published(p)
          /\ Goto(p, PublishReturn(p))
          /\ UNCHANGED outbox
    /\ UNCHANGED <<rows, broker, refreshVars, rec, relayVars, workerVars, failures>>

\* get_job_item, skipped for a low persistence scan-only message.
LoadItem(p) ==
    /\ pc[p] = "load"
    /\ Goto(p, IF Coarse THEN "send"
               ELSE IF item[rec[p][1]] \in TerminalStates THEN "skip" ELSE "set_queued")
    /\ UNCHANGED <<ledger, broker, refreshVars, publisherVars, workerVars, failures>>

SkipRecord(p) ==
    /\ pc[p] = "skip"
    /\ mark_outbox_published(rec[p])
    /\ Published(p)
    /\ CallRefresh(p, PublishReturn(p))
    /\ UNCHANGED <<rows, broker, rec, relayVars, workerVars, failures>>

SetQueued(p) ==
    /\ pc[p] = "set_queued"
    /\ update_job_item_state(rec[p][1], "queued")
    /\ Goto(p, "send")
    /\ UNCHANGED <<jobState, stage, outbox, lease, broker, refreshVars, publisherVars,
                   workerVars, failures>>

\* bus.publish returns after the broker's confirm.
Send(p) ==
    /\ pc[p] = "send"
    /\ BusAccepts(rec[p])
    /\ Goto(p, "sent")
    /\ UNCHANGED <<ledger, dlq, refreshVars, publisherVars, workerVars, failures>>

\* bus.publish raises; the message may have reached the broker all the same.
SendFails(p) ==
    /\ pc[p] = "send"
    /\ Fail("bus")
    /\ BusAccepts(rec[p]) \/ UNCHANGED <<queue, delivered>>
    /\ Goto(p, "unsent")
    /\ UNCHANGED <<ledger, dlq, refreshVars, publisherVars, workerVars>>

\* A scan_item_requested message: neither the item nor the job is rewritten.
MarkPublished(p) ==
    /\ pc[p] = "sent"
    /\ mark_outbox_published(rec[p])
    /\ Published(p)
    /\ Goto(p, PublishReturn(p))
    /\ UNCHANGED <<rows, broker, refreshVars, rec, relayVars, workerVars, failures>>

MarkFailed(p) ==
    /\ pc[p] = "unsent"
    /\ mark_outbox_failed(rec[p])
    /\ Goto(p, "set_publish_pending")
    /\ UNCHANGED <<rows, broker, refreshVars, publisherVars, workerVars, failures>>

SetPublishPending(p) ==
    /\ pc[p] = "set_publish_pending"
    /\ update_job_item_state(rec[p][1], "publish_pending")
    /\ outcome' = [outcome EXCEPT ![p] = @ \cup {"failed"}]
    /\ CallRefresh(p, PublishReturn(p))
    /\ UNCHANGED <<jobState, stage, outbox, lease, broker, rec, relayVars, workerVars,
                   failures>>

Publish(p) ==
    \/ Claim(p) \/ LoadItem(p) \/ SkipRecord(p) \/ SetQueued(p) \/ Send(p)
    \/ MarkPublished(p) \/ MarkFailed(p) \/ SetPublishPending(p)
-----------------------------------------------------------------------------
(***************************************************************************)
(* relay_worker: replay_nonterminal_scan_only_batches at start, then       *)
(* flush_outbox for ever.                                                  *)
(***************************************************************************)
ReplayReadJob(p) ==
    /\ pc[p] = "boot"
    /\ Goto(p, IF jobState \in {"none"} \cup TerminalStates THEN "idle" ELSE "replay_items")
    /\ UNCHANGED <<ledger, broker, refreshVars, publisherVars, workerVars, failures>>

ReplayReadItems(p) ==
    /\ pc[p] = "replay_items"
    /\ left' = [left EXCEPT ![p] = {i \in Created : item[i] \notin TerminalStates}]
    /\ Goto(p, "replay_outbox")
    /\ UNCHANGED <<ledger, broker, refreshVars, rec, outcome, flushVars, covered,
                   workerVars, failures>>

ReplayReadOutbox(p) ==
    /\ pc[p] = "replay_outbox"
    /\ covered' = [covered EXCEPT ![p] =
                     {i \in Items : \E r \in Records :
                        r[1] = i /\ outbox[r] \in {"pending", "publishing"}}]
    /\ Goto(p, "replay")
    /\ UNCHANGED <<ledger, broker, refreshVars, rec, outcome, flushVars, left,
                   workerVars, failures>>

ReplayItem(p, i) ==
    /\ pc[p] = "replay"
    /\ i \in left[p]
    /\ update_job_item_state(i, "publish_pending")
    /\ left' = [left EXCEPT ![p] = @ \ {i}]
    /\ IF i \in covered[p]
       THEN UNCHANGED <<pc, rec>>
       ELSE /\ rec' = [rec EXCEPT ![p] = <<i, 1>>]
            /\ Goto(p, "create_outbox")
    /\ UNCHANGED <<jobState, stage, outbox, lease, broker, refreshVars, outcome,
                   flushVars, covered, workerVars, failures>>

ReplayDone(p) ==
    /\ pc[p] = "replay"
    /\ left[p] = {}
    /\ update_job_state("publish_pending")
    /\ covered' = [covered EXCEPT ![p] = {}]
    /\ rec' = [rec EXCEPT ![p] = SomeRecord]
    /\ Goto(p, "idle")
    /\ UNCHANGED <<item, stage, outbox, lease, broker, refreshVars, outcome,
                   flushVars, left, workerVars, failures>>

\* Mutant: an item a worker has started no longer counts.
ActiveScanItems_queued_only ==
    IF Coarse \/ jobState \in {"none"} \cup TerminalStates THEN {}
    ELSE {i \in Items : item[i] = "queued"}

\* active_scan_item_count: coarse scan-only jobs and terminal jobs count nothing.
ActiveScanItems ==
    IF Coarse \/ jobState \in {"none"} \cup TerminalStates THEN {}
    ELSE {i \in Items : item[i] \in {"queued", "scanning", "scanned"}}

FlushCount(p) ==
    /\ pc[p] = "idle"
    /\ Pending # {}
    /\ LET free == MaxActive - Cardinality(ActiveScanItems)
           room == IF free < 0 THEN 0 ELSE free
       IN  capacity' = [capacity EXCEPT ![p] = IF room < BatchSize THEN room ELSE BatchSize]
    /\ Goto(p, "list")
    /\ UNCHANGED <<ledger, broker, refreshVars, rec, outcome, todo, sent, replayVars,
                   workerVars, failures>>

\* list_outbox_records_fair("pending", publish_limit).
FlushList(p) ==
    /\ pc[p] = "list"
    /\ \E R \in SUBSET Pending :
         /\ Cardinality(R) <= capacity[p]
         /\ Cardinality(R) < capacity[p] => R = Pending
         /\ todo' = [todo EXCEPT ![p] = R]
         /\ Goto(p, IF R = {} THEN "idle" ELSE IF Coarse THEN "bulk_claim" ELSE "flush")
    /\ outcome' = [outcome EXCEPT ![p] = {}]
    /\ capacity' = [capacity EXCEPT ![p] = 0]
    /\ UNCHANGED <<ledger, broker, refreshVars, rec, sent, replayVars, workerVars,
                   failures>>

FlushNext(p, r) ==
    /\ pc[p] = "flush"
    /\ r \in todo[p]
    /\ todo' = [todo EXCEPT ![p] = @ \ {r}]
    /\ rec' = [rec EXCEPT ![p] = r]
    /\ Goto(p, "claim")
    /\ UNCHANGED <<ledger, broker, refreshVars, outcome, sent, capacity, replayVars,
                   workerVars, failures>>

FlushEnd(p) ==
    /\ pc[p] = "flush"
    /\ todo[p] = {}
    /\ IF "published" \in outcome[p]
       THEN CallRefresh(p, "idle")
       ELSE Goto(p, "idle") /\ UNCHANGED refreshVars
    /\ outcome' = [outcome EXCEPT ![p] = {}]
    /\ rec' = [rec EXCEPT ![p] = SomeRecord]
    /\ UNCHANGED <<ledger, broker, relayVars, workerVars, failures>>

(***************************************************************************)
(* _publish_low_persistence_scan_only_outbox_records: claim all, publish   *)
(* each, mark the published ones together.                                 *)
(***************************************************************************)

\* Mutant: publishes the selected records, not the claimed ones.
BulkClaim_selected(p) ==
    /\ pc[p] = "bulk_claim"
    /\ claim_outbox_records(todo[p])
    /\ Published(p)
    /\ Goto(p, "bulk_send")
    /\ UNCHANGED <<rows, broker, refreshVars, rec, flushVars, replayVars, workerVars,
                   failures>>

BulkClaim(p) ==
    /\ pc[p] = "bulk_claim"
    /\ claim_outbox_records(todo[p])
    /\ todo' = [todo EXCEPT ![p] = @ \cap Pending]
    /\ IF todo[p] \subseteq Pending THEN UNCHANGED outcome ELSE Published(p)
    /\ Goto(p, "bulk_send")
    /\ UNCHANGED <<rows, broker, refreshVars, rec, sent, capacity, replayVars,
                   workerVars, failures>>

BulkSend(p, r) ==
    /\ pc[p] = "bulk_send"
    /\ r \in todo[p]
    /\ BusAccepts(r)
    /\ todo' = [todo EXCEPT ![p] = @ \ {r}]
    /\ sent' = [sent EXCEPT ![p] = @ \cup {r}]
    /\ UNCHANGED <<ledger, dlq, pc, refreshVars, rec, outcome, capacity, replayVars,
                   workerVars, failures>>

BulkSendFails(p, r) ==
    /\ pc[p] = "bulk_send"
    /\ r \in todo[p]
    /\ Fail("bus")
    /\ BusAccepts(r) \/ UNCHANGED <<queue, delivered>>
    /\ todo' = [todo EXCEPT ![p] = @ \ {r}]
    /\ rec' = [rec EXCEPT ![p] = r]
    /\ Goto(p, "bulk_unsent")
    /\ UNCHANGED <<ledger, dlq, refreshVars, outcome, sent, capacity, replayVars,
                   workerVars>>

BulkMarkFailed(p) ==
    /\ pc[p] = "bulk_unsent"
    /\ mark_outbox_failed(rec[p])
    /\ Goto(p, "bulk_send")
    /\ UNCHANGED <<rows, broker, refreshVars, publisherVars, workerVars, failures>>

BulkMark(p) ==
    /\ pc[p] = "bulk_send"
    /\ todo[p] = {}
    /\ mark_outbox_published_many(sent[p])
    /\ sent' = [sent EXCEPT ![p] = {}]
    /\ IF sent[p] = {} THEN UNCHANGED outcome ELSE Published(p)
    /\ Goto(p, "flush")
    /\ UNCHANGED <<rows, broker, refreshVars, rec, todo, capacity, replayVars,
                   workerVars, failures>>

Relay(p) ==
    \/ ReplayReadJob(p) \/ ReplayReadItems(p) \/ ReplayReadOutbox(p)
    \/ \E i \in Items : ReplayItem(p, i)
    \/ ReplayDone(p) \/ FlushCount(p) \/ FlushList(p)
    \/ \E r \in Records : FlushNext(p, r) \/ BulkSend(p, r)
    \/ FlushEnd(p) \/ BulkClaim(p) \/ BulkMarkFailed(p) \/ BulkMark(p)

\* The process dies and is started again; its claims stay in the database.
RelayCrash(p) ==
    /\ pc[p] \notin {"boot", "idle"}
    /\ Fail("relay")
    /\ Goto(p, "boot")
    /\ verdict' = [verdict EXCEPT ![p] = "keep"]
    /\ todo' = [todo EXCEPT ![p] = {}]
    /\ sent' = [sent EXCEPT ![p] = {}]
    /\ outcome' = [outcome EXCEPT ![p] = {}]
    /\ capacity' = [capacity EXCEPT ![p] = 0]
    /\ left' = [left EXCEPT ![p] = {}]
    /\ covered' = [covered EXCEPT ![p] = {}]
    /\ rec' = [rec EXCEPT ![p] = SomeRecord]
    /\ ret' = [ret EXCEPT ![p] = "idle"]
    /\ UNCHANGED <<ledger, broker, workerVars>>
=============================================================================
