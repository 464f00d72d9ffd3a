------------------------- MODULE ScanOnlyBatchProofs -------------------------
(***************************************************************************)
(* Proofs about ScanOnlyBatch, for any number of items, relays, workers    *)
(* and outbox records: the types of its state; that an ended scan stays    *)
(* ended, and that a runtime lease belongs to a message in hand; that the  *)
(* right to publish is exclusive; that the outbox implements               *)
(* OutboxContract; and that one relay keeps to its cap.                    *)
(***************************************************************************)
EXTENDS ScanOnlyBatch, FiniteSetTheorems, TLAPS

USE DEF rows, ledger, broker, flushVars, replayVars, relayVars, publisherVars,
        workerVars, refreshVars, Goto, Fail

\* A parent job is given a terminal state only when every item has ended, and it
\* is given one whenever they all have (_refresh_parent_job_state).
THEOREM ParentTerminal ==
  ASSUME NEW I, I # {}, NEW st \in [I -> ItemStates]
  PROVE  ParentState(st, I) \in TerminalStates <=> \A i \in I : st[i] \in TerminalStates
  BY DEF ParentState, TerminalStates, ItemStates
-----------------------------------------------------------------------------
\* What the refresh of the parent decides is a job state, or to keep the one there.
LEMMA ParentStateType ==
  ASSUME NEW I, NEW st
  PROVE  ParentState(st, I) \in JobStates \cup {"keep"}
  BY DEF ParentState, JobStates

\* The state derived for an item is an item state, whatever its stages.
LEMMA DeriveType ==
  ASSUME NEW s, NEW current \in ItemStates \cup {"none"}, NEW n
  PROVE  DeriveItemState(current, s, n) \in ItemStates \cup {"none"}
  BY DEF DeriveItemState, ItemStates

\* The process identifiers and records the locals range over.
LEMMA Domains ==
  /\ SomeRecord \in Records
  /\ SomeMessage \in Messages
  /\ Publishers \subseteq Procs /\ Relays \subseteq Publishers
  /\ Workers \subseteq Procs /\ Relays \subseteq Procs
  /\ "api" \in Publishers /\ {"api", "operator", "client"} \subseteq Procs
  /\ NoRow \in RowType
  /\ \A i \in Items : <<i, 0>> \in Messages /\ <<i, 1>> \in Records
<1>1. PICK i \in Items : TRUE
  BY ConstantsAssumption
<1>2. <<i, 1>> \in Records /\ <<i, 0>> \in Messages
  BY ConstantsAssumption DEF Records, Messages
<1> QED
  BY <1>2, ConstantsAssumption
  DEF SomeRecord, SomeMessage, Records, Messages, Publishers, Procs, NoRow, RowType,
      NoStages, StageStates

\* The invariant that gives the types: TypeOK with what makes it inductive.
TypeInv == TypeOK /\ VerdictReady

LEMMA InitType == Init => TypeInv
  BY Domains
  DEF Init, TypeInv, TypeOK, LedgerType, BrokerType, ControlType, PublisherType, WorkerType, RowType, VerdictReady, NoStages, StageStates, JobStates,
     Labels, ReturnLabels

\* Counting an injected failure keeps the counters natural.
LEMMA FailType ==
  ASSUME BrokerType, NEW k \in Failures, Fail(k)
  PROVE  failures' \in [Failures -> Nat]
  BY DEF BrokerType

\* Enqueueing keeps the numbers of copies natural.
LEMMA EnqueueType ==
  ASSUME BrokerType, NEW m \in Messages, Enqueue(m)
  PROVE  queue' \in [Messages -> Nat]
  BY DEF BrokerType, Enqueue

\* The broker accepts the message of a record.
LEMMA AcceptType ==
  ASSUME BrokerType, NEW r \in Records, BusAccepts(r)
  PROVE  queue' \in [Messages -> Nat] /\ delivered' \in SUBSET Records
<1>1. <<r[1], 0>> \in Messages
  BY Domains DEF Records
<1> QED BY <1>1, EnqueueType DEF BusAccepts, BrokerType

\* The item of a message in hand is an item of the job.
LEMMA ItemOfType ==
  ASSUME WorkerType, NEW w \in Workers
  PROVE  ItemOf(w) \in Items
  BY DEF WorkerType, ItemOf, Messages

\* A stage update writes a stage state and the item state that came with it.
LEMMA StageWriteType ==
  ASSUME LedgerType, NEW i \in Items, NEW s \in StageStates,
         NEW d \in ItemStates \cup {"none"}, update_job_item_stage(i, "scan", s, d)
  PROVE  /\ item' \in [Items -> ItemStates \cup {"none"}]
         /\ stage' \in [Items -> [StageNames -> StageStates]]
  BY DEF LedgerType, update_job_item_stage, StageNames

\* The room active_scan_item_count leaves is an integer.
LEMMA ActiveType == Cardinality(ActiveScanItems) \in Nat
<1>1. ActiveScanItems \subseteq Items BY DEF ActiveScanItems
<1> QED BY <1>1, FS_Subset, FS_CardinalityType, ConstantsAssumption

\* What an action leaves alone keeps its type.
LEMMA TypeFrame ==
  ASSUME TypeInv
  PROVE  /\ UNCHANGED ledger => LedgerType'
         /\ UNCHANGED <<broker, failures>> => BrokerType'
         /\ UNCHANGED <<pc, refreshVars>> => ControlType' /\ VerdictReady'
         /\ UNCHANGED publisherVars => PublisherType'
         /\ UNCHANGED workerVars => WorkerType'
  BY DEF TypeInv, TypeOK, LedgerType, BrokerType, ControlType, VerdictReady, PublisherType,
     WorkerType

\* _refresh_parent_job_state keeps the types.
LEMMA RefreshType ==
  ASSUME TypeInv, NEW p \in Procs, Refresh(p)
  PROVE  TypeInv'
<1> USE DEF TypeInv, TypeOK
<1>1. CASE RefreshReadJob(p)
  <2>1. ControlType' /\ VerdictReady'
    BY <1>1 DEF RefreshReadJob, JobStates, ControlType, VerdictReady, Labels
  <2> QED BY <1>1, <2>1, TypeFrame DEF RefreshReadJob
<1>2. CASE RefreshSummarize(p)
  <2>1. ControlType' /\ VerdictReady'
    BY <1>2, ParentStateType DEF RefreshSummarize, RefreshReturn, ReturnLabels, ControlType, VerdictReady, Labels
  <2> QED BY <1>2, <2>1, TypeFrame DEF RefreshSummarize
<1>3. CASE RefreshWrite(p)
  <2>1. LedgerType'
    BY <1>3 DEF RefreshWrite, update_job_state, ControlType, VerdictReady, JobStates, LedgerType
  <2>2. ControlType' /\ VerdictReady'
    BY <1>3 DEF RefreshWrite, RefreshReturn, ReturnLabels, ControlType, VerdictReady, Labels
  <2> QED BY <1>3, <2>1, <2>2, TypeFrame DEF RefreshWrite
<1> QED BY <1>1, <1>2, <1>3 DEF Refresh

\* submit_batch_job keeps the types.
LEMMA SubmitType ==
  ASSUME TypeInv, Submit
  PROVE  TypeInv'
<1> USE DEF TypeInv, TypeOK
<1>1. CASE CreateJob
  <2>1. LedgerType'
    BY <1>1, Domains DEF CreateJob, update_job_state, JobStates, LedgerType
  <2>2. ControlType' /\ VerdictReady'
    BY <1>1, Domains DEF CreateJob, ControlType, VerdictReady, Labels
  <2> QED BY <1>1, <2>1, <2>2, TypeFrame DEF CreateJob
<1>2. CASE BulkCreate
  <2>1. LedgerType'
    BY <1>2, Domains DEF BulkCreate, ItemStates, LedgerType
  <2>2. ControlType' /\ VerdictReady'
    BY <1>2, Domains DEF BulkCreate, ControlType, VerdictReady, Labels
  <2> QED BY <1>2, <2>1, <2>2, TypeFrame DEF BulkCreate
<1>3. CASE \E i \in Items : CreateItem(i)
  <2>0. PICK i \in Items : CreateItem(i) BY <1>3
  <2>1. LedgerType'
    BY <2>0, Domains DEF CreateItem, update_job_item_state, ItemStates, LedgerType
  <2>2. ControlType' /\ VerdictReady'
    BY <2>0, Domains DEF CreateItem, ControlType, VerdictReady, Labels
  <2>3. PublisherType'
    BY <2>0, Domains DEF CreateItem, PublisherType
  <2> QED BY <2>0, <2>1, <2>2, <2>3, TypeFrame DEF CreateItem
<1>4. CASE SubmitDone
  <2>1. LedgerType'
    BY <1>4, Domains DEF SubmitDone, update_job_state, JobStates, LedgerType
  <2>2. ControlType' /\ VerdictReady'
    BY <1>4, Domains DEF SubmitDone, ControlType, VerdictReady, Labels
  <2> QED BY <1>4, <2>1, <2>2, TypeFrame DEF SubmitDone
<1> QED BY <1>1, <1>2, <1>3, <1>4 DEF Submit

\* _publish_outbox_record, its failure and the creation of a record keep the types.
LEMMA PublishType ==
  ASSUME TypeInv, NEW p \in Publishers, Publish(p) \/ CreateOutbox(p) \/ SendFails(p)
  PROVE  TypeInv'
<1> USE DEF TypeInv, TypeOK
<1>1. CASE Claim(p)
  <2>1. LedgerType'
    BY <1>1, Domains DEF Claim, claim_outbox_record, LedgerType
  <2>2. ControlType' /\ VerdictReady'
    BY <1>1, Domains DEF Claim, PublishReturn, ControlType, VerdictReady, Labels
  <2>3. PublisherType'
    BY <1>1, Domains DEF Claim, Published, PublisherType
  <2> QED BY <1>1, <2>1, <2>2, <2>3, TypeFrame DEF Claim
<1>2. CASE LoadItem(p)
  <2>1. ControlType' /\ VerdictReady'
    BY <1>2, Domains DEF LoadItem, ControlType, VerdictReady, Labels
  <2> QED BY <1>2, <2>1, TypeFrame DEF LoadItem
<1>3. CASE SkipRecord(p)
  <2>1. LedgerType'
    BY <1>3, Domains DEF SkipRecord, mark_outbox_published, LedgerType
  <2>2. ControlType' /\ VerdictReady'
    BY <1>3, Domains DEF SkipRecord, CallRefresh, PublishReturn, ReturnLabels, ControlType, VerdictReady, Labels
  <2>3. PublisherType'
    BY <1>3, Domains DEF SkipRecord, Published, PublisherType
  <2> QED BY <1>3, <2>1, <2>2, <2>3, TypeFrame DEF SkipRecord
<1>4. CASE SetQueued(p)
  <2>1. LedgerType'
    BY <1>4, Domains DEF SetQueued, update_job_item_state, ItemStates, LedgerType
  <2>2. ControlType' /\ VerdictReady'
    BY <1>4, Domains DEF SetQueued, ControlType, VerdictReady, Labels
  <2> QED BY <1>4, <2>1, <2>2, TypeFrame DEF SetQueued
<1>5. CASE Send(p)
  <2>1. BrokerType'
    BY <1>5, Domains, AcceptType DEF Send, PublisherType, BrokerType
  <2>2. ControlType' /\ VerdictReady'
    BY <1>5, Domains, AcceptType DEF Send, ControlType, VerdictReady, Labels
  <2> QED BY <1>5, <2>1, <2>2, TypeFrame DEF Send
<1>6. CASE MarkPublished(p)
  <2>1. LedgerType'
    BY <1>6, Domains DEF MarkPublished, mark_outbox_published, LedgerType
  <2>2. ControlType' /\ VerdictReady'
    BY <1>6, Domains DEF MarkPublished, PublishReturn, ControlType, VerdictReady, Labels
  <2>3. PublisherType'
    BY <1>6, Domains DEF MarkPublished, Published, PublisherType
  <2> QED BY <1>6, <2>1, <2>2, <2>3, TypeFrame DEF MarkPublished
<1>7. CASE MarkFailed(p)
  <2>1. LedgerType'
    BY <1>7, Domains DEF MarkFailed, mark_outbox_failed, LedgerType
  <2>2. ControlType' /\ VerdictReady'
    BY <1>7, Domains DEF MarkFailed, ControlType, VerdictReady, Labels
  <2> QED BY <1>7, <2>1, <2>2, TypeFrame DEF MarkFailed
<1>8. CASE SetPublishPending(p)
  <2>1. LedgerType'
    BY <1>8, Domains DEF SetPublishPending, update_job_item_state, ItemStates, LedgerType
  <2>2. ControlType' /\ VerdictReady'
    BY <1>8, Domains DEF SetPublishPending, CallRefresh, PublishReturn, ReturnLabels, ControlType, VerdictReady, Labels
  <2>3. PublisherType'
    BY <1>8, Domains DEF SetPublishPending, PublisherType
  <2> QED BY <1>8, <2>1, <2>2, <2>3, TypeFrame DEF SetPublishPending
<1>9. CASE CreateOutbox(p)
  <2>1. LedgerType'
    BY <1>9, Domains DEF CreateOutbox, create_outbox_record, LedgerType
  <2>2. ControlType' /\ VerdictReady'
    BY <1>9, Domains DEF CreateOutbox, ControlType, VerdictReady, Labels
  <2>3. PublisherType'
    BY <1>9, Domains DEF CreateOutbox, Records, PublisherType, PublisherType
  <2> QED BY <1>9, <2>1, <2>2, <2>3, TypeFrame DEF CreateOutbox
<1>10. CASE SendFails(p)
  <2>1. BrokerType'
    BY <1>10, Domains, AcceptType, FailType DEF SendFails, PublisherType, Failures, BrokerType
  <2>2. ControlType' /\ VerdictReady'
    BY <1>10, Domains, AcceptType, FailType DEF SendFails, ControlType, VerdictReady, Labels
  <2> QED BY <1>10, <2>1, <2>2, TypeFrame DEF SendFails
<1> QED BY <1>1, <1>2, <1>3, <1>4, <1>5, <1>6, <1>7, <1>8, <1>9, <1>10 DEF Publish

\* replay_nonterminal_scan_only_batches and flush_outbox keep the types.
LEMMA RelayType ==
  ASSUME TypeInv, NEW p \in Relays, Relay(p) \/ RelayCrash(p) \/ \E r \in Records : BulkSendFails(p, r)
  PROVE  TypeInv'
<1> USE DEF TypeInv, TypeOK
<1>1. CASE ReplayReadJob(p)
  <2>1. ControlType' /\ VerdictReady'
    BY <1>1, Domains DEF ReplayReadJob, ControlType, VerdictReady, Labels
  <2> QED BY <1>1, <2>1, TypeFrame DEF ReplayReadJob
<1>2. CASE ReplayReadItems(p)
  <2>1. ControlType' /\ VerdictReady'
    BY <1>2, Domains DEF ReplayReadItems, ControlType, VerdictReady, Labels
  <2>2. PublisherType'
    BY <1>2, Domains DEF ReplayReadItems, Created, PublisherType
  <2> QED BY <1>2, <2>1, <2>2, TypeFrame DEF ReplayReadItems
<1>3. CASE ReplayReadOutbox(p)
  <2>1. ControlType' /\ VerdictReady'
    BY <1>3, Domains DEF ReplayReadOutbox, ControlType, VerdictReady, Labels
  <2>2. PublisherType'
    BY <1>3, Domains DEF ReplayReadOutbox, PublisherType
  <2> QED BY <1>3, <2>1, <2>2, TypeFrame DEF ReplayReadOutbox
<1>4. CASE \E i \in Items : ReplayItem(p, i)
  <2>0. PICK i \in Items : ReplayItem(p, i) BY <1>4
  <2>1. LedgerType'
    BY <2>0, Domains DEF ReplayItem, update_job_item_state, ItemStates, LedgerType
  <2>2. ControlType' /\ VerdictReady'
    BY <2>0, Domains DEF ReplayItem, ControlType, VerdictReady, Labels
  <2>3. PublisherType'
    BY <2>0, Domains DEF ReplayItem, PublisherType
  <2> QED BY <2>0, <2>1, <2>2, <2>3, TypeFrame DEF ReplayItem
<1>5. CASE ReplayDone(p)
  <2>1. LedgerType'
    BY <1>5, Domains DEF ReplayDone, update_job_state, JobStates, LedgerType
  <2>2. ControlType' /\ VerdictReady'
    BY <1>5, Domains DEF ReplayDone, ControlType, VerdictReady, Labels
  <2>3. PublisherType'
    BY <1>5, Domains DEF ReplayDone, PublisherType
  <2> QED BY <1>5, <2>1, <2>2, <2>3, TypeFrame DEF ReplayDone
<1>6. CASE FlushCount(p)
  <2>1. ControlType' /\ VerdictReady'
    BY <1>6, Domains, ActiveType, ConstantsAssumption DEF FlushCount, ControlType, VerdictReady, Labels
  <2>2. PublisherType'
    BY <1>6, Domains, ActiveType, ConstantsAssumption DEF FlushCount, PublisherType
  <2> QED BY <1>6, <2>1, <2>2, TypeFrame DEF FlushCount
<1>7. CASE FlushList(p)
  <2>1. ControlType' /\ VerdictReady'
    BY <1>7, Domains DEF FlushList, ControlType, VerdictReady, Labels
  <2>2. PublisherType'
    BY <1>7, Domains DEF FlushList, Pending, PublisherType
  <2> QED BY <1>7, <2>1, <2>2, TypeFrame DEF FlushList
<1>8. CASE \E r \in Records : FlushNext(p, r)
  <2>0. PICK r \in Records : FlushNext(p, r) BY <1>8
  <2>1. ControlType' /\ VerdictReady'
    BY <2>0, Domains DEF FlushNext, ControlType, VerdictReady, Labels
  <2>2. PublisherType'
    BY <2>0, Domains DEF FlushNext, PublisherType
  <2> QED BY <2>0, <2>1, <2>2, TypeFrame DEF FlushNext
<1>9. CASE \E r \in Records : BulkSend(p, r)
  <2>0. PICK r \in Records : BulkSend(p, r) BY <1>9
  <2>1. BrokerType'
    BY <2>0, Domains, AcceptType DEF BulkSend, BrokerType
  <2>2. PublisherType'
    BY <2>0, Domains, AcceptType DEF BulkSend, PublisherType
  <2> QED BY <2>0, <2>1, <2>2, TypeFrame DEF BulkSend
<1>10. CASE FlushEnd(p)
  <2>1. ControlType' /\ VerdictReady'
    BY <1>10, Domains DEF FlushEnd, CallRefresh, ReturnLabels, ControlType, VerdictReady, Labels
  <2>2. PublisherType'
    BY <1>10, Domains DEF FlushEnd, PublisherType
  <2> QED BY <1>10, <2>1, <2>2, TypeFrame DEF FlushEnd
<1>11. CASE BulkClaim(p)
  <2>1. LedgerType'
    BY <1>11, Domains DEF BulkClaim, claim_outbox_records, LedgerType
  <2>2. ControlType' /\ VerdictReady'
    BY <1>11, Domains DEF BulkClaim, ControlType, VerdictReady, Labels
  <2>3. PublisherType'
    BY <1>11, Domains DEF BulkClaim, Published, PublisherType
  <2> QED BY <1>11, <2>1, <2>2, <2>3, TypeFrame DEF BulkClaim
<1>12. CASE BulkMarkFailed(p)
  <2>1. LedgerType'
    BY <1>12, Domains DEF BulkMarkFailed, mark_outbox_failed, LedgerType
  <2>2. ControlType' /\ VerdictReady'
    BY <1>12, Domains DEF BulkMarkFailed, ControlType, VerdictReady, Labels
  <2> QED BY <1>12, <2>1, <2>2, TypeFrame DEF BulkMarkFailed
<1>13. CASE BulkMark(p)
  <2>1. LedgerType'
    BY <1>13, Domains DEF BulkMark, mark_outbox_published_many, LedgerType
  <2>2. ControlType' /\ VerdictReady'
    BY <1>13, Domains DEF BulkMark, ControlType, VerdictReady, Labels
  <2>3. PublisherType'
    BY <1>13, Domains DEF BulkMark, Published, PublisherType
  <2> QED BY <1>13, <2>1, <2>2, <2>3, TypeFrame DEF BulkMark
<1>14. CASE RelayCrash(p)
  <2>1. BrokerType'
    BY <1>14, Domains, FailType DEF RelayCrash, Failures, BrokerType
  <2>2. ControlType' /\ VerdictReady'
    BY <1>14, Domains, FailType DEF RelayCrash, JobStates, ReturnLabels, ControlType, VerdictReady, Labels
  <2>3. PublisherType'
    BY <1>14, Domains, FailType DEF RelayCrash, PublisherType
  <2> QED BY <1>14, <2>1, <2>2, <2>3, TypeFrame DEF RelayCrash
<1>15. CASE \E r \in Records : BulkSendFails(p, r)
  <2>0. PICK r \in Records : BulkSendFails(p, r) BY <1>15
  <2>1. BrokerType'
    BY <2>0, Domains, AcceptType, FailType DEF BulkSendFails, Failures, BrokerType
  <2>2. ControlType' /\ VerdictReady'
    BY <2>0, Domains, AcceptType, FailType DEF BulkSendFails, ControlType, VerdictReady, Labels
  <2>3. PublisherType'
    BY <2>0, Domains, AcceptType, FailType DEF BulkSendFails, PublisherType
  <2> QED BY <2>0, <2>1, <2>2, <2>3, TypeFrame DEF BulkSendFails
<1> QED BY <1>1, <1>2, <1>3, <1>4, <1>5, <1>6, <1>7, <1>8, <1>9, <1>10, <1>11, <1>12, <1>13, <1>14, <1>15 DEF Relay

\* process_scan_message under consume_queue keeps the types.
LEMMA WorkerTypeStep ==
  ASSUME TypeInv, NEW w \in Workers, Worker(w) \/ WorkerCrash(w) \/ ReaderUnavailable(w) \/ ScanFails(w)
  PROVE  TypeInv'
<1> USE DEF TypeInv, TypeOK
<1>1. CASE \E m \in Messages : Deliver(w, m)
  <2>0. PICK m \in Messages : Deliver(w, m) BY <1>1
  <2>1. BrokerType'
    BY <2>0, Domains DEF Deliver, BrokerType
  <2>2. ControlType' /\ VerdictReady'
    BY <2>0, Domains DEF Deliver, ControlType, VerdictReady, Labels
  <2>3. WorkerType'
    BY <2>0, Domains DEF Deliver, WorkerType
  <2> QED BY <2>0, <2>1, <2>2, <2>3, TypeFrame DEF Deliver
<1>2. CASE CheckItem(w)
  <2>1. ControlType' /\ VerdictReady'
    BY <1>2, Domains DEF CheckItem, ControlType, VerdictReady, Labels
  <2>2. WorkerType'
    BY <1>2, Domains DEF CheckItem, LedgerType, RowType, ItemOf, Messages, WorkerType
  <2> QED BY <1>2, <2>1, <2>2, TypeFrame DEF CheckItem
<1>3. CASE CheckJob(w)
  <2>1. ControlType' /\ VerdictReady'
    BY <1>3, Domains DEF CheckJob, ControlType, VerdictReady, Labels
  <2>2. WorkerType'
    BY <1>3, Domains DEF CheckJob, RowType, WorkerType
  <2> QED BY <1>3, <2>1, <2>2, TypeFrame DEF CheckJob
<1>4. CASE ReadForUpdate(w)
  <2>1. ControlType' /\ VerdictReady'
    BY <1>4, Domains, ItemOfType DEF ReadForUpdate, ControlType, VerdictReady, Labels
  <2>2. WorkerType'
    BY <1>4, Domains, ItemOfType DEF ReadForUpdate, LedgerType, RowType, WorkerType
  <2> QED BY <1>4, <2>1, <2>2, TypeFrame DEF ReadForUpdate
<1>5. CASE WriteStage(w)
  <2>1. LedgerType'
    BY <1>5, Domains, DeriveType, ItemOfType, StageWriteType DEF WriteStage, WorkerType, RowType, StageStates, LedgerType
  <2>2. ControlType' /\ VerdictReady'
    BY <1>5, Domains, DeriveType, ItemOfType, StageWriteType DEF WriteStage, CallRefresh, ReturnLabels, ControlType, VerdictReady, Labels
  <2>3. WorkerType'
    BY <1>5, Domains, DeriveType, ItemOfType, StageWriteType DEF WriteStage, RowType, WorkerType
  <2> QED BY <1>5, <2>1, <2>2, <2>3, TypeFrame DEF WriteStage
<1>6. CASE MarkRuntimeStarted(w)
  <2>1. LedgerType'
    BY <1>6, Domains DEF MarkRuntimeStarted, ItemOf, WorkerType, Messages, LedgerType
  <2>2. ControlType' /\ VerdictReady'
    BY <1>6, Domains DEF MarkRuntimeStarted, ControlType, VerdictReady, Labels
  <2> QED BY <1>6, <2>1, <2>2, TypeFrame DEF MarkRuntimeStarted
<1>7. CASE ScanSucceeds(w)
  <2>1. ControlType' /\ VerdictReady'
    BY <1>7, Domains DEF ScanSucceeds, ControlType, VerdictReady, Labels
  <2> QED BY <1>7, <2>1, TypeFrame DEF ScanSucceeds
<1>8. CASE CompleteScanOnly(w)
  <2>1. LedgerType'
    BY <1>8, Domains DEF CompleteScanOnly, update_job_item_stages, ItemStates, StageStates, LedgerType
  <2>2. ControlType' /\ VerdictReady'
    BY <1>8, Domains DEF CompleteScanOnly, ControlType, VerdictReady, Labels
  <2> QED BY <1>8, <2>1, <2>2, TypeFrame DEF CompleteScanOnly
<1>9. CASE ClearRuntime(w)
  <2>1. LedgerType'
    BY <1>9, Domains DEF ClearRuntime, LedgerType
  <2>2. ControlType' /\ VerdictReady'
    BY <1>9, Domains DEF ClearRuntime, ControlType, VerdictReady, Labels
  <2> QED BY <1>9, <2>1, <2>2, TypeFrame DEF ClearRuntime
<1>10. CASE Retry(w)
  <2>1. BrokerType'
    <3>1. UNCHANGED <<dlq, delivered, failures>> BY <1>10 DEF Retry
    <3>2. CASE msg[w][2] + 1 <= MaxRetry
      <4> DEFINE m == <<ItemOf(w), msg[w][2] + 1>>
      <4>1. msg[w] \in Messages BY DEF WorkerType
      <4>2. m \in Messages
        <5>1. msg[w][1] \in Items /\ msg[w][2] \in 0 .. MaxRetry BY <4>1 DEF Messages
        <5>2. msg[w][2] + 1 \in 0 .. MaxRetry BY <3>2, <5>1, ConstantsAssumption
        <5> QED BY <5>1, <5>2 DEF ItemOf, Messages
      <4>3. queue' = [queue EXCEPT ![m] = @ + 1]
        <5>1. msg[w][2] \in Nat BY <4>1, ConstantsAssumption DEF Messages
        <5>2. ~(msg[w][2] + 1 > MaxRetry) BY <3>2, <5>1, ConstantsAssumption
        <5> QED BY <1>10, <5>2, ZenonT(40) DEF Retry, Enqueue
      <4> HIDE DEF m
      <4> QED BY <3>1, <4>2, <4>3 DEF BrokerType
    <3>3. CASE queue' = queue BY <3>1, <3>3 DEF BrokerType
    <3> QED BY <1>10, <3>2, <3>3 DEF Retry
  <2>2. ControlType' /\ VerdictReady'
    BY <1>10, Domains DEF Retry, ControlType, VerdictReady, Labels
  <2> QED BY <1>10, <2>1, <2>2, TypeFrame DEF Retry
<1>11. CASE DeadLetter(w)
  <2>1. BrokerType'
    BY <1>11, Domains DEF DeadLetter, ItemOf, WorkerType, Messages, BrokerType
  <2>2. ControlType' /\ VerdictReady'
    BY <1>11, Domains DEF DeadLetter, ControlType, VerdictReady, Labels
  <2> QED BY <1>11, <2>1, <2>2, TypeFrame DEF DeadLetter
<1>12. CASE Ack(w)
  <2>1. ControlType' /\ VerdictReady'
    BY <1>12, Domains DEF Ack, ControlType, VerdictReady, Labels
  <2>2. WorkerType'
    BY <1>12, Domains DEF Ack, RowType, WorkerType
  <2> QED BY <1>12, <2>1, <2>2, TypeFrame DEF Ack
<1>13. CASE WorkerCrash(w)
  <2>1. BrokerType'
    BY <1>13, Domains, EnqueueType, FailType DEF WorkerCrash, WorkerType, Failures, BrokerType
  <2>2. ControlType' /\ VerdictReady'
    BY <1>13, Domains, EnqueueType, FailType DEF WorkerCrash, JobStates, ReturnLabels, ControlType, VerdictReady, Labels
  <2>3. WorkerType'
    BY <1>13, Domains, EnqueueType, FailType DEF WorkerCrash, RowType, WorkerType
  <2> QED BY <1>13, <2>1, <2>2, <2>3, TypeFrame DEF WorkerCrash
<1>14. CASE ReaderUnavailable(w)
  <2>1. BrokerType'
    BY <1>14, Domains, FailType DEF ReaderUnavailable, Failures, BrokerType
  <2>2. ControlType' /\ VerdictReady'
    BY <1>14, Domains, FailType DEF ReaderUnavailable, ControlType, VerdictReady, Labels
  <2> QED BY <1>14, <2>1, <2>2, TypeFrame DEF ReaderUnavailable
<1>15. CASE ScanFails(w)
  <2>1. BrokerType'
    BY <1>15, Domains, FailType DEF ScanFails, Failures, BrokerType
  <2>2. ControlType' /\ VerdictReady'
    BY <1>15, Domains, FailType DEF ScanFails, ControlType, VerdictReady, Labels
  <2> QED BY <1>15, <2>1, <2>2, TypeFrame DEF ScanFails
<1> QED BY <1>1, <1>2, <1>3, <1>4, <1>5, <1>6, <1>7, <1>8, <1>9, <1>10, <1>11, <1>12, <1>13, <1>14, <1>15 DEF Worker

\* cancel_job and get_job_progress keep the types.
LEMMA ApiType ==
  ASSUME TypeInv, CancelJob \/ CancelItems \/ PollReadJob \/ PollSummarize
  PROVE  TypeInv'
<1> USE DEF TypeInv, TypeOK
<1>1. CASE CancelJob
  <2>1. LedgerType'
    BY <1>1, Domains DEF CancelJob, update_job_state, JobStates, LedgerType
  <2>2. ControlType' /\ VerdictReady'
    BY <1>1, Domains DEF CancelJob, ControlType, VerdictReady, Labels
  <2> QED BY <1>1, <2>1, <2>2, TypeFrame DEF CancelJob
<1>2. CASE CancelItems
  <2>1. LedgerType'
    BY <1>2, Domains DEF CancelItems, cancel_job_items, ItemStates, LedgerType
  <2>2. ControlType' /\ VerdictReady'
    BY <1>2, Domains DEF CancelItems, ControlType, VerdictReady, Labels
  <2> QED BY <1>2, <2>1, <2>2, TypeFrame DEF CancelItems
<1>3. CASE PollReadJob
  <2>1. ControlType' /\ VerdictReady'
    BY <1>3, Domains DEF PollReadJob, ControlType, VerdictReady, Labels
  <2> QED BY <1>3, <2>1, TypeFrame DEF PollReadJob
<1>4. CASE PollSummarize
  <2>1. ControlType' /\ VerdictReady'
    BY <1>4, Domains DEF PollSummarize, CallRefresh, ReturnLabels, ControlType, VerdictReady, Labels
  <2> QED BY <1>4, <2>1, TypeFrame DEF PollSummarize
<1> QED BY <1>1, <1>2, <1>3, <1>4 DEF TypeOK

\* The types and VerdictReady are inductive.
LEMMA TypeStep == TypeInv /\ [Next]_vars => TypeInv'
<1> SUFFICES ASSUME TypeInv, [Next]_vars PROVE TypeInv' OBVIOUS
<1>1. CASE UNCHANGED vars
  BY <1>1, TypeFrame DEF vars, TypeInv, TypeOK
<1>2. ASSUME NEW p \in Procs, Step(p) PROVE TypeInv'
  BY <1>2, RefreshType, SubmitType, PublishType, RelayType, WorkerTypeStep, ApiType DEF Step
<1>3. CASE Disturb
  BY <1>3, PublishType, RelayType, WorkerTypeStep, ApiType DEF Disturb
<1> QED BY <1>1, <1>2, <1>3 DEF Next

\* In every reachable state the rows, queues and locals have their types, and a
\* refresh that is about to write has a job state to write.
THEOREM TypeCorrect == Spec => []TypeOK
<1>1. TypeInv => TypeOK BY DEF TypeInv
<1> QED BY InitType, TypeStep, <1>1, PTL DEF Spec
-----------------------------------------------------------------------------
(***************************************************************************)
(* Ended scans.  Only a stage update and the scan-only completion write    *)
(* the scan stage; the first is refused under the row lock when it would   *)
(* put "running" over an ended stage, whatever the caller read before.     *)
(***************************************************************************)
EndedScansStay ==
    \A i \in Items : stage[i]["scan"] \in TerminalStageStates
                       => stage'[i]["scan"] \in TerminalStageStates

LEMMA EndedScansStep ==
  ASSUME TypeInv, [Next]_vars
  PROVE  EndedScansStay
<1> USE DEF EndedScansStay
<1>1. CASE UNCHANGED stage
  BY <1>1
<1>2. ASSUME NEW w \in Workers, WriteStage(w) PROVE EndedScansStay
  <2>1. ItemOf(w) \in Items
    BY ItemOfType DEF TypeInv, TypeOK
  <2> QED
    BY <1>2, <2>1 DEF WriteStage, update_job_item_stage, TerminalStageStates, TypeInv, TypeOK,
       LedgerType, StageNames
<1>3. ASSUME NEW w \in Workers, CompleteScanOnly(w) PROVE EndedScansStay
  <2>1. ItemOf(w) \in Items
    BY ItemOfType DEF TypeInv, TypeOK
  <2> QED
    BY <1>3, <2>1 DEF CompleteScanOnly, update_job_item_stages, TerminalStageStates, TypeInv,
       TypeOK, LedgerType, StageNames
<1>4. ASSUME NEW w \in Workers, Worker(w) PROVE EndedScansStay
  <2>1. UNCHANGED stage \/ WriteStage(w) \/ CompleteScanOnly(w)
    BY <1>4 DEF Worker, Deliver, CheckItem, CheckJob, ReadForUpdate, MarkRuntimeStarted,
       ScanSucceeds, ClearRuntime, Retry, DeadLetter, Ack
  <2> QED BY <2>1, <1>1, <1>2, <1>3
<1>5. ASSUME NEW p \in Procs, Refresh(p) \/ Publish(p) \/ CreateOutbox(p) \/ SendFails(p)
      PROVE  UNCHANGED stage
  BY <1>5 DEF Refresh, RefreshReadJob, RefreshSummarize, RefreshWrite, Publish, Claim,
     LoadItem, SkipRecord, SetQueued, Send, MarkPublished, MarkFailed, SetPublishPending,
     CreateOutbox, SendFails
<1>6. ASSUME NEW p \in Relays,
             Relay(p) \/ RelayCrash(p) \/ \E r \in Records : BulkSendFails(p, r)
      PROVE  UNCHANGED stage
  BY <1>6 DEF Relay, ReplayReadJob, ReplayReadItems, ReplayReadOutbox, ReplayItem, ReplayDone,
     FlushCount, FlushList, FlushNext, FlushEnd, BulkClaim, BulkSend, BulkMarkFailed,
     BulkMark, RelayCrash, BulkSendFails
<1>7. ASSUME Submit \/ CancelJob \/ CancelItems \/ PollReadJob \/ PollSummarize
      PROVE  UNCHANGED stage
  BY <1>7 DEF Submit, CreateJob, BulkCreate, CreateItem, SubmitDone, CancelJob, CancelItems,
     PollReadJob, PollSummarize
<1>8. ASSUME NEW w \in Workers, WorkerCrash(w) \/ ReaderUnavailable(w) \/ ScanFails(w)
      PROVE  UNCHANGED stage
  BY <1>8 DEF WorkerCrash, ReaderUnavailable, ScanFails
<1>9. CASE UNCHANGED vars
  BY <1>9, <1>1 DEF vars
<1>10. ASSUME NEW p \in Procs, Step(p) PROVE EndedScansStay
  BY <1>10, <1>1, <1>4, <1>5, <1>6, <1>7 DEF Step
<1>11. CASE Disturb
  BY <1>11, <1>1, <1>5, <1>6, <1>7, <1>8, Domains DEF Disturb
<1> QED BY <1>9, <1>10, <1>11 DEF Next

\* A late, redelivered or retried scan message never reopens a scan that has
\* ended, for any number of workers holding copies of it.
THEOREM EndedScansStayEnded == Spec => ScanStageStaysEnded
<1>1. TypeInv /\ [Next]_vars => [EndedScansStay]_vars
  BY EndedScansStep
<1>2. [][EndedScansStay]_vars => ScanStageStaysEnded
  BY DEF EndedScansStay, ScanStageStaysEnded
<1> QED BY InitType, TypeStep, <1>1, <1>2, PTL DEF Spec
-----------------------------------------------------------------------------
(***************************************************************************)
(* Leases.  A worker with a lease stays, unless it dies, between the lease *)
(* and the finally clause that clears it.                                  *)
(***************************************************************************)
RefreshLabels == {"refresh", "refresh_summarize", "refresh_write"}
LeaseLabels ==
    {"scan", "recheck_item", "recheck_job", "complete", "fail_read", "fail_write",
     "release", "release_retry"}

\* Worker w is on its way to clear the lease of its item.
WillClear(w) == pc[w] \in LeaseLabels \/ (pc[w] \in RefreshLabels /\ ret[w] = "release")

\* LeaseHasWorker, with where that worker is.
LeaseHeld ==
    failures["worker"] = 0 => \A i \in lease : \E w \in Workers : WillClear(w) /\ msg[w][1] = i

\* A step keeps LeaseHeld when the leases it leaves, or adds, have a worker still or now.
LEMMA LeaseFrame ==
  ASSUME LeaseHeld, failures'["worker"] = failures["worker"], lease' \subseteq lease,
         \A w \in Workers : WillClear(w) /\ msg[w][1] \in lease' =>
                                WillClear(w)' /\ msg'[w] = msg[w]
  PROVE  LeaseHeld'
  BY DEF LeaseHeld

\* The refresh returns to where its caller goes on.
LEMMA LeaseRefresh ==
  ASSUME TypeInv, LeaseHeld, NEW p \in Procs, Refresh(p)
  PROVE  LeaseHeld'
<1> USE Domains DEF TypeInv, TypeOK, ControlType
<1>1. UNCHANGED <<lease, msg, failures>>
  BY DEF Refresh, RefreshReadJob, RefreshSummarize, RefreshWrite
<1>2. \A q \in Procs \ {p} : pc'[q] = pc[q] /\ ret'[q] = ret[q]
  BY DEF Refresh, RefreshReadJob, RefreshSummarize, RefreshWrite, RefreshReturn
<1>3. /\ pc[p] \in RefreshLabels
      /\ \/ pc'[p] \in RefreshLabels /\ ret'[p] = ret[p]
         \/ pc'[p] = ret[p]
  BY DEF Refresh, RefreshReadJob, RefreshSummarize, RefreshWrite, RefreshReturn, RefreshLabels
<1>4. \A w \in Workers : WillClear(w) => WillClear(w)'
  BY <1>2, <1>3 DEF WillClear, RefreshLabels, LeaseLabels
<1> QED BY <1>1, <1>4, LeaseFrame

\* The workers.
LEMMA LeaseWorker ==
  ASSUME TypeInv, LeaseHeld, NEW w \in Workers, Worker(w) \/ ReaderUnavailable(w) \/ ScanFails(w)
  PROVE  LeaseHeld'
<1> USE Domains DEF TypeInv, TypeOK, ControlType, WorkerType, BrokerType
<1>1. CASE MarkRuntimeStarted(w)
  <2>1. pc' = [pc EXCEPT ![w] = "scan"] /\ UNCHANGED <<ret, msg, failures>>
    BY <1>1 DEF MarkRuntimeStarted
  <2>2. WillClear(w)' /\ ~WillClear(w)
    BY <1>1, <2>1 DEF MarkRuntimeStarted, WillClear, LeaseLabels, RefreshLabels
  <2>3. \A v \in Workers : WillClear(v) => WillClear(v)'
    BY <2>1, <2>2 DEF WillClear
  <2>4. lease' = lease \cup {msg[w][1]}
    BY <1>1 DEF MarkRuntimeStarted, ItemOf
  <2> QED BY <2>1, <2>2, <2>3, <2>4 DEF LeaseHeld
<1>2. CASE ClearRuntime(w)
  <2>1. lease' = lease \ {msg[w][1]} /\ UNCHANGED <<ret, msg, failures>>
    BY <1>2 DEF ClearRuntime, ItemOf
  <2>2. \A v \in Workers \ {w} : WillClear(v)' = WillClear(v)
    BY <1>2 DEF ClearRuntime, WillClear
  <2> QED BY <2>1, <2>2, LeaseFrame
<1>3. CASE WriteStage(w)
  <2>1. UNCHANGED <<lease, msg, failures>>
    BY <1>3 DEF WriteStage
  <2>2. \A v \in Workers \ {w} : WillClear(v)' = WillClear(v)
    BY <1>3 DEF WriteStage, CallRefresh, WillClear
  <2>3. WillClear(w) => WillClear(w)'
    BY <1>3 DEF WriteStage, CallRefresh, WillClear, LeaseLabels, RefreshLabels
  <2> QED BY <2>1, <2>2, <2>3, LeaseFrame
<1>4. CASE (\E m \in Messages : Deliver(w, m)) \/ Ack(w)
  <2>1. /\ UNCHANGED <<lease, ret, failures>> /\ pc[w] \in {"idle", "ack"}
        /\ \A v \in Workers \ {w} : pc'[v] = pc[v] /\ msg'[v] = msg[v]
    BY <1>4 DEF Deliver, Ack
  <2>2. ~WillClear(w)
    BY <2>1 DEF WillClear, LeaseLabels, RefreshLabels
  <2>3. \A v \in Workers \ {w} : WillClear(v)' = WillClear(v)
    BY <2>1 DEF WillClear
  <2> QED BY <2>1, <2>2, <2>3, LeaseFrame
<1>5. CASE \/ CheckItem(w) \/ CheckJob(w) \/ ReadForUpdate(w) \/ ScanSucceeds(w)
           \/ CompleteScanOnly(w) \/ Retry(w) \/ DeadLetter(w)
           \/ ReaderUnavailable(w) \/ ScanFails(w)
  <2>1. UNCHANGED <<lease, ret, msg>> /\ failures'["worker"] = failures["worker"]
    BY <1>5, SMTT(30) DEF CheckItem, CheckJob, ReadForUpdate, ScanSucceeds, CompleteScanOnly,
       Retry, DeadLetter, ReaderUnavailable, ScanFails, Failures
  <2>2. \A v \in Workers \ {w} : WillClear(v)' = WillClear(v)
    BY <1>5 DEF CheckItem, CheckJob, ReadForUpdate, ScanSucceeds, CompleteScanOnly, Retry,
       DeadLetter, ReaderUnavailable, ScanFails, WillClear
  <2>3. pc[w] \notin RefreshLabels /\ (pc[w] \in LeaseLabels => pc'[w] \in LeaseLabels)
    BY <1>5 DEF CheckItem, CheckJob, ReadForUpdate, ScanSucceeds, CompleteScanOnly, Retry,
       DeadLetter, ReaderUnavailable, ScanFails, LeaseLabels, RefreshLabels
  <2> QED BY <2>1, <2>2, <2>3, LeaseFrame DEF WillClear
<1> QED BY <1>1, <1>2, <1>3, <1>4, <1>5 DEF Worker

\* Nobody else sets or clears a lease.
LEMMA LeaseOthers ==
  ASSUME TypeInv, LeaseHeld,
         \/ \E p \in Publishers : Publish(p) \/ CreateOutbox(p) \/ SendFails(p)
         \/ \E p \in Relays :
                Relay(p) \/ RelayCrash(p) \/ \E r \in Records : BulkSendFails(p, r)
         \/ Submit \/ CancelJob \/ CancelItems \/ PollReadJob \/ PollSummarize
  PROVE  LeaseHeld'
<1> USE Domains, ConstantsAssumption DEF TypeInv, TypeOK, ControlType, BrokerType
<1>1. UNCHANGED <<lease, msg>> /\ failures'["worker"] = failures["worker"]
  BY ZenonT(40) DEF Publish, Claim, LoadItem, SkipRecord, SetQueued, Send, MarkPublished, MarkFailed,
     SetPublishPending, CreateOutbox, SendFails, Relay, ReplayReadJob, ReplayReadItems,
     ReplayReadOutbox, ReplayItem, ReplayDone, FlushCount, FlushList, FlushNext, FlushEnd,
     BulkClaim, BulkSend, BulkMarkFailed, BulkMark, RelayCrash, BulkSendFails, Submit,
     CreateJob, BulkCreate, CreateItem, SubmitDone, CancelJob, CancelItems, PollReadJob,
     PollSummarize, Failures
<1>2. PICK p \in Procs \ Workers : \A q \in Procs \ {p} : pc'[q] = pc[q] /\ ret'[q] = ret[q]
  <2>1. ASSUME NEW p \in Publishers, Publish(p) \/ CreateOutbox(p) \/ SendFails(p)
        PROVE  \A q \in Procs \ {p} : pc'[q] = pc[q] /\ ret'[q] = ret[q]
    BY <2>1 DEF Publish, Claim, LoadItem, SkipRecord, SetQueued, Send, MarkPublished, MarkFailed,
       SetPublishPending, CreateOutbox, SendFails, CallRefresh
  <2>2. ASSUME NEW p \in Relays,
               Relay(p) \/ RelayCrash(p) \/ \E r \in Records : BulkSendFails(p, r)
        PROVE  \A q \in Procs \ {p} : pc'[q] = pc[q] /\ ret'[q] = ret[q]
    BY <2>2 DEF Relay, ReplayReadJob, ReplayReadItems, ReplayReadOutbox, ReplayItem, ReplayDone,
       FlushCount, FlushList, FlushNext, FlushEnd, BulkClaim, BulkSend, BulkMarkFailed,
       BulkMark, RelayCrash, BulkSendFails, CallRefresh
  <2>3. ASSUME Submit
        PROVE  \A q \in Procs \ {"api"} : pc'[q] = pc[q] /\ ret'[q] = ret[q]
    BY <2>3 DEF Submit, CreateJob, BulkCreate, CreateItem, SubmitDone
  <2>4. ASSUME CancelJob \/ CancelItems
        PROVE  \A q \in Procs \ {"operator"} : pc'[q] = pc[q] /\ ret'[q] = ret[q]
    BY <2>4 DEF CancelJob, CancelItems
  <2>5. ASSUME PollReadJob \/ PollSummarize
        PROVE  \A q \in Procs \ {"client"} : pc'[q] = pc[q] /\ ret'[q] = ret[q]
    BY <2>5 DEF PollReadJob, PollSummarize, CallRefresh
  <2>6. Publishers \cap Workers = {} /\ {"api", "operator", "client"} \cap Workers = {}
    BY DEF Publishers
  <2> QED BY <2>1, <2>2, <2>3, <2>4, <2>5, <2>6
<1>3. \A w \in Workers : WillClear(w)' = WillClear(w)
  BY <1>2 DEF WillClear
<1> QED BY <1>1, <1>3, LeaseFrame

LEMMA LeaseStep == TypeInv /\ LeaseHeld /\ [Next]_vars => LeaseHeld'
<1> SUFFICES ASSUME TypeInv, LeaseHeld, [Next]_vars PROVE LeaseHeld' OBVIOUS
<1>1. CASE UNCHANGED vars
  BY <1>1 DEF vars, LeaseHeld, WillClear
<1>2. ASSUME NEW p \in Procs, Step(p) PROVE LeaseHeld'
  BY <1>2, LeaseRefresh, LeaseWorker, LeaseOthers DEF Step
<1>3. ASSUME NEW w \in Workers, WorkerCrash(w) PROVE LeaseHeld'
  BY <1>3 DEF WorkerCrash, LeaseHeld, TypeInv, TypeOK, BrokerType, Failures
<1>4. CASE Disturb
  BY <1>3, <1>4, LeaseWorker, LeaseOthers DEF Disturb
<1> QED BY <1>1, <1>2, <1>4 DEF Next

\* As long as no worker has died, every runtime lease is of an item whose message a worker
\* has in hand: however many copies of a message are being worked on, and whatever fails,
\* the lease is cleared before the message is given back (the finally clause of
\* process_scan_message).
THEOREM LeasesHaveWorkers == Spec => []LeaseHasWorker
<1>1. Init => LeaseHeld
  BY DEF Init, LeaseHeld
<1>2. LeaseHeld => LeaseHasWorker
  BY DEF LeaseHeld, LeaseHasWorker, WillClear, LeaseLabels, RefreshLabels
<1> QED BY InitType, TypeStep, LeaseStep, <1>1, <1>2, PTL DEF Spec
-----------------------------------------------------------------------------
(***************************************************************************)
(* Publish ownership is exclusive.  A publisher changes the state of a     *)
(* record only when it holds it or when nobody does, so the records the    *)
(* others hold are untouched: ClaimExchange is that argument, and one step *)
(* per action shows that the action fits it.                               *)
(***************************************************************************)
\* ExclusiveClaim with what makes it inductive.
ClaimInv == TypeInv /\ ExclusiveClaim /\ ClaimSupport

LEMMA ClaimInit == Init => ClaimInv
<1> SUFFICES ASSUME Init PROVE ClaimInv OBVIOUS
<1>1. TypeInv BY InitType
<1>2. ExclusiveClaim BY DEF Init, ExclusiveClaim, Holding, Publishers, Procs
<1>3. ClaimSupport
  BY ConstantsAssumption
  DEF Init, ClaimSupport, BulkLocals, SubmitterIsInline, NothingBeforeBatch, Publishers, Procs
<1> QED BY <1>1, <1>2, <1>3 DEF ClaimInv

\* A step of p takes only records nobody holds, and changes only records p holds
\* or nobody holds.
KeepsToItsClaims(p) ==
    /\ \A r \in Holding(p)' : /\ r \in Holding(p) \/ outbox[r] # "publishing"
                              /\ outbox'[r] = "publishing"
    /\ \A r \in Records :
          outbox'[r] = outbox[r] \/ outbox[r] # "publishing" \/ r \in Holding(p)

\* Such a step leaves every claim exclusive.
LEMMA ClaimExchange ==
  ASSUME ClaimInv, NEW p \in Publishers, KeepsToItsClaims(p),
         \A q \in Publishers \ {p} : Holding(q)' = Holding(q)
  PROVE  ExclusiveClaim'
<1> USE DEF KeepsToItsClaims
<1>1. \A q \in Publishers : Holding(q) \subseteq Records
  BY DEF ClaimInv, TypeInv, TypeOK, PublisherType, ClaimSupport, SubmitterIsInline, Holding,
     Publishers
<1>2. \A q \in Publishers \ {p} : \A r \in Holding(q) : outbox'[r] = "publishing"
  BY <1>1 DEF ClaimInv, ExclusiveClaim
<1>3. \A q \in Publishers \ {p} : Holding(p)' \cap Holding(q) = {}
  BY DEF ClaimInv, ExclusiveClaim
<1> QED BY <1>2, <1>3 DEF ClaimInv, ExclusiveClaim

\* What a process other than the publishers does leaves the claims alone.
LEMMA ClaimFrame ==
  ASSUME ClaimInv, UNCHANGED <<outbox, rec, todo, sent>>,
         \A q \in Publishers : pc'[q] = pc[q]
  PROVE  ExclusiveClaim' /\ BulkLocals' /\ SubmitterIsInline'
<1>1. \A q \in Publishers : Holding(q)' = Holding(q)
  BY DEF Holding
<1> QED BY <1>1, Domains DEF ClaimInv, ClaimSupport, ExclusiveClaim, BulkLocals, SubmitterIsInline

\* A step of one publisher leaves what the others hold.
LEMMA OthersHold ==
  ASSUME ClaimInv, NEW p \in Publishers, NEW q \in Publishers \ {p}, pc'[q] = pc[q],
         rec'[q] = rec[q],
         q \in Relays => todo'[q] = todo[q] /\ sent'[q] = sent[q]
  PROVE  Holding(q)' = Holding(q)
  BY DEF ClaimInv, ClaimSupport, SubmitterIsInline, Holding, Publishers

\* _publish_outbox_record, its failure and the creation of a record.
LEMMA ClaimPublish ==
  ASSUME ClaimInv, NEW p \in Publishers, Publish(p) \/ CreateOutbox(p) \/ SendFails(p)
  PROVE  ExclusiveClaim' /\ ClaimSupport'
<1> USE Domains DEF ClaimInv, TypeInv, TypeOK, ControlType
<1>1. CASE Claim(p)
  <2>1. \A q \in Procs \ {p} : pc'[q] = pc[q]
    BY <1>1 DEF Claim
  <2>2. \A q \in Publishers \ {p} : Holding(q)' = Holding(q)
    BY <1>1, <2>1, OthersHold DEF Claim, PublisherType
  <2>3. KeepsToItsClaims(p)
    BY <1>1 DEF Claim, claim_outbox_record, Published, PublishReturn, KeepsToItsClaims, Holding, ExclusiveClaim, LedgerType, PublisherType
  <2>4. BulkLocals' /\ SubmitterIsInline'
    BY <1>1, <2>1 DEF Claim, PublishReturn, ClaimSupport, BulkLocals, SubmitterIsInline
  <2>5. NothingBeforeBatch'
    BY <1>1, <2>1 DEF Claim, PublishReturn, ClaimSupport, NothingBeforeBatch, Publishers
  <2> QED BY <2>2, <2>3, <2>4, <2>5, ClaimExchange DEF ClaimSupport
<1>2. CASE LoadItem(p)
  <2>1. \A q \in Procs \ {p} : pc'[q] = pc[q]
    BY <1>2 DEF LoadItem
  <2>2. \A q \in Publishers \ {p} : Holding(q)' = Holding(q)
    BY <1>2, <2>1, OthersHold DEF LoadItem, PublisherType
  <2>3. KeepsToItsClaims(p)
    BY <1>2 DEF LoadItem, PublishReturn, KeepsToItsClaims, Holding, ExclusiveClaim, LedgerType, PublisherType
  <2>4. BulkLocals' /\ SubmitterIsInline'
    BY <1>2, <2>1 DEF LoadItem, PublishReturn, ClaimSupport, BulkLocals, SubmitterIsInline
  <2>5. NothingBeforeBatch'
    BY <1>2, <2>1 DEF LoadItem, PublishReturn, ClaimSupport, NothingBeforeBatch, Publishers
  <2> QED BY <2>2, <2>3, <2>4, <2>5, ClaimExchange DEF ClaimSupport
<1>3. CASE SkipRecord(p)
  <2>1. \A q \in Procs \ {p} : pc'[q] = pc[q]
    BY <1>3 DEF SkipRecord, CallRefresh
  <2>2. \A q \in Publishers \ {p} : Holding(q)' = Holding(q)
    BY <1>3, <2>1, OthersHold DEF SkipRecord, PublisherType
  <2>3. KeepsToItsClaims(p)
    BY <1>3 DEF SkipRecord, mark_outbox_published, CallRefresh, PublishReturn, KeepsToItsClaims, Holding, ExclusiveClaim, LedgerType, PublisherType
  <2>4. BulkLocals' /\ SubmitterIsInline'
    BY <1>3, <2>1 DEF SkipRecord, CallRefresh, PublishReturn, ClaimSupport, BulkLocals, SubmitterIsInline
  <2>5. NothingBeforeBatch'
    BY <1>3, <2>1 DEF SkipRecord, CallRefresh, PublishReturn, ClaimSupport, NothingBeforeBatch, Publishers
  <2> QED BY <2>2, <2>3, <2>4, <2>5, ClaimExchange DEF ClaimSupport
<1>4. CASE SetQueued(p)
  <2>1. \A q \in Procs \ {p} : pc'[q] = pc[q]
    BY <1>4 DEF SetQueued
  <2>2. \A q \in Publishers \ {p} : Holding(q)' = Holding(q)
    BY <1>4, <2>1, OthersHold DEF SetQueued, PublisherType
  <2>3. KeepsToItsClaims(p)
    BY <1>4 DEF SetQueued, PublishReturn, KeepsToItsClaims, Holding, ExclusiveClaim, LedgerType, PublisherType
  <2>4. BulkLocals' /\ SubmitterIsInline'
    BY <1>4, <2>1 DEF SetQueued, PublishReturn, ClaimSupport, BulkLocals, SubmitterIsInline
  <2>5. NothingBeforeBatch'
    BY <1>4, <2>1 DEF SetQueued, PublishReturn, ClaimSupport, NothingBeforeBatch, Publishers
  <2> QED BY <2>2, <2>3, <2>4, <2>5, ClaimExchange DEF ClaimSupport
<1>5. CASE Send(p)
  <2>1. \A q \in Procs \ {p} : pc'[q] = pc[q]
    BY <1>5 DEF Send
  <2>2. \A q \in Publishers \ {p} : Holding(q)' = Holding(q)
    BY <1>5, <2>1, OthersHold DEF Send, PublisherType
  <2>3. KeepsToItsClaims(p)
    BY <1>5 DEF Send, PublishReturn, KeepsToItsClaims, Holding, ExclusiveClaim, LedgerType, PublisherType
  <2>4. BulkLocals' /\ SubmitterIsInline'
    BY <1>5, <2>1 DEF Send, PublishReturn, ClaimSupport, BulkLocals, SubmitterIsInline
  <2>5. NothingBeforeBatch'
    BY <1>5, <2>1 DEF Send, PublishReturn, ClaimSupport, NothingBeforeBatch, Publishers
  <2> QED BY <2>2, <2>3, <2>4, <2>5, ClaimExchange DEF ClaimSupport
<1>6. CASE MarkPublished(p)
  <2>1. \A q \in Procs \ {p} : pc'[q] = pc[q]
    BY <1>6 DEF MarkPublished
  <2>2. \A q \in Publishers \ {p} : Holding(q)' = Holding(q)
    BY <1>6, <2>1, OthersHold DEF MarkPublished, PublisherType
  <2>3. KeepsToItsClaims(p)
    BY <1>6 DEF MarkPublished, mark_outbox_published, PublishReturn, KeepsToItsClaims, Holding, ExclusiveClaim, LedgerType, PublisherType
  <2>4. BulkLocals' /\ SubmitterIsInline'
    BY <1>6, <2>1 DEF MarkPublished, PublishReturn, ClaimSupport, BulkLocals, SubmitterIsInline
  <2>5. NothingBeforeBatch'
    BY <1>6, <2>1 DEF MarkPublished, PublishReturn, ClaimSupport, NothingBeforeBatch, Publishers
  <2> QED BY <2>2, <2>3, <2>4, <2>5, ClaimExchange DEF ClaimSupport
<1>7. CASE MarkFailed(p)
  <2>1. \A q \in Procs \ {p} : pc'[q] = pc[q]
    BY <1>7 DEF MarkFailed
  <2>2. \A q \in Publishers \ {p} : Holding(q)' = Holding(q)
    BY <1>7, <2>1, OthersHold DEF MarkFailed, PublisherType
  <2>3. KeepsToItsClaims(p)
    BY <1>7 DEF MarkFailed, mark_outbox_failed, PublishReturn, KeepsToItsClaims, Holding, ExclusiveClaim, LedgerType, PublisherType
  <2>4. BulkLocals' /\ SubmitterIsInline'
    BY <1>7, <2>1 DEF MarkFailed, PublishReturn, ClaimSupport, BulkLocals, SubmitterIsInline
  <2>5. NothingBeforeBatch'
    BY <1>7, <2>1 DEF MarkFailed, PublishReturn, ClaimSupport, NothingBeforeBatch, Publishers
  <2> QED BY <2>2, <2>3, <2>4, <2>5, ClaimExchange DEF ClaimSupport
<1>8. CASE SetPublishPending(p)
  <2>1. \A q \in Procs \ {p} : pc'[q] = pc[q]
    BY <1>8 DEF SetPublishPending, CallRefresh
  <2>2. \A q \in Publishers \ {p} : Holding(q)' = Holding(q)
    BY <1>8, <2>1, OthersHold DEF SetPublishPending, PublisherType
  <2>3. KeepsToItsClaims(p)
    BY <1>8 DEF SetPublishPending, CallRefresh, PublishReturn, KeepsToItsClaims, Holding, ExclusiveClaim, LedgerType, PublisherType
  <2>4. BulkLocals' /\ SubmitterIsInline'
    BY <1>8, <2>1 DEF SetPublishPending, CallRefresh, PublishReturn, ClaimSupport, BulkLocals, SubmitterIsInline
  <2>5. NothingBeforeBatch'
    BY <1>8, <2>1 DEF SetPublishPending, CallRefresh, PublishReturn, ClaimSupport, NothingBeforeBatch, Publishers
  <2> QED BY <2>2, <2>3, <2>4, <2>5, ClaimExchange DEF ClaimSupport
<1>9. CASE CreateOutbox(p)
  <2>1. \A q \in Procs \ {p} : pc'[q] = pc[q]
    BY <1>9 DEF CreateOutbox
  <2>2. \A q \in Publishers \ {p} : Holding(q)' = Holding(q)
    BY <1>9, <2>1, OthersHold DEF CreateOutbox, PublisherType
  <2>3. KeepsToItsClaims(p)
    BY <1>9, ZenonT(40) DEF CreateOutbox, create_outbox_record, Records, PublishReturn, KeepsToItsClaims, Holding, ExclusiveClaim, LedgerType, PublisherType
  <2>4. BulkLocals' /\ SubmitterIsInline'
    BY <1>9, <2>1 DEF CreateOutbox, PublishReturn, ClaimSupport, BulkLocals, SubmitterIsInline
  <2>5. NothingBeforeBatch'
    BY <1>9, <2>1 DEF CreateOutbox, PublishReturn, ClaimSupport, NothingBeforeBatch, Publishers
  <2> QED BY <2>2, <2>3, <2>4, <2>5, ClaimExchange DEF ClaimSupport
<1>10. CASE SendFails(p)
  <2>1. \A q \in Procs \ {p} : pc'[q] = pc[q]
    BY <1>10 DEF SendFails
  <2>2. \A q \in Publishers \ {p} : Holding(q)' = Holding(q)
    BY <1>10, <2>1, OthersHold DEF SendFails, PublisherType
  <2>3. KeepsToItsClaims(p)
    BY <1>10 DEF SendFails, PublishReturn, KeepsToItsClaims, Holding, ExclusiveClaim, LedgerType, PublisherType
  <2>4. BulkLocals' /\ SubmitterIsInline'
    BY <1>10, <2>1 DEF SendFails, PublishReturn, ClaimSupport, BulkLocals, SubmitterIsInline
  <2>5. NothingBeforeBatch'
    BY <1>10, <2>1 DEF SendFails, PublishReturn, ClaimSupport, NothingBeforeBatch, Publishers
  <2> QED BY <2>2, <2>3, <2>4, <2>5, ClaimExchange DEF ClaimSupport
<1> QED BY <1>1, <1>2, <1>3, <1>4, <1>5, <1>6, <1>7, <1>8, <1>9, <1>10 DEF Publish

\* The relay: the replay at start, the flushes and a crash.
LEMMA ClaimRelay ==
  ASSUME ClaimInv, NEW p \in Relays,
         Relay(p) \/ RelayCrash(p) \/ \E r \in Records : BulkSendFails(p, r)
  PROVE  ExclusiveClaim' /\ ClaimSupport'
<1> USE Domains, ConstantsAssumption DEF ClaimInv, TypeInv, TypeOK, ControlType
<1>1. CASE ReplayReadJob(p)
  <2>1. \A q \in Procs \ {p} : pc'[q] = pc[q]
    BY <1>1 DEF ReplayReadJob
  <2>2. \A q \in Publishers \ {p} : Holding(q)' = Holding(q)
    BY <1>1, <2>1, OthersHold DEF ReplayReadJob, PublisherType
  <2>3. KeepsToItsClaims(p)
    BY <1>1
    DEF ReplayReadJob, KeepsToItsClaims, Holding, ExclusiveClaim, LedgerType, PublisherType, ClaimSupport, BulkLocals
  <2>4. BulkLocals' /\ SubmitterIsInline'
    BY <1>1, <2>1
    DEF ReplayReadJob, PublisherType, ClaimSupport, BulkLocals, SubmitterIsInline
  <2>5. NothingBeforeBatch'
    BY <1>1, <2>1
    DEF ReplayReadJob, PublisherType, ClaimSupport, NothingBeforeBatch
  <2> QED BY <2>2, <2>3, <2>4, <2>5, ClaimExchange DEF ClaimSupport
<1>2. CASE ReplayReadItems(p)
  <2>1. \A q \in Procs \ {p} : pc'[q] = pc[q]
    BY <1>2 DEF ReplayReadItems
  <2>2. \A q \in Publishers \ {p} : Holding(q)' = Holding(q)
    BY <1>2, <2>1, OthersHold DEF ReplayReadItems, PublisherType
  <2>3. KeepsToItsClaims(p)
    BY <1>2
    DEF ReplayReadItems, Created, KeepsToItsClaims, Holding, ExclusiveClaim, LedgerType, PublisherType, ClaimSupport, BulkLocals
  <2>4. BulkLocals' /\ SubmitterIsInline'
    BY <1>2, <2>1
    DEF ReplayReadItems, PublisherType, ClaimSupport, BulkLocals, SubmitterIsInline
  <2>5. NothingBeforeBatch'
    BY <1>2, <2>1
    DEF ReplayReadItems, Created, PublisherType, ClaimSupport, NothingBeforeBatch
  <2> QED BY <2>2, <2>3, <2>4, <2>5, ClaimExchange DEF ClaimSupport
<1>3. CASE ReplayReadOutbox(p)
  <2>1. \A q \in Procs \ {p} : pc'[q] = pc[q]
    BY <1>3 DEF ReplayReadOutbox
  <2>2. \A q \in Publishers \ {p} : Holding(q)' = Holding(q)
    BY <1>3, <2>1, OthersHold DEF ReplayReadOutbox, PublisherType
  <2>3. KeepsToItsClaims(p)
    BY <1>3
    DEF ReplayReadOutbox, KeepsToItsClaims, Holding, ExclusiveClaim, LedgerType, PublisherType, ClaimSupport, BulkLocals
  <2>4. BulkLocals' /\ SubmitterIsInline'
    BY <1>3, <2>1
    DEF ReplayReadOutbox, PublisherType, ClaimSupport, BulkLocals, SubmitterIsInline
  <2>5. NothingBeforeBatch'
    BY <1>3, <2>1
    DEF ReplayReadOutbox, PublisherType, ClaimSupport, NothingBeforeBatch
  <2> QED BY <2>2, <2>3, <2>4, <2>5, ClaimExchange DEF ClaimSupport
<1>4. CASE \E i \in Items : ReplayItem(p, i)
  <2>0. PICK i \in Items : ReplayItem(p, i) BY <1>4
  <2>1. \A q \in Procs \ {p} : pc'[q] = pc[q]
    BY <2>0 DEF ReplayItem
  <2>2. \A q \in Publishers \ {p} : Holding(q)' = Holding(q)
    BY <2>0, <2>1, OthersHold DEF ReplayItem, PublisherType
  <2>3. KeepsToItsClaims(p)
    BY <2>0
    DEF ReplayItem, KeepsToItsClaims, Holding, ExclusiveClaim, LedgerType, PublisherType, ClaimSupport, BulkLocals
  <2>4. BulkLocals' /\ SubmitterIsInline'
    BY <2>0, <2>1
    DEF ReplayItem, PublisherType, ClaimSupport, BulkLocals, SubmitterIsInline
  <2>5. NothingBeforeBatch'
    BY <2>0, <2>1
    DEF ReplayItem, PublisherType, ClaimSupport, NothingBeforeBatch
  <2> QED BY <2>2, <2>3, <2>4, <2>5, ClaimExchange DEF ClaimSupport
<1>5. CASE ReplayDone(p)
  <2>1. \A q \in Procs \ {p} : pc'[q] = pc[q]
    BY <1>5 DEF ReplayDone
  <2>2. \A q \in Publishers \ {p} : Holding(q)' = Holding(q)
    BY <1>5, <2>1, OthersHold DEF ReplayDone, PublisherType
  <2>3. KeepsToItsClaims(p)
    BY <1>5
    DEF ReplayDone, KeepsToItsClaims, Holding, ExclusiveClaim, LedgerType, PublisherType, ClaimSupport, BulkLocals
  <2>4. BulkLocals' /\ SubmitterIsInline'
    BY <1>5, <2>1
    DEF ReplayDone, PublisherType, ClaimSupport, BulkLocals, SubmitterIsInline
  <2>5. NothingBeforeBatch'
    BY <1>5, <2>1
    DEF ReplayDone, PublisherType, ClaimSupport, NothingBeforeBatch
  <2> QED BY <2>2, <2>3, <2>4, <2>5, ClaimExchange DEF ClaimSupport
<1>6. CASE FlushCount(p)
  <2>1. \A q \in Procs \ {p} : pc'[q] = pc[q]
    BY <1>6 DEF FlushCount
  <2>2. \A q \in Publishers \ {p} : Holding(q)' = Holding(q)
    BY <1>6, <2>1, OthersHold DEF FlushCount, PublisherType
  <2>3. KeepsToItsClaims(p)
    BY <1>6
    DEF FlushCount, Pending, KeepsToItsClaims, Holding, ExclusiveClaim, LedgerType, PublisherType, ClaimSupport, BulkLocals
  <2>4. BulkLocals' /\ SubmitterIsInline'
    BY <1>6, <2>1
    DEF FlushCount, PublisherType, ClaimSupport, BulkLocals, SubmitterIsInline
  <2>5. NothingBeforeBatch'
    BY <1>6, <2>1
    DEF FlushCount, Pending, PublisherType, ClaimSupport, NothingBeforeBatch
  <2> QED BY <2>2, <2>3, <2>4, <2>5, ClaimExchange DEF ClaimSupport
<1>7. CASE FlushList(p)
  <2>1. \A q \in Procs \ {p} : pc'[q] = pc[q]
    BY <1>7 DEF FlushList
  <2>2. \A q \in Publishers \ {p} : Holding(q)' = Holding(q)
    BY <1>7, <2>1, OthersHold DEF FlushList, PublisherType
  <2>3. KeepsToItsClaims(p)
    BY <1>7
    DEF FlushList, Pending, KeepsToItsClaims, Holding, ExclusiveClaim, LedgerType, PublisherType, ClaimSupport, BulkLocals
  <2>4. BulkLocals' /\ SubmitterIsInline'
    BY <1>7, <2>1
    DEF FlushList, PublisherType, ClaimSupport, BulkLocals, SubmitterIsInline
  <2>5. NothingBeforeBatch'
    BY <1>7, <2>1
    DEF FlushList, Pending, PublisherType, ClaimSupport, NothingBeforeBatch
  <2> QED BY <2>2, <2>3, <2>4, <2>5, ClaimExchange DEF ClaimSupport
<1>8. CASE \E r \in Records : FlushNext(p, r)
  <2>0. PICK r \in Records : FlushNext(p, r) BY <1>8
  <2>1. \A q \in Procs \ {p} : pc'[q] = pc[q]
    BY <2>0 DEF FlushNext
  <2>2. \A q \in Publishers \ {p} : Holding(q)' = Holding(q)
    BY <2>0, <2>1, OthersHold DEF FlushNext, PublisherType
  <2>3. KeepsToItsClaims(p)
    BY <2>0
    DEF FlushNext, KeepsToItsClaims, Holding, ExclusiveClaim, LedgerType, PublisherType, ClaimSupport, BulkLocals
  <2>4. BulkLocals' /\ SubmitterIsInline'
    BY <2>0, <2>1
    DEF FlushNext, PublisherType, ClaimSupport, BulkLocals, SubmitterIsInline
  <2>5. NothingBeforeBatch'
    BY <2>0, <2>1
    DEF FlushNext, PublisherType, ClaimSupport, NothingBeforeBatch
  <2> QED BY <2>2, <2>3, <2>4, <2>5, ClaimExchange DEF ClaimSupport
<1>9. CASE \E r \in Records : BulkSend(p, r)
  <2>0. PICK r \in Records : BulkSend(p, r) BY <1>9
  <2>1. \A q \in Procs \ {p} : pc'[q] = pc[q]
    BY <2>0 DEF BulkSend
  <2>2. \A q \in Publishers \ {p} : Holding(q)' = Holding(q)
    BY <2>0, <2>1, OthersHold DEF BulkSend, PublisherType
  <2>3. KeepsToItsClaims(p)
    BY <2>0
    DEF BulkSend, KeepsToItsClaims, Holding, ExclusiveClaim, LedgerType, PublisherType, ClaimSupport, BulkLocals
  <2>4. BulkLocals' /\ SubmitterIsInline'
    BY <2>0, <2>1
    DEF BulkSend, PublisherType, ClaimSupport, BulkLocals, SubmitterIsInline
  <2>5. NothingBeforeBatch'
    BY <2>0, <2>1
    DEF BulkSend, PublisherType, ClaimSupport, NothingBeforeBatch
  <2> QED BY <2>2, <2>3, <2>4, <2>5, ClaimExchange DEF ClaimSupport
<1>10. CASE FlushEnd(p)
  <2>1. \A q \in Procs \ {p} : pc'[q] = pc[q]
    BY <1>10 DEF FlushEnd, CallRefresh
  <2>2. \A q \in Publishers \ {p} : Holding(q)' = Holding(q)
    BY <1>10, <2>1, OthersHold DEF FlushEnd, PublisherType
  <2>3. KeepsToItsClaims(p)
    BY <1>10
    DEF FlushEnd, CallRefresh, KeepsToItsClaims, Holding, ExclusiveClaim, LedgerType, PublisherType, ClaimSupport, BulkLocals
  <2>4. BulkLocals' /\ SubmitterIsInline'
    BY <1>10, <2>1
    DEF FlushEnd, CallRefresh, PublisherType, ClaimSupport, BulkLocals, SubmitterIsInline
  <2>5. NothingBeforeBatch'
    BY <1>10, <2>1
    DEF FlushEnd, CallRefresh, PublisherType, ClaimSupport, NothingBeforeBatch
  <2> QED BY <2>2, <2>3, <2>4, <2>5, ClaimExchange DEF ClaimSupport
<1>11. CASE BulkClaim(p)
  <2>1. \A q \in Procs \ {p} : pc'[q] = pc[q]
    BY <1>11 DEF BulkClaim
  <2>2. \A q \in Publishers \ {p} : Holding(q)' = Holding(q)
    BY <1>11, <2>1, OthersHold DEF BulkClaim, PublisherType
  <2>3. KeepsToItsClaims(p)
    BY <1>11
    DEF BulkClaim, claim_outbox_records, Pending, KeepsToItsClaims, Holding, ExclusiveClaim, LedgerType, PublisherType, ClaimSupport, BulkLocals
  <2>4. BulkLocals' /\ SubmitterIsInline'
    BY <1>11, <2>1
    DEF BulkClaim, PublisherType, ClaimSupport, BulkLocals, SubmitterIsInline
  <2>5. NothingBeforeBatch'
    BY <1>11, <2>1
    DEF BulkClaim, Pending, PublisherType, ClaimSupport, NothingBeforeBatch
  <2> QED BY <2>2, <2>3, <2>4, <2>5, ClaimExchange DEF ClaimSupport
<1>12. CASE BulkMarkFailed(p)
  <2>1. \A q \in Procs \ {p} : pc'[q] = pc[q]
    BY <1>12 DEF BulkMarkFailed
  <2>2. \A q \in Publishers \ {p} : Holding(q)' = Holding(q)
    BY <1>12, <2>1, OthersHold DEF BulkMarkFailed, PublisherType
  <2>3. KeepsToItsClaims(p)
    BY <1>12
    DEF BulkMarkFailed, mark_outbox_failed, KeepsToItsClaims, Holding, ExclusiveClaim, LedgerType, PublisherType, ClaimSupport, BulkLocals
  <2>4. BulkLocals' /\ SubmitterIsInline'
    BY <1>12, <2>1
    DEF BulkMarkFailed, PublisherType, ClaimSupport, BulkLocals, SubmitterIsInline
  <2>5. NothingBeforeBatch'
    BY <1>12, <2>1
    DEF BulkMarkFailed, PublisherType, ClaimSupport, NothingBeforeBatch
  <2> QED BY <2>2, <2>3, <2>4, <2>5, ClaimExchange DEF ClaimSupport
<1>13. CASE BulkMark(p)
  <2>1. \A q \in Procs \ {p} : pc'[q] = pc[q]
    BY <1>13 DEF BulkMark
  <2>2. \A q \in Publishers \ {p} : Holding(q)' = Holding(q)
    BY <1>13, <2>1, OthersHold DEF BulkMark, PublisherType
  <2>3. KeepsToItsClaims(p)
    BY <1>13
    DEF BulkMark, mark_outbox_published_many, KeepsToItsClaims, Holding, ExclusiveClaim, LedgerType, PublisherType, ClaimSupport, BulkLocals
  <2>4. BulkLocals' /\ SubmitterIsInline'
    BY <1>13, <2>1
    DEF BulkMark, PublisherType, ClaimSupport, BulkLocals, SubmitterIsInline
  <2>5. NothingBeforeBatch'
    BY <1>13, <2>1
    DEF BulkMark, PublisherType, ClaimSupport, NothingBeforeBatch
  <2> QED BY <2>2, <2>3, <2>4, <2>5, ClaimExchange DEF ClaimSupport
<1>14. CASE RelayCrash(p)
  <2>1. \A q \in Procs \ {p} : pc'[q] = pc[q]
    BY <1>14 DEF RelayCrash
  <2>2. \A q \in Publishers \ {p} : Holding(q)' = Holding(q)
    BY <1>14, <2>1, OthersHold DEF RelayCrash, PublisherType
  <2>3. KeepsToItsClaims(p)
    BY <1>14
    DEF RelayCrash, KeepsToItsClaims, Holding, ExclusiveClaim, LedgerType, PublisherType, ClaimSupport, BulkLocals
  <2>4. BulkLocals' /\ SubmitterIsInline'
    BY <1>14, <2>1
    DEF RelayCrash, PublisherType, ClaimSupport, BulkLocals, SubmitterIsInline
  <2>5. NothingBeforeBatch'
    BY <1>14, <2>1
    DEF RelayCrash, PublisherType, ClaimSupport, NothingBeforeBatch
  <2> QED BY <2>2, <2>3, <2>4, <2>5, ClaimExchange DEF ClaimSupport
<1>15. CASE \E r \in Records : BulkSendFails(p, r)
  <2>0. PICK r \in Records : BulkSendFails(p, r) BY <1>15
  <2>1. \A q \in Procs \ {p} : pc'[q] = pc[q]
    BY <2>0 DEF BulkSendFails
  <2>2. \A q \in Publishers \ {p} : Holding(q)' = Holding(q)
    BY <2>0, <2>1, OthersHold DEF BulkSendFails, PublisherType
  <2>3. KeepsToItsClaims(p)
    BY <2>0
    DEF BulkSendFails, KeepsToItsClaims, Holding, ExclusiveClaim, LedgerType, PublisherType, ClaimSupport, BulkLocals
  <2>4. BulkLocals' /\ SubmitterIsInline'
    BY <2>0, <2>1
    DEF BulkSendFails, PublisherType, ClaimSupport, BulkLocals, SubmitterIsInline
  <2>5. NothingBeforeBatch'
    BY <2>0, <2>1
    DEF BulkSendFails, PublisherType, ClaimSupport, NothingBeforeBatch
  <2> QED BY <2>2, <2>3, <2>4, <2>5, ClaimExchange DEF ClaimSupport
<1> QED BY <1>1, <1>2, <1>3, <1>4, <1>5, <1>6, <1>7, <1>8, <1>9, <1>10, <1>11, <1>12, <1>13, <1>14, <1>15 DEF Relay

\* submit_batch_job: its rows appear when no record of the batch is in flight.
LEMMA ClaimSubmit ==
  ASSUME ClaimInv, Submit
  PROVE  ExclusiveClaim' /\ ClaimSupport'
<1> USE Domains, ConstantsAssumption DEF ClaimInv, TypeInv, TypeOK, ControlType
<1>1. CASE CreateJob
  <2>1. ExclusiveClaim' /\ BulkLocals' /\ SubmitterIsInline'
    BY <1>1 DEF CreateJob, ExclusiveClaim, Holding, ClaimSupport, BulkLocals,
       SubmitterIsInline, Publishers
  <2>2. NothingBeforeBatch'
    BY <1>1 DEF CreateJob, ClaimSupport, NothingBeforeBatch
  <2> QED BY <2>1, <2>2 DEF ClaimSupport
<1>2. CASE BulkCreate
  <2>1. \A q \in Publishers : Holding(q) = {}
    BY <1>2 DEF BulkCreate, ClaimSupport, NothingBeforeBatch, SubmitterIsInline, Holding,
       Publishers
  <2>2. \A q \in Publishers : Holding(q)' = Holding(q)
    BY <1>2 DEF BulkCreate, Holding, Publishers
  <2>3. ExclusiveClaim'
    BY <2>1, <2>2 DEF ExclusiveClaim
  <2>4. BulkLocals' /\ SubmitterIsInline' /\ NothingBeforeBatch'
    BY <1>2 DEF BulkCreate, ClaimSupport, BulkLocals, SubmitterIsInline, NothingBeforeBatch
  <2> QED BY <2>3, <2>4 DEF ClaimSupport
<1>3. CASE \E i \in Items : CreateItem(i)
  <2>0. PICK i \in Items : CreateItem(i) BY <1>3
  <2>1. \A q \in Publishers : Holding(q)' = Holding(q)
    BY <2>0 DEF CreateItem, Holding, Publishers, PublisherType
  <2>2. ExclusiveClaim'
    BY <2>0, <2>1 DEF CreateItem, ExclusiveClaim
  <2>3. BulkLocals' /\ SubmitterIsInline' /\ NothingBeforeBatch'
    BY <2>0 DEF CreateItem, ClaimSupport, BulkLocals, SubmitterIsInline,
       NothingBeforeBatch, PublisherType
  <2> QED BY <2>2, <2>3 DEF ClaimSupport
<1>4. CASE SubmitDone
  <2>1. \A q \in Publishers : Holding(q)' = Holding(q)
    BY <1>4 DEF SubmitDone, Holding, Publishers
  <2>2. ExclusiveClaim'
    BY <1>4, <2>1 DEF SubmitDone, ExclusiveClaim
  <2>3. BulkLocals' /\ SubmitterIsInline' /\ NothingBeforeBatch'
    BY <1>4 DEF SubmitDone, ClaimSupport, BulkLocals, SubmitterIsInline, NothingBeforeBatch
  <2> QED BY <2>2, <2>3 DEF ClaimSupport
<1> QED BY <1>1, <1>2, <1>3, <1>4 DEF Submit

\* _refresh_parent_job_state, run by any process.
LEMMA ClaimRefresh ==
  ASSUME ClaimInv, NEW p \in Procs, Refresh(p)
  PROVE  ExclusiveClaim' /\ ClaimSupport'
<1> USE Domains DEF ClaimInv, TypeInv, TypeOK, ControlType, Refresh, RefreshReadJob,
        RefreshSummarize, RefreshWrite, RefreshReturn, ReturnLabels
<1>1. /\ pc[p] \in {"refresh", "refresh_summarize", "refresh_write"}
      /\ pc'[p] \in {"refresh_summarize", "refresh_write"} \cup ReturnLabels
      /\ \A q \in Procs \ {p} : pc'[q] = pc[q]
  OBVIOUS
<1>2. \A q \in Publishers : Holding(q)' = Holding(q)
  BY <1>1, ZenonT(40) DEF Holding
<1>3. ExclusiveClaim'
  BY <1>2 DEF ExclusiveClaim
<1>4. BulkLocals' /\ SubmitterIsInline'
  BY <1>1 DEF ClaimSupport, BulkLocals, SubmitterIsInline
<1>5. NothingBeforeBatch'
  BY <1>1 DEF ClaimSupport, NothingBeforeBatch
<1> QED BY <1>3, <1>4, <1>5 DEF ClaimSupport

\* The scan workers, who publish nothing and have nothing to do before the batch.
LEMMA ClaimWorker ==
  ASSUME ClaimInv, NEW w \in Workers,
         Worker(w) \/ WorkerCrash(w) \/ ReaderUnavailable(w) \/ ScanFails(w)
  PROVE  ExclusiveClaim' /\ ClaimSupport'
<1> USE Domains, ConstantsAssumption DEF ClaimInv
<1>1. UNCHANGED <<outbox, publisherVars>> /\ \A q \in Procs \ {w} : pc'[q] = pc[q]
  BY DEF TypeInv, TypeOK, ControlType, Worker, Deliver, CheckItem, CheckJob, ReadForUpdate,
     WriteStage, CallRefresh, MarkRuntimeStarted, ScanSucceeds, CompleteScanOnly,
     ClearRuntime, Retry, DeadLetter, Ack, WorkerCrash, ReaderUnavailable, ScanFails
<1>2. w \notin Publishers
  BY DEF Publishers
<1>3. pc["api"] \notin {"submit", "bulk_create"}
  BY DEF ClaimSupport, NothingBeforeBatch, Worker, Deliver, CheckItem, CheckJob,
     ReadForUpdate, WriteStage, MarkRuntimeStarted, ScanSucceeds, CompleteScanOnly,
     ClearRuntime, Retry, DeadLetter, Ack, WorkerCrash, ReaderUnavailable, ScanFails
<1>4. ExclusiveClaim' /\ BulkLocals' /\ SubmitterIsInline'
  BY <1>1, <1>2, ClaimFrame
<1>5. NothingBeforeBatch'
  BY <1>1, <1>2, <1>3 DEF NothingBeforeBatch
<1> QED BY <1>4, <1>5 DEF ClaimSupport

\* The operator and the polling client.
LEMMA ClaimApi ==
  ASSUME ClaimInv, CancelJob \/ CancelItems \/ PollReadJob \/ PollSummarize
  PROVE  ExclusiveClaim' /\ ClaimSupport'
<1> USE Domains, ConstantsAssumption DEF ClaimInv
<1>1. /\ UNCHANGED <<stage, outbox, lease, broker, publisherVars, workerVars>>
      /\ \A q \in Procs \ {"operator", "client"} : pc'[q] = pc[q]
  BY DEF TypeInv, TypeOK, ControlType, CancelJob, CancelItems, PollReadJob, PollSummarize,
     CallRefresh
<1>2. {"operator", "client"} \cap Publishers = {} /\ {"operator", "client"} \cap Workers = {}
  BY DEF Publishers
<1>3. ExclusiveClaim' /\ BulkLocals' /\ SubmitterIsInline'
  BY <1>1, <1>2, ClaimFrame
<1>4. \A i \in Items : item[i] = "none" => item'[i] = "none"
  BY DEF CancelJob, CancelItems, cancel_job_items, CancellableStates, PollReadJob,
     PollSummarize
<1>5. NothingBeforeBatch'
  BY <1>1, <1>2, <1>4 DEF ClaimSupport, NothingBeforeBatch
<1> QED BY <1>3, <1>5 DEF ClaimSupport

\* The claim invariant is inductive.
LEMMA ClaimStep == ClaimInv /\ [Next]_vars => ClaimInv'
<1> SUFFICES ASSUME ClaimInv, [Next]_vars PROVE ClaimInv' OBVIOUS
<1>0. TypeInv'
  BY TypeStep DEF ClaimInv
<1>1. CASE UNCHANGED vars
  <2>1. ExclusiveClaim' /\ BulkLocals' /\ SubmitterIsInline'
    BY <1>1, ClaimFrame DEF vars
  <2>2. NothingBeforeBatch'
    BY <1>1 DEF vars, ClaimInv, ClaimSupport, NothingBeforeBatch
  <2> QED BY <1>0, <2>1, <2>2 DEF ClaimInv, ClaimSupport
<1>2. ASSUME NEW p \in Procs, Step(p) PROVE ExclusiveClaim' /\ ClaimSupport'
  BY <1>2, ClaimRefresh, ClaimSubmit, ClaimPublish, ClaimRelay, ClaimWorker, ClaimApi DEF Step
<1>3. ASSUME Disturb PROVE ExclusiveClaim' /\ ClaimSupport'
  BY <1>3, ClaimPublish, ClaimRelay, ClaimWorker, ClaimApi DEF Disturb
<1> QED BY <1>0, <1>1, <1>2, <1>3 DEF Next, ClaimInv

\* Between claim_outbox_record and the mark that ends a publish no other process,
\* inline publisher or relay, works on the record: for any number of relays,
\* items and records, through broker failures, relay crashes and replays.
THEOREM ClaimsExclusive == Spec => []ExclusiveClaim
<1>1. ClaimInv => ExclusiveClaim BY DEF ClaimInv
<1> QED BY ClaimInit, ClaimStep, <1>1, PTL DEF Spec
-----------------------------------------------------------------------------
(***************************************************************************)
(* The outbox, with its claims, retries, relays and crashes, implements    *)
(* OutboxContract.  Exclusive claims make the mapping a function of the    *)
(* record: only the one who holds it may withdraw, deliver or close it.    *)
(***************************************************************************)
\* A publisher that goes on to mark a record published has had the broker's confirm.
SentIsDelivered ==
    /\ \A p \in Publishers : pc[p] = "sent" => rec[p] \in delivered
    /\ \A p \in Relays : sent[p] \subseteq delivered

ContractInv == ClaimInv /\ SentIsDelivered

Ended == {i \in Items : item[i] \in TerminalStates}
Withdrawing(p) == pc[p] = "skip"

\* No publisher begins or ends to withdraw a record, or comes to hold a confirm.
Calm ==
    /\ \A p \in Publishers :
         \/ pc'[p] = pc[p] /\ rec'[p] = rec[p]
         \/ ~Withdrawing(p) /\ pc'[p] \notin {"skip", "sent"}
    /\ \A p \in Relays : sent'[p] \subseteq sent[p]

\* Records are claimed and given back, but none is created or closed.
ClaimsOnly ==
    \A r \in Records :
       outbox'[r] = outbox[r] \/ {outbox[r], outbox'[r]} \subseteq {"pending", "publishing"}

\* Every step of the batch is one of the contract, and keeps the invariant.
FitsContract == OC!Next /\ SentIsDelivered'
-----------------------------------------------------------------------------
\* What a publisher holds are records.
LEMMA HoldingType ==
  ASSUME ClaimInv, NEW p \in Publishers
  PROVE  Holding(p) \subseteq Records
  BY DEF ClaimInv, TypeInv, TypeOK, PublisherType, ClaimSupport, SubmitterIsInline, Holding,
     Publishers

\* What a publisher holds and has not decided to withdraw is open.
LEMMA HeldIsOpen ==
  ASSUME ClaimInv, NEW p \in Publishers, NEW r \in Holding(p)
  PROVE  /\ r \in Records
         /\ Intent[r] = IF Withdrawing(p) THEN "withdrawn" ELSE "open"
<1>1. r \in Records
  BY HoldingType
<1>2. outbox[r] = "publishing"
  BY DEF ClaimInv, ExclusiveClaim
<1>3. \A q \in Publishers \ {p} : ~(Withdrawing(q) /\ rec[q] = r)
  BY DEF ClaimInv, ExclusiveClaim, Holding, Withdrawing
<1>4. Withdrawing(p) => rec[p] = r
  BY DEF Withdrawing, Holding
<1> QED BY <1>1, <1>2, <1>3, <1>4 DEF Intent, Withdrawing

\* The intent behind a record depends on its row and on who withdraws it.
LEMMA SameIntent ==
  ASSUME NEW r \in Records,
         outbox'[r] = outbox[r] \/ {outbox[r], outbox'[r]} \subseteq {"pending", "publishing"},
         \A p \in Publishers :
            (Withdrawing(p) /\ rec[p] = r) <=> (Withdrawing(p)' /\ rec'[p] = r)
  PROVE  Intent'[r] = Intent[r]
  BY DEF Intent, Withdrawing

\* A confirm is for good.
LEMMA CalmSent ==
  ASSUME SentIsDelivered, Calm, delivered \subseteq delivered'
  PROVE  SentIsDelivered'
  BY DEF SentIsDelivered, Calm

\* A step of which the outbox shows no more than a claim is at most a change of the items.
LEMMA Quiet ==
  ASSUME ContractInv, Calm, ClaimsOnly, UNCHANGED delivered
  PROVE  FitsContract
<1>1. \A r \in Records : Intent'[r] = Intent[r]
  BY SameIntent DEF Calm, ClaimsOnly, Withdrawing
<1>2. Intent' = Intent
  BY <1>1 DEF Intent
<1>3. Ended' \in SUBSET Items
  BY DEF Ended
<1>4. OC!ItemsChange
  BY <1>2, <1>3 DEF OC!ItemsChange, Ended
<1> QED BY <1>4, CalmSent DEF OC!Next, FitsContract, ContractInv

\* What the holder of a record sends is an open intent.
LEMMA Delivering ==
  ASSUME ContractInv, NEW p \in Publishers, NEW r \in Holding(p), ~Withdrawing(p),
         delivered' = delivered \cup {r}, UNCHANGED <<outbox, item>>,
         \A q \in Publishers : Withdrawing(q)' = Withdrawing(q),
         \A q \in Publishers : Withdrawing(q) => rec'[q] = rec[q]
  PROVE  OC!Next
<1>1. \A s \in Records : Intent'[s] = Intent[s]
  BY SameIntent
<1>2. Intent' = Intent
  BY <1>1 DEF Intent
<1>3. r \in Records /\ Intent[r] = "open"
  BY HeldIsOpen DEF ContractInv
<1>4. OC!Deliver(r)
  BY <1>2, <1>3 DEF OC!Deliver
<1> QED BY <1>3, <1>4 DEF OC!Next

\* What its holder marks published is withdrawn, or the broker has it.
LEMMA Closing ==
  ASSUME ContractInv, NEW p \in Publishers, NEW R \in SUBSET Holding(p),
         outbox' = [r \in Records |-> IF r \in R THEN "published" ELSE outbox[r]],
         IF Withdrawing(p) THEN R = {rec[p]} ELSE R \subseteq delivered,
         pc'[p] \notin {"skip", "sent"}, p \in Relays => sent'[p] \subseteq sent[p],
         \A q \in Publishers \ {p} : pc'[q] = pc[q] /\ rec'[q] = rec[q],
         \A q \in Relays \ {p} : sent'[q] = sent[q],
         UNCHANGED <<item, delivered>>
  PROVE  FitsContract
<1>1. R \in SUBSET Records
  BY HoldingType DEF ContractInv
<1>2. \A r \in R : Intent'[r] = "closed"
  BY <1>1 DEF Intent
<1>3. \A r \in Records \ R : Intent'[r] = Intent[r]
  <2>1. ASSUME NEW r \in Records \ R, NEW q \in Publishers
        PROVE  (Withdrawing(q) /\ rec[q] = r) <=> (Withdrawing(q)' /\ rec'[q] = r)
    BY DEF Withdrawing
  <2> QED BY <2>1, SameIntent
<1>4. Intent' = [r \in Records |-> IF r \in R THEN "closed" ELSE Intent[r]]
  BY <1>2, <1>3 DEF Intent
<1>5. \A r \in R : Intent[r] = "withdrawn" \/ (Intent[r] = "open" /\ r \in delivered)
  BY HeldIsOpen DEF ContractInv
<1>6. OC!Close(R)
  BY <1>4, <1>5 DEF OC!Close
<1>7. SentIsDelivered'
  BY DEF ContractInv, SentIsDelivered
<1> QED BY <1>1, <1>6, <1>7 DEF OC!Next, FitsContract

\* Records that appear are open intents: nobody can be withdrawing one.
LEMMA Recording ==
  ASSUME ContractInv, NEW R \in SUBSET Records, \A r \in R : outbox[r] = "none",
         outbox' = [r \in Records |-> IF r \in R THEN "pending" ELSE outbox[r]],
         Calm, UNCHANGED delivered, Ended' = Ended
  PROVE  FitsContract
<1>1. \A r \in R : Intent[r] = "none"
  BY DEF Intent
<1>2. \A r \in R : Intent'[r] = "open"
  <2>1. \A q \in Publishers : Withdrawing(q)' => Withdrawing(q) /\ rec'[q] = rec[q]
    BY DEF Calm, Withdrawing
  <2>2. \A q \in Publishers : Withdrawing(q) => outbox[rec[q]] = "publishing"
    BY DEF ContractInv, ClaimInv, ExclusiveClaim, Holding, Withdrawing
  <2> QED BY <2>1, <2>2 DEF Intent, Withdrawing
<1>3. \A r \in Records \ R : Intent'[r] = Intent[r]
  BY SameIntent DEF Calm, Withdrawing
<1>4. Intent' = [r \in Records |-> IF r \in R THEN "open" ELSE Intent[r]]
  BY <1>2, <1>3 DEF Intent
<1>5. OC!Record(R)
  BY <1>1, <1>4 DEF OC!Record, Ended
<1> QED BY <1>5, CalmSent DEF OC!Next, FitsContract, ContractInv

LEMMA ContractInit == Init => ContractInv /\ OC!Init
<1> SUFFICES ASSUME Init PROVE ContractInv /\ OC!Init OBVIOUS
<1>1. ContractInv
  BY ClaimInit DEF ContractInv, SentIsDelivered, Init, Publishers, Procs
<1>2. Intent = [r \in Records |-> "none"]
  BY DEF Init, Intent
<1>3. Ended = {}
  BY DEF Init, Ended, TerminalStates
<1> QED BY <1>1, <1>2, <1>3 DEF OC!Init, Ended, Init
-----------------------------------------------------------------------------
\* _publish_outbox_record, its failure and the creation of a record.
LEMMA PublishFits ==
  ASSUME ContractInv, NEW p \in Publishers, Publish(p) \/ CreateOutbox(p) \/ SendFails(p)
  PROVE  FitsContract
<1> USE Domains DEF ContractInv, ClaimInv, TypeInv, TypeOK, ControlType, PublisherType
<1>0. /\ pc[p] \in {"load", "skip", "set_queued", "send", "sent", "unsent"} =>
           rec[p] \in Holding(p) /\ outbox[rec[p]] = "publishing"
      /\ rec[p] \in Records
  BY DEF ExclusiveClaim, Holding
<1>1. CASE Claim(p)
  <2>1. Calm /\ ClaimsOnly
    BY <1>1 DEF Claim, claim_outbox_record, Published, PublishReturn, Calm, ClaimsOnly,
       Withdrawing, LedgerType
  <2> QED BY <1>1, <2>1, Quiet DEF Claim
<1>2. CASE LoadItem(p)
  <2>1. CASE pc'[p] # "skip"
    <3>1. Calm /\ ClaimsOnly
      BY <1>2, <2>1 DEF LoadItem, Calm, ClaimsOnly, Withdrawing
    <3> QED BY <1>2, <3>1, Quiet DEF LoadItem
  <2>2. CASE pc'[p] = "skip"
    <3>1. rec[p][1] \in Ended /\ UNCHANGED <<rec, sent, outbox, item, delivered>>
      BY <1>0, <1>2, <2>2 DEF LoadItem, Ended, Records
    <3>2. Intent[rec[p]] = "open"
      BY <1>0, <1>2, HeldIsOpen DEF LoadItem, Withdrawing
    <3>3. \A r \in Records : Intent'[r] = [Intent EXCEPT ![rec[p]] = "withdrawn"][r]
      <4>1. \A q \in Publishers \ {p} : pc'[q] = pc[q]
        BY <1>2 DEF LoadItem
      <4>2. Intent'[rec[p]] = "withdrawn"
        BY <1>0, <1>2, <2>2, <3>1 DEF LoadItem, Intent
      <4>3. \A r \in Records \ {rec[p]} : Intent'[r] = Intent[r]
        BY <3>1, <4>1, SameIntent DEF Withdrawing
      <4> QED BY <4>2, <4>3 DEF Intent
    <3>4. Intent' = [Intent EXCEPT ![rec[p]] = "withdrawn"]
      BY <3>3 DEF Intent
    <3>5. OC!Withdraw(rec[p])
      BY <3>1, <3>2, <3>4 DEF OC!Withdraw, Ended
    <3>6. SentIsDelivered'
      BY <1>2, <2>2, <3>1 DEF LoadItem, SentIsDelivered
    <3> QED BY <1>0, <3>5, <3>6 DEF OC!Next, FitsContract
  <2> QED BY <2>1, <2>2
<1>3. CASE SkipRecord(p)
  <2>1. outbox' = [r \in Records |-> IF r \in {rec[p]} THEN "published" ELSE outbox[r]]
    BY <1>3 DEF SkipRecord, mark_outbox_published, LedgerType
  <2>2. /\ pc'[p] \notin {"skip", "sent"} /\ UNCHANGED <<rec, sent, item, delivered>>
        /\ \A q \in Publishers \ {p} : pc'[q] = pc[q]
    BY <1>3 DEF SkipRecord, CallRefresh
  <2>3. Withdrawing(p) /\ {rec[p]} \in SUBSET Holding(p)
    BY <1>0, <1>3 DEF SkipRecord, Withdrawing
  <2> QED BY <2>1, <2>2, <2>3, Closing
<1>4. CASE SetQueued(p)
  <2>1. Calm /\ ClaimsOnly
    BY <1>4 DEF SetQueued, Calm, ClaimsOnly, Withdrawing
  <2> QED BY <1>4, <2>1, Quiet DEF SetQueued
<1>5. CASE Send(p)
  <2>1. /\ delivered' = delivered \cup {rec[p]} /\ UNCHANGED <<outbox, item, rec, sent>>
        /\ pc[p] = "send" /\ pc'[p] = "sent" /\ \A q \in Publishers \ {p} : pc'[q] = pc[q]
    BY <1>5 DEF Send, BusAccepts
  <2>2. OC!Next
    BY <1>0, <2>1, Delivering DEF Withdrawing
  <2>3. SentIsDelivered'
    BY <2>1 DEF SentIsDelivered
  <2> QED BY <2>2, <2>3 DEF FitsContract
<1>6. CASE MarkPublished(p)
  <2>1. outbox' = [r \in Records |-> IF r \in {rec[p]} THEN "published" ELSE outbox[r]]
    BY <1>6 DEF MarkPublished, mark_outbox_published, LedgerType
  <2>2. /\ pc'[p] \notin {"skip", "sent"} /\ UNCHANGED <<rec, sent, item, delivered>>
        /\ \A q \in Publishers \ {p} : pc'[q] = pc[q]
    BY <1>6 DEF MarkPublished, PublishReturn
  <2>3. ~Withdrawing(p) /\ {rec[p]} \in SUBSET Holding(p) /\ {rec[p]} \subseteq delivered
    BY <1>0, <1>6 DEF MarkPublished, Withdrawing, SentIsDelivered
  <2> QED BY <2>1, <2>2, <2>3, Closing
<1>7. CASE MarkFailed(p)
  <2>1. Calm /\ ClaimsOnly
    BY <1>0, <1>7 DEF MarkFailed, mark_outbox_failed, Calm, ClaimsOnly, Withdrawing, LedgerType
  <2> QED BY <1>7, <2>1, Quiet DEF MarkFailed
<1>8. CASE SetPublishPending(p)
  <2>1. Calm /\ ClaimsOnly
    BY <1>8 DEF SetPublishPending, CallRefresh, Calm, ClaimsOnly, Withdrawing
  <2> QED BY <1>8, <2>1, Quiet DEF SetPublishPending
<1>9. CASE CreateOutbox(p)
  <2>1. PICK r \in Records : create_outbox_record(r) /\ rec' = [rec EXCEPT ![p] = r]
    BY <1>0, <1>9 DEF CreateOutbox, Records
  <2> DEFINE R == {r}
  <2>2. /\ R \in SUBSET Records /\ \A s \in R : outbox[s] = "none"
        /\ outbox' = [s \in Records |-> IF s \in R THEN "pending" ELSE outbox[s]]
    BY <2>1 DEF create_outbox_record, LedgerType
  <2>3. Calm /\ UNCHANGED <<item, delivered>>
    BY <1>9, <2>1 DEF CreateOutbox, Calm, Withdrawing
  <2>4. Ended' = Ended
    BY <2>3 DEF Ended
  <2> HIDE DEF R
  <2> QED BY <2>2, <2>3, <2>4, Recording
<1>10. CASE SendFails(p)
  <2>1. /\ UNCHANGED <<outbox, item, rec, sent>>
        /\ pc[p] = "send" /\ pc'[p] = "unsent" /\ \A q \in Publishers \ {p} : pc'[q] = pc[q]
    BY <1>10 DEF SendFails
  <2>2. Calm /\ ClaimsOnly
    BY <2>1 DEF Calm, ClaimsOnly, Withdrawing
  <2>3. CASE UNCHANGED delivered
    BY <2>2, <2>3, Quiet
  <2>4. CASE delivered' = delivered \cup {rec[p]}
    <3>1. OC!Next
      BY <1>0, <2>1, <2>4, Delivering DEF Withdrawing
    <3> QED BY <2>2, <2>4, <3>1, CalmSent DEF FitsContract
  <2> QED BY <1>10, <2>3, <2>4 DEF SendFails, BusAccepts
<1> QED
  BY <1>1, <1>2, <1>3, <1>4, <1>5, <1>6, <1>7, <1>8, <1>9, <1>10 DEF Publish

\* replay_nonterminal_scan_only_batches and flush_outbox, record by record and in bulk, and a
\* relay that dies.
LEMMA RelayFits ==
  ASSUME ContractInv, NEW p \in Relays,
         Relay(p) \/ RelayCrash(p) \/ \E r \in Records : BulkSendFails(p, r)
  PROVE  FitsContract
<1> USE Domains DEF ContractInv, ClaimInv, TypeInv, TypeOK, ControlType, PublisherType
<1>0. pc[p] \in {"bulk_send", "bulk_unsent"} =>
         todo[p] \cup sent[p] \subseteq Holding(p) /\ ~Withdrawing(p)
  BY DEF Holding, Withdrawing
<1>1. CASE \/ ReplayReadJob(p) \/ ReplayReadItems(p) \/ ReplayReadOutbox(p) \/ ReplayDone(p)
           \/ \E i \in Items : ReplayItem(p, i)
  <2>1. Calm /\ UNCHANGED <<outbox, delivered>>
    BY <1>1 DEF ReplayReadJob, ReplayReadItems, ReplayReadOutbox, ReplayDone, ReplayItem, Calm,
       Withdrawing
  <2> QED BY <2>1, Quiet DEF ClaimsOnly
<1>2. CASE FlushCount(p) \/ FlushList(p) \/ FlushEnd(p) \/ \E r \in Records : FlushNext(p, r)
  <2>1. Calm /\ UNCHANGED <<outbox, delivered>>
    BY <1>2 DEF FlushCount, FlushList, FlushEnd, FlushNext, CallRefresh, Calm, Withdrawing
  <2> QED BY <2>1, Quiet DEF ClaimsOnly
<1>3. CASE BulkClaim(p)
  <2>1. Calm /\ ClaimsOnly
    BY <1>3 DEF BulkClaim, claim_outbox_records, Calm, ClaimsOnly, Withdrawing, LedgerType
  <2> QED BY <1>3, <2>1, Quiet DEF BulkClaim
<1>4. CASE BulkMarkFailed(p)
  <2>1. rec[p] \in Holding(p) /\ outbox[rec[p]] = "publishing"
    BY <1>4 DEF BulkMarkFailed, Holding, ExclusiveClaim
  <2>2. Calm /\ ClaimsOnly
    BY <1>4, <2>1 DEF BulkMarkFailed, mark_outbox_failed, Calm, ClaimsOnly, Withdrawing,
       LedgerType
  <2> QED BY <1>4, <2>2, Quiet DEF BulkMarkFailed
<1>5. ASSUME NEW r \in Records, BulkSend(p, r) PROVE FitsContract
  <2>1. /\ delivered' = delivered \cup {r} /\ UNCHANGED <<outbox, item, pc, rec>>
        /\ pc[p] = "bulk_send" /\ r \in todo[p] /\ sent' = [sent EXCEPT ![p] = @ \cup {r}]
    BY <1>5 DEF BulkSend, BusAccepts
  <2>2. OC!Next
    BY <1>0, <2>1, Delivering DEF Withdrawing
  <2>3. SentIsDelivered'
    BY <2>1 DEF SentIsDelivered
  <2> QED BY <2>2, <2>3 DEF FitsContract
<1>6. ASSUME NEW r \in Records, BulkSendFails(p, r) PROVE FitsContract
  <2>1. /\ UNCHANGED <<outbox, item, sent>> /\ rec' = [rec EXCEPT ![p] = r]
        /\ pc[p] = "bulk_send" /\ r \in todo[p] /\ pc' = [pc EXCEPT ![p] = "bulk_unsent"]
    BY <1>6 DEF BulkSendFails
  <2>2. Calm /\ ClaimsOnly
    BY <2>1 DEF Calm, ClaimsOnly, Withdrawing
  <2>3. CASE UNCHANGED delivered
    BY <2>2, <2>3, Quiet
  <2>4. CASE delivered' = delivered \cup {r}
    <3>1. OC!Next
      BY <1>0, <2>1, <2>4, Delivering DEF Withdrawing
    <3> QED BY <2>2, <2>4, <3>1, CalmSent DEF FitsContract
  <2> QED BY <1>6, <2>3, <2>4 DEF BulkSendFails, BusAccepts
<1>7. CASE BulkMark(p)
  <2>1. /\ outbox' = [r \in Records |-> IF r \in sent[p] THEN "published" ELSE outbox[r]]
        /\ pc' = [pc EXCEPT ![p] = "flush"] /\ sent' = [sent EXCEPT ![p] = {}]
        /\ UNCHANGED <<rec, item, delivered>>
    BY <1>7 DEF BulkMark, mark_outbox_published_many
  <2>2. ~Withdrawing(p) /\ sent[p] \in SUBSET Holding(p) /\ sent[p] \subseteq delivered
    BY <1>0, <1>7 DEF BulkMark, SentIsDelivered
  <2> QED BY <2>1, <2>2, Closing
<1>8. CASE RelayCrash(p)
  <2>1. /\ pc' = [pc EXCEPT ![p] = "boot"] /\ rec' = [rec EXCEPT ![p] = SomeRecord]
        /\ sent' = [sent EXCEPT ![p] = {}] /\ UNCHANGED <<outbox, item, delivered>>
    BY <1>8 DEF RelayCrash
  <2>2. CASE ~Withdrawing(p)
    <3>1. Calm /\ ClaimsOnly
      BY <2>1, <2>2 DEF Calm, ClaimsOnly, Withdrawing
    <3> QED BY <2>1, <3>1, Quiet
  <2>3. CASE Withdrawing(p)
    <3>1. rec[p] \in Holding(p) /\ rec[p] \in Records /\ outbox[rec[p]] = "publishing"
      BY <2>3 DEF Withdrawing, Holding, ExclusiveClaim
    <3>2. Intent[rec[p]] = "withdrawn"
      BY <2>3, <3>1, HeldIsOpen
    <3>3. \A q \in Publishers \ {p} : ~(Withdrawing(q) /\ rec[q] = rec[p])
      BY <3>1 DEF ExclusiveClaim, Holding, Withdrawing
    <3>4. Intent'[rec[p]] = "open"
      BY <2>1, <3>1, <3>3 DEF Intent, Withdrawing
    <3>5. \A r \in Records \ {rec[p]} : Intent'[r] = Intent[r]
      BY <2>1, SameIntent DEF Withdrawing
    <3>6. \A r \in Records : Intent'[r] = [Intent EXCEPT ![rec[p]] = "open"][r]
      BY <3>1, <3>4, <3>5 DEF Intent
    <3>7. Intent' = [Intent EXCEPT ![rec[p]] = "open"]
      BY <3>6 DEF Intent
    <3>8. OC!Reopen(rec[p])
      BY <2>1, <3>2, <3>7 DEF OC!Reopen
    <3>9. SentIsDelivered'
      BY <2>1 DEF SentIsDelivered
    <3> QED BY <3>1, <3>8, <3>9 DEF OC!Next, FitsContract
  <2> QED BY <2>2, <2>3
<1> QED
  BY <1>1, <1>2, <1>3, <1>4, <1>5, <1>6, <1>7, <1>8 DEF Relay

\* submit_batch_job; a bulk submission records the intents of all its items, none of which
\* has ended.
LEMMA SubmitFits ==
  ASSUME ContractInv, Submit
  PROVE  FitsContract
<1> USE Domains DEF ContractInv, ClaimInv, TypeInv, TypeOK, ControlType, PublisherType
<1>1. CASE CreateJob \/ SubmitDone \/ \E i \in Items : CreateItem(i)
  <2>1. Calm /\ UNCHANGED <<outbox, delivered>>
    BY <1>1 DEF CreateJob, SubmitDone, CreateItem, Calm, Withdrawing
  <2> QED BY <2>1, Quiet DEF ClaimsOnly
<1>2. CASE BulkCreate
  <2> DEFINE R == {r \in Records : r[2] = 1}
  <2>1. /\ R \in SUBSET Records /\ \A r \in R : outbox[r] = "none"
        /\ outbox' = [r \in Records |-> IF r \in R THEN "pending" ELSE outbox[r]]
    BY <1>2 DEF BulkCreate, ClaimSupport, NothingBeforeBatch
  <2>2. Ended = {} /\ Ended' = {}
    BY <1>2 DEF BulkCreate, ClaimSupport, NothingBeforeBatch, Ended, TerminalStates
  <2>3. Calm /\ UNCHANGED delivered
    BY <1>2 DEF BulkCreate, Calm, Withdrawing
  <2> HIDE DEF R
  <2> QED BY <2>1, <2>2, <2>3, Recording
<1> QED BY <1>1, <1>2 DEF Submit

\* What the others do leaves the outbox and its publishers alone: the refresh of the parent ...
LEMMA RefreshFits ==
  ASSUME ContractInv, NEW p \in Procs, Refresh(p)
  PROVE  FitsContract
<1> USE Domains DEF ContractInv, ClaimInv, TypeInv, TypeOK, ControlType, PublisherType
<1>1. /\ pc[p] \in {"refresh", "refresh_summarize", "refresh_write"}
      /\ pc'[p] \in {"refresh_summarize", "refresh_write"} \cup ReturnLabels
      /\ \A q \in Procs \ {p} : pc'[q] = pc[q]
  BY DEF Refresh, RefreshReadJob, RefreshSummarize, RefreshWrite, RefreshReturn, ReturnLabels
<1>2. UNCHANGED <<outbox, delivered, rec, sent>>
  BY DEF Refresh, RefreshReadJob, RefreshSummarize, RefreshWrite
<1>3. Calm
  BY <1>1, <1>2 DEF Calm, Withdrawing, ReturnLabels
<1> QED BY <1>2, <1>3, Quiet DEF ClaimsOnly

\* ... the workers ...
LEMMA WorkerFits ==
  ASSUME ContractInv, NEW w \in Workers,
         Worker(w) \/ WorkerCrash(w) \/ ReaderUnavailable(w) \/ ScanFails(w)
  PROVE  FitsContract
<1> USE Domains DEF ContractInv, ClaimInv, TypeInv, TypeOK, ControlType, PublisherType
<1>1. /\ UNCHANGED <<outbox, delivered, publisherVars>>
      /\ \A q \in Procs \ {w} : pc'[q] = pc[q]
  BY DEF Worker, Deliver, CheckItem, CheckJob, ReadForUpdate, WriteStage, CallRefresh,
     MarkRuntimeStarted, ScanSucceeds, CompleteScanOnly, ClearRuntime, Retry, DeadLetter, Ack,
     WorkerCrash, ReaderUnavailable, ScanFails
<1>2. w \notin Publishers
  BY ConstantsAssumption DEF Publishers
<1>3. Calm
  BY <1>1, <1>2 DEF Calm
<1> QED BY <1>1, <1>3, Quiet DEF ClaimsOnly

\* ... the operator and the client.
LEMMA ApiFits ==
  ASSUME ContractInv, CancelJob \/ CancelItems \/ PollReadJob \/ PollSummarize
  PROVE  FitsContract
<1> USE Domains DEF ContractInv, ClaimInv, TypeInv, TypeOK, ControlType, PublisherType
<1>1. /\ UNCHANGED <<outbox, delivered, publisherVars>>
      /\ \A q \in Procs \ {"operator", "client"} : pc'[q] = pc[q]
  BY DEF CancelJob, CancelItems, PollReadJob, PollSummarize, CallRefresh
<1>2. {"operator", "client"} \cap Publishers = {}
  BY ConstantsAssumption DEF Publishers
<1>3. Calm
  BY <1>1, <1>2 DEF Calm
<1> QED BY <1>1, <1>3, Quiet DEF ClaimsOnly

\* Every step is one of the contract or leaves what it speaks of alone.
LEMMA ContractStep ==
  ASSUME ContractInv, [Next]_vars
  PROVE  [OC!Next]_(OC!vars) /\ SentIsDelivered'
<1>1. CASE UNCHANGED vars
  <2>1. Intent' = Intent
    BY <1>1 DEF vars, Intent
  <2> QED BY <1>1, <2>1 DEF vars, OC!vars, ContractInv, SentIsDelivered
<1>2. ASSUME NEW p \in Procs, Step(p) PROVE FitsContract
  BY <1>2, PublishFits, RelayFits, SubmitFits, RefreshFits, WorkerFits, ApiFits DEF Step
<1>3. ASSUME Disturb PROVE FitsContract
  BY <1>3, PublishFits, RelayFits, WorkerFits, ApiFits DEF Disturb
<1> QED BY <1>1, <1>2, <1>3 DEF Next, FitsContract

\* The transactional outbox keeps its contract, for any number of items, relays and workers,
\* through failures of the broker, relays that die, replays and cancellation: an intent is
\* recorded once, is closed only when the broker has its message or its item had ended, and
\* is never acted on again.
THEOREM OutboxKeepsContract == Spec => ImplementsContract
<1>1. ContractInv /\ [Next]_vars => ContractInv'
  BY ClaimStep, ContractStep DEF ContractInv
<1>2. ContractInv /\ [Next]_vars => [OC!Next]_(OC!vars)
  BY ContractStep
<1> QED BY ContractInit, <1>1, <1>2, PTL DEF Spec, ImplementsContract, OC!Spec
-----------------------------------------------------------------------------
(***************************************************************************)
(* The relay's cap.  One relay that counts, lists and publishes by itself  *)
(* keeps to it: what it has listed it has room for, and an item that has   *)
(* ended does not count again.                                             *)
(***************************************************************************)
\* Nobody publishes but the relay, which sees each of its publishes succeed.
OneSureRelay ==
    /\ Deferred /\ ~Coarse /\ ~Cancels
    /\ MaxBusFailures = 0 /\ MaxRelayCrashes = 0
    /\ \A p, q \in Relays : p = q

Active == {i \in Items : item[i] \in {"queued", "scanning", "scanned"}}

\* Where a record's message is still to be sent by the one who has claimed it.
Unsent == {"load", "skip", "set_queued"}
Booting == {"boot", "replay_items", "replay_outbox", "replay"}

\* The message of an item that has not been sent, and one that may have been.
Fresh(i) ==
    \/ outbox[<<i, 1>>] \in {"none", "pending"}
    \/ \E p \in Relays : pc[p] \in Unsent /\ rec[p] = <<i, 1>>
Out(i) == item[i] \in {"queued", "scanning", "scanned"} \cup TerminalStates

\* Deferred submission: all rows of a batch at once, and nobody publishes but the relay.
WholeBatch ==
    /\ pc["api"] \in {"submit", "bulk_create", "submitted", "done"}
    /\ pc["operator"] = "idle"
    /\ \A i \in Items :
           /\ item[i] = "none" <=> pc["api"] \in {"submit", "bulk_create"}
           /\ outbox[<<i, 1>>] = "none" <=> pc["api"] \in {"submit", "bulk_create"}
           /\ Fresh(i) => item[i] \in {"none", "publish_pending"}
    /\ \A r \in Records : r[2] # 1 => outbox[r] = "none"
    /\ jobState = "none" <=> pc["api"] = "submit"
    /\ pc["client"] \in RefreshLabels => pc["api"] \notin {"submit", "bulk_create"}

\* The relay replays before it has published anything, and finds nothing to publish again.
RelayOrder ==
    \A p \in Relays :
        /\ pc[p] \notin {"create_outbox", "unsent", "set_publish_pending", "bulk_claim",
                         "bulk_send", "bulk_unsent"}
        /\ pc[p] \in Booting =>
               /\ \A i \in Items : outbox[<<i, 1>>] \in {"none", "pending"}
               /\ todo[p] = {}
               /\ \A i \in left[p] : outbox[<<i, 1>>] # "none"
               /\ pc[p] # "boot" => pc["api"] # "submit"
        /\ pc[p] = "replay" => left[p] \subseteq covered[p]
        /\ pc[p] \in Unsent \cup {"send", "sent"} => outbox[rec[p]] = "publishing"
        /\ pc[p] \in {"send", "sent"} => Out(rec[p][1])

\* A message is of an item that has been queued; an item that has ended has an ended scan.
Underway ==
    /\ \A m \in Messages : queue[m] > 0 => Out(m[1])
    /\ \A w \in Workers : pc[w] # "idle" => Out(msg[w][1])
    /\ \A i \in Items : item[i] \in TerminalStates => stage[i]["scan"] \in TerminalStageStates

\* A job is ended, or about to be, only when its items have.
JobEnds ==
    (jobState \in TerminalStates \/ \E p \in Procs : verdict[p] \in TerminalStates)
        => \A i \in Items : item[i] \in TerminalStates

\* The items that count, and those that the relay has room for.
Due(p) == {r[1] : r \in todo[p]}
          \cup (IF pc[p] \in {"claim", "load", "set_queued"} THEN {rec[p][1]} ELSE {})
RoomKept ==
    /\ Cardinality(Active) <= MaxActive
    /\ \A p \in Relays :
        /\ Cardinality(Active \cup Due(p)) <= MaxActive
        /\ pc[p] = "list" => Cardinality(Active) + capacity[p] <= MaxActive

CapInv == WholeBatch /\ RelayOrder /\ Underway /\ JobEnds /\ RoomKept

LEMMA CapInit == OneSureRelay /\ Init => CapInv
<1> SUFFICES ASSUME OneSureRelay, Init PROVE CapInv OBVIOUS
<1>0. \A p \in Relays : p # "api" /\ p \in Procs /\ p \notin Workers BY ConstantsAssumption, Domains
<1>1. WholeBatch BY Domains, ConstantsAssumption DEF Init, WholeBatch, RefreshLabels
<1>2. RelayOrder BY <1>0, Domains DEF Init, RelayOrder, Booting, Unsent
<1>3. Underway BY <1>0, Domains, ConstantsAssumption DEF Init, Underway, TerminalStates
<1>4. JobEnds BY Domains DEF Init, JobEnds, TerminalStates
<1>5. RoomKept
  <2>1. Active = {} BY DEF Init, Active
  <2>2. \A p \in Relays : Due(p) = {} /\ pc[p] = "boot" BY <1>0, Domains DEF Init, Due
  <2>3. Cardinality({}) <= MaxActive BY FS_EmptySet, ConstantsAssumption
  <2> QED BY <2>1, <2>2, <2>3 DEF RoomKept
<1> QED BY <1>1, <1>2, <1>3, <1>4, <1>5 DEF CapInv

\* Less is due, less is counted.
LEMMA SmallerRoom ==
  ASSUME NEW S \in SUBSET Items, NEW T \in SUBSET S
  PROVE  Cardinality(T) \in Nat /\ Cardinality(S) \in Nat /\ Cardinality(T) <= Cardinality(S)
<1>1. IsFiniteSet(S) BY FS_Subset, ConstantsAssumption
<1> QED BY <1>1, FS_Subset, FS_CardinalityType

LEMMA DueItems ==
  ASSUME TypeInv, NEW p \in Relays
  PROVE  Due(p) \subseteq Items /\ Active \subseteq Items
<1>1. todo[p] \subseteq Records /\ rec[p] \in Records
  BY Domains DEF TypeInv, TypeOK, PublisherType
<1> QED BY <1>1 DEF Due, Active, Records

\* A step that takes items that have been queued further, if any, and lets the relay go no
\* further than to where it has nothing in hand.
Advance ==
    \A i \in Items :
        \/ item'[i] = item[i]
        \/ Out(i) /\ Out(i)' /\ (item[i] \in TerminalStates => item'[i] \in TerminalStates)

EmptyHanded == RefreshLabels \cup ReturnLabels
StaysPut(p) ==
    /\ pc'[p] = pc[p] /\ rec'[p] = rec[p] /\ capacity'[p] = capacity[p]
    /\ left'[p] = left[p] /\ covered'[p] = covered[p]

LEMMA AdvanceKeeps ==
  ASSUME TypeInv, TypeInv', CapInv, Advance, UNCHANGED outbox,
         \A p \in Relays : todo'[p] = todo[p] /\ (StaysPut(p) \/ pc'[p] \in EmptyHanded),
         pc'["api"] = pc["api"], pc'["operator"] = pc["operator"],
         pc'["client"] \in RefreshLabels => pc["client"] \in RefreshLabels \/ Created # {},
         (jobState = "none") = (jobState' = "none")
  PROVE  WholeBatch' /\ RelayOrder' /\ RoomKept'
<1>0. EmptyHanded \cap (Unsent \cup Booting \cup
         {"claim", "list", "send", "sent", "create_outbox", "unsent", "set_publish_pending", "bulk_claim",
          "bulk_send", "bulk_unsent"}) = {}
  BY DEF EmptyHanded, RefreshLabels, ReturnLabels, Unsent, Booting
<1>1. \A i \in Items : Fresh(i)' => Fresh(i) BY <1>0 DEF Fresh, StaysPut
<1>2. \A i \in Items : Out(i) => Out(i)' BY DEF Advance, Out
<1>3. \A i \in Items :
         \/ item'[i] = item[i]
         \/ item[i] \notin {"none", "publish_pending"} /\ item'[i] \notin {"none", "publish_pending"}
  BY DEF Advance, Out, TerminalStates
<1>4. WholeBatch' BY <1>1, <1>3 DEF CapInv, WholeBatch, Created
<1>5. RelayOrder'
  <2>1. \A p \in Relays : rec[p][1] \in Items BY Domains DEF TypeInv, TypeOK, PublisherType, Records
  <2> SUFFICES ASSUME NEW p \in Relays
               PROVE  /\ (pc[p] \notin {"create_outbox", "unsent", "set_publish_pending", "bulk_claim",
                                        "bulk_send", "bulk_unsent"})'
                      /\ (pc[p] \in Booting =>
                            /\ \A i \in Items : outbox[<<i, 1>>] \in {"none", "pending"}
                            /\ todo[p] = {}
                            /\ \A i \in left[p] : outbox[<<i, 1>>] # "none"
                            /\ pc[p] # "boot" => pc["api"] # "submit")'
                      /\ (pc[p] = "replay" => left[p] \subseteq covered[p])'
                      /\ (pc[p] \in Unsent \cup {"send", "sent"} => outbox[rec[p]] = "publishing")'
                      /\ (pc[p] \in {"send", "sent"} => Out(rec[p][1]))'
    BY DEF RelayOrder
  <2>2. CASE pc'[p] \in EmptyHanded BY <1>0, <2>2 DEF Booting
  <2>3. CASE StaysPut(p) BY <1>2, <2>1, <2>3 DEF CapInv, RelayOrder, StaysPut
  <2> QED BY <2>2, <2>3
<1>6. RoomKept'
  <2>1. Active' \subseteq Active BY DEF Advance, Active, Out, TerminalStates
  <2>2. \A p \in Relays : Due(p)' \subseteq Due(p) BY <1>0 DEF Due, StaysPut, Unsent
  <2>3. Active \subseteq Items BY DEF Active
  <2>4. Cardinality(Active)' <= Cardinality(Active) /\ Cardinality(Active)' \in Nat
        /\ Cardinality(Active) \in Nat
    BY <2>1, <2>3, SmallerRoom
  <2>5. ASSUME NEW p \in Relays
        PROVE  /\ Cardinality(Active \cup Due(p))' <= MaxActive
               /\ (pc[p] = "list" => Cardinality(Active) + capacity[p] <= MaxActive)'
    <3>1. Active' \cup Due(p)' \subseteq Active \cup Due(p) /\ Active \cup Due(p) \subseteq Items
      BY <2>1, <2>2, DueItems
    <3>2. Cardinality(Active' \cup Due(p)') <= Cardinality(Active \cup Due(p))
          /\ Cardinality(Active' \cup Due(p)') \in Nat /\ Cardinality(Active \cup Due(p)) \in Nat
      BY <3>1, SmallerRoom
    <3>3. Cardinality(Active \cup Due(p)) <= MaxActive BY DEF CapInv, RoomKept
    <3>4. pc'[p] = "list" => pc[p] = "list" /\ capacity'[p] = capacity[p] BY <1>0 DEF StaysPut
    <3>5. pc[p] = "list" => Cardinality(Active) + capacity[p] <= MaxActive BY DEF CapInv, RoomKept
    <3>6. capacity[p] \in Nat BY DEF TypeInv, TypeOK, PublisherType
    <3>7. Cardinality(Active' \cup Due(p)') <= MaxActive BY <3>2, <3>3, ConstantsAssumption
    <3>8. pc'[p] = "list" => Cardinality(Active') + capacity'[p] <= MaxActive
      BY <2>4, <3>4, <3>5, <3>6, ConstantsAssumption
    <3> QED BY <3>7, <3>8
  <2>6. Cardinality(Active)' <= MaxActive BY <2>4, ConstantsAssumption DEF CapInv, RoomKept
  <2> QED BY <2>5, <2>6 DEF RoomKept
<1> QED BY <1>4, <1>5, <1>6

\* Messages, and the end of the job, where neither items nor workers are touched.
LEMMA WorkersApart ==
  ASSUME CapInv, UNCHANGED <<item, stage, queue, msg, jobState, verdict>>,
         \A w \in Workers : pc'[w] = pc[w]
  PROVE  Underway' /\ JobEnds'
<1>1. Underway' BY DEF CapInv, Underway, Out
<1>2. JobEnds' BY DEF CapInv, JobEnds
<1> QED BY <1>1, <1>2

LEMMA CapRefresh ==
  ASSUME TypeInv, TypeInv', NothingBeforeBatch, CapInv, NEW p \in Procs, Refresh(p)
  PROVE  CapInv'
<1>0. /\ pc \in [Procs -> Labels] /\ ret[p] \in ReturnLabels /\ verdict \in [Procs -> JobStates \cup {"keep"}]
      /\ pc[p] = "refresh_write" => verdict[p] # "keep"
  BY DEF TypeInv, TypeOK, ControlType, VerdictReady
<1>1. /\ UNCHANGED <<item, stage, outbox, lease, broker, publisherVars, workerVars>>
      /\ pc[p] \in RefreshLabels
      /\ \E l \in EmptyHanded : pc' = [pc EXCEPT ![p] = l]
  BY <1>0 DEF Refresh, RefreshReadJob, RefreshSummarize, RefreshWrite, RefreshReturn, RefreshLabels,
              EmptyHanded
<1>2. p \notin {"api", "operator"}
  BY <1>1 DEF CapInv, WholeBatch, RefreshLabels
<1>3. Advance BY <1>1 DEF Advance
<1>4. /\ (jobState = "none") = (jobState' = "none")
      /\ (jobState' \in TerminalStates \/ \E q \in Procs : verdict'[q] \in TerminalStates)
             => \A i \in Items : item[i] \in TerminalStates
  <2>1. CASE RefreshReadJob(p)
    BY <1>0, <2>1 DEF RefreshReadJob, CapInv, JobEnds, TerminalStates
  <2>2. CASE RefreshSummarize(p)
    <3>1. verdict' = [verdict EXCEPT ![p] = ParentState(item, Created)] /\ UNCHANGED jobState
      BY <2>2 DEF RefreshSummarize
    <3>2. ParentState(item, Created) \in TerminalStates => \A i \in Items : item[i] \in TerminalStates
      <4>1. SUFFICES ASSUME ParentState(item, Created) \in TerminalStates
                     PROVE  \A i \in Items : item[i] \in TerminalStates
        OBVIOUS
      <4>2. \E i \in Items : item[i] # "none"
        BY <4>1 DEF ParentState, Created, TerminalStates
      <4>3. \A i \in Items : item[i] # "none" BY <4>2 DEF CapInv, WholeBatch
      <4>4. Created = Items /\ item \in [Items -> ItemStates]
        BY <4>3 DEF Created, TypeInv, TypeOK, LedgerType
      <4> QED BY <4>1, <4>4, ParentTerminal, ConstantsAssumption
    <3> QED BY <1>0, <3>1, <3>2 DEF CapInv, JobEnds
  <2>3. CASE RefreshWrite(p)
    <3>1. jobState' = verdict[p] /\ verdict' = [verdict EXCEPT ![p] = "keep"] /\ verdict[p] \in JobStates
      BY <1>0, <2>3 DEF RefreshWrite, update_job_state
    <3>2. jobState # "none"
      <4>1. pc["api"] \notin {"submit", "bulk_create"}
        BY <1>1, <1>2 DEF CapInv, WholeBatch, NothingBeforeBatch, RefreshLabels, Procs
      <4> QED BY <4>1 DEF CapInv, WholeBatch
    <3> QED BY <1>0, <3>1, <3>2 DEF CapInv, JobEnds, JobStates, TerminalStates
  <2> QED BY <2>1, <2>2, <2>3 DEF Refresh
<1>5. JobEnds' BY <1>1, <1>4 DEF JobEnds
<1>6. Underway' BY <1>0, <1>1 DEF CapInv, Underway, Out, RefreshLabels
<1>7. \A q \in Relays : todo'[q] = todo[q] /\ (StaysPut(q) \/ pc'[q] \in EmptyHanded)
  BY <1>0, <1>1, Domains DEF StaysPut
<1>8. /\ pc'["api"] = pc["api"] /\ pc'["operator"] = pc["operator"]
      /\ pc'["client"] \in RefreshLabels => pc["client"] \in RefreshLabels
  BY <1>0, <1>1, <1>2
<1> QED BY <1>1, <1>3, <1>4, <1>5, <1>6, <1>7, <1>8, AdvanceKeeps DEF CapInv

\* The submitter writes the whole batch and publishes nothing.
LEMMA CapSubmit ==
  ASSUME OneSureRelay, TypeInv, TypeInv', CapInv, Submit \/ CreateOutbox("api") \/ Publish("api")
  PROVE  CapInv'
<1>0. /\ pc \in [Procs -> Labels] /\ "api" \in Procs /\ "api" \notin Relays /\ "api" \notin Workers
      /\ pc["api"] \in {"submit", "bulk_create", "submitted", "done"} /\ Deferred
  BY Domains, ConstantsAssumption DEF TypeInv, TypeOK, ControlType, CapInv, WholeBatch, OneSureRelay
<1>1. CreateJob \/ BulkCreate \/ SubmitDone
  BY <1>0 DEF Submit, CreateItem, CreateOutbox, Publish, Claim, LoadItem, SkipRecord, SetQueued, Send,
              MarkPublished, MarkFailed, SetPublishPending
<1>2. /\ UNCHANGED <<stage, lease, broker, refreshVars, publisherVars, workerVars>>
      /\ \A q \in Procs : q # "api" => pc'[q] = pc[q]
      /\ "operator" # "api" /\ "client" # "api"
  BY <1>0, <1>1 DEF CreateJob, BulkCreate, SubmitDone
<1>3. \A q \in Relays \cup Workers \cup {"operator", "client"} : pc'[q] = pc[q]
  BY <1>0, <1>2, Domains
<1>4. CASE CreateJob
  <2>1. pc["api"] = "submit" /\ pc'["api"] = "bulk_create" /\ jobState' = "accepted"
        /\ UNCHANGED <<item, outbox>>
    BY <1>0, <1>4 DEF CreateJob, update_job_state
  <2>2. WholeBatch' BY <1>2, <1>3, <2>1, Domains DEF CapInv, WholeBatch, Fresh
  <2>3. RelayOrder' BY <1>2, <1>3, <2>1 DEF CapInv, RelayOrder, Out
  <2>4. Underway' BY <1>2, <1>3, <2>1 DEF CapInv, Underway, Out
  <2>5. JobEnds' BY <1>2, <2>1 DEF CapInv, JobEnds, TerminalStates
  <2>6. RoomKept' BY <1>2, <1>3, <2>1 DEF CapInv, RoomKept, Active, Due
  <2> QED BY <2>2, <2>3, <2>4, <2>5, <2>6 DEF CapInv
<1>5. CASE BulkCreate
  <2>1. /\ pc["api"] = "bulk_create" /\ pc'["api"] = "submitted" /\ UNCHANGED jobState
        /\ item' = [i \in Items |-> "publish_pending"]
        /\ outbox' = [r \in Records |-> IF r[2] = 1 THEN "pending" ELSE outbox[r]]
    BY <1>0, <1>5 DEF BulkCreate
  <2>2. \A i \in Items : ~Out(i) /\ item[i] = "none" /\ outbox[<<i, 1>>] = "none"
    BY <2>1 DEF CapInv, WholeBatch, Out, TerminalStates
  <2>3. \A i \in Items : item'[i] = "publish_pending" /\ outbox'[<<i, 1>>] = "pending"
    BY <2>1, Domains
  <2>4. \A r \in Records : r[2] # 1 => outbox'[r] = "none" BY <2>1 DEF CapInv, WholeBatch
  <2>5. WholeBatch'
    BY <1>2, <1>3, <2>1, <2>3, <2>4, Domains DEF CapInv, WholeBatch, RefreshLabels
  <2>6. \A p \in Relays : pc[p] \notin Unsent \cup {"send", "sent"}
    <3>1. SUFFICES ASSUME NEW p \in Relays, pc[p] \in Unsent \cup {"send", "sent"} PROVE FALSE
      OBVIOUS
    <3>2. rec[p] \in Records /\ outbox[rec[p]] = "publishing"
      BY <3>1, Domains DEF TypeInv, TypeOK, PublisherType, CapInv, RelayOrder
    <3>3. rec[p] = <<rec[p][1], rec[p][2]>> /\ rec[p][1] \in Items BY <3>2 DEF Records
    <3>4. rec[p][2] = 1 BY <3>2 DEF CapInv, WholeBatch
    <3> QED BY <2>2, <3>2, <3>3, <3>4
  <2>7. RelayOrder'
    <3>1. \A p \in Relays : left[p] \subseteq Items
      BY DEF TypeInv, TypeOK, PublisherType
    <3> QED BY <1>2, <1>3, <2>1, <2>3, <2>6, <3>1 DEF CapInv, RelayOrder
  <2>8. Underway'
    <3>1. \A m \in Messages : ~(queue[m] > 0)
      <4>1. SUFFICES ASSUME NEW m \in Messages PROVE ~(queue[m] > 0) OBVIOUS
      <4>2. m[1] \in Items BY DEF Messages
      <4>3. ~Out(m[1]) BY <2>2, <4>2
      <4> QED BY <4>3 DEF CapInv, Underway
    <3>2. \A w \in Workers : pc[w] = "idle"
      <4>1. SUFFICES ASSUME NEW w \in Workers PROVE pc[w] = "idle" OBVIOUS
      <4>2. msg[w][1] \in Items BY DEF TypeInv, TypeOK, WorkerType, Messages
      <4>3. ~Out(msg[w][1]) BY <2>2, <4>2
      <4> QED BY <4>3 DEF CapInv, Underway
    <3> QED BY <1>2, <1>3, <2>3, <3>1, <3>2 DEF Underway, TerminalStates
  <2>9. JobEnds'
    <3>1. \E i \in Items : item[i] \notin TerminalStates BY <2>2, ConstantsAssumption DEF TerminalStates
    <3> QED BY <1>2, <2>1, <3>1 DEF CapInv, JobEnds
  <2>10. RoomKept'
    <3>1. Active = {} /\ Active' = {} BY <2>2, <2>3 DEF Active
    <3>2. \A p \in Relays : Due(p)' = Due(p) BY <1>2, <1>3 DEF Due
    <3> QED BY <1>2, <1>3, <3>1, <3>2 DEF CapInv, RoomKept
  <2> QED BY <2>5, <2>7, <2>8, <2>9, <2>10 DEF CapInv
<1>6. CASE SubmitDone
  <2>1. pc["api"] = "submitted" /\ pc'["api"] = "done" /\ jobState' = "publish_pending"
        /\ UNCHANGED <<item, outbox>>
    BY <1>0, <1>6 DEF SubmitDone, update_job_state
  <2>2. WholeBatch' BY <1>2, <1>3, <2>1, Domains DEF CapInv, WholeBatch, Fresh
  <2>3. RelayOrder' BY <1>2, <1>3, <2>1 DEF CapInv, RelayOrder, Out
  <2>4. Underway' BY <1>2, <1>3, <2>1 DEF CapInv, Underway, Out
  <2>5. JobEnds' BY <1>2, <2>1 DEF CapInv, JobEnds, TerminalStates
  <2>6. RoomKept' BY <1>2, <1>3, <2>1 DEF CapInv, RoomKept, Active, Due
  <2> QED BY <2>2, <2>3, <2>4, <2>5, <2>6 DEF CapInv
<1> QED BY <1>1, <1>4, <1>5, <1>6

\* The client's polling changes no row.
LEMMA CapClient ==
  ASSUME TypeInv, TypeInv', CapInv, PollReadJob \/ PollSummarize
  PROVE  CapInv'
<1>0. /\ pc \in [Procs -> Labels] /\ "client" \in Procs /\ "client" \notin Relays \cup Workers
  BY Domains, ConstantsAssumption DEF TypeInv, TypeOK, ControlType
<1>1. /\ UNCHANGED <<ledger, broker, verdict, publisherVars, workerVars>>
      /\ \E l \in Labels : pc' = [pc EXCEPT !["client"] = l] /\ (l \in RefreshLabels => Created # {})
  BY <1>0 DEF PollReadJob, PollSummarize, CallRefresh, RefreshLabels, Labels
<1>2. \A q \in Relays \cup Workers \cup {"api", "operator"} : pc'[q] = pc[q]
  BY <1>0, <1>1
<1>3. Advance /\ \A q \in Relays : todo'[q] = todo[q] /\ StaysPut(q)
  BY <1>1, <1>2 DEF Advance, StaysPut
<1>4. pc'["client"] \in RefreshLabels => Created # {} BY <1>0, <1>1
<1>5. WholeBatch' /\ RelayOrder' /\ RoomKept' BY <1>1, <1>2, <1>3, <1>4, AdvanceKeeps
<1>6. Underway' /\ JobEnds' BY <1>1, <1>2, WorkersApart
<1> QED BY <1>5, <1>6 DEF CapInv

\* A worker takes only its own item further, and does not bring it back.
LEMMA CapWorker ==
  ASSUME TypeInv, TypeInv', CapInv, NEW w \in Workers,
         Worker(w) \/ WorkerCrash(w) \/ ReaderUnavailable(w) \/ ScanFails(w)
  PROVE  CapInv'
<1>0. /\ pc \in [Procs -> Labels] /\ w \in Procs
      /\ w \notin Relays \cup {"api", "operator", "client"}
      /\ msg \in [Workers -> Messages] /\ queue \in [Messages -> Nat]
      /\ verdict \in [Procs -> JobStates \cup {"keep"}]
      /\ \A m \in Messages : m[1] \in Items /\ m[2] \in 0 .. MaxRetry /\ m = <<m[1], m[2]>>
  BY Domains, ConstantsAssumption DEF TypeInv, TypeOK, ControlType, WorkerType, BrokerType, Messages
<1>1. /\ UNCHANGED <<jobState, outbox, publisherVars>>
      /\ verdict' \in {verdict, [verdict EXCEPT ![w] = "keep"]}
      /\ \A q \in Procs : q # w => pc'[q] = pc[q]
  BY <1>0 DEF Worker, Deliver, CheckItem, CheckJob, ReadForUpdate, WriteStage, MarkRuntimeStarted,
              ScanSucceeds, CompleteScanOnly, ClearRuntime, Retry, DeadLetter, Ack, WorkerCrash,
              ReaderUnavailable, ScanFails, CallRefresh
<1>2. ASSUME Advance, Underway' PROVE CapInv'
  <2>1. \A q \in Relays \cup {"api", "operator", "client"} : pc'[q] = pc[q] BY <1>0, <1>1, Domains
  <2>2. \A q \in Relays : todo'[q] = todo[q] /\ StaysPut(q) BY <1>1, <2>1 DEF StaysPut
  <2>3. WholeBatch' /\ RelayOrder' /\ RoomKept' BY <1>1, <1>2, <2>1, <2>2, AdvanceKeeps
  <2>4. \A i \in Items : item[i] \in TerminalStates => item'[i] \in TerminalStates
    BY <1>2 DEF Advance
  <2>5. JobEnds'
    <3>1. \A q \in Procs : verdict'[q] \in TerminalStates => verdict[q] \in TerminalStates
      BY <1>0, <1>1 DEF TerminalStates
    <3> QED BY <1>1, <2>4, <3>1 DEF CapInv, JobEnds
  <2> QED BY <1>2, <2>3, <2>5 DEF CapInv
<1>3. /\ pc[w] # "idle" => Out(msg[w][1])
      /\ \A v \in Workers : v # w => pc'[v] = pc[v]
  BY <1>1, Domains DEF CapInv, Underway
<1>4. ASSUME UNCHANGED <<item, stage>>,
             \A m \in Messages : queue'[m] > 0 => queue[m] > 0 \/ (m[1] = msg[w][1] /\ pc[w] # "idle"),
             \/ pc'[w] = "idle"
             \/ msg' = msg /\ pc[w] # "idle"
             \/ \E m \in Messages : queue[m] > 0 /\ msg' = [msg EXCEPT ![w] = m],
             \A v \in Workers : v # w => msg'[v] = msg[v]
      PROVE  CapInv'
  <2>1. Advance BY <1>4 DEF Advance
  <2>2. \A i \in Items : Out(i)' = Out(i) BY <1>4 DEF Out
  <2>3. \A m \in Messages : queue'[m] > 0 => Out(m[1]) BY <1>0, <1>3, <1>4 DEF CapInv, Underway
  <2>4. \A v \in Workers : pc'[v] # "idle" => Out(msg'[v][1]) /\ msg'[v][1] \in Items
    BY <1>0, <1>3, <1>4 DEF CapInv, Underway
  <2>5. \A i \in Items : (item[i] \in TerminalStates => stage[i]["scan"] \in TerminalStageStates)'
    BY <1>4 DEF CapInv, Underway
  <2>6. Underway'
    <3>1. \A m \in Messages : queue'[m] > 0 => Out(m[1])' BY <1>0, <2>2, <2>3
    <3>2. \A v \in Workers : pc'[v] # "idle" => Out(msg[v][1])' BY <1>4, <2>4 DEF Out
    <3> QED BY <2>5, <3>1, <3>2 DEF Underway
  <2> QED BY <1>2, <2>1, <2>6
<1>5. ASSUME NEW m \in Messages, Deliver(w, m) PROVE CapInv'
  <2>1. /\ UNCHANGED <<item, stage>> /\ queue' = [queue EXCEPT ![m] = @ - 1] /\ queue[m] > 0
        /\ msg' = [msg EXCEPT ![w] = m]
    BY <1>5 DEF Deliver
  <2>2. \A n \in Messages : queue'[n] > 0 => queue[n] > 0 BY <1>0, <2>1
  <2>3. \A v \in Workers : v # w => msg'[v] = msg[v] BY <1>0, <2>1
  <2> QED BY <1>4, <2>1, <2>2, <2>3
<1>6. CASE \/ CheckItem(w) \/ CheckJob(w) \/ ReadForUpdate(w) \/ MarkRuntimeStarted(w) \/ ScanSucceeds(w)
           \/ ClearRuntime(w) \/ DeadLetter(w) \/ ReaderUnavailable(w) \/ ScanFails(w)
  <2>1. UNCHANGED <<item, stage, queue, msg>> /\ pc[w] # "idle"
    BY <1>6 DEF CheckItem, CheckJob, ReadForUpdate, MarkRuntimeStarted, ScanSucceeds, ClearRuntime,
                DeadLetter, ReaderUnavailable, ScanFails
  <2> QED BY <1>4, <2>1
<1>7. CASE Ack(w)
  <2>1. UNCHANGED <<item, stage, queue>> /\ pc'[w] = "idle" /\ msg' = [msg EXCEPT ![w] = SomeMessage]
    BY <1>0, <1>7 DEF Ack
  <2> QED BY <1>0, <1>4, <2>1
<1>8. CASE Retry(w)
  <2>1. UNCHANGED <<item, stage, msg>> /\ pc[w] = "retry" BY <1>8 DEF Retry
  <2>2. \A m \in Messages : queue'[m] > 0 => queue[m] > 0 \/ m[1] = msg[w][1]
    BY <1>0, <1>8 DEF Retry, Enqueue, ItemOf
  <2> QED BY <1>4, <2>1, <2>2
<1>9. CASE WorkerCrash(w)
  <2>1. /\ UNCHANGED <<item, stage>> /\ pc[w] # "idle" /\ pc'[w] = "idle"
        /\ msg' = [msg EXCEPT ![w] = SomeMessage]
        /\ queue' = [queue EXCEPT ![msg[w]] = @ + 1]
    BY <1>0, <1>9 DEF WorkerCrash, Enqueue
  <2>2. \A m \in Messages : queue'[m] > 0 => queue[m] > 0 \/ m[1] = msg[w][1]
    BY <1>0, <2>1
  <2> QED BY <1>0, <1>4, <2>1, <2>2
<1>10. CASE WriteStage(w) \/ CompleteScanOnly(w)
  <2> DEFINE i == msg[w][1]
  <2>1. /\ i \in Items /\ Out(i) /\ pc[w] # "idle" /\ UNCHANGED <<queue, msg>>
        /\ \A j \in Items : j # i => item'[j] = item[j] /\ stage'[j] = stage[j]
    BY <1>0, <1>3, <1>10
    DEF WriteStage, CompleteScanOnly, update_job_item_stage, update_job_item_stages, ItemOf, TypeInv,
        TypeOK, LedgerType
  <2>2. \/ item'[i] = item[i] /\ stage'[i] = stage[i]
        \/ item'[i] \in TerminalStates /\ stage'[i]["scan"] \in TerminalStageStates
        \/ item'[i] = "scanning" /\ item[i] \notin TerminalStates
    <3>1. CASE CompleteScanOnly(w)
      BY <2>1, <3>1 DEF CompleteScanOnly, update_job_item_stages, ItemOf, TypeInv, TypeOK, LedgerType,
                        TerminalStates, TerminalStageStates, StageNames
    <3>2. CASE WriteStage(w)
      <4> DEFINE s == IF pc[w] = "run_write" THEN "running" ELSE "failed"
                 new == [snap[w].stages EXCEPT !["scan"] = s]
                 d == DeriveItemState(snap[w].state, new, "scan")
      <4>1. update_job_item_stage(i, "scan", s, d) BY <3>2 DEF WriteStage, ItemOf
      <4>2. snap[w].stages \in [StageNames -> StageStates]
        BY DEF TypeInv, TypeOK, WorkerType, RowType
      <4>3. new["scan"] = s BY <4>2 DEF StageNames
      <4> HIDE DEF new
      <4>4. d = IF s = "running" THEN "scanning" ELSE "failed" BY <4>3 DEF DeriveItemState
      <4> HIDE DEF d
      <4>5. stage \in [Items -> [StageNames -> StageStates]] /\ item \in [Items -> ItemStates \cup {"none"}]
        BY DEF TypeInv, TypeOK, LedgerType
      <4>6. item[i] \in TerminalStates => stage[i]["scan"] \in TerminalStageStates
        BY <2>1 DEF CapInv, Underway
      <4> QED
        BY <2>1, <4>1, <4>4, <4>5, <4>6
        DEF update_job_item_stage, StageNames, TerminalStates, TerminalStageStates
    <3> QED BY <1>10, <3>1, <3>2
  <2>3. Out(i)' BY <2>1, <2>2 DEF Out
  <2>4. Advance BY <2>1, <2>2, <2>3 DEF Advance, TerminalStates
  <2>5. \A j \in Items : Out(j) => Out(j)' BY <2>1, <2>3 DEF Out
  <2>6. Underway'
    <3>1. \A m \in Messages : queue'[m] > 0 => Out(m[1])' BY <1>0, <2>1, <2>5 DEF CapInv, Underway
    <3>2. \A v \in Workers : pc'[v] # "idle" => Out(msg[v][1])'
      BY <1>0, <1>3, <2>1, <2>5 DEF CapInv, Underway
    <3>3. \A j \in Items : item'[j] \in TerminalStates => stage'[j]["scan"] \in TerminalStageStates
      BY <2>1, <2>2 DEF CapInv, Underway, TerminalStates
    <3> QED BY <3>1, <3>2, <3>3 DEF Underway
  <2> QED BY <1>2, <2>4, <2>6
<1> QED BY <1>5, <1>6, <1>7, <1>8, <1>9, <1>10 DEF Worker

\* What a relay step that moves nothing into the queue leaves as it was.
LEMMA RelayKeeps ==
  ASSUME OneSureRelay, TypeInv, CapInv, NEW p \in Relays,
         UNCHANGED <<stage, workerVars, verdict>>, \A q \in Procs : q # p => pc'[q] = pc[q]
  PROVE  /\ UNCHANGED <<item, queue, jobState>> => Underway' /\ JobEnds'
         /\ (/\ UNCHANGED <<item, jobState>>
             /\ \A i \in Items : Fresh(i)' => Fresh(i)
             /\ \A r \in Records : outbox'[r] = "none" <=> outbox[r] = "none")
            => WholeBatch'
         /\ (UNCHANGED item /\ Due(p)' \subseteq Due(p) /\ pc'[p] # "list") => RoomKept'
<1>0. /\ p \in Procs /\ p \notin Workers \cup {"api", "operator", "client"}
      /\ \A q \in Relays : q = p
  BY Domains, ConstantsAssumption DEF OneSureRelay
<1>1. \A q \in Workers \cup {"api", "operator", "client"} : pc'[q] = pc[q] BY <1>0, Domains
<1>2. ASSUME UNCHANGED <<item, queue, jobState>> PROVE Underway' /\ JobEnds'
  BY <1>1, <1>2, WorkersApart
<1>3. ASSUME UNCHANGED <<item, jobState>>, \A i \in Items : Fresh(i)' => Fresh(i),
             \A r \in Records : outbox'[r] = "none" <=> outbox[r] = "none"
      PROVE  WholeBatch'
  BY <1>1, <1>3, Domains DEF CapInv, WholeBatch
<1>4. ASSUME UNCHANGED item, Due(p)' \subseteq Due(p), pc'[p] # "list" PROVE RoomKept'
  <2>1. Active' = Active BY <1>4 DEF Active
  <2>2. Active \cup Due(p) \subseteq Items /\ Active' \cup Due(p)' \subseteq Active \cup Due(p)
    BY <1>4, <2>1, DueItems
  <2>3. /\ Cardinality(Active' \cup Due(p)') <= Cardinality(Active \cup Due(p))
        /\ Cardinality(Active' \cup Due(p)') \in Nat /\ Cardinality(Active \cup Due(p)) \in Nat
    BY <2>2, SmallerRoom
  <2>4. Cardinality(Active \cup Due(p)) <= MaxActive /\ Cardinality(Active) <= MaxActive
    BY DEF CapInv, RoomKept
  <2>5. Cardinality(Active' \cup Due(p)') <= MaxActive BY <2>3, <2>4, ConstantsAssumption
  <2> QED BY <1>0, <1>4, <2>1, <2>4, <2>5 DEF RoomKept
<1> QED BY <1>2, <1>3, <1>4

\* The replay finds every record pending, and gives the items the state that they have.
LEMMA CapReplay ==
  ASSUME OneSureRelay, TypeInv, TypeInv', CapInv, NEW p \in Relays,
         \/ ReplayReadJob(p) \/ ReplayReadItems(p) \/ ReplayReadOutbox(p)
         \/ (\E i \in Items : ReplayItem(p, i)) \/ ReplayDone(p)
  PROVE  CapInv'
<1>0. /\ p \in Procs /\ p \in Publishers /\ p \notin Workers \cup {"api", "operator", "client"}
      /\ \A q \in Relays : q = p
      /\ pc \in [Procs -> Labels] /\ left \in [Relays -> SUBSET Items]
      /\ covered \in [Relays -> SUBSET Items] /\ item \in [Items -> ItemStates \cup {"none"}]
  BY Domains, ConstantsAssumption
  DEF OneSureRelay, TypeInv, TypeOK, ControlType, PublisherType, LedgerType
<1>1. /\ pc[p] \in Booting /\ todo[p] = {}
      /\ \A i \in Items : outbox[<<i, 1>>] \in {"none", "pending"}
      /\ \A i \in left[p] : outbox[<<i, 1>>] # "none"
      /\ pc[p] # "boot" => pc["api"] # "submit"
      /\ pc[p] = "replay" => left[p] \subseteq covered[p]
  BY DEF CapInv, RelayOrder, Booting, ReplayReadJob, ReplayReadItems, ReplayReadOutbox, ReplayItem,
         ReplayDone
<1>2. \A i \in Items : outbox[<<i, 1>>] # "none" => item[i] = "publish_pending"
  BY <1>1 DEF CapInv, WholeBatch, Fresh
<1>3. item' = item /\ UNCHANGED <<stage, outbox, queue, verdict, workerVars, todo>>
  <2>1. ASSUME NEW i \in Items, ReplayItem(p, i) PROVE item' = item
    BY <1>0, <1>1, <1>2, <2>1 DEF ReplayItem, update_job_item_state
  <2> QED BY <2>1 DEF ReplayReadJob, ReplayReadItems, ReplayReadOutbox, ReplayItem, ReplayDone
<1>4. /\ \A q \in Procs : q # p => pc'[q] = pc[q]
      /\ pc'[p] \in Booting \cup {"idle"}
      /\ pc'[p] # "boot"
  BY <1>0, <1>1 DEF ReplayReadJob, ReplayReadItems, ReplayReadOutbox, ReplayItem, ReplayDone, Booting
<1>5. \A q \in Workers \cup {"api", "operator", "client"} : pc'[q] = pc[q]
  BY <1>0, <1>4, Domains
<1>6. \A i \in Items : Fresh(i)' => Fresh(i)
  BY <1>0, <1>3, <1>4 DEF Fresh, Unsent, Booting
<1>7. Due(p)' \subseteq Due(p) /\ pc'[p] # "list" BY <1>3, <1>4 DEF Due, Booting
<1>8. RoomKept' BY <1>3, <1>4, <1>7, RelayKeeps
<1>9. WholeBatch' /\ Underway' /\ JobEnds'
  <2>1. CASE ReplayDone(p)
    <3>1. /\ jobState' = "publish_pending" /\ pc["api"] # "submit"
      BY <1>1, <2>1 DEF ReplayDone, update_job_state
    <3>2. WholeBatch' BY <1>3, <1>5, <1>6, <3>1, Domains DEF CapInv, WholeBatch
    <3>3. Underway' BY <1>3, <1>5 DEF CapInv, Underway, Out
    <3>4. JobEnds' BY <1>3, <3>1 DEF CapInv, JobEnds, TerminalStates
    <3> QED BY <3>2, <3>3, <3>4
  <2>2. CASE ~ReplayDone(p)
    <3>1. UNCHANGED jobState
      BY <2>2 DEF ReplayReadJob, ReplayReadItems, ReplayReadOutbox, ReplayItem
    <3> QED BY <1>3, <1>4, <1>6, <3>1, RelayKeeps
  <2> QED BY <2>1, <2>2
<1>10. RelayOrder'
  <2>1. CASE ReplayReadJob(p)
    <3>1. pc'[p] # "idle" => jobState # "none" BY <1>0, <2>1 DEF ReplayReadJob
    <3>2. /\ left' = left /\ pc'[p] \in {"idle", "replay_items"} /\ pc'["api"] = pc["api"]
      BY <1>0, <1>5, <2>1 DEF ReplayReadJob
    <3> QED BY <1>0, <1>1, <1>3, <3>1, <3>2 DEF CapInv, WholeBatch, RelayOrder, Booting, Unsent
  <2>2. CASE ReplayReadItems(p)
    <3>1. /\ pc[p] = "replay_items" /\ pc'[p] = "replay_outbox" /\ pc'["api"] = pc["api"]
          /\ left'[p] = {i \in Created : item[i] \notin TerminalStates}
      BY <1>0, <1>5, <2>2 DEF ReplayReadItems
    <3>2. \A i \in Created : outbox[<<i, 1>>] # "none"
      BY DEF CapInv, WholeBatch, Created
    <3> QED BY <1>0, <1>1, <1>3, <3>1, <3>2 DEF RelayOrder, Booting, Unsent
  <2>3. CASE ReplayReadOutbox(p)
    <3>1. /\ pc[p] = "replay_outbox" /\ pc'[p] = "replay" /\ pc'["api"] = pc["api"] /\ left' = left
          /\ covered'[p] = {i \in Items : \E r \in Records :
                              r[1] = i /\ outbox[r] \in {"pending", "publishing"}}
      BY <1>0, <1>5, <2>3 DEF ReplayReadOutbox
    <3>2. left[p] \subseteq covered'[p]
      <4>1. SUFFICES ASSUME NEW i \in left[p] PROVE i \in covered'[p] OBVIOUS
      <4>2. i \in Items /\ outbox[<<i, 1>>] = "pending" /\ <<i, 1>> \in Records /\ <<i, 1>>[1] = i
        BY <1>0, <1>1, Domains
      <4> QED BY <3>1, <4>2
    <3> QED BY <1>0, <1>1, <1>3, <3>1, <3>2 DEF RelayOrder, Booting, Unsent
  <2>4. ASSUME NEW i \in Items, ReplayItem(p, i) PROVE RelayOrder'
    <3>1. /\ pc' = pc /\ covered' = covered /\ left'[p] = left[p] \ {i} /\ pc[p] = "replay"
      BY <1>0, <1>1, <2>4 DEF ReplayItem
    <3> QED BY <1>0, <1>1, <1>3, <3>1 DEF RelayOrder, Booting, Unsent
  <2>5. CASE ReplayDone(p)
    <3>1. pc'[p] = "idle" BY <1>0, <2>5 DEF ReplayDone
    <3> QED BY <1>0, <3>1 DEF RelayOrder, Booting, Unsent
  <2> QED BY <2>1, <2>2, <2>3, <2>4, <2>5
<1> QED BY <1>8, <1>9, <1>10 DEF CapInv

\* A flush lists no more records than there is room for items.
LEMMA CapFlush ==
  ASSUME OneSureRelay, TypeInv, TypeInv', CapInv, NEW p \in Relays,
         FlushCount(p) \/ FlushList(p) \/ (\E r \in Records : FlushNext(p, r)) \/ FlushEnd(p)
  PROVE  CapInv'
<1>0. /\ p \in Procs /\ p \in Publishers /\ p \notin Workers \cup {"api", "operator", "client"}
      /\ \A q \in Relays : q = p
      /\ pc \in [Procs -> Labels] /\ rec \in [Publishers -> Records]
      /\ todo \in [Relays -> SUBSET Records] /\ capacity \in [Relays -> Nat]
      /\ ~Coarse
  BY Domains, ConstantsAssumption
  DEF OneSureRelay, TypeInv, TypeOK, ControlType, PublisherType
<1>1. /\ UNCHANGED <<ledger, broker, verdict, workerVars>>
      /\ \A q \in Procs : q # p => pc'[q] = pc[q]
      /\ pc'[p] \in {"list", "idle", "flush", "claim", "refresh"}
      /\ pc[p] \in {"idle", "list", "flush"}
  BY <1>0 DEF FlushCount, FlushList, FlushNext, FlushEnd, CallRefresh
<1>2. \A i \in Items : Fresh(i)' => Fresh(i)
  BY <1>0, <1>1 DEF Fresh, Unsent
<1>3. WholeBatch' /\ Underway' /\ JobEnds' BY <1>1, <1>2, RelayKeeps
<1>4. RelayOrder' BY <1>0, <1>1 DEF RelayOrder, Booting, Unsent
<1>5. /\ Active' = Active /\ Active \subseteq Items /\ Due(p) \subseteq Items
      /\ Cardinality(Active) \in Nat /\ IsFiniteSet(Active)
      /\ Cardinality(Active) <= MaxActive
      /\ pc[p] = "list" => Cardinality(Active) + capacity[p] <= MaxActive
  BY <1>1, DueItems, FS_Subset, FS_CardinalityType, ConstantsAssumption DEF Active, CapInv, RoomKept
<1>6. RoomKept'
  <2>1. CASE FlushCount(p)
    <3>1. ActiveScanItems = Active
      <4>1. jobState = "none" => Active = {} BY DEF CapInv, WholeBatch, Active
      <4>2. jobState \in TerminalStates => Active = {}
        BY DEF CapInv, JobEnds, Active, TerminalStates
      <4> QED BY <1>0, <4>1, <4>2 DEF ActiveScanItems, Active
    <3>2. Cardinality(Active) + capacity'[p] <= MaxActive
      BY <1>0, <1>5, <2>1, <3>1, ConstantsAssumption DEF FlushCount
    <3>3. Due(p)' \subseteq Due(p) BY <1>0, <2>1 DEF FlushCount, Due
    <3>4. /\ Cardinality(Active \cup Due(p)') <= Cardinality(Active \cup Due(p))
          /\ Cardinality(Active \cup Due(p)') \in Nat /\ Cardinality(Active \cup Due(p)) \in Nat
      <4>1. Active \cup Due(p) \subseteq Items
            /\ Active \cup Due(p)' \subseteq Active \cup Due(p)
        BY <1>5, <3>3
      <4> QED BY <4>1, SmallerRoom
    <3>5. Cardinality(Active \cup Due(p)) <= MaxActive BY DEF CapInv, RoomKept
    <3>6. Cardinality(Active \cup Due(p)') <= MaxActive BY <3>4, <3>5, ConstantsAssumption
    <3> QED BY <1>0, <1>5, <3>2, <3>6 DEF RoomKept
  <2>2. CASE FlushList(p)
    <3>1. PICK R \in SUBSET Pending : /\ Cardinality(R) <= capacity[p]
                                      /\ todo' = [todo EXCEPT ![p] = R]
      BY <2>2 DEF FlushList
    <3>2. pc'[p] \in {"idle", "flush"} /\ pc[p] = "list" BY <1>0, <2>2 DEF FlushList
    <3> DEFINE D == {r[1] : r \in R}
               G == [i \in D |-> CHOOSE r \in R : r[1] = i]
    <3>3. Due(p)' = D BY <1>0, <3>1, <3>2 DEF Due
    <3>4. D \subseteq Items /\ IsFiniteSet(D)
      <4>1. D \subseteq Items BY DEF Pending, Records
      <4> QED BY <4>1, FS_Subset, ConstantsAssumption
    <3>5. IsFiniteSet(R)
      <4>1. IsFiniteSet(1 .. MaxRecords) BY FS_Interval, ConstantsAssumption
      <4>2. IsFiniteSet(Records) BY <4>1, FS_Product, ConstantsAssumption DEF Records
      <4> QED BY <4>2, FS_Subset DEF Pending
    <3>6. Cardinality(D) <= Cardinality(R) /\ Cardinality(R) \in Nat /\ Cardinality(D) \in Nat
      <4>1. \A i \in D : G[i] \in R /\ G[i][1] = i OBVIOUS
      <4>2. G \in [D -> R] BY <4>1
      <4>3. \A i, j \in D : G[i] = G[j] => i = j BY <4>1
      <4>4. G \in Injection(D, R)
        BY <4>2, <4>3 DEF Injection, IsInjective
      <4> QED BY <3>4, <3>5, <4>4, FS_Injection, FS_CardinalityType
    <3>7. IsFiniteSet(Active \cup D) /\ Cardinality(Active \cap D) \in Nat
          /\ Cardinality(Active \cup D) = Cardinality(Active) + Cardinality(D) - Cardinality(Active \cap D)
      BY <1>5, <3>4, FS_Union, FS_Intersection, FS_CardinalityType
    <3>8. Cardinality(Active \cup D) \in Nat BY <3>7, FS_CardinalityType
    <3> HIDE DEF D
    <3>9. Cardinality(Active \cup D) <= MaxActive
      BY <1>0, <1>5, <3>1, <3>2, <3>6, <3>7, <3>8, ConstantsAssumption
    <3> QED BY <1>0, <1>5, <3>2, <3>3, <3>9 DEF RoomKept
  <2>3. ASSUME NEW r \in Records, FlushNext(p, r) PROVE RoomKept'
    <3>1. /\ todo'[p] = todo[p] \ {r} /\ r \in todo[p] /\ rec'[p] = r /\ pc'[p] = "claim"
      BY <1>0, <2>3 DEF FlushNext
    <3>2. Due(p)' \subseteq Due(p) BY <3>1 DEF Due
    <3> QED BY <1>1, <3>1, <3>2, RelayKeeps
  <2>4. CASE FlushEnd(p)
    <3>1. todo' = todo /\ pc'[p] \in {"refresh", "idle"} BY <1>0, <2>4 DEF FlushEnd, CallRefresh
    <3>2. Due(p)' \subseteq Due(p) BY <3>1 DEF Due
    <3> QED BY <1>1, <3>1, <3>2, RelayKeeps
  <2> QED BY <2>1, <2>2, <2>3, <2>4
<1> QED BY <1>3, <1>4, <1>6 DEF CapInv

\* _publish_outbox_record queues an item that the flush had room for.
LEMMA CapPublish ==
  ASSUME OneSureRelay, TypeInv, TypeInv', CapInv, NEW p \in Relays, Publish(p)
  PROVE  CapInv'
<1> DEFINE i == rec[p][1]
<1>0. /\ p \in Procs /\ p \in Publishers /\ p \notin Workers \cup {"api", "operator", "client"}
      /\ \A q \in Relays : q = p
      /\ pc \in [Procs -> Labels] /\ rec[p] \in Records /\ i \in Items
      /\ rec[p] = <<i, rec[p][2]>>
      /\ outbox \in [Records -> {"none", "pending", "publishing", "published"}]
      /\ ~Coarse
  BY Domains, ConstantsAssumption
  DEF OneSureRelay, TypeInv, TypeOK, ControlType, PublisherType, LedgerType, Records
<1>1. Claim(p) \/ LoadItem(p) \/ SkipRecord(p) \/ SetQueued(p) \/ Send(p) \/ MarkPublished(p)
  BY DEF Publish, MarkFailed, SetPublishPending, CapInv, RelayOrder
<1>2. /\ UNCHANGED <<stage, jobState, workerVars, verdict, rec, todo>>
      /\ \A q \in Procs : q # p => pc'[q] = pc[q]
      /\ pc[p] \in Unsent \cup {"claim", "send", "sent"}
      /\ pc'[p] \in Unsent \cup {"send", "sent", "flush", "refresh"}
  BY <1>0, <1>1 DEF Claim, LoadItem, SkipRecord, SetQueued, Send, MarkPublished, CallRefresh,
                    PublishReturn, Unsent
<1>3. pc[p] # "claim" => outbox[rec[p]] = "publishing"
  BY <1>2 DEF CapInv, RelayOrder
<1>4. outbox[rec[p]] # "none" => rec[p] = <<i, 1>>
  BY <1>0 DEF CapInv, WholeBatch
<1>5. CASE Claim(p)
  <2>1. /\ UNCHANGED <<item, queue>> /\ pc[p] = "claim"
        /\ \/ /\ outbox[rec[p]] = "pending" /\ outbox' = [outbox EXCEPT ![rec[p]] = "publishing"]
              /\ pc'[p] = "load"
           \/ outbox' = outbox /\ pc'[p] = "flush"
    BY <1>0, <1>5 DEF Claim, claim_outbox_record, PublishReturn
  <2>2. \A j \in Items : Fresh(j)' => Fresh(j)
    BY <1>0, <1>2, <2>1, Domains DEF Fresh, Unsent
  <2>3. \A r \in Records : outbox'[r] = "none" <=> outbox[r] = "none" BY <1>0, <2>1
  <2>4. Due(p)' \subseteq Due(p) /\ pc'[p] # "list" BY <1>2, <2>1 DEF Due
  <2>5. WholeBatch' /\ Underway' /\ JobEnds' /\ RoomKept'
    BY <1>2, <2>1, <2>2, <2>3, <2>4, RelayKeeps
  <2>6. RelayOrder' BY <1>0, <1>2, <2>1 DEF RelayOrder, Booting, Unsent
  <2> QED BY <2>5, <2>6 DEF CapInv
<1>6. CASE LoadItem(p)
  <2>1. /\ UNCHANGED <<item, queue, outbox>> /\ pc[p] = "load" /\ pc'[p] \in {"skip", "set_queued"}
    BY <1>0, <1>6 DEF LoadItem
  <2>2. \A j \in Items : Fresh(j)' => Fresh(j)
    BY <1>0, <1>2, <2>1 DEF Fresh, Unsent
  <2>3. Due(p)' \subseteq Due(p) /\ pc'[p] # "list" BY <1>2, <2>1 DEF Due
  <2>4. WholeBatch' /\ Underway' /\ JobEnds' /\ RoomKept'
    BY <1>2, <2>1, <2>2, <2>3, RelayKeeps
  <2>5. RelayOrder' BY <1>0, <1>2, <1>3, <2>1 DEF RelayOrder, Booting, Unsent
  <2> QED BY <2>4, <2>5 DEF CapInv
<1>7. CASE SkipRecord(p) \/ MarkPublished(p)
  <2>1. /\ UNCHANGED <<item, queue>> /\ pc[p] \in {"skip", "sent"} /\ pc'[p] \in {"flush", "refresh"}
        /\ outbox' = [outbox EXCEPT ![rec[p]] = "published"]
    BY <1>0, <1>7 DEF SkipRecord, MarkPublished, mark_outbox_published, CallRefresh, PublishReturn
  <2>2. \A j \in Items : Fresh(j)' => Fresh(j)
    BY <1>0, <1>2, <2>1, Domains DEF Fresh, Unsent
  <2>3. \A r \in Records : outbox'[r] = "none" <=> outbox[r] = "none" BY <1>0, <1>3, <2>1
  <2>4. Due(p)' \subseteq Due(p) /\ pc'[p] # "list" BY <1>2, <2>1 DEF Due
  <2>5. WholeBatch' /\ Underway' /\ JobEnds' /\ RoomKept'
    BY <1>2, <2>1, <2>2, <2>3, <2>4, RelayKeeps
  <2>6. RelayOrder' BY <1>0, <1>2, <2>1 DEF RelayOrder, Booting, Unsent
  <2> QED BY <2>5, <2>6 DEF CapInv
<1>8. CASE Send(p)
  <2>1. /\ UNCHANGED <<item, outbox>> /\ pc[p] = "send" /\ pc'[p] = "sent"
        /\ queue' = [queue EXCEPT ![<<i, 0>>] = @ + 1]
    BY <1>0, <1>8 DEF Send, BusAccepts, Enqueue
  <2>2. \A j \in Items : Fresh(j)' => Fresh(j)
    BY <1>0, <1>2, <2>1 DEF Fresh, Unsent
  <2>3. Due(p)' \subseteq Due(p) /\ pc'[p] # "list" BY <1>2, <2>1 DEF Due
  <2>4. WholeBatch' /\ RoomKept' BY <1>2, <2>1, <2>2, <2>3, RelayKeeps
  <2>5. Out(i) BY <2>1 DEF CapInv, RelayOrder
  <2>6. RelayOrder' BY <1>0, <1>2, <1>3, <2>1, <2>5 DEF RelayOrder, Booting, Unsent, Out
  <2>7. \A w \in Workers : pc'[w] = pc[w] BY <1>0, <1>2, Domains
  <2>8. Underway'
    <3>1. \A m \in Messages : queue'[m] > 0 => m[1] = i \/ queue[m] > 0
      BY <2>1 DEF TypeInv, TypeOK, BrokerType
    <3> QED BY <1>2, <2>1, <2>5, <2>7, <3>1 DEF CapInv, Underway, Out
  <2>9. JobEnds' BY <1>2, <2>1 DEF CapInv, JobEnds
  <2> QED BY <2>4, <2>6, <2>8, <2>9 DEF CapInv
<1>9. CASE SetQueued(p)
  <2>1. /\ UNCHANGED <<queue, outbox>> /\ pc[p] = "set_queued" /\ pc'[p] = "send"
        /\ item' = [item EXCEPT ![i] = "queued"]
    BY <1>0, <1>9 DEF SetQueued, update_job_item_state
  <2>2. rec[p] = <<i, 1>> /\ outbox[<<i, 1>>] = "publishing" /\ Fresh(i)
    BY <1>3, <1>4, <2>1 DEF Fresh, Unsent
  <2>3. item[i] = "publish_pending"
    BY <1>0, <2>2 DEF CapInv, WholeBatch
  <2>4. /\ item'[i] = "queued" /\ \A j \in Items : j # i => item'[j] = item[j]
        /\ \A j \in Items : Out(j) => Out(j)'
    BY <1>0, <2>1 DEF Out, TypeInv, TypeOK, LedgerType
  <2>5. \A q \in Workers \cup {"api", "operator", "client"} : pc'[q] = pc[q]
    BY <1>0, <1>2, Domains
  <2>6. WholeBatch'
    <3>1. ~Fresh(i)' BY <1>0, <1>2, <2>1, <2>2 DEF Fresh, Unsent
    <3>2. \A j \in Items : Fresh(j)' => Fresh(j) BY <1>0, <1>2, <2>1 DEF Fresh, Unsent
    <3> QED BY <1>0, <1>2, <2>1, <2>3, <2>4, <2>5, <3>1, <3>2 DEF CapInv, WholeBatch
  <2>7. RelayOrder' BY <1>0, <1>2, <1>3, <2>1, <2>4 DEF RelayOrder, Booting, Unsent, Out
  <2>8. Underway'
    <3>1. \A m \in Messages : m[1] \in Items BY DEF Messages
    <3>2. \A w \in Workers : msg[w][1] \in Items BY <3>1 DEF TypeInv, TypeOK, WorkerType
    <3>3. \A j \in Items : item'[j] \in TerminalStates => stage[j]["scan"] \in TerminalStageStates
      BY <2>4 DEF CapInv, Underway, TerminalStates
    <3>4. \A m \in Messages : queue[m] > 0 => Out(m[1])' BY <2>4, <3>1 DEF CapInv, Underway
    <3>5. \A w \in Workers : pc[w] # "idle" => Out(msg[w][1])' BY <1>2, <2>4, <3>2 DEF CapInv, Underway
    <3> QED BY <1>2, <2>1, <2>5, <3>3, <3>4, <3>5 DEF Underway, Out
  <2>9. JobEnds' BY <1>0, <1>2, <2>3 DEF CapInv, JobEnds, TerminalStates
  <2>10. RoomKept'
    <3>1. Active' = Active \cup {i} BY <1>0, <2>4 DEF Active
    <3>2. Due(p)' \cup {i} = Due(p) BY <1>2, <2>1 DEF Due
    <3>3. Active' \cup Due(p)' = Active \cup Due(p) /\ Active' \subseteq Active \cup Due(p)
          /\ Active \cup Due(p) \subseteq Items
      BY <3>1, <3>2, DueItems
    <3>4. Cardinality(Active') <= Cardinality(Active \cup Due(p)) /\ Cardinality(Active') \in Nat
          /\ Cardinality(Active \cup Due(p)) \in Nat
      BY <3>3, SmallerRoom
    <3>5. Cardinality(Active \cup Due(p)) <= MaxActive BY DEF CapInv, RoomKept
    <3>6. Cardinality(Active') <= MaxActive BY <3>4, <3>5, ConstantsAssumption
    <3> QED BY <1>0, <2>1, <3>3, <3>5, <3>6 DEF RoomKept
  <2> QED BY <2>6, <2>7, <2>8, <2>9, <2>10 DEF CapInv
<1> QED BY <1>1, <1>5, <1>6, <1>7, <1>8, <1>9

\* Every step keeps the cap and what it rests on.
LEMMA CapStep ==
  ASSUME OneSureRelay, ClaimInv, ClaimInv', CapInv, [Next]_vars
  PROVE  CapInv'
<1>0. /\ TypeInv /\ TypeInv' /\ NothingBeforeBatch BY DEF ClaimInv, ClaimSupport
<1>1. CASE UNCHANGED vars
  <2>1. UNCHANGED <<item, stage, outbox, queue, jobState, verdict, pc, msg, rec, todo, capacity, left,
                    covered>>
    BY <1>1 DEF vars
  <2>2. WholeBatch' BY <2>1 DEF CapInv, WholeBatch, Fresh
  <2>3. RelayOrder' BY <2>1 DEF CapInv, RelayOrder, Out
  <2>4. Underway' BY <2>1 DEF CapInv, Underway, Out
  <2>5. JobEnds' BY <2>1 DEF CapInv, JobEnds
  <2>6. RoomKept' BY <2>1 DEF CapInv, RoomKept, Active, Due
  <2> QED BY <2>2, <2>3, <2>4, <2>5, <2>6 DEF CapInv
<1>2. ASSUME NEW p \in Procs, Step(p) PROVE CapInv'
  <2>1. CASE Refresh(p) BY <1>0, <2>1, CapRefresh
  <2>2. CASE p = "api" /\ (Publish(p) \/ CreateOutbox(p) \/ Submit) BY <1>0, <2>2, CapSubmit
  <2>3. CASE p \in Relays /\ Publish(p) BY <1>0, <2>3, CapPublish
  <2>4. CASE p \in Relays /\ (CreateOutbox(p) \/ Relay(p))
    <3>1. pc[p] \notin {"create_outbox", "bulk_claim", "bulk_send", "bulk_unsent"}
      BY <2>4 DEF CapInv, RelayOrder
    <3> QED
      BY <1>0, <2>4, <3>1, CapReplay, CapFlush
      DEF CreateOutbox, Relay, BulkSend, BulkClaim, BulkMarkFailed, BulkMark
  <2>5. CASE p \in Workers /\ Worker(p) BY <1>0, <2>5, CapWorker
  <2>6. CASE p = "operator" /\ CancelItems BY <2>6 DEF CapInv, WholeBatch, CancelItems
  <2>7. CASE p = "client" /\ (PollReadJob \/ PollSummarize) BY <1>0, <2>7, CapClient
  <2> QED BY <1>2, <2>1, <2>2, <2>3, <2>4, <2>5, <2>6, <2>7 DEF Step, Publishers
<1>3. ASSUME Disturb PROVE CapInv'
  <2>1. ~Fail("bus") /\ ~Fail("relay")
    BY <1>0, ConstantsAssumption DEF Fail, OneSureRelay, FailureBound, TypeInv, TypeOK, BrokerType, Failures
  <2>2. \E w \in Workers : WorkerCrash(w) \/ ReaderUnavailable(w) \/ ScanFails(w)
    BY <1>3, <2>1 DEF Disturb, CancelJob, SendFails, RelayCrash, BulkSendFails, OneSureRelay
  <2> QED BY <1>0, <2>2, CapWorker
<1> QED BY <1>1, <1>2, <1>3 DEF Next

\* The relay's back-pressure (active_scan_item_count and the publish limit of
\* flush_outbox): one relay whose publishes succeed and nobody who cancels never have
\* more items queued, scanning or scanned than the cap, for any number of items and
\* workers, any batch size and any cap, through failed scans, retries, worker crashes
\* and refreshes of the parent.
THEOREM CapKept == ASSUME OneSureRelay PROVE Spec => []ActiveWithinCap
<1>1. Init => ClaimInv /\ CapInv BY ClaimInit, CapInit
<1>2. ClaimInv /\ CapInv /\ [Next]_vars => (ClaimInv /\ CapInv)' BY ClaimStep, CapStep
<1>3. CapInv => ActiveWithinCap BY DEF CapInv, RoomKept, Active, ActiveWithinCap
<1> QED BY <1>1, <1>2, <1>3, PTL DEF Spec
=============================================================================
