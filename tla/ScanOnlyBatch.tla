--------------------------- MODULE ScanOnlyBatch ----------------------------
(***************************************************************************)
(* A scan-only batch job from submission to its terminal state: the API    *)
(* submitter, the relays, the scan workers, the operator who cancels and a *)
(* client that polls progress, all on one ledger and one broker.           *)
(***************************************************************************)
EXTENDS OutboxRelay, ScanWorker

\* What a live process does of its own accord.
Step(p) ==
    \/ Refresh(p)
    \/ p \in Publishers /\ (Publish(p) \/ CreateOutbox(p))
    \/ p = "api" /\ Submit
    \/ p \in Relays /\ Relay(p)
    \/ p \in Workers /\ Worker(p)
    \/ p = "operator" /\ CancelItems
    \/ p = "client" /\ (PollReadJob \/ PollSummarize)

\* What the environment may do to it.
Disturb ==
    \/ CancelJob
    \/ \E p \in Publishers : SendFails(p)
    \/ \E p \in Relays : RelayCrash(p) \/ \E r \in Records : BulkSendFails(p, r)
    \/ \E w \in Workers : WorkerCrash(w) \/ ReaderUnavailable(w) \/ ScanFails(w)

Next == (\E p \in Procs : Step(p)) \/ Disturb

Spec == Init /\ [][Next]_vars

\* Every process that is alive keeps running; failures are never owed.
FairSpec == Spec /\ \A p \in Procs : WF_vars(Step(p))
-----------------------------------------------------------------------------
(***************************************************************************)
(* Properties.                                                             *)
(***************************************************************************)
Labels ==
    {"idle", "submit", "bulk_create", "submitted", "next", "create_outbox", "done",
     "claim", "load", "skip", "set_queued", "send", "sent", "unsent",
     "set_publish_pending", "refresh", "refresh_summarize", "refresh_write",
     "boot", "replay_items", "replay_outbox", "replay", "list", "flush",
     "bulk_claim", "bulk_send", "bulk_unsent",
     "check_item", "check_job", "run_read", "run_write", "lease", "scan",
     "recheck_item", "recheck_job", "complete", "fail_read", "fail_write",
     "exhausted_read", "exhausted_write", "dead_letter",
     "release", "release_retry", "retry", "ack", "cancel_items", "poll"}

\* Where a caller of _refresh_parent_job_state goes on.
ReturnLabels == {"idle", "next", "flush", "lease", "release", "dead_letter"}

LedgerType ==
    /\ jobState \in JobStates \cup {"none"}
    /\ item \in [Items -> ItemStates \cup {"none"}]
    /\ stage \in [Items -> [StageNames -> StageStates]]
    /\ outbox \in [Records -> {"none", "pending", "publishing", "published"}]
    /\ lease \in SUBSET Items

BrokerType ==
    /\ queue \in [Messages -> Nat]
    /\ dlq \in SUBSET Items
    /\ delivered \in SUBSET Records
    /\ failures \in [Failures -> Nat]

ControlType ==
    /\ pc \in [Procs -> Labels]
    /\ ret \in [Procs -> ReturnLabels]
    /\ verdict \in [Procs -> JobStates \cup {"keep"}]

PublisherType ==
    /\ rec \in [Publishers -> Records]
    /\ outcome \in [Publishers -> SUBSET {"published", "failed"}]
    /\ todo \in [Relays -> SUBSET Records]
    /\ sent \in [Relays -> SUBSET Records]
    /\ capacity \in [Relays -> Nat]
    /\ left \in [Relays -> SUBSET Items]
    /\ covered \in [Relays -> SUBSET Items]

RowType == [state : ItemStates \cup {"none"}, stages : [StageNames -> StageStates]]

WorkerType ==
    /\ msg \in [Workers -> Messages]
    /\ snap \in [Workers -> RowType]
    /\ cancelSeen \in SUBSET Workers

\* The shape of the rows, the queues and the locals of the processes.
TypeOK == LedgerType /\ BrokerType /\ ControlType /\ PublisherType /\ WorkerType

\* A refresh that is about to write has decided on a job state: what makes the
\* type of jobState inductive.
VerdictReady == \A p \in Procs : pc[p] = "refresh_write" => verdict[p] # "keep"

\* The records a publisher has claimed and not yet given back.
Holding(p) ==
    CASE pc[p] \in {"load", "skip", "set_queued", "send", "sent", "unsent"} -> {rec[p]}
      [] pc[p] = "bulk_send"   -> todo[p] \cup sent[p]
      [] pc[p] = "bulk_unsent" -> todo[p] \cup sent[p] \cup {rec[p]}
      [] OTHER -> {}

\* Publish ownership is exclusive: between claim_outbox_record and the mark that
\* ends the publish, the record is "publishing" and no other process, inline
\* publisher or relay, works on it.
ExclusiveClaim ==
    \A p \in Publishers :
        /\ \A r \in Holding(p) : outbox[r] = "publishing"
        /\ \A q \in Publishers \ {p} : Holding(p) \cap Holding(q) = {}

\* What has become of the intent to publish behind each record.
Intent ==
    [r \in Records |->
       CASE outbox[r] = "none"      -> "none"
         [] outbox[r] = "published" -> "closed"
         [] OTHER -> IF \E p \in Publishers : pc[p] = "skip" /\ rec[p] = r
                     THEN "withdrawn" ELSE "open"]

OC == INSTANCE OutboxContract WITH
        intent <- Intent, ended <- {i \in Items : item[i] \in TerminalStates}

\* The outbox is the producer's durability boundary: a record is marked published
\* only when the broker has its message, or when a publisher that owned it found
\* its item already ended and withdrew it.
ImplementsContract == OC!Spec

\* Why ExclusiveClaim is inductive: `sent' is used by a bulk flush only and kept
\* apart from what is left to publish; the submitter runs no bulk flush; and
\* nothing is in flight before the rows of the batch exist.
BulkLocals ==
    \A p \in Relays :
        /\ pc[p] \notin {"bulk_send", "bulk_unsent"} => sent[p] = {}
        /\ pc[p] \in {"bulk_send", "bulk_unsent"} => todo[p] \cap sent[p] = {}
        /\ pc[p] = "bulk_unsent" => rec[p] \notin todo[p] \cup sent[p]

SubmitterIsInline == pc["api"] \notin {"bulk_send", "bulk_unsent"}

NothingBeforeBatch ==
    pc["api"] \in {"submit", "bulk_create"} =>
        /\ \A r \in Records : outbox[r] = "none"
        /\ \A i \in Items : item[i] = "none"
        /\ \A m \in Messages : queue[m] = 0
        /\ \A w \in Workers : pc[w] = "idle"
        /\ \A p \in Relays :
             /\ pc[p] \in {"boot", "idle", "replay_items", "replay_outbox", "replay"}
             /\ left[p] = {}

ClaimSupport == BulkLocals /\ SubmitterIsInline /\ NothingBeforeBatch

\* The relay's back-pressure: with --max-active-scan-items the items that are
\* queued, scanning or scanned never exceed the cap.
ActiveWithinCap ==
    Cardinality({i \in Items : item[i] \in {"queued", "scanning", "scanned"}}) <= MaxActive

\* A late or redelivered scan message never reopens a scan that has ended.
ScanStageStaysEnded ==
    [][\A i \in Items : stage[i]["scan"] \in TerminalStageStates
                          => stage'[i]["scan"] \in TerminalStageStates]_vars

\* The runtime leases that progress reports belong to messages a worker holds, as long as no
\* worker has died with one.
LeaseHasWorker ==
    failures["worker"] = 0 =>
        \A i \in lease : \E w \in Workers : pc[w] # "idle" /\ msg[w][1] = i

\* The outbox is durable: an intent to publish that was committed is published in the
\* end, whatever becomes of the process that had claimed it.
IntentsPublished ==
    \A r \in Records : outbox[r] # "none" ~> outbox[r] = "published"

\* Every accepted item has reached a terminal state, and the parent job the state that its
\* items call for.
Settled ==
    /\ \A i \in Items : item[i] \in TerminalStates
    /\ jobState = ParentState(item, Items)
=============================================================================
