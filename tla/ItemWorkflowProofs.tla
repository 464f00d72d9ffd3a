-------------------------- MODULE ItemWorkflowProofs --------------------------
(***************************************************************************)
(* Proofs about one job item of dsx_connect_ng, for every plan, retry      *)
(* limit and number of failures: the types, the ownership of its outbox    *)
(* records, the stages that stay ended, the requests between them, and     *)
(* what the policy engine's decisions lead to.                             *)
(***************************************************************************)
EXTENDS ItemWorkflow, TLAPS

\* Where a call of _update_job_item_stage or create_outbox_record goes on.
Returns == {"idle", "execute", "request_policy", "ack", "followon", "fast_write",
            "dianna_done", "remediation_done", "aux_done", "summary"}

\* The updates a worker calls for; it never asks for "pending" or "failed".
Updates == StageNames \X {"running", "completed", "skipped"}

RowInType == item \in ItemStates /\ stage \in [StageNames -> StageStates] /\ wait \in BOOLEAN

OutboxType == outbox \in [Records -> {"none", "pending", "publishing", "published"}]

BrokerType == queue \in [Messages -> Nat] /\ dlq \subseteq Messages

ControlType == pc \in [Procs -> Labels] /\ ret \in [Procs -> Returns]

LocalType ==
    /\ rec \in [Procs -> Records]
    /\ update \in [Procs -> Updates]
    /\ snap \in [Procs -> RowType]
    /\ msg \in [Procs -> Messages]

\* A message is tried again only while its retries last.
RetryBound == \A w \in Workers : pc[w] = "retry" => msg[w][2] < MaxRetry

\* TypeOK with what makes it inductive.
TypeInv ==
    /\ plan \in Plans
    /\ RowInType /\ OutboxType /\ BrokerType /\ ControlType /\ LocalType /\ RetryBound
    /\ failures \in [Failures -> Nat]

LEMMA TypeInvIsTypeOK == TypeInv => TypeOK
  BY DEF TypeInv, TypeOK, RowInType, OutboxType, BrokerType, ControlType, LocalType, Row,
         RowType, Returns, Labels, Updates, StageStates

USE WorkflowAssumption DEF row, locals, Goto, Continue

LEMMA Members ==
    /\ Procs = {"scan", "policy", "remediation", "dianna", "sink", "relay"}
    /\ Workers \subseteq Procs
    /\ \A w \in Workers : StageOf(w) \in StageNames
    /\ \A k \in Kinds : ErrorStageOf(k) \in StageNames
    /\ \A k \in Kinds, n \in 1 .. MaxRecords : <<k, n>> \in Records
    /\ \A k \in Kinds : <<k, 0>> \in Messages /\ <<k, 1>> \in Records
    /\ \A r \in Records : r[1] \in Kinds /\ r[2] \in 1 .. MaxRecords
    /\ NoRow \in RowType /\ NoUpdate \in Updates /\ NoRecord \in Records
    /\ NoMessage \in Messages
  BY DEF Procs, Workers, StageOf, StageNames, ErrorStageOf, Kinds, Records, Messages, NoRow,
         RowType, ItemStates, NoStages, StageStates, NoUpdate, Updates, NoRecord, NoMessage

LEMMA TypeInit == Init => TypeInv
<1> SUFFICES ASSUME Init PROVE TypeInv OBVIOUS
<1>1. RowInType BY DEF Init, RowInType, ItemStates, NoStages, StageStates
<1>2. OutboxType /\ BrokerType BY DEF Init, OutboxType, BrokerType
<1>3. ControlType /\ LocalType /\ RetryBound
  BY Members DEF Init, ControlType, LocalType, RetryBound, Labels, Returns
<1> QED BY <1>1, <1>2, <1>3 DEF Init, TypeInv

\* _derive_item_state_from_stages returns an item state.
LEMMA DerivedState ==
  ASSUME NEW x \in ItemStates, NEW s, NEW n
  PROVE  DeriveItemState(x, s, n) \in ItemStates
  BY DEF DeriveItemState, ItemStates

\* What a step of the stage update or of the outbox calls leaves typed.
LEMMA TypeUpdate ==
  ASSUME TypeInv, NEW p \in Procs, UpdateStage(p)
  PROVE  TypeInv'
<1> USE Members DEF TypeInv
<1>1. CASE ReadForUpdate(p)
  <2>1. Row \in RowType BY DEF Row, RowType, RowInType
  <2>2. ControlType' BY <1>1 DEF ReadForUpdate, Return, ControlType, Returns, Labels
  <2>3. LocalType' BY <1>1, <2>1 DEF ReadForUpdate, LocalType
  <2>4. RetryBound' BY <1>1 DEF ReadForUpdate, Return, ControlType, Returns, RetryBound
  <2> QED BY <1>1, <2>2, <2>3, <2>4 DEF ReadForUpdate, RowInType, OutboxType, BrokerType
<1>2. CASE WriteStage(p)
  <2>1. /\ update[p][1] \in StageNames /\ update[p][2] \in StageStates
        /\ snap[p].item \in ItemStates
    BY DEF LocalType, Updates, StageStates, RowType
  <2>2. item' \in ItemStates /\ stage' \in [StageNames -> StageStates]
    BY <1>2, <2>1, DerivedState DEF WriteStage, update_job_item_stage, RowInType
  <2>3. ControlType' BY <1>2 DEF WriteStage, Return, ControlType, Returns, Labels
  <2>4. LocalType' BY <1>2 DEF WriteStage, LocalType
  <2>5. RetryBound' BY <1>2 DEF WriteStage, Return, ControlType, Returns, RetryBound
  <2> QED BY <1>2, <2>2, <2>3, <2>4, <2>5 DEF WriteStage, RowInType, OutboxType, BrokerType
<1> QED BY <1>1, <1>2 DEF UpdateStage

LEMMA TypePublish ==
  ASSUME TypeInv, NEW p \in Procs, Publish(p) \/ SendFails(p)
  PROVE  TypeInv'
<1> USE Members DEF TypeInv, ControlType, LocalType
<1>1. rec[p] \in Records /\ <<rec[p][1], 0>> \in Messages /\ Row \in RowType
  BY DEF Row, RowType, RowInType
<1>2. CASE CreateOutbox(p)
  <2>1. PICK n \in 1 .. MaxRecords :
             outbox' = [outbox EXCEPT ![<<rec[p][1], n>>] = "pending"]
          /\ rec' = [rec EXCEPT ![p] = <<rec[p][1], n>>]
    BY <1>2 DEF CreateOutbox
  <2>2. <<rec[p][1], n>> \in Records BY <1>1
  <2> QED BY <1>2, <2>1, <2>2 DEF CreateOutbox, RowInType, OutboxType, BrokerType, RetryBound,
             Labels
<1>3. CASE Claim(p)
  <2>1. OutboxType' BY <1>3 DEF Claim, OutboxType
  <2>2. ControlType' /\ RetryBound'
    BY <1>3 DEF Claim, Return, Labels, Returns, RetryBound
  <2>3. LocalType' BY <1>3 DEF Claim
  <2> QED BY <1>3, <2>1, <2>2, <2>3 DEF Claim, RowInType, BrokerType
<1>4. CASE Send(p)
  BY <1>4, <1>1 DEF Send, Enqueue, RowInType, OutboxType, BrokerType, RetryBound, Labels
<1>5. CASE SendFails(p)
  <2>1. BrokerType'
    <3>1. dlq' = dlq BY <1>5 DEF SendFails
    <3>2. queue \in [Messages -> Nat] BY DEF BrokerType
    <3>3. CASE Enqueue(<<rec[p][1], 0>>)
      BY <1>1, <3>1, <3>2, <3>3 DEF Enqueue, BrokerType
    <3>4. CASE UNCHANGED queue
      BY <3>1, <3>4 DEF BrokerType
    <3> QED BY <1>5, <3>3, <3>4 DEF SendFails
  <2>2. failures' \in [Failures -> Nat] BY <1>5 DEF SendFails, Fail, Failures
  <2> QED BY <1>5, <2>1, <2>2 DEF SendFails, RowInType, OutboxType, RetryBound, Labels
<1>6. CASE MarkPublished(p)
  BY <1>6 DEF MarkPublished, Return, RowInType, OutboxType, BrokerType, RetryBound, Labels, Returns
<1>7. CASE MarkFailed(p)
  <2>1. OutboxType' BY <1>7 DEF MarkFailed, OutboxType
  <2>2. ControlType' /\ RetryBound'
    BY <1>7 DEF MarkFailed, Return, Labels, Returns, RetryBound
  <2>3. LocalType' BY <1>7 DEF MarkFailed
  <2> QED BY <1>7, <2>1, <2>2, <2>3 DEF MarkFailed, RowInType, BrokerType
<1>8. CASE SetItemState(p)
  BY <1>8 DEF SetItemState, Return, RowInType, ItemStates, OutboxType, BrokerType, RetryBound,
     Labels, Returns
<1>9. CASE ReadForError(p)
  BY <1>9, <1>1 DEF ReadForError, RowInType, OutboxType, BrokerType, RetryBound, Labels
<1>10. CASE WriteError(p)
  <2>1. /\ ErrorStageOf(rec[p][1]) \in StageNames /\ snap[p].item \in ItemStates
        /\ snap[p].stage[ErrorStageOf(rec[p][1])] \in StageStates
    BY <1>1 DEF RowType
  <2>2. RowInType'
    BY <1>10, <2>1 DEF WriteError, update_job_item_stage, RowInType
  <2> QED BY <1>10, <2>2 DEF WriteError, Return, OutboxType, BrokerType, RetryBound, Labels, Returns
<1> QED BY <1>2, <1>3, <1>4, <1>5, <1>6, <1>7, <1>8, <1>9, <1>10 DEF Publish

\* What the follow-on decisions lead to: a stage is skipped, a request is made, the worker
\* goes on, or its handler raises.
Further(p) ==
    \/ \E n \in {"remediation", "delivery", "dianna"},
          l \in {"ack", "remediation_done", "dianna_done"} : CallUpdate(p, n, "skipped", l)
    \/ \E k \in {"aux", "remediation", "dianna"},
          l \in {"aux_done", "ack", "dianna_done"} : CallRequest(p, k, l)
    \/ \E l \in {"request_summary", "ack"} : Continue(p, l)
    \/ Raised(p) /\ UNCHANGED <<ret, rec, update>>

Onward(p) == Further(p) \/ Continue(p, "set_wait")

LEMMA DecisionsLead ==
  ASSUME NEW p, NEW x
  PROVE  /\ Summary(p, x) => Further(p)
         /\ \A due : ResultThenSummary(p, x, due) => Further(p)
         /\ AfterDianna(p, x) => Further(p)
         /\ AfterPolicy(p, x) => Further(p)
         /\ Continue(p, "ack") => Further(p)
<1>1. Summary(p, x) => Further(p) BY DEF Summary, Further
<1>2. \A due : ResultThenSummary(p, x, due) => Further(p)
  BY <1>1 DEF ResultThenSummary, Further
<1>3. AfterDianna(p, x) => Further(p) BY <1>2 DEF AfterDianna, Further
<1>4. AfterPolicy(p, x) => Further(p) BY <1>3 DEF AfterPolicy, Further
<1>5. Continue(p, "ack") => Further(p) BY DEF Further
<1> QED BY <1>1, <1>2, <1>3, <1>4, <1>5

LEMMA FollowOnLeads ==
  ASSUME NEW p, FollowOn(p)
  PROVE  /\ Onward(p)
         /\ pc[p] \in {"followon", "wait_set", "dianna_done", "remediation_done", "summary"}
         /\ UNCHANGED <<plan, row, outbox, queue, dlq, snap, msg, failures>>
<1>1. Onward(p) BY DecisionsLead DEF FollowOn, Onward
<1> QED BY <1>1 DEF FollowOn

\* The requirement to wait is set only if it is planned.
LEMMA FollowOnWaits == ASSUME NEW p, FollowOn(p), ~plan.wait PROVE Further(p)
  BY DecisionsLead DEF FollowOn

LEMMA TypeFollow ==
  ASSUME TypeInv, NEW w \in Workers, Follow(w)
  PROVE  TypeInv'
<1> USE Members DEF TypeInv, ControlType, LocalType
<1>1. CASE FollowOn(w)
  <2>1. Onward(w) /\ UNCHANGED <<plan, row, outbox, queue, dlq, snap, msg, failures>>
    BY <1>1, FollowOnLeads
  <2>2. pc' \in [Procs -> Labels] /\ RetryBound'
    BY <2>1 DEF Onward, Further, CallUpdate, CallRequest, Raised, Labels, RetryBound
  <2>3. ret' \in [Procs -> Returns]
    BY <2>1 DEF Onward, Further, CallUpdate, CallRequest, Raised, Returns
  <2>4. update' \in [Procs -> Updates]
    <3>1. ASSUME NEW n \in {"remediation", "delivery", "dianna"}, NEW l, CallUpdate(w, n, "skipped", l)
          PROVE  update' \in [Procs -> Updates]
      BY <3>1 DEF CallUpdate, Updates, StageNames
    <3>2. update' = update \/ \E n \in {"remediation", "delivery", "dianna"} : \E l :
                                 CallUpdate(w, n, "skipped", l)
      BY <2>1 DEF Onward, Further, CallRequest
    <3> QED BY <3>1, <3>2
  <2>5. \A k \in {"aux", "remediation", "dianna"} : <<k, 1>> \in Records
    BY DEF Kinds
  <2>6. rec' \in [Procs -> Records]
    <3>1. ASSUME NEW k \in {"aux", "remediation", "dianna"}, NEW l, CallRequest(w, k, l)
          PROVE  rec' \in [Procs -> Records]
      BY <2>5, <3>1 DEF CallRequest
    <3>2. (\E k \in {"aux", "remediation", "dianna"} : \E l : CallRequest(w, k, l)) \/ rec' = rec
      BY <2>1 DEF Onward, Further, CallUpdate
    <3> QED BY <3>1, <3>2
  <2> QED BY <2>1, <2>2, <2>3, <2>4, <2>6 DEF RowInType, OutboxType, BrokerType
<1>2. CASE SetWait(w)
  BY <1>2 DEF SetWait, RowInType, OutboxType, BrokerType, RetryBound, Labels
<1>3. CASE AuxDone(w)
  BY <1>3 DEF AuxDone, CallUpdate, RowInType, OutboxType, BrokerType, RetryBound, Labels, Returns,
     Updates, StageNames
<1>4. CASE RequestSummary(w)
  BY <1>4 DEF RequestSummary, CallRequest, RowInType, OutboxType, BrokerType, RetryBound, Labels,
     Returns, Kinds
<1>5. CASE SetDeliverPending(w)
  BY <1>5 DEF SetDeliverPending, CallRequest, RowInType, ItemStates, OutboxType, BrokerType,
     RetryBound, Labels, Returns, Kinds
<1> QED BY <1>1, <1>2, <1>3, <1>4, <1>5 DEF Follow

LEMMA TypeWorker ==
  ASSUME TypeInv, NEW w \in Workers,
         Worker(w) \/ ExecuteFails(w) \/ Crash(w) \/ RemediationRefused
  PROVE  TypeInv'
<1> USE Members DEF TypeInv, ControlType, LocalType
<1>1. ASSUME NEW m \in Messages, Deliver(w, m) PROVE TypeInv'
  <2>1. queue' \in [Messages -> Nat] BY <1>1 DEF Deliver, BrokerType
  <2>2. LocalType'
    BY <1>1 DEF Deliver, CallUpdate, Updates
  <2> QED BY <1>1, <2>1, <2>2 DEF Deliver, CallUpdate, RowInType, OutboxType, BrokerType, RetryBound,
             Labels, Returns
<1>2. CASE Execute(w)
  <2>1. ControlType' BY <1>2 DEF Execute, CallUpdate, CallRequest, Labels, Returns
  <2>2. LocalType' BY <1>2 DEF Execute, CallUpdate, CallRequest, Updates, Kinds
  <2>3. RetryBound' BY <1>2 DEF Execute, CallUpdate, CallRequest, RetryBound
  <2> QED BY <1>2, <2>1, <2>2, <2>3 DEF Execute, RowInType, OutboxType, BrokerType
<1>3. CASE FastWrite(w)
  BY <1>3 DEF FastWrite, RowInType, ItemStates, StageStates, OutboxType, BrokerType, RetryBound, Labels
<1>4. CASE RequestPolicy(w)
  BY <1>4 DEF RequestPolicy, CallRequest, RowInType, OutboxType, BrokerType, RetryBound, Labels,
     Returns, Kinds
<1>5. CASE Retry(w)
  <2>1. <<msg[w][1], msg[w][2] + 1>> \in Messages
    BY <1>5 DEF Retry, RetryBound, Messages
  <2> QED BY <1>5, <2>1 DEF Retry, Enqueue, RowInType, OutboxType, BrokerType, RetryBound, Labels
<1>6. CASE DeadLetter(w)
  BY <1>6 DEF DeadLetter, RowInType, OutboxType, BrokerType, RetryBound, Labels
<1>7. CASE Ack(w)
  BY <1>7 DEF Ack, RowInType, OutboxType, BrokerType, RetryBound, Labels
<1>8. CASE ExecuteFails(w)
  BY <1>8 DEF ExecuteFails, Raised, Fail, RowInType, OutboxType, BrokerType, RetryBound, Labels, Failures
<1>9. CASE Crash(w)
  BY <1>9 DEF Crash, Fail, Enqueue, RowInType, OutboxType, BrokerType, RetryBound, Labels, Returns, Failures
<1>10. CASE RemediationRefused
  BY <1>10 DEF RemediationRefused, Fail, RowInType, OutboxType, BrokerType, RetryBound, Labels, Failures
<1> QED BY <1>1, <1>2, <1>3, <1>4, <1>5, <1>6, <1>7, <1>8, <1>9, <1>10, TypeFollow DEF Worker

LEMMA TypeStep == TypeInv /\ [Next]_vars => TypeInv'
<1> SUFFICES ASSUME TypeInv, [Next]_vars PROVE TypeInv' OBVIOUS
<1>1. ASSUME NEW p \in Procs, Step(p) \/ SendFails(p) PROVE TypeInv'
  <2>1. ASSUME p = "relay", NEW r \in Records, RelayPick(r) PROVE TypeInv'
    BY <2>1, Members DEF RelayPick, TypeInv, RowInType, OutboxType, BrokerType, ControlType,
       LocalType, RetryBound, Labels, Workers
  <2> QED BY <1>1, <2>1, TypeUpdate, TypePublish, TypeWorker DEF Step
<1>2. CASE UNCHANGED vars
  BY <1>2 DEF vars, TypeInv, RowInType, OutboxType, BrokerType, ControlType, LocalType, RetryBound
<1>3. "remediation" \in Workers BY DEF Workers
<1> QED BY <1>1, <1>2, <1>3, TypeWorker DEF Next, Disturb

\* Every variable keeps the type TypeOK gives it.
THEOREM TypesKept == Spec => []TypeOK
<1>1. Spec => []TypeInv BY TypeInit, TypeStep, PTL DEF Spec
<1> QED BY <1>1, TypeInvIsTypeOK, PTL
-----------------------------------------------------------------------------
(***************************************************************************)
(* Publish ownership.                                                      *)
(***************************************************************************)
Holds(p) == pc[p] \in {"send", "sent", "unsent"}

\* A step of p takes only a record nobody has claimed, and changes only records p holds or
\* nobody has claimed.
KeepsToItsClaim(p) ==
    /\ \A q \in Procs \ {p} : pc'[q] = pc[q] /\ rec'[q] = rec[q]
    /\ Holds(p)' => /\ (Holds(p) /\ rec'[p] = rec[p]) \/ outbox[rec'[p]] # "publishing"
                    /\ outbox'[rec'[p]] = "publishing"
    /\ \A r \in Records : \/ outbox'[r] = outbox[r]
                          \/ outbox[r] # "publishing"
                          \/ Holds(p) /\ r = rec[p]

LEMMA ClaimExchange ==
  ASSUME TypeInv, ExclusiveClaim, NEW p \in Procs, KeepsToItsClaim(p)
  PROVE  ExclusiveClaim'
<1> USE DEF KeepsToItsClaim, ExclusiveClaim, Holds
<1>1. \A q \in Procs : rec[q] \in Records BY DEF TypeInv, LocalType
<1>2. \A q \in Procs \ {p} : Holds(q)' => outbox'[rec'[q]] = "publishing"
  BY <1>1
<1>3. \A q \in Procs \ {p} : Holds(q)' /\ Holds(p)' => rec'[q] # rec'[p]
  BY <1>1
<1>4. \A q, u \in Procs \ {p} : Holds(q)' /\ Holds(u)' /\ q # u => rec'[q] # rec'[u]
  OBVIOUS
<1> QED BY <1>2, <1>3, <1>4

\* A step of p that leaves the outbox alone and does not take p to a claim.
LEMMA ClaimFrame ==
  ASSUME TypeInv, ExclusiveClaim, NEW p \in Procs, outbox' = outbox,
         \A q \in Procs \ {p} : pc'[q] = pc[q] /\ rec'[q] = rec[q], ~Holds(p)'
  PROVE  ExclusiveClaim'
<1>1. KeepsToItsClaim(p) BY DEF KeepsToItsClaim
<1> QED BY <1>1, ClaimExchange

LEMMA ClaimPublish ==
  ASSUME TypeInv, ExclusiveClaim, NEW p \in Procs, Publish(p) \/ SendFails(p)
  PROVE  ExclusiveClaim'
<1> USE DEF TypeInv, ControlType, LocalType, OutboxType, Returns, Return, Holds
<1>1. rec[p] \in Records OBVIOUS
<1>2. CASE CreateOutbox(p)
  <2>1. PICK n \in 1 .. MaxRecords :
             /\ outbox[<<rec[p][1], n>>] = "none"
             /\ outbox' = [outbox EXCEPT ![<<rec[p][1], n>>] = "pending"]
             /\ rec' = [rec EXCEPT ![p] = <<rec[p][1], n>>]
    BY <1>2 DEF CreateOutbox
  <2>2. KeepsToItsClaim(p) BY <1>2, <2>1, Members DEF CreateOutbox, KeepsToItsClaim
  <2> QED BY <2>2, ClaimExchange
<1>3. CASE Claim(p)
  <2>1. KeepsToItsClaim(p) BY <1>1, <1>3 DEF Claim, KeepsToItsClaim
  <2> QED BY <2>1, ClaimExchange
<1>4. CASE Send(p) \/ SendFails(p)
  <2>1. KeepsToItsClaim(p)
    BY <1>1, <1>4 DEF Send, SendFails, KeepsToItsClaim, ExclusiveClaim
  <2> QED BY <2>1, ClaimExchange
<1>5. CASE MarkPublished(p)
  <2>1. KeepsToItsClaim(p) BY <1>1, <1>5 DEF MarkPublished, KeepsToItsClaim
  <2> QED BY <2>1, ClaimExchange
<1>6. CASE MarkFailed(p)
  <2>1. KeepsToItsClaim(p) BY <1>1, <1>6 DEF MarkFailed, KeepsToItsClaim
  <2> QED BY <2>1, ClaimExchange
<1>7. CASE SetItemState(p) BY <1>7, ClaimFrame DEF SetItemState
<1>8. CASE ReadForError(p) BY <1>8, ClaimFrame DEF ReadForError
<1>9. CASE WriteError(p) BY <1>9, ClaimFrame DEF WriteError
<1> QED BY <1>2, <1>3, <1>4, <1>5, <1>6, <1>7, <1>8, <1>9 DEF Publish

LEMMA ClaimWorker ==
  ASSUME TypeInv, ExclusiveClaim, NEW p \in Procs,
         UpdateStage(p) \/ Worker(p) \/ ExecuteFails(p) \/ Crash(p)
  PROVE  ExclusiveClaim'
<1> USE DEF TypeInv, ControlType, LocalType, Returns, Return, Holds, CallUpdate, CallRequest,
            Raised
<1>1. CASE UpdateStage(p)
  BY <1>1, ClaimFrame DEF UpdateStage, ReadForUpdate, WriteStage
<1>2. ASSUME NEW m \in Messages, Deliver(p, m) PROVE ExclusiveClaim'
  BY <1>2, ClaimFrame DEF Deliver
<1>3. CASE Execute(p) BY <1>3, ClaimFrame DEF Execute
<1>4. CASE FastWrite(p) BY <1>4, ClaimFrame DEF FastWrite
<1>5. CASE RequestPolicy(p) BY <1>5, ClaimFrame DEF RequestPolicy
<1>6. CASE FollowOn(p) BY <1>6, ClaimFrame, FollowOnLeads DEF Onward, Further
<1>7. CASE SetWait(p) BY <1>7, ClaimFrame DEF SetWait
<1>8. CASE AuxDone(p) BY <1>8, ClaimFrame DEF AuxDone
<1>9. CASE RequestSummary(p) BY <1>9, ClaimFrame DEF RequestSummary
<1>10. CASE SetDeliverPending(p) BY <1>10, ClaimFrame DEF SetDeliverPending
<1>11. CASE Retry(p) \/ DeadLetter(p) \/ Ack(p)
  BY <1>11, ClaimFrame DEF Retry, DeadLetter, Ack
<1>12. CASE ExecuteFails(p) BY <1>12, ClaimFrame DEF ExecuteFails
<1>13. CASE Crash(p) BY <1>13, ClaimFrame DEF Crash
<1> QED BY <1>1, <1>2, <1>3, <1>4, <1>5, <1>6, <1>7, <1>8, <1>9, <1>10, <1>11, <1>12, <1>13
        DEF Worker, Follow

LEMMA ClaimStep == TypeInv /\ ExclusiveClaim /\ [Next]_vars => ExclusiveClaim'
<1> SUFFICES ASSUME TypeInv, ExclusiveClaim, [Next]_vars PROVE ExclusiveClaim' OBVIOUS
<1>1. ASSUME NEW r \in Records, RelayPick(r) PROVE ExclusiveClaim'
  BY <1>1, Members, ClaimFrame DEF RelayPick, TypeInv, ControlType, LocalType, Holds
<1>2. CASE RemediationRefused
  BY <1>2, Members, ClaimFrame DEF RemediationRefused, TypeInv, ControlType, Holds
<1>3. CASE UNCHANGED vars
  BY <1>3 DEF vars, ExclusiveClaim
<1> QED BY <1>1, <1>2, <1>3, Members, ClaimPublish, ClaimWorker DEF Next, Step, Disturb

\* A record that is being published has one publisher: two processes, or a worker and the
\* relay, never send the same request on one claim (claim_outbox_record).
THEOREM OneClaimant == Spec => []ExclusiveClaim
<1>1. Init => ExclusiveClaim BY DEF Init, ExclusiveClaim
<1> QED BY <1>1, TypeInit, TypeStep, ClaimStep, PTL DEF Spec
-----------------------------------------------------------------------------
(***************************************************************************)
(* Ended stages.  Only the error of a failed publish writes a stage back   *)
(* that was read earlier.                                                  *)
(***************************************************************************)
Ended(s) == stage[s] \in TerminalStageStates

\* A process is about to note a failed publish in stage s.
NotesError(p, s) == pc[p] = "error_write" /\ ErrorStageOf(rec[p][1]) = s

LEMMA EndedStep ==
  ASSUME TypeInv, [Next]_vars, NEW s \in StageNames, Ended(s),
         \A p \in Procs : ~NotesError(p, s)
  PROVE  Ended(s)'
<1> USE DEF Ended
<1>1. CASE stage' = stage BY <1>1
<1>2. ASSUME NEW p \in Procs, WriteStage(p) PROVE Ended(s)'
  <2>1. update[p][1] \in StageNames /\ update[p][2] \in {"running", "completed", "skipped"}
    BY DEF TypeInv, LocalType, Updates
  <2> QED BY <1>2, <2>1 DEF WriteStage, update_job_item_stage, TypeInv, RowInType, TerminalStageStates
<1>3. ASSUME NEW p \in Procs, WriteError(p) PROVE Ended(s)'
  <2>1. ErrorStageOf(rec[p][1]) # s /\ ErrorStageOf(rec[p][1]) \in StageNames
    BY <1>3, Members DEF WriteError, NotesError, TypeInv, LocalType
  <2> QED BY <1>3, <2>1 DEF WriteError, update_job_item_stage, TypeInv, RowInType
<1>4. ASSUME NEW p \in Procs, FastWrite(p) PROVE Ended(s)'
  BY <1>4 DEF FastWrite, TerminalStageStates, StageNames
<1>5. ASSUME NEW p \in Procs, Publish(p) \/ SendFails(p) PROVE Ended(s)'
  BY <1>1, <1>3, <1>5 DEF Publish, CreateOutbox, Claim, Send, MarkPublished, MarkFailed,
     SetItemState, ReadForError, SendFails
<1>6. ASSUME NEW p \in Procs, Worker(p) \/ ExecuteFails(p) \/ Crash(p) PROVE Ended(s)'
  BY <1>1, <1>4, <1>6 DEF Worker, Deliver, Execute, RequestPolicy, Follow, FollowOn, SetWait,
     AuxDone, RequestSummary, SetDeliverPending, Retry, DeadLetter, Ack, ExecuteFails, Crash
<1>7. ASSUME NEW p \in Procs, Step(p) PROVE Ended(s)'
  BY <1>1, <1>2, <1>5, <1>6, <1>7 DEF Step, UpdateStage, ReadForUpdate, RelayPick
<1>8. CASE RemediationRefused \/ UNCHANGED vars
  BY <1>1, <1>8 DEF RemediationRefused, vars
<1> QED BY <1>5, <1>6, <1>7, <1>8, Members DEF Next, Disturb

\* While no publish has failed no process is dealing with one that has.
QuietBus == \A p \in Procs : pc[p] \notin {"unsent", "error_read", "error_write"}

\* What has failed stays counted.
LEMMA FailuresCount == TypeInv /\ [Next]_vars /\ NoSendFailed' => NoSendFailed
<1> SUFFICES ASSUME TypeInv, [Next]_vars PROVE NoSendFailed' => NoSendFailed OBVIOUS
<1> USE DEF TypeInv, NoSendFailed, Failures
<1>1. ASSUME NEW k \in Failures, Fail(k) PROVE NoSendFailed' => NoSendFailed
  BY <1>1 DEF Fail
<1>2. ASSUME NEW p \in Procs, Step(p) PROVE failures' = failures
  <2>1. CASE UpdateStage(p) \/ Publish(p)
    BY <2>1 DEF UpdateStage, ReadForUpdate, WriteStage, Publish, CreateOutbox, Claim, Send,
       MarkPublished, MarkFailed, SetItemState, ReadForError, WriteError
  <2>2. CASE Worker(p)
    BY <2>2 DEF Worker, Deliver, Execute, FastWrite, RequestPolicy, Follow, FollowOn, SetWait,
       AuxDone, RequestSummary, SetDeliverPending, Retry, DeadLetter, Ack
  <2> QED BY <1>2, <2>1, <2>2 DEF Step, RelayPick
<1>3. CASE Disturb
  BY <1>1, <1>3 DEF Disturb, SendFails, ExecuteFails, Crash, RemediationRefused
<1> QED BY <1>2, <1>3 DEF Next, vars

LEMMA QuietStep == NoSendFailed' /\ TypeInv /\ QuietBus /\ [Next]_vars => QuietBus'
<1> SUFFICES ASSUME NoSendFailed', TypeInv, QuietBus, [Next]_vars PROVE QuietBus' OBVIOUS
<1> USE DEF TypeInv, ControlType, QuietBus, Returns, Return, CallUpdate, CallRequest
<1>1. ASSUME NEW p \in Procs, UpdateStage(p) PROVE QuietBus'
  BY <1>1 DEF UpdateStage, ReadForUpdate, WriteStage
<1>2. ASSUME NEW p \in Procs, Publish(p) PROVE QuietBus'
  BY <1>2 DEF Publish, CreateOutbox, Claim, Send, MarkPublished, MarkFailed,
     SetItemState, ReadForError, WriteError
<1>3. ASSUME NEW p \in Procs, SendFails(p) PROVE FALSE
  BY <1>3 DEF SendFails, Fail, NoSendFailed, Failures
<1>4. ASSUME NEW p \in Procs, FollowOn(p) PROVE QuietBus'
  BY <1>4, FollowOnLeads DEF Onward, Further, Raised
<1>5. ASSUME NEW p \in Procs, Worker(p) \/ ExecuteFails(p) \/ Crash(p) PROVE QuietBus'
  BY <1>4, <1>5 DEF Worker, Deliver, Execute, FastWrite, RequestPolicy, Follow, SetWait,
     AuxDone, RequestSummary, SetDeliverPending, Retry, DeadLetter, Ack, ExecuteFails, Crash,
     Raised
<1>6. ASSUME NEW p \in Procs, Step(p) PROVE QuietBus'
  BY <1>1, <1>2, <1>5, <1>6 DEF Step, RelayPick
<1>7. CASE RemediationRefused \/ UNCHANGED vars
  BY <1>7 DEF RemediationRefused, vars
<1> QED BY <1>3, <1>5, <1>6, <1>7, Members DEF Next, Disturb

\* As long as publishes do not fail, no late, retried or redelivered message, crash, refusal
\* or other worker reopens a stage that has ended (_update_job_item_stage).
THEOREM EndedStagesStayEnded == Spec => StagesStayEnded
<1> DEFINE NoneReopened ==
             NoSendFailed' => \A s \in StageNames : stage[s] \in TerminalStageStates
                                                    => stage'[s] \in TerminalStageStates
           Quiet == NoSendFailed => QuietBus
<1>1. Init => Quiet BY DEF Init, QuietBus
<1>2. TypeInv /\ Quiet /\ [Next]_vars => [NoneReopened]_vars
  BY EndedStep, FailuresCount DEF Ended, QuietBus, NotesError
<1>3. TypeInv /\ Quiet /\ [Next]_vars => TypeInv' /\ Quiet'
  BY TypeStep, QuietStep, FailuresCount
<1> QED BY <1>1, <1>2, <1>3, TypeInit, PTL DEF Spec, StagesStayEnded
-----------------------------------------------------------------------------
(***************************************************************************)
(* Requests: none is forgotten before the stage it asks for has ended, and *)
(* the summary waits for DIANNA.  Both rest on ended stages staying so,    *)
(* hence on publishes that do not fail; of remediation, whose stage no     *)
(* failed publish rewrites, the first holds without that.                  *)
(***************************************************************************)
Requests == {"policy", "remediation", "dianna", "summary"}

\* The worker that takes a request of kind k.
WorkerOf(k) == IF k = "summary" THEN "sink" ELSE k

\* A copy of the request waits, or is kept for an operator.
Waits(k) == \E a \in 0 .. MaxRetry : queue[<<k, a>>] > 0 \/ <<k, a>> \in dlq

\* The request needs no worker any more, or another copy of it waits.
Left(k) == Ended(ErrorStageOf(k)) \/ Waits(k)

Calling == {"read", "write", "create", "claim", "send", "sent", "unsent", "set_queued",
            "set_publish_pending", "error_read", "error_write"}

\* The worker has its stage, or in the fast path all stages, still to complete, or its
\* message still to put aside.
AtWork(w) ==
    \/ pc[w] \in {"execute", "retry", "dead_letter", "fast_write"}
    \/ pc[w] \in {"read", "write"} /\ update[w] = <<StageOf(w), "running">> /\ ret[w] = "execute"
    \/ pc[w] \in {"read", "write"} /\ update[w] = <<StageOf(w), "completed">>
    \/ pc[w] \in Calling \ {"read", "write"} /\ ret[w] = "fast_write"

\* A busy worker has a message of its queue family in hand, goes on after each call, and
\* takes the short way for stage results only.
Hands ==
    \A w \in Workers :
        /\ pc[w] # "idle" => msg[w][1] \in KindsOf(w)
        /\ pc[w] \in Calling => ret[w] # "idle"
        /\ pc[w] = "execute_aux" => msg[w][1] = "aux"

\* A worker that is done with the request in its hands may acknowledge it.
MayForget(k) == LET w == WorkerOf(k)
                IN  pc[w] # "idle" /\ msg[w][1] = k /\ ~AtWork(w) => Left(k)

Safe(k) == OnItsWay(k) \/ Ended(ErrorStageOf(k))

\* A request that was sent, and is about to be marked published, is on its way.
SentIsOnItsWay(k) == \A p \in Procs : pc[p] = "sent" /\ rec[p][1] = k => Safe(k)

\* Accounted(k) with what makes it inductive.
RequestInv(k) == Accounted(k) /\ SentIsOnItsWay(k) /\ MayForget(k)

LEMMA HandsInit == Init => Hands
  BY DEF Init, Hands, Workers, Procs, KindsOf, NoMessage, Calling

LEMMA HandsStep == TypeInv /\ Hands /\ [Next]_vars => Hands'
<1> SUFFICES ASSUME TypeInv, Hands, [Next]_vars PROVE Hands' OBVIOUS
<1> USE Members DEF TypeInv, ControlType, LocalType, Hands, Calling, Returns, Return, CallUpdate,
                    CallRequest
<1>1. ASSUME NEW p \in Procs, UpdateStage(p) PROVE Hands'
  <2>1. CASE ReadForUpdate(p) BY <2>1 DEF ReadForUpdate
  <2>2. CASE WriteStage(p) BY <2>2 DEF WriteStage
  <2> QED BY <1>1, <2>1, <2>2 DEF UpdateStage
<1>2. ASSUME NEW p \in Procs, Publish(p) \/ SendFails(p) PROVE Hands'
  BY <1>2 DEF Publish, CreateOutbox, Claim, Send, MarkPublished, MarkFailed,
     SetItemState, ReadForError, WriteError, SendFails
<1>3. ASSUME NEW p \in Workers, FollowOn(p) PROVE Hands'
  BY <1>3, FollowOnLeads DEF Onward, Further, Raised
<1>4. ASSUME NEW p \in Workers, NEW m \in Messages, Deliver(p, m) PROVE Hands'
  BY <1>4 DEF Deliver
<1>5. ASSUME NEW p \in Workers, Worker(p) \/ ExecuteFails(p) PROVE Hands'
  BY <1>3, <1>4, <1>5 DEF Worker, Execute, FastWrite, RequestPolicy, Follow, SetWait,
     AuxDone, RequestSummary, SetDeliverPending, Retry, DeadLetter, Ack, ExecuteFails, Raised
<1>6. ASSUME NEW p \in Workers, Crash(p) PROVE Hands'
  BY <1>6 DEF Crash
<1>7. ASSUME NEW r \in Records, RelayPick(r) PROVE Hands'
  BY <1>7 DEF RelayPick, Workers
<1>8. CASE RemediationRefused
  BY <1>8 DEF RemediationRefused
<1>9. CASE UNCHANGED vars BY <1>9 DEF vars
<1> QED BY <1>1, <1>2, <1>5, <1>6, <1>7, <1>8, <1>9 DEF Next, Step, Disturb

\* A step of p that forgets no request of kind k: its copies stay, and p keeps its message.
Steady(k, p) ==
    /\ msg' = msg
    /\ \A a \in 0 .. MaxRetry : queue[<<k, a>>] > 0 => queue'[<<k, a>>] > 0
    /\ dlq \subseteq dlq'
    /\ \A q \in Procs \ {p} : /\ pc'[q] = pc[q] /\ rec'[q] = rec[q]
                              /\ ret'[q] = ret[q] /\ update'[q] = update[q]
    /\ p \in Workers => pc[p] # "idle" /\ pc'[p] # "idle"
    /\ Ended(ErrorStageOf(k)) => Ended(ErrorStageOf(k))'

LEMMA SafeStays ==
  ASSUME NEW k \in Requests, NEW p \in Procs, Steady(k, p)
  PROVE  (Safe(k) => Safe(k)') /\ (Left(k) => Left(k)')
<1>1. Waits(k) => Waits(k)' BY DEF Steady, Waits
<1>2. OnItsWay(k) => OnItsWay(k)' BY Members DEF Steady, OnItsWay
<1> QED BY <1>1, <1>2 DEF Steady, Safe, Left

LEMMA RequestKept ==
  ASSUME NEW k \in Requests, RequestInv(k), NEW p \in Procs, Steady(k, p),
         \A n \in 1 .. MaxRecords : outbox'[<<k, n>>] = "published"
                                     => outbox[<<k, n>>] = "published" \/ Safe(k),
         pc'[p] = "sent" /\ rec'[p][1] = k => Safe(k)',
         p = WorkerOf(k) /\ msg[p][1] = k /\ AtWork(p) => AtWork(p)' \/ Left(k)'
  PROVE  RequestInv(k)'
<1>1. Accounted(k)' BY SafeStays DEF RequestInv, Accounted, Safe, Ended
<1>2. SentIsOnItsWay(k)' BY SafeStays DEF RequestInv, SentIsOnItsWay, Steady
<1>3. WorkerOf(k) \in Workers BY DEF WorkerOf, Workers, Requests
<1>4. WorkerOf(k) # p => (AtWork(WorkerOf(k))' <=> AtWork(WorkerOf(k)))
  BY <1>3, Members DEF Steady, AtWork
<1>5. MayForget(k)'
  <2>1. CASE WorkerOf(k) = p
    BY <1>3, <2>1, SafeStays DEF RequestInv, MayForget, Steady
  <2>2. CASE WorkerOf(k) # p
    BY <1>3, <1>4, <2>2, Members, SafeStays DEF RequestInv, MayForget, Steady
  <2> QED BY <2>1, <2>2
<1> QED BY <1>1, <1>2, <1>5 DEF RequestInv

LEMMA Stages == \A k \in Requests : /\ WorkerOf(k) \in Workers
                                    /\ StageOf(WorkerOf(k)) = ErrorStageOf(k)
                                    /\ ErrorStageOf(k) \in StageNames \ {"scan"}
                                    /\ k \in Kinds /\ k # "aux"
                                    /\ \A w \in Workers : k \in KindsOf(w) => w = WorkerOf(k)
  BY DEF Requests, WorkerOf, StageOf, ErrorStageOf, StageNames, KindsOf, Workers, Kinds

LEMMA RequestUpdate ==
  ASSUME TypeInv, Hands, NEW k \in Requests, RequestInv(k), NEW p \in Procs, UpdateStage(p),
         Ended(ErrorStageOf(k)) => Ended(ErrorStageOf(k))'
  PROVE  RequestInv(k)'
<1> USE Members, Stages DEF TypeInv, ControlType, LocalType, Returns, Return
<1>1. Steady(k, p)
  BY DEF UpdateStage, ReadForUpdate, WriteStage, Steady, Hands, Calling
<1>2. outbox' = outbox /\ pc'[p] # "sent"
  BY DEF UpdateStage, ReadForUpdate, WriteStage
<1>3. ASSUME p = WorkerOf(k), AtWork(p) PROVE AtWork(p)' \/ Left(k)'
  <2>1. CASE ReadForUpdate(p)
    BY <1>3, <2>1 DEF ReadForUpdate, AtWork, Calling
  <2>2. CASE WriteStage(p) /\ update[p] = <<StageOf(p), "running">> /\ ret[p] = "execute"
    BY <1>3, <2>2 DEF WriteStage, AtWork
  <2>3. CASE WriteStage(p) /\ update[p] = <<StageOf(p), "completed">>
    BY <1>3, <2>3 DEF WriteStage, update_job_item_stage, RowInType, Left, Ended, TerminalStageStates
  <2> QED BY <1>3, <2>1, <2>2, <2>3 DEF UpdateStage, WriteStage, AtWork, Calling
<1> QED BY <1>1, <1>2, <1>3, RequestKept

LEMMA RequestPublish ==
  ASSUME TypeInv, Hands, NEW k \in Requests, RequestInv(k), NEW p \in Procs,
         Publish(p) \/ SendFails(p), Ended(ErrorStageOf(k)) => Ended(ErrorStageOf(k))'
  PROVE  RequestInv(k)'
<1> USE Members, Stages DEF TypeInv, ControlType, LocalType, Returns, Return, OutboxType
<1>1. <<rec[p][1], 0>> \in Messages /\ rec[p] \in Records /\ rec[p][1] \in Kinds
  OBVIOUS
<1>2. \A a \in 0 .. MaxRetry : queue[<<k, a>>] > 0 => queue'[<<k, a>>] > 0
  <2>1. \A a \in 0 .. MaxRetry : <<k, a>> \in Messages BY DEF Messages
  <2>2. queue' = queue \/ Enqueue(<<rec[p][1], 0>>)
    BY DEF Publish, CreateOutbox, Claim, Send, MarkPublished, MarkFailed, SetItemState,
       ReadForError, WriteError, SendFails
  <2>3. CASE Enqueue(<<rec[p][1], 0>>)
    <3> DEFINE m == <<rec[p][1], 0>>
    <3>1. m \in Messages /\ queue' = [queue EXCEPT ![m] = @ + 1] /\ queue \in [Messages -> Nat]
      BY <1>1, <2>3 DEF Enqueue, BrokerType
    <3> HIDE DEF m
    <3> QED BY <2>1, <3>1
  <2> QED BY <2>2, <2>3
<1>3. pc[p] \in Calling \ {"read", "write"}
  BY DEF Publish, CreateOutbox, Claim, Send, MarkPublished, MarkFailed, SetItemState,
     ReadForError, WriteError, SendFails, Calling
<1>4. /\ pc'[p] = ret[p] \/ (pc'[p] \in Calling \ {"read", "write"} /\ ret'[p] = ret[p])
      /\ msg' = msg /\ dlq' = dlq
      /\ \A q \in Procs \ {p} : /\ pc'[q] = pc[q] /\ rec'[q] = rec[q]
                                /\ ret'[q] = ret[q] /\ update'[q] = update[q]
  <2>1. CASE CreateOutbox(p)
    BY <2>1 DEF CreateOutbox, Calling
  <2>5. CASE Claim(p)
    BY <2>5 DEF Claim, Calling
  <2>2. CASE Send(p) \/ SendFails(p)
    BY <2>2 DEF Send, SendFails, Calling
  <2>3. CASE MarkPublished(p) \/ MarkFailed(p)
    BY <2>3 DEF MarkPublished, MarkFailed, Calling
  <2>4. CASE SetItemState(p) \/ ReadForError(p) \/ WriteError(p)
    BY <2>4 DEF SetItemState, ReadForError, WriteError, Calling
  <2> QED BY <2>1, <2>2, <2>3, <2>4, <2>5 DEF Publish
<1>5. Steady(k, p)
  BY <1>2, <1>3, <1>4 DEF Steady, Hands, Calling
<1>6. AtWork(p) => AtWork(p)'
  BY <1>3, <1>4 DEF AtWork, Calling
<1>7. ASSUME NEW n \in 1 .. MaxRecords, outbox'[<<k, n>>] = "published",
             outbox[<<k, n>>] # "published"
      PROVE  Safe(k)
  <2>1. MarkPublished(p)
    <3>1. <<k, n>> \in Records BY DEF Requests, Kinds, Records
    <3>2. ~CreateOutbox(p)
      <4> SUFFICES ASSUME CreateOutbox(p) PROVE FALSE OBVIOUS
      <4>1. PICK x \in 1 .. MaxRecords :
              outbox' = [outbox EXCEPT ![<<rec[p][1], x>>] = "pending"]
        BY DEF CreateOutbox
      <4> DEFINE r == <<rec[p][1], x>>
                 o == <<k, n>>
      <4>2. outbox' = [outbox EXCEPT ![r] = "pending"] BY <4>1
      <4>3. o \in Records /\ outbox'[o] = "published" /\ outbox[o] # "published" BY <1>7, <3>1
      <4> HIDE DEF r, o
      <4> QED BY <4>2, <4>3
    <3>3. ~Claim(p) BY <1>7, <3>1 DEF Claim
    <3>4. ~MarkFailed(p) BY <1>7, <3>1 DEF MarkFailed
    <3> QED BY <1>7, <3>2, <3>3, <3>4 DEF Publish, Send, SetItemState, ReadForError, WriteError,
               SendFails
  <2>2. rec[p] = <<k, n>> BY <1>7, <2>1 DEF MarkPublished
  <2> QED BY <2>1, <2>2 DEF MarkPublished, RequestInv, SentIsOnItsWay
<1>8. ASSUME pc'[p] = "sent", rec'[p][1] = k PROVE Safe(k)'
  <2>1. Send(p)
    BY <1>8 DEF Publish, CreateOutbox, Claim, MarkPublished, MarkFailed, SetItemState,
     ReadForError, WriteError, SendFails
  <2>2. rec[p][1] = k BY <1>8, <2>1 DEF Send
  <2>3. <<k, 0>> \in Messages /\ 0 \in 0 .. MaxRetry BY <1>1, <2>2
  <2>4. queue'[<<k, 0>>] > 0 BY <2>1, <2>2, <2>3 DEF Send, Enqueue, BrokerType
  <2> QED BY <2>3, <2>4 DEF Safe, OnItsWay
<1> QED BY <1>5, <1>6, <1>7, <1>8, RequestKept

\* The follow-on decisions are made when the worker's own stage is done with.
LEMMA RequestFollow ==
  ASSUME TypeInv, NEW k \in Requests, RequestInv(k), NEW p \in Workers,
         Follow(p) \/ RequestPolicy(p), Ended(ErrorStageOf(k)) => Ended(ErrorStageOf(k))'
  PROVE  RequestInv(k)'
<1> USE Members DEF TypeInv, ControlType, LocalType, CallUpdate, CallRequest
<1>1. ~AtWork(p)
  BY FollowOnLeads DEF Follow, RequestPolicy, SetWait, AuxDone, RequestSummary, SetDeliverPending, AtWork,
     Calling
<1>2. CASE FollowOn(p)
  <2>1. Steady(k, p) /\ outbox' = outbox /\ pc'[p] # "sent"
    BY <1>2, FollowOnLeads DEF Onward, Further, Raised, Steady
  <2> QED BY <1>1, <2>1, RequestKept
<1>3. CASE ~FollowOn(p)
  <2>1. Steady(k, p) /\ outbox' = outbox /\ pc'[p] # "sent"
    BY <1>3 DEF Follow, RequestPolicy, SetWait, AuxDone, RequestSummary, SetDeliverPending, Steady
  <2> QED BY <1>1, <2>1, RequestKept
<1> QED BY <1>2, <1>3

\* A worker's own steps between taking a message and acknowledging it.
LEMMA RequestWorker ==
  ASSUME TypeInv, Hands, NEW k \in Requests, RequestInv(k), NEW p \in Workers,
         \/ Execute(p) \/ FastWrite(p) \/ Retry(p) \/ DeadLetter(p) \/ ExecuteFails(p)
         \/ (p = "remediation" /\ RemediationRefused),
         Ended(ErrorStageOf(k)) => Ended(ErrorStageOf(k))'
  PROVE  RequestInv(k)'
<1> USE Members, Stages DEF TypeInv, ControlType, LocalType, CallUpdate, CallRequest, BrokerType
<1>1. CASE Execute(p)
  <2>1. Steady(k, p) /\ outbox' = outbox /\ pc'[p] # "sent"
    BY <1>1 DEF Execute, Steady
  <2>2. AtWork(p) => AtWork(p)'
    BY <1>1 DEF Execute, AtWork, Calling
  <2> QED BY <2>1, <2>2, RequestKept
<1>2. CASE FastWrite(p)
  <2>1. Steady(k, p) /\ outbox' = outbox /\ pc'[p] # "sent"
    BY <1>2 DEF FastWrite, Steady
  <2>2. Left(k)'
    BY <1>2 DEF FastWrite, Left, Ended, TerminalStageStates
  <2> QED BY <2>1, <2>2, RequestKept
<1>3. CASE Retry(p)
  <2>1. <<msg[p][1], msg[p][2] + 1>> \in Messages /\ \A a \in 0 .. MaxRetry : <<k, a>> \in Messages
    BY <1>3 DEF Retry, RetryBound, Messages
  <2>2. Steady(k, p) /\ outbox' = outbox /\ pc'[p] # "sent"
    BY <1>3, <2>1 DEF Retry, Enqueue, Steady
  <2>3. ASSUME msg[p][1] = k PROVE Left(k)'
    <3>1. queue'[<<k, msg[p][2] + 1>>] > 0 BY <1>3, <2>1, <2>3 DEF Retry, Enqueue
    <3> QED BY <2>1, <2>3, <3>1 DEF Left, Waits, Messages
  <2> QED BY <2>2, <2>3, RequestKept
<1>4. CASE DeadLetter(p)
  <2>1. Steady(k, p) /\ outbox' = outbox /\ pc'[p] # "sent"
    BY <1>4 DEF DeadLetter, Steady
  <2>2. ASSUME msg[p][1] = k PROVE Left(k)'
    <3>1. msg[p] = <<k, msg[p][2]>> /\ msg[p][2] \in 0 .. MaxRetry BY <2>2 DEF Messages
    <3> QED BY <1>4, <3>1 DEF DeadLetter, Left, Waits
  <2> QED BY <2>1, <2>2, RequestKept
<1>5. CASE ExecuteFails(p) \/ (p = "remediation" /\ RemediationRefused)
  <2>1. Steady(k, p) /\ outbox' = outbox /\ pc'[p] # "sent"
    BY <1>5 DEF ExecuteFails, Raised, RemediationRefused, Steady
  <2>2. AtWork(p)'
    BY <1>5 DEF ExecuteFails, Raised, RemediationRefused, AtWork
  <2> QED BY <2>1, <2>2, RequestKept
<1> QED BY <1>1, <1>2, <1>3, <1>4, <1>5

\* Taking a message.
LEMMA RequestDeliver ==
  ASSUME TypeInv, NEW k \in Requests, RequestInv(k), NEW p \in Workers, NEW m \in Messages,
         Deliver(p, m)
  PROVE  RequestInv(k)'
<1> USE Members, Stages DEF TypeInv, ControlType, LocalType, CallUpdate, BrokerType
<1>1. /\ UNCHANGED <<outbox, stage, rec, dlq>> /\ pc[p] = "idle"
      /\ pc'[p] \in {"read", "execute_aux"} /\ msg'[p] = m /\ m[1] \in KindsOf(p)
      /\ \A q \in Procs \ {p} : /\ pc'[q] = pc[q] /\ msg'[q] = msg[q]
                                /\ ret'[q] = ret[q] /\ update'[q] = update[q]
  BY DEF Deliver
<1>2. ASSUME m[1] # k PROVE Safe(k)' = Safe(k) /\ Left(k)' = Left(k)
  <2>1. \A a \in 0 .. MaxRetry : <<k, a>> \in Messages /\ <<k, a>> # m BY <1>2 DEF Messages
  <2>2. \A a \in 0 .. MaxRetry : queue'[<<k, a>>] = queue[<<k, a>>] BY <2>1 DEF Deliver
  <2>3. \A w \in Workers : pc'[w] # "idle" /\ msg'[w][1] = k <=> pc[w] # "idle" /\ msg[w][1] = k
    <3> TAKE w \in Workers
    <3>1. CASE w = p BY <1>1, <1>2, <3>1
    <3>2. CASE w # p BY <1>1, <3>2
    <3> QED BY <3>1, <3>2
  <2>4. UNCHANGED <<stage, dlq>> BY <1>1
  <2> QED BY <2>2, <2>3, <2>4 DEF Safe, Left, OnItsWay, Waits, Ended
<1>3. CASE m[1] # k
  <2>1. Accounted(k)' BY <1>1, <1>2, <1>3 DEF RequestInv, Accounted, Safe, Ended
  <2>2. SentIsOnItsWay(k)' BY <1>1, <1>2, <1>3 DEF RequestInv, SentIsOnItsWay
  <2>3. CASE p = WorkerOf(k) BY <1>1, <1>3, <2>1, <2>2, <2>3 DEF RequestInv, MayForget
  <2>4. CASE p # WorkerOf(k)
    <3>1. AtWork(WorkerOf(k))' <=> AtWork(WorkerOf(k)) BY <1>1, <2>4 DEF AtWork
    <3> QED BY <1>1, <1>2, <1>3, <2>1, <2>2, <2>4, <3>1 DEF RequestInv, MayForget
  <2> QED BY <2>3, <2>4
<1>4. CASE m[1] = k
  <2>1. p = WorkerOf(k) BY <1>1, <1>4
  <2>2. Safe(k)' BY <1>1, <1>4 DEF Safe, OnItsWay
  <2>3. AtWork(p)' BY <1>4 DEF Deliver, AtWork, Updates
  <2> QED BY <2>1, <2>2, <2>3 DEF RequestInv, Accounted, SentIsOnItsWay, MayForget, Safe, Ended
<1> QED BY <1>3, <1>4

\* Letting go of a message: acknowledged, or redelivered after a crash.
LEMMA RequestLetGo ==
  ASSUME TypeInv, Hands, NEW k \in Requests, RequestInv(k), NEW p \in Workers,
         Ack(p) \/ Crash(p)
  PROVE  RequestInv(k)'
<1> USE Members, Stages DEF TypeInv, ControlType, LocalType, BrokerType
<1>1. /\ UNCHANGED <<outbox, stage, dlq>> /\ pc[p] # "idle" /\ pc'[p] = "idle"
      /\ \A q \in Procs \ {p} : /\ pc'[q] = pc[q] /\ msg'[q] = msg[q] /\ rec'[q] = rec[q]
                                /\ ret'[q] = ret[q] /\ update'[q] = update[q]
  BY DEF Ack, Crash
<1>2. \A m \in Messages : queue[m] > 0 => queue'[m] > 0
  <2>1. CASE Ack(p) BY <2>1 DEF Ack
  <2>2. CASE Crash(p)
    <3>1. msg[p] \in Messages /\ queue' = [queue EXCEPT ![msg[p]] = @ + 1]
      BY <2>2 DEF Crash, Enqueue
    <3> QED BY <3>1
  <2> QED BY <2>1, <2>2
<1>10. Crash(p) => queue'[msg[p]] > 0
  BY DEF Crash, Enqueue
<1>3. \A a \in 0 .. MaxRetry : /\ <<k, a>> \in Messages
                               /\ queue[<<k, a>>] > 0 => queue'[<<k, a>>] > 0
  <2> TAKE a \in 0 .. MaxRetry
  <2> DEFINE m == <<k, a>>
  <2>1. m \in Messages BY DEF Messages
  <2>2. queue[m] > 0 => queue'[m] > 0
    <3> HIDE DEF m
    <3> QED BY <1>2, <2>1, Zenon
  <2> QED BY <2>1, <2>2
<1>4. Left(k) => Left(k)' BY <1>1, <1>2, <1>3 DEF Left, Waits, Ended
<1>5. Safe(k) => Safe(k)'
  <2>1. ASSUME msg[p][1] = k PROVE Left(k)'
    <3>1. p = WorkerOf(k) BY <1>1, <2>1 DEF Hands
    <3>2. CASE Ack(p)
      BY <1>1, <1>4, <2>1, <3>1, <3>2 DEF Ack, RequestInv, MayForget, AtWork, Calling
    <3>3. CASE Crash(p)
      <4>1. msg[p] = <<k, msg[p][2]>> /\ msg[p][2] \in 0 .. MaxRetry BY <2>1 DEF Messages
      <4>2. queue'[msg[p]] > 0 BY <1>10, <3>3
      <4> QED BY <4>1, <4>2 DEF Left, Waits
    <3> QED BY <3>2, <3>3
  <2>2. Left(k)' => Safe(k)' BY DEF Left, Safe, Waits, OnItsWay
  <2>3. ASSUME Waits(k) \/ Ended(ErrorStageOf(k)) PROVE Safe(k)'
    BY <1>4, <2>2, <2>3 DEF Left
  <2>4. ASSUME NEW w \in Workers, pc[w] # "idle", msg[w][1] = k PROVE Safe(k)'
    <3>1. CASE w = p BY <2>1, <2>2, <2>4, <3>1
    <3>2. CASE w # p BY <1>1, <2>4, <3>2 DEF Safe, OnItsWay
    <3> QED BY <3>1, <3>2
  <2> QED BY <2>3, <2>4 DEF Safe, OnItsWay, Waits
<1>6. Accounted(k)' BY <1>1, <1>5 DEF RequestInv, Accounted, Safe, Ended
<1>7. SentIsOnItsWay(k)' BY <1>1, <1>5 DEF RequestInv, SentIsOnItsWay
<1>8. CASE p = WorkerOf(k) BY <1>1, <1>6, <1>7, <1>8 DEF RequestInv, MayForget
<1>9. CASE p # WorkerOf(k)
  <2>1. AtWork(WorkerOf(k))' <=> AtWork(WorkerOf(k)) BY <1>1, <1>9 DEF AtWork
  <2> QED BY <1>1, <1>4, <1>6, <1>7, <1>9, <2>1 DEF RequestInv, MayForget
<1> QED BY <1>8, <1>9

LEMMA RequestStep ==
  ASSUME TypeInv, Hands, NEW k \in Requests, RequestInv(k), [Next]_vars,
         Ended(ErrorStageOf(k)) => Ended(ErrorStageOf(k))'
  PROVE  RequestInv(k)'
<1>1. ASSUME NEW w \in Workers, Worker(w) \/ ExecuteFails(w) \/ Crash(w) PROVE RequestInv(k)'
  BY <1>1, RequestDeliver, RequestLetGo, RequestFollow, RequestWorker DEF Worker
<1>2. ASSUME NEW r \in Records, RelayPick(r) PROVE RequestInv(k)'
  <2>1. Steady(k, "relay") /\ outbox' = outbox /\ pc'["relay"] # "sent" /\ "relay" \in Procs
    BY <1>2, Members DEF RelayPick, Steady, TypeInv, ControlType, LocalType, Workers
  <2>2. "relay" # WorkerOf(k) BY DEF WorkerOf, Requests
  <2> QED BY <2>1, <2>2, RequestKept
<1>3. CASE RemediationRefused
  <2>1. "remediation" \in Workers BY DEF Workers
  <2> QED BY <1>3, <2>1, RequestWorker
<1>4. CASE UNCHANGED vars
  BY <1>4 DEF vars, RequestInv, Accounted, SentIsOnItsWay, MayForget, Safe, Left, OnItsWay, Waits,
     AtWork, Ended
<1> QED BY <1>1, <1>2, <1>3, <1>4, RequestUpdate, RequestPublish DEF Next, Step, Disturb

LEMMA RequestInit == ASSUME Init, NEW k \in Requests PROVE RequestInv(k)
  BY Stages, Members DEF Init, RequestInv, Accounted, SentIsOnItsWay, MayForget, Records

\* As long as publishes do not fail, a follow-on request is never lost: from the moment it is
\* published it is queued, in a worker's hands or dead-lettered until its stage has ended,
\* through retries, crashes and refusals, because a worker acknowledges only afterwards (consume_queue).
THEOREM NoRequestLost == Spec => []RequestsAccounted
<1> DEFINE Inv == /\ TypeInv /\ Hands
                  /\ NoSendFailed => QuietBus /\ \A k \in Requests : RequestInv(k)
<1>1. Init => Inv
  BY TypeInit, HandsInit, RequestInit DEF Init, QuietBus
<1>2. Inv /\ [Next]_vars => Inv'
  <2> SUFFICES ASSUME Inv, [Next]_vars PROVE Inv' OBVIOUS
  <2>1. ASSUME NoSendFailed' PROVE QuietBus' /\ \A k \in Requests : RequestInv(k)'
    <3>1. QuietBus /\ \A k \in Requests : RequestInv(k) BY <2>1, FailuresCount
    <3>2. \A k \in Requests : Ended(ErrorStageOf(k)) => Ended(ErrorStageOf(k))'
      BY <3>1, EndedStep, Stages DEF QuietBus, NotesError
    <3> QED BY <2>1, <3>1, <3>2, RequestStep, QuietStep
  <2> QED BY <2>1, TypeStep, HandsStep
<1>3. Inv => RequestsAccounted BY DEF RequestInv, RequestsAccounted, Requests
<1> QED BY <1>1, <1>2, <1>3, PTL DEF Spec

\* The error of a failed publish is noted in no remediation stage.
NoErrorNote == \A p \in Procs : pc[p] \in {"error_read", "error_write"} => rec[p][1] # "remediation"

LEMMA NoErrorNoteStep == TypeInv /\ NoErrorNote /\ [Next]_vars => NoErrorNote'
<1> SUFFICES ASSUME TypeInv, NoErrorNote, [Next]_vars PROVE NoErrorNote' OBVIOUS
<1> USE Members DEF TypeInv, ControlType, LocalType, NoErrorNote, Returns, Return, CallUpdate,
                    CallRequest
<1>1. ASSUME NEW p \in Procs, UpdateStage(p) PROVE NoErrorNote'
  BY <1>1 DEF UpdateStage, ReadForUpdate, WriteStage
<1>2. ASSUME NEW p \in Procs, Publish(p) \/ SendFails(p) PROVE NoErrorNote'
  <2>1. CASE CreateOutbox(p)
    BY <2>1 DEF CreateOutbox
  <2>7. CASE Claim(p)
    BY <2>7 DEF Claim
  <2>8. CASE Send(p) \/ SendFails(p)
    BY <2>8 DEF Send, SendFails
  <2>2. CASE MarkPublished(p) BY <2>2 DEF MarkPublished
  <2>3. CASE MarkFailed(p) BY <2>3 DEF MarkFailed
  <2>4. CASE SetItemState(p) BY <2>4 DEF SetItemState
  <2>5. CASE ReadForError(p) BY <2>5 DEF ReadForError
  <2>6. CASE WriteError(p) BY <2>6 DEF WriteError
  <2> QED BY <1>2, <2>1, <2>2, <2>3, <2>4, <2>5, <2>6, <2>7, <2>8 DEF Publish
<1>3. ASSUME NEW p \in Workers, FollowOn(p) PROVE NoErrorNote'
  <2>1. \A q \in Procs \ {p} : pc'[q] = pc[q] /\ rec'[q] = rec[q]
    BY <1>3, FollowOnLeads DEF Onward, Further, Raised
  <2>2. pc'[p] \notin {"error_read", "error_write"}
    BY <1>3, FollowOnLeads DEF Onward, Further, Raised
  <2> QED BY <2>1, <2>2
<1>4. ASSUME NEW p \in Workers, Worker(p) \/ ExecuteFails(p) \/ Crash(p) PROVE NoErrorNote'
  BY <1>3, <1>4 DEF Worker, Deliver, Execute, FastWrite, RequestPolicy, Follow, SetWait,
     AuxDone, RequestSummary, SetDeliverPending, Retry, DeadLetter, Ack, ExecuteFails, Raised, Crash
<1>5. ASSUME NEW r \in Records, RelayPick(r) PROVE NoErrorNote'
  BY <1>5 DEF RelayPick
<1>6. CASE RemediationRefused \/ UNCHANGED vars
  BY <1>6 DEF RemediationRefused, vars
<1> QED BY <1>1, <1>2, <1>4, <1>5, <1>6 DEF Next, Step, Disturb

\* The same of a remediation request, with publishes that fail as well.
THEOREM NoRemediationLost == Spec => []RemediationAccounted
<1> DEFINE Inv == TypeInv /\ NoErrorNote /\ Hands /\ RequestInv("remediation")
<1>1. "remediation" \in Requests BY DEF Requests
<1>2. Init => Inv
  BY <1>1, TypeInit, HandsInit, RequestInit DEF Init, NoErrorNote
<1>3. Inv /\ [Next]_vars => Inv'
  <2> SUFFICES ASSUME Inv, [Next]_vars PROVE Inv' OBVIOUS
  <2>1. \A p \in Procs : ~NotesError(p, "remediation")
    BY Members DEF TypeInv, LocalType, NoErrorNote, NotesError, ErrorStageOf
  <2>2. ErrorStageOf("remediation") = "remediation" /\ "remediation" \in StageNames
    BY DEF ErrorStageOf, StageNames
  <2>3. Ended(ErrorStageOf("remediation")) => Ended(ErrorStageOf("remediation"))'
    BY <2>1, <2>2, EndedStep
  <2> QED BY <1>1, <2>3, TypeStep, HandsStep, NoErrorNoteStep, RequestStep
<1>4. Inv => RemediationAccounted BY DEF RequestInv, RemediationAccounted
<1> QED BY <1>2, <1>3, <1>4, PTL DEF Spec
-----------------------------------------------------------------------------
(***************************************************************************)
(* The workflow summary waits for DIANNA.                                  *)
(***************************************************************************)
Later == {"remediation", "dianna", "summary"}

AfterWait == {"wait_set", "dianna_done", "remediation_done", "aux_done", "summary",
              "request_summary", "set_deliver_pending"}

\* Nobody has got beyond the point where the policy worker stores the requirement.
Upstream ==
    /\ \A p \in Procs : /\ pc[p] \notin AfterWait /\ ret[p] \notin AfterWait
                        /\ rec[p][1] \notin Later /\ msg[p][1] \notin Later
    /\ pc["remediation"] = "idle" /\ pc["dianna"] = "idle"
    /\ \A r \in Records : r[1] \in Later => outbox[r] = "none"
    /\ \A m \in Messages : m[1] \in Later => queue[m] = 0

WaitComesFirst == plan.wait /\ ~wait => Upstream

WaitIsPlanned == wait \/ (\E p \in Procs : pc[p] = "set_wait") => plan.wait

\* A process is about to request the summary.
Asks(p) == pc[p] = "set_deliver_pending" \/ (pc[p] = "create" /\ rec[p][1] = "summary")

\* SummaryWaits with what makes it inductive.
HeldBack ==
    /\ WaitComesFirst /\ WaitIsPlanned
    /\ wait /\ (Requested("summary") \/ \E p \in Procs : Asks(p)) => Ended("dianna")

LEMMA UpstreamStep ==
  ASSUME TypeInv, plan.wait, Upstream, ~wait', [Next]_vars
  PROVE  Upstream'
<1> USE Members DEF TypeInv, ControlType, LocalType, OutboxType, BrokerType, Upstream, AfterWait, Later,
                    Returns, Return, CallUpdate, CallRequest
<1>0. NoRecord[1] \notin Later /\ NoMessage[1] \notin Later BY DEF NoRecord, NoMessage
<1>1. ASSUME NEW p \in Procs, UpdateStage(p) PROVE Upstream'
  BY <1>1 DEF UpdateStage, ReadForUpdate, WriteStage
<1>2. ASSUME NEW p \in Procs, Publish(p) \/ SendFails(p) PROVE Upstream'
  <2>1. CASE CreateOutbox(p)
    <3>1. PICK n \in 1 .. MaxRecords :
            /\ outbox' = [outbox EXCEPT ![<<rec[p][1], n>>] = "pending"]
            /\ rec' = [rec EXCEPT ![p] = <<rec[p][1], n>>]
      BY <2>1 DEF CreateOutbox
    <3>2. \A r \in Records : r[1] \in Later => outbox'[r] = "none"
      BY <3>1
    <3> QED BY <2>1, <3>1, <3>2 DEF CreateOutbox
  <2>2. CASE Claim(p)
    <3>1. \A r \in Records : r[1] \in Later => outbox'[r] = "none"
      BY <2>2 DEF Claim
    <3>2. /\ pc'[p] \notin AfterWait /\ ret'[p] \notin AfterWait
          /\ rec'[p][1] \notin Later /\ p \notin {"remediation", "dianna"}
      BY <1>0, <2>2 DEF Claim
    <3>3. \A q \in Procs \ {p} : pc'[q] = pc[q] /\ ret'[q] = ret[q] /\ rec'[q] = rec[q]
      BY <2>2 DEF Claim
    <3>4. UNCHANGED <<queue, msg>> BY <2>2 DEF Claim
    <3> QED BY <3>1, <3>2, <3>3, <3>4
  <2>3. CASE Send(p) \/ SendFails(p)
    <3>1. queue' = queue \/ queue' = [queue EXCEPT ![<<rec[p][1], 0>>] = @ + 1]
      BY <2>3 DEF Send, SendFails, Enqueue
    <3>2. \A m \in Messages : m[1] \in Later => queue'[m] = 0
      BY <3>1
    <3> QED BY <2>3, <3>2 DEF Send, SendFails
  <2>4. CASE MarkPublished(p)
    <3>1. \A r \in Records : r[1] \in Later => outbox'[r] = "none"
      BY <2>4 DEF MarkPublished
    <3>2. /\ pc'[p] \notin AfterWait /\ ret'[p] \notin AfterWait
          /\ rec'[p][1] \notin Later /\ p \notin {"remediation", "dianna"}
      BY <1>0, <2>4 DEF MarkPublished
    <3>3. \A q \in Procs \ {p} : pc'[q] = pc[q] /\ ret'[q] = ret[q] /\ rec'[q] = rec[q]
      BY <2>4 DEF MarkPublished
    <3>4. UNCHANGED <<queue, msg>> BY <2>4 DEF MarkPublished
    <3> QED BY <3>1, <3>2, <3>3, <3>4
  <2>5. CASE MarkFailed(p)
    <3>1. \A r \in Records : r[1] \in Later => outbox'[r] = "none"
      BY <2>5 DEF MarkFailed
    <3>2. /\ pc'[p] \notin AfterWait /\ ret'[p] \notin AfterWait
          /\ rec'[p][1] \notin Later /\ p \notin {"remediation", "dianna"}
      BY <1>0, <2>5 DEF MarkFailed
    <3>3. \A q \in Procs \ {p} : pc'[q] = pc[q] /\ ret'[q] = ret[q] /\ rec'[q] = rec[q]
      BY <2>5 DEF MarkFailed
    <3>4. UNCHANGED <<queue, msg>> BY <2>5 DEF MarkFailed
    <3> QED BY <3>1, <3>2, <3>3, <3>4
  <2>6. CASE SetItemState(p) BY <1>0, <2>6 DEF SetItemState
  <2>7. CASE ReadForError(p) BY <2>7 DEF ReadForError
  <2>8. CASE WriteError(p)
    <3>1. \A r \in Records : r[1] \in Later => outbox'[r] = "none" BY <2>8 DEF WriteError
    <3>2. /\ pc'[p] \notin AfterWait /\ ret'[p] \notin AfterWait
          /\ rec'[p][1] \notin Later /\ p \notin {"remediation", "dianna"}
      BY <1>0, <2>8 DEF WriteError
    <3>3. \A q \in Procs \ {p} : pc'[q] = pc[q] /\ ret'[q] = ret[q] /\ rec'[q] = rec[q]
      BY <2>8 DEF WriteError
    <3>4. UNCHANGED <<queue, msg>> BY <2>8 DEF WriteError
    <3> QED BY <3>1, <3>2, <3>3, <3>4
  <2> QED BY <1>2, <2>1, <2>2, <2>3, <2>4, <2>5, <2>6, <2>7, <2>8 DEF Publish
<1>3. ASSUME NEW w \in Workers, NEW m \in Messages, Deliver(w, m) PROVE Upstream'
  <2>1. m[1] \notin Later BY <1>3 DEF Deliver
  <2>2. w \notin {"remediation", "dianna"} BY <1>3, <2>1 DEF Deliver, KindsOf
  <2>3. \A x \in Messages : x[1] \in Later => queue'[x] = 0
    BY <1>3, <2>1 DEF Deliver
  <2> QED BY <1>3, <2>1, <2>2, <2>3 DEF Deliver
<1>4. ASSUME NEW w \in Workers, Execute(w) \/ FastWrite(w) \/ RequestPolicy(w) PROVE Upstream'
  BY <1>4 DEF Execute, FastWrite, RequestPolicy
<1>5. ASSUME NEW w \in Workers, Follow(w) PROVE Upstream'
  <2>1. FollowOn(w)
    BY <1>5 DEF Follow, SetWait, AuxDone, RequestSummary, SetDeliverPending
  <2>2. Continue(w, "set_wait") /\ UNCHANGED <<outbox, queue, msg>>
    BY <2>1, FollowOnLeads DEF FollowOn
  <2>3. w \notin {"remediation", "dianna"} BY <2>1 DEF FollowOn
  <2> QED BY <2>2, <2>3
<1>6. ASSUME NEW w \in Workers, Retry(w) \/ Crash(w) PROVE Upstream'
  <2>1. PICK m : m[1] \notin Later /\ Enqueue(m)
    BY <1>6 DEF Retry, Crash
  <2>2. \A x \in Messages : x[1] \in Later => queue'[x] = 0
    BY <2>1 DEF Enqueue
  <2> QED BY <1>6, <2>2 DEF Retry, Crash, NoRecord, NoMessage
<1>7. ASSUME NEW w \in Workers, DeadLetter(w) \/ Ack(w) \/ ExecuteFails(w) PROVE Upstream'
  <2>1. CASE DeadLetter(w) BY <2>1 DEF DeadLetter
  <2>2. CASE Ack(w) BY <1>0, <2>2 DEF Ack
  <2>3. CASE ExecuteFails(w) BY <2>3 DEF ExecuteFails, Raised
  <2> QED BY <1>7, <2>1, <2>2, <2>3
<1>8. ASSUME NEW r \in Records, RelayPick(r) PROVE Upstream'
  BY <1>8 DEF RelayPick
<1>9. CASE RemediationRefused \/ UNCHANGED vars
  BY <1>9 DEF RemediationRefused, vars
<1> QED BY <1>1, <1>2, <1>3, <1>4, <1>5, <1>6, <1>7, <1>8, <1>9 DEF Next, Step, Disturb, Worker

\* Only the policy worker sets the requirement, and only if it is planned.
LEMMA WaitStep ==
  ASSUME TypeInv, WaitIsPlanned, [Next]_vars
  PROVE  /\ WaitIsPlanned' /\ plan' = plan
         /\ wait' = wait \/ (wait' = TRUE /\ \E w \in Workers : SetWait(w))
<1> USE Members DEF TypeInv, ControlType, LocalType, WaitIsPlanned, Returns, Return, CallUpdate,
                    CallRequest
<1> DEFINE Kept == plan' = plan /\ wait' = wait
           Fits(p) == \A q \in Procs : pc'[q] = "set_wait" => pc[q] = "set_wait" \/ plan.wait
<1>1. ASSUME NEW p \in Procs, UpdateStage(p) PROVE Kept /\ Fits(p)
  BY <1>1 DEF UpdateStage, ReadForUpdate, WriteStage
<1>2. ASSUME NEW p \in Procs, Publish(p) \/ SendFails(p) PROVE Kept /\ Fits(p)
  BY <1>2 DEF Publish, CreateOutbox, Claim, Send, MarkPublished, MarkFailed,
     SetItemState, ReadForError, WriteError, SendFails
<1>3. ASSUME NEW p \in Workers, FollowOn(p) PROVE Kept /\ Fits(p)
  <2>1. CASE plan.wait BY <1>3, <2>1, FollowOnLeads
  <2>2. CASE ~plan.wait
    <3>1. Further(p) /\ Kept BY <1>3, <2>2, FollowOnLeads, FollowOnWaits
    <3> QED BY <3>1 DEF Further, Raised
  <2> QED BY <2>1, <2>2
<1>4. ASSUME NEW p \in Workers, AuxDone(p) \/ RequestSummary(p) \/ SetDeliverPending(p) \/ RequestPolicy(p)
      PROVE  Kept /\ Fits(p)
  BY <1>4 DEF AuxDone, RequestSummary, SetDeliverPending, RequestPolicy
<1>5. ASSUME NEW p \in Workers, SetWait(p) PROVE plan' = plan /\ wait' = TRUE /\ Fits(p)
  BY <1>5 DEF SetWait
<1>6. ASSUME NEW p \in Workers, NEW m \in Messages, Deliver(p, m) PROVE Kept /\ Fits(p)
  BY <1>6 DEF Deliver
<1>7. ASSUME NEW p \in Workers, Execute(p) \/ FastWrite(p) PROVE Kept /\ Fits(p)
  BY <1>7 DEF Execute, FastWrite
<1>8. ASSUME NEW p \in Workers, \/ Retry(p) \/ DeadLetter(p) \/ Ack(p)
                               \/ ExecuteFails(p) \/ Crash(p)
      PROVE  Kept /\ Fits(p)
  BY <1>8 DEF Retry, DeadLetter, Ack, ExecuteFails, Raised, Crash
<1>9. ASSUME NEW r \in Records, RelayPick(r) PROVE Kept /\ Fits("relay")
  BY <1>9 DEF RelayPick
<1>10. CASE RemediationRefused \/ UNCHANGED vars
  BY <1>10 DEF RemediationRefused, vars
<1>11. (\E w \in Workers : SetWait(w)) \/ Kept
  BY <1>1, <1>2, <1>3, <1>4, <1>6, <1>7, <1>8, <1>9, <1>10
  DEF Next, Step, Disturb, Worker, Follow, RemediationRefused, vars
<1>12. \E p \in Procs : Fits(p)
  <2>1. CASE RemediationRefused \/ UNCHANGED vars BY <2>1 DEF RemediationRefused, vars
  <2> HIDE DEF Fits
  <2> QED BY <1>1, <1>2, <1>3, <1>4, <1>5, <1>6, <1>7, <1>8, <1>9, <2>1
          DEF Next, Step, Disturb, Worker, Follow
<1>13. plan' = plan /\ (wait' = wait \/ (wait' = TRUE /\ \E w \in Workers : SetWait(w)))
  BY <1>5, <1>11
<1>14. (\E w \in Workers : SetWait(w)) => plan.wait BY DEF SetWait
<1> QED BY <1>12, <1>13, <1>14

\* A process comes to request the summary only from RequestSummary.
LEMMA AskStep ==
  ASSUME TypeInv, ExclusiveClaim, [Next]_vars, Requested("summary")' \/ \E p \in Procs : Asks(p)'
  PROVE  \/ Requested("summary") \/ \E p \in Procs : Asks(p)
         \/ ~DeliveryBlockedByDianna(Row)
<1> USE Members DEF TypeInv, ControlType, LocalType, Returns, Return, CallUpdate, CallRequest, Asks
<1> DEFINE Fits == /\ Requested("summary")' => Requested("summary") \/ \E p \in Procs : Asks(p)
                   /\ \A p \in Procs : Asks(p)' => Asks(p) \/ ~DeliveryBlockedByDianna(Row)
           Calm == /\ outbox' = outbox
                   /\ \A p \in Procs : Asks(p)' => Asks(p) \/ ~DeliveryBlockedByDianna(Row)
<1>0. \A n \in 1 .. MaxRecords : <<"summary", n>> \in Records BY DEF Kinds
<1>13. Calm => Fits BY DEF Requested
<1>1. ASSUME NEW p \in Procs, UpdateStage(p) PROVE Calm
  BY <1>1 DEF UpdateStage, ReadForUpdate, WriteStage
<1>2. ASSUME NEW p \in Procs, Publish(p) \/ SendFails(p) PROVE Fits
  <2>1. CASE CreateOutbox(p)
    <3>1. PICK n \in 1 .. MaxRecords : outbox' = [outbox EXCEPT ![<<rec[p][1], n>>] = "pending"]
      BY <2>1 DEF CreateOutbox
    <3>2. CASE rec[p][1] = "summary" BY <2>1, <3>2 DEF CreateOutbox
    <3>3. CASE rec[p][1] # "summary"
      <4>1. \A x \in 1 .. MaxRecords : outbox'[<<"summary", x>>] = outbox[<<"summary", x>>]
        BY <1>0, <3>1, <3>3 DEF OutboxType
      <4>2. Requested("summary")' => Requested("summary") BY <4>1 DEF Requested
      <4>3. \A q \in Procs : Asks(q)' => Asks(q) BY <2>1 DEF CreateOutbox
      <4> QED BY <4>2, <4>3
    <3> QED BY <3>2, <3>3
  <2>2. CASE Claim(p) \/ MarkPublished(p) \/ MarkFailed(p)
    <3>1. \A r \in Records : outbox'[r] # "none" => outbox[r] # "none"
      <4>1. outbox[rec[p]] # "none" \/ outbox' = outbox
        BY <2>2 DEF Claim, MarkPublished, MarkFailed, ExclusiveClaim
      <4>2. \A r \in Records \ {rec[p]} : outbox'[r] = outbox[r]
        BY <2>2 DEF Claim, MarkPublished, MarkFailed, OutboxType
      <4> QED BY <4>1, <4>2
    <3>2. Requested("summary")' => Requested("summary") BY <1>0, <3>1 DEF Requested
    <3>3. \A q \in Procs : Asks(q)' => Asks(q)
      <4>1. CASE Claim(p) BY <4>1 DEF Claim
      <4>2. CASE MarkPublished(p)
        <5>1. /\ pc'[p] \notin {"set_deliver_pending", "create"}
              /\ \A r \in Procs \ {p} : pc'[r] = pc[r] /\ rec'[r] = rec[r]
          BY <4>2 DEF MarkPublished
        <5> QED BY <5>1
      <4>3. CASE MarkFailed(p) BY <4>3 DEF MarkFailed
      <4> QED BY <2>2, <4>1, <4>2, <4>3
    <3> QED BY <3>2, <3>3
  <2>3. CASE Send(p) \/ SendFails(p)
    <3>1. CASE Send(p) BY <3>1 DEF Send, Requested
    <3>2. CASE SendFails(p)
      <4>1. outbox' = outbox /\ pc'[p] \notin {"set_deliver_pending", "create"}
        BY <3>2 DEF SendFails
      <4>2. \A q \in Procs \ {p} : pc'[q] = pc[q] /\ rec'[q] = rec[q]
        BY <3>2 DEF SendFails
      <4> QED BY <4>1, <4>2 DEF Requested
    <3> QED BY <2>3, <3>1, <3>2
  <2>4. CASE SetItemState(p) \/ ReadForError(p) \/ WriteError(p)
    <3>1. outbox' = outbox BY <2>4 DEF SetItemState, ReadForError, WriteError
    <3>2. CASE SetItemState(p) BY <3>1, <3>2 DEF SetItemState, Requested
    <3>3. CASE ReadForError(p)
      <4>1. pc'[p] \notin {"set_deliver_pending", "create"} BY <3>3 DEF ReadForError
      <4>2. \A q \in Procs \ {p} : pc'[q] = pc[q] /\ rec'[q] = rec[q] BY <3>3 DEF ReadForError
      <4> QED BY <3>1, <4>1, <4>2 DEF Requested
    <3>4. CASE WriteError(p) BY <3>1, <3>4 DEF WriteError, Requested
    <3> QED BY <2>4, <3>2, <3>3, <3>4
  <2> QED BY <1>2, <2>1, <2>2, <2>3, <2>4 DEF Publish
<1>3. ASSUME NEW w \in Workers, NEW m \in Messages, Deliver(w, m) PROVE Calm
  BY <1>3 DEF Deliver
<1>4. ASSUME NEW w \in Workers, Execute(w) \/ FastWrite(w) \/ RequestPolicy(w) PROVE Calm
  <2>1. CASE Execute(w) BY <2>1 DEF Execute
  <2>2. CASE FastWrite(w) BY <2>2 DEF FastWrite
  <2>3. CASE RequestPolicy(w) BY <2>3 DEF RequestPolicy
  <2> QED BY <1>4, <2>1, <2>2, <2>3
<1>5. ASSUME NEW w \in Workers, FollowOn(w) PROVE Calm
  <2>1. Onward(w) BY <1>5, FollowOnLeads
  <2>2. outbox' = outbox BY <1>5, FollowOnLeads
  <2>3. \A q \in Procs \ {w} : pc'[q] = pc[q] /\ rec'[q] = rec[q]
    BY <2>1 DEF Onward, Further, Raised, Continue
  <2>4. pc'[w] # "set_deliver_pending"
    BY <2>1 DEF Onward, Further, Raised, Continue
  <2>5. pc'[w] = "create" => rec'[w][1] # "summary"
    BY <2>1 DEF Onward, Further, Raised, Continue
  <2> QED BY <2>2, <2>3, <2>4, <2>5
<1>6. ASSUME NEW w \in Workers, RequestSummary(w) PROVE Calm
  BY <1>6 DEF RequestSummary
<1>7. ASSUME NEW w \in Workers, SetWait(w) \/ AuxDone(w) \/ SetDeliverPending(w) PROVE Calm
  <2>1. CASE SetWait(w) BY <2>1 DEF SetWait
  <2>2. CASE AuxDone(w) BY <2>2 DEF AuxDone
  <2>3. CASE SetDeliverPending(w) BY <2>3 DEF SetDeliverPending
  <2> QED BY <1>7, <2>1, <2>2, <2>3
<1>8. ASSUME NEW w \in Workers, Retry(w) \/ DeadLetter(w) \/ Ack(w) \/ ExecuteFails(w) \/ Crash(w)
      PROVE  Calm
  BY <1>8 DEF Retry, DeadLetter, Ack, ExecuteFails, Raised, Crash
<1>9. ASSUME NEW r \in Records, RelayPick(r) PROVE Calm
  BY <1>9 DEF RelayPick
<1>10. ASSUME RemediationRefused \/ UNCHANGED vars PROVE Calm
  BY <1>10 DEF RemediationRefused, vars
<1>11. Fits
  <2> HIDE DEF Fits, Calm
  <2> QED BY <1>13, <1>1, <1>2, <1>3, <1>4, <1>5, <1>6, <1>7, <1>8, <1>9, <1>10 DEF Next, Step, Disturb, Worker, Follow
<1> QED BY <1>11

LEMMA HeldBackInit == Init => HeldBack
  BY DEF Init, HeldBack, WaitComesFirst, WaitIsPlanned, Upstream, AfterWait, Later, NoRecord,
         NoMessage, Procs, Workers

LEMMA HeldBackStep ==
  ASSUME TypeInv, ExclusiveClaim, HeldBack, [Next]_vars, Ended("dianna") => Ended("dianna")'
  PROVE  HeldBack'
<1>1. WaitIsPlanned' /\ plan' = plan BY WaitStep DEF HeldBack
<1>2. wait' = wait \/ (wait' = TRUE /\ \E w \in Workers : SetWait(w))
  BY WaitStep DEF HeldBack
<1>3. WaitComesFirst'
  BY <1>1, <1>2, UpstreamStep DEF HeldBack, WaitComesFirst, TypeInv, RowInType
<1>4. ASSUME wait', Requested("summary")' \/ \E p \in Procs : Asks(p)' PROVE Ended("dianna")'
  <2>1. CASE wait
    BY <1>4, <2>1, AskStep DEF HeldBack, DeliveryBlockedByDianna, Row, Ended
  <2>2. CASE ~wait
    <3>1. PICK w \in Workers : SetWait(w) BY <1>2, <1>4, <2>2
    <3>2. Upstream BY <2>2, <3>1, Members DEF HeldBack, WaitComesFirst, WaitIsPlanned, SetWait
    <3>3. \A n \in 1 .. MaxRecords : outbox[<<"summary", n>>] = "none"
      BY <3>2, Members DEF Upstream, Later, Kinds
    <3>4. ~Requested("summary")' BY <3>1, <3>3 DEF Requested, SetWait
    <3>5. \A p \in Procs : ~Asks(p)'
      BY <3>1, <3>2, Members DEF Upstream, AfterWait, Later, SetWait, Asks, TypeInv, ControlType
    <3> QED BY <1>4, <3>4, <3>5
  <2> QED BY <2>1, <2>2
<1> QED BY <1>1, <1>3, <1>4 DEF HeldBack

\* While delivery has to wait for DIANNA, and as long as publishes do not fail, nobody requests
\* the outward summary, whichever worker looks: the requirement is stored before the request that makes others look
\* (_maybe_emit_follow_on_requests, delivery_requirements.wait_for_dianna).
THEOREM SummaryHeldBack == Spec => []SummaryWaits
<1> DEFINE Inv == TypeInv /\ ExclusiveClaim /\ (NoSendFailed => QuietBus /\ HeldBack)
<1>1. Init => Inv
  BY TypeInit, HeldBackInit DEF Init, QuietBus, ExclusiveClaim
<1>2. Inv /\ [Next]_vars => Inv'
  <2> SUFFICES ASSUME Inv, [Next]_vars PROVE Inv' OBVIOUS
  <2>1. ASSUME NoSendFailed' PROVE QuietBus' /\ HeldBack'
    <3>1. QuietBus /\ HeldBack BY <2>1, FailuresCount
    <3>2. "dianna" \in StageNames BY DEF StageNames
    <3>3. Ended("dianna") => Ended("dianna")'
      BY <3>1, <3>2, EndedStep DEF QuietBus, NotesError
    <3> QED BY <2>1, <3>1, <3>3, QuietStep, HeldBackStep
  <2> QED BY <2>1, TypeStep, ClaimStep
<1>3. Inv => SummaryWaits BY DEF HeldBack, SummaryWaits, Ended
<1> QED BY <1>1, <1>2, <1>3, PTL DEF Spec
-----------------------------------------------------------------------------
(***************************************************************************)
(* Nothing that was not asked for.                                         *)
(***************************************************************************)

\* The decision leaves something to be done, and the job service does not refuse it.
Branches == ~plan.fast /\ ~plan.refused

\* The decision asks for requests of kind k.
Wants(k) ==
    CASE k \in {"remediation", "dianna", "summary"} -> Branches /\ plan[k]
      [] k = "aux" -> \/ (plan.fast \/ ~plan.refused) /\ plan.scanResult
                      \/ Branches /\ plan.remediation /\ plan.remediationResult
                      \/ Branches /\ plan.dianna /\ plan.diannaResult
      [] OTHER -> TRUE

NothingUnasked == \A k \in Kinds : Requested(k) \/ OnItsWay(k) => Wants(k)

\* Where a follow-on request is in the making, and where a worker is once the job service has
\* accepted the decision.
Publishing == {"create", "claim", "send", "sent", "unsent"}
Beyond == {"dianna_done", "remediation_done", "aux_done", "summary", "request_summary",
           "set_deliver_pending"}

StoredAsAsked ==
    /\ \A r \in Records : outbox[r] # "none" => Wants(r[1])
    /\ \A m \in Messages : queue[m] > 0 \/ m \in dlq => Wants(m[1])

\* p is where the decision takes it.
Minds(p) ==
    /\ pc[p] \in Publishing => Wants(rec[p][1])
    /\ p \in Workers /\ pc[p] # "idle" => Wants(msg[p][1])
    /\ pc[p] \in Beyond \/ ret[p] \in Beyond => Branches
    /\ pc[p] \in {"request_summary", "set_deliver_pending"} => plan.summary
    /\ pc[p] \in {"set_wait", "wait_set"} => ~plan.fast
    /\ p = "policy" /\ (pc[p] = "followon" \/ ret[p] = "followon") => ~plan.fast

AskedInv == StoredAsAsked /\ \A p \in Procs : Minds(p)

LEMMA WantsStays == ASSUME plan' = plan
                    PROVE  /\ Branches' <=> Branches
                           /\ \A k : Wants(k)' <=> Wants(k)
  BY DEF Branches, Wants

\* What the others have in hand stays as it is.
LEMMA AskedFrame ==
  ASSUME AskedInv, plan' = plan, NEW p \in Procs, StoredAsAsked', Minds(p)',
         \A q \in Procs \ {p} : /\ pc'[q] = pc[q] /\ ret'[q] = ret[q]
                                /\ rec'[q] = rec[q] /\ msg'[q] = msg[q]
  PROVE  AskedInv'
<1>1. ASSUME NEW q \in Procs \ {p} PROVE Minds(q)'
  BY <1>1, WantsStays DEF AskedInv, Minds
<1> QED BY <1>1 DEF AskedInv

LEMMA StoredFrame == ASSUME StoredAsAsked, UNCHANGED <<plan, outbox, queue, dlq>>
                     PROVE  StoredAsAsked'
  BY WantsStays DEF StoredAsAsked

LEMMA AskedPublish ==
  ASSUME TypeInv, AskedInv, NEW p \in Procs, Publish(p) \/ SendFails(p)
  PROVE  AskedInv'
<1> USE Members DEF TypeInv, ControlType, LocalType, Returns
<1>1. /\ plan' = plan /\ rec[p] \in Records /\ Minds(p) /\ StoredAsAsked
      /\ pc[p] \notin {"idle", "set_wait", "wait_set"} /\ pc[p] \notin Beyond /\ msg' = msg
      /\ \A q \in Procs \ {p} : pc'[q] = pc[q] /\ ret'[q] = ret[q] /\ rec'[q] = rec[q]
  <2>1. rec[p] \in Records /\ Minds(p) /\ StoredAsAsked BY DEF AskedInv
  <2>2. CASE CreateOutbox(p)
    <3>1. \E r : rec' = [rec EXCEPT ![p] = r] BY <2>2 DEF CreateOutbox
    <3>2. \A q \in Procs \ {p} : rec'[q] = rec[q] BY <3>1
    <3> QED BY <2>1, <2>2, <3>2 DEF CreateOutbox, Beyond
  <2>3. CASE Claim(p) BY <2>1, <2>3 DEF Claim, Return, Beyond
  <2>4. CASE Send(p) \/ SendFails(p)
    BY <2>1, <2>4 DEF Send, SendFails, Beyond
  <2>5. CASE MarkPublished(p) \/ MarkFailed(p)
    BY <2>1, <2>5 DEF MarkPublished, MarkFailed, Return, Beyond
  <2>6. CASE SetItemState(p) \/ ReadForError(p) \/ WriteError(p)
    BY <2>1, <2>6 DEF SetItemState, ReadForError, WriteError, Return, Beyond
  <2> QED BY <2>2, <2>3, <2>4, <2>5, <2>6 DEF Publish
<1>2. /\ \/ pc'[p] = ret[p] /\ ret'[p] = "idle"
         \/ pc'[p] \in Publishing /\ pc[p] \in Publishing /\ rec'[p][1] = rec[p][1] /\ ret' = ret
         \/ /\ pc'[p] \in {"set_queued", "set_publish_pending", "error_read", "error_write"}
            /\ ret' = ret
  <2>1. CASE CreateOutbox(p)
    <3>1. PICK n \in 1 .. MaxRecords : rec' = [rec EXCEPT ![p] = <<rec[p][1], n>>]
      BY <2>1 DEF CreateOutbox
    <3>2. rec'[p][1] = rec[p][1] BY <3>1
    <3> QED BY <2>1, <3>2 DEF CreateOutbox, Publishing
  <2>2. CASE Claim(p) BY <2>2 DEF Claim, Return, Publishing
  <2>3. CASE Send(p) \/ SendFails(p) BY <2>3 DEF Send, SendFails, Publishing
  <2>4. CASE MarkPublished(p) BY <2>4 DEF MarkPublished, Return
  <2>5. CASE MarkFailed(p) BY <2>5 DEF MarkFailed, Return
  <2>6. CASE SetItemState(p) \/ ReadForError(p) \/ WriteError(p)
    BY <2>6 DEF SetItemState, ReadForError, WriteError, Return
  <2> QED BY <2>1, <2>2, <2>3, <2>4, <2>5, <2>6 DEF Publish
<1>3. Minds(p)'
  BY <1>1, <1>2, WantsStays DEF Minds, Publishing, Beyond
<1>4. StoredAsAsked'
  <2>1. CASE CreateOutbox(p)
    <3>1. PICK n \in 1 .. MaxRecords : outbox' = [outbox EXCEPT ![<<rec[p][1], n>>] = "pending"]
      BY <2>1 DEF CreateOutbox
    <3>2. Wants(rec[p][1]) BY <1>1, <2>1 DEF CreateOutbox, Minds, Publishing
    <3>3. UNCHANGED <<queue, dlq>> BY <2>1 DEF CreateOutbox
    <3>4. ASSUME NEW r \in Records, outbox'[r] # "none" PROVE Wants(r[1])
      <4>1. CASE r = <<rec[p][1], n>> BY <3>2, <4>1
      <4>2. CASE r # <<rec[p][1], n>>
        BY <1>1, <3>1, <3>4, <4>2 DEF StoredAsAsked, OutboxType
      <4> QED BY <4>1, <4>2
    <3> QED BY <1>1, <3>3, <3>4, WantsStays DEF StoredAsAsked
  <2>2. CASE Claim(p) \/ MarkPublished(p) \/ MarkFailed(p)
    <3>1. Wants(rec[p][1])
      BY <1>1, <2>2 DEF Claim, MarkPublished, MarkFailed, Minds, Publishing
    <3>2. /\ UNCHANGED <<queue, dlq>>
          /\ \A r \in Records : outbox'[r] = outbox[r] \/ r = rec[p]
      BY <1>1, <2>2 DEF Claim, MarkPublished, MarkFailed, OutboxType
    <3> QED BY <1>1, <3>1, <3>2, WantsStays DEF StoredAsAsked
  <2>3. CASE Send(p) \/ SendFails(p)
    <3>1. Wants(rec[p][1]) BY <1>1, <2>3 DEF Send, SendFails, Minds, Publishing
    <3>2. /\ UNCHANGED <<outbox, dlq>>
          /\ queue' = queue \/ queue' = [queue EXCEPT ![<<rec[p][1], 0>>] = @ + 1]
      BY <2>3 DEF Send, SendFails, Enqueue
    <3>3. \A m \in Messages : queue'[m] = queue[m] \/ m = <<rec[p][1], 0>>
      BY <3>2 DEF BrokerType
    <3>4. \A m \in Messages : queue'[m] > 0 => queue[m] > 0 \/ m[1] = rec[p][1]
      BY <3>3
    <3> QED BY <1>1, <3>1, <3>2, <3>4, WantsStays DEF StoredAsAsked
  <2>4. CASE SetItemState(p) \/ ReadForError(p) \/ WriteError(p)
    BY <1>1, <2>4, StoredFrame DEF SetItemState, ReadForError, WriteError
  <2> QED BY <2>1, <2>2, <2>3, <2>4 DEF Publish
<1> QED BY <1>1, <1>3, <1>4, AskedFrame

\* The follow-on decisions keep to the decision, once the job service has got so far.
LEMMA FollowOnMinds ==
  ASSUME TypeInv, Hands, NEW w \in Workers, Minds(w), FollowOn(w)
  PROVE  Minds(w)'
<1> USE Members DEF TypeInv, ControlType, LocalType, CallUpdate, CallRequest
<1> DEFINE Calls(l) == pc'[w] = "read" /\ ret'[w] = l
           Asking(k, l) == pc'[w] = "create" /\ ret'[w] = l /\ rec'[w][1] = k
           Goes(l) == pc'[w] = l /\ ret'[w] = ret[w]
<1>1. /\ plan' = plan /\ msg' = msg
      /\ pc[w] \in {"followon", "wait_set", "dianna_done", "remediation_done", "summary"}
      /\ Wants(msg[w][1])
  BY FollowOnLeads DEF Minds
<1>2. \A l : l \in {"ack", "dianna_done", "remediation_done"} /\ Branches /\ Calls(l)
               => Minds(w)'
  BY <1>1, WantsStays DEF Minds, Publishing, Beyond
<1>3. \A k, l : Branches /\ Wants(k) /\ Asking(k, l) /\ l \in {"ack", "aux_done", "dianna_done"}
                  => Minds(w)'
  BY <1>1, WantsStays DEF Minds, Publishing, Beyond
<1>4. /\ Branches /\ plan.summary /\ Goes("request_summary") => Minds(w)'
      /\ \A l : l \in {"ack", "retry", "dead_letter"} /\ Goes(l) => Minds(w)'
      /\ ~plan.fast /\ Goes("set_wait") => Minds(w)'
  BY <1>1, WantsStays DEF Minds, Publishing, Beyond
<1>5. \A x : Branches /\ Summary(w, x) => Minds(w)'
  <2>1. \A x : Summary(w, x) => \/ plan.summary /\ Goes("request_summary")
                                \/ Calls("ack") \/ Goes("ack")
    BY DEF Summary
  <2> QED BY <1>2, <1>4, <2>1
<1>6. \A x, due : Branches /\ (due => Wants("aux")) /\ ResultThenSummary(w, x, due) => Minds(w)'
  <2>1. \A x, due : ResultThenSummary(w, x, due) => \/ due /\ Asking("aux", "aux_done")
                                                    \/ Summary(w, x)
    BY DEF ResultThenSummary, Kinds
  <2> QED BY <1>3, <1>5, <2>1
<1>7. /\ Branches /\ plan.scanResult => Wants("aux")
      /\ Branches /\ plan.remediation => Wants("remediation")
      /\ Branches /\ plan.dianna => Wants("dianna")
  BY DEF Wants, Branches
<1>8. \A x : Branches /\ AfterDianna(w, x) => Minds(w)'
  <2>1. \A x : AfterDianna(w, x) => \/ plan.remediation /\ Asking("remediation", "ack")
                                    \/ Calls("remediation_done")
                                    \/ ResultThenSummary(w, x, plan.scanResult)
    BY DEF AfterDianna
  <2> QED BY <1>2, <1>3, <1>6, <1>7, <2>1
<1>9. \A x : ~plan.fast /\ AfterPolicy(w, x) => Minds(w)'
  <2>1. \A x : AfterPolicy(w, x) =>
          \/ \E l \in {"retry", "dead_letter"} : Goes(l)
          \/ ~plan.refused /\ plan.dianna /\ Asking("dianna", "dianna_done")
          \/ ~plan.refused /\ Calls("dianna_done")
          \/ ~plan.refused /\ AfterDianna(w, x)
    BY DEF AfterPolicy, Raised
  <2> QED BY <1>2, <1>3, <1>4, <1>7, <1>8, <2>1 DEF Branches
<1>10. CASE pc[w] = "followon" /\ w = "policy"
  <2>1. ~plan.fast BY <1>10 DEF Minds
  <2>2. Goes("set_wait") \/ AfterPolicy(w, Row) BY <1>10 DEF FollowOn
  <2> QED BY <1>4, <1>9, <2>1, <2>2
<1>11. CASE pc[w] = "wait_set"
  BY <1>9, <1>11 DEF FollowOn, Minds
<1>12. CASE pc[w] \in {"dianna_done", "remediation_done", "summary"}
  <2>1. Branches BY <1>12 DEF Minds, Beyond
  <2>2. AfterDianna(w, Row) \/ ResultThenSummary(w, Row, plan.scanResult) \/ Summary(w, Row)
    BY <1>12 DEF FollowOn
  <2> QED BY <1>5, <1>6, <1>7, <1>8, <2>1, <2>2
<1>13. CASE pc[w] = "followon" /\ w # "policy"
  <2>1. \/ w = "remediation" /\ ResultThenSummary(w, Row, plan.remediationResult)
        \/ w = "dianna" /\ (ResultThenSummary(w, Row, plan.diannaResult) \/ Goes("ack"))
    BY <1>13 DEF FollowOn
  <2>2. Wants(w)
    BY <1>1, <1>13, <2>1 DEF Hands, KindsOf
  <2>3. /\ w = "remediation" => Branches /\ (plan.remediationResult => Wants("aux"))
        /\ w = "dianna" => Branches /\ (plan.diannaResult => Wants("aux"))
    BY <2>2 DEF Wants
  <2> QED BY <1>4, <1>6, <2>1, <2>3
<1> QED BY <1>1, <1>10, <1>11, <1>12, <1>13

LEMMA AskedWorker ==
  ASSUME TypeInv, Hands, AskedInv, NEW w \in Workers,
         UpdateStage(w) \/ Worker(w) \/ ExecuteFails(w) \/ Crash(w)
           \/ (w = "remediation" /\ RemediationRefused)
  PROVE  AskedInv'
<1> USE Members DEF TypeInv, ControlType, LocalType, Returns, CallUpdate, CallRequest, Raised
<1>1. /\ plan' = plan /\ w \in Procs /\ Minds(w) /\ StoredAsAsked /\ outbox' = outbox
      /\ \A q \in Procs \ {w} : /\ pc'[q] = pc[q] /\ ret'[q] = ret[q]
                                /\ rec'[q] = rec[q] /\ msg'[q] = msg[q]
  <2>1. CASE Follow(w)
    BY <2>1, FollowOnLeads DEF AskedInv, Follow, Onward, Further, SetWait, AuxDone, RequestSummary,
       SetDeliverPending
  <2>2. CASE ~Follow(w)
    BY <2>2 DEF AskedInv, UpdateStage, ReadForUpdate, WriteStage, Return, Worker, Deliver, Execute,
       FastWrite, RequestPolicy, Retry, DeadLetter, Ack, ExecuteFails, Crash, RemediationRefused
  <2> QED BY <2>1, <2>2
<1>2. CASE FollowOn(w)
  <2>1. Minds(w)' BY <1>1, <1>2, FollowOnMinds
  <2>2. StoredAsAsked' BY <1>1, <1>2, FollowOnLeads, StoredFrame
  <2> QED BY <1>1, <2>1, <2>2, AskedFrame
<1>3. CASE UpdateStage(w)
  <2>1. Minds(w)'
    BY <1>1, <1>3, WantsStays DEF UpdateStage, ReadForUpdate, WriteStage, Return, Minds, Publishing,
       Beyond
  <2>2. StoredAsAsked' BY <1>1, <1>3, StoredFrame DEF UpdateStage, ReadForUpdate, WriteStage
  <2> QED BY <1>1, <2>1, <2>2, AskedFrame
<1>4. CASE SetWait(w) \/ AuxDone(w) \/ RequestSummary(w) \/ SetDeliverPending(w)
  <2>1. Minds(w)'
    <3>1. CASE SetWait(w) \/ AuxDone(w)
      BY <1>1, <3>1, WantsStays DEF SetWait, AuxDone, Minds, Publishing, Beyond
    <3>2. CASE RequestSummary(w) \/ SetDeliverPending(w)
      <4>1. Branches /\ plan.summary /\ Wants("summary")
        BY <1>1, <3>2 DEF RequestSummary, SetDeliverPending, Minds, Beyond, Wants
      <4> QED BY <1>1, <3>2, <4>1, WantsStays DEF RequestSummary, SetDeliverPending, Minds,
                 Publishing, Beyond
    <3> QED BY <1>4, <3>1, <3>2
  <2>2. StoredAsAsked'
    BY <1>1, <1>4, StoredFrame DEF SetWait, AuxDone, RequestSummary, SetDeliverPending
  <2> QED BY <1>1, <2>1, <2>2, AskedFrame
<1>5. ASSUME NEW m \in Messages, Deliver(w, m) PROVE AskedInv'
  <2>1. Wants(m[1]) BY <1>1, <1>5 DEF Deliver, StoredAsAsked
  <2>2. Minds(w)' BY <1>1, <1>5, <2>1, WantsStays DEF Deliver, Minds, Publishing, Beyond
  <2>3. \A x \in Messages : queue'[x] > 0 => queue[x] > 0
    BY <1>5 DEF Deliver, BrokerType
  <2>4. dlq' = dlq BY <1>5 DEF Deliver
  <2>5. StoredAsAsked' BY <1>1, <2>3, <2>4, WantsStays DEF StoredAsAsked
  <2> QED BY <1>1, <2>2, <2>5, AskedFrame
<1>6. CASE Execute(w)
  <2>1. plan.fast /\ plan.scanResult => Wants("aux") BY DEF Wants
  <2>2. Minds(w)'
    BY <1>1, <1>6, <2>1, WantsStays DEF Execute, Minds, Publishing, Beyond
  <2>3. StoredAsAsked' BY <1>1, <1>6, StoredFrame DEF Execute
  <2> QED BY <1>1, <2>2, <2>3, AskedFrame
<1>7. CASE FastWrite(w) \/ RequestPolicy(w)
  <2>1. Wants("policy") BY DEF Wants
  <2>2. Minds(w)'
    BY <1>1, <1>7, <2>1, WantsStays DEF FastWrite, RequestPolicy, Minds, Publishing, Beyond
  <2>3. StoredAsAsked' BY <1>1, <1>7, StoredFrame DEF FastWrite, RequestPolicy
  <2> QED BY <1>1, <2>2, <2>3, AskedFrame
<1>8. CASE Retry(w) \/ Crash(w)
  <2>1. Wants(msg[w][1]) /\ msg[w] \in Messages
    BY <1>1, <1>8 DEF Retry, Crash, Minds
  <2>2. Minds(w)'
    BY <1>1, <1>8, WantsStays DEF Retry, Crash, Minds, Publishing, Beyond
  <2>3. dlq' = dlq BY <1>8 DEF Retry, Crash
  <2>4. \A x \in Messages : queue'[x] > 0 => queue[x] > 0 \/ x[1] = msg[w][1]
    <3>1. ASSUME NEW m, Enqueue(m) PROVE \A x \in Messages : queue'[x] > 0 => queue[x] > 0 \/ x = m
      BY <3>1 DEF Enqueue, BrokerType
    <3>2. CASE Retry(w) BY <3>1, <3>2 DEF Retry
    <3>3. CASE Crash(w) BY <3>1, <3>3 DEF Crash
    <3> QED BY <1>8, <3>2, <3>3
  <2>5. StoredAsAsked' BY <1>1, <2>1, <2>3, <2>4, WantsStays DEF StoredAsAsked
  <2> QED BY <1>1, <2>2, <2>5, AskedFrame
<1>9. CASE DeadLetter(w) \/ Ack(w)
  <2>1. Minds(w)'
    BY <1>1, <1>9, WantsStays DEF DeadLetter, Ack, Minds, Publishing, Beyond
  <2>2. queue' = queue /\ (dlq' = dlq \/ (pc[w] # "idle" /\ dlq' = dlq \cup {msg[w]}))
    BY <1>9 DEF DeadLetter, Ack
  <2>3. StoredAsAsked' BY <1>1, <2>2, WantsStays DEF StoredAsAsked, Minds
  <2> QED BY <1>1, <2>1, <2>3, AskedFrame
<1>10. CASE ExecuteFails(w) \/ (w = "remediation" /\ RemediationRefused)
  <2>1. Minds(w)'
    BY <1>1, <1>10, WantsStays DEF ExecuteFails, RemediationRefused, Minds, Publishing, Beyond
  <2>2. StoredAsAsked' BY <1>1, <1>10, StoredFrame DEF ExecuteFails, RemediationRefused
  <2> QED BY <1>1, <2>1, <2>2, AskedFrame
<1> QED BY <1>2, <1>3, <1>4, <1>5, <1>6, <1>7, <1>8, <1>9, <1>10 DEF Worker, Follow

LEMMA PlanStays == [Next]_vars => plan' = plan
<1> SUFFICES ASSUME [Next]_vars PROVE plan' = plan OBVIOUS
<1>1. ASSUME NEW p, UpdateStage(p) \/ Publish(p) \/ SendFails(p) PROVE plan' = plan
  BY <1>1 DEF UpdateStage, ReadForUpdate, WriteStage, Publish, CreateOutbox, Claim, Send,
     MarkPublished, MarkFailed, SetItemState, ReadForError, WriteError, SendFails
<1>2. ASSUME NEW p, Follow(p) PROVE plan' = plan
  BY <1>2, FollowOnLeads DEF Follow, SetWait, AuxDone, RequestSummary, SetDeliverPending
<1>3. ASSUME NEW p, Worker(p) \/ ExecuteFails(p) \/ Crash(p) PROVE plan' = plan
  BY <1>2, <1>3 DEF Worker, Deliver, Execute, FastWrite, RequestPolicy, Retry, DeadLetter, Ack,
     ExecuteFails, Crash
<1>4. ASSUME NEW r, RelayPick(r) PROVE plan' = plan BY <1>4 DEF RelayPick
<1>5. RemediationRefused => plan' = plan BY DEF RemediationRefused
<1>6. UNCHANGED vars => plan' = plan BY DEF vars
<1> QED BY <1>1, <1>3, <1>4, <1>5, <1>6 DEF Next, Step, Disturb

LEMMA AskedStep == TypeInv /\ Hands /\ AskedInv /\ [Next]_vars => AskedInv' /\ plan' = plan
<1> SUFFICES ASSUME TypeInv, Hands, AskedInv, [Next]_vars PROVE AskedInv' /\ plan' = plan OBVIOUS
<1>1. plan' = plan BY PlanStays
<1>2. ASSUME NEW r \in Records, RelayPick(r) PROVE AskedInv'
  <2>1. /\ pc'["relay"] = "claim" /\ rec'["relay"] = r /\ ret' = ret /\ msg' = msg
        /\ \A q \in Procs \ {"relay"} : pc'[q] = pc[q] /\ rec'[q] = rec[q]
        /\ outbox[r] = "pending" /\ UNCHANGED <<outbox, queue, dlq>>
    BY <1>2, Members DEF RelayPick, TypeInv, ControlType, LocalType
  <2>2. StoredAsAsked' BY <1>1, <2>1, StoredFrame DEF AskedInv
  <2>3. Minds("relay")'
    BY <1>1, <2>1, Members, WantsStays DEF AskedInv, StoredAsAsked, Minds, Workers, Publishing,
       Beyond
  <2> QED BY <1>1, <2>1, <2>2, <2>3, Members, AskedFrame
<1>3. ASSUME UpdateStage("relay") PROVE AskedInv'
  <2> USE Members DEF TypeInv, ControlType, LocalType, Returns
  <2>1. /\ UNCHANGED <<outbox, queue, dlq, msg, rec>> /\ "relay" \in Procs
        /\ \A q \in Procs \ {"relay"} : pc'[q] = pc[q] /\ ret'[q] = ret[q]
    BY <1>3 DEF UpdateStage, ReadForUpdate, WriteStage, Return
  <2>2. Minds("relay")'
    <3>1. \/ pc'["relay"] = ret["relay"] /\ ret'["relay"] = "idle"
          \/ pc'["relay"] = "write" /\ ret'["relay"] = ret["relay"]
      BY <2>1, <1>3 DEF UpdateStage, ReadForUpdate, WriteStage, Return
    <3>2. "relay" \notin Workers /\ Minds("relay") BY <2>1 DEF Workers, AskedInv
    <3> QED BY <1>1, <2>1, <3>1, <3>2, WantsStays DEF Minds, Publishing, Beyond
  <2>3. StoredAsAsked' BY <1>1, <2>1, StoredFrame DEF AskedInv
  <2> QED BY <1>1, <2>1, <2>2, <2>3, AskedFrame
<1>4. CASE UNCHANGED vars
  BY <1>1, <1>4, WantsStays DEF vars, AskedInv, StoredAsAsked, Minds
<1>5. ASSUME NEW p \in Procs, Step(p) \/ SendFails(p) PROVE AskedInv'
  <2>1. p \in Workers \/ p = "relay" BY DEF Procs
  <2>2. CASE Publish(p) \/ SendFails(p) BY <2>2, AskedPublish
  <2>3. CASE p \in Workers /\ (UpdateStage(p) \/ Worker(p)) BY <2>3, AskedWorker
  <2>4. CASE p = "relay" /\ UpdateStage(p) BY <1>3, <2>4
  <2>5. ASSUME NEW r \in Records, RelayPick(r) PROVE AskedInv' BY <1>2, <2>5
  <2> QED BY <1>5, <2>1, <2>2, <2>3, <2>4, <2>5 DEF Step
<1>6. "remediation" \in Workers BY DEF Workers
<1> QED BY <1>1, <1>4, <1>5, <1>6, AskedWorker DEF Next, Disturb

LEMMA AskedInit == Init => AskedInv
  BY Members DEF Init, AskedInv, StoredAsAsked, Minds, Wants, NoMessage, Publishing, Beyond

LEMMA AskedInvariant == Spec => [](TypeInv /\ Hands /\ AskedInv)
  BY TypeInit, TypeStep, HandsInit, HandsStep, AskedInit, AskedStep, PTL DEF Spec

LEMMA InvAsked == TypeInv /\ AskedInv => NothingUnasked
<1> SUFFICES ASSUME TypeInv, AskedInv, NEW k \in Kinds, Requested(k) \/ OnItsWay(k)
             PROVE  Wants(k)
  BY DEF NothingUnasked
<1>1. CASE Requested(k)
  BY <1>1, Members DEF Requested, AskedInv, StoredAsAsked
<1>2. CASE OnItsWay(k)
  <2>1. ASSUME NEW a \in 0 .. MaxRetry, queue[<<k, a>>] > 0 \/ <<k, a>> \in dlq PROVE Wants(k)
    <3>1. <<k, a>> \in Messages BY DEF Messages
    <3> QED BY <2>1, <3>1 DEF AskedInv, StoredAsAsked
  <2>2. ASSUME NEW w \in Workers, pc[w] # "idle", msg[w][1] = k PROVE Wants(k)
    BY <2>2, Members DEF AskedInv, Minds
  <2> QED BY <1>2, <2>1, <2>2 DEF OnItsWay
<1> QED BY <1>1, <1>2

\* Whatever is asked of a worker was decided: a remediation, an analysis by DIANNA, a summary or
\* a stage result is requested, queued, in hand or dead-lettered only if the policy's decision
\* asks for it and the job service has accepted that decision
\* (_maybe_emit_follow_on_requests, _try_fast_complete_policy_stage).
THEOREM OnlyWhatWasDecided == Spec => []NothingUnasked
  BY InvAsked, AskedInvariant, PTL
-----------------------------------------------------------------------------
(***************************************************************************)
(* The decisions of the policy engine, and what they lead to.              *)
(***************************************************************************)
Engine == INSTANCE PolicyRules

Configured(integration, scope) == Engine!resolve_policy_runtime_config(integration, scope)

\* Nothing but the rules chooses the remediation: neither the payload of the item nor a plan
\* that is configured for a verdict other than "malicious".
ByTheRules(config, file) ==
    /\ {"policyDecision", "remediationPlan"} \cap DOMAIN file.payload = {}
    /\ \A verdict : verdict # "malicious" =>
         Engine!Get(Engine!Get(config, "remediation_plan_by_verdict", Engine!Unset), verdict, "none")
           = "none"

\* Every decision of the engine is one that the theorems about ItemWorkflow speak of: whatever
\* the configuration and the file, it is in Plan.  A decision that comes with the payload is
\* validated to have truth values (PolicyDecision.model_validate).
THEOREM DecisionsCovered ==
  ASSUME NEW integration, NEW scope, NEW file,
         "policyDecision" \in DOMAIN file.payload =>
           /\ file.payload.policyDecision.request_dianna \in BOOLEAN
           /\ file.payload.policyDecision.wait_for_dianna \in BOOLEAN
  PROVE  Engine!PlanFor(integration, scope, file) \in Plan
<1> DEFINE config == Configured(integration, scope)
           decision == Engine!Decision(config, file)
<1>1. /\ decision.request_dianna \in BOOLEAN
      /\ decision.wait_for_dianna \in BOOLEAN
  BY DEF Engine!Decision, Engine!RequestsDianna
<1>2. Engine!FastCompletes(config, decision, file) \in BOOLEAN
  BY DEF Engine!FastCompletes
<1>3. \A family : Engine!extract_delivery_target(config, decision, file, family) \in BOOLEAN
  BY DEF Engine!extract_delivery_target
<1> HIDE DEF config, decision
<1>4. Engine!Plan(config, decision, file) \in Plan
  BY <1>1, <1>2, <1>3 DEF Engine!Plan, Plan
<1> QED BY <1>4 DEF Engine!PlanFor, Configured, config, decision

\* What the rules remediate they hold malicious.
LEMMA RemediatesMalicious ==
  ASSUME NEW config, NEW file, ByTheRules(config, file),
         Engine!Decision(config, file).remediation_plan # "none"
  PROVE  Engine!EffectiveVerdict(config, file) = "malicious"
<1> SUFFICES ASSUME Engine!EffectiveVerdict(config, file) # "malicious" PROVE FALSE OBVIOUS
<1>1. Engine!RemediationPlan(config, file) # "none"
  BY DEF Engine!Decision, ByTheRules
<1>2. Engine!Get(file.payload, "remediationPlan", "none") = "none"
  BY DEF ByTheRules, Engine!Get
<1>3. /\ Engine!Blocked(config, file)
           => Engine!configured_action(config, "non_compliant") = "detect_only"
      /\ Engine!NotScanned(file)
           => Engine!configured_action(config, "not_scanned") = "detect_only"
  BY DEF Engine!EffectiveVerdict
<1>4. Engine!remediation_plan_for_action("detect_only") = "none"
  BY DEF Engine!remediation_plan_for_action
<1>5. Engine!default_remediation_plan_for_verdict(config, Engine!EffectiveVerdict(config, file))
        = "none"
  BY DEF Engine!default_remediation_plan_for_verdict
<1>6. \A a, b, c, d, e : (a = "none" /\ b = "none" /\ c = "none" /\ d = "none" /\ e = "none")
        => Engine!FirstPlan(<<a, b, c, d, e>>) = "none"
  BY DEF Engine!FirstPlan
<1> QED BY <1>1, <1>2, <1>3, <1>4, <1>5, <1>6 DEF Engine!RemediationPlan, ByTheRules

\* A file that the scan does not call malicious, not compliant or not scanned, and whose type is
\* not blocked, is left alone, whatever the configuration says: no remediation of it is ever
\* requested, queued or taken up (stub_policy_engine).
THEOREM FilesLeftAlone ==
  ASSUME NEW integration, NEW scope, NEW file,
         ByTheRules(Configured(integration, scope), file),
         file.verdict \notin {"malicious", "non_compliant", "not_scanned"},
         ~Engine!Blocked(Configured(integration, scope), file)
  PROVE  Spec /\ plan = Engine!PlanFor(integration, scope, file)
           => [](~Requested("remediation") /\ ~OnItsWay("remediation"))
<1> DEFINE config == Configured(integration, scope)
           decided == Engine!PlanFor(integration, scope, file)
           Inv == TypeInv /\ Hands /\ AskedInv /\ plan = decided
           Alone == ~Requested("remediation") /\ ~OnItsWay("remediation")
<1>1. ~decided.remediation
  <2>1. Engine!EffectiveVerdict(config, file) # "malicious"
    BY DEF Engine!EffectiveVerdict, Engine!NotScanned, Engine!effective_policy_verdict
  <2>2. Engine!Decision(config, file).remediation_plan = "none"
    BY <2>1, RemediatesMalicious
  <2> QED BY <2>2 DEF Engine!PlanFor, Engine!Plan, Configured
<1> HIDE DEF config, decided
<1>2. Init /\ plan = decided => Inv BY TypeInit, HandsInit, AskedInit
<1>3. Inv /\ [Next]_vars => Inv'
  <2>1. decided' = decided BY DEF decided
  <2> QED BY <2>1, TypeStep, HandsStep, AskedStep
<1>4. Inv => Alone
  <2>1. "remediation" \in Kinds BY DEF Kinds
  <2> QED BY <1>1, <2>1, InvAsked DEF NothingUnasked, Wants
<1>5. Spec /\ plan = decided => []Alone BY <1>2, <1>3, <1>4, PTL DEF Spec
<1> QED BY <1>5 DEF decided

\* DIANNA is asked about no file to which the scan gave another verdict than malicious or
\* suspicious, and about none whose content is not at hand, whatever the configuration, the
\* payload or a decision that came with it ask for (request_dianna_analysis, which lets pass a
\* file that the scan gave no verdict at all).
THEOREM ClearedNeverAnalyzed ==
  ASSUME NEW integration, NEW scope, NEW file
  PROVE  Spec /\ plan = Engine!PlanFor(integration, scope, file)
           => [](Requested("dianna") \/ OnItsWay("dianna")
                   => /\ file.verdict \in {"malicious", "suspicious", Engine!NoVerdict}
                      /\ \/ file.content # "none"
                         \/ Engine!content_preservation(Configured(integration, scope), file)
                              \in {"cached", "quarantine"})
<1> DEFINE decided == Engine!PlanFor(integration, scope, file)
           Inv == TypeInv /\ Hands /\ AskedInv /\ plan = decided
           Accepted == /\ file.verdict \in {"malicious", "suspicious", Engine!NoVerdict}
                       /\ \/ file.content # "none"
                          \/ Engine!content_preservation(Configured(integration, scope), file)
                               \in {"cached", "quarantine"}
           Suspect == Requested("dianna") \/ OnItsWay("dianna") => Accepted
<1>1. decided.dianna /\ ~decided.refused => Accepted
  BY DEF Engine!PlanFor, Engine!Plan, Engine!DiannaRefused, Configured
<1> HIDE DEF decided, Accepted
<1>2. Init /\ plan = decided => Inv BY TypeInit, HandsInit, AskedInit
<1>3. Inv /\ [Next]_vars => Inv'
  <2>1. decided' = decided BY DEF decided
  <2> QED BY <2>1, TypeStep, HandsStep, AskedStep
<1>4. Inv => Suspect
  <2>1. "dianna" \in Kinds BY DEF Kinds
  <2> QED BY <1>1, <2>1, InvAsked DEF NothingUnasked, Wants, Branches
<1>5. Spec /\ plan = decided => []Suspect BY <1>2, <1>3, <1>4, PTL DEF Spec
<1> QED BY <1>5 DEF decided, Accepted
=============================================================================
