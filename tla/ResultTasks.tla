----------------------------- MODULE ResultTasks -----------------------------
(***************************************************************************)
(* dsx_connect: what follows a scan.  The scan_request task sends a        *)
(* verdict task, which has the connector act on a malicious file and sends *)
(* a result task, which logs the result, stores it and may send the file   *)
(* to DIANNA.  Celery acknowledges a message when its task has ended; what *)
(* fails for good becomes a dead letter, which an API route sends again.   *)
(*                                                                         *)
(* root is the id of the scan_request task that all tasks of a file carry. *)
(***************************************************************************)
EXTENDS Integers, FiniteSets, Bags, BagsExt

CONSTANTS
    Workers,        \* worker processes
    Limits,         \* max_retries of the retry policies
    CeleryRetries,  \* max_retries of the Celery tasks, left as Celery has it: 3
    MaxRequeues,    \* bound: dead letters sent again
    FaultPlans      \* bound: how often a worker or route dies, a send raises though it has
                    \* sent, and anything else fails, in one behaviour

ASSUME ResultAssumption == MaxRequeues \in Nat

VARIABLES
    limit,          \* max_retries of the environment's policy
    job,            \* the request belongs to a job
    malicious,      \* the verdict
    auto,           \* dianna.auto_on_malicious, and the file is
    present,        \* the file is where it was found
    queue,          \* bag of tasks
    run,            \* per worker: its step and its task
    dlq,            \* bag of dead letters
    requeue,        \* the dead letter in the hands of the requeue route
    requeues,       \* how many it has taken
    guarded,        \* roots with a key dianna:auto:enqueued
    scanned,        \* history: roots whose verdict has been sent
    logged,         \* history: per root, results logged
    analyses,       \* history: per root, automatic analyses sent
    lost,           \* history: roots that Celery, the dead-letter store or the route has let go
    faults

setup == <<limit, job, malicious, auto>>
history == <<scanned, logged, analyses, lost>>
vars == <<setup, present, queue, run, dlq, requeue, requeues, guarded, history, faults>>

Kinds == {"scan", "verdict", "result", "dianna"}
Roots == 1 .. MaxRequeues + 1
Task(kind, root) == [kind |-> kind, root |-> root, retries |-> 0]
NoTask == Task("none", 0)
Idle == [pc |-> "idle", task |-> NoTask]

Init ==
    /\ limit \in Limits
    /\ job \in BOOLEAN /\ malicious \in BOOLEAN /\ auto \in {FALSE, malicious}
    /\ present = TRUE
    /\ queue = SetToBag({Task("scan", 1)})
    /\ run = [w \in Workers |-> Idle]
    /\ dlq = EmptyBag /\ requeue = NoTask /\ requeues = 0
    /\ guarded = {} /\ scanned = {} /\ lost = {}
    /\ logged = [r \in Roots |-> 0] /\ analyses = [r \in Roots |-> 0]
    /\ faults = [death |-> 0, unsure |-> 0, failure |-> 0]

Fault(kind) ==
    /\ faults' = [faults EXCEPT ![kind] = @ + 1]
    /\ \E p \in FaultPlans : \A k \in DOMAIN p : faults'[k] <= p[k]

At(w, l) == run[w].pc = l
Root(w) == run[w].task.root
Goto(w, l) == run' = [run EXCEPT ![w].pc = l]

\* send_task, and where the task goes on if it raises.  It may raise and have sent.
Send(w, task, next, failed) ==
    \/ queue' = BagAdd(queue, task) /\ Goto(w, next) /\ UNCHANGED faults
    \/ UNCHANGED queue /\ Goto(w, failed) /\ Fault("failure")
    \/ queue' = BagAdd(queue, task) /\ Goto(w, failed) /\ Fault("unsure")
-----------------------------------------------------------------------------
(***************************************************************************)
(* BaseWorker.run.                                                         *)
(***************************************************************************)
\* (Workers are alike: one of the idle ones.)
Receive(w, t) ==
    /\ At(w, "idle") /\ w = CHOOSE v \in Workers : At(v, "idle")
    /\ BagIn(t, queue)
    /\ queue' = BagRemove(queue, t)
    /\ run' = [run EXCEPT ![w] = [pc |-> t.kind, task |-> t]]
    /\ UNCHANGED <<setup, present, dlq, requeue, requeues, guarded, history, faults>>

\* _handle_exception: Celery's retry keeps the task's id.  Beyond Celery's own limit it raises
\* the error instead of sending the task, and the task has ended.
Raised(w) ==
    /\ At(w, "raised")
    /\ LET t == run[w].task
       IN  \/ /\ t.retries < limit /\ t.retries < CeleryRetries
              /\ queue' = BagAdd(queue, [t EXCEPT !.retries = @ + 1])
              /\ Goto(w, "ack") /\ UNCHANGED lost
           \/ /\ t.retries < limit /\ t.retries >= CeleryRetries
              /\ lost' = lost \cup {t.root}
              /\ Goto(w, "ack") /\ UNCHANGED queue
           \/ /\ t.retries >= limit
              /\ Goto(w, "dead") /\ UNCHANGED <<queue, lost>>
    /\ UNCHANGED <<setup, present, dlq, requeue, requeues, guarded, scanned, logged, analyses, faults>>

Letter(t) == Task(IF t.kind = "dianna" THEN "scan" ELSE t.kind, t.root)

\* Mutant: a verdict's failure is left to Celery's result backend.
DeadLetter_results(w) ==
    /\ At(w, "dead")
    /\ dlq' = IF run[w].task.kind = "verdict" THEN dlq ELSE BagAdd(dlq, Letter(run[w].task))
    /\ Goto(w, "ack")
    /\ UNCHANGED <<setup, present, queue, requeue, requeues, guarded, history, faults>>

\* _handle_final_failure.  A failed analysis is kept as a scan request; a store that fails is
\* not noticed.
DeadLetter(w) ==
    /\ At(w, "dead")
    /\ \/ /\ dlq' = BagAdd(dlq, Letter(run[w].task))
          /\ UNCHANGED <<lost, faults>>
       \/ /\ Fault("failure")
          /\ lost' = lost \cup {Root(w)}
          /\ UNCHANGED dlq
    /\ Goto(w, "ack")
    /\ UNCHANGED <<setup, present, queue, requeue, requeues, guarded, scanned, logged, analyses>>

Ack(w) ==
    /\ At(w, "ack")
    /\ run' = [run EXCEPT ![w] = Idle]
    /\ UNCHANGED <<setup, present, queue, dlq, requeue, requeues, guarded, history, faults>>

\* task_acks_late: the message is delivered again.
Dies(w) ==
    /\ ~At(w, "idle") /\ Fault("death")
    /\ queue' = BagAdd(queue, run[w].task)
    /\ run' = [run EXCEPT ![w] = Idle]
    /\ UNCHANGED <<setup, present, dlq, requeue, requeues, guarded, history>>
-----------------------------------------------------------------------------
(***************************************************************************)
(* The tasks.                                                              *)
(***************************************************************************)
\* scan_request, see ScanTasks: its own id is the root.
Scan(w) ==
    /\ At(w, "scan")
    /\ IF present
       THEN /\ Send(w, Task("verdict", Root(w)), "ack", "dead")
            /\ scanned' = IF queue' # queue THEN scanned \cup {Root(w)} ELSE scanned
       ELSE /\ \/ Goto(w, "raised") \/ Goto(w, "dead")
            /\ UNCHANGED <<queue, scanned, faults>>
    /\ UNCHANGED <<setup, present, dlq, requeue, requeues, guarded, logged, analyses, lost>>

\* VerdictActionWorker: item_action of a malicious file.  An answer that is an error is
\* reported as one; a connector that cannot be reached, or answers too late, is an unknown
\* error and not retried.
Act(w) ==
    /\ At(w, "verdict")
    /\ \/ ~malicious /\ Goto(w, "send") /\ UNCHANGED <<present, faults>>
       \/ malicious /\ present' \in {present, FALSE} /\ Goto(w, "send") /\ UNCHANGED faults
       \/ malicious /\ present' \in {present, FALSE} /\ Goto(w, "dead") /\ Fault("failure")
    /\ UNCHANGED <<setup, queue, dlq, requeue, requeues, guarded, history>>

SendResult(w) ==
    /\ At(w, "send")
    /\ Send(w, Task("result", Root(w)), "ack", "dead")
    /\ UNCHANGED <<setup, present, dlq, requeue, requeues, guarded, history>>

AfterLog == IF auto THEN "guard" ELSE "ack"

\* Mutant: a result that cannot be stored fails the task.
Log_stored(w) ==
    /\ At(w, "result")
    /\ \/ logged' = [logged EXCEPT ![Root(w)] = @ + 1] /\ Goto(w, AfterLog) /\ UNCHANGED faults
       \/ logged' = [logged EXCEPT ![Root(w)] = @ + 1] /\ Goto(w, "raised") /\ Fault("failure")
       \/ UNCHANGED logged /\ Goto(w, "raised") /\ Fault("failure")
    /\ UNCHANGED <<setup, present, queue, dlq, requeue, requeues, guarded, scanned, analyses, lost>>

\* ScanResultWorker: the log first, whose failure alone is retried.  Of what follows, the job's
\* sums, the notification and the stores, whatever fails is skipped.
Log(w) ==
    /\ At(w, "result")
    /\ \/ logged' = [logged EXCEPT ![Root(w)] = @ + 1] /\ Goto(w, AfterLog) /\ UNCHANGED faults
       \/ UNCHANGED logged /\ Goto(w, "raised") /\ Fault("failure")
    /\ UNCHANGED <<setup, present, queue, dlq, requeue, requeues, guarded, scanned, analyses, lost>>

\* Mutant: the key is read, and never set.
Guard_unset(w) ==
    /\ At(w, "guard")
    /\ Goto(w, IF Root(w) \in guarded THEN "ack" ELSE "analyze")
    /\ UNCHANGED <<setup, present, queue, dlq, requeue, requeues, guarded, history, faults>>

\* The process has a connection for the guard if one of its results had a job.
Guard(w) ==
    /\ At(w, "guard")
    /\ \/ ~job /\ Goto(w, "analyze") /\ UNCHANGED <<guarded, faults>>
       \/ /\ Goto(w, IF Root(w) \in guarded THEN "ack" ELSE "analyze")
          /\ guarded' = guarded \cup {Root(w)}
          /\ UNCHANGED faults
       \/ Fault("failure") /\ Goto(w, "ack") /\ UNCHANGED guarded
    /\ UNCHANGED <<setup, present, queue, dlq, requeue, requeues, history>>

\* A failure is logged, and the guard left as it is.
Analyze(w) ==
    /\ At(w, "analyze")
    /\ Send(w, Task("dianna", Root(w)), "ack", "ack")
    /\ analyses' = IF queue' # queue THEN [analyses EXCEPT ![Root(w)] = @ + 1] ELSE analyses
    /\ UNCHANGED <<setup, present, dlq, requeue, requeues, guarded, scanned, logged, lost>>

\* DiannaAnalysisWorker: only the reading of the file may be retried; whatever DIANNA answers
\* ends the task.
ReadFile(w) ==
    /\ At(w, "dianna")
    /\ \/ present /\ Goto(w, "ack") /\ UNCHANGED faults
       \/ /\ IF present THEN Fault("failure") ELSE UNCHANGED faults
          /\ Goto(w, "raised") \/ Goto(w, "dead")
    /\ UNCHANGED <<setup, present, queue, dlq, requeue, requeues, guarded, history>>
-----------------------------------------------------------------------------
(***************************************************************************)
(* _requeue_from_dead_letter.                                              *)
(***************************************************************************)
Pop(t) ==
    /\ requeue = NoTask /\ requeues < MaxRequeues
    /\ BagIn(t, dlq)
    /\ dlq' = BagRemove(dlq, t)
    /\ requeue' = t /\ requeues' = requeues + 1
    /\ UNCHANGED <<setup, present, queue, run, guarded, history, faults>>

\* A scan request gets a new id, the others keep the root as an argument.
Again(t) == IF t.kind = "scan" THEN Task("scan", requeues + 1) ELSE t

\* A dead letter that cannot be sent is put back.
Resend ==
    /\ requeue # NoTask /\ requeue' = NoTask
    /\ \/ queue' = BagAdd(queue, Again(requeue)) /\ UNCHANGED <<dlq, faults>>
       \/ UNCHANGED queue /\ dlq' = BagAdd(dlq, requeue) /\ Fault("failure")
       \/ /\ queue' = BagAdd(queue, Again(requeue))
          /\ dlq' = BagAdd(dlq, requeue)
          /\ Fault("unsure")
    /\ UNCHANGED <<setup, present, run, requeues, guarded, history>>

\* The API process dies, or the dead letter cannot be put back.
RouteDies ==
    /\ requeue # NoTask /\ requeue' = NoTask
    /\ Fault("death")
    /\ lost' = lost \cup {requeue.root}
    /\ UNCHANGED <<setup, present, queue, run, dlq, requeues, guarded, scanned, logged, analyses>>
-----------------------------------------------------------------------------
Step(w) ==
    \/ \E t \in BagToSet(queue) : Receive(w, t)
    \/ Raised(w) \/ DeadLetter(w) \/ Ack(w)
    \/ Scan(w) \/ Act(w) \/ SendResult(w) \/ Log(w) \/ Guard(w) \/ Analyze(w)
    \/ ReadFile(w)

Route == (\E t \in BagToSet(dlq) : Pop(t)) \/ Resend

Next == Route \/ RouteDies \/ \E w \in Workers : Step(w) \/ Dies(w)

Spec == Init /\ [][Next]_vars
-----------------------------------------------------------------------------
(***************************************************************************)
(* Properties.                                                             *)
(***************************************************************************)
Carries(t, r) == t.root = r /\ t.kind \in {"verdict", "result"}

\* A verdict that has been sent is queued, in a worker's hands, a dead letter or logged,
\* through failures, deaths and requeues: unless the store of dead letters fails, the
\* route that requeues dies with one in its hands, or Celery lets a task go that the policy
\* would try again.
VerdictKept ==
    \A r \in scanned \ lost :
        \/ logged[r] > 0
        \/ \E t \in BagToSet(queue) \cup BagToSet(dlq) \cup {requeue} : Carries(t, r)
        \/ \E w \in Workers : Carries(run[w].task, r)

\* A verdict is logged once, retries and requeues included, unless a worker dies or a send
\* that raised has sent; and a request of a job has one automatic analysis, even then.
ReportedOnce ==
    \A r \in Roots :
        /\ faults.death = 0 /\ faults.unsure = 0 => logged[r] <= 1
        /\ job => analyses[r] <= 1
=============================================================================
