----------------------------- MODULE ScanTasks -----------------------------
(***************************************************************************)
(* The scan-request pipeline of dsx_connect: the route (or the batch task) *)
(* that queues one Celery message per file of a job, the workers that take *)
(* the messages, the Redis hash in which the job is counted and the Redis  *)
(* counter that caps the scans in progress.                                *)
(*                                                                         *)
(* Every Redis or Celery call that another process can observe is a step:  *)
(* the counters of a job are updated by several calls, and the decision to *)
(* finish the job is taken from a copy of the hash read before the last    *)
(* write.  A worker that dies loses nothing but its slot: the messages are *)
(* acknowledged late, so the broker delivers its message again.            *)
(***************************************************************************)
EXTENDS Integers, FiniteSets, BagsExt, Bags

CONSTANTS
  Items,          \* files of one scan job
  Workers,        \* worker processes for the scan_request queue
  MaxInflight,    \* scanner.max_inflight; without it (0 or less) there are no slots
  MaxRetries,     \* max_retries of the retry policy
  CeleryRetries,  \* max_retries of the Celery task, left as Celery has it: 3
  Batched,        \* TRUE: the connector posts request_batch, not single requests
  FaultPlans      \* bound: what may happen together, as a set of records that say how
                  \* many scans raise (errors), workers die (crashes), acquisitions
                  \* cannot reach Redis (drift), answers to the connector are lost
                  \* (reposts), and how often the job is paused (pauses) and
                  \* cancelled (cancels)

Nobody == "nobody"
NoItem == "none"

ASSUME ScanTasksAssumption ==
  /\ IsFiniteSet(Workers) /\ Nobody \notin Workers
  /\ MaxInflight \in Nat \ {0} /\ MaxRetries \in Nat /\ CeleryRetries \in Nat
  /\ Batched \in BOOLEAN

VARIABLES
  job,            \* the Redis hash of the job
  queue,          \* bag of scan_request messages
  inflight,       \* the slot counter; 0 also stands for "no key"
  opener,         \* who got the slot that set the key's lifetime, while it holds it
  lives,          \* the counter has a lifetime
  poster,         \* progress of the route or batch task that enqueues; open is history:
                  \* a file was open when it ended
  run,            \* per worker: what it is executing
  sent, ended,    \* history: messages sent for, and terminal counts made for, a file
  revoked,        \* files whose task the cancel route revoked
  faults          \* history: how often each of those happened

vars == <<job, queue, inflight, opener, lives, poster, run, sent, ended, revoked, faults>>

NoTask == [item |-> NoItem, retries |-> 0, listed |-> FALSE]
Idle == [pc |-> "idle", task |-> NoTask, held |-> FALSE, failed |-> "no", cancelled |-> FALSE]

\* A message of the scan_request queue.  listed: it carries the task id that
\* the route stored for the job; a copy that a worker sends has another id.
Task == [item : Items, retries : 0..MaxRetries, listed : BOOLEAN]

Init ==
  /\ job = [status |-> "none", count |-> 0, total |-> -1, terminal |-> 0, listed |-> {},
            enqueue_done |-> FALSE, finished |-> FALSE, paused |-> FALSE, cancel |-> FALSE]
  /\ queue = EmptyBag
  /\ inflight = 0 /\ opener = Nobody /\ lives = FALSE
  /\ poster = [pc |-> "next", item |-> NoItem, total |-> 0, left |-> Items,
               open |-> FALSE]
  /\ run = [w \in Workers |-> Idle]
  /\ sent = [i \in Items |-> 0]
  /\ ended = [i \in Items |-> 0]
  /\ revoked = {}
  /\ faults = [errors |-> 0, crashes |-> 0, drift |-> 0, reposts |-> 0,
               pauses |-> 0, cancels |-> 0]

Running(s) == IF s = "none" THEN "running" ELSE s       \* hsetnx(status, running)
Open == \E i \in Items : sent[i] > ended[i]
Suffers(f) ==
  /\ faults' = [faults EXCEPT ![f] = @ + 1]
  /\ \E p \in FaultPlans : \A k \in DOMAIN p : faults'[k] <= p[k]
Slots == <<inflight, opener, lives>>

-----------------------------------------------------------------------------
(* Enqueueing: the request route, or the batch task that fans out.          *)

\* The next file, in some order.  The request route refuses it while the job is
\* paused or cancelled; the batch task does not look.
PostNext ==
  /\ poster.pc = "next" /\ poster.left # {}
  /\ LET i == CHOOSE j \in poster.left : TRUE IN
       poster' = IF ~Batched /\ (job.paused \/ job.cancel)
                   THEN [poster EXCEPT !.left = @ \ {i}]
                   ELSE [poster EXCEPT !.pc = "send", !.item = i, !.left = @ \ {i}]
  /\ UNCHANGED <<job, queue, Slots, run, sent, ended, revoked, faults>>

PostSend ==
  /\ poster.pc = "send"
  /\ queue' = BagAdd(queue, [item |-> poster.item, retries |-> 0, listed |-> TRUE])
  /\ sent' = [sent EXCEPT ![poster.item] = @ + 1]
  /\ poster' = [poster EXCEPT !.pc = "count"]
  /\ UNCHANGED <<job, Slots, run, ended, revoked, faults>>

PostCount ==
  /\ poster.pc = "count"
  /\ job' = [job EXCEPT !.status = Running(@), !.count = @ + 1, !.listed = @ \cup {poster.item}]
  /\ poster' = [poster EXCEPT !.pc = "store", !.total = job.count + 1]
  /\ UNCHANGED <<queue, Slots, run, sent, ended, revoked, faults>>

PostStore ==
  /\ poster.pc = "store"
  /\ job' = [job EXCEPT !.total = poster.total]
  /\ poster' = [poster EXCEPT !.pc = "next"]
  /\ UNCHANGED <<queue, Slots, run, sent, ended, revoked, faults>>

\* The connector did not get the answer and posts the same file by its second
\* path; nothing recognises the repetition.
PostAgain ==
  /\ ~Batched /\ poster.pc = "next" /\ poster.item # NoItem /\ ~job.enqueue_done
  /\ ~job.paused /\ ~job.cancel
  /\ poster' = [poster EXCEPT !.pc = "send"]
  /\ Suffers("reposts")
  /\ UNCHANGED <<job, queue, Slots, run, sent, ended, revoked>>

\* The connector reports that it has posted everything: after the answers to
\* all single requests, or after a batch was accepted.
EnqueueDone ==
  /\ ~job.enqueue_done
  /\ Batched \/ (poster.pc = "next" /\ poster.left = {})
  /\ job' = [job EXCEPT !.enqueue_done = TRUE]
  /\ poster' = [poster EXCEPT !.open = Open]
  /\ UNCHANGED <<queue, Slots, run, sent, ended, revoked, faults>>

-----------------------------------------------------------------------------
(* The routes a user calls.                                                 *)

Pause ==
  /\ ~job.paused /\ Suffers("pauses")
  /\ job' = [job EXCEPT !.paused = TRUE, !.status = "paused"]
  /\ UNCHANGED <<queue, Slots, poster, run, sent, ended, revoked>>

Resume ==
  /\ job.paused
  /\ job' = [job EXCEPT !.paused = FALSE, !.status = "running"]
  /\ UNCHANGED <<queue, Slots, poster, run, sent, ended, revoked, faults>>

\* The cancel route first revokes the tasks listed so far ...
Revoke ==
  /\ job.listed # {} /\ Suffers("cancels")
  /\ revoked' = job.listed
  /\ UNCHANGED <<job, queue, Slots, poster, run, sent, ended>>

\* ... then marks the job.
MarkCancelled ==
  /\ ~job.cancel /\ revoked # {}
  /\ job' = [job EXCEPT !.status = "cancelled", !.cancel = TRUE, !.finished = TRUE]
  /\ UNCHANGED <<queue, Slots, poster, run, sent, ended, revoked, faults>>

-----------------------------------------------------------------------------
(* A worker.                                                                *)

Goto(w, pc) == run' = [run EXCEPT ![w].pc = pc]
IsRevoked(t) == t.listed /\ t.item \in revoked

\* A copy of the message: a new task id, and a retry count that starts over.
Copy(t) == [t EXCEPT !.retries = 0, !.listed = FALSE]

\* Idle workers are all alike: one of them takes the message.
Receive(w, t) ==
  /\ run[w].pc = "idle" /\ w = (CHOOSE v \in Workers : run[v].pc = "idle")
  /\ BagIn(t, queue)
  /\ queue' = BagRemove(queue, t)
  /\ run' = IF IsRevoked(t) THEN run ELSE [run EXCEPT ![w] = [Idle EXCEPT !.pc = "flags", !.task = t]]
  /\ UNCHANGED <<job, Slots, poster, sent, ended, revoked, faults>>

\* execute: dropped if the job is cancelled, put back if it is paused, not
\* scanned if the request says the file is too large.
Flags(w) ==
  /\ run[w].pc = "flags"
  /\ job' = [job EXCEPT !.status = Running(@)]
  /\ \/ /\ job.cancel
        /\ Goto(w, "count") /\ UNCHANGED queue
     \/ /\ ~job.cancel /\ job.paused
        /\ queue' = BagAdd(queue, Copy(run[w].task))
        /\ Goto(w, "ack")
     \/ /\ ~job.cancel /\ ~job.paused
        /\ Goto(w, "acquire") /\ UNCHANGED queue
  /\ UNCHANGED <<Slots, poster, sent, ended, revoked, faults>>

\* Mutant: one slot too many.
Acquire_over(w) ==
  /\ run[w].pc = "acquire"
  /\ \/ /\ inflight <= MaxInflight
        /\ inflight' = inflight + 1
        /\ lives' = (lives \/ inflight = 0)
        /\ opener' = IF inflight = 0 THEN w ELSE opener
        /\ run' = [run EXCEPT ![w].pc = "scan", ![w].held = TRUE]
        /\ UNCHANGED <<queue, faults>>
     \/ /\ inflight > MaxInflight
        /\ queue' = BagAdd(queue, Copy(run[w].task))
        /\ Goto(w, "ack")
        /\ UNCHANGED <<Slots, faults>>
     \/ /\ Suffers("drift")
        /\ run' = [run EXCEPT ![w].pc = "scan", ![w].held = TRUE]
        /\ UNCHANGED <<queue, Slots>>
  /\ UNCHANGED <<job, poster, sent, ended, revoked>>

\* Mutant: the counter is incremented without a lifetime.
Acquire_unexpiring(w) ==
  /\ run[w].pc = "acquire"
  /\ \/ /\ inflight < MaxInflight
        /\ inflight' = inflight + 1
        /\ UNCHANGED lives
        /\ opener' = IF inflight = 0 THEN w ELSE opener
        /\ run' = [run EXCEPT ![w].pc = "scan", ![w].held = TRUE]
        /\ UNCHANGED <<queue, faults>>
     \/ /\ inflight >= MaxInflight
        /\ queue' = BagAdd(queue, Copy(run[w].task))
        /\ Goto(w, "ack")
        /\ UNCHANGED <<Slots, faults>>
     \/ /\ Suffers("drift")
        /\ run' = [run EXCEPT ![w].pc = "scan", ![w].held = TRUE]
        /\ UNCHANGED <<queue, Slots>>
  /\ UNCHANGED <<job, poster, sent, ended, revoked>>

\* ACQUIRE_SCANNER_SLOT_LUA: the counter gets its lifetime when it reaches 1.
Acquire(w) ==
  /\ run[w].pc = "acquire"
  /\ \/ /\ inflight < MaxInflight
        /\ inflight' = inflight + 1
        /\ lives' = (lives \/ inflight = 0)
        /\ opener' = IF inflight = 0 THEN w ELSE opener
        /\ run' = [run EXCEPT ![w].pc = "scan", ![w].held = TRUE]
        /\ UNCHANGED <<queue, faults>>
     \/ /\ inflight >= MaxInflight
        /\ queue' = BagAdd(queue, Copy(run[w].task))
        /\ Goto(w, "ack")
        /\ UNCHANGED <<Slots, faults>>
     \/ /\ Suffers("drift")   \* redis.RedisError
        /\ run' = [run EXCEPT ![w].pc = "scan", ![w].held = TRUE]
        /\ UNCHANGED <<queue, Slots>>
  /\ UNCHANGED <<job, poster, sent, ended, revoked>>

\* The file is read and scanned, or found too large, and the verdict is sent.
Scan(w) ==
  /\ run[w].pc = "scan"
  /\ Goto(w, "count")
  /\ UNCHANGED <<job, queue, Slots, poster, sent, ended, revoked, faults>>

\* The connector or the scanner answers with an error, or the time limit ends.
ScanRaises(w, kind) ==
  /\ run[w].pc = "scan" /\ Suffers("errors")
  /\ run' = [run EXCEPT ![w].pc = "release", ![w].failed = kind]
  /\ UNCHANGED <<job, queue, Slots, poster, sent, ended, revoked>>

\* record_scan_request_terminal: count, read the hash again, maybe finish.
Count(w) ==
  /\ run[w].pc = "count"
  /\ job' = [job EXCEPT !.status = Running(@), !.terminal = @ + 1]
  /\ ended' = [ended EXCEPT ![run[w].task.item] = @ + 1]
  /\ Goto(w, "read")
  /\ UNCHANGED <<queue, Slots, poster, sent, revoked, faults>>

Total == IF job.total >= 0 THEN job.total ELSE job.count
\* Mutant: the job is finished without waiting for the end of enqueueing.
MayFinish_early == ~job.finished /\ job.terminal >= Total

\* Whether the terminal count just read is the last one.
MayFinish == job.enqueue_done /\ ~job.finished /\ job.terminal >= Total
AfterRecord(w) == IF run[w].held THEN "release" ELSE IF run[w].failed = "no" THEN "ack" ELSE "dead"

ReadBack(w) ==
  /\ run[w].pc = "read"
  /\ run' = [run EXCEPT ![w].pc = IF MayFinish THEN "finish" ELSE AfterRecord(w),
                        ![w].cancelled = (job.status = "cancelled")]
  /\ UNCHANGED <<job, queue, Slots, poster, sent, ended, revoked, faults>>

Finish(w) ==
  /\ run[w].pc = "finish"
  /\ job' = [job EXCEPT !.status = IF run[w].cancelled THEN "cancelled" ELSE "completed",
                        !.finished = TRUE]
  /\ Goto(w, AfterRecord(w))
  /\ UNCHANGED <<queue, Slots, poster, sent, ended, revoked, faults>>

Release(w) ==
  /\ run[w].pc = "release"
  /\ inflight' = inflight - 1
  /\ opener' = IF opener = w THEN Nobody ELSE opener
  /\ run' = [run EXCEPT ![w].held = FALSE,
                        ![w].pc = IF run[w].failed = "no" THEN "ack" ELSE "handle"]
  /\ UNCHANGED <<job, queue, lives, poster, sent, ended, revoked, faults>>

\* _decide_retry_strategy.
ShouldRetry(w) == run[w].failed = "retriable" /\ run[w].task.retries < MaxRetries

\* self.retry, which keeps the task id.  Beyond Celery's own limit it raises the error instead,
\* and Celery settles the message of a task that raised.
Retried(w) ==
  IF run[w].task.retries < CeleryRetries
    THEN BagAdd(queue, [run[w].task EXCEPT !.retries = @ + 1])
    ELSE queue

\* Mutant: every failure is counted, the retried ones too.
Handle_counted(w) ==
  /\ run[w].pc = "handle"
  /\ queue' = IF ShouldRetry(w) THEN Retried(w) ELSE queue
  /\ Goto(w, "count")
  /\ UNCHANGED <<job, Slots, poster, sent, ended, revoked, faults>>

\* Mutant: a final failure is not counted.
Handle_uncounted(w) ==
  /\ run[w].pc = "handle"
  /\ IF ShouldRetry(w)
       THEN queue' = Retried(w) /\ Goto(w, "ack")
       ELSE UNCHANGED queue /\ Goto(w, "dead")
  /\ UNCHANGED <<job, Slots, poster, sent, ended, revoked, faults>>

\* _handle_exception: what is not to be tried again is counted and put among the dead letters.
Handle(w) ==
  /\ run[w].pc = "handle"
  /\ IF ShouldRetry(w)
       THEN queue' = Retried(w) /\ Goto(w, "ack")
       ELSE UNCHANGED queue /\ Goto(w, "count")
  /\ UNCHANGED <<job, Slots, poster, sent, ended, revoked, faults>>

DeadLetter(w) ==
  /\ run[w].pc = "dead"
  /\ Goto(w, "ack")
  /\ UNCHANGED <<job, queue, Slots, poster, sent, ended, revoked, faults>>

Ack(w) ==
  /\ run[w].pc = "ack"
  /\ run' = [run EXCEPT ![w] = Idle]
  /\ UNCHANGED <<job, queue, Slots, poster, sent, ended, revoked, faults>>

\* The slot of a worker that dies stays counted; nobody else gives it back.
Gone(w) ==
  /\ run' = [run EXCEPT ![w] = Idle]
  /\ opener' = IF opener = w THEN Nobody ELSE opener
  /\ UNCHANGED <<job, inflight, lives, poster, sent, ended, revoked>>

Crash(w) ==
  /\ run[w].pc # "idle" /\ Suffers("crashes")
  /\ queue' = BagAdd(queue, run[w].task)
  /\ Gone(w)

\* revoke(terminate=True): the process that runs a revoked task is killed and
\* its message is settled.
Terminated(w) ==
  /\ run[w].pc # "idle" /\ IsRevoked(run[w].task)
  /\ UNCHANGED <<queue, faults>>
  /\ Gone(w)

\* The lifetime (600 s) outlasts any one scan (soft limit 120 s), so the key
\* lives at least until the slot that set it is given back.
Expire ==
  /\ lives /\ opener = Nobody
  /\ inflight' = 0 /\ lives' = FALSE
  /\ UNCHANGED <<job, queue, opener, poster, run, sent, ended, revoked, faults>>

-----------------------------------------------------------------------------
Post == PostNext \/ PostSend \/ PostCount \/ PostStore \/ EnqueueDone
User == Pause \/ Resume \/ Revoke \/ MarkCancelled
Step(w) ==
  \/ Flags(w) \/ Acquire(w) \/ Scan(w) \/ Count(w) \/ ReadBack(w) \/ Finish(w)
  \/ Release(w) \/ Handle(w) \/ DeadLetter(w) \/ Ack(w)
Delivered(i) == \E w \in Workers : \E t \in Task : t.item = i /\ Receive(w, t)

Next ==
  \/ Post \/ PostAgain \/ User \/ Expire
  \/ \E i \in Items : Delivered(i)
  \/ \E w \in Workers :
       \/ Step(w) \/ Crash(w) \/ Terminated(w)
       \/ \E kind \in {"retriable", "final"} : ScanRaises(w, kind)

Spec == Init /\ [][Next]_vars

\* The enqueuer and every worker go on, the key expires, and the broker
\* delivers every message that is often enough there to be delivered.
Fairness ==
  /\ WF_vars(Post) /\ WF_vars(Expire)
  /\ \A w \in Workers : WF_vars(Step(w))
  /\ \A i \in Items : SF_vars(Delivered(i))

FairSpec == Spec /\ Fairness

-----------------------------------------------------------------------------
Holders == {w \in Workers : run[w].held}

\* With one slot that cap holds whatever workers die or expiries fall in
\* between, and without deaths the counter is the number of scans.
SlotsBounded ==
  faults.drift = 0 =>
    /\ Cardinality(Holders) <= MaxInflight
    /\ (faults.crashes = 0 /\ revoked = {}) => inflight = Cardinality(Holders)

\* However often a file is put back, by pausing, by a full scanner or by a retry,
\* it is counted once, and a job that is marked completed has counted every file
\* that was sent (workers that died may have counted a file twice).
CountedOnce ==
  faults.crashes = 0 =>
    \A i \in Items : /\ ended[i] <= sent[i]
                    /\ job.status = "completed" => ended[i] = sent[i]

\* The policy retries no more often than Celery lets it.  Otherwise a file can fail without a
\* terminal outcome.
RetriesAllowed == MaxRetries <= CeleryRetries

\* Every file that was sent gets a terminal outcome unless its job is paused or
\* its task was revoked: no refused, retried or redelivered message and no slot
\* lost with its worker stops it, and resuming takes it up again.
ItemsEnd ==
  \A i \in Items :
    []<>(RetriesAllowed /\ sent[i] > 0 => ended[i] > 0 \/ i \in revoked \/ job.paused)

\* A job of which a file is still open when enqueueing ends is finished at
\* last; a pause only puts that off while files are open.
JobFinishes ==
  []<>(RetriesAllowed /\ poster.open =>
         job.finished \/ revoked # {} \/ (job.paused /\ Open))
=============================================================================
