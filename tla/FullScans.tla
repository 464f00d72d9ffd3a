----------------------------- MODULE FullScans -----------------------------
(***************************************************************************)
(* A full scan: a connector lists the objects of its asset and asks        *)
(* dsx-connect to scan each, one by one, in batches or by several tasks,   *)
(* and then reports that it has asked for all of them.                     *)
(*                                                                         *)
(* The handlers of six platforms differ in when they send and in what they *)
(* compare with the limit.  Handler and tasks share one event loop: an     *)
(* action is what one of them does between two awaits that suspend.        *)
(***************************************************************************)
EXTENDS Integers, Sequences, FiniteSets, Functions

CONSTANTS
    Kinds,          \* a sequence: what the listing yields, in order
    Limits,         \* limits that a client may ask for, 0 = none
    Requested,      \* batch sizes that a client may ask for, 0 = none
    DefaultSize, MaxSize,    \* batch sizes of dsx-connect
    Concurrency,    \* requests that one scan may have in flight
    GatherAt,       \* tasks that are created before the handler waits for them
    MaxFaults       \* bound: listings and posts that fail

\* The handlers take no size and no concurrency below one.
FullAssumption ==
    /\ Kinds \in Seq({"file", "quarantine", "filtered"})
    /\ Limits \subseteq Nat /\ Requested \subseteq Nat
    /\ DefaultSize \in Nat \ {0} /\ MaxSize \in Nat \ {0}
    /\ Concurrency \in Nat \ {0} /\ GatherAt \in Nat \ {0}
    /\ MaxFaults \in Nat

VARIABLES
    platform, limit, batch, size,     \* the scan that was asked for
    ready,      \* the connector is registered
    hold,       \* the job is paused or cancelled
    pc, listing,       \* where the handler is; it is still in its loop
    next, seen, items, \* position in the listing; eligible objects; requests not yet sent
    calls,      \* requests in flight: the objects they are about, and their next step
    tasks,      \* length of the handler's list of tasks
    count,      \* requests that the handler counts as enqueued
    asked,      \* history: how often dsx-connect has queued each object
    outcome,    \* history: what each request was answered with
    broken,     \* history: the listing has failed
    faults

setup == <<platform, limit, batch, size>>
control == <<pc, listing, next, seen, items, tasks>>
requests == <<calls, count, asked, outcome>>
environment == <<ready, hold, faults>>
vars == <<setup, control, requests, environment, broken>>

Objects == DOMAIN Kinds
Platforms == {"s3", "azure", "gcs", "filesystem", "sharepoint", "onedrive"}

\* These handlers list everything before they send anything.
Collects == platform \in {"gcs", "onedrive"}

\* Single requests go out by tasks of their own: awaited by number, as a pool, or at the end.
UsesTasks ==
    ~batch /\ (platform \in {"azure", "sharepoint", "onedrive"}
               \/ (platform = "filesystem" /\ Concurrency > 1))

\* The filters of the listing.  What lies in quarantine is left out by the file system's handler
\* here, for the other platforms when the request is prepared.
Eligible(o) ==
    Kinds[o] # "filtered" /\ (platform = "filesystem" => Kinds[o] # "quarantine")

Lesser(a, b) == IF a < b THEN a ELSE b

\* Handlers that collect take the size as it is; the others keep to dsx-connect's.
effective_batch_size(requested) ==
    IF Collects THEN (IF requested > 0 THEN requested ELSE Len(Kinds))
    ELSE Lesser(IF requested > 0 THEN requested ELSE DefaultSize, MaxSize)

Init ==
    /\ platform \in Platforms /\ limit \in Limits
    \* batch: also not if dsx-connect has batches disabled, or does not tell.
    /\ batch \in BOOLEAN
    /\ IF batch THEN \E r \in Requested : size = effective_batch_size(r) ELSE size = 1
    /\ ready \in BOOLEAN /\ hold = FALSE
    /\ pc = "list" /\ listing = TRUE
    /\ next = 1 /\ seen = 0 /\ items = <<>>
    /\ calls = {} /\ tasks = 0 /\ count = 0
    /\ asked = [o \in Objects |-> 0]
    /\ outcome = [o \in Objects |-> "none"]
    /\ broken = FALSE /\ faults = 0
-----------------------------------------------------------------------------
(***************************************************************************)
(* The handler.                                                            *)
(***************************************************************************)
Call(objs) == [objs |-> objs, at |-> "waiting"]

\* Mutant: the limit is not looked at before the batch is full.
FlushDue_full(pending) == Len(pending) >= size

\* A full batch is sent, on S3 also one that would reach the limit.
FlushDue(pending) ==
    \/ Len(pending) >= size
    \/ platform = "s3" /\ limit > 0 /\ count + Len(pending) >= limit

Skip ==
    /\ pc = "list" /\ next <= Len(Kinds) /\ ~Eligible(next)
    /\ next' = next + 1
    /\ UNCHANGED <<setup, pc, listing, seen, items, tasks, requests, environment, broken>>

Collect ==
    /\ pc = "list" /\ next <= Len(Kinds) /\ Eligible(next)
    /\ Collects \/ batch
    /\ next' = next + 1 /\ seen' = seen + 1
    /\ items' = Append(items, next)
    /\ pc' = IF ~Collects /\ FlushDue(items') THEN "flush" ELSE "bound"
    /\ UNCHANGED <<setup, listing, tasks, requests, environment, broken>>

\* The list of tasks is emptied when it has grown to this length.
TaskBound == IF platform = "filesystem" THEN Concurrency ELSE GatherAt

Enqueue ==
    /\ pc = "list" /\ next <= Len(Kinds) /\ Eligible(next)
    /\ ~Collects /\ ~batch
    /\ next' = next + 1 /\ seen' = seen + 1
    /\ calls' = calls \cup {Call({next})}
    /\ IF UsesTasks
       THEN /\ tasks' = tasks + 1
            /\ pc' = IF tasks' >= TaskBound THEN "gather" ELSE "bound"
       ELSE tasks' = tasks /\ pc' = "await"
    /\ UNCHANGED <<setup, listing, items, count, asked, outcome, environment, broken>>

\* What each handler compares with the limit, after every object.
Reached ==
    CASE platform = "s3"         -> count
      [] platform = "azure"      -> count + Len(items)
      [] platform = "sharepoint" -> count + Len(items) + tasks
      [] platform = "filesystem" -> seen
      [] Collects                -> Len(items)

Bound ==
    /\ pc = "bound"
    /\ listing' = ~(limit > 0 /\ Reached >= limit)
    /\ pc' = IF listing' THEN "list" ELSE "rest"
    /\ UNCHANGED <<setup, next, seen, items, tasks, requests, environment, broken>>

ListEnds ==
    /\ pc = "list" /\ next > Len(Kinds)
    /\ listing' = FALSE /\ pc' = "rest"
    /\ UNCHANGED <<setup, next, seen, items, tasks, requests, environment, broken>>

\* The exception ends the handler.  Its tasks go on.
ListFails ==
    /\ pc = "list" /\ faults < MaxFaults
    /\ faults' = faults + 1
    /\ broken' = TRUE /\ pc' = "report"
    /\ UNCHANGED <<setup, listing, next, seen, items, tasks, requests, ready, hold>>

\* What remains to be sent.
Flushed(n) == SubSeq(items, n + 1, Len(items))

\* _flush_batch, or the next chunk of what was collected.
Flush ==
    /\ pc = "flush"
    /\ LET n == Lesser(size, Len(items))
       IN  /\ calls' = calls \cup {Call(Range(SubSeq(items, 1, n)))}
           /\ items' = Flushed(n)
    /\ pc' = "await"
    /\ UNCHANGED <<setup, listing, next, seen, tasks, count, asked, outcome, environment, broken>>

\* The handler awaits the one request that it has sent itself.
Awaited ==
    /\ pc = "await" /\ calls = {}
    /\ pc' = IF listing THEN "bound" ELSE "rest"
    /\ UNCHANGED <<setup, listing, next, seen, items, tasks, requests, environment, broken>>

\* asyncio.gather waits for all tasks; while the loop goes on the pool of the file system's
\* handler waits for the first that is done.
Gathered ==
    /\ pc = "gather"
    /\ IF platform = "filesystem" /\ listing THEN Cardinality(calls) < tasks ELSE calls = {}
    /\ tasks' = Cardinality(calls)
    /\ pc' = IF listing THEN "bound" ELSE "rest"
    /\ UNCHANGED <<setup, listing, next, seen, items, requests, environment, broken>>

\* Requests that are sent after the loop.
Remaining == items # <<>> /\ (platform = "s3" /\ limit > 0 => count < limit)

\* After the loop: the last batch or the next one, all tasks at once, the last tasks.
Rest ==
    /\ pc = "rest"
    /\ IF ~Remaining
       THEN /\ pc' = IF tasks > 0 THEN "gather" ELSE "report"
            /\ UNCHANGED <<items, tasks, calls>>
       ELSE IF UsesTasks
       THEN /\ calls' = {Call({o}) : o \in Range(items)}
            /\ tasks' = Len(items) /\ items' = <<>> /\ pc' = "gather"
       ELSE pc' = "flush" /\ UNCHANGED <<items, tasks, calls>>
    /\ UNCHANGED <<setup, listing, next, seen, count, asked, outcome, environment, broken>>

\* Mutant: the end is reported while tasks are at work.
Reports_early == pc \in {"report", "gather"}

Reports == pc = "report"

\* enqueue_done, which nobody repeats when it fails.  (The total it carries is not read.)
Report ==
    /\ Reports
    /\ \/ pc' = "done" /\ UNCHANGED faults
       \/ faults < MaxFaults /\ faults' = faults + 1 /\ pc' = "unreported"
    /\ UNCHANGED <<setup, listing, next, seen, items, tasks, requests, ready, hold, broken>>
-----------------------------------------------------------------------------
(***************************************************************************)
(* One request: scan_file_request or scan_file_request_batch.              *)
(***************************************************************************)
Started == {c \in calls : c.at # "waiting"}

\* Mutant: a request that is skipped keeps its place.
Free_held ==
    Cardinality(Started) + Cardinality({o \in Objects : outcome[o] = "skipped"}) < Concurrency

\* The semaphore has a place.
Free == Cardinality(Started) < Concurrency

Step(c, at) == calls' = (calls \ {c}) \cup {[c EXCEPT !.at = at]}

Answer(c, how) ==
    /\ calls' = calls \ {c}
    /\ outcome' = [o \in Objects |-> IF o \in c.objs THEN how ELSE outcome[o]]
    /\ count' = IF how = "queued" THEN count + Cardinality(c.objs) ELSE count

\* What is in quarantine is not sent.
Sent(c) == {o \in c.objs : Kinds[o] # "quarantine"}

\* _prepare_scan_request_common.
Prepare(c) ==
    /\ c.at = "waiting" /\ Free
    /\ IF ~ready \/ Sent(c) = {}
       THEN Answer(c, "skipped") /\ UNCHANGED asked
       ELSE Step(c, "check") /\ UNCHANGED <<count, asked, outcome>>
    /\ UNCHANGED <<setup, control, environment, broken>>

\* The job is that of the first request, which has none when it has not been prepared.
InJob(c) == Kinds[CHOOSE o \in c.objs : \A p \in c.objs : o <= p] # "quarantine"

\* _is_job_paused_or_cancelled
Check(c) ==
    /\ c.at = "check"
    /\ IF hold /\ InJob(c)
       THEN Answer(c, "held")
       ELSE Step(c, "post") /\ UNCHANGED <<count, outcome>>
    /\ UNCHANGED <<setup, control, asked, environment, broken>>

\* Unknown is as good as not paused.
CheckFails(c) ==
    /\ c.at = "check" /\ faults < MaxFaults
    /\ faults' = faults + 1
    /\ Step(c, "post")
    /\ UNCHANGED <<setup, control, count, asked, outcome, ready, hold, broken>>

Queue(c) == asked' = [o \in Objects |-> IF o \in Sent(c) THEN asked[o] + 1 ELSE asked[o]]

Post(c) ==
    /\ c.at = "post"
    /\ Queue(c) /\ Answer(c, "queued")
    /\ UNCHANGED <<setup, control, environment, broken>>

\* The request or its answer is lost: the handler goes on.
PostFails(c) ==
    /\ c.at = "post"
    /\ faults < MaxFaults /\ faults' = faults + 1
    /\ \/ Answer(c, "refused") /\ UNCHANGED asked
       \/ Answer(c, "lost") /\ Queue(c)
    /\ UNCHANGED <<setup, control, ready, hold, broken>>

\* The connector is registered after all; the operator pauses the job, and lets it go on.
Registered ==
    /\ ~ready /\ ready' = TRUE
    /\ UNCHANGED <<setup, control, requests, hold, faults, broken>>

Pause ==
    /\ hold' = ~hold
    /\ UNCHANGED <<setup, control, requests, ready, faults, broken>>
-----------------------------------------------------------------------------
Handler ==
    \/ Skip \/ Collect \/ Enqueue \/ Bound \/ ListEnds \/ Flush \/ Awaited \/ Gathered
    \/ Rest \/ Report

\* Between listing an object and the next await nothing else runs; Azure's listing does not
\* suspend at all.
Suspended == pc \notin {"bound", "rest"} /\ (platform = "azure" => pc # "list")

Request(c) == Suspended /\ (Prepare(c) \/ Check(c) \/ Post(c))

Fails(c) == Suspended /\ (CheckFails(c) \/ PostFails(c))

Next ==
    \/ Handler \/ ListFails \/ Registered \/ Pause
    \/ \E c \in calls : Request(c) \/ Fails(c)

\* One event loop: it runs what can run.
Fairness == WF_vars(Handler) /\ WF_vars(\E c \in calls : Request(c))

Spec == Init /\ [][Next]_vars /\ Fairness
-----------------------------------------------------------------------------
(***************************************************************************)
(* Properties.                                                             *)
(***************************************************************************)
PlainFiles == {o \in Objects : Kinds[o] = "file"}
Queued == {o \in Objects : asked[o] > 0}
Answers == Range(outcome)
Tried == {o \in Objects : outcome[o] # "none"}

\* The job of dsx-connect is finished once all that it was asked for has been scanned and the
\* end has been reported.  So when the end is reported no request is still under way, and,
\* without a limit, each file was asked for exactly once or its request was answered
\* otherwise.  (When the listing fails, tasks go on.)
ScanComplete ==
    /\ \A o \in Objects : asked[o] <= 1
    /\ (pc = "done" /\ ~broken) =>
         /\ calls = {}
         /\ limit = 0 => \A o \in PlainFiles :
              asked[o] = 1 \/ outcome[o] \in {"skipped", "held", "refused"}

\* At most limit objects are asked for, and none is left out before as many have been tried.
\* (A lost answer is not counted.  Without batches Azure compares only tasks that are done, and
\* SharePoint counts those twice.)
LimitKept ==
    limit > 0 =>
      /\ (platform = "azure" => batch) /\ "lost" \notin Answers => Cardinality(Queued) <= limit
      /\ (pc = "done" /\ ~broken /\ (platform = "sharepoint" => batch)) =>
            \A o \in PlainFiles : outcome[o] # "none" \/ Cardinality(Tried) >= limit

\* A scan comes to its end, and with it the job: no wait for tasks lasts for ever.
ScanEnds == <>(pc \in {"done", "unreported"})
=============================================================================
