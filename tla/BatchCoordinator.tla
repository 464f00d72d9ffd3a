--------------------------- MODULE BatchCoordinator ---------------------------
(***************************************************************************)
(* ScanOnlyBatchCoordinator: one scan worker process that takes many scan  *)
(* requests off the queue, scans a bounded number of them at a time, and   *)
(* writes their completions in bulk, when a window is full or when a timer *)
(* fires.  The future of an entry tells the consumer what to do with the   *)
(* message, when depends on the acknowledgement mode.                      *)
(*                                                                         *)
(* The code is asyncio: what happens between two awaits is one action, and *)
(* the coordinator's lock, never held across an await, adds nothing to     *)
(* that.  Items are trusted (--scan-batch-trust-items, the default), so    *)
(* cancellation plays no part; failures stay below the retry limit.        *)
(***************************************************************************)
EXTENDS Integers, FiniteSets, Sequences, SequencesExt

CONSTANTS
    Entries,      \* scan requests, one per item
    BatchSize,    \* --scan-batch-window-size
    Concurrency,  \* --scan-batch-concurrency
    Prefetch,     \* --prefetch-count
    AckModes,     \* the values of --scan-batch-ack-mode to consider
    MaxFailures,  \* bound: scans and bulk writes that raise
    MaxCrashes    \* bound: crashes and interruptions of the process

CoordinatorAssumption ==
    /\ IsFiniteSet(Entries)
    /\ {BatchSize, Concurrency, Prefetch} \subseteq Nat \ {0}
    /\ {MaxFailures, MaxCrashes} \subseteq Nat
    /\ AckModes \subseteq {"completed", "scanned", "accepted"}

VARIABLES
    ackMode,      \* --scan-batch-ack-mode, fixed for the life of the process
    message,      \* where the broker has each message
    future,       \* the future of each entry
    pending,      \* _pending: entries that wait for a scan
    running,      \* entries with a scan task; _active is their number
    refused,      \* those of them whose terminal failure has been recorded
    completions,  \* _completion_pending
    timer,        \* whether _flush_timer is set
    requested,    \* _flush_requested
    task,         \* _flush_task
    batch,        \* the completions being written
    phase,        \* of the process: "consuming", "stopping", "flush_all" or "stopped"
    ledger,       \* the state of each item in the database
    failures, crashes

memory ==
    <<future, pending, running, refused, completions, timer, requested, task, batch,
      phase>>
vars == <<ackMode, message, memory, ledger, failures, crashes>>

Init ==
    /\ ackMode \in AckModes
    /\ message = [e \in Entries |-> "queued"]
    /\ future = [e \in Entries |-> "none"]
    /\ pending = <<>>
    /\ running = {}
    /\ refused = {}
    /\ completions = {}
    /\ timer = FALSE
    /\ requested = FALSE
    /\ task = "none"
    /\ batch = {}
    /\ phase = "consuming"
    /\ ledger = [e \in Entries |-> "open"]
    /\ failures = 0
    /\ crashes = 0

Fail ==
    /\ failures < MaxFailures
    /\ failures' = failures + 1

Resolve(f, R, result) == [e \in Entries |-> IF e \in R /\ f[e] = "unset" THEN result ELSE f[e]]

\* Mutant: a scan that ends does not start the next one.
Pump_on_arrival(queue, active) ==
    LET n == IF active = running /\ queue # <<>> /\ Cardinality(active) < Concurrency
             THEN 1 ELSE 0
    IN  /\ running' = active \cup ToSet(SubSeq(queue, 1, n))
        /\ pending' = SubSeq(queue, n + 1, Len(queue))

\* _pump_locked: the entries at the head of the queue take the free scan slots.
Pump(queue, active) ==
    LET free == Concurrency - Cardinality(active)
        n    == IF Len(queue) < free THEN Len(queue) ELSE free
    IN  /\ running' = active \cup ToSet(SubSeq(queue, 1, n))
        /\ pending' = SubSeq(queue, n + 1, Len(queue))

Unacked == {e \in Entries : message[e] = "unacked"}

\* consume_queue hands the message to add.
Add(e) ==
    /\ phase = "consuming"
    /\ message[e] = "queued"
    /\ Cardinality(Unacked) < Prefetch
    /\ message' = [message EXCEPT ![e] = "unacked"]
    /\ future' = [future EXCEPT ![e] = "unset"]
    /\ Pump(Append(pending, e), running)
    /\ UNCHANGED <<ackMode, refused, completions, timer, requested, task, batch, ledger,
                   failures, phase, crashes>>

\* add has returned: in mode "accepted" at once, else when the future is resolved.
Ack(e) ==
    /\ message[e] = "unacked"
    /\ ackMode = "accepted" \/ future[e] = "ok"
    /\ message' = [message EXCEPT ![e] = "acked"]
    /\ UNCHANGED <<ackMode, memory, ledger, failures, crashes>>

\* add has raised: a copy of the message comes back after the retry delay.
Retry(e) ==
    /\ message[e] = "unacked"
    /\ ackMode # "accepted"
    /\ future[e] = "error"
    /\ message' = [message EXCEPT ![e] = "queued"]
    /\ UNCHANGED <<ackMode, memory, ledger, failures, crashes>>

\* _run_one after a scan with a result: a full window wakes the flush task, a
\* partial one sets the timer.
Complete(e) ==
    /\ completions' = completions \cup {e}
    /\ future' = IF ackMode = "scanned" THEN Resolve(future, {e}, "ok") ELSE future
    /\ IF Cardinality(completions) + 1 >= BatchSize
       THEN /\ requested' = TRUE
            /\ task' = IF task = "none" THEN "looping" ELSE task
            /\ UNCHANGED timer
       ELSE timer' = TRUE /\ UNCHANGED <<requested, task>>

ScanSucceeds(e) ==
    /\ e \in running \ refused
    /\ Pump(pending, running \ {e})
    /\ Complete(e)
    /\ UNCHANGED <<ackMode, message, refused, batch, ledger, failures, phase, crashes>>

\* A TerminalScanError is first recorded as the item's failure.
RecordFailure(e) ==
    /\ e \in running \ refused
    /\ Fail
    /\ refused' = refused \cup {e}
    /\ ledger' = [ledger EXCEPT ![e] = "failed"]
    /\ UNCHANGED <<ackMode, message, future, pending, running, completions, timer,
                   requested, task, batch, phase, crashes>>

EndRefused(e) ==
    /\ e \in refused
    /\ Pump(pending, running \ {e})
    /\ refused' = refused \ {e}
    /\ future' = Resolve(future, {e}, "ok")
    /\ UNCHANGED <<ackMode, message, completions, timer, requested, task, batch, ledger,
                   failures, phase, crashes>>

\* Any other exception of _scan_one is the future's.
ScanFails(e) ==
    /\ e \in running
    /\ Fail
    /\ Pump(pending, running \ {e})
    /\ refused' = refused \ {e}
    /\ future' = Resolve(future, {e}, "error")
    /\ UNCHANGED <<ackMode, message, completions, timer, requested, task, batch, ledger,
                   phase, crashes>>

\* Mutant: the timer leaves it to the next completion to start a flush.
TimerFires_unheard ==
    /\ timer
    /\ timer' = FALSE
    /\ requested' = TRUE
    /\ UNCHANGED <<ackMode, message, future, pending, running, refused, completions,
                   task, batch, ledger, failures, phase, crashes>>

\* _flush_later.
TimerFires ==
    /\ timer
    /\ timer' = FALSE
    /\ requested' = TRUE
    /\ task' = IF completions # {} /\ task = "none" THEN "looping" ELSE task
    /\ UNCHANGED <<ackMode, message, future, pending, running, refused, completions,
                   batch, ledger, failures, phase, crashes>>

\* _completion_flush_loop, at its head.
FlushLoop ==
    /\ task = "looping"
    /\ IF completions = {}
       THEN /\ requested' = FALSE
            /\ task' = "none"
            /\ UNCHANGED <<timer, completions, batch>>
       ELSE IF Cardinality(completions) < BatchSize /\ ~requested
       THEN /\ timer' = TRUE
            /\ task' = "none"
            /\ UNCHANGED <<requested, completions, batch>>
       ELSE /\ batch' = completions
            /\ completions' = {}
            /\ timer' = FALSE
            /\ requested' = FALSE
            /\ task' = "flushing"
    /\ UNCHANGED <<ackMode, message, future, pending, running, refused, ledger,
                   failures, phase, crashes>>

\* _flush_completions: complete_scan_only_bulk commits ...
BulkWrite ==
    /\ task = "flushing"
    /\ ledger' = [e \in Entries |-> IF e \in batch THEN "completed" ELSE ledger[e]]
    /\ task' = "written"
    /\ UNCHANGED <<ackMode, message, future, pending, running, refused, completions,
                   timer, requested, batch, failures, phase, crashes>>

EndFlush(result) ==
    /\ future' = Resolve(future, batch, result)
    /\ batch' = {}
    /\ task' = "looping"
    /\ UNCHANGED <<ackMode, message, pending, running, refused, completions, timer,
                   requested, ledger, phase, crashes>>

\* ... and returns, or raises, before the commit or after it.
FlushReturns == task = "written" /\ EndFlush("ok") /\ UNCHANGED failures

\* Mutant: a failed write is logged, and its futures are forgotten.
FlushFails_silent ==
    /\ task \in {"flushing", "written"}
    /\ Fail
    /\ batch' = {}
    /\ task' = "looping"
    /\ UNCHANGED <<ackMode, message, future, pending, running, refused, completions,
                   timer, requested, ledger, phase, crashes>>

\* Mutant: the futures are resolved whatever became of the write.
FlushFails_ok == task \in {"flushing", "written"} /\ Fail /\ EndFlush("ok")

FlushFails == task \in {"flushing", "written"} /\ Fail /\ EndFlush("error")

\* What is in memory is lost; what is unacknowledged is redelivered.
Crash ==
    /\ crashes < MaxCrashes
    /\ crashes' = crashes + 1
    /\ message' = [e \in Entries |-> IF message[e] = "unacked" THEN "queued" ELSE message[e]]
    /\ future' = [e \in Entries |-> "none"]
    /\ pending' = <<>>
    /\ running' = {}
    /\ refused' = {}
    /\ completions' = {}
    /\ timer' = FALSE
    /\ requested' = FALSE
    /\ task' = "none"
    /\ batch' = {}
    /\ phase' = "consuming"
    /\ UNCHANGED <<ackMode, ledger, failures>>

\* The worker is interrupted: consume_queue takes no more messages ...
Stop ==
    /\ phase = "consuming"
    /\ crashes < MaxCrashes
    /\ crashes' = crashes + 1
    /\ phase' = "stopping"
    /\ UNCHANGED <<ackMode, message, future, pending, running, refused, completions, timer,
                   requested, task, batch, ledger, failures>>

\* Mutant: the scans that wait or run are not waited for.
FlushAll_at_once ==
    /\ phase = "stopping" /\ Unacked = {}
    /\ phase' = "flush_all"
    /\ requested' = TRUE
    /\ task' = IF completions # {} /\ task = "none" THEN "looping" ELSE task
    /\ UNCHANGED <<ackMode, message, future, pending, running, refused, completions, timer,
                   batch, ledger, failures, crashes>>

\* ... and waits for its handlers; flush_all waits for the scans, and wakes the flush loop.
FlushAll ==
    /\ phase = "stopping" /\ Unacked = {}
    /\ pending = <<>> /\ running = {}
    /\ phase' = "flush_all"
    /\ requested' = TRUE
    /\ task' = IF completions # {} /\ task = "none" THEN "looping" ELSE task
    /\ UNCHANGED <<ackMode, message, future, pending, running, refused, completions, timer,
                   batch, ledger, failures, crashes>>

\* The flush task has ended, and the process ends.
Exit ==
    /\ phase = "flush_all" /\ task = "none"
    /\ phase' = "stopped"
    /\ timer' = FALSE
    /\ UNCHANGED <<ackMode, message, future, pending, running, refused, completions,
                   requested, task, batch, ledger, failures, crashes>>

\* It is started again, with nothing in memory.
Restart ==
    /\ phase = "stopped"
    /\ phase' = "consuming"
    /\ future' = [e \in Entries |-> "none"]
    /\ pending' = <<>> /\ running' = {} /\ refused' = {}
    /\ completions' = {} /\ batch' = {}
    /\ timer' = FALSE /\ requested' = FALSE /\ task' = "none"
    /\ UNCHANGED <<ackMode, message, ledger, failures, crashes>>

Handle(e) == Add(e) \/ Ack(e) \/ Retry(e)
Scan(e) == ScanSucceeds(e) \/ EndRefused(e)
Flush == FlushLoop \/ BulkWrite \/ FlushReturns
Shutdown == FlushAll \/ Exit \/ Restart

Next ==
    \/ \E e \in Entries : Handle(e) \/ Scan(e) \/ RecordFailure(e) \/ ScanFails(e)
    \/ TimerFires \/ Flush \/ FlushFails \/ Crash \/ Stop \/ Shutdown

Spec == Init /\ [][Next]_vars

\* The event loop runs every task that is ready; scans end and timers fire.
FairSpec ==
    /\ Spec
    /\ \A e \in Entries : WF_vars(Handle(e)) /\ WF_vars(Scan(e))
    /\ WF_vars(TimerFires) /\ WF_vars(Flush) /\ WF_vars(Shutdown)
-----------------------------------------------------------------------------
(***************************************************************************)
(* Properties.                                                             *)
(***************************************************************************)
\* The shape of the coordinator's memory; no more scans run than there are slots.
TypeOK ==
    /\ ackMode \in AckModes
    /\ message \in [Entries -> {"queued", "unacked", "acked"}]
    /\ future \in [Entries -> {"none", "unset", "ok", "error"}]
    /\ pending \in Seq(Entries)
    /\ running \subseteq Entries /\ refused \subseteq running
    /\ Cardinality(running) <= Concurrency
    /\ completions \subseteq Entries /\ batch \subseteq Entries
    /\ {timer, requested} \subseteq BOOLEAN
    /\ task \in {"none", "looping", "flushing", "written"}
    /\ phase \in {"consuming", "stopping", "flush_all", "stopped"}
    /\ ledger \in [Entries -> {"open", "completed", "failed"}]
    /\ failures \in 0 .. MaxFailures /\ crashes \in 0 .. MaxCrashes

\* No scan slot is left free while entries wait for one.
SlotsUsed == pending # <<>> => Cardinality(running) = Concurrency

\* An entry is in one place at a time, and in mode "completed" a future is unresolved
\* exactly as long as the coordinator still holds its entry: no consumer waits for an
\* entry that was forgotten, and none is told of an entry still at work.
FuturesHeld ==
    LET waiting == ToSet(pending)
        held    == waiting \cup running \cup completions \cup batch
    IN  /\ Cardinality(held) = Len(pending) + Cardinality(running)
                                 + Cardinality(completions) + Cardinality(batch)
        /\ ackMode = "completed" => held = {e \in Entries : future[e] = "unset"}

\* In mode "completed" a message is acknowledged only when its item has ended in the
\* database, whatever fails or crashes in between.
AckedIsDurable ==
    ackMode = "completed" => \A e \in Entries : message[e] = "acked" => ledger[e] # "open"

\* A worker that is interrupted leaves nothing behind: in whatever mode a message was
\* acknowledged, its item has ended when the process does, unless a scan or write failed.
StopKeepsAcked ==
    (phase = "stopped" /\ failures = 0) =>
        \A e \in Entries : message[e] = "acked" => ledger[e] # "open"

\* Every item ends: no entry is left waiting for a slot, a window or a timer.  A message
\* that was acknowledged before the bulk write is given up with the first failure.
Settled ==
    \A e \in Entries : ledger[e] # "open" \/ (ackMode # "completed" /\ failures + crashes > 0)
EntriesSettle == <>[]Settled
=============================================================================
