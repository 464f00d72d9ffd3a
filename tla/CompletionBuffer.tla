--------------------------- MODULE CompletionBuffer ---------------------------
(***************************************************************************)
(* ScanOnlyCompletionBuffer of the scan worker: completed scans of a low   *)
(* persistence batch are collected and written in bulk, by the handler that*)
(* fills the buffer or by a task that wakes at an interval.  A handler     *)
(* whose completion is merely buffered returns, and its message is         *)
(* acknowledged.                                                           *)
(*                                                                         *)
(* The buffer's lock is never held across an await, so what it guards is   *)
(* one action; the bulk write is awaited outside it, in a thread that runs *)
(* to its end whatever becomes of the task that awaits it.                 *)
(***************************************************************************)
EXTENDS Integers, FiniteSets

CONSTANTS
    Messages,    \* scan requests, one per item
    BatchSize,   \* --scan-only-completion-batch-size
    MaxFailures  \* bound: bulk writes that raise

BufferAssumption ==
    /\ IsFiniteSet(Messages) /\ {"ticker", "flush_all"} \cap Messages = {}
    /\ BatchSize \in Nat \ {0} /\ MaxFailures \in Nat

VARIABLES
    handler,    \* what the consumer does with each message
    pending,    \* _pending
    batch,      \* the completions that each writer has drained
    ticker,     \* flush_completion_buffer_forever
    phase,      \* of the process: "consuming", "stopping", "flush_all" or "stopped"
    persisted,  \* items completed in the database
    failures

vars == <<handler, pending, batch, ticker, phase, persisted, failures>>

Writers == Messages \cup {"ticker", "flush_all"}

Init ==
    /\ handler = [m \in Messages |-> "queued"]
    /\ pending = {}
    /\ batch = [w \in Writers |-> {}]
    /\ ticker = "sleeping"
    /\ phase = "consuming"
    /\ persisted = {}
    /\ failures = 0

Deliver(m) ==
    /\ phase = "consuming"
    /\ handler[m] = "queued"
    /\ handler' = [handler EXCEPT ![m] = "scanning"]
    /\ UNCHANGED <<pending, batch, ticker, phase, persisted, failures>>

\* Mutant: the drained completions stay in the buffer.
Drain_kept(w, completions) ==
    /\ batch' = [batch EXCEPT ![w] = completions]
    /\ pending' = completions

\* _drain_locked.
Drain(w, completions) ==
    /\ batch' = [batch EXCEPT ![w] = completions]
    /\ pending' = {}

\* The scan is done: add, which drains a full buffer.
Add(m) ==
    /\ handler[m] = "scanning"
    /\ IF Cardinality(pending \cup {m}) < BatchSize
       THEN /\ pending' = pending \cup {m}
            /\ handler' = [handler EXCEPT ![m] = "acked"]
            /\ UNCHANGED batch
       ELSE /\ Drain(m, pending \cup {m})
            /\ handler' = [handler EXCEPT ![m] = "flushing"]
    /\ UNCHANGED <<ticker, phase, persisted, failures>>

\* flush_due once the interval has passed.
Tick ==
    /\ ticker = "sleeping"
    /\ pending # {}
    /\ Drain("ticker", pending)
    /\ ticker' = "flushing"
    /\ UNCHANGED <<handler, phase, persisted, failures>>

\* complete_scan_only_bulk returns ...
Flushed(w) ==
    /\ batch[w] # {}
    /\ persisted' = persisted \cup batch[w]
    /\ batch' = [batch EXCEPT ![w] = {}]
    /\ handler' = IF w \in Messages THEN [handler EXCEPT ![w] = "acked"] ELSE handler
    /\ ticker' = IF w = "ticker" /\ ticker = "flushing" THEN "sleeping" ELSE ticker
    /\ phase' = IF w = "flush_all" THEN "stopped" ELSE phase
    /\ UNCHANGED <<pending, failures>>

\* ... or raises: the handler's message is retried, the ticker's task or the process ends.
FlushFails(w) ==
    /\ batch[w] # {}
    /\ failures < MaxFailures
    /\ failures' = failures + 1
    /\ batch' = [batch EXCEPT ![w] = {}]
    /\ handler' = IF w \in Messages THEN [handler EXCEPT ![w] = "queued"] ELSE handler
    /\ ticker' = IF w = "ticker" THEN "ended" ELSE ticker
    /\ phase' = IF w = "flush_all" THEN "stopped" ELSE phase
    /\ UNCHANGED <<pending, persisted>>

\* The worker is interrupted: consume_queue takes no more messages.
Stop ==
    /\ phase = "consuming"
    /\ phase' = "stopping"
    /\ UNCHANGED <<handler, pending, batch, ticker, persisted, failures>>

\* The handlers have ended: the interval task is cancelled, what is buffered drained.
FlushAll ==
    /\ phase = "stopping"
    /\ \A m \in Messages : handler[m] \in {"queued", "acked"}
    /\ ticker' = "ended"
    /\ Drain("flush_all", pending)
    /\ phase' = IF pending = {} THEN "stopped" ELSE "flush_all"
    /\ UNCHANGED <<handler, persisted, failures>>

Work == \E m \in Messages : Deliver(m) \/ Add(m)
Next == Work \/ Tick \/ Stop \/ FlushAll \/ \E w \in Writers : Flushed(w) \/ FlushFails(w)

Spec == Init /\ [][Next]_vars

\* The event loop runs every task that is ready, and the interval passes.
FairSpec ==
    /\ Spec
    /\ WF_vars(Tick) /\ WF_vars(FlushAll)
    /\ \A m \in Messages : WF_vars(Deliver(m) \/ Add(m))
    /\ \A w \in Writers : WF_vars(Flushed(w))
-----------------------------------------------------------------------------
(***************************************************************************)
(* Properties.                                                             *)
(***************************************************************************)
\* The shape of the buffer and its writers; what is buffered is less than a batch.
TypeOK ==
    /\ handler \in [Messages -> {"queued", "scanning", "flushing", "acked"}]
    /\ pending \subseteq Messages /\ Cardinality(pending) < BatchSize
    /\ batch \in [Writers -> SUBSET Messages]
    /\ ticker \in {"sleeping", "flushing", "ended"}
    /\ phase \in {"consuming", "stopping", "flush_all", "stopped"}
    /\ persisted \subseteq Messages
    /\ failures \in 0 .. MaxFailures

\* A completion is drained by one writer only, however the writers' awaits
\* interleave: no completion is buffered and being written, or written twice at once.
DrainedOnce ==
    /\ \A w \in Writers : batch[w] \cap pending = {}
    /\ \A v, w \in Writers : v # w => batch[v] \cap batch[w] = {}

\* A worker that is interrupted leaves nothing behind: every completion whose message was
\* acknowledged is written when the process ends, unless a write has failed.
StopKeepsAcked ==
    (phase = "stopped" /\ failures = 0) =>
        \A m \in Messages : handler[m] = "acked" => m \in persisted \cup batch["ticker"]

\* Whatever is buffered is drained for a bulk write in the end, as long as no bulk write
\* of the interval task has failed.
BufferDrains == <>[](pending = {} \/ ticker = "ended")
=============================================================================
