--------------------------- MODULE ScanCompletions ---------------------------
(***************************************************************************)
(* The two ways in which a scan worker of dsx_connect_ng has its completed *)
(* scans written: by a coordinator that scans many entries at a time, or   *)
(* by a buffer that handlers of single messages fill.  A worker runs one   *)
(* or the other, and they share no state.                                  *)
(***************************************************************************)
EXTENDS Integers, FiniteSets, Sequences, SequencesExt

CONSTANTS
    BatchSize,                                                              \* of either
    Entries, Concurrency, Prefetch, AckModes, MaxFailures, MaxCrashes,      \* the coordinator
    Messages, MaxBulkFailures                                               \* the buffer

VARIABLES
    ackMode, message, future, pending, running, refused, completions, timer, requested, task,
    batch, phase, ledger, failures, crashes,
    handler, buffered, drained, ticker, process, persisted, bulkFailures

Coordinator == INSTANCE BatchCoordinator

Buffer == INSTANCE CompletionBuffer WITH
    MaxFailures <- MaxBulkFailures,
    pending <- buffered, batch <- drained, phase <- process, failures <- bulkFailures

ASSUME CompletionsAssumption == Coordinator!CoordinatorAssumption /\ Buffer!BufferAssumption

\* What is in hand is used and held: no slot is idle while entries wait, no future is forgotten,
\* no completion is drained twice.
WorkHeld ==
    /\ Coordinator!TypeOK /\ Coordinator!SlotsUsed /\ Coordinator!FuturesHeld
    /\ Buffer!TypeOK /\ Buffer!DrainedOnce
AckedIsDurable == Coordinator!AckedIsDurable

\* Whichever of the two a worker runs, it leaves nothing behind when it is interrupted.
StoppedKeepsAcked == Coordinator!StopKeepsAcked /\ Buffer!StopKeepsAcked
=============================================================================
