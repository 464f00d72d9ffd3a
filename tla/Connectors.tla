----------------------------- MODULE Connectors -----------------------------
(***************************************************************************)
(* What a connector does for dsx-connect, beside full scans: it registers  *)
(* with the control plane, it reports the changes of a drive or a mailbox, *)
(* and it carries out actions on files.  The three share no state.         *)
(***************************************************************************)
EXTENDS ControlPlane

CONSTANTS
    Services, Items, Handlers, MaxChanges, MaxTroubles, FaultKinds,  \* changes of a drive
    Workers, MaxCalls, MaxFailed                                     \* actions

VARIABLES
    service, log, subscribed, notes, store, cursor, proc, task, requested, heard, dropped,
    troubles,
    platform, action, setting, source, copies, arriving, tagged, calls, waiting,
    pc, stage, queue, dlq, failed

Drive == INSTANCE DriveChanges WITH MaxFaults <- MaxTroubles, cache <- cursor, faults <- troubles

Action == INSTANCE ItemActions WITH
    MaxFaults <- MaxFailed, integration <- setting, faults <- failed

\* The properties of DriveChanges: no cursor skips a change, and what was heard of is asked for.
NothingSkipped == Drive!NothingSkipped
ChangesCatchUp == Drive!CatchesUp

\* Those of ItemActions: a file that is moved is never lost nor there twice, and what is
\* reported as done is done.
FileKept == Action!ContentKept /\ Action!QuarantinedOnce
SuccessIsReal == Action!SuccessIsReal
=============================================================================
