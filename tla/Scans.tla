------------------------------- MODULE Scans --------------------------------
(***************************************************************************)
(* A full scan by a connector and a folder scan of the desktops: the two   *)
(* ways to have many files scanned that do not start from a batch job.     *)
(* They share no state.                                                    *)
(***************************************************************************)
EXTENDS Integers, Sequences

CONSTANTS
    Kinds, Limits, Requested, DefaultSize, MaxSize,     \* a full scan
    Concurrency, GatherAt, MaxFaults,
    Files, NameOf, Malicious, Plans, MaxMishaps         \* a folder scan

VARIABLES
    platform, limit, batch, size, ready, hold, at, listing, next, seen, items,
    calls, tasks, count, asked, answer, broken, troubles,
    app, plan, quarantine_enabled, place, job, worker, counted, late, reported, spoiled,
    wire, answers, active, running, button, dropped, mishaps

Full == INSTANCE FullScans WITH pc <- at, outcome <- answer, faults <- troubles

Folder == INSTANCE FolderScan WITH MaxFailures <- MaxMishaps, failures <- mishaps

ASSUME ScansAssumption == Full!FullAssumption /\ Folder!FolderAssumption

\* Properties of FullScans: a scan that has reported its end has asked for every file once, and
\* it keeps to its limit.
ScanComplete == Full!ScanComplete
LimitKept == Full!LimitKept

\* Properties of FolderScan: what it says of its files is true of them, and no file is lost on
\* the way to quarantine.
SummaryTrue == Folder!SummaryTrue
QuarantineKeeps == Folder!QuarantineKeeps
=============================================================================
