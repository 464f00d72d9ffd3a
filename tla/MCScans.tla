------------------------------- MODULE MCScans --------------------------------
(* Instances of ScanOnlyBatch, FullScans and FolderScan for TLC: the three ways   *)
(* to have many files scanned, each of which must come to its end.  part says     *)
(* which one a behaviour is about; the others stay as they start.                 *)
EXTENDS ScanOnlyBatch, Scans

CONSTANTS i1, i2, r1, w1

VARIABLE part

fullVars ==
    <<platform, limit, batch, size, ready, hold, at, listing, next, seen, items,
      calls, tasks, count, asked, answer, broken, troubles>>
folderVars ==
    <<app, plan, quarantine_enabled, place, job, worker, counted, late, reported, spoiled,
      wire, answers, active, running, button, dropped, mishaps>>
allVars == <<part, vars, fullVars, folderVars>>

TwoItems == {i1, i2}
OneRelay == {r1}
OneWorker == {w1}

\* A full scan: eligible objects between others.
Listing == <<"file", "quarantine", "file", "filtered", "file">>
LimitsAsked == 0..3

\* A folder scan: two malicious files of one name and one that is clean, taken by two workers;
\* or one file, scanned again by a second job.
FileNames == [a |-> "x", b |-> "x", c |-> "y"]
TwoPlans ==
    {[folder |-> {"a", "b", "c"}, concurrency |-> 2, jobs |-> 1],
     [folder |-> {"a"}, concurrency |-> 1, jobs |-> 2]}

MCInit ==
    /\ part \in {"batch", "full scan", "folder scan"}
    /\ Init /\ Full!Init /\ Folder!Init
    /\ part # "full scan" => platform = "s3" /\ limit = 0 /\ batch /\ size = 2 /\ ready
    /\ part # "folder scan" => app = "electron" /\ plan.jobs = 1

InBatch(A) == part = "batch" /\ A /\ UNCHANGED <<part, fullVars, folderVars>>
InFull(A) == part = "full scan" /\ A /\ UNCHANGED <<part, vars, folderVars>>
InFolder(A) == part = "folder scan" /\ A /\ UNCHANGED <<part, vars, fullVars>>

MCNext == InBatch(Next) \/ InFull(Full!Next) \/ InFolder(Folder!Next)

\* The fairness of all three.  A behaviour is about one part, so that one condition may speak
\* of several.
MCFairSpec ==
    /\ MCInit /\ [][MCNext]_allVars
    /\ WF_allVars(InBatch(Step("api")) \/ InFull(Full!Handler) \/ InFolder(Folder!GoesOn))
    /\ WF_allVars(InBatch(Step("client")) \/ InFull(\E c \in calls : Full!Request(c)))
    /\ \A p \in {"operator", r1, w1} : WF_allVars(InBatch(Step(p)))

\* Each of them ends: the parent job of a batch in the state its items call for, a full scan
\* with its report or the attempt, a folder scan also in the window, with the exception that
\* FolderScan names.
AllEnd ==
    <>[](CASE part = "batch"       -> Settled
           [] part = "full scan"   -> at \in {"done", "unreported"}
           [] part = "folder scan" -> running => app = "tauri" /\ dropped # {})
=============================================================================
