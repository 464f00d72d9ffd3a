----------------------------- MODULE FolderScan -----------------------------
(***************************************************************************)
(* The folder scan of the two DSXA desktops (Tauri and Electron): the      *)
(* window asks the back end for a job, its workers take the files of the   *)
(* folder one by one, and messages tell the window how it goes and when it *)
(* has ended.  With Tauri a worker may also move a malicious file into a   *)
(* quarantine directory, and the user may stop the job.                    *)
(*                                                                         *)
(* Progress only changes what is displayed until the end; the messages of  *)
(* the model are those that end a job and the answers to its start.        *)
(***************************************************************************)
EXTENDS Integers, Sequences, FiniteSets

CONSTANTS
    Files,        \* the files there may be
    NameOf,       \* their base names
    Malicious,    \* those that DSXA finds malicious
    Plans,        \* what a behaviour is about: the files of the folder; concurrency; and, a
                  \* bound, the number of scans the user starts
    MaxFailures   \* bound: reads, requests, renames, copies, removals and starts that fail

\* A scan has one worker at least, whatever the user asks for.
FolderAssumption ==
    /\ IsFiniteSet(Files)
    /\ Plans \subseteq [folder : SUBSET Files, concurrency : Nat \ {0}, jobs : Nat]
    /\ MaxFailures \in Nat

VARIABLES
    app, plan, quarantine_enabled,
    place,      \* where the content of each file is
    job,        \* the jobs of the back end
    worker,     \* per job: what each of its workers does
    counted,    \* history: how often each job has counted a path
    late,       \* history: files taken after the stop of their job
    reported,   \* history: files reported as moved from the folder to quarantine
    spoiled,    \* history: names in the quarantine over which a copy broke off
    wire,       \* messages on their way to the window, in order
    answers,    \* Tauri: jobs whose start has not yet been answered
    active,     \* activeFolderJobId, 0 = null
    running, button,   \* the window shows a scan; "Run Scan" is enabled
    dropped,    \* history: jobs of whose end the window took no notice
    failures

setup == <<app, plan, quarantine_enabled>>
backend == <<job, worker, counted, late>>
disk == <<place, reported, spoiled>>
window == <<active, running, button, dropped>>
vars == <<setup, disk, backend, wire, answers, window, failures>>

Jobs == 1..plan.jobs
Threads == 1..plan.concurrency

\* A path in the folder, or in the quarantine, which may lie in the folder and in which files
\* of one name have one path.
Names == {NameOf[f] : f \in Files}
Paths == (Files \X {"folder"}) \cup (Names \X {"quarantine"})
Resting == [at |-> "check", path |-> <<>>]
NewJob == [state |-> "none", todo |-> {}, total |-> 0, ok |-> 0, failed |-> 0, cancel |-> FALSE]

Init ==
    /\ app \in {"tauri", "electron"}
    /\ plan \in Plans
    /\ quarantine_enabled \in BOOLEAN /\ (app = "electron" => ~quarantine_enabled)
    /\ place = [f \in Files |-> "folder"]
    /\ job = [j \in Jobs |-> NewJob]
    /\ worker = [j \in Jobs |-> [w \in Threads |-> Resting]]
    /\ counted = [j \in Jobs |-> [p \in Paths |-> 0]]
    /\ late = [j \in Jobs |-> 0]
    /\ reported = {} /\ spoiled = {}
    /\ wire = <<>> /\ answers = {}
    /\ active = 0 /\ running = FALSE /\ button = TRUE
    /\ dropped = {} /\ failures = 0

Fail == failures < MaxFailures /\ failures' = failures + 1
-----------------------------------------------------------------------------
(***************************************************************************)
(* The window.                                                             *)
(***************************************************************************)
\* Electron's window names the job itself; Tauri's gets its name with the answer.
Click ==
    /\ button /\ active = 0
    /\ \E j \in Jobs :
         /\ job[j].state = "none" /\ \A i \in 1..(j - 1) : job[i].state # "none"
         /\ job' = [job EXCEPT ![j].state = "starting"]
         /\ IF app = "tauri"
            THEN answers' = answers \cup {j} /\ UNCHANGED active
            ELSE active' = j /\ UNCHANGED answers
    /\ running' = TRUE /\ button' = FALSE
    /\ UNCHANGED <<setup, disk, worker, counted, late, wire, dropped, failures>>

Answered(j) ==
    /\ j \in answers
    /\ answers' = answers \ {j} /\ active' = j
    /\ UNCHANGED <<setup, disk, backend, wire, running, button, dropped, failures>>

\* Tauri: a probe of the scanner sets the button, the count of the files of a newly picked
\* folder the other controls too.
Refresh ==
    /\ app = "tauri"
    /\ button' = (active = 0)
    /\ running' \in (IF active = 0 THEN {running, FALSE} ELSE {running})
    /\ UNCHANGED <<setup, disk, backend, wire, answers, active, dropped, failures>>

\* scan_folder_stop: "job not found" when it has ended.
Stop ==
    /\ app = "tauri" /\ active # 0 /\ running
    /\ job[active].state \in {"starting", "scanning"}
    /\ job' = [job EXCEPT ![active].cancel = TRUE]
    /\ UNCHANGED <<setup, disk, worker, counted, late, wire, answers, window,
                   failures>>

\* Messages of another job than the one the window knows are ignored.
Mine(j) == active # 0 /\ active = j

Idle == active' = 0 /\ running' = FALSE /\ button' = TRUE

\* handleFolderProgress; with Electron also what follows the answer to scanFolder.
Message ==
    /\ wire # <<>>
    /\ wire' = Tail(wire)
    /\ LET m == Head(wire)
       IN  CASE m.kind = "ended" /\ Mine(m.job)  -> Idle /\ UNCHANGED dropped
             [] m.kind = "ended" /\ ~Mine(m.job) -> /\ dropped' = dropped \cup {m.job}
                                                    /\ UNCHANGED <<active, running, button>>
             [] m.kind = "resolved" -> /\ IF active = 0 THEN Idle
                                          ELSE UNCHANGED <<active, running, button>>
                                       /\ UNCHANGED dropped
             [] m.kind = "rejected" -> Idle /\ UNCHANGED dropped
    /\ UNCHANGED <<setup, disk, backend, answers, failures>>
-----------------------------------------------------------------------------
(***************************************************************************)
(* The back end.                                                           *)
(***************************************************************************)
\* What the window is told of the end of job j.
Tell(j, how) ==
    wire' = wire \o <<[kind |-> "ended", job |-> j]>>
                 \o (IF app = "tauri" THEN <<>>
                     ELSE <<[kind |-> IF how = "error" THEN "rejected" ELSE "resolved",
                             job |-> j]>>)

\* The names taken in the quarantine, from which nothing is removed.
Taken == spoiled \cup {NameOf[f] : f \in {g \in Files : place[g] \in {"quarantine", "both"}}}

\* The paths at which there are files.
Found == ({f \in plan.folder : place[f] \in {"folder", "both"}} \X {"folder"})
         \cup (Taken \X {"quarantine"})

\* The folder is walked before anything is scanned.
List(j) ==
    /\ job[j].state = "starting"
    /\ job' = [job EXCEPT ![j].state = "scanning", ![j].todo = Found,
                          ![j].total = Cardinality(Found)]
    /\ UNCHANGED <<setup, disk, worker, counted, late, wire, answers, window, failures>>

\* Mutant: only the end of a summary is told.
StartFails_silent(j) ==
    /\ job[j].state = "starting" /\ Fail
    /\ job' = [job EXCEPT ![j].state = "error"]
    /\ UNCHANGED <<setup, disk, worker, counted, late, wire, answers, window>>

\* The client or a log file cannot be opened, or the folder not be read.
StartFails(j) ==
    /\ job[j].state = "starting" /\ Fail
    /\ job' = [job EXCEPT ![j].state = "error"]
    /\ Tell(j, "error")
    /\ UNCHANGED <<setup, disk, worker, counted, late, answers, window>>

At(j, w, at) == worker' = [worker EXCEPT ![j][w].at = at]
Rest(j, w) == worker' = [worker EXCEPT ![j][w] = Resting]

\* Mutant: the flag is only looked at before the first file.
Check_once(j, w) ==
    /\ worker[j][w].at = "check" /\ job[j].state = "scanning"
    /\ At(j, w, IF job[j].cancel /\ job[j].ok + job[j].failed = 0 THEN "exit" ELSE "take")
    /\ UNCHANGED <<setup, disk, job, counted, late, wire, answers, window, failures>>

\* The flag of the job is looked at before each file.
Check(j, w) ==
    /\ worker[j][w].at = "check" /\ job[j].state = "scanning"
    /\ At(j, w, IF job[j].cancel THEN "exit" ELSE "take")
    /\ UNCHANGED <<setup, disk, job, counted, late, wire, answers, window, failures>>

\* next_index.fetch_add(1): the next file in the order of the walk, which is the file system's.
Take(j, w) ==
    /\ worker[j][w].at = "take"
    /\ \/ /\ job[j].todo = {} /\ At(j, w, "exit")
          /\ UNCHANGED <<job, late>>
       \/ \E p \in job[j].todo :
            /\ job' = [job EXCEPT ![j].todo = @ \ {p}]
            /\ worker' = [worker EXCEPT ![j][w] = [at |-> "scan", path |-> p]]
            /\ late' = [late EXCEPT ![j] = IF job[j].cancel THEN @ + 1 ELSE @]
    /\ UNCHANGED <<setup, disk, counted, wire, answers, window, failures>>

Path(j, w) == worker[j][w].path
File(j, w) == Path(j, w)[1]
Where(j, w) == Path(j, w)[2]

\* There is still a file at the path.
There(j, w) ==
    IF Where(j, w) = "quarantine" THEN TRUE ELSE place[File(j, w)] \in {"folder", "both"}

Counted(j, w, how) ==
    /\ job' = [job EXCEPT ![j].ok = IF how = "ok" THEN @ + 1 ELSE @,
                          ![j].failed = IF how = "ok" THEN @ ELSE @ + 1]
    /\ counted' = [counted EXCEPT ![j][Path(j, w)] = @ + 1]

\* What is in the quarantine is malicious, or has broken off and makes no difference.
Moves(j, w) ==
    quarantine_enabled /\ (Where(j, w) = "folder" => File(j, w) \in Malicious)

\* Metadata, hash and request, and the counters.
Scan(j, w) ==
    /\ worker[j][w].at = "scan"
    /\ \/ /\ There(j, w)
          /\ Counted(j, w, "ok")
          /\ IF Moves(j, w) THEN At(j, w, "move") ELSE Rest(j, w)
          /\ UNCHANGED failures
       \/ /\ IF There(j, w) THEN Fail ELSE UNCHANGED failures
          /\ Counted(j, w, "failed") /\ Rest(j, w)
    /\ UNCHANGED <<setup, disk, late, wire, answers, window>>

\* f takes its name in the quarantine; it stays in the folder, or not.
Arrives(f, where) ==
    place' = [g \in Files |->
                IF g = f THEN where
                ELSE IF NameOf[g] # NameOf[f] THEN place[g]
                ELSE CASE place[g] = "quarantine" -> "overwritten"
                       [] place[g] = "both"       -> "folder"
                       [] OTHER -> place[g]]

Moved(j, w) == reported' = reported \cup {File(j, w)} /\ Rest(j, w)

\* move_to_quarantine: a rename; one onto itself, of a file found in the quarantine, does nothing.
Rename(j, w) ==
    /\ worker[j][w].at = "move"
    /\ \/ /\ Where(j, w) = "quarantine"
          /\ Rest(j, w) /\ UNCHANGED <<disk, failures>>
       \/ /\ Where(j, w) = "folder" /\ There(j, w)
          /\ Arrives(File(j, w), "quarantine") /\ Moved(j, w) /\ UNCHANGED <<spoiled, failures>>
       \/ /\ Where(j, w) = "folder"
          /\ IF There(j, w) THEN Fail ELSE UNCHANGED failures
          /\ At(j, w, "copy") /\ UNCHANGED disk
    /\ UNCHANGED <<setup, job, counted, late, wire, answers, window>>

\* The copy cannot be made, or breaks off and leaves its beginning under the name.
CopyFails(j, w) ==
    \/ (IF There(j, w) THEN Fail ELSE UNCHANGED failures) /\ UNCHANGED disk
    \/ /\ There(j, w) /\ Fail
       /\ Arrives(File(j, w), "folder") /\ spoiled' = spoiled \cup {NameOf[File(j, w)]}
       /\ UNCHANGED reported

\* Mutant: the original is removed also when it could not be copied.
Copy_unchecked(j, w) ==
    /\ worker[j][w].at = "copy"
    /\ At(j, w, "remove")
    /\ \/ There(j, w) /\ Arrives(File(j, w), "both") /\ UNCHANGED <<reported, spoiled, failures>>
       \/ CopyFails(j, w)
    /\ UNCHANGED <<setup, job, counted, late, wire, answers, window>>

\* When it fails: a copy and a removal, of which each ends the move when it fails.
Copy(j, w) ==
    /\ worker[j][w].at = "copy"
    /\ \/ /\ There(j, w) /\ Arrives(File(j, w), "both")
          /\ At(j, w, "remove") /\ UNCHANGED <<reported, spoiled, failures>>
       \/ CopyFails(j, w) /\ Rest(j, w)
    /\ UNCHANGED <<setup, job, counted, late, wire, answers, window>>

Removed(f) ==
    place' = [place EXCEPT ![f] = IF @ = "both" THEN "quarantine" ELSE "overwritten"]

Remove(j, w) ==
    /\ worker[j][w].at = "remove"
    /\ \/ /\ There(j, w) /\ Moved(j, w) /\ Removed(File(j, w)) /\ UNCHANGED <<spoiled, failures>>
       \/ /\ IF There(j, w) THEN Fail ELSE UNCHANGED failures
          /\ Rest(j, w) /\ UNCHANGED disk
    /\ UNCHANGED <<setup, job, counted, late, wire, answers, window>>

\* Mutant: one worker that is done is enough.
AllDone_one(j) == \E w \in Threads : worker[j][w].at = "exit"

AllDone(j) == \A w \in Threads : worker[j][w].at = "exit"

Finish(j) ==
    /\ job[j].state = "scanning" /\ AllDone(j)
    /\ LET canceled == job[j].cancel /\ job[j].ok + job[j].failed < job[j].total
       IN  job' = [job EXCEPT ![j].state = IF canceled THEN "canceled" ELSE "done"]
    /\ Tell(j, "done")
    /\ UNCHANGED <<setup, disk, worker, counted, late, answers, window, failures>>
-----------------------------------------------------------------------------
Works(j, w) ==
    \/ Check(j, w) \/ Take(j, w) \/ Scan(j, w) \/ Rename(j, w) \/ Copy(j, w) \/ Remove(j, w)

\* What goes on by itself.
GoesOn ==
    \/ Message
    \/ \E j \in Jobs : Answered(j) \/ List(j) \/ Finish(j) \/ \E w \in Threads : Works(j, w)

Next == Click \/ Refresh \/ Stop \/ GoesOn \/ \E j \in Jobs : StartFails(j)

Spec == Init /\ [][Next]_vars /\ WF_vars(GoesOn)
-----------------------------------------------------------------------------
(***************************************************************************)
(* Properties.                                                             *)
(***************************************************************************)
\* The summary is true, however the workers interleave: a job that ends as done has counted
\* every path it found once, one that was canceled each at most once, and a stop lets every
\* worker take one more file at most.
SummaryTrue ==
    \A j \in Jobs :
      /\ \A p \in Paths : counted[j][p] <= 1
      /\ job[j].state = "done" => job[j].ok + job[j].failed = job[j].total
      /\ job[j].state \in {"done", "canceled"} =>
           job[j].ok + job[j].failed = Cardinality({p \in Paths : counted[j][p] = 1})
      /\ job[j].state = "canceled" => job[j].cancel
      /\ late[j] <= Cardinality(Threads)

\* No malicious file is lost by being moved, whatever step of the move fails: it is in the
\* folder or the quarantine, and no longer in the folder if its move was reported, unless
\* another one with the same name has taken its place in the quarantine, or a copy to that
\* name broke off.
QuarantineKeeps ==
    \A f \in Files :
      /\ place[f] = "overwritten" =>
           \/ NameOf[f] \in spoiled
           \/ \E g \in Files \ {f} : NameOf[g] = NameOf[f] /\ place[g] \in {"both", "quarantine"}
      /\ f \in reported => place[f] \in {"quarantine", "overwritten"}

\* The window does not show a scan for ever.  (Tauri's window does when a job ends before its
\* start has been answered, or when a newer job has taken its place in the window.)
ScanSettles == <>[](running => app = "tauri" /\ dropped # {})
=============================================================================
