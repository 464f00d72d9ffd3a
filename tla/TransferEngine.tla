---------------------------- MODULE TransferEngine ----------------------------
(***************************************************************************)
(* TransferEngine of dsx_transfer.  A run plans every file of the source   *)
(* and takes up to Concurrency of them at a time through the checkpoint,   *)
(* the scan gate, the copy and the record of the outcome; a run that was   *)
(* interrupted is resumed by the next one.  An action is what happens      *)
(* between two awaits that suspend (the scan and the copy).  The content   *)
(* of a file is a version number, which its fingerprint (size, time of     *)
(* modification) identifies.                                               *)
(***************************************************************************)
EXTENDS Naturals, FiniteSets

CONSTANTS
    Items,
    Concurrency,
    MaxVersion,         \* bound: a file is replaced at most MaxVersion - 1 times
    Observations,       \* Observations[v]: the scanner's verdict on version v, its file type
    FileTypeActions,    \* file_type_actions, by file type or group of types
    VerdictActions,     \* verdict_actions, overriding the defaults
    MaxFaults,          \* bound: exceptions of gate, sink and audit
    MaxCrashes          \* bound: interrupted runs

\* Every file exists at first.
ASSUME TransferAssumption == MaxVersion \in Nat \ {0}

VARIABLES
    source,      \* source[i]: the version at the source
    dest,        \* dest[i]: the version at the destination, Absent or Partial
    checkpoint,  \* the checkpoint file: a record for each item, or Broken
    run,         \* "idle", "running", "failing" (an exception escaped), "reported", "aborted"
    planned,     \* planned[i]: the fingerprint taken when the run was planned
    pc,          \* pc[i]: "idle", "queued", "scanning", "writing" or "done"
    outcome,     \* outcome[i] of the current run
    swapped,     \* history: files replaced between the gate's reading and their last copy
    faults, crashes

vars == <<source, dest, checkpoint, run, planned, pc, outcome, swapped, faults, crashes>>

Versions == 1 .. MaxVersion
Absent == 0
Partial == MaxVersion + 1

NoRecord == [state |-> "none", fingerprint |-> 0]
EmptyFile == [i \in Items |-> NoRecord]
Broken == [i \in {} |-> NoRecord]       \* text that json.loads rejects
-----------------------------------------------------------------------------
(***************************************************************************)
(* The policy.                                                             *)
(***************************************************************************)
DefaultVerdictActions ==
    [benign |-> "allow", malicious |-> "block", suspicious |-> "block",
     unknown |-> "block", error |-> "error"]

WindowsExecutables == {"PEFileType", "PE32FileType", "PE64FileType"}
LinuxExecutables == {"ELF32FileType", "ELF64FileType"}
MacosExecutables == {"MachoFATFileType", "Macho32FileType", "Macho64FileType"}

FileTypeGroups ==
    [windows_executables |-> WindowsExecutables,
     linux_executables   |-> LinuxExecutables,
     macos_executables   |-> MacosExecutables,
     executables         |-> WindowsExecutables \cup LinuxExecutables \cup MacosExecutables]

\* expand_file_type_actions; no type is named by two rules.
ExpandedActions(rules) ==
    LET TypesOf(g) == IF g \in DOMAIN FileTypeGroups THEN FileTypeGroups[g] ELSE {g}
    IN  [t \in UNION {TypesOf(g) : g \in DOMAIN rules} |->
           rules[CHOOSE g \in DOMAIN rules : t \in TypesOf(g)]]

\* _normalize_dsxa_verdict: what the scanner cannot or will not scan is unknown, and
\* what it says nothing recognizable about is an error.
Normalized ==
    [benign |-> "benign", malicious |-> "malicious",
     non_compliant |-> "suspicious", suspicious |-> "suspicious", unknown |-> "unknown",
     unsupported_file_type |-> "unknown", not_scanned |-> "unknown", scanning |-> "unknown"]

VerdictOf(raw) == IF raw \in DOMAIN Normalized THEN Normalized[raw] ELSE "error"

\* GuardedTransferPolicy.evaluate: a rule on the file type goes before the verdict.
evaluate(o) ==
    LET types   == ExpandedActions(FileTypeActions)
        verdict == VerdictOf(o.verdict)
    IN  IF o.type \in DOMAIN types THEN types[o.type]
        ELSE IF verdict \in DOMAIN VerdictActions THEN VerdictActions[verdict]
        ELSE DefaultVerdictActions[verdict]

allowed(v) == evaluate(Observations[v]) = "allow"

\* The record of a refused file.
StateForNonAllow(v) ==
    IF evaluate(Observations[v]) = "exclude" THEN "excluded" ELSE "blocked"
-----------------------------------------------------------------------------
(***************************************************************************)
(* Recording an outcome: the checkpoint, then the audit event.             *)
(***************************************************************************)
\* n exceptions are raised in this step.
Faulty(n) == faults + n <= MaxFaults /\ faults' = faults + n

Put(i, s) ==
    /\ checkpoint # Broken
    /\ checkpoint' = [checkpoint EXCEPT ![i] = [state |-> s, fingerprint |-> planned[i]]]

\* The file, rewritten in place, cannot be opened, or is left empty or cut off.
PutFails == checkpoint' \in {checkpoint, EmptyFile, Broken}

Finish(i, s) ==
    /\ outcome' = [outcome EXCEPT ![i] = s]
    /\ pc' = [pc EXCEPT ![i] = "done"]
    /\ UNCHANGED run

\* The exception leaves _execute_item and ends gather.
Escape(i) ==
    /\ run' = "failing"
    /\ pc' = [pc EXCEPT ![i] = "done"]
    /\ UNCHANGED outcome

\* The except clause, after n exceptions; storing and auditing may raise there too.
RecordFailed(i, n) ==
    \/ Put(i, "failed") /\ Faulty(n) /\ Finish(i, "failed")
    \/ (Put(i, "failed") \/ PutFails) /\ Faulty(n + 1) /\ Escape(i)
    \/ checkpoint = Broken /\ UNCHANGED checkpoint /\ Faulty(n) /\ Escape(i)

\* A store that fails, or an audit sink that raises, sends the item to the except clause,
\* which overwrites its record.
RecordOutcome(i, s) ==
    \/ Put(i, s) /\ Faulty(0) /\ Finish(i, s)
    \/ RecordFailed(i, IF checkpoint = Broken THEN 0 ELSE 1)
    \/ checkpoint' = Broken /\ Faulty(1) /\ Escape(i)
    \/ /\ checkpoint # Broken /\ Faulty(1)
       /\ checkpoint' = [EmptyFile EXCEPT ![i] = [state |-> "failed", fingerprint |-> planned[i]]]
       /\ Finish(i, "failed")
-----------------------------------------------------------------------------
(***************************************************************************)
(* A run.                                                                  *)
(***************************************************************************)
Init ==
    /\ source = [i \in Items |-> 1]
    /\ dest = [i \in Items |-> Absent]
    /\ checkpoint = EmptyFile
    /\ run = "idle"
    /\ planned = source
    /\ pc = [i \in Items |-> "idle"]
    /\ outcome = [i \in Items |-> "none"]
    /\ swapped = {}
    /\ faults = 0 /\ crashes = 0

\* build_plan, and the start of execute_plan.
Start ==
    /\ run \in {"idle", "reported", "aborted"}
    /\ run' = "running"
    /\ planned' = source
    /\ pc' = [i \in Items |-> "queued"]
    /\ outcome' = [i \in Items |-> "none"]
    /\ UNCHANGED <<source, dest, checkpoint, swapped, faults, crashes>>

\* Mutant: the record is used whatever the fingerprint.
Resumable_any(i) == checkpoint[i].state = "allowed"

\* Mutant: whatever was recorded for this version is final.
Resumable_recorded(i) == checkpoint[i].fingerprint = planned[i]

\* JsonCheckpointStore.get finds a record that lets the item be skipped.
Resumable(i) ==
    checkpoint[i].state = "allowed" /\ checkpoint[i].fingerprint = planned[i]

\* Gathered items go on until the exception of one has reached the loop.
Live == run = "running" \/ (run = "failing" /\ Concurrency > 1)

Begin(i) ==
    /\ Live
    /\ pc[i] = "queued"
    /\ Cardinality({j \in Items : pc[j] \in {"scanning", "writing"}}) < Concurrency
    /\ \/ /\ checkpoint = Broken
          /\ Escape(i)
          /\ UNCHANGED <<checkpoint, faults>>
       \/ /\ checkpoint # Broken
          /\ Resumable(i)
          /\ \/ Faulty(0) /\ Finish(i, "skipped") /\ UNCHANGED checkpoint
             \/ RecordFailed(i, 1)
       \/ /\ checkpoint # Broken
          /\ ~Resumable(i)
          /\ pc' = [pc EXCEPT ![i] = "scanning"]
          /\ UNCHANGED <<run, outcome, checkpoint, faults>>
    /\ UNCHANGED <<source, dest, planned, swapped, crashes>>

\* Mutant: the decision on the file as planned is used.
Scanned_planned(i) ==
    /\ pc[i] = "scanning"
    /\ \/ /\ allowed(planned[i])
          /\ dest' = [dest EXCEPT ![i] = Partial]
          /\ swapped' = swapped \ {i}
          /\ pc' = [pc EXCEPT ![i] = "writing"]
          /\ UNCHANGED <<run, outcome, checkpoint, faults>>
       \/ /\ ~allowed(planned[i])
          /\ RecordOutcome(i, StateForNonAllow(source[i]))
          /\ UNCHANGED <<dest, swapped>>
       \/ RecordFailed(i, 1) /\ UNCHANGED <<dest, swapped>>
    /\ UNCHANGED <<source, planned, crashes>>

\* The gate has decided; the file sink opens, and empties, the destination.
Scanned(i) ==
    /\ pc[i] = "scanning"
    /\ \/ /\ allowed(source[i])
          /\ dest' = [dest EXCEPT ![i] = Partial]
          /\ swapped' = swapped \ {i}
          /\ pc' = [pc EXCEPT ![i] = "writing"]
          /\ UNCHANGED <<run, outcome, checkpoint, faults>>
       \/ /\ ~allowed(source[i])
          /\ RecordOutcome(i, StateForNonAllow(source[i]))
          /\ UNCHANGED <<dest, swapped>>
       \/ RecordFailed(i, 1) /\ UNCHANGED <<dest, swapped>>
    /\ UNCHANGED <<source, planned, crashes>>

\* Mutant: a copy that failed is recorded like one that succeeded.
Written_unchecked(i) ==
    /\ pc[i] = "writing"
    /\ \/ dest' = [dest EXCEPT ![i] = source[i]] /\ RecordOutcome(i, "allowed")
       \/ UNCHANGED dest /\ Put(i, "allowed") /\ Faulty(1) /\ Finish(i, "allowed")
    /\ UNCHANGED <<source, planned, swapped, crashes>>

\* The copy, from a second reading of the source, is complete or has failed.
Written(i) ==
    /\ pc[i] = "writing"
    /\ \/ dest' = [dest EXCEPT ![i] = source[i]] /\ RecordOutcome(i, "allowed")
       \/ UNCHANGED dest /\ RecordFailed(i, 1)
    /\ UNCHANGED <<source, planned, swapped, crashes>>

\* asyncio.run cancels what is still running, which no except clause here catches.
Abort ==
    /\ run = "failing"
    /\ run' = "aborted"
    /\ pc' = [i \in Items |-> "idle"]
    /\ UNCHANGED <<source, dest, checkpoint, planned, outcome, swapped, faults, crashes>>

Report ==
    /\ run = "running"
    /\ \A i \in Items : pc[i] = "done"
    /\ run' = "reported"
    /\ UNCHANGED <<source, dest, checkpoint, planned, pc, outcome, swapped, faults, crashes>>

\* The process dies: anywhere, or after the copy of i, before, in or after the rewriting
\* in place of the checkpoint file, which an open for writing has emptied.
Crash ==
    /\ run \in {"running", "failing"}
    /\ crashes < MaxCrashes
    /\ crashes' = crashes + 1
    /\ run' = "idle"
    /\ pc' = [i \in Items |-> "idle"]
    /\ \/ UNCHANGED <<dest, checkpoint>>
       \/ \E i \in Items :
            /\ pc[i] \in {"scanning", "writing"}
            /\ checkpoint' \in {checkpoint, EmptyFile, Broken}
            /\ dest' = IF pc[i] = "writing" THEN [dest EXCEPT ![i] = source[i]] ELSE dest
    /\ UNCHANGED <<source, planned, outcome, swapped, faults>>

\* The environment: a file is replaced as a whole, at any time.  What has been opened is read
\* to its end, so that the gate and the copy each read one version: the copy the one that is
\* there after the gate has decided.
Replace(i) ==
    /\ source[i] < MaxVersion
    /\ source' = [source EXCEPT ![i] = @ + 1]
    /\ swapped' = IF pc[i] = "writing" THEN swapped \cup {i} ELSE swapped
    /\ UNCHANGED <<dest, checkpoint, run, planned, pc, outcome, faults, crashes>>

Step == Start \/ Abort \/ Report \/ \E i \in Items : Begin(i) \/ Scanned(i) \/ Written(i)

Next == Step \/ Crash \/ \E i \in Items : Replace(i)

Spec == Init /\ [][Next]_vars

\* The engine does not stop by itself, and an operator reruns what has ended.
FairSpec == Spec /\ WF_vars(Step) /\ \A i \in Items : WF_vars(Begin(i) \/ Scanned(i) \/ Written(i))
-----------------------------------------------------------------------------
(***************************************************************************)
(* Properties.                                                             *)
(***************************************************************************)
\* The gate comes before the commit: a complete file at the destination is allowed in the
\* version that is there, through failures, interruptions, reruns and replaced files, unless
\* it was replaced after the gate had read it for this very copy.
DeliveredWasGated ==
    \A i \in Items : dest[i] \in Versions => allowed(dest[i]) \/ i \in swapped

\* What is promised of the clean destination: nothing is there that the policy does not allow.
DeliveredWasAllowed == \A i \in Items : dest[i] \in Versions => allowed(dest[i])

\* What a rerun relies on to skip a file is true: its content is at the destination.
CheckpointTrue ==
    checkpoint # Broken =>
        \A i \in Items :
            (checkpoint[i].state = "allowed" /\ checkpoint[i].fingerprint = source[i])
                => dest[i] = source[i]

\* A report without failures (exit code 0) means that every planned file is at the
\* destination, as planned or newer, or was refused.
CleanReport ==
    (run = "reported" /\ \A i \in Items : outcome[i] # "failed") =>
        \A i \in Items : outcome[i] \in {"allowed", "skipped"} =>
                            dest[i] \in planned[i] .. MaxVersion

\* The version at the source has been dealt with.
Settled(i) ==
    IF allowed(source[i]) THEN dest[i] = source[i] /\ checkpoint[i].state = "allowed"
                          ELSE checkpoint[i].state \in {"blocked", "excluded"}

\* Reruns finish the work: whatever failed or was interrupted, every file is copied or
\* refused in the end, unless a crash has broken the checkpoint file.
TransferCompletes == <>[](checkpoint = Broken \/ \A i \in Items : Settled(i))
=============================================================================
