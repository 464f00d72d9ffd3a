------------------------ MODULE TransferEngineProofs ------------------------
(***************************************************************************)
(* Proofs about TransferEngine, for any set of files, number of versions,  *)
(* policy, concurrency, failures and interruptions: what is delivered was  *)
(* let through, or put in place of what was let through before it was      *)
(* copied; the checkpoint is true, and so is a clean report.               *)
(***************************************************************************)
EXTENDS TransferEngine, TLAPS

RecordStates == {"none", "allowed", "blocked", "excluded", "failed"}
Record == [state : RecordStates, fingerprint : Nat]
Readable == checkpoint # Broken

\* The shape of the state.
TypeOK ==
    /\ source \in [Items -> Versions]
    /\ planned \in [Items -> Versions]
    /\ dest \in [Items -> 0 .. MaxVersion + 1]
    /\ checkpoint \in [Items -> Record] \cup {Broken}
    /\ run \in {"idle", "running", "failing", "reported", "aborted"}
    /\ pc \in [Items -> {"idle", "queued", "scanning", "writing", "done"}]
    /\ outcome \in [Items -> RecordStates \cup {"skipped"}]
    /\ swapped \subseteq Items

Busy(i) == pc[i] \in {"scanning", "writing"}

\* Fingerprints are of versions that the source has had: a record's of one planned earlier,
\* a plan's of one that is there or has been replaced.
NothingFromTheFuture ==
    \A i \in Items :
        /\ planned[i] <= source[i]
        /\ Readable => checkpoint[i].fingerprint <= planned[i]

\* What is being written was let through, unless it has been replaced since.
WrittenWasGated ==
    \A i \in Items : pc[i] = "writing" => allowed(source[i]) \/ i \in swapped

\* A file is scanned and copied only when its record is of no use for skipping it, and it stays
\* so until the outcome is stored: the destination may be incomplete.
BusyNotResumable == Readable => \A i \in Items : Busy(i) => ~Resumable(i)

\* A record that a run would skip its file for is of what is there, or of an older version.
ResumableIsThere ==
    Readable => \A i \in Items : Resumable(i) => dest[i] \in planned[i] .. MaxVersion

\* What the current run has counted as delivered is there, and nothing touches it any more.
CountedIsThere ==
    \A i \in Items : outcome[i] \in {"allowed", "skipped"} =>
        pc[i] \in {"idle", "done"} /\ dest[i] \in planned[i] .. MaxVersion

\* The inductive invariant.
IInv ==
    /\ TypeOK
    /\ NothingFromTheFuture
    /\ WrittenWasGated
    /\ BusyNotResumable
    /\ ResumableIsThere
    /\ CountedIsThere
    /\ DeliveredWasGated
    /\ CheckpointTrue
-----------------------------------------------------------------------------
\* An empty checkpoint file is none that cannot be read.
LEMMA EmptyIsRecord ==
  /\ EmptyFile \in [Items -> Record]
  /\ \A i \in Items : EmptyFile[i] = NoRecord
  /\ Items # {} => Broken \notin [Items -> Record]
  BY DEF EmptyFile, NoRecord, Record, RecordStates, Broken

\* What is on record after an outcome of i in S was to be stored: each file has the record it
\* had, none, or the new one.
Stored(i, S) ==
    \/ checkpoint' = Broken
    \/ /\ checkpoint' \in [Items -> Record]
       /\ \A j \in Items :
            \/ Readable /\ checkpoint'[j] = checkpoint[j]
            \/ checkpoint'[j] = NoRecord
            \/ j = i /\ \E s \in S : checkpoint'[j] = [state |-> s, fingerprint |-> planned[i]]

\* What the run knows of i then.
Ended(i, S) ==
    /\ pc' = [pc EXCEPT ![i] = "done"]
    /\ run' \in {run, "failing"}
    /\ outcome' = outcome \/ \E s \in S : outcome' = [outcome EXCEPT ![i] = s]

LEMMA PutEffect ==
  ASSUME TypeOK, NEW i \in Items, NEW s \in RecordStates, Put(i, s)
  PROVE  Stored(i, {s})
<1>1. checkpoint \in [Items -> Record] /\ Readable
  BY DEF TypeOK, Put, Readable
<1>2. planned[i] \in Nat
  BY TransferAssumption DEF TypeOK, Versions
<1>3. [state |-> s, fingerprint |-> planned[i]] \in Record
  BY <1>2 DEF Record
<1> QED
  BY <1>1, <1>3 DEF Put, Stored

LEMMA PutFailsEffect ==
  ASSUME TypeOK, NEW i \in Items, NEW S, PutFails
  PROVE  Stored(i, S)
  BY EmptyIsRecord DEF PutFails, Stored, TypeOK, Readable

\* Whatever goes wrong in the except clause, the record says "failed" or is not new.
LEMMA RecordFailedEffect ==
  ASSUME TypeOK, NEW i \in Items, NEW n, RecordFailed(i, n)
  PROVE  Stored(i, {"failed"}) /\ Ended(i, {"failed"})
<1>1. Stored(i, {"failed"})
  <2>1. CASE Put(i, "failed")
    BY <2>1, PutEffect DEF RecordStates
  <2>2. CASE PutFails
    BY <2>2, PutFailsEffect
  <2>3. CASE checkpoint = Broken /\ UNCHANGED checkpoint
    BY <2>3 DEF Stored
  <2> QED BY <2>1, <2>2, <2>3 DEF RecordFailed
<1>2. Ended(i, {"failed"})
  BY DEF RecordFailed, Finish, Escape, Ended
<1> QED BY <1>1, <1>2

LEMMA RecordOutcomeEffect ==
  ASSUME TypeOK, NEW i \in Items, NEW s \in RecordStates, RecordOutcome(i, s)
  PROVE  Stored(i, {s, "failed"}) /\ Ended(i, {s, "failed"})
<1>1. CASE Put(i, s) /\ Finish(i, s)
  BY <1>1, PutEffect DEF Finish, Ended, Stored
<1>2. CASE \E n \in {0, 1} : RecordFailed(i, n)
  BY <1>2, RecordFailedEffect DEF Ended, Stored
<1>3. CASE checkpoint' = Broken /\ Escape(i)
  BY <1>3 DEF Stored, Ended, Escape
<1>4. CASE /\ checkpoint # Broken /\ Finish(i, "failed")
           /\ checkpoint' = [EmptyFile EXCEPT ![i] = [state |-> "failed", fingerprint |-> planned[i]]]
  <2>1. [state |-> "failed", fingerprint |-> planned[i]] \in Record
    BY TransferAssumption DEF TypeOK, Versions, Record, RecordStates
  <2>2. Stored(i, {s, "failed"})
    BY <1>4, <2>1, EmptyIsRecord DEF Stored
  <2> QED BY <1>4, <2>2 DEF Ended, Finish
<1> QED BY <1>1, <1>2, <1>3, <1>4 DEF RecordOutcome
-----------------------------------------------------------------------------
\* At most the file that is being written changes at the destination, and it is complete then.
CopyOnly(i) == dest' = dest \/ (pc[i] = "writing" /\ dest' = [dest EXCEPT ![i] = source[i]])

\* Recording an outcome keeps the invariant, provided that a file counted as allowed is
\* there, and that one counted as skipped was found there.
LEMMA OutcomeKeeps ==
  ASSUME IInv, NEW i \in Items, NEW S \in SUBSET (RecordStates \cup {"skipped"}),
         pc[i] \notin {"idle", "done"}, Stored(i, S), Ended(i, S), CopyOnly(i),
         UNCHANGED <<source, planned, swapped>>,
         "allowed" \in S => dest'[i] = source[i],
         "skipped" \in S => dest'[i] \in planned[i] .. MaxVersion
  PROVE  IInv'
<1> USE DEF IInv, TypeOK, Versions
<1>0. /\ planned[i] \in Nat /\ source[i] \in Nat /\ MaxVersion \in Nat
      /\ planned[i] <= source[i] /\ source[i] <= MaxVersion
  BY TransferAssumption DEF NothingFromTheFuture
<1>1. pc'[i] = "done" /\ \A j \in Items \ {i} : pc'[j] = pc[j] /\ outcome'[j] = outcome[j]
  BY DEF Ended
<1>2. dest'[i] = dest[i] \/ Busy(i)
  BY DEF CopyOnly, Busy
<1>3. \A j \in Items \ {i} : dest'[j] = dest[j]
  BY DEF CopyOnly
<1>4. TypeOK'
  <2>1. dest' \in [Items -> 0 .. MaxVersion + 1]
    BY <1>0 DEF CopyOnly
  <2>2. pc' \in [Items -> {"idle", "queued", "scanning", "writing", "done"}]
    BY DEF Ended
  <2>3. run' \in {"idle", "running", "failing", "reported", "aborted"}
    BY DEF Ended
  <2>4. outcome' \in [Items -> RecordStates \cup {"skipped"}]
    BY DEF Ended
  <2>5. checkpoint' \in [Items -> Record] \cup {Broken}
    BY DEF Stored
  <2> QED BY <2>1, <2>2, <2>3, <2>4, <2>5
<1>5. NothingFromTheFuture'
  <2>1. \A j \in Items : planned[j] \in Nat
    BY TransferAssumption
  <2>2. ASSUME NEW j \in Items, Readable'
        PROVE  checkpoint'[j].fingerprint <= planned[j]
    <3>1. CASE Readable /\ checkpoint'[j] = checkpoint[j]
      BY <3>1 DEF NothingFromTheFuture
    <3>2. CASE checkpoint'[j] = NoRecord
      BY <2>1, <3>2 DEF NoRecord
    <3>3. CASE j = i /\ \E s \in S : checkpoint'[j] = [state |-> s, fingerprint |-> planned[i]]
      BY <2>1, <3>3
    <3> QED BY <2>2, <3>1, <3>2, <3>3 DEF Stored, Readable
  <2> QED BY <2>2 DEF NothingFromTheFuture
<1>6. WrittenWasGated'
  BY <1>1 DEF WrittenWasGated, allowed
<1>7. BusyNotResumable'
  BY <1>1 DEF BusyNotResumable, Stored, Readable, Busy, Resumable, NoRecord
<1>8. ResumableIsThere'
  <2>1. ASSUME NEW j \in Items, Readable, checkpoint'[j] = checkpoint[j], Resumable(j)'
        PROVE  dest'[j] \in planned[j] .. MaxVersion
    <3>1. Resumable(j)
      BY <2>1 DEF Resumable
    <3>2. dest'[j] = dest[j]
      BY <1>2, <1>3, <2>1, <3>1 DEF BusyNotResumable
    <3> QED BY <2>1, <3>1, <3>2 DEF ResumableIsThere
  <2>2. ASSUME NEW s \in S, checkpoint'[i] = [state |-> s, fingerprint |-> planned[i]],
               Resumable(i)'
        PROVE  dest'[i] \in planned[i] .. MaxVersion
    BY <1>0, <2>2 DEF Resumable
  <2>3. \A j \in Items : checkpoint'[j] = NoRecord => ~Resumable(j)'
    BY DEF Resumable, NoRecord
  <2> QED BY <2>1, <2>2, <2>3 DEF ResumableIsThere, Stored, Readable
<1>9. CountedIsThere'
  <2>1. \A j \in Items \ {i} : outcome'[j] \in {"allowed", "skipped"} =>
           pc'[j] \in {"idle", "done"} /\ dest'[j] \in planned'[j] .. MaxVersion
    BY <1>1, <1>3 DEF CountedIsThere
  <2>2. CASE outcome' = outcome
    <3>1. outcome'[i] \notin {"allowed", "skipped"}
      BY <2>2 DEF CountedIsThere
    <3> QED BY <2>1, <3>1 DEF CountedIsThere
  <2>3. CASE \E s \in S : outcome' = [outcome EXCEPT ![i] = s]
    <3>1. outcome'[i] \in {"allowed", "skipped"} => dest'[i] \in planned'[i] .. MaxVersion
      BY <1>0, <2>3
    <3> QED BY <1>1, <2>1, <3>1 DEF CountedIsThere
  <2> QED BY <2>2, <2>3 DEF Ended
<1>10. DeliveredWasGated'
  BY <1>0 DEF DeliveredWasGated, WrittenWasGated, CopyOnly, allowed
<1>11. CheckpointTrue'
  <2>1. \A j \in Items : Readable /\ Readable' /\ checkpoint'[j] = checkpoint[j] =>
           ((checkpoint'[j].state = "allowed" /\ checkpoint'[j].fingerprint = source'[j])
              => dest'[j] = source'[j])
    <3>1. ASSUME Readable, Resumable(i) PROVE dest'[i] = dest[i]
      BY <1>2, <3>1 DEF BusyNotResumable
    <3>2. Readable => checkpoint[i].fingerprint \in Nat /\ checkpoint[i].fingerprint <= planned[i]
      BY DEF NothingFromTheFuture, Readable, Record
    <3>3. Readable /\ checkpoint[i].state = "allowed" /\ checkpoint[i].fingerprint = source[i]
             => Resumable(i)
      BY <1>0, <3>2 DEF Resumable
    <3> QED BY <1>3, <3>1, <3>3 DEF CheckpointTrue, Readable
  <2>2. \A j \in Items : checkpoint'[j] = NoRecord => checkpoint'[j].state # "allowed"
    BY DEF NoRecord
  <2>3. \A s \in S : checkpoint'[i] = [state |-> s, fingerprint |-> planned[i]] =>
           (checkpoint'[i].state = "allowed" => dest'[i] = source[i])
    OBVIOUS
  <2> QED BY <2>1, <2>2, <2>3 DEF CheckpointTrue, Stored, Readable
<1> QED BY <1>4, <1>5, <1>6, <1>7, <1>8, <1>9, <1>10, <1>11
-----------------------------------------------------------------------------
LEMMA InitHolds == Init => IInv
<1> SUFFICES ASSUME Init PROVE IInv OBVIOUS
<1> USE TransferAssumption DEF Init, IInv, Versions, Absent, EmptyFile, NoRecord
<1>1. TypeOK
  BY EmptyIsRecord DEF TypeOK, RecordStates
<1>2. NothingFromTheFuture /\ WrittenWasGated /\ BusyNotResumable /\ CountedIsThere
  BY DEF NothingFromTheFuture, WrittenWasGated, BusyNotResumable, Busy, CountedIsThere
<1>3. ResumableIsThere /\ DeliveredWasGated /\ CheckpointTrue
  BY DEF ResumableIsThere, Resumable, DeliveredWasGated, CheckpointTrue
<1> QED BY <1>1, <1>2, <1>3

\* A run that starts takes what there is for its plan; what was recorded for that is there.
LEMMA StartKeeps == IInv /\ Start => IInv'
<1> SUFFICES ASSUME IInv, Start PROVE IInv' OBVIOUS
<1> USE TransferAssumption DEF IInv, TypeOK, Start, Versions
<1>1. TypeOK'
  BY DEF RecordStates
<1>2. \A i \in Items : source[i] \in Nat /\ planned[i] \in Nat /\ source[i] <= MaxVersion
  OBVIOUS
<1>3. NothingFromTheFuture'
  <2>1. ASSUME NEW i \in Items, Readable PROVE checkpoint[i].fingerprint <= source[i]
    <3>1. checkpoint[i].fingerprint \in Nat
      BY <2>1 DEF Readable, Record
    <3> QED BY <1>2, <2>1, <3>1 DEF NothingFromTheFuture
  <2> QED BY <1>2, <2>1 DEF NothingFromTheFuture, Readable
<1>4. WrittenWasGated' /\ BusyNotResumable' /\ CountedIsThere'
  BY DEF WrittenWasGated, BusyNotResumable, Busy, CountedIsThere
<1>5. ResumableIsThere'
  BY <1>2 DEF ResumableIsThere, Resumable, Readable, CheckpointTrue
<1>6. DeliveredWasGated' /\ CheckpointTrue'
  BY DEF DeliveredWasGated, allowed, CheckpointTrue
<1> QED BY <1>1, <1>3, <1>4, <1>5, <1>6

\* A record of what the source holds now is one that a run would skip the file for.
LEMMA CurrentIsResumable ==
  ASSUME IInv, Readable, NEW i \in Items, checkpoint[i].state = "allowed",
         checkpoint[i].fingerprint = source[i]
  PROVE  Resumable(i)
<1>1. checkpoint[i].fingerprint \in Nat /\ planned[i] \in Nat
  BY TransferAssumption DEF IInv, TypeOK, Readable, Record, Versions
<1> QED BY <1>1 DEF IInv, NothingFromTheFuture, Resumable

LEMMA BeginKeeps ==
  ASSUME IInv, NEW i \in Items, Begin(i)
  PROVE  IInv'
<1> USE DEF IInv
<1>1. pc[i] \notin {"idle", "done"} /\ UNCHANGED <<source, planned, dest, swapped>>
  BY DEF Begin
<1>2. CopyOnly(i)
  BY <1>1 DEF CopyOnly
<1>3. CASE checkpoint = Broken /\ Escape(i) /\ UNCHANGED <<checkpoint, faults>>
  <2>1. Stored(i, {"failed"}) /\ Ended(i, {"failed"})
    BY <1>3 DEF Stored, Ended, Escape
  <2> QED BY <1>1, <1>2, <2>1, OutcomeKeeps DEF RecordStates
<1>4. CASE Readable /\ Resumable(i) /\ Finish(i, "skipped") /\ UNCHANGED checkpoint
  <2>1. Stored(i, {"skipped"}) /\ Ended(i, {"skipped"})
    BY <1>4 DEF TypeOK, Stored, Ended, Readable, Finish
  <2>2. dest'[i] \in planned[i] .. MaxVersion
    BY <1>1, <1>4 DEF ResumableIsThere
  <2> QED BY <1>1, <1>2, <2>1, <2>2, OutcomeKeeps
<1>5. CASE RecordFailed(i, 1)
  BY <1>1, <1>2, <1>5, RecordFailedEffect, OutcomeKeeps DEF RecordStates
<1>6. CASE /\ Readable /\ ~Resumable(i)
           /\ pc' = [pc EXCEPT ![i] = "scanning"] /\ UNCHANGED <<run, outcome, checkpoint>>
  <2>1. TypeOK'
    BY <1>1, <1>6 DEF TypeOK
  <2>2. /\ NothingFromTheFuture' /\ ResumableIsThere'
        /\ DeliveredWasGated' /\ CheckpointTrue'
    BY <1>1, <1>6 DEF NothingFromTheFuture, ResumableIsThere, DeliveredWasGated,
       CheckpointTrue, Readable, Resumable, allowed
  <2>3. WrittenWasGated' /\ BusyNotResumable'
    BY <1>1, <1>6 DEF TypeOK, WrittenWasGated, BusyNotResumable, Busy, Readable, Resumable,
       allowed
  <2>4. CountedIsThere'
    BY <1>1, <1>6 DEF TypeOK, CountedIsThere
  <2> QED BY <2>1, <2>2, <2>3, <2>4
<1> QED BY <1>3, <1>4, <1>5, <1>6 DEF Begin, Readable

\* The decision is on what the source holds; it is no longer about what replaces that.
LEMMA ScannedKeeps ==
  ASSUME IInv, NEW i \in Items, Scanned(i)
  PROVE  IInv'
<1> USE DEF IInv
<1>1. pc[i] = "scanning" /\ UNCHANGED <<source, planned>>
  BY DEF Scanned
<1>2. CASE /\ allowed(source[i]) /\ dest' = [dest EXCEPT ![i] = Partial]
           /\ swapped' = swapped \ {i}
           /\ pc' = [pc EXCEPT ![i] = "writing"] /\ UNCHANGED <<run, outcome, checkpoint>>
  <2>1. TypeOK'
    BY <1>1, <1>2, TransferAssumption DEF TypeOK, Partial
  <2>2. NothingFromTheFuture'
    BY <1>1, <1>2 DEF NothingFromTheFuture, Readable
  <2>3. WrittenWasGated' /\ BusyNotResumable'
    BY <1>1, <1>2 DEF TypeOK, WrittenWasGated, BusyNotResumable, Busy, Readable, Resumable,
       allowed
  <2>4. CountedIsThere'
    BY <1>1, <1>2 DEF TypeOK, CountedIsThere
  <2>5. ResumableIsThere'
    BY <1>1, <1>2 DEF TypeOK, ResumableIsThere, BusyNotResumable, Busy, Readable, Resumable
  <2>6. DeliveredWasGated'
    BY <1>1, <1>2, TransferAssumption
    DEF TypeOK, DeliveredWasGated, allowed, Partial, Versions
  <2>7. CheckpointTrue'
    <3>1. Readable => ~Resumable(i)
      BY <1>1 DEF BusyNotResumable, Busy
    <3> QED BY <1>1, <1>2, <3>1, CurrentIsResumable DEF TypeOK, CheckpointTrue, Readable
  <2> QED BY <2>1, <2>2, <2>3, <2>4, <2>5, <2>6, <2>7
<1>3. CASE RecordOutcome(i, StateForNonAllow(source[i])) /\ UNCHANGED <<dest, swapped>>
  <2> DEFINE s == StateForNonAllow(source[i])
  <2>1. s \in {"blocked", "excluded"}
    BY DEF StateForNonAllow
  <2>2. Stored(i, {s, "failed"}) /\ Ended(i, {s, "failed"})
    BY <1>3, <2>1, RecordOutcomeEffect DEF RecordStates
  <2>3. CopyOnly(i) /\ UNCHANGED swapped
    BY <1>3 DEF CopyOnly
  <2>4. {s, "failed"} \in SUBSET (RecordStates \cup {"skipped"})
    BY <2>1 DEF RecordStates
  <2> HIDE DEF s
  <2> QED BY <1>1, <2>1, <2>2, <2>3, <2>4, OutcomeKeeps
<1>4. CASE RecordFailed(i, 1) /\ UNCHANGED <<dest, swapped>>
  BY <1>1, <1>4, RecordFailedEffect, OutcomeKeeps DEF CopyOnly, RecordStates
<1> QED BY <1>2, <1>3, <1>4 DEF Scanned

LEMMA WrittenKeeps ==
  ASSUME IInv, NEW i \in Items, Written(i)
  PROVE  IInv'
<1> USE DEF IInv
<1>1. pc[i] = "writing" /\ UNCHANGED <<source, planned, swapped>>
  BY DEF Written
<1>2. CASE dest' = [dest EXCEPT ![i] = source[i]] /\ RecordOutcome(i, "allowed")
  <2>1. Stored(i, {"allowed", "failed"}) /\ Ended(i, {"allowed", "failed"})
    BY <1>2, RecordOutcomeEffect DEF RecordStates
  <2>2. CopyOnly(i) /\ dest'[i] = source[i]
    BY <1>1, <1>2 DEF CopyOnly, TypeOK
  <2> QED BY <1>1, <2>1, <2>2, OutcomeKeeps DEF RecordStates
<1>3. CASE UNCHANGED dest /\ RecordFailed(i, 1)
  BY <1>1, <1>3, RecordFailedEffect, OutcomeKeeps DEF CopyOnly, RecordStates
<1> QED BY <1>2, <1>3 DEF Written

\* The end of a run leaves everything but the positions of its items.
LEMMA EndKeeps == IInv /\ (Abort \/ Report) => IInv'
<1> SUFFICES ASSUME IInv, Abort \/ Report PROVE IInv' OBVIOUS
<1> USE DEF IInv
<1>1. /\ UNCHANGED <<source, dest, checkpoint, planned, outcome, swapped>>
      /\ \A i \in Items : pc'[i] = pc[i] \/ pc'[i] = "idle"
  BY DEF Abort, Report
<1>2. TypeOK'
  BY <1>1 DEF Abort, Report, TypeOK
<1>3. /\ NothingFromTheFuture' /\ ResumableIsThere' /\ CountedIsThere'
      /\ DeliveredWasGated' /\ CheckpointTrue'
  BY <1>1 DEF NothingFromTheFuture, ResumableIsThere, CountedIsThere, DeliveredWasGated,
     CheckpointTrue, Readable, Resumable, allowed
<1>4. WrittenWasGated' /\ BusyNotResumable'
  BY <1>1 DEF WrittenWasGated, BusyNotResumable, Busy, Readable, Resumable, allowed
<1> QED BY <1>2, <1>3, <1>4

\* A run that dies leaves a file that it was about to record incomplete or copied, and the
\* checkpoint as it was, empty or broken.
LEMMA CrashKeeps == IInv /\ Crash => IInv'
<1> SUFFICES ASSUME IInv, Crash PROVE IInv' OBVIOUS
<1> USE DEF IInv
<1>1. /\ UNCHANGED <<source, planned, outcome, swapped>> /\ run' = "idle"
      /\ pc' = [i \in Items |-> "idle"]
      /\ checkpoint' \in {checkpoint, EmptyFile, Broken}
  BY DEF Crash
<1> DEFINE Copied(S) == [i \in Items |-> IF i \in S THEN source[i] ELSE dest[i]]
<1>2. PICK S \in SUBSET Items : (\A i \in S : pc[i] = "writing") /\ dest' = Copied(S)
  <2>1. CASE dest' = dest
    <3>1. dest' = Copied({})
      BY <2>1 DEF TypeOK
    <3> HIDE DEF Copied
    <3> QED BY <3>1
  <2>2. CASE \E i \in Items : pc[i] = "writing" /\ dest' = [dest EXCEPT ![i] = source[i]]
    <3>1. PICK i \in Items : pc[i] = "writing" /\ dest' = [dest EXCEPT ![i] = source[i]]
      BY <2>2
    <3>2. dest' = Copied({i})
      BY <3>1 DEF TypeOK
    <3> HIDE DEF Copied
    <3> QED BY <3>1, <3>2
  <2> QED BY <2>1, <2>2 DEF Crash
<1>3. TypeOK'
  <2>1. dest' \in [Items -> 0 .. MaxVersion + 1]
    BY <1>2, TransferAssumption DEF TypeOK, Versions
  <2> QED BY <1>1, <2>1, EmptyIsRecord DEF TypeOK
<1>4. /\ WrittenWasGated' /\ BusyNotResumable'
  BY <1>1 DEF WrittenWasGated, BusyNotResumable, Busy
<1>5. NothingFromTheFuture'
  <2>1. \A i \in Items : planned[i] \in Nat
    BY TransferAssumption DEF TypeOK, Versions
  <2> QED BY <1>1, <2>1, EmptyIsRecord DEF NothingFromTheFuture, Readable, NoRecord
<1>6. CountedIsThere'
  BY <1>1, <1>2 DEF CountedIsThere
<1>7. DeliveredWasGated'
  BY <1>1, <1>2 DEF DeliveredWasGated, WrittenWasGated, allowed
<1>8. \A i \in S : Readable => ~Resumable(i)
  BY <1>2 DEF BusyNotResumable, Busy
<1>9. ResumableIsThere'
  BY <1>1, <1>2, <1>8, EmptyIsRecord DEF ResumableIsThere, Resumable, Readable, NoRecord
<1>10. CheckpointTrue'
  BY <1>1, <1>2, <1>8, EmptyIsRecord, CurrentIsResumable
  DEF CheckpointTrue, Readable, NoRecord
<1> QED BY <1>3, <1>4, <1>5, <1>6, <1>7, <1>9, <1>10

\* A new version has no record yet.
LEMMA ReplaceKeeps ==
  ASSUME IInv, NEW i \in Items, Replace(i)
  PROVE  IInv'
<1> USE DEF IInv, Replace
<1>1. source[i] \in Nat /\ source'[i] = source[i] + 1 /\ source'[i] \in Versions
  BY TransferAssumption DEF TypeOK, Versions
<1>2. \A j \in Items \ {i} : source'[j] = source[j]
  OBVIOUS
<1>3. TypeOK'
  BY <1>1 DEF TypeOK
<1>4. \A j \in Items : planned[j] \in Nat
  BY TransferAssumption DEF TypeOK, Versions
<1>5. NothingFromTheFuture'
  BY <1>1, <1>2, <1>4 DEF NothingFromTheFuture, Readable
<1>6. WrittenWasGated'
  BY <1>2 DEF WrittenWasGated, allowed
<1>7. /\ BusyNotResumable' /\ ResumableIsThere' /\ CountedIsThere' /\ DeliveredWasGated'
  BY DEF BusyNotResumable, Busy, ResumableIsThere, CountedIsThere, DeliveredWasGated,
     Readable, Resumable, allowed
<1>8. CheckpointTrue'
  <2>1. Readable => checkpoint[i].fingerprint # source'[i]
    <3>1. Readable => checkpoint[i].fingerprint \in Nat
      BY DEF TypeOK, Readable, Record
    <3> QED BY <1>1, <1>4, <3>1 DEF NothingFromTheFuture
  <2> QED BY <1>2, <2>1 DEF CheckpointTrue, Readable
<1> QED BY <1>3, <1>5, <1>6, <1>7, <1>8

\* The invariant is inductive.
LEMMA StepKeeps == IInv /\ [Next]_vars => IInv'
<1> SUFFICES ASSUME IInv, [Next]_vars PROVE IInv' OBVIOUS
<1>1. CASE UNCHANGED vars
  BY <1>1 DEF vars, IInv, TypeOK, NothingFromTheFuture, WrittenWasGated, BusyNotResumable,
     ResumableIsThere, CountedIsThere, DeliveredWasGated, CheckpointTrue, Readable, Busy,
     Resumable, allowed
<1>2. CASE Step
  BY <1>2, StartKeeps, BeginKeeps, ScannedKeeps, WrittenKeeps, EndKeeps DEF Step
<1>3. CASE Crash \/ \E i \in Items : Replace(i)
  BY <1>3, CrashKeeps, ReplaceKeeps
<1> QED BY <1>1, <1>2, <1>3 DEF Next

LEMMA Invariance == Spec => []IInv
BY InitHolds, StepKeeps, PTL DEF Spec
-----------------------------------------------------------------------------
\* Every variable that an outcome depends on keeps its type.
THEOREM TypesKept == Spec => []TypeOK
<1>1. IInv => TypeOK BY DEF IInv
<1> QED BY Invariance, <1>1, PTL

\* The gate comes before the commit: whatever fails, dies, is replaced or is run again, a
\* file that is complete at the destination is one that the policy allows in the version that
\* is there, or one that was replaced between the gate's reading and the copy's
\* (_execute_item opens the source for each).  Nothing else gets past the gate.
THEOREM GateBeforeCommit == Spec => []DeliveredWasGated
<1>1. IInv => DeliveredWasGated BY DEF IInv
<1> QED BY Invariance, <1>1, PTL

\* The checkpoint is true: a record by which a later run skips what the source holds now is
\* of a file that is at the destination in that version (JsonCheckpointStore).
THEOREM CheckpointKept == Spec => []CheckpointTrue
<1>1. IInv => CheckpointTrue BY DEF IInv
<1> QED BY Invariance, <1>1, PTL

\* A report without failures is true: what it counts as copied or skipped is at the
\* destination, as it was planned or newer.
THEOREM ReportIsTrue == Spec => []CleanReport
<1>1. IInv => CleanReport BY DEF IInv, CountedIsThere, CleanReport
<1> QED BY Invariance, <1>1, PTL
=============================================================================
