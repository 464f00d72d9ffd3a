-------------------------- MODULE CompletionProofs ---------------------------
(***************************************************************************)
(* What an NG scan worker does with completed scans, proved.               *)
(*                                                                         *)
(* BatchCoordinator, for any number of entries, slots and retries: every   *)
(* slot is used, no future is forgotten, and an acknowledged message is    *)
(* durable as far as the acknowledgement mode and an interruption allow.   *)
(*                                                                         *)
(* CompletionBuffer, for any number of messages and any batch size: its    *)
(* types, that a completion has one writer at a time, and that an          *)
(* interrupted worker leaves no acknowledged completion behind.            *)
(***************************************************************************)
EXTENDS ScanCompletions, FiniteSetTheorems, SequenceTheorems, TLAPS

\* BatchCoordinator speaks of sets and queues as this module does.
LEMMA CoordinatorNames ==
  /\ \A S : Coordinator!Cardinality(S) = Cardinality(S)
  /\ \A S : Coordinator!IsFiniteSet(S) = IsFiniteSet(S)
  /\ \A queue : Coordinator!ToSet(queue) = ToSet(queue)
  BY DEF Coordinator!Cardinality, Cardinality, Coordinator!IsFiniteSet, IsFiniteSet,
     Coordinator!ToSet, ToSet

Distinct(queue) == \A i, j \in 1 .. Len(queue) : queue[i] = queue[j] => i = j

\* An entry is in one place at a time.
Apart ==
    /\ Distinct(pending)
    /\ ToSet(pending) \cap (running \cup completions \cup batch) = {}
    /\ running \cap (completions \cup batch) = {}
    /\ completions \cap batch = {}

Held == ToSet(pending) \cup running \cup completions \cup batch

\* What the broker has again, or has back after a failure, the coordinator has let go of.
Released == \A e \in Entries : message[e] = "queued" \/ future[e] = "error" => e \notin Held

\* In mode "completed" whoever waits for a future waits for an entry that is held.
Awaited == ackMode = "completed" => Held = {e \in Entries : future[e] = "unset"}

\* Only a write in progress has a batch.
BatchInHand == task \notin {"flushing", "written"} => batch = {}

CoordinatorInv ==
    /\ Coordinator!TypeOK /\ Coordinator!SlotsUsed
    /\ Apart /\ Released /\ Awaited /\ BatchInHand
-----------------------------------------------------------------------------
(***************************************************************************)
(* Queues.                                                                 *)
(***************************************************************************)
LEMMA ElementsOf ==
  ASSUME NEW S, NEW queue \in Seq(S)
  PROVE  /\ Len(queue) \in Nat
         /\ \A x : x \in ToSet(queue) <=> \E i \in 1 .. Len(queue) : queue[i] = x
         /\ ToSet(queue) \subseteq S
  BY LenProperties DEF ToSet

LEMMA CountDistinct ==
  ASSUME NEW S, NEW queue \in Seq(S), Distinct(queue)
  PROVE  IsFiniteSet(ToSet(queue)) /\ Cardinality(ToSet(queue)) = Len(queue)
<1> DEFINE D == 1 .. Len(queue)
           f == [i \in D |-> queue[i]]
<1>1. Len(queue) \in Nat /\ \A x : x \in ToSet(queue) <=> \E i \in D : queue[i] = x
  BY ElementsOf
<1>2. IsFiniteSet(D) /\ Cardinality(D) = Len(queue)
  <2>1. Cardinality(1 .. Len(queue)) = IF 1 > Len(queue) THEN 0 ELSE Len(queue) - 1 + 1
    BY <1>1, FS_Interval
  <2>2. IsFiniteSet(1 .. Len(queue)) BY <1>1, FS_Interval
  <2> QED BY <1>1, <2>1, <2>2
<1>3. f \in Bijection(D, ToSet(queue))
  BY <1>1 DEF Distinct, Bijection, Injection, Surjection, IsInjective
<1>4. ExistsBijection(D, ToSet(queue)) BY <1>3 DEF ExistsBijection
<1> QED BY <1>2, <1>4, FS_Bijection

LEMMA Part ==
  ASSUME NEW S, NEW queue \in Seq(S), NEW m \in 1 .. Len(queue) + 1, NEW n \in 0 .. Len(queue),
         m <= n + 1
  PROVE  /\ SubSeq(queue, m, n) \in Seq(S)
         /\ Len(SubSeq(queue, m, n)) = n - m + 1
         /\ \A i \in 1 .. n - m + 1 : SubSeq(queue, m, n)[i] = queue[m + i - 1]
<1>1. Len(queue) \in Nat /\ \A i \in 1 .. Len(queue) : queue[i] \in S BY LenProperties
<1>2. \A i \in m .. n : queue[i] \in S BY <1>1
<1>3. /\ SubSeq(queue, m, n) \in Seq(S)
      /\ Len(SubSeq(queue, m, n)) = IF m <= n THEN n - m + 1 ELSE 0
      /\ \A i \in 1 .. n - m + 1 : SubSeq(queue, m, n)[i] = queue[m + i - 1]
  BY <1>1, <1>2, SubSeqProperties
<1> QED BY <1>1, <1>3

\* A queue cut in two keeps its elements, apart when they are distinct.
LEMMA Cut ==
  ASSUME NEW S, NEW queue \in Seq(S), NEW n \in 0 .. Len(queue), Distinct(queue),
         NEW front \in Seq(S), NEW back \in Seq(S),
         Len(front) = n, \A i \in 1 .. n : front[i] = queue[i],
         Len(back) = Len(queue) - n, \A i \in 1 .. Len(queue) - n : back[i] = queue[n + i]
  PROVE  /\ Distinct(front) /\ Distinct(back)
         /\ ToSet(front) \cup ToSet(back) = ToSet(queue)
         /\ ToSet(front) \cap ToSet(back) = {}
<1>0. Len(queue) \in Nat /\ \A i \in 1 .. Len(queue) : queue[i] \in S BY LenProperties
<1>1. Len(front) = n /\ \A i \in 1 .. n : front[i] = queue[i] OBVIOUS
<1>2. Len(back) = Len(queue) - n /\ \A i \in 1 .. Len(queue) - n : back[i] = queue[n + i] OBVIOUS
<1>3. \A x : x \in ToSet(queue) <=> \E i \in 1 .. Len(queue) : queue[i] = x BY ElementsOf
<1>4. \A x : x \in ToSet(front) <=> \E i \in 1 .. n : queue[i] = x
  <2>1. \A x : x \in ToSet(front) <=> \E i \in 1 .. Len(front) : front[i] = x
    BY <1>1, ElementsOf
  <2> QED BY <1>1, <2>1
<1>5. \A x : x \in ToSet(back) <=> \E i \in n + 1 .. Len(queue) : queue[i] = x
  <2>1. \A x : x \in ToSet(back) <=> \E i \in 1 .. Len(back) : back[i] = x
    BY <1>2, ElementsOf
  <2>2. ASSUME NEW i \in n + 1 .. Len(queue)
        PROVE  i - n \in 1 .. Len(back) /\ back[i - n] = queue[i]
    <3>1. i - n \in 1 .. Len(queue) - n /\ n + (i - n) = i BY <1>0
    <3>2. back[i - n] = queue[n + (i - n)] BY <1>2, <3>1
    <3> QED BY <1>2, <3>1, <3>2
  <2>3. ASSUME NEW i \in 1 .. Len(back)
        PROVE  n + i \in n + 1 .. Len(queue) /\ back[i] = queue[n + i]
    BY <1>0, <1>2
  <2>4. ASSUME NEW x, x \in ToSet(back) PROVE \E i \in n + 1 .. Len(queue) : queue[i] = x
    <3>1. PICK i \in 1 .. Len(back) : back[i] = x BY <2>1, <2>4
    <3>2. n + i \in n + 1 .. Len(queue) /\ queue[n + i] = x BY <2>3, <3>1
    <3> QED BY <3>2, Zenon
  <2>5. ASSUME NEW x, NEW i \in n + 1 .. Len(queue), queue[i] = x PROVE x \in ToSet(back)
    BY <2>1, <2>2, <2>5, Zenon
  <2> QED BY <2>4, <2>5, Zenon
<1>6. Distinct(front) BY <1>0, <1>1 DEF Distinct
<1>7. Distinct(back)
  <2> SUFFICES ASSUME NEW i \in 1 .. Len(back), NEW j \in 1 .. Len(back), back[i] = back[j]
               PROVE  i = j
    BY DEF Distinct
  <2>1. n + i \in 1 .. Len(queue) /\ n + j \in 1 .. Len(queue) BY <1>0, <1>2
  <2>2. queue[n + i] = queue[n + j] BY <1>2
  <2>3. n + i = n + j BY <2>1, <2>2 DEF Distinct
  <2> QED BY <1>0, <1>2, <2>3
<1>8. ToSet(front) \cap ToSet(back) = {}
  <2>1. ASSUME NEW i \in 1 .. n, NEW j \in n + 1 .. Len(queue) PROVE queue[i] # queue[j]
    <3>1. i \in 1 .. Len(queue) /\ j \in 1 .. Len(queue) /\ i # j BY <1>0
    <3> QED BY <3>1 DEF Distinct
  <2> QED BY <1>4, <1>5, <2>1
<1>9. ToSet(front) \cup ToSet(back) = ToSet(queue)
  <2>1. 1 .. Len(queue) = (1 .. n) \cup (n + 1 .. Len(queue)) BY <1>0
  <2> QED BY <1>3, <1>4, <1>5, <2>1
<1> QED BY <1>6, <1>7, <1>8, <1>9

\* Filling the free slots moves entries, loses none, and leaves none waiting beside a free slot.
LEMMA PumpFills ==
  ASSUME Coordinator!CoordinatorAssumption,
         NEW queue \in Seq(Entries), Distinct(queue), NEW active \in SUBSET Entries,
         ToSet(queue) \cap active = {}, Cardinality(active) <= Concurrency,
         Coordinator!Pump(queue, active)
  PROVE  /\ pending' \in Seq(Entries) /\ Distinct(pending')
         /\ running' \subseteq Entries /\ Cardinality(running') <= Concurrency
         /\ active \subseteq running'
         /\ ToSet(pending') \cup running' = ToSet(queue) \cup active
         /\ ToSet(pending') \cap running' = {}
         /\ pending' # <<>> => Cardinality(running') = Concurrency
<1> DEFINE free == Concurrency - Cardinality(active)
           n == IF Len(queue) < free THEN Len(queue) ELSE free
<1>1. Concurrency \in Nat /\ IsFiniteSet(Entries)
  BY CoordinatorNames DEF Coordinator!CoordinatorAssumption
<1>2. IsFiniteSet(active) /\ Cardinality(active) \in Nat BY <1>1, FS_Subset, FS_CardinalityType
<1>3. Len(queue) \in Nat BY LenProperties
<1>4. n \in 0 .. Len(queue) /\ n <= free BY <1>1, <1>2, <1>3
<1>5. /\ running' = active \cup ToSet(SubSeq(queue, 1, n))
      /\ pending' = SubSeq(queue, n + 1, Len(queue))
  BY CoordinatorNames DEF Coordinator!Pump
<1> HIDE DEF n
<1>6. PICK front \in Seq(Entries) :
          /\ Len(front) = n /\ \A i \in 1 .. n : front[i] = queue[i]
          /\ running' = active \cup ToSet(front)
  <2>1. /\ SubSeq(queue, 1, n) \in Seq(Entries) /\ Len(SubSeq(queue, 1, n)) = n - 1 + 1
        /\ \A i \in 1 .. n - 1 + 1 : SubSeq(queue, 1, n)[i] = queue[1 + i - 1]
    BY <1>3, <1>4, Part
  <2>2. /\ Len(SubSeq(queue, 1, n)) = n
        /\ \A i \in 1 .. n : SubSeq(queue, 1, n)[i] = queue[i]
    BY <1>3, <1>4, <2>1
  <2> QED BY <1>5, <2>1, <2>2, Zenon
<1>14. /\ pending' \in Seq(Entries) /\ Len(pending') = Len(queue) - n
       /\ \A i \in 1 .. Len(queue) - n : pending'[i] = queue[n + i]
  <2> DEFINE back == SubSeq(queue, n + 1, Len(queue))
  <2>1. /\ back \in Seq(Entries) /\ Len(back) = Len(queue) - (n + 1) + 1
        /\ \A i \in 1 .. Len(queue) - (n + 1) + 1 : back[i] = queue[n + 1 + i - 1]
    BY <1>3, <1>4, Part
  <2> HIDE DEF back
  <2>2. Len(back) = Len(queue) - n /\ \A i \in 1 .. Len(queue) - n : back[i] = queue[n + i]
    BY <1>3, <1>4, <2>1
  <2>3. pending' = back BY <1>5 DEF back
  <2> QED BY <2>1, <2>2, <2>3
<1>7. /\ Distinct(front) /\ Distinct(pending')
      /\ ToSet(front) \cup ToSet(pending') = ToSet(queue)
      /\ ToSet(front) \cap ToSet(pending') = {}
  BY <1>4, <1>6, <1>14, Cut, SMTT(30)
<1>8. IsFiniteSet(ToSet(front)) /\ Cardinality(ToSet(front)) = n BY <1>6, <1>7, CountDistinct
<1>9. running' = active \cup ToSet(front) BY <1>6
<1>10. active \cap ToSet(front) = {} BY <1>7
<1>11. Cardinality(running') = Cardinality(active) + n
  <2>1. Cardinality(active \cap ToSet(front)) = 0 BY <1>10, FS_EmptySet
  <2>2. Cardinality(active \cup ToSet(front))
          = Cardinality(active) + Cardinality(ToSet(front))
              - Cardinality(active \cap ToSet(front))
    BY <1>2, <1>8, FS_Union
  <2> QED BY <1>2, <1>4, <1>8, <1>9, <2>1, <2>2
<1>12. ToSet(queue) \subseteq Entries BY ElementsOf
<1>13. ASSUME pending' # <<>> PROVE n = free
  <2>1. Len(pending') # 0 BY <1>13, <1>14, EmptySeq
  <2> QED BY <1>3, <1>4, <1>14, <2>1 DEF n
<1> QED BY <1>1, <1>2, <1>4, <1>7, <1>9, <1>10, <1>14, <1>11, <1>12, <1>13

\* A new entry at the end of the queue.
LEMMA Appended ==
  ASSUME NEW queue \in Seq(Entries), Distinct(queue), NEW e \in Entries, e \notin ToSet(queue)
  PROVE  /\ Append(queue, e) \in Seq(Entries) /\ Distinct(Append(queue, e))
         /\ ToSet(Append(queue, e)) = ToSet(queue) \cup {e}
<1> DEFINE longer == Append(queue, e)
<1>1. /\ Len(queue) \in Nat
      /\ \A x : x \in ToSet(queue) <=> \E i \in 1 .. Len(queue) : queue[i] = x
  BY ElementsOf
<1>2. /\ longer \in Seq(Entries) /\ Len(longer) = Len(queue) + 1
      /\ \A i \in 1 .. Len(queue) : longer[i] = queue[i]
      /\ longer[Len(queue) + 1] = e
  BY AppendProperties
<1>3. \A x : x \in ToSet(longer) <=> \E i \in 1 .. Len(queue) + 1 : longer[i] = x
  <2>1. \A x : x \in ToSet(longer) <=> \E i \in 1 .. Len(longer) : longer[i] = x
    BY <1>2, ElementsOf
  <2> QED BY <1>2, <2>1
<1> HIDE DEF longer
<1>4. 1 .. Len(queue) + 1 = (1 .. Len(queue)) \cup {Len(queue) + 1} BY <1>1
<1>5. \A i \in 1 .. Len(queue) : queue[i] # e BY <1>1
<1>6. ToSet(longer) = ToSet(queue) \cup {e} BY <1>1, <1>2, <1>3, <1>4
<1>7. Distinct(longer) BY <1>1, <1>2, <1>4, <1>5 DEF Distinct
<1> QED BY <1>2, <1>6, <1>7 DEF longer
-----------------------------------------------------------------------------
(***************************************************************************)
(* What the coordinator holds.                                             *)
(***************************************************************************)
LEMMA Nobody == ToSet(<<>>) = {} /\ Distinct(<<>>) /\ <<>> \in Seq(Entries)
<1>1. <<>> \in Seq(Entries) /\ Len(<<>>) = 0 BY EmptySeq
<1>2. \A x : x \in ToSet(<<>>) <=> \E i \in 1 .. Len(<<>>) : <<>>[i] = x
  BY <1>1, ElementsOf, Zenon
<1>3. 1 .. Len(<<>>) = {} BY <1>1
<1> QED BY <1>1, <1>2, <1>3, Zenon DEF Distinct

\* A scan that ends frees its slot for the next entry.
LEMMA PumpAfter ==
  ASSUME Coordinator!CoordinatorAssumption, Coordinator!TypeOK, Apart, NEW e \in running,
         Coordinator!Pump(pending, running \ {e})
  PROVE  /\ pending' \in Seq(Entries) /\ Distinct(pending')
         /\ running' \subseteq Entries /\ Cardinality(running') <= Concurrency
         /\ refused \ {e} \subseteq running'
         /\ ToSet(pending') \cup running' = (ToSet(pending) \cup running) \ {e}
         /\ ToSet(pending') \cap running' = {}
         /\ Coordinator!SlotsUsed'
<1>1. IsFiniteSet(Entries) /\ Concurrency \in Nat
  BY CoordinatorNames DEF Coordinator!CoordinatorAssumption
<1>2. IsFiniteSet(running) /\ running \subseteq Entries /\ Cardinality(running) \in Nat
  BY <1>1, FS_Subset, FS_CardinalityType DEF Coordinator!TypeOK
<1>3. Cardinality(running \ {e}) <= Concurrency
  <2>1. Cardinality(running \ {e}) <= Cardinality(running) /\ IsFiniteSet(running \ {e})
    BY <1>2, FS_Subset
  <2>2. Cardinality(running \ {e}) \in Nat BY <2>1, FS_CardinalityType
  <2> QED BY <1>1, <1>2, <2>1, <2>2, CoordinatorNames DEF Coordinator!TypeOK
<1>4. /\ pending \in Seq(Entries) /\ Distinct(pending)
      /\ ToSet(pending) \cap running = {}
  BY DEF Coordinator!TypeOK, Apart
<1>5. /\ pending' \in Seq(Entries) /\ Distinct(pending')
      /\ running' \subseteq Entries /\ Cardinality(running') <= Concurrency
      /\ running \ {e} \subseteq running'
      /\ ToSet(pending') \cup running' = ToSet(pending) \cup (running \ {e})
      /\ ToSet(pending') \cap running' = {}
      /\ pending' # <<>> => Cardinality(running') = Concurrency
  BY <1>2, <1>3, <1>4, PumpFills
<1>6. refused \ {e} \subseteq running' BY <1>5 DEF Coordinator!TypeOK
<1>7. ToSet(pending') \cup running' = (ToSet(pending) \cup running) \ {e} BY <1>4, <1>5
<1> QED BY <1>5, <1>6, <1>7, CoordinatorNames DEF Coordinator!SlotsUsed

LEMMA PumpNew ==
  ASSUME Coordinator!CoordinatorAssumption, Coordinator!TypeOK, Apart, NEW e \in Entries,
         e \notin Held,
         Coordinator!Pump(Append(pending, e), running)
  PROVE  /\ pending' \in Seq(Entries) /\ Distinct(pending')
         /\ running' \subseteq Entries /\ Cardinality(running') <= Concurrency
         /\ refused \subseteq running'
         /\ ToSet(pending') \cup running' = ToSet(pending) \cup running \cup {e}
         /\ ToSet(pending') \cap running' = {}
         /\ Coordinator!SlotsUsed'
<1>1. /\ pending \in Seq(Entries) /\ Distinct(pending) /\ e \notin ToSet(pending)
      /\ e \notin running /\ ToSet(pending) \cap running = {} /\ refused \subseteq running
      /\ running \subseteq Entries /\ Cardinality(running) <= Concurrency
  BY CoordinatorNames DEF Coordinator!TypeOK, Apart, Held
<1> DEFINE queue == Append(pending, e)
<1>2. queue \in Seq(Entries) /\ Distinct(queue) /\ ToSet(queue) = ToSet(pending) \cup {e}
  BY <1>1, Appended
<1>3. Coordinator!Pump(queue, running) OBVIOUS
<1> HIDE DEF queue
<1>4. ToSet(queue) \cap running = {} BY <1>1, <1>2
<1>5. /\ pending' \in Seq(Entries) /\ Distinct(pending')
      /\ running' \subseteq Entries /\ Cardinality(running') <= Concurrency
      /\ running \subseteq running'
      /\ ToSet(pending') \cup running' = ToSet(queue) \cup running
      /\ ToSet(pending') \cap running' = {}
      /\ pending' # <<>> => Cardinality(running') = Concurrency
  BY <1>1, <1>2, <1>3, <1>4, PumpFills
<1> QED BY <1>1, <1>2, <1>5, CoordinatorNames DEF Coordinator!SlotsUsed

LEMMA CoordinatorStarts == ASSUME Coordinator!CoordinatorAssumption, Coordinator!Init
                           PROVE CoordinatorInv
<1>1. Coordinator!TypeOK
  <2>1. Cardinality(running) <= Concurrency
    BY FS_EmptySet DEF Coordinator!Init, Coordinator!CoordinatorAssumption
  <2>2. pending \in Seq(Entries) /\ failures \in 0 .. MaxFailures /\ crashes \in 0 .. MaxCrashes
    BY Nobody DEF Coordinator!Init, Coordinator!CoordinatorAssumption
  <2> QED BY <2>1, <2>2, CoordinatorNames DEF Coordinator!Init, Coordinator!TypeOK
<1>2. Coordinator!SlotsUsed /\ Apart /\ BatchInHand
  BY Nobody DEF Coordinator!Init, Coordinator!SlotsUsed, Apart, BatchInHand
<1>3. Held = {} BY Nobody DEF Coordinator!Init, Held
<1>4. Released /\ Awaited BY <1>3 DEF Coordinator!Init, Released, Awaited
<1> QED BY <1>1, <1>2, <1>4 DEF CoordinatorInv

\* Nothing is held after a crash or a restart.
LEMMA Emptied ==
  ASSUME Coordinator!CoordinatorAssumption, CoordinatorInv, Coordinator!Crash \/ Coordinator!Restart
  PROVE  CoordinatorInv'
<1> USE DEF CoordinatorInv, Coordinator!TypeOK
<1>1. /\ pending' = <<>> /\ running' = {} /\ refused' = {} /\ completions' = {} /\ batch' = {}
      /\ timer' = FALSE /\ requested' = FALSE /\ task' = "none" /\ phase' = "consuming"
      /\ future' = [e \in Entries |-> "none"]
      /\ UNCHANGED <<ackMode, ledger, failures>>
  BY DEF Coordinator!Crash, Coordinator!Restart
<1>2. /\ message' \in [Entries -> {"queued", "unacked", "acked"}]
      /\ crashes' \in 0 .. MaxCrashes
  BY DEF Coordinator!Crash, Coordinator!Restart, Coordinator!CoordinatorAssumption
<1>3. Cardinality(running') <= Concurrency
  BY <1>1, FS_EmptySet DEF Coordinator!CoordinatorAssumption
<1>4. Coordinator!TypeOK' BY <1>1, <1>2, <1>3, Nobody, CoordinatorNames
<1>5. Coordinator!SlotsUsed' /\ Apart' /\ BatchInHand'
  BY <1>1, Nobody DEF Coordinator!SlotsUsed, Apart, BatchInHand
<1>6. Held' = {} BY <1>1, Nobody DEF Held
<1>7. Released' /\ Awaited' BY <1>1, <1>6 DEF Released, Awaited
<1> QED BY <1>4, <1>5, <1>7

LEMMA AddStep ==
  ASSUME Coordinator!CoordinatorAssumption, CoordinatorInv, NEW e \in Entries, Coordinator!Add(e)
  PROVE CoordinatorInv'
<1> USE DEF CoordinatorInv
<1>1. e \notin Held /\ message[e] = "queued" BY DEF Coordinator!Add, Released
<1>2. /\ pending' \in Seq(Entries) /\ Distinct(pending')
      /\ running' \subseteq Entries /\ Cardinality(running') <= Concurrency
      /\ refused \subseteq running'
      /\ ToSet(pending') \cup running' = ToSet(pending) \cup running \cup {e}
      /\ ToSet(pending') \cap running' = {}
      /\ Coordinator!SlotsUsed'
  BY <1>1, PumpNew DEF Coordinator!Add
<1>3. /\ UNCHANGED <<ackMode, refused, completions, timer, requested, task, batch, ledger,
                      failures, phase, crashes>>
      /\ message' = [message EXCEPT ![e] = "unacked"]
      /\ future' = [future EXCEPT ![e] = "unset"]
  BY DEF Coordinator!Add
<1>4. Coordinator!TypeOK' BY <1>2, <1>3, CoordinatorNames DEF Coordinator!TypeOK
<1>5. Held' = Held \cup {e} BY <1>2, <1>3 DEF Held
<1>6. Apart' BY <1>1, <1>2, <1>3 DEF Apart, Held
<1>7. Released' BY <1>3, <1>5 DEF Released, Coordinator!TypeOK
<1>8. Awaited' BY <1>3, <1>5 DEF Awaited, Coordinator!TypeOK
<1>9. BatchInHand' BY <1>3 DEF BatchInHand
<1> QED BY <1>2, <1>4, <1>6, <1>7, <1>8, <1>9

LEMMA EndStep ==
  ASSUME Coordinator!CoordinatorAssumption, CoordinatorInv, NEW e \in running,
         \/ Coordinator!ScanSucceeds(e) \/ Coordinator!EndRefused(e) \/ Coordinator!ScanFails(e)
  PROVE  CoordinatorInv'
<1> USE DEF CoordinatorInv
<1>1. /\ pending' \in Seq(Entries) /\ Distinct(pending')
      /\ running' \subseteq Entries /\ Cardinality(running') <= Concurrency
      /\ refused \ {e} \subseteq running'
      /\ ToSet(pending') \cup running' = (ToSet(pending) \cup running) \ {e}
      /\ ToSet(pending') \cap running' = {}
      /\ Coordinator!SlotsUsed'
  <2>1. Coordinator!Pump(pending, running \ {e})
    BY DEF Coordinator!ScanSucceeds, Coordinator!EndRefused, Coordinator!ScanFails
  <2> QED BY <2>1, PumpAfter
<1>2. /\ UNCHANGED <<ackMode, message, batch, phase, crashes>>
      /\ e \in Entries /\ e \in Held
      /\ e \notin ToSet(pending) \cup completions \cup batch
  BY DEF Coordinator!ScanSucceeds, Coordinator!EndRefused, Coordinator!ScanFails,
     Coordinator!TypeOK, Apart, Held
<1>3. CASE Coordinator!ScanSucceeds(e)
  <2>1. /\ completions' = completions \cup {e}
        /\ future' = IF ackMode = "scanned" THEN Coordinator!Resolve(future, {e}, "ok")
                     ELSE future
        /\ UNCHANGED <<refused, ledger, failures>> /\ e \notin refused
    BY <1>3 DEF Coordinator!ScanSucceeds, Coordinator!Complete
  <2>2. timer' \in BOOLEAN /\ requested' \in BOOLEAN /\ task' \in {task, "looping"}
        /\ (task' # task => task = "none")
    BY <1>3 DEF Coordinator!ScanSucceeds, Coordinator!Complete, Coordinator!TypeOK
  <2>3. future' \in [Entries -> {"none", "unset", "ok", "error"}]
    BY <2>1 DEF Coordinator!TypeOK, Coordinator!Resolve
  <2>4. Coordinator!TypeOK' BY <1>1, <1>2, <2>1, <2>2, <2>3, CoordinatorNames DEF Coordinator!TypeOK
  <2>5. Held' = Held BY <1>1, <1>2, <2>1 DEF Held
  <2>6. Apart' BY <1>1, <1>2, <2>1 DEF Apart
  <2>7. \A f \in Entries : future'[f] = "error" => future[f] = "error"
    BY <2>1 DEF Coordinator!Resolve, Coordinator!TypeOK
  <2>8. Released' BY <1>2, <2>5, <2>7 DEF Released
  <2>9. Awaited' BY <1>2, <2>1, <2>5 DEF Awaited
  <2>10. BatchInHand' BY <1>2, <2>2 DEF BatchInHand
  <2> QED BY <1>1, <2>4, <2>6, <2>8, <2>9, <2>10
<1>4. CASE Coordinator!EndRefused(e) \/ Coordinator!ScanFails(e)
  <2>1. PICK result \in {"ok", "error"} : future' = Coordinator!Resolve(future, {e}, result)
    BY <1>4 DEF Coordinator!EndRefused, Coordinator!ScanFails
  <2>2. /\ UNCHANGED <<completions, timer, requested, task, ledger>>
        /\ refused' = refused \ {e} /\ failures' \in 0 .. MaxFailures
    BY <1>4 DEF Coordinator!EndRefused, Coordinator!ScanFails, Coordinator!Fail,
       Coordinator!TypeOK, Coordinator!CoordinatorAssumption
  <2>3. /\ future' \in [Entries -> {"none", "unset", "ok", "error"}]
        /\ \A f \in Entries \ {e} : future'[f] = future[f]
        /\ future'[e] # "unset"
    BY <1>2, <2>1 DEF Coordinator!TypeOK, Coordinator!Resolve
  <2>4. Coordinator!TypeOK' BY <1>1, <1>2, <2>2, <2>3, CoordinatorNames DEF Coordinator!TypeOK
  <2>5. Held' = Held \ {e} BY <1>1, <1>2, <2>2 DEF Held
  <2>6. Apart' BY <1>1, <1>2, <2>2 DEF Apart
  <2>7. Released' BY <1>2, <2>3, <2>5 DEF Released
  <2>8. Awaited' BY <1>2, <2>3, <2>5 DEF Awaited
  <2>9. BatchInHand' BY <1>2, <2>2 DEF BatchInHand
  <2> QED BY <1>1, <2>4, <2>6, <2>7, <2>8, <2>9
<1> QED BY <1>3, <1>4

LEMMA FlushStep ==
  ASSUME Coordinator!CoordinatorAssumption, CoordinatorInv,
         \/ Coordinator!TimerFires \/ Coordinator!FlushLoop \/ Coordinator!BulkWrite
         \/ Coordinator!FlushReturns \/ Coordinator!FlushFails
  PROVE  CoordinatorInv'
<1> USE DEF CoordinatorInv
<1>1. /\ UNCHANGED <<ackMode, message, pending, running, refused, phase, crashes>>
      /\ failures' \in 0 .. MaxFailures
  BY DEF Coordinator!TimerFires, Coordinator!FlushLoop, Coordinator!BulkWrite,
     Coordinator!FlushReturns, Coordinator!FlushFails, Coordinator!EndFlush, Coordinator!Fail,
     Coordinator!TypeOK, Coordinator!CoordinatorAssumption
<1>2. Coordinator!SlotsUsed' BY <1>1 DEF Coordinator!SlotsUsed
<1>3. CASE Coordinator!TimerFires \/ Coordinator!FlushLoop
  <2>1. /\ UNCHANGED <<future, ledger>>
        /\ \/ UNCHANGED <<completions, batch>> /\ task' \in {task, "looping", "none"}
           \/ batch' = completions /\ completions' = {} /\ task' = "flushing"
    BY <1>3 DEF Coordinator!TimerFires, Coordinator!FlushLoop
  <2>3. timer' \in BOOLEAN /\ requested' \in BOOLEAN
    BY <1>3 DEF Coordinator!TimerFires, Coordinator!FlushLoop, Coordinator!TypeOK
  <2>4. Coordinator!TypeOK' BY <1>1, <2>1, <2>3 DEF Coordinator!TypeOK
  <2>5. batch = {} \/ UNCHANGED <<completions, batch>>
    BY <1>3 DEF Coordinator!TimerFires, Coordinator!FlushLoop, BatchInHand
  <2>6. Held' = Held BY <1>1, <2>1, <2>5 DEF Held
  <2>7. Apart' BY <1>1, <2>1, <2>5 DEF Apart
  <2>8. Released' /\ Awaited' BY <1>1, <2>1, <2>6 DEF Released, Awaited
  <2>9. BatchInHand' BY <1>3 DEF Coordinator!TimerFires, Coordinator!FlushLoop, BatchInHand
  <2> QED BY <1>2, <2>4, <2>7, <2>8, <2>9
<1>4. CASE Coordinator!BulkWrite
  <2>1. Coordinator!TypeOK' BY <1>1, <1>4 DEF Coordinator!BulkWrite, Coordinator!TypeOK
  <2>2. Held' = Held /\ Apart' BY <1>1, <1>4 DEF Coordinator!BulkWrite, Held, Apart
  <2>3. Released' /\ Awaited' /\ BatchInHand'
    BY <1>1, <1>4, <2>2 DEF Coordinator!BulkWrite, Released, Awaited, BatchInHand
  <2> QED BY <1>2, <2>1, <2>2, <2>3
<1>5. CASE Coordinator!FlushReturns \/ Coordinator!FlushFails
  <2>1. PICK result \in {"ok", "error"} : Coordinator!EndFlush(result)
    BY <1>5 DEF Coordinator!FlushReturns, Coordinator!FlushFails
  <2>2. /\ future' \in [Entries -> {"none", "unset", "ok", "error"}]
        /\ \A f \in Entries : IF f \in batch THEN future'[f] # "unset" ELSE future'[f] = future[f]
    BY <2>1 DEF Coordinator!EndFlush, Coordinator!Resolve, Coordinator!TypeOK
  <2>3. batch' = {} /\ task' = "looping" /\ UNCHANGED <<completions, timer, requested, ledger>>
    BY <2>1 DEF Coordinator!EndFlush
  <2>4. Coordinator!TypeOK' BY <1>1, <2>2, <2>3 DEF Coordinator!TypeOK
  <2>5. Held' = Held \ batch BY <1>1, <2>3 DEF Held, Apart
  <2>6. Apart' BY <1>1, <2>3 DEF Apart
  <2>7. Released' BY <1>1, <2>2, <2>5 DEF Released
  <2>8. Awaited' BY <1>1, <2>2, <2>5 DEF Awaited, Held
  <2>9. BatchInHand' BY <2>3 DEF BatchInHand
  <2> QED BY <1>2, <2>4, <2>6, <2>7, <2>8, <2>9
<1> QED BY <1>3, <1>4, <1>5

LEMMA OtherStep ==
  ASSUME Coordinator!CoordinatorAssumption, CoordinatorInv,
         \/ \E e \in Entries :
               Coordinator!Ack(e) \/ Coordinator!Retry(e) \/ Coordinator!RecordFailure(e)
         \/ Coordinator!Stop \/ Coordinator!FlushAll \/ Coordinator!Exit
         \/ UNCHANGED Coordinator!vars
  PROVE  CoordinatorInv'
<1> USE DEF CoordinatorInv
<1> DEFINE Harmless ==
          /\ UNCHANGED <<ackMode, future, pending, running, completions, batch>>
          /\ refused' \subseteq running
          /\ timer' \in BOOLEAN /\ requested' \in BOOLEAN
          /\ task' = task \/ (task = "none" /\ task' = "looping")
          /\ phase' \in {"consuming", "stopping", "flush_all", "stopped"}
          /\ failures' \in 0 .. MaxFailures /\ crashes' \in 0 .. MaxCrashes
          /\ ledger' \in [Entries -> {"open", "completed", "failed"}]
          /\ message' \in [Entries -> {"queued", "unacked", "acked"}]
<1>1. Harmless
  <2>1. ASSUME NEW e \in Entries, Coordinator!Ack(e) \/ Coordinator!Retry(e) PROVE Harmless
    BY <2>1 DEF Coordinator!Ack, Coordinator!Retry, Coordinator!memory, Coordinator!TypeOK
  <2>2. ASSUME NEW e \in Entries, Coordinator!RecordFailure(e) PROVE Harmless
    BY <2>2 DEF Coordinator!RecordFailure, Coordinator!Fail, Coordinator!TypeOK,
       Coordinator!CoordinatorAssumption
  <2>3. CASE Coordinator!Stop
    BY <2>3 DEF Coordinator!Stop, Coordinator!TypeOK, Coordinator!CoordinatorAssumption
  <2>4. CASE Coordinator!FlushAll \/ Coordinator!Exit
    BY <2>4 DEF Coordinator!FlushAll, Coordinator!Exit, Coordinator!TypeOK
  <2>5. CASE UNCHANGED Coordinator!vars
    BY <2>5 DEF Coordinator!vars, Coordinator!memory, Coordinator!TypeOK
  <2> QED BY <2>1, <2>2, <2>3, <2>4, <2>5
<1>2. \A e \in Entries : message'[e] = "queued" => message[e] = "queued" \/ future[e] = "error"
  BY DEF Coordinator!Ack, Coordinator!Retry, Coordinator!RecordFailure, Coordinator!Stop,
     Coordinator!FlushAll, Coordinator!Exit, Coordinator!vars, Coordinator!TypeOK
<1>3. Coordinator!TypeOK' BY <1>1 DEF Coordinator!TypeOK
<1>4. Coordinator!SlotsUsed' /\ Apart' /\ Held' = Held
  BY <1>1 DEF Coordinator!SlotsUsed, Apart, Held
<1>5. Released' /\ Awaited' BY <1>1, <1>2, <1>4 DEF Released, Awaited
<1>6. BatchInHand' BY <1>1 DEF BatchInHand
<1> QED BY <1>3, <1>4, <1>5, <1>6

LEMMA CoordinatorStep ==
  ASSUME Coordinator!CoordinatorAssumption, CoordinatorInv, [Coordinator!Next]_(Coordinator!vars)
  PROVE  CoordinatorInv'
<1>1. ASSUME NEW e \in Entries, Coordinator!Scan(e) \/ Coordinator!ScanFails(e)
      PROVE CoordinatorInv'
  <2>1. e \in running
    BY <1>1 DEF Coordinator!Scan, Coordinator!ScanSucceeds, Coordinator!EndRefused,
       Coordinator!ScanFails, CoordinatorInv, Coordinator!TypeOK
  <2> QED BY <1>1, <2>1, EndStep DEF Coordinator!Scan
<1>2. ASSUME NEW e \in Entries, Coordinator!Handle(e) \/ Coordinator!RecordFailure(e)
      PROVE CoordinatorInv'
  BY <1>2, AddStep, OtherStep DEF Coordinator!Handle
<1>3. CASE Coordinator!TimerFires \/ Coordinator!Flush \/ Coordinator!FlushFails
  BY <1>3, FlushStep DEF Coordinator!Flush
<1>4. CASE Coordinator!Crash \/ Coordinator!Stop \/ Coordinator!Shutdown
  BY <1>4, Emptied, OtherStep DEF Coordinator!Shutdown
<1>5. CASE UNCHANGED Coordinator!vars BY <1>5, OtherStep
<1> QED BY <1>1, <1>2, <1>3, <1>4, <1>5 DEF Coordinator!Next

LEMMA CoordinatorInductive == Coordinator!Spec => []CoordinatorInv
<1>1. Coordinator!Init => CoordinatorInv BY CoordinatorStarts, CompletionsAssumption
<1>2. CoordinatorInv /\ [Coordinator!Next]_(Coordinator!vars) => CoordinatorInv'
  BY CoordinatorStep, CompletionsAssumption
<1> QED BY <1>1, <1>2, PTL DEF Coordinator!Spec

\* No scan slot stays free beside a waiting entry, and no more scans run than there are
\* slots (_pump_locked).
THEOREM SlotsStayUsed == Coordinator!Spec => [](Coordinator!TypeOK /\ Coordinator!SlotsUsed)
<1>1. CoordinatorInv => Coordinator!TypeOK /\ Coordinator!SlotsUsed BY DEF CoordinatorInv
<1> QED BY <1>1, CoordinatorInductive, PTL

LEMMA SumOfParts ==
  ASSUME Coordinator!CoordinatorAssumption, Coordinator!TypeOK, Apart
  PROVE  Cardinality(Held) = Len(pending) + Cardinality(running) + Cardinality(completions)
                               + Cardinality(batch)
<1> DEFINE P == ToSet(pending)
<1>1. IsFiniteSet(P) /\ Cardinality(P) = Len(pending) /\ Len(pending) \in Nat
  BY CountDistinct, ElementsOf DEF Coordinator!TypeOK, Apart
<1>2. IsFiniteSet(running) /\ IsFiniteSet(completions) /\ IsFiniteSet(batch)
  BY FS_Subset, CoordinatorNames DEF Coordinator!TypeOK, Coordinator!CoordinatorAssumption
<1>3. /\ Cardinality(running) \in Nat /\ Cardinality(completions) \in Nat
      /\ Cardinality(batch) \in Nat
  BY <1>2, FS_CardinalityType
<1>4. ASSUME NEW A, NEW B, IsFiniteSet(A), IsFiniteSet(B), A \cap B = {}
      PROVE  IsFiniteSet(A \cup B) /\ Cardinality(A \cup B) = Cardinality(A) + Cardinality(B)
  <2>1. Cardinality(A \cap B) = 0 BY <1>4, FS_EmptySet
  <2>2. Cardinality(A) \in Nat /\ Cardinality(B) \in Nat BY <1>4, FS_CardinalityType
  <2>3. /\ IsFiniteSet(A \cup B)
        /\ Cardinality(A \cup B) = Cardinality(A) + Cardinality(B) - Cardinality(A \cap B)
    BY <1>4, FS_Union
  <2> QED BY <2>1, <2>2, <2>3
<1>5. /\ P \cap running = {} /\ (P \cup running) \cap completions = {}
      /\ (P \cup running \cup completions) \cap batch = {}
  BY DEF Apart
<1> HIDE DEF P
<1>6. /\ IsFiniteSet(P \cup running)
      /\ Cardinality(P \cup running) = Cardinality(P) + Cardinality(running)
  BY <1>1, <1>2, <1>4, <1>5
<1>7. /\ IsFiniteSet(P \cup running \cup completions)
      /\ Cardinality(P \cup running \cup completions)
           = Cardinality(P \cup running) + Cardinality(completions)
  BY <1>2, <1>4, <1>5, <1>6
<1>8. Cardinality(P \cup running \cup completions \cup batch)
        = Cardinality(P \cup running \cup completions) + Cardinality(batch)
  BY <1>2, <1>4, <1>5, <1>7
<1>9. Held = P \cup running \cup completions \cup batch BY DEF Held, P
<1> QED BY <1>1, <1>3, <1>6, <1>7, <1>8, <1>9

\* An entry is in one place at a time, and in mode "completed" a consumer waits for an entry
\* exactly as long as the coordinator holds it (_run_one, _flush_completions).
THEOREM NoFutureForgotten == Coordinator!Spec => []Coordinator!FuturesHeld
<1>1. CoordinatorInv => Coordinator!FuturesHeld
  <2> SUFFICES ASSUME CoordinatorInv PROVE Coordinator!FuturesHeld OBVIOUS
  <2>1. Cardinality(Held) = Len(pending) + Cardinality(running) + Cardinality(completions)
                              + Cardinality(batch)
    BY SumOfParts, CompletionsAssumption DEF CoordinatorInv
  <2>2. ackMode = "completed" => Held = {e \in Entries : future[e] = "unset"}
    BY DEF CoordinatorInv, Awaited
  <2> QED BY <2>1, <2>2, Zenon, CoordinatorNames DEF Coordinator!FuturesHeld, Held
<1> QED BY <1>1, CoordinatorInductive, PTL
-----------------------------------------------------------------------------
(***************************************************************************)
(* What is durable.                                                        *)
(***************************************************************************)
Ended(e) == ledger[e] # "open"

\* A scan whose failure is recorded, and a batch that is written, have ended their items;
\* in mode "completed" nothing else is reported done.
Durable ==
    /\ \A e \in refused : Ended(e)
    /\ task = "written" => \A e \in batch : Ended(e)
    /\ ackMode = "completed" =>
           \A e \in Entries : future[e] = "ok" \/ message[e] = "acked" => Ended(e)

\* No item is opened again.
LEMMA EndedStays ==
  ASSUME Coordinator!TypeOK, [Coordinator!Next]_(Coordinator!vars)
  PROVE  \A e \in Entries : Ended(e) => Ended(e)'
<1> USE DEF Coordinator!TypeOK, Ended
<1>1. CASE \E e \in Entries : Coordinator!Handle(e) \/ Coordinator!Scan(e)
           \/ Coordinator!RecordFailure(e) \/ Coordinator!ScanFails(e)
  BY <1>1 DEF Coordinator!Handle, Coordinator!Add, Coordinator!Ack, Coordinator!Retry,
     Coordinator!Scan, Coordinator!ScanSucceeds, Coordinator!EndRefused,
     Coordinator!RecordFailure, Coordinator!ScanFails
<1>2. CASE Coordinator!BulkWrite BY <1>2 DEF Coordinator!BulkWrite
<1>3. CASE \/ Coordinator!TimerFires \/ Coordinator!FlushLoop \/ Coordinator!FlushReturns
           \/ Coordinator!FlushFails \/ Coordinator!Crash \/ Coordinator!Stop
           \/ Coordinator!Shutdown
           \/ UNCHANGED Coordinator!vars
  BY <1>3 DEF Coordinator!TimerFires, Coordinator!FlushLoop, Coordinator!FlushReturns,
     Coordinator!FlushFails, Coordinator!EndFlush, Coordinator!Crash, Coordinator!Stop,
     Coordinator!Shutdown, Coordinator!FlushAll, Coordinator!Exit, Coordinator!Restart,
     Coordinator!vars
<1> QED BY <1>1, <1>2, <1>3 DEF Coordinator!Next, Coordinator!Flush

LEMMA DurableStep ==
  ASSUME CoordinatorInv, Durable, [Coordinator!Next]_(Coordinator!vars)
  PROVE  Durable'
<1>1. \A e \in Entries : Ended(e) => Ended(e)' BY EndedStays DEF CoordinatorInv
<1> USE DEF CoordinatorInv, Coordinator!TypeOK, Durable
<1>2. ASSUME NEW e \in Entries, Coordinator!Handle(e) PROVE Durable'
  BY <1>1, <1>2 DEF Coordinator!Handle, Coordinator!Add, Coordinator!Ack, Coordinator!Retry,
     Coordinator!memory
<1>3. ASSUME NEW e \in Entries, Coordinator!ScanSucceeds(e) PROVE Durable'
  BY <1>1, <1>3 DEF Coordinator!ScanSucceeds, Coordinator!Complete
<1>4. ASSUME NEW e \in Entries, Coordinator!EndRefused(e) \/ Coordinator!ScanFails(e)
      PROVE Durable'
  BY <1>1, <1>4 DEF Coordinator!EndRefused, Coordinator!ScanFails, Coordinator!Resolve
<1>5. ASSUME NEW e \in Entries, Coordinator!RecordFailure(e) PROVE Durable'
  BY <1>1, <1>5 DEF Coordinator!RecordFailure, Ended
<1>6. CASE Coordinator!TimerFires \/ Coordinator!FlushLoop
  BY <1>1, <1>6 DEF Coordinator!TimerFires, Coordinator!FlushLoop
<1>7. CASE Coordinator!BulkWrite BY <1>1, <1>7 DEF Coordinator!BulkWrite, Ended
<1>8. CASE Coordinator!FlushReturns
  BY <1>1, <1>8 DEF Coordinator!FlushReturns, Coordinator!EndFlush, Coordinator!Resolve
<1>9. CASE Coordinator!FlushFails
  BY <1>1, <1>9 DEF Coordinator!FlushFails, Coordinator!EndFlush, Coordinator!Resolve
<1>10. CASE Coordinator!Crash \/ Coordinator!Restart
  BY <1>1, <1>10 DEF Coordinator!Crash, Coordinator!Restart
<1>11. CASE Coordinator!Stop \/ Coordinator!FlushAll \/ Coordinator!Exit
            \/ UNCHANGED Coordinator!vars
  BY <1>1, <1>11 DEF Coordinator!Stop, Coordinator!FlushAll, Coordinator!Exit, Coordinator!vars,
     Coordinator!memory
<1> QED BY <1>2, <1>3, <1>4, <1>5, <1>6, <1>7, <1>8, <1>9, <1>10, <1>11
        DEF Coordinator!Next, Coordinator!Scan, Coordinator!Flush, Coordinator!Shutdown

\* In mode "completed" a message is acknowledged only when its item has ended in the database,
\* whatever fails, crashes or is interrupted in between (add, _flush_completions).
THEOREM AcknowledgedIsDurable == Coordinator!Spec => []AckedIsDurable
<1>1. Coordinator!Init => Durable BY DEF Coordinator!Init, Durable
<1>2. CoordinatorInv /\ Durable /\ [Coordinator!Next]_(Coordinator!vars) => Durable'
  BY DurableStep
<1>3. Durable => AckedIsDurable
  BY DEF Durable, AckedIsDurable, Coordinator!AckedIsDurable, Ended
<1> QED BY <1>1, <1>2, <1>3, CoordinatorInductive, PTL DEF Coordinator!Spec

\* Without a failure, the coordinator holds whatever was taken from the broker and has not ended.
Kept ==
    failures = 0 =>
        \A e \in Entries : message[e] # "queued" => Ended(e) \/ e \in Held

\* The way down: first the handlers have ended, then the scans, then the writes.
Ending ==
    /\ phase \in {"flush_all", "stopped"} => Coordinator!Unacked = {} /\ pending = <<>>
         /\ running = {}
    /\ phase = "flush_all" => completions = {} \/ (requested /\ task # "none")
    /\ phase = "stopped" => completions = {} /\ task = "none"

LEMMA EndingStep ==
  ASSUME CoordinatorInv, Ending, [Coordinator!Next]_(Coordinator!vars)
  PROVE  Ending'
<1> USE DEF CoordinatorInv, Coordinator!TypeOK, Ending, Coordinator!Unacked
<1>1. ASSUME NEW e \in Entries, Coordinator!Handle(e) PROVE Ending'
  BY <1>1 DEF Coordinator!Handle, Coordinator!Add, Coordinator!Ack, Coordinator!Retry,
     Coordinator!memory
<1>2. ASSUME NEW e \in Entries,
             Coordinator!Scan(e) \/ Coordinator!RecordFailure(e) \/ Coordinator!ScanFails(e)
      PROVE Ending'
  <2>1. running # {} /\ phase' = phase
    BY <1>2 DEF Coordinator!Scan, Coordinator!ScanSucceeds, Coordinator!EndRefused,
       Coordinator!RecordFailure, Coordinator!ScanFails
  <2> QED BY <2>1
<1>3. CASE Coordinator!TimerFires BY <1>3 DEF Coordinator!TimerFires
<1>4. CASE Coordinator!FlushLoop BY <1>4 DEF Coordinator!FlushLoop
<1>5. CASE Coordinator!BulkWrite \/ Coordinator!FlushReturns \/ Coordinator!FlushFails
  BY <1>5 DEF Coordinator!BulkWrite, Coordinator!FlushReturns, Coordinator!FlushFails,
     Coordinator!EndFlush
<1>6. CASE Coordinator!Crash \/ Coordinator!Restart \/ Coordinator!Stop
  BY <1>6 DEF Coordinator!Crash, Coordinator!Restart, Coordinator!Stop
<1>7. CASE Coordinator!FlushAll BY <1>7 DEF Coordinator!FlushAll
<1>8. CASE Coordinator!Exit BY <1>8 DEF Coordinator!Exit
<1>9. CASE UNCHANGED Coordinator!vars BY <1>9 DEF Coordinator!vars, Coordinator!memory
<1> QED
  BY <1>1, <1>2, <1>3, <1>4, <1>5, <1>6, <1>7, <1>8, <1>9 DEF Coordinator!Next,
     Coordinator!Flush, Coordinator!Shutdown

LEMMA KeptStep ==
  ASSUME Coordinator!CoordinatorAssumption, CoordinatorInv, Durable, Ending, Kept,
         [Coordinator!Next]_(Coordinator!vars), [~Coordinator!Crash]_(Coordinator!vars)
  PROVE  Kept'
<1>0. \A e \in Entries : Ended(e) => Ended(e)' BY EndedStays DEF CoordinatorInv
<1> USE DEF CoordinatorInv, Coordinator!TypeOK, Kept
<1>1. ASSUME failures' \in Nat, failures' = 0 => failures = 0,
             \A e \in Entries : message'[e] # "queued" => message[e] # "queued",
             \A e \in Held : e \in Held' \/ Ended(e)'
      PROVE  Kept'
  BY <1>0, <1>1 DEF Kept
<1>2. ASSUME failures' = failures + 1 PROVE Kept' BY <1>2
<1>3. ASSUME NEW e \in Entries, Coordinator!Add(e) PROVE Kept'
  <2>1. e \notin Held BY <1>3 DEF Coordinator!Add, Released
  <2>2. ToSet(pending') \cup running' = ToSet(pending) \cup running \cup {e}
    BY <1>3, <2>1, PumpNew DEF Coordinator!Add
  <2>3. Held' = Held \cup {e} BY <1>3, <2>2 DEF Coordinator!Add, Held
  <2> QED BY <1>0, <1>3, <2>3 DEF Coordinator!Add
<1>4. ASSUME NEW e \in Entries, Coordinator!Ack(e) \/ Coordinator!Retry(e) PROVE Kept'
  <2>1. UNCHANGED <<pending, running, completions, batch, failures>>
    BY <1>4 DEF Coordinator!Ack, Coordinator!Retry, Coordinator!memory
  <2>2. \A f \in Entries : message'[f] # "queued" => message[f] # "queued"
    BY <1>4 DEF Coordinator!Ack, Coordinator!Retry
  <2>3. Held' = Held BY <2>1 DEF Held
  <2> QED BY <1>1, <2>1, <2>2, <2>3
<1>5. ASSUME NEW e \in Entries, Coordinator!Scan(e) PROVE Kept'
  <2>1. e \in running /\ Coordinator!Pump(pending, running \ {e})
    BY <1>5 DEF Coordinator!Scan, Coordinator!ScanSucceeds, Coordinator!EndRefused
  <2>2. ToSet(pending') \cup running' = (ToSet(pending) \cup running) \ {e} BY <2>1, PumpAfter
  <2>3. UNCHANGED <<message, batch, ledger, failures>> /\ completions \subseteq completions'
    BY <1>5 DEF Coordinator!Scan, Coordinator!ScanSucceeds, Coordinator!EndRefused,
       Coordinator!Complete
  <2>4. e \in completions' \/ e \in refused
    BY <1>5 DEF Coordinator!Scan, Coordinator!ScanSucceeds, Coordinator!EndRefused,
       Coordinator!Complete
  <2>5. e \in Held' \/ Ended(e)' BY <1>0, <2>1, <2>4 DEF Durable, Held
  <2>6. \A f \in Held \ {e} : f \in Held' BY <2>2, <2>3 DEF Held
  <2> QED BY <1>1, <2>3, <2>5, <2>6
<1>6. ASSUME NEW e \in Entries, Coordinator!RecordFailure(e) \/ Coordinator!ScanFails(e)
      PROVE Kept'
  BY <1>2, <1>6 DEF Coordinator!RecordFailure, Coordinator!ScanFails, Coordinator!Fail
<1>7. CASE Coordinator!TimerFires \/ Coordinator!BulkWrite
  <2>1. Held' = Held /\ UNCHANGED <<message, failures>>
    BY <1>7 DEF Coordinator!TimerFires, Coordinator!BulkWrite, Held
  <2> QED BY <1>1, <2>1
<1>8. CASE Coordinator!FlushLoop
  <2>1. Held' = Held /\ UNCHANGED <<message, failures>>
    BY <1>8 DEF Coordinator!FlushLoop, BatchInHand, Held
  <2> QED BY <1>1, <2>1
<1>9. CASE Coordinator!FlushReturns
  <2>1. UNCHANGED <<pending, running, completions, message, failures>> /\ task = "written"
    BY <1>9 DEF Coordinator!FlushReturns, Coordinator!EndFlush
  <2>2. \A e \in Held : e \in Held' \/ Ended(e)' BY <1>0, <2>1 DEF Durable, Held
  <2> QED BY <1>1, <2>1, <2>2
<1>10. CASE Coordinator!FlushFails BY <1>2, <1>10 DEF Coordinator!FlushFails, Coordinator!Fail
<1>11. CASE Coordinator!Stop \/ Coordinator!FlushAll \/ Coordinator!Exit
            \/ UNCHANGED Coordinator!vars
  <2>1. Held' = Held /\ UNCHANGED <<message, failures>>
    BY <1>11 DEF Coordinator!Stop, Coordinator!FlushAll, Coordinator!Exit, Coordinator!vars,
       Coordinator!memory, Held
  <2> QED BY <1>1, <2>1
<1>12. CASE Coordinator!Restart
  <2>1. Held = {} BY <1>12, Nobody DEF Coordinator!Restart, Ending, BatchInHand, Held
  <2>2. UNCHANGED <<message, failures>> BY <1>12 DEF Coordinator!Restart
  <2> QED BY <1>1, <2>1, <2>2
<1>13. ~Coordinator!Crash \/ UNCHANGED Coordinator!vars OBVIOUS
<1> QED BY <1>3, <1>4, <1>5, <1>6, <1>7, <1>8, <1>9, <1>10, <1>11, <1>12, <1>13
        DEF Coordinator!Next, Coordinator!Handle, Coordinator!Flush, Coordinator!Shutdown

\* A worker that is only ever interrupted, and never crashes, leaves nothing behind: in
\* whatever mode a message was acknowledged, its item has ended when the process does, unless a
\* scan or write failed (flush_all).  The run has room for one crash or one interruption, so
\* that no crash precedes the interruptions it sees.
THEOREM InterruptedKeepsAcked ==
  Coordinator!Spec /\ [][~Coordinator!Crash]_(Coordinator!vars) => []Coordinator!StopKeepsAcked
<1>1. Coordinator!Init => Durable /\ Ending /\ Kept
  BY DEF Coordinator!Init, Durable, Ending, Kept, Coordinator!Unacked
<1>2. CoordinatorInv /\ Durable /\ [Coordinator!Next]_(Coordinator!vars) => Durable'
  BY DurableStep
<1>3. CoordinatorInv /\ Ending /\ [Coordinator!Next]_(Coordinator!vars) => Ending' BY EndingStep
<1>4. CoordinatorInv /\ Durable /\ Ending /\ Kept /\ [Coordinator!Next]_(Coordinator!vars)
      /\ [~Coordinator!Crash]_(Coordinator!vars) => Kept'
  BY KeptStep, CompletionsAssumption
<1>5. CoordinatorInv /\ Ending /\ Kept => Coordinator!StopKeepsAcked
  <2> SUFFICES ASSUME CoordinatorInv, Ending, Kept, phase = "stopped", failures = 0
               PROVE  \A e \in Entries : message[e] = "acked" => ledger[e] # "open"
    BY DEF Coordinator!StopKeepsAcked
  <2>1. Held = {} BY Nobody DEF CoordinatorInv, Ending, BatchInHand, Held
  <2> QED BY <2>1 DEF Kept, Ended
<1> QED BY <1>1, <1>2, <1>3, <1>4, <1>5, CoordinatorInductive, PTL DEF Coordinator!Spec
-----------------------------------------------------------------------------
(***************************************************************************)
(* The buffer of a worker that runs no coordinator.                        *)
(***************************************************************************)
\* A message is nowhere in the buffer before its scan ends.  The handler that drained the
\* buffer has its own completion in its hands, and nobody else has anything.
Placed ==
    \A m \in Messages :
        /\ handler[m] \in {"queued", "scanning"} =>
               m \notin buffered /\ \A w \in Buffer!Writers : m \notin drained[w]
        /\ IF handler[m] = "flushing" THEN m \in drained[m] ELSE drained[m] = {}

\* A writer that is not at work has drained nothing, and once everything is flushed
\* nothing is added any more.
AtRest ==
    /\ ticker = "sleeping" => drained["ticker"] = {}
    /\ process # "flush_all" => drained["flush_all"] = {}
    /\ process \in {"flush_all", "stopped"} =>
           /\ buffered = {} /\ ticker = "ended"
           /\ \A m \in Messages : handler[m] \in {"queued", "acked"}

\* Without a failed write every acknowledged completion is written, or somebody's to write.
AckedHeld ==
    bulkFailures = 0 =>
        \A m \in Messages : handler[m] = "acked" =>
            m \in persisted \cup buffered \/ \E w \in Buffer!Writers : m \in drained[w]

BufferInv == Buffer!TypeOK /\ Placed /\ Buffer!DrainedOnce /\ AtRest /\ AckedHeld

\* CompletionBuffer counts as this module does.
LEMMA SameCount == \A S : Buffer!Cardinality(S) = Cardinality(S)
  BY DEF Buffer!Cardinality, Cardinality

LEMMA BufferNames ==
  ASSUME Buffer!BufferAssumption PROVE "ticker" \notin Messages /\ "flush_all" \notin Messages
  BY DEF Buffer!BufferAssumption

LEMMA BufferStarts == ASSUME Buffer!BufferAssumption, Buffer!Init PROVE BufferInv
<1> USE DEF Buffer!Init, Buffer!BufferAssumption
<1>1. Buffer!TypeOK BY FS_EmptySet, SameCount DEF Buffer!TypeOK
<1>2. Placed BY DEF Placed, Buffer!Writers
<1>3. Buffer!DrainedOnce /\ AtRest BY DEF Buffer!DrainedOnce, AtRest, Buffer!Writers
<1>4. AckedHeld BY DEF AckedHeld
<1> QED BY <1>1, <1>2, <1>3, <1>4 DEF BufferInv

LEMMA BufferTypes ==
  ASSUME Buffer!BufferAssumption, Buffer!TypeOK, [Buffer!Next]_(Buffer!vars)
  PROVE  Buffer!TypeOK'
<1> USE BufferNames, FS_EmptySet, SameCount
    DEF Buffer!BufferAssumption, Buffer!TypeOK, Buffer!Writers
<1>1. ASSUME NEW m \in Messages, Buffer!Deliver(m) PROVE Buffer!TypeOK' BY <1>1 DEF Buffer!Deliver
<1>2. ASSUME NEW m \in Messages, Buffer!Add(m) PROVE Buffer!TypeOK'
  <2>1. CASE Cardinality(buffered \cup {m}) < BatchSize
    <3>1. buffered' = buffered \cup {m} BY <1>2, <2>1, Zenon DEF Buffer!Add
    <3>2. Cardinality(buffered') < BatchSize BY <2>1, <3>1, Zenon
    <3>3. /\ handler' = [handler EXCEPT ![m] = "acked"]
          /\ UNCHANGED <<drained, ticker, process, persisted, bulkFailures>>
      BY <1>2, <2>1 DEF Buffer!Add
    <3> QED BY <3>1, <3>2, <3>3
  <2>2. CASE ~(Cardinality(buffered \cup {m}) < BatchSize)
    <3>1. buffered' = {} /\ drained' = [drained EXCEPT ![m] = buffered \cup {m}]
      BY <1>2, <2>2 DEF Buffer!Add, Buffer!Drain
    <3>2. /\ handler' = [handler EXCEPT ![m] = "flushing"]
          /\ UNCHANGED <<ticker, process, persisted, bulkFailures>>
      BY <1>2, <2>2 DEF Buffer!Add
    <3> QED BY <3>1, <3>2
  <2> QED BY <2>1, <2>2
<1>3. CASE Buffer!Tick BY <1>3 DEF Buffer!Tick, Buffer!Drain
<1>4. ASSUME NEW w \in Buffer!Writers, Buffer!Flushed(w) PROVE Buffer!TypeOK'
  BY <1>4 DEF Buffer!Flushed
<1>5. ASSUME NEW w \in Buffer!Writers, Buffer!FlushFails(w) PROVE Buffer!TypeOK'
  <2>1. bulkFailures' \in 0 .. MaxBulkFailures BY <1>5 DEF Buffer!FlushFails
  <2> QED BY <1>5, <2>1 DEF Buffer!FlushFails
<1>6. CASE Buffer!Stop BY <1>6 DEF Buffer!Stop
<1>7. CASE Buffer!FlushAll
  <2>1. /\ Buffer!Drain("flush_all", buffered)
        /\ ticker' = "ended" /\ process' \in {"stopped", "flush_all"}
    BY <1>7 DEF Buffer!FlushAll
  <2>2. UNCHANGED <<handler, persisted, bulkFailures>> BY <1>7 DEF Buffer!FlushAll
  <2> QED BY <2>1, <2>2 DEF Buffer!Drain
<1>8. CASE UNCHANGED Buffer!vars BY <1>8 DEF Buffer!vars
<1> QED BY <1>1, <1>2, <1>3, <1>4, <1>5, <1>6, <1>7, <1>8 DEF Buffer!Next, Buffer!Work

LEMMA BufferStep ==
  ASSUME Buffer!BufferAssumption, BufferInv, [Buffer!Next]_(Buffer!vars)
  PROVE  BufferInv'
<1> SUFFICES (Placed /\ Buffer!DrainedOnce /\ AtRest /\ AckedHeld)'
  BY BufferTypes DEF BufferInv
<1> USE BufferNames DEF BufferInv, Buffer!TypeOK, Buffer!Writers
<1>1. ASSUME NEW m \in Messages, Buffer!Deliver(m)
      PROVE  (Placed /\ Buffer!DrainedOnce /\ AtRest /\ AckedHeld)'
  BY <1>1 DEF Buffer!Deliver, Placed, Buffer!DrainedOnce, AtRest, AckedHeld
<1>2. ASSUME NEW m \in Messages, Buffer!Add(m)
      PROVE  (Placed /\ Buffer!DrainedOnce /\ AtRest /\ AckedHeld)'
  <2>1. CASE /\ buffered' = buffered \cup {m} /\ drained' = drained
             /\ handler' = [handler EXCEPT ![m] = "acked"]
    BY <1>2, <2>1 DEF Buffer!Add, Placed, Buffer!DrainedOnce, AtRest, AckedHeld
  <2>2. CASE Buffer!Drain(m, buffered \cup {m}) /\ handler' = [handler EXCEPT ![m] = "flushing"]
    <3>1. Placed' BY <1>2, <2>2 DEF Buffer!Add, Buffer!Drain, Placed, Buffer!DrainedOnce
    <3>2. Buffer!DrainedOnce' BY <1>2, <2>2 DEF Buffer!Add, Buffer!Drain, Placed, Buffer!DrainedOnce
    <3>3. AtRest' BY <1>2, <2>2 DEF Buffer!Add, Buffer!Drain, AtRest
    <3>4. AckedHeld' BY <1>2, <2>2 DEF Buffer!Add, Buffer!Drain, Placed, AckedHeld
    <3> QED BY <3>1, <3>2, <3>3, <3>4
  <2> QED BY <1>2, <2>1, <2>2 DEF Buffer!Add
<1>3. CASE Buffer!Tick
  <2>1. Placed' BY <1>3 DEF Buffer!Tick, Buffer!Drain, Placed, AtRest
  <2>2. Buffer!DrainedOnce' BY <1>3 DEF Buffer!Tick, Buffer!Drain, Buffer!DrainedOnce
  <2>3. AtRest' BY <1>3 DEF Buffer!Tick, Buffer!Drain, AtRest
  <2>4. AckedHeld' BY <1>3 DEF Buffer!Tick, Buffer!Drain, AtRest, AckedHeld
  <2> QED BY <2>1, <2>2, <2>3, <2>4
<1>4. ASSUME NEW w \in Buffer!Writers, Buffer!Flushed(w)
      PROVE  (Placed /\ Buffer!DrainedOnce /\ AtRest /\ AckedHeld)'
  <2>1. Placed' BY <1>4 DEF Buffer!Flushed, Placed
  <2>2. Buffer!DrainedOnce' BY <1>4 DEF Buffer!Flushed, Buffer!DrainedOnce
  <2>3. AtRest' BY <1>4 DEF Buffer!Flushed, AtRest, Placed
  <2>4. AckedHeld' BY <1>4 DEF Buffer!Flushed, AckedHeld, Placed
  <2> QED BY <2>1, <2>2, <2>3, <2>4
<1>5. ASSUME NEW w \in Buffer!Writers, Buffer!FlushFails(w)
      PROVE  (Placed /\ Buffer!DrainedOnce /\ AtRest /\ AckedHeld)'
  <2>1. Placed' BY <1>5 DEF Buffer!FlushFails, Placed, Buffer!DrainedOnce
  <2>2. Buffer!DrainedOnce' BY <1>5 DEF Buffer!FlushFails, Buffer!DrainedOnce
  <2>3. AtRest' BY <1>5 DEF Buffer!FlushFails, AtRest, Placed
  <2>4. AckedHeld' BY <1>5 DEF Buffer!FlushFails, AckedHeld
  <2> QED BY <2>1, <2>2, <2>3, <2>4
<1>6. CASE Buffer!Stop BY <1>6 DEF Buffer!Stop, Placed, Buffer!DrainedOnce, AtRest, AckedHeld
<1>7. CASE Buffer!FlushAll
  <2>1. Placed' BY <1>7 DEF Buffer!FlushAll, Buffer!Drain, Placed, AtRest
  <2>2. Buffer!DrainedOnce' BY <1>7 DEF Buffer!FlushAll, Buffer!Drain, Buffer!DrainedOnce
  <2>3. AtRest' BY <1>7 DEF Buffer!FlushAll, Buffer!Drain, AtRest
  <2>4. AckedHeld' BY <1>7 DEF Buffer!FlushAll, Buffer!Drain, AtRest, AckedHeld
  <2> QED BY <2>1, <2>2, <2>3, <2>4
<1>8. CASE UNCHANGED Buffer!vars
  BY <1>8 DEF Buffer!vars, Placed, Buffer!DrainedOnce, AtRest, AckedHeld
<1> QED BY <1>1, <1>2, <1>3, <1>4, <1>5, <1>6, <1>7, <1>8 DEF Buffer!Next, Buffer!Work

LEMMA BufferInductive == Buffer!Spec => []BufferInv
<1>1. Buffer!Init => BufferInv BY BufferStarts, CompletionsAssumption
<1>2. BufferInv /\ [Buffer!Next]_(Buffer!vars) => BufferInv' BY BufferStep, CompletionsAssumption
<1> QED BY <1>1, <1>2, PTL DEF Buffer!Spec

\* However the writers' awaits interleave, a completion is drained by one of them only, and
\* what is buffered stays below a batch (ScanOnlyCompletionBuffer._drain_locked).
THEOREM DrainedByOneWriter == Buffer!Spec => [](Buffer!TypeOK /\ Buffer!DrainedOnce)
<1>1. BufferInv => Buffer!TypeOK /\ Buffer!DrainedOnce BY DEF BufferInv
<1> QED BY <1>1, BufferInductive, PTL

\* An interrupted worker has written, or has the interval's thread writing, every
\* completion whose message it acknowledged (flush_all after the handlers have ended).
THEOREM BufferKeepsAcked == Buffer!Spec => []Buffer!StopKeepsAcked
<1>1. BufferInv => Buffer!StopKeepsAcked
  BY DEF BufferInv, AckedHeld, AtRest, Placed, Buffer!StopKeepsAcked, Buffer!Writers,
     Buffer!TypeOK
<1> QED BY <1>1, BufferInductive, PTL
-----------------------------------------------------------------------------
(***************************************************************************)
(* Either of the two.                                                      *)
(***************************************************************************)
\* What a worker has in hand is used and held, whichever of the two it runs: no slot is idle
\* while entries wait, no future is forgotten and no completion is drained twice
\* (_pump_locked, _flush_completions, _drain_locked).
THEOREM WorkIsHeld == Coordinator!Spec /\ Buffer!Spec => []WorkHeld
<1>1. /\ Coordinator!TypeOK /\ Coordinator!SlotsUsed
      /\ Coordinator!FuturesHeld
      /\ Buffer!TypeOK /\ Buffer!DrainedOnce
      => WorkHeld
  BY DEF WorkHeld
<1> QED BY <1>1, SlotsStayUsed, NoFutureForgotten, DrainedByOneWriter, PTL

\* A worker that is interrupted leaves nothing behind that it has acknowledged, whichever of
\* the two it runs, as long as no scan and no write has failed and no coordinator has crashed
\* (both flush_all).
THEOREM StopsKeepAcked ==
  Coordinator!Spec /\ [][~Coordinator!Crash]_(Coordinator!vars) /\ Buffer!Spec
    => []StoppedKeepsAcked
<1>1. Coordinator!StopKeepsAcked /\ Buffer!StopKeepsAcked => StoppedKeepsAcked
  BY DEF StoppedKeepsAcked
<1> QED BY <1>1, InterruptedKeepsAcked, BufferKeepsAcked, PTL
=============================================================================
