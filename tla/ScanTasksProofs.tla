--------------------------- MODULE ScanTasksProofs ---------------------------
(***************************************************************************)
(* Proofs about the scan tasks of dsx_connect, for any number of files and *)
(* workers: how often a file is counted, and with one slot how many scans  *)
(* are in progress.  The first needs an account of every message that was  *)
(* sent: where it is, or that it was counted.                              *)
(***************************************************************************)
EXTENDS ScanTasks, TLAPS, FiniteSetTheorems

USE DEF Slots

Copies(t) == IF t \in DOMAIN queue THEN queue[t] ELSE 0

Steps == {"idle", "flags", "acquire", "scan", "count", "read", "finish", "release", "handle",
          "dead", "ack"}
JobSet == [status : {"none", "running", "paused", "cancelled", "completed"}, count : Nat,
           total : Int, terminal : Nat, listed : SUBSET Items, enqueue_done : BOOLEAN,
           finished : BOOLEAN, paused : BOOLEAN, cancel : BOOLEAN]
PosterSet == [pc : {"next", "send", "count", "store"}, item : Items \cup {NoItem}, total : Nat,
              left : SUBSET Items, open : BOOLEAN]
RunSet == [pc : Steps, task : Task \cup {NoTask}, held : BOOLEAN,
           failed : {"no", "retriable", "final"}, cancelled : BOOLEAN]
FaultSet == [{"errors", "crashes", "drift", "reposts", "pauses", "cancels"} -> Nat]

\* What a worker knows at each of its steps.
Sound(r) ==
    /\ r.pc # "idle" => r.task \in Task
    /\ r.pc \in {"flags", "acquire"} => ~r.held /\ r.failed = "no"
    /\ r.pc = "scan" => r.held /\ r.failed = "no"
    /\ r.pc \in {"count", "read", "finish"} => (r.held => r.failed = "no")
    /\ r.pc = "release" => r.held
    /\ r.pc = "handle" => ~r.held /\ r.failed # "no"
    /\ r.pc \in {"ack", "dead", "idle"} => ~r.held

TypeInv ==
    /\ job \in JobSet /\ poster \in PosterSet
    /\ poster.pc \in {"send", "count"} => poster.item \in Items
    /\ \A t \in DOMAIN queue : queue[t] \in Nat \ {0}
    /\ run \in [Workers -> RunSet] /\ \A w \in Workers : Sound(run[w])
    /\ sent \in [Items -> Nat] /\ ended \in [Items -> Nat]
    /\ faults \in FaultSet

LEMMA Suffered ==
  ASSUME faults \in FaultSet, NEW f \in {"errors", "crashes", "drift", "reposts", "pauses", "cancels"},
         Suffers(f)
  PROVE  /\ faults' \in FaultSet /\ faults'[f] = faults[f] + 1
         /\ \A g \in DOMAIN faults \ {f} : faults'[g] = faults[g]
  BY DEF Suffers, FaultSet

LEMMA BagAdded ==
  ASSUME TypeInv, NEW x, queue' = BagAdd(queue, x)
  PROVE  /\ \A t \in DOMAIN queue' : queue'[t] \in Nat \ {0}
         /\ Copies(x)' = Copies(x) + 1
         /\ \A t : t # x => Copies(t)' = Copies(t)
  BY DEF BagAdd, Copies, TypeInv

LEMMA BagRemoved ==
  ASSUME TypeInv, NEW x, BagIn(x, queue), queue' = BagRemove(queue, x)
  PROVE  /\ \A t \in DOMAIN queue' : queue'[t] \in Nat \ {0}
         /\ Copies(x)' = Copies(x) - 1 /\ Copies(x) >= 1
         /\ \A t : t # x => Copies(t)' = Copies(t)
  BY DEF BagRemove, Copies, TypeInv, BagIn, BagToSet

LEMMA Tasks ==
  /\ \A t \in Task : Copy(t) \in Task /\ Copy(t).item = t.item
  /\ \A t \in Task : t.retries < MaxRetries =>
        [t EXCEPT !.retries = @ + 1] \in Task /\ [t EXCEPT !.retries = @ + 1].item = t.item
  /\ \A i \in Items : [item |-> i, retries |-> 0, listed |-> TRUE] \in Task
<1>1. MaxRetries \in Nat BY ScanTasksAssumption
<1>3. ASSUME NEW t \in Task PROVE Copy(t) \in Task /\ Copy(t).item = t.item
  <2>1. 0 \in 0 .. MaxRetries BY <1>1
  <2>2. [t EXCEPT !.retries = 0] \in Task /\ [t EXCEPT !.retries = 0].item = t.item
    BY <2>1 DEF Task
  <2>3. Copy(t) = [[t EXCEPT !.retries = 0] EXCEPT !.listed = FALSE] BY DEF Copy
  <2> QED BY <2>2, <2>3 DEF Task
<1>4. \A t \in Task : t.retries < MaxRetries =>
        [t EXCEPT !.retries = @ + 1] \in Task /\ [t EXCEPT !.retries = @ + 1].item = t.item
  BY <1>1 DEF Task
<1>5. \A i \in Items : [item |-> i, retries |-> 0, listed |-> TRUE] \in Task
  BY <1>1 DEF Task
<1> QED BY <1>3, <1>4, <1>5

LEMMA IdleSound == Idle \in RunSet /\ Sound(Idle) /\ Idle.pc = "idle" /\ ~Idle.held
  BY DEF Idle, RunSet, Sound, Steps

LEMMA TypeInit == Init => TypeInv
  BY IdleSound, ScanTasksAssumption
     DEF Init, TypeInv, JobSet, PosterSet, FaultSet, EmptyBag, SetToBag

\* A step of a worker that is at work, with the record it becomes.
LEMMA TypeWorker ==
  ASSUME TypeInv, NEW w \in Workers, Step(w)
  PROVE  TypeInv'
<1> USE DEF TypeInv, Goto
<1>1. run[w] \in RunSet /\ Sound(run[w]) OBVIOUS
<1>2. run[w].pc # "idle" BY DEF Step, Flags, Acquire, Scan, Count, ReadBack, Finish, Release, Handle,
      DeadLetter, Ack
<1>3. run[w].task \in Task /\ run[w].task.item \in Items BY <1>1, <1>2 DEF Sound, Task
<1>4. poster' = poster /\ sent' = sent
  BY DEF Step, Flags, Acquire, Scan, Count, ReadBack, Finish, Release, Handle, DeadLetter, Ack
<1>5. job' \in JobSet
  <2>1. \A s \in {"none", "running", "paused", "cancelled", "completed"} :
           Running(s) \in {"none", "running", "paused", "cancelled", "completed"}
    BY DEF Running
  <2>2. CASE Flags(w)
    <3>1. Running(job.status) \in {"none", "running", "paused", "cancelled", "completed"}
      BY <2>1 DEF JobSet
    <3>2. job' = [job EXCEPT !.status = Running(job.status)] BY <2>2 DEF Flags
    <3> QED BY <3>1, <3>2 DEF JobSet
  <2>3. CASE Count(w)
    <3>1. Running(job.status) \in {"none", "running", "paused", "cancelled", "completed"}
      BY <2>1 DEF JobSet
    <3>2. job' = [job EXCEPT !.status = Running(job.status), !.terminal = job.terminal + 1]
      BY <2>3 DEF Count
    <3>3. [job EXCEPT !.status = Running(job.status)] \in JobSet BY <3>1 DEF JobSet
    <3>4. job.terminal + 1 \in Nat BY DEF JobSet
    <3>5. job' = [[job EXCEPT !.status = Running(job.status)] EXCEPT !.terminal = job.terminal + 1]
      BY <3>2
    <3> QED BY <3>3, <3>4, <3>5 DEF JobSet
  <2>4. CASE Finish(w) BY <2>4 DEF Finish, JobSet
  <2>5. CASE job' = job BY <2>5
  <2> QED BY <2>2, <2>3, <2>4, <2>5
          DEF Step, Flags, Acquire, Scan, Count, ReadBack, Finish, Release, Handle, DeadLetter, Ack
<1>6. \A t \in DOMAIN queue' : queue'[t] \in Nat \ {0}
  BY BagAdded
     DEF Step, Flags, Acquire, Scan, Count, ReadBack, Finish, Release, Handle, Retried, DeadLetter, Ack
<1>7. ended' \in [Items -> Nat]
  BY <1>3 DEF Step, Flags, Acquire, Scan, Count, ReadBack, Finish, Release, Handle, DeadLetter, Ack
<1>8. faults' \in FaultSet
  BY Suffered DEF Step, Flags, Acquire, Scan, Count, ReadBack, Finish, Release, Handle, DeadLetter, Ack
<1>9. run' \in [Workers -> RunSet] /\ \A v \in Workers : Sound(run[v])'
  <2>1. CASE Flags(w) BY <1>1, <2>1 DEF Flags, RunSet, Sound, Steps
  <2>2. CASE Acquire(w) BY <1>1, <2>2 DEF Acquire, RunSet, Sound, Steps
  <2>3. CASE Scan(w) \/ Count(w) BY <1>1, <2>3 DEF Scan, Count, RunSet, Sound, Steps
  <2>4. CASE ReadBack(w) \/ Finish(w)
    BY <1>1, <2>4 DEF ReadBack, Finish, AfterRecord, RunSet, Sound, Steps
  <2>5. CASE Release(w) BY <1>1, <2>5 DEF Release, RunSet, Sound, Steps
  <2>6. CASE Handle(w) \/ DeadLetter(w) BY <1>1, <2>6 DEF Handle, DeadLetter, RunSet, Sound, Steps
  <2>7. CASE Ack(w) BY <2>7, IdleSound DEF Ack
  <2> QED BY <2>1, <2>2, <2>3, <2>4, <2>5, <2>6, <2>7 DEF Step
<1> QED BY <1>4, <1>5, <1>6, <1>7, <1>8, <1>9

LEMMA TypePost ==
  ASSUME TypeInv, Post \/ PostAgain
  PROVE  TypeInv'
<1> USE DEF TypeInv
<1>1. CASE PostNext
  <2> DEFINE i == CHOOSE j \in poster.left : TRUE
  <2>1. i \in poster.left BY <1>1 DEF PostNext
  <2>2. i \in Items BY <2>1 DEF PosterSet
  <2>3. \/ poster' = [poster EXCEPT !.left = @ \ {i}]
        \/ poster' = [poster EXCEPT !.pc = "send", !.item = i, !.left = @ \ {i}]
    BY <1>1 DEF PostNext
  <2>4. UNCHANGED <<job, queue, Slots, run, sent, ended, revoked, faults>> BY <1>1 DEF PostNext
  <2> HIDE DEF i
  <2>5. poster' \in PosterSet /\ (poster'.pc \in {"send", "count"} => poster'.item \in Items)
    BY <1>1, <2>2, <2>3 DEF PosterSet, PostNext
  <2> QED BY <2>4, <2>5
<1>2. CASE PostSend
  <2>1. poster' \in PosterSet /\ poster'.item = poster.item BY <1>2 DEF PostSend, PosterSet
  <2>2. sent' \in [Items -> Nat] BY <1>2 DEF PostSend
  <2>3. \A t \in DOMAIN queue' : queue'[t] \in Nat \ {0} BY <1>2, BagAdded DEF PostSend
  <2>4. UNCHANGED <<job, run, ended, faults>> /\ poster.item \in Items BY <1>2 DEF PostSend
  <2> QED BY <2>1, <2>2, <2>3, <2>4
<1>3. CASE PostCount
  <2>1. Running(job.status) \in {"none", "running", "paused", "cancelled", "completed"}
    BY DEF JobSet, Running
  <2>2. /\ job' = [job EXCEPT !.status = Running(job.status), !.count = job.count + 1,
                              !.listed = job.listed \cup {poster.item}]
        /\ poster' = [poster EXCEPT !.pc = "store", !.total = job.count + 1]
        /\ poster.item \in Items
    BY <1>3 DEF PostCount
  <2>3. [job EXCEPT !.status = Running(job.status)] \in JobSet BY <2>1 DEF JobSet
  <2>4. job.count + 1 \in Nat BY DEF JobSet
  <2>5. job' \in JobSet BY <2>2, <2>3, <2>4 DEF JobSet
  <2>6. poster' \in PosterSet /\ poster'.pc = "store" BY <2>2, <2>4 DEF PosterSet
  <2> QED BY <1>3, <2>5, <2>6 DEF PostCount
<1>4. CASE PostStore BY <1>4 DEF PostStore, PosterSet, JobSet
<1>5. CASE EnqueueDone
  <2>1. Open \in BOOLEAN BY DEF Open
  <2> QED BY <1>5, <2>1 DEF EnqueueDone, PosterSet, JobSet
<1>6. CASE PostAgain BY <1>6, Suffered DEF PostAgain, PosterSet
<1> QED BY <1>1, <1>2, <1>3, <1>4, <1>5, <1>6 DEF Post

LEMMA TypeStep == TypeInv /\ [Next]_vars => TypeInv'
<1> SUFFICES ASSUME TypeInv, [Next]_vars PROVE TypeInv' OBVIOUS
<1>1. CASE Post \/ PostAgain BY <1>1, TypePost
<1>2. CASE User
  BY <1>2, Suffered, ZenonT(40) DEF User, Pause, Resume, Revoke, MarkCancelled, TypeInv, JobSet
<1>3. CASE Expire BY <1>3 DEF Expire, TypeInv
<1>4. ASSUME NEW w \in Workers, NEW t \in Task, Receive(w, t) PROVE TypeInv'
  <2>1. [Idle EXCEPT !.pc = "flags", !.task = t] \in RunSet
        /\ Sound([Idle EXCEPT !.pc = "flags", !.task = t])
    BY DEF Idle, RunSet, Sound, Steps
  <2> QED BY <1>4, <2>1, BagRemoved DEF Receive, TypeInv
<1>5. ASSUME NEW w \in Workers, Step(w) PROVE TypeInv' BY <1>5, TypeWorker
<1>6. ASSUME NEW w \in Workers, Crash(w) \/ Terminated(w) PROVE TypeInv'
  BY <1>6, IdleSound, BagAdded, Suffered DEF Crash, Terminated, Gone, TypeInv
<1>7. ASSUME NEW w \in Workers, NEW kind \in {"retriable", "final"}, ScanRaises(w, kind) PROVE TypeInv'
  BY <1>7, Suffered DEF ScanRaises, TypeInv, RunSet, Sound, Steps
<1>8. CASE UNCHANGED vars BY <1>8 DEF vars, TypeInv
<1> QED BY <1>1, <1>2, <1>3, <1>4, <1>5, <1>6, <1>7, <1>8 DEF Next, Delivered
-----------------------------------------------------------------------------
(***************************************************************************)
(* The slots of the scanner.                                               *)
(***************************************************************************)
\* The slot is counted while a worker holds it, and whoever holds it also set the lifetime
\* of the counter, which therefore cannot expire under it.
SlotInv ==
    faults.drift = 0 =>
        /\ inflight \in {0, 1} /\ opener \in Workers \cup {Nobody}
        /\ \A w \in Workers : run[w].held => opener = w /\ inflight = 1
        /\ opener # Nobody => run[opener].held
        /\ (faults.crashes = 0 /\ revoked = {}) => (inflight = 1 => opener # Nobody)

LEMMA SlotInit == Init => SlotInv
  BY DEF Init, SlotInv, Idle

LEMMA SlotStep ==
  ASSUME MaxInflight = 1, TypeInv, SlotInv, [Next]_vars
  PROVE  SlotInv'
<1> USE DEF TypeInv, SlotInv
<1>0. MaxInflight \in Nat /\ Nobody \notin Workers BY ScanTasksAssumption
\* A step that leaves counter, lifetime and holders alone.
<1>1. ASSUME inflight' = inflight, opener' = opener, revoked' = revoked,
             faults'.drift = 0 => faults.drift = 0,
             faults'.crashes = 0 => faults.crashes = 0,
             \A w \in Workers : run'[w].held = run[w].held
      PROVE  SlotInv'
  BY <1>1
<1>2. CASE Post \/ PostAgain
  BY <1>1, <1>2, Suffered DEF Post, PostAgain, PostNext, PostSend, PostCount, PostStore, EnqueueDone, FaultSet
<1>3. CASE User
  BY <1>3, Suffered DEF User, Pause, Resume, Revoke, MarkCancelled, FaultSet
<1>4. CASE Expire BY <1>4, <1>0 DEF Expire
<1>5. ASSUME NEW w \in Workers, NEW t \in Task, Receive(w, t) PROVE SlotInv'
  <2>1. run[w] \in RunSet /\ run[w].held = FALSE BY <1>5 DEF Receive, Sound, RunSet
  <2>2. [Idle EXCEPT !.pc = "flags", !.task = t].held = FALSE BY DEF Idle
  <2>3. \A v \in Workers : run'[v].held = run[v].held BY <1>5, <2>1, <2>2 DEF Receive
  <2> QED BY <1>1, <1>5, <2>3 DEF Receive
<1>6. ASSUME NEW w \in Workers, Acquire(w) PROVE SlotInv'
  <2>1. run[w] \in RunSet /\ ~run[w].held BY <1>6 DEF Acquire, Sound
  <2>2. CASE inflight < MaxInflight /\ inflight' = inflight + 1
             /\ opener' = (IF inflight = 0 THEN w ELSE opener)
             /\ run' = [run EXCEPT ![w].pc = "scan", ![w].held = TRUE]
             /\ faults' = faults
    <3>1. faults.drift = 0 => inflight = 0 /\ inflight' = 1 /\ opener' = w BY <1>0, <2>2
    <3>2. run'[w].held /\ \A v \in Workers \ {w} : run'[v] = run[v] BY <2>1, <2>2 DEF RunSet
    <3> QED BY <1>0, <1>6, <2>2, <3>1, <3>2 DEF Acquire
  <2>3. CASE Goto(w, "ack") /\ UNCHANGED <<Slots, faults>>
    BY <1>1, <1>6, <2>3 DEF Acquire, Goto
  <2>4. CASE Suffers("drift")
    <3>1. faults'.drift # 0 BY <2>4, Suffered DEF FaultSet
    <3> QED BY <3>1
  <2> QED BY <1>6, <2>2, <2>3, <2>4 DEF Acquire
<1>7. ASSUME NEW w \in Workers, Release(w) PROVE SlotInv'
  <2>1. run[w].held /\ run[w] \in RunSet BY <1>7 DEF Release, Sound
  <2>2. ~run'[w].held /\ \A v \in Workers \ {w} : run'[v] = run[v] BY <1>7, <2>1 DEF Release, RunSet
  <2> QED BY <1>0, <1>7, <2>1, <2>2 DEF Release
<1>8. ASSUME NEW w \in Workers, Ack(w) PROVE SlotInv'
  <2>1. run[w].held = FALSE /\ Idle.held = FALSE BY <1>8 DEF Ack, Sound, RunSet, Idle
  <2>2. \A v \in Workers : run'[v].held = run[v].held BY <1>8, <2>1 DEF Ack
  <2> QED BY <1>1, <1>8, <2>2 DEF Ack
<1>9. ASSUME NEW w \in Workers, Flags(w) \/ Scan(w) \/ Count(w) \/ ReadBack(w) \/ Finish(w)
                                \/ Handle(w) \/ DeadLetter(w)
      PROVE  SlotInv'
  <2>1. UNCHANGED <<inflight, opener, revoked, faults>>
    BY <1>9 DEF Flags, Scan, Count, ReadBack, Finish, Handle, DeadLetter
  <2>2. run[w] \in RunSet OBVIOUS
  <2>3. \A v \in Workers : run'[v].held = run[v].held
    BY <1>9, <2>2 DEF Flags, Scan, Count, ReadBack, Finish, Handle, DeadLetter, Goto, RunSet
  <2> QED BY <1>1, <2>1, <2>3
<1>10. ASSUME NEW w \in Workers, NEW kind \in {"retriable", "final"}, ScanRaises(w, kind) PROVE SlotInv'
  <2>1. \A v \in Workers : run'[v].held = run[v].held BY <1>10 DEF ScanRaises
  <2>2. UNCHANGED <<inflight, opener, revoked>> BY <1>10 DEF ScanRaises
  <2>3. faults'.drift = faults.drift /\ faults'.crashes = faults.crashes
    BY <1>10, Suffered DEF ScanRaises, FaultSet
  <2> QED BY <1>1, <2>1, <2>2, <2>3
<1>11. ASSUME NEW w \in Workers, Crash(w) \/ Terminated(w) PROVE SlotInv'
  <2>1. /\ ~run'[w].held /\ \A v \in Workers \ {w} : run'[v] = run[v]
        /\ opener' = (IF opener = w THEN Nobody ELSE opener)
        /\ inflight' = inflight /\ revoked' = revoked
    BY <1>11, IdleSound DEF Crash, Terminated, Gone
  <2>2. faults'.drift = faults.drift
        /\ (faults'.crashes = 0 => faults.crashes = 0 /\ revoked # {})
    BY <1>11, Suffered DEF Crash, Terminated, IsRevoked, FaultSet
  <2> QED BY <1>0, <2>1, <2>2
<1>12. CASE UNCHANGED vars BY <1>1, <1>12 DEF vars
<1> QED BY <1>2, <1>3, <1>4, <1>5, <1>6, <1>7, <1>8, <1>9, <1>10, <1>11, <1>12 DEF Next, Delivered, Step

\* With one slot no two scans are ever in progress, whatever workers die and lifetimes end
\* in between, and as long as no worker is lost the Redis counter is the number of scans
\* (ACQUIRE_SCANNER_SLOT_LUA, release_scanner_slot).  With more slots neither holds: the
\* lifetime belongs to the first slot, and can end while later ones are held.
THEOREM OneSlotKept == MaxInflight = 1 => (Spec => []SlotsBounded)
<1> SUFFICES ASSUME MaxInflight = 1 PROVE Spec => []SlotsBounded OBVIOUS
<1>1. Init => TypeInv /\ SlotInv BY TypeInit, SlotInit
<1>2. TypeInv /\ SlotInv /\ [Next]_vars => (TypeInv /\ SlotInv)' BY TypeStep, SlotStep
<1>3. TypeInv /\ SlotInv => SlotsBounded
  <2> SUFFICES ASSUME TypeInv, SlotInv PROVE SlotsBounded OBVIOUS
  <2> USE DEF SlotInv
  <2>1. CASE Holders = {}
    <3>1. faults.drift = 0 /\ faults.crashes = 0 /\ revoked = {} => inflight = 0
      BY <2>1 DEF Holders, TypeInv
    <3>2. Cardinality(Holders) = 0 BY <2>1, FS_EmptySet
    <3> QED BY <3>1, <3>2 DEF SlotsBounded
  <2>2. ASSUME NEW w \in Holders PROVE SlotsBounded
    <3>1. faults.drift = 0 => Holders = {w} /\ inflight = 1 BY <2>2 DEF Holders
    <3>2. Cardinality({w}) = 1 BY FS_Singleton
    <3>3. faults.drift = 0 => Cardinality(Holders) = 1 BY <3>1, <3>2
    <3> QED BY <3>1, <3>3 DEF SlotsBounded
  <2> QED BY <2>1, <2>2
<1> QED BY <1>1, <1>2, <1>3, PTL DEF Spec
-----------------------------------------------------------------------------
(***************************************************************************)
(* The account of messages.  The n-th message that was sent is about the   *)
(* file of[n] and is at loc[n]: in the queue, as this or a later copy, with*)
(* a worker, counted as done, or dropped because its task was revoked.     *)
(***************************************************************************)
Labelled(N, f, q) == {n \in 1 .. N : f[n] = q}

LEMMA LabelledBound ==
  ASSUME NEW N \in Nat, NEW f, NEW q
  PROVE  /\ IsFiniteSet(Labelled(N, f, q)) /\ Cardinality(Labelled(N, f, q)) \in Nat
         /\ Cardinality(Labelled(N, f, q)) <= N
         /\ Cardinality(Labelled(N, f, q)) >= N => Labelled(N, f, q) = 1 .. N
<1> DEFINE L == Labelled(N, f, q)
<1>1. L \in SUBSET (1 .. N) BY DEF Labelled
<1>2. IsFiniteSet(1 .. N) /\ Cardinality(1 .. N) = N BY FS_Interval
<1>3. IsFiniteSet(L) /\ Cardinality(L) <= N /\ (N = Cardinality(L) => 1 .. N = L)
  BY <1>1, <1>2, FS_Subset
<1>4. Cardinality(L) \in Nat BY <1>3, FS_CardinalityType
<1> QED BY <1>3, <1>4

LEMMA Relabelled ==
  ASSUME NEW N \in Nat, NEW f, NEW g, NEW k \in 1 .. N, f[k] # g[k],
         \A n \in (1 .. N) \ {k} : g[n] = f[n]
  PROVE  /\ Cardinality(Labelled(N, g, g[k])) = Cardinality(Labelled(N, f, g[k])) + 1
         /\ Cardinality(Labelled(N, g, f[k])) = Cardinality(Labelled(N, f, f[k])) - 1
         /\ \A q : q # g[k] /\ q # f[k] => Labelled(N, g, q) = Labelled(N, f, q)
<1>1. Labelled(N, g, g[k]) = Labelled(N, f, g[k]) \cup {k} /\ k \notin Labelled(N, f, g[k])
  BY DEF Labelled
<1>2. Labelled(N, g, f[k]) = Labelled(N, f, f[k]) \ {k} /\ k \in Labelled(N, f, f[k])
  BY DEF Labelled
<1>3. \A q : q # g[k] /\ q # f[k] => Labelled(N, g, q) = Labelled(N, f, q)
  BY DEF Labelled
<1>4. Cardinality(Labelled(N, f, g[k]) \cup {k}) = Cardinality(Labelled(N, f, g[k])) + 1
  BY <1>1, LabelledBound, FS_AddElement
<1>5. Cardinality(Labelled(N, f, f[k]) \ {k}) = Cardinality(Labelled(N, f, f[k])) - 1
  BY <1>2, LabelledBound, FS_RemoveElement
<1> QED BY <1>1, <1>2, <1>3, <1>4, <1>5

LEMMA Extended ==
  ASSUME NEW N \in Nat, NEW f, NEW g, \A n \in 1 .. N : g[n] = f[n]
  PROVE  /\ Cardinality(Labelled(N + 1, g, g[N + 1])) = Cardinality(Labelled(N, f, g[N + 1])) + 1
         /\ \A q : q # g[N + 1] => Labelled(N + 1, g, q) = Labelled(N, f, q)
<1>1. Labelled(N + 1, g, g[N + 1]) = Labelled(N, f, g[N + 1]) \cup {N + 1}
      /\ N + 1 \notin Labelled(N, f, g[N + 1])
  BY DEF Labelled
<1>2. \A q : q # g[N + 1] => Labelled(N + 1, g, q) = Labelled(N, f, q)
  BY DEF Labelled
<1>3. Cardinality(Labelled(N, f, g[N + 1]) \cup {N + 1}) = Cardinality(Labelled(N, f, g[N + 1])) + 1
  BY <1>1, LabelledBound, FS_AddElement
<1> QED BY <1>1, <1>2, <1>3

InQueue(t) == <<"queue", t>>
With(w) == <<"worker", w>>
Done == <<"done", "">>
Lost == <<"lost", "">>

LEMMA Places ==
  /\ \A t, u : InQueue(t) = InQueue(u) => t = u
  /\ \A v, w : With(v) = With(w) => v = w
  /\ \A t, w : InQueue(t) # With(w) /\ InQueue(t) # Done /\ InQueue(t) # Lost
  /\ \A w : With(w) # Done /\ With(w) # Lost
  /\ Done # Lost
  BY DEF InQueue, With, Done, Lost

\* A worker that has not yet counted the message it holds, nor put it back.
Busy(w) ==
    \/ run[w].pc \in {"flags", "acquire", "scan", "count", "handle"}
    \/ run[w].pc = "release" /\ run[w].failed # "no"

Finishing == job.status = "completed" \/ \E w \in Workers : run[w].pc = "finish"
Sent == job.count + IF poster.pc = "count" THEN 1 ELSE 0

Both(N, of, loc) == [n \in 1 .. N |-> <<of[n], loc[n]>>]

Accounts(N, of, loc) ==
    /\ \A n \in 1 .. N : of[n] \in Items
    /\ N = Sent
    /\ \A i \in Items : sent[i] = Cardinality(Labelled(N, of, i))
    /\ \A i \in Items : ended[i] = Cardinality(Labelled(N, Both(N, of, loc), <<i, Done>>))
    /\ job.terminal = Cardinality(Labelled(N, loc, Done))
    /\ \A t \in Task : Copies(t) = Cardinality(Labelled(N, loc, InQueue(t)))
    /\ \A t \in Task : \A n \in 1 .. N : loc[n] = InQueue(t) => of[n] = t.item
    /\ \A w \in Workers : Busy(w) =>
         \E n \in 1 .. N : loc[n] = With(w) /\ of[n] = run[w].task.item
    /\ ~Batched /\ Finishing => Labelled(N, loc, Done) = 1 .. N

\* Nothing is sent, moved or counted.
LEMMA NothingMoves ==
  ASSUME NEW N \in Nat, NEW of, NEW loc, Accounts(N, of, loc),
         sent' = sent, ended' = ended, job'.terminal = job.terminal, Sent' = Sent,
         \A t \in Task : Copies(t)' = Copies(t),
         \A w \in Workers : Busy(w)' => Busy(w) /\ run'[w].task.item = run[w].task.item,
         ~Batched /\ Finishing' => Labelled(N, loc, Done) = 1 .. N
  PROVE  Accounts(N, of, loc)'
  BY DEF Accounts

\* One message, the k-th, goes to place p.
Moved(of, loc, k, p) ==
    /\ p # loc[k] /\ loc[k] # Done /\ sent' = sent /\ Sent' = Sent
    /\ \A i \in Items : ended'[i] = ended[i] + IF p = Done /\ i = of[k] THEN 1 ELSE 0
    /\ job'.terminal = job.terminal + IF p = Done THEN 1 ELSE 0
    /\ \A t \in Task : Copies(t)' = IF p = InQueue(t) THEN Copies(t) + 1
                                    ELSE IF loc[k] = InQueue(t) THEN Copies(t) - 1
                                    ELSE Copies(t)
    /\ \A t \in Task : p = InQueue(t) => of[k] = t.item
    /\ \A w \in Workers : Busy(w)' =>
         \/ Busy(w) /\ run'[w].task.item = run[w].task.item /\ loc[k] # With(w)
         \/ p = With(w) /\ run'[w].task.item = of[k]
    /\ Finishing' => Finishing

LEMMA OneMoves ==
  ASSUME NEW N \in Nat, NEW of, NEW loc, Accounts(N, of, loc), NEW k \in 1 .. N, NEW p,
         Moved(of, loc, k, p)
  PROVE  \E to : Accounts(N, of, to)'
<1> USE DEF Moved
<1> DEFINE to == [n \in 1 .. N |-> IF n = k THEN p ELSE loc[n]]
           f == Both(N, of, loc)
           g == Both(N, of, to)
<1>1. /\ to[k] = p /\ \A n \in (1 .. N) \ {k} : to[n] = loc[n]
      /\ \A n \in 1 .. N : f[n] = <<of[n], loc[n]>> /\ g[n] = <<of[n], to[n]>>
  BY DEF Both
<1> HIDE DEF to, f, g
<1>2. /\ Cardinality(Labelled(N, to, p)) = Cardinality(Labelled(N, loc, p)) + 1
      /\ Cardinality(Labelled(N, to, loc[k])) = Cardinality(Labelled(N, loc, loc[k])) - 1
      /\ \A q : q # p /\ q # loc[k] => Labelled(N, to, q) = Labelled(N, loc, q)
  <2>1. loc[k] # to[k] /\ \A n \in (1 .. N) \ {k} : to[n] = loc[n] BY <1>1
  <2>2. /\ Cardinality(Labelled(N, to, to[k])) = Cardinality(Labelled(N, loc, to[k])) + 1
        /\ Cardinality(Labelled(N, to, loc[k])) = Cardinality(Labelled(N, loc, loc[k])) - 1
        /\ \A q : q # to[k] /\ q # loc[k] => Labelled(N, to, q) = Labelled(N, loc, q)
    BY ONLY <2>1, Relabelled, N \in Nat, k \in 1 .. N
  <2> QED BY <1>1, <2>2
<1>3. \A i \in Items : ended'[i] = Cardinality(Labelled(N, g, <<i, Done>>))
  <2> SUFFICES ASSUME NEW i \in Items PROVE ended'[i] = Cardinality(Labelled(N, g, <<i, Done>>))
    OBVIOUS
  <2>1. f[k] # g[k] /\ \A n \in (1 .. N) \ {k} : g[n] = f[n] BY <1>1
  <2>2. /\ Cardinality(Labelled(N, g, g[k])) = Cardinality(Labelled(N, f, g[k])) + 1
        /\ \A q : q # g[k] /\ q # f[k] => Labelled(N, g, q) = Labelled(N, f, q)
    BY ONLY <2>1, Relabelled, N \in Nat, k \in 1 .. N
  <2>3. f[k] # <<i, Done>> BY <1>1
  <2>4. g[k] = <<i, Done>> <=> p = Done /\ i = of[k] BY <1>1
  <2>5. ended[i] = Cardinality(Labelled(N, f, <<i, Done>>)) BY DEF Accounts, f
  <2>6. CASE p = Done /\ i = of[k]
    <3>1. g[k] = <<i, Done>> BY <2>4, <2>6
    <3>2. Cardinality(Labelled(N, g, <<i, Done>>)) = Cardinality(Labelled(N, f, <<i, Done>>)) + 1
      BY <2>2, <3>1
    <3> QED BY <2>5, <2>6, <3>2
  <2>7. CASE ~(p = Done /\ i = of[k])
    <3>1. Labelled(N, g, <<i, Done>>) = Labelled(N, f, <<i, Done>>) BY <2>2, <2>3, <2>4, <2>7
    <3>2. ended'[i] = ended[i] + 0 BY <2>7
    <3>3. ended[i] \in Nat BY <2>5, LabelledBound
    <3> QED BY <2>5, <3>1, <3>2, <3>3
  <2> QED BY <2>6, <2>7
<1>4. job'.terminal = Cardinality(Labelled(N, to, Done))
  <2>1. job.terminal = Cardinality(Labelled(N, loc, Done)) BY DEF Accounts
  <2>2. CASE p = Done BY <1>2, <2>1, <2>2
  <2>3. CASE p # Done
    <3>1. Labelled(N, to, Done) = Labelled(N, loc, Done) BY <1>2, <2>3
    <3>2. job.terminal \in Nat BY <2>1, LabelledBound
    <3> QED BY <2>1, <2>3, <3>1, <3>2
  <2> QED BY <2>2, <2>3
<1>5. \A t \in Task : Copies(t)' = Cardinality(Labelled(N, to, InQueue(t)))
  BY <1>2 DEF Accounts
<1>6. \A t \in Task : \A n \in 1 .. N : to[n] = InQueue(t) => of[n] = t.item
  BY <1>1 DEF Accounts
<1>7. \A w \in Workers : Busy(w)' => \E n \in 1 .. N : to[n] = With(w) /\ of[n] = run'[w].task.item
  BY <1>1 DEF Accounts
<1>8. ~(~Batched /\ Finishing')
  <2>1. ~Batched /\ Finishing => Labelled(N, loc, Done) = 1 .. N BY DEF Accounts
  <2>2. k \notin Labelled(N, loc, Done) BY DEF Labelled
  <2> QED BY <2>1, <2>2
<1>9. Accounts(N, of, to)' BY <1>3, <1>4, <1>5, <1>6, <1>7, <1>8 DEF Accounts, g
<1> QED BY <1>9

\* One message is sent for file i.
LEMMA OneIsSent ==
  ASSUME NEW N \in Nat, NEW of, NEW loc, Accounts(N, of, loc), NEW t \in Task, t.item \in Items,
         sent \in [Items -> Nat], sent' = [sent EXCEPT ![t.item] = @ + 1], Sent' = Sent + 1,
         ended' = ended, job'.terminal = job.terminal, run' = run,
         \A u \in Task : Copies(u)' = IF u = t THEN Copies(u) + 1 ELSE Copies(u),
         ~(~Batched /\ Finishing')
  PROVE  \E by, to : Accounts(N + 1, by, to)'
<1> DEFINE by == [n \in 1 .. N + 1 |-> IF n = N + 1 THEN t.item ELSE of[n]]
           to == [n \in 1 .. N + 1 |-> IF n = N + 1 THEN InQueue(t) ELSE loc[n]]
           f == Both(N, of, loc)
           g == Both(N + 1, by, to)
<1>1. /\ by[N + 1] = t.item /\ to[N + 1] = InQueue(t)
      /\ \A n \in 1 .. N : by[n] = of[n] /\ to[n] = loc[n] /\ f[n] = <<of[n], loc[n]>>
      /\ \A n \in 1 .. N + 1 : g[n] = <<by[n], to[n]>>
  BY DEF Both
<1>2. \A n \in 1 .. N + 1 : n \in 1 .. N \/ n = N + 1 OBVIOUS
<1>3. N + 1 \in 1 .. N + 1 /\ N + 1 \in Nat OBVIOUS
<1> HIDE DEF by, to, f, g
<1>4. \A i \in Items : sent'[i] = Cardinality(Labelled(N + 1, by, i))
  <2>1. /\ Cardinality(Labelled(N + 1, by, t.item)) = Cardinality(Labelled(N, of, t.item)) + 1
        /\ \A q : q # t.item => Labelled(N + 1, by, q) = Labelled(N, of, q)
    <3>1. \A n \in 1 .. N : by[n] = of[n] BY <1>1
    <3>2. /\ Cardinality(Labelled(N + 1, by, by[N + 1])) = Cardinality(Labelled(N, of, by[N + 1])) + 1
          /\ \A q : q # by[N + 1] => Labelled(N + 1, by, q) = Labelled(N, of, q)
      BY ONLY <3>1, Extended, N \in Nat
    <3> QED BY <1>1, <3>2
  <2> QED BY <2>1 DEF Accounts
<1>5. \A i \in Items : ended'[i] = Cardinality(Labelled(N + 1, g, <<i, Done>>))
  <2>1. g[N + 1] = <<t.item, InQueue(t)>> /\ \A n \in 1 .. N : g[n] = f[n] BY <1>1, <1>2, <1>3
  <2>2. \A q : q # g[N + 1] => Labelled(N + 1, g, q) = Labelled(N, f, q)
    BY ONLY <2>1, Extended, N \in Nat
  <2>3. \A i : <<i, Done>> # g[N + 1] BY <2>1, Places
  <2> QED BY <2>2, <2>3 DEF Accounts, f
<1>6. /\ Cardinality(Labelled(N + 1, to, InQueue(t))) = Cardinality(Labelled(N, loc, InQueue(t))) + 1
      /\ \A q : q # InQueue(t) => Labelled(N + 1, to, q) = Labelled(N, loc, q)
  BY <1>1, Extended
<1>7. job'.terminal = Cardinality(Labelled(N + 1, to, Done)) BY <1>6, Places DEF Accounts
<1>8. \A u \in Task : Copies(u)' = Cardinality(Labelled(N + 1, to, InQueue(u)))
  BY <1>6, Places DEF Accounts
<1>9. \A u \in Task : \A n \in 1 .. N + 1 : to[n] = InQueue(u) => by[n] = u.item
  BY <1>1, <1>2, Places DEF Accounts
<1>10. \A w \in Workers : Busy(w)' =>
         \E n \in 1 .. N + 1 : to[n] = With(w) /\ by[n] = run'[w].task.item
  <2> SUFFICES ASSUME NEW w \in Workers, Busy(w)'
               PROVE  \E n \in 1 .. N + 1 : to[n] = With(w) /\ by[n] = run'[w].task.item
    OBVIOUS
  <2>1. PICK n \in 1 .. N : loc[n] = With(w) /\ of[n] = run[w].task.item BY DEF Accounts, Busy
  <2>2. n \in 1 .. N + 1 OBVIOUS
  <2> QED BY <1>1, <2>1, <2>2
<1>11. \A n \in 1 .. N + 1 : by[n] \in Items BY <1>1, <1>2 DEF Accounts
<1>12. N + 1 = Sent' BY DEF Accounts
<1>13. Accounts(N + 1, by, to)'
  BY <1>4, <1>5, <1>7, <1>8, <1>9, <1>10, <1>11, <1>12 DEF Accounts, g
<1> QED BY <1>13
-----------------------------------------------------------------------------
(***************************************************************************)
(* The job: what the total stands for when it is compared.                 *)
(***************************************************************************)
JobInv ==
    ~Batched =>
        /\ job.enqueue_done => poster.pc = "next" /\ poster.left = {}
        /\ poster.pc \in {"next", "send"} /\ job.total >= 0 => job.total = job.count
        /\ poster.pc = "store" => poster.total = job.count
        /\ Finishing => job.enqueue_done

LEMMA JobInit == Init => JobInv
  BY DEF Init, JobInv, Finishing, Idle

\* Every step but those of the enqueuer leaves it and what it writes alone.
LEMMA JobFrame ==
  ASSUME JobInv, poster' = poster, job'.count = job.count, job'.total = job.total,
         job'.enqueue_done = job.enqueue_done, Finishing' => Finishing \/ job.enqueue_done
  PROVE  JobInv'
  BY DEF JobInv

LEMMA JobWorker ==
  ASSUME TypeInv, NEW w \in Workers, Step(w)
  PROVE  /\ poster' = poster /\ job'.count = job.count /\ job'.total = job.total
         /\ job'.enqueue_done = job.enqueue_done
         /\ Finishing' => Finishing \/ (run[w].pc = "read" /\ MayFinish /\ job' = job)
<1> USE DEF TypeInv, Goto
<1>1. run[w] \in RunSet /\ job \in JobSet OBVIOUS
<1>2. poster' = poster
  BY DEF Step, Flags, Acquire, Scan, Count, ReadBack, Finish, Release, Handle, DeadLetter, Ack
<1>3. job'.count = job.count /\ job'.total = job.total /\ job'.enqueue_done = job.enqueue_done
  BY <1>1
     DEF Step, Flags, Acquire, Scan, Count, ReadBack, Finish, Release, Handle, DeadLetter, Ack, JobSet
<1>4. CASE ReadBack(w)
  <2>1. CASE MayFinish BY <1>2, <1>3, <1>4, <2>1 DEF ReadBack
  <2>2. CASE ~MayFinish
    <3>1. run'[w].pc # "finish" /\ \A v \in Workers \ {w} : run'[v] = run[v]
      BY <1>1, <1>4, <2>2 DEF ReadBack, AfterRecord, RunSet
    <3> QED BY <1>2, <1>3, <1>4, <3>1 DEF ReadBack, Finishing
  <2> QED BY <2>1, <2>2
<1>5. CASE Finish(w) BY <1>2, <1>3, <1>5 DEF Finish, Finishing
<1>6. CASE ~ReadBack(w) /\ ~Finish(w)
  <2>1. job'.status = "completed" => job.status = "completed"
    BY <1>1, <1>6 DEF Step, Flags, Acquire, Scan, Count, Release, Handle, DeadLetter, Ack, Running, JobSet
  <2>2. run'[w].pc # "finish" /\ \A v \in Workers \ {w} : run'[v] = run[v]
    BY <1>1, <1>6, IdleSound DEF Step, Flags, Acquire, Scan, Count, Release, Handle, DeadLetter, Ack, RunSet
  <2> QED BY <1>2, <1>3, <2>1, <2>2 DEF Finishing
<1> QED BY <1>4, <1>5, <1>6

LEMMA JobStep ==
  ASSUME TypeInv, JobInv, [Next]_vars
  PROVE  JobInv'
<1> USE DEF TypeInv
<1>1. CASE Post \/ PostAgain
  <2>1. Finishing' => Finishing
    <3>1. run' = run
      BY <1>1 DEF Post, PostAgain, PostNext, PostSend, PostCount, PostStore, EnqueueDone
    <3>2. job'.status = "completed" => job.status = "completed"
      BY <1>1 DEF Post, PostAgain, PostNext, PostSend, PostCount, PostStore, EnqueueDone, Running, JobSet
    <3> QED BY <3>1, <3>2 DEF Finishing
  <2>2. CASE PostNext
    <3>1. job' = job /\ poster.pc = "next" /\ poster.left # {} BY <2>2 DEF PostNext
    <3>2. poster'.pc \in {"next", "send"} BY <2>2 DEF PostNext, PosterSet
    <3> QED BY <2>1, <3>1, <3>2 DEF JobInv
  <2>3. CASE PostSend BY <2>1, <2>3 DEF PostSend, JobInv, PosterSet
  <2>4. CASE PostCount
    <3>1. /\ job'.count = job.count + 1 /\ job'.enqueue_done = job.enqueue_done
          /\ poster'.pc = "store" /\ poster'.total = job.count + 1 /\ poster.pc = "count"
      BY <2>4 DEF PostCount, PosterSet, JobSet
    <3> QED BY <2>1, <3>1 DEF JobInv
  <2>5. CASE PostStore
    <3>1. /\ job'.count = job.count /\ job'.enqueue_done = job.enqueue_done
          /\ poster'.pc = "next" /\ job'.total = poster.total /\ poster.pc = "store"
      BY <2>5 DEF PostStore, PosterSet, JobSet
    <3> QED BY <2>1, <3>1 DEF JobInv
  <2>6. CASE EnqueueDone
    <3>1. /\ job'.count = job.count /\ job'.total = job.total /\ job'.enqueue_done
          /\ poster'.pc = poster.pc /\ poster'.left = poster.left /\ poster'.total = poster.total
          /\ ~Batched => poster.pc = "next" /\ poster.left = {}
      BY <2>6 DEF EnqueueDone, PosterSet, JobSet
    <3> QED BY <3>1 DEF JobInv
  <2>7. CASE PostAgain
    <3>1. job' = job /\ poster'.pc = "send" /\ poster.pc = "next" /\ ~job.enqueue_done
      BY <2>7 DEF PostAgain, PosterSet
    <3> QED BY <2>1, <3>1 DEF JobInv
  <2> QED BY <1>1, <2>2, <2>3, <2>4, <2>5, <2>6, <2>7 DEF Post
<1>2. CASE User
  BY <1>2, JobFrame DEF User, Pause, Resume, Revoke, MarkCancelled, Finishing, JobSet
<1>3. CASE Expire \/ UNCHANGED vars BY <1>3, JobFrame DEF Expire, Finishing, vars
<1>4. ASSUME NEW w \in Workers, NEW t \in Task, Receive(w, t) PROVE JobInv'
  <2>1. \A v \in Workers : run'[v].pc = "finish" => run[v].pc = "finish"
    BY <1>4 DEF Receive, Idle
  <2> QED BY <1>4, <2>1, JobFrame DEF Receive, Finishing
<1>5. ASSUME NEW w \in Workers, Step(w) PROVE JobInv'
  BY <1>5, JobWorker, JobFrame DEF MayFinish
<1>6. ASSUME NEW w \in Workers, Crash(w) \/ Terminated(w) PROVE JobInv'
  <2>1. \A v \in Workers : run'[v].pc = "finish" => run[v].pc = "finish"
    BY <1>6, IdleSound DEF Crash, Terminated, Gone
  <2> QED BY <1>6, <2>1, JobFrame DEF Crash, Terminated, Gone, Finishing
<1>7. ASSUME NEW w \in Workers, NEW kind \in {"retriable", "final"}, ScanRaises(w, kind) PROVE JobInv'
  <2>1. \A v \in Workers : run'[v].pc = "finish" => run[v].pc = "finish"
    BY <1>7 DEF ScanRaises, RunSet
  <2> QED BY <1>7, <2>1, JobFrame DEF ScanRaises, Finishing
<1> QED BY <1>1, <1>2, <1>3, <1>4, <1>5, <1>6, <1>7 DEF Next, Delivered
-----------------------------------------------------------------------------
(***************************************************************************)
(* The account through every step.                                         *)
(***************************************************************************)
TokenInv ==
    faults.crashes = 0 => \E N \in Nat : \E of, loc : Accounts(N, of, loc)

LEMMA TokenInit == Init => TokenInv
<1> SUFFICES ASSUME Init PROVE Accounts(0, <<>>, <<>>) BY DEF TokenInv
<1>1. \A f, q : Cardinality(Labelled(0, f, q)) = 0
  <2>1. \A f, q : Labelled(0, f, q) = {} BY DEF Labelled
  <2> QED BY <2>1, FS_EmptySet
<1>2. \A t : Copies(t) = 0 BY DEF Init, Copies, EmptyBag, SetToBag
<1>3. \A w \in Workers : ~Busy(w) BY DEF Init, Busy, Idle
<1>4. ~Finishing BY DEF Init, Finishing, Idle
<1> QED BY <1>1, <1>2, <1>3, <1>4 DEF Init, Accounts, Sent

LEMMA AccountPost ==
  ASSUME TypeInv, JobInv, JobInv', NEW N \in Nat, NEW of, NEW loc, Accounts(N, of, loc),
         Post \/ PostAgain
  PROVE  \E M \in Nat : \E by, to : Accounts(M, by, to)'
<1> USE DEF TypeInv
<1>1. run' = run /\ ended' = ended
  BY DEF Post, PostAgain, PostNext, PostSend, PostCount, PostStore, EnqueueDone
<1>2. job'.status = "completed" => job.status = "completed"
  BY DEF Post, PostAgain, PostNext, PostSend, PostCount, PostStore, EnqueueDone, Running, JobSet
<1>3. job'.terminal = job.terminal
  BY DEF Post, PostAgain, PostNext, PostSend, PostCount, PostStore, EnqueueDone, JobSet
<1>4. Finishing' => Finishing BY <1>1, <1>2 DEF Finishing
<1>5. \A w \in Workers : Busy(w)' => Busy(w) /\ run'[w].task.item = run[w].task.item
  BY <1>1 DEF Busy
<1>6. ~Batched /\ Finishing => Labelled(N, loc, Done) = 1 .. N BY DEF Accounts
<1>7. CASE PostSend
  <2> DEFINE t == [item |-> poster.item, retries |-> 0, listed |-> TRUE]
  <2>1. poster.item \in Items /\ poster.pc = "send" BY <1>7 DEF PostSend
  <2>2. t \in Task /\ t.item = poster.item BY <2>1, Tasks
  <2>3. sent' = [sent EXCEPT ![t.item] = @ + 1] BY <1>7, <2>2 DEF PostSend
  <2>4. queue' = BagAdd(queue, t) BY <1>7 DEF PostSend
  <2> HIDE DEF t
  <2>5. \A u \in Task : Copies(u)' = IF u = t THEN Copies(u) + 1 ELSE Copies(u)
    BY <2>4, BagAdded
  <2>6. Sent' = Sent + 1
    <3>1. job' = job /\ poster'.pc = "count" BY <1>7 DEF PostSend, PosterSet
    <3> QED BY <2>1, <3>1 DEF Sent, JobSet
  <2>7. ~(~Batched /\ Finishing') BY <1>4, <2>1 DEF JobInv
  <2>8. \E by, to : Accounts(N + 1, by, to)'
    BY <1>1, <1>3, <2>1, <2>2, <2>3, <2>5, <2>6, <2>7, OneIsSent
  <2> QED BY <2>8
<1>8. CASE ~PostSend
  <2>1. sent' = sent /\ queue' = queue
    BY <1>8 DEF Post, PostAgain, PostNext, PostSend, PostCount, PostStore, EnqueueDone
  <2>2. Sent' = Sent
    <3>1. CASE PostCount BY <3>1 DEF PostCount, Sent, JobSet, PosterSet
    <3>2. CASE PostNext \/ PostAgain BY <3>2 DEF PostNext, PostAgain, Sent, PosterSet
    <3>3. CASE PostStore \/ EnqueueDone BY <3>3 DEF PostStore, EnqueueDone, Sent, JobSet, PosterSet
    <3> QED BY <1>8, <3>1, <3>2, <3>3 DEF Post
  <2>3. Accounts(N, of, loc)'
    BY <1>1, <1>3, <1>4, <1>5, <1>6, <2>1, <2>2, NothingMoves DEF Copies
  <2> QED BY <2>3
<1> QED BY <1>7, <1>8

\* A worker that puts back what it holds, as u.
LEMMA AccountBack ==
  ASSUME TypeInv, NEW N \in Nat, NEW of, NEW loc, Accounts(N, of, loc), NEW w \in Workers, Busy(w),
         NEW u \in Task, u.item = run[w].task.item, queue' = BagAdd(queue, u), ~Busy(w)',
         \A v \in Workers \ {w} : run'[v] = run[v],
         UNCHANGED <<sent, ended, poster>>, job'.terminal = job.terminal, job'.count = job.count,
         Finishing' => Finishing
  PROVE  \E to : Accounts(N, of, to)'
<1>1. PICK k \in 1 .. N : loc[k] = With(w) /\ of[k] = run[w].task.item BY DEF Accounts
<1> DEFINE p == InQueue(u)
<1>2. p # loc[k] /\ loc[k] # Done /\ p # Done BY <1>1, Places
<1>3. \A t \in Task : Copies(t)' = IF p = InQueue(t) THEN Copies(t) + 1
                                   ELSE IF loc[k] = InQueue(t) THEN Copies(t) - 1 ELSE Copies(t)
  BY <1>1, BagAdded, Places
<1>4. \A t \in Task : p = InQueue(t) => of[k] = t.item BY <1>1, Places
<1>5. \A v \in Workers : Busy(v)' =>
           \/ Busy(v) /\ run'[v].task.item = run[v].task.item /\ loc[k] # With(v)
           \/ p = With(v) /\ run'[v].task.item = of[k]
  BY <1>1, Places DEF Busy
<1>6. /\ \A i \in Items : ended'[i] = ended[i] + IF p = Done /\ i = of[k] THEN 1 ELSE 0
      /\ job'.terminal = job.terminal + IF p = Done THEN 1 ELSE 0
  BY <1>2 DEF TypeInv, JobSet
<1>7. Sent' = Sent /\ sent' = sent BY DEF Sent
<1> HIDE DEF p
<1>8. Moved(of, loc, k, p) BY <1>2, <1>3, <1>4, <1>5, <1>6, <1>7 DEF Moved
<1> QED BY <1>8, OneMoves

LEMMA AccountCount ==
  ASSUME TypeInv, NEW N \in Nat, NEW of, NEW loc, Accounts(N, of, loc), NEW w \in Workers, Count(w)
  PROVE  \E to : Accounts(N, of, to)'
<1> USE DEF TypeInv
<1>1. Busy(w) /\ run[w].pc = "count" /\ run[w] \in RunSet BY DEF Count, Busy
<1>2. PICK k \in 1 .. N : loc[k] = With(w) /\ of[k] = run[w].task.item BY <1>1 DEF Accounts
<1>3. Done # loc[k] /\ \A t : Done # InQueue(t) /\ loc[k] # InQueue(t) BY <1>2, Places
<1>4. \A i \in Items : ended'[i] = ended[i] + IF Done = Done /\ i = of[k] THEN 1 ELSE 0
  BY <1>2 DEF Count
<1>5. /\ job'.terminal = job.terminal + 1 /\ job'.count = job.count
      /\ job'.status = "completed" => job.status = "completed"
  BY DEF Count, JobSet, Running
<1>6. run'[w].pc = "read" /\ \A v \in Workers \ {w} : run'[v] = run[v]
  BY <1>1 DEF Count, Goto, RunSet
<1>7. \A v \in Workers : Busy(v)' =>
           \/ Busy(v) /\ run'[v].task.item = run[v].task.item /\ loc[k] # With(v)
           \/ Done = With(v) /\ run'[v].task.item = of[k]
  BY <1>2, <1>6, Places DEF Busy
<1>8. Finishing' => Finishing BY <1>5, <1>6 DEF Finishing
<1>9. sent' = sent /\ Sent' = Sent /\ \A t \in Task : Copies(t)' = Copies(t)
  BY <1>5 DEF Count, Sent, Copies
<1>10. Moved(of, loc, k, Done)
  BY <1>2, <1>3, <1>4, <1>5, <1>7, <1>8, <1>9, Places DEF Moved
<1> QED BY <1>10, OneMoves

\* A message that is taken: it goes to the worker, or is dropped.
LEMMA AccountReceive ==
  ASSUME TypeInv, NEW N \in Nat, NEW of, NEW loc, Accounts(N, of, loc),
         NEW w \in Workers, NEW t \in Task, Receive(w, t)
  PROVE  \E to : Accounts(N, of, to)'
<1> USE DEF TypeInv
<1>1. /\ Copies(t)' = Copies(t) - 1 /\ Copies(t) >= 1
      /\ \A u : u # t => Copies(u)' = Copies(u)
  BY BagRemoved DEF Receive
<1>2. PICK k \in 1 .. N : loc[k] = InQueue(t)
  <2>1. Cardinality(Labelled(N, loc, InQueue(t))) >= 1 BY <1>1 DEF Accounts
  <2>2. Labelled(N, loc, InQueue(t)) # {} BY <2>1, FS_EmptySet
  <2> QED BY <2>2 DEF Labelled
<1>3. of[k] = t.item BY <1>2 DEF Accounts
<1>4. /\ sent' = sent /\ Sent' = Sent /\ ended' = ended /\ job' = job
      /\ run' = IF IsRevoked(t) THEN run
                ELSE [run EXCEPT ![w] = [Idle EXCEPT !.pc = "flags", !.task = t]]
  BY DEF Receive, Sent
<1> DEFINE p == IF IsRevoked(t) THEN Lost ELSE With(w)
<1>5. p # loc[k] /\ loc[k] # Done /\ p # Done /\ \A u : p # InQueue(u) BY <1>2, Places
<1>6. \A u \in Task : Copies(u)' = IF p = InQueue(u) THEN Copies(u) + 1
                                   ELSE IF loc[k] = InQueue(u) THEN Copies(u) - 1 ELSE Copies(u)
  BY <1>1, <1>2, <1>5, Places
<1>7. /\ \A i \in Items : ended'[i] = ended[i] + IF p = Done /\ i = of[k] THEN 1 ELSE 0
      /\ job'.terminal = job.terminal + IF p = Done THEN 1 ELSE 0
  BY <1>4, <1>5 DEF JobSet
<1>8. /\ \A v \in Workers : Busy(v)' =>
           \/ Busy(v) /\ run'[v].task.item = run[v].task.item /\ loc[k] # With(v)
           \/ p = With(v) /\ run'[v].task.item = of[k]
      /\ \A v \in Workers : run'[v].pc = "finish" => run[v].pc = "finish"
  <2>1. CASE IsRevoked(t) BY <1>2, <1>4, <2>1, Places DEF Busy
  <2>2. CASE ~IsRevoked(t)
    <3>1. run'[w].task = t /\ run'[w].pc = "flags" /\ \A v \in Workers \ {w} : run'[v] = run[v]
      BY <1>4, <2>2 DEF Idle
    <3>2. p = With(w) BY <2>2
    <3> QED BY <1>2, <1>3, <3>1, <3>2, Places DEF Busy
  <2> QED BY <2>1, <2>2
<1>9. Finishing' => Finishing BY <1>4, <1>8 DEF Finishing
<1> HIDE DEF p
<1>10. Moved(of, loc, k, p) BY <1>4, <1>5, <1>6, <1>7, <1>8, <1>9 DEF Moved
<1> QED BY <1>10, OneMoves

LEMMA AccountWorker ==
  ASSUME TypeInv, JobInv, NEW N \in Nat, NEW of, NEW loc, Accounts(N, of, loc),
         NEW w \in Workers, Step(w)
  PROVE  \E to : Accounts(N, of, to)'
<1> USE DEF TypeInv
<1>1. run[w] \in RunSet /\ Sound(run[w]) /\ run[w].pc # "idle"
  BY DEF Step, Flags, Acquire, Scan, Count, ReadBack, Finish, Release, Handle, DeadLetter, Ack
<1>2. run[w].task \in Task BY <1>1 DEF Sound
<1>3. poster' = poster /\ job'.count = job.count /\ Sent' = Sent BY JobWorker DEF Sent
<1>4. ~Batched /\ Finishing => Labelled(N, loc, Done) = 1 .. N BY DEF Accounts
\* The message that w holds is put back, as u.
<1>5. ASSUME NEW u \in Task, u.item = run[w].task.item, queue' = BagAdd(queue, u), Busy(w),
             Goto(w, "ack"), UNCHANGED <<sent, ended>>, job'.terminal = job.terminal,
             job'.status = "completed" => job.status = "completed"
      PROVE  \E to : Accounts(N, of, to)'
  <2>1. run'[w].pc = "ack" /\ \A v \in Workers \ {w} : run'[v] = run[v] BY <1>5 DEF Goto, RunSet
  <2>2. ~Busy(w)' BY <2>1 DEF Busy
  <2>3. Finishing' => Finishing BY <1>5, <2>1 DEF Finishing
  <2> QED BY <1>3, <1>5, <2>1, <2>2, <2>3, AccountBack
\* Nothing is put back and nothing is counted.
<1>6. ASSUME UNCHANGED <<queue, sent, ended>>, job'.terminal = job.terminal,
             \A v \in Workers \ {w} : run'[v] = run[v],
             Busy(w)' => Busy(w) /\ run'[w].task.item = run[w].task.item,
             ~Batched /\ Finishing' => Labelled(N, loc, Done) = 1 .. N
      PROVE  \E to : Accounts(N, of, to)'
  <2>1. \A v \in Workers : Busy(v)' => Busy(v) /\ run'[v].task.item = run[v].task.item
    BY <1>6 DEF Busy
  <2>2. \A t \in Task : Copies(t)' = Copies(t) BY <1>6 DEF Copies
  <2>3. Accounts(N, of, loc)' BY <1>3, <1>6, <2>1, <2>2, NothingMoves
  <2> QED BY <2>3
<1>7. CASE Flags(w)
  <2>1. /\ UNCHANGED <<sent, ended>> /\ job'.terminal = job.terminal
        /\ job'.status = "completed" => job.status = "completed"
    BY <1>7 DEF Flags, JobSet, Running
  <2>2. Busy(w) BY <1>7 DEF Flags, Busy
  <2>3. CASE queue' = BagAdd(queue, Copy(run[w].task)) /\ Goto(w, "ack")
    BY <1>2, <1>5, <2>1, <2>2, <2>3, Tasks
  <2>4. CASE queue' = queue /\ (Goto(w, "count") \/ Goto(w, "acquire"))
    <3>1. /\ \A v \in Workers \ {w} : run'[v] = run[v]
          /\ run'[w].task = run[w].task /\ run'[w].pc # "finish"
      BY <1>1, <2>4 DEF Goto, RunSet
    <3>2. Finishing' => Finishing BY <2>1, <3>1 DEF Finishing
    <3> QED BY <1>4, <1>6, <2>1, <2>2, <2>4, <3>1, <3>2
  <2> QED BY <1>7, <2>3, <2>4 DEF Flags
<1>8. CASE Acquire(w)
  <2>1. UNCHANGED <<job, sent, ended>> BY <1>8 DEF Acquire
  <2>2. Busy(w) BY <1>8 DEF Acquire, Busy
  <2>3. CASE queue' = BagAdd(queue, Copy(run[w].task)) /\ Goto(w, "ack")
    BY <1>2, <1>5, <2>1, <2>2, <2>3, Tasks
  <2>4. CASE queue' = queue /\ run' = [run EXCEPT ![w].pc = "scan", ![w].held = TRUE]
    <3>1. /\ \A v \in Workers \ {w} : run'[v] = run[v]
          /\ run'[w].task = run[w].task /\ run'[w].pc # "finish"
      BY <1>1, <2>4 DEF RunSet
    <3>2. Finishing' => Finishing BY <2>1, <3>1 DEF Finishing
    <3> QED BY <1>4, <1>6, <2>1, <2>2, <2>4, <3>1, <3>2
  <2> QED BY <1>8, <2>3, <2>4 DEF Acquire
<1>9. CASE Handle(w)
  <2>1. UNCHANGED <<job, sent, ended>> BY <1>9 DEF Handle
  <2>2. Busy(w) BY <1>9 DEF Handle, Busy
  <2>3. CASE ShouldRetry(w) /\ run[w].task.retries < CeleryRetries
    <3> DEFINE u == [run[w].task EXCEPT !.retries = @ + 1]
    <3>1. u \in Task /\ u.item = run[w].task.item BY <1>2, <2>3, Tasks DEF ShouldRetry
    <3>2. queue' = BagAdd(queue, u) /\ Goto(w, "ack") BY <1>9, <2>3 DEF Handle, Retried
    <3> HIDE DEF u
    <3> QED BY <1>5, <2>1, <2>2, <3>1, <3>2
  <2>4. CASE ~(ShouldRetry(w) /\ run[w].task.retries < CeleryRetries)
    <3>1. queue' = queue /\ (Goto(w, "count") \/ Goto(w, "ack"))
      BY <1>9, <2>4 DEF Handle, Retried
    <3>2. /\ \A v \in Workers \ {w} : run'[v] = run[v]
          /\ run'[w].task = run[w].task /\ run'[w].pc # "finish"
      BY <1>1, <3>1 DEF Goto, RunSet
    <3>3. Finishing' => Finishing BY <2>1, <3>2 DEF Finishing
    <3> QED BY <1>4, <1>6, <2>1, <2>2, <3>1, <3>2, <3>3
  <2> QED BY <2>3, <2>4
<1>10. CASE Count(w) BY <1>10, AccountCount
<1>11. CASE ReadBack(w)
  <2>1. UNCHANGED <<job, queue, sent, ended>> BY <1>11 DEF ReadBack
  <2>2. ~Busy(w)' /\ \A v \in Workers \ {w} : run'[v] = run[v]
    BY <1>1, <1>11 DEF ReadBack, AfterRecord, Busy, RunSet, Sound
  <2>3. CASE MayFinish
    <3>1. ~Batched => N <= job.terminal
      <4>1. job.enqueue_done /\ job.terminal >= Total BY <2>3 DEF MayFinish
      <4>2. ~Batched => Total = job.count /\ poster.pc # "count"
        BY <4>1 DEF JobInv, Total
      <4> QED BY <4>1, <4>2 DEF Accounts, Sent, JobSet
    <3>2. ~Batched => Labelled(N, loc, Done) = 1 .. N
      <4>1. job.terminal = Cardinality(Labelled(N, loc, Done)) BY DEF Accounts
      <4> QED BY <3>1, <4>1, LabelledBound
    <3> QED BY <1>6, <2>1, <2>2, <3>2
  <2>4. CASE ~MayFinish
    <3>1. Finishing' => Finishing BY <2>4, JobWorker
    <3> QED BY <1>4, <1>6, <2>1, <2>2, <3>1
  <2> QED BY <2>3, <2>4
<1>12. CASE Finish(w)
  <2>1. UNCHANGED <<queue, sent, ended>> /\ job'.terminal = job.terminal
    BY <1>12 DEF Finish, JobSet
  <2>2. ~Busy(w)' /\ \A v \in Workers \ {w} : run'[v] = run[v]
    BY <1>1, <1>12 DEF Finish, AfterRecord, Goto, Busy, RunSet, Sound
  <2>3. Finishing BY <1>12 DEF Finish, Finishing
  <2> QED BY <1>4, <1>6, <2>1, <2>2, <2>3
<1>13. CASE Scan(w) \/ Release(w) \/ DeadLetter(w) \/ Ack(w)
  <2>1. UNCHANGED <<job, queue, sent, ended>> BY <1>13 DEF Scan, Release, DeadLetter, Ack
  <2>2. /\ \A v \in Workers \ {w} : run'[v] = run[v]
        /\ run'[w].pc # "finish"
        /\ Busy(w)' => Busy(w) /\ run'[w].task.item = run[w].task.item
    BY <1>1, <1>13 DEF Scan, Release, DeadLetter, Ack, Goto, Idle, Busy, RunSet
  <2>3. Finishing' => Finishing BY <2>1, <2>2 DEF Finishing
  <2> QED BY <1>4, <1>6, <2>1, <2>2, <2>3
<1> QED BY <1>7, <1>8, <1>9, <1>10, <1>11, <1>12, <1>13 DEF Step

LEMMA TokenStep ==
  ASSUME TypeInv, JobInv, JobInv', TokenInv, [Next]_vars
  PROVE  TokenInv'
<1> USE DEF TypeInv
<1>1. SUFFICES ASSUME faults'.crashes = 0
               PROVE  \E M \in Nat : \E by, to : Accounts(M, by, to)'
  BY DEF TokenInv
<1>2. faults.crashes = 0 /\ ~(\E w \in Workers : Crash(w))
  <2>1. \A f \in {"errors", "crashes", "drift", "reposts", "pauses", "cancels"} :
           Suffers(f) => f # "crashes" /\ faults.crashes = 0
    BY <1>1, Suffered DEF FaultSet
  <2>2. ~(\E w \in Workers : Crash(w)) BY <2>1 DEF Crash
  <2>3. faults' = faults \/ \E f \in {"errors", "drift", "reposts", "pauses", "cancels"} : Suffers(f)
    <3>1. CASE Post \/ PostAgain
      BY <3>1 DEF Post, PostAgain, PostNext, PostSend, PostCount, PostStore, EnqueueDone
    <3>2. CASE User \/ Expire BY <3>2 DEF User, Pause, Resume, Revoke, MarkCancelled, Expire
    <3>3. ASSUME NEW w \in Workers, Step(w) PROVE faults' = faults \/ Suffers("drift")
      BY <3>3 DEF Step, Flags, Acquire, Scan, Count, ReadBack, Finish, Release, Handle, DeadLetter, Ack
    <3>4. CASE UNCHANGED vars BY <3>4 DEF vars
    <3> QED BY <2>2, <3>1, <3>2, <3>3, <3>4 DEF Next, Delivered, Receive, Terminated, ScanRaises
  <2> QED BY <1>1, <2>1, <2>2, <2>3
<1>3. PICK N \in Nat : \E of, loc : Accounts(N, of, loc) BY <1>2 DEF TokenInv
<1>4. PICK of, loc : Accounts(N, of, loc) BY <1>3
<1>5. ~Batched /\ Finishing => Labelled(N, loc, Done) = 1 .. N BY <1>4 DEF Accounts
\* Steps of others than the enqueuer that send, put back and count nothing.
<1>6. ASSUME UNCHANGED <<queue, sent, ended, poster>>, job'.terminal = job.terminal,
             job'.count = job.count, Finishing' => Finishing,
             \A w \in Workers : Busy(w)' => Busy(w) /\ run'[w].task.item = run[w].task.item
      PROVE  Accounts(N, of, loc)'
  <2>1. Sent' = Sent /\ \A t \in Task : Copies(t)' = Copies(t) BY <1>6 DEF Sent, Copies
  <2> QED BY <1>4, <1>5, <1>6, <2>1, NothingMoves
<1>7. CASE Post \/ PostAgain BY <1>4, <1>7, AccountPost
<1>8. CASE User
  <2>1. /\ UNCHANGED <<queue, sent, ended, poster, run>> /\ job'.terminal = job.terminal
        /\ job'.count = job.count /\ (job'.status = "completed" => job.status = "completed")
    BY <1>8 DEF User, Pause, Resume, Revoke, MarkCancelled, JobSet
  <2>2. /\ Finishing' => Finishing
        /\ \A w \in Workers : Busy(w)' => Busy(w) /\ run'[w].task.item = run[w].task.item
    BY <2>1 DEF Finishing, Busy
  <2>3. Accounts(N, of, loc)' BY <1>6, <2>1, <2>2
  <2> QED BY <2>3
<1>9. CASE Expire \/ UNCHANGED vars
  <2>1. UNCHANGED <<queue, sent, ended, poster, run, job>> BY <1>9 DEF Expire, vars
  <2>2. /\ Finishing' => Finishing
        /\ \A w \in Workers : Busy(w)' => Busy(w) /\ run'[w].task.item = run[w].task.item
    BY <2>1 DEF Finishing, Busy
  <2>3. Accounts(N, of, loc)' BY <1>6, <2>1, <2>2
  <2> QED BY <2>3
<1>10. ASSUME NEW w \in Workers, NEW t \in Task, Receive(w, t)
       PROVE  \E to : Accounts(N, of, to)'
  BY <1>4, <1>10, AccountReceive
<1>11. ASSUME NEW w \in Workers, Step(w) PROVE \E to : Accounts(N, of, to)'
  BY <1>4, <1>11, AccountWorker
<1>12. ASSUME NEW w \in Workers, NEW kind \in {"retriable", "final"}, ScanRaises(w, kind)
       PROVE  Accounts(N, of, loc)'
  <2>1. UNCHANGED <<queue, sent, ended, poster, job>> BY <1>12 DEF ScanRaises
  <2>2. /\ run[w].pc = "scan" /\ run'[w].task = run[w].task /\ run'[w].pc = "release"
        /\ \A v \in Workers \ {w} : run'[v] = run[v]
    BY <1>12 DEF ScanRaises, RunSet
  <2>3. /\ Finishing' => Finishing
        /\ \A v \in Workers : Busy(v)' => Busy(v) /\ run'[v].task.item = run[v].task.item
    BY <2>1, <2>2 DEF Finishing, Busy
  <2> QED BY <1>6, <2>1, <2>3
<1>13. ASSUME NEW w \in Workers, Terminated(w) PROVE Accounts(N, of, loc)'
  <2>1. UNCHANGED <<queue, sent, ended, poster, job>> BY <1>13 DEF Terminated, Gone
  <2>2. run'[w].pc = "idle" /\ \A v \in Workers \ {w} : run'[v] = run[v]
    BY <1>13, IdleSound DEF Terminated, Gone
  <2>3. /\ Finishing' => Finishing
        /\ \A v \in Workers : Busy(v)' => Busy(v) /\ run'[v].task.item = run[v].task.item
    BY <2>1, <2>2 DEF Finishing, Busy
  <2> QED BY <1>6, <2>1, <2>3
<1> QED BY <1>2, <1>7, <1>8, <1>9, <1>10, <1>11, <1>12, <1>13 DEF Next, Delivered

\* What is counted for a file was sent for it; what is sent is counted when the job ends.
LEMMA AccountMeans ==
  ASSUME NEW N \in Nat, NEW of, NEW loc, Accounts(N, of, loc), NEW i \in Items
  PROVE  ended[i] <= sent[i] /\ (~Batched /\ Finishing => ended[i] = sent[i])
<1> DEFINE D == Labelled(N, Both(N, of, loc), <<i, Done>>)
           L == Labelled(N, of, i)
<1>1. D \in SUBSET L BY DEF Labelled, Both
<1>2. Cardinality(D) <= Cardinality(L) BY <1>1, LabelledBound, FS_Subset
<1>3. Labelled(N, loc, Done) = 1 .. N => D = L BY DEF Labelled, Both
<1>4. ended[i] = Cardinality(D) /\ sent[i] = Cardinality(L) BY DEF Accounts
<1>5. ~Batched /\ Finishing => Labelled(N, loc, Done) = 1 .. N BY DEF Accounts
<1> QED BY <1>2, <1>3, <1>4, <1>5

\* However often a request is put back (paused job, no free slot) or retried, its file is
\* counted once for every message that was sent for it, never more, and a job whose
\* requests come one by one is marked completed only when every message was counted: the
\* total that a worker reads back after its count cannot be an earlier one
\* (record_scan_request_terminal, the enqueue_done route).
THEOREM CountsKept == ~Batched => (Spec => []CountedOnce)
<1> SUFFICES ASSUME ~Batched PROVE Spec => []CountedOnce OBVIOUS
<1>1. Init => TypeInv /\ JobInv /\ TokenInv BY TypeInit, JobInit, TokenInit
<1>2. TypeInv /\ JobInv /\ TokenInv /\ [Next]_vars => (TypeInv /\ JobInv /\ TokenInv)'
  BY TypeStep, JobStep, TokenStep
<1>3. TypeInv /\ JobInv /\ TokenInv => CountedOnce
  BY AccountMeans DEF TokenInv, CountedOnce, Finishing
<1> QED BY <1>1, <1>2, <1>3, PTL DEF Spec
=============================================================================
