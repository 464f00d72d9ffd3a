------------------------- MODULE ResultTasksProofs -------------------------
(***************************************************************************)
(* Proofs about ResultTasks, for any number of workers, retries, requeues  *)
(* and faults: a verdict that has been sent is never lost, and what is     *)
(* reported is reported once.  The second needs to know that the verdict   *)
(* of a root is in one place at a time, while nothing is repeated.         *)
(***************************************************************************)
EXTENDS ResultTasks, TLAPS

Labels == Kinds \cup {"idle", "raised", "dead", "ack", "send", "guard", "analyze"}
Tasks == [kind : Kinds, root : Roots, retries : Nat]

\* A worker's step fits the task in its hands.
Fits(s) ==
    /\ s.pc = "idle" => s = Idle
    /\ s.pc # "idle" => s.task \in Tasks
    /\ s.pc \in Kinds => s.task.kind = s.pc
    /\ s.pc = "send" => s.task.kind = "verdict"
    /\ s.pc \in {"guard", "analyze"} => s.task.kind = "result"

TypeInv ==
    /\ job \in BOOLEAN
    /\ DOMAIN queue \subseteq Tasks /\ \A t \in DOMAIN queue : queue[t] \in Nat \ {0}
    /\ DOMAIN dlq \subseteq Tasks /\ \A t \in DOMAIN dlq : dlq[t] \in Nat \ {0}
    /\ run \in [Workers -> [pc : Labels, task : Tasks \cup {NoTask}]]
    /\ \A w \in Workers : Fits(run[w])
    /\ requeue \in Tasks \cup {NoTask} /\ requeues \in 0 .. MaxRequeues
    /\ scanned \subseteq Roots
    /\ logged \in [Roots -> Nat] /\ analyses \in [Roots -> Nat]
    /\ faults \in [death : Nat, unsure : Nat, failure : Nat]
-----------------------------------------------------------------------------
\* Bags.
LEMMA Added ==
  ASSUME NEW B, NEW x, \A t \in DOMAIN B : B[t] \in Nat \ {0}
  PROVE  /\ DOMAIN BagAdd(B, x) = DOMAIN B \cup {x}
         /\ \A t \in DOMAIN BagAdd(B, x) : BagAdd(B, x)[t] \in Nat \ {0}
         /\ \A t \in DOMAIN B \ {x} : BagAdd(B, x)[t] = B[t]
         /\ x \notin DOMAIN B => BagAdd(B, x)[x] = 1
<1>1. CASE x \in DOMAIN B
  <2> DEFINE C == [e \in DOMAIN B |-> IF e = x THEN B[e] + 1 ELSE B[e]]
  <2>1. BagAdd(B, x) = C BY <1>1 DEF BagAdd
  <2>2. DOMAIN C = DOMAIN B /\ \A t \in DOMAIN B : C[t] \in Nat \ {0} BY <1>1
  <2>3. \A t \in DOMAIN B \ {x} : C[t] = B[t] OBVIOUS
  <2> HIDE DEF C
  <2> QED BY <1>1, <2>1, <2>2, <2>3
<1>2. CASE x \notin DOMAIN B BY <1>2 DEF BagAdd
<1> QED BY <1>1, <1>2

LEMMA Removed ==
  ASSUME NEW B, NEW x \in DOMAIN B, \A t \in DOMAIN B : B[t] \in Nat \ {0}
  PROVE  /\ DOMAIN B \ {x} \subseteq DOMAIN BagRemove(B, x)
         /\ DOMAIN BagRemove(B, x) \subseteq DOMAIN B
         /\ \A t \in DOMAIN BagRemove(B, x) : BagRemove(B, x)[t] \in Nat \ {0}
         /\ \A t \in DOMAIN B \ {x} : BagRemove(B, x)[t] = B[t]
         /\ B[x] = 1 => x \notin DOMAIN BagRemove(B, x)
<1>1. CASE B[x] = 1 BY <1>1 DEF BagRemove
<1>2. CASE B[x] # 1 BY <1>2 DEF BagRemove
<1> QED BY <1>1, <1>2

LEMMA NewTask ==
  ASSUME NEW k \in Kinds, NEW r \in Roots
  PROVE  Task(k, r) \in Tasks /\ Task(k, r).kind = k /\ Task(k, r).root = r
  BY DEF Task, Tasks

LEMMA NoneTask == NoTask \notin Tasks /\ NoTask.kind = "none" /\ NoTask.root = 0
  BY DEF NoTask, Task, Tasks, Kinds

\* One worker goes on.
LEMMA GoesOn ==
  ASSUME TypeInv, NEW w \in Workers, NEW l, Goto(w, l)
  PROVE  /\ run'[w] = [pc |-> l, task |-> run[w].task]
         /\ \A v \in Workers \ {w} : run'[v] = run[v]
         /\ l \in Labels /\ Fits(run'[w]) =>
               /\ run' \in [Workers -> [pc : Labels, task : Tasks \cup {NoTask}]]
               /\ \A v \in Workers : Fits(run'[v])
<1>1. run'[w] = [pc |-> l, task |-> run[w].task] BY DEF TypeInv, Goto
<1>2. \A v \in Workers \ {w} : run'[v] = run[v] BY DEF TypeInv, Goto
<1>3. l \in Labels => run' \in [Workers -> [pc : Labels, task : Tasks \cup {NoTask}]]
  BY DEF TypeInv, Goto
<1>4. Fits(run'[w]) => \A v \in Workers : Fits(run'[v]) BY <1>2 DEF TypeInv
<1> QED BY <1>1, <1>2, <1>3, <1>4

LEMMA Faulty ==
  ASSUME TypeInv, NEW k \in {"death", "unsure", "failure"}, Fault(k)
  PROVE  /\ faults' \in [death : Nat, unsure : Nat, failure : Nat] /\ faults'[k] > 0
         /\ faults'.death >= faults.death /\ faults'.unsure >= faults.unsure
  BY DEF TypeInv, Fault

\* A send: it is sent, fails, or fails and is sent.
LEMMA Sends ==
  ASSUME TypeInv, NEW w \in Workers, NEW t \in Tasks, NEW l, NEW f, Send(w, t, l, f)
  PROVE  /\ faults' \in [death : Nat, unsure : Nat, failure : Nat]
         /\ \/ queue' = BagAdd(queue, t) /\ Goto(w, l) /\ UNCHANGED faults
            \/ UNCHANGED queue /\ Goto(w, f) /\ faults'.death >= faults.death
               /\ faults'.unsure >= faults.unsure
            \/ queue' = BagAdd(queue, t) /\ Goto(w, f) /\ faults'.unsure > 0
         /\ DOMAIN queue \subseteq DOMAIN queue' /\ DOMAIN queue' \subseteq DOMAIN queue \cup {t}
         /\ \A u \in DOMAIN queue' : queue'[u] \in Nat \ {0}
<1>0. faults \in [death : Nat, unsure : Nat, failure : Nat] BY DEF TypeInv
<1>4. queue' = BagAdd(queue, t) =>
         /\ DOMAIN queue' = DOMAIN queue \cup {t}
         /\ \A u \in DOMAIN queue' : queue'[u] \in Nat \ {0}
  <2>1. \A u \in DOMAIN queue : queue[u] \in Nat \ {0} BY DEF TypeInv
  <2>2. /\ DOMAIN BagAdd(queue, t) = DOMAIN queue \cup {t}
        /\ \A u \in DOMAIN BagAdd(queue, t) : BagAdd(queue, t)[u] \in Nat \ {0}
    BY <2>1, Added
  <2> QED BY <2>2
<1>1. CASE queue' = BagAdd(queue, t) /\ Goto(w, l) /\ UNCHANGED faults
  BY <1>0, <1>1, <1>4
<1>2. CASE UNCHANGED queue /\ Goto(w, f) /\ Fault("failure")
  BY <1>2, Faulty DEF TypeInv
<1>3. CASE queue' = BagAdd(queue, t) /\ Goto(w, f) /\ Fault("unsure")
  BY <1>3, <1>4, Faulty
<1> QED BY <1>1, <1>2, <1>3 DEF Send

LEMMA StartsTyped == Init => TypeInv
<1> SUFFICES ASSUME Init PROVE TypeInv OBVIOUS
<1>1. 1 \in Roots BY ResultAssumption DEF Roots
<1>2. Task("scan", 1) \in Tasks BY <1>1, NewTask DEF Kinds
<1>3. Idle \in [pc : Labels, task : Tasks \cup {NoTask}] /\ Fits(Idle)
  BY DEF Idle, Labels, Fits, Kinds
<1>4. DOMAIN queue = {Task("scan", 1)} /\ queue[Task("scan", 1)] = 1
  BY DEF Init, SetToBag
<1>5. DOMAIN dlq = {} BY DEF Init, EmptyBag, SetToBag
<1>6. faults \in [death : Nat, unsure : Nat, failure : Nat] BY DEF Init
<1>7. run \in [Workers -> [pc : Labels, task : Tasks \cup {NoTask}]] /\ \A w \in Workers : Fits(run[w])
  BY <1>3 DEF Init
<1>8. DOMAIN queue \subseteq Tasks /\ \A t \in DOMAIN queue : queue[t] \in Nat \ {0} BY <1>2, <1>4
<1>9. job \in BOOLEAN /\ requeue \in Tasks \cup {NoTask} /\ requeues \in 0 .. MaxRequeues
  BY ResultAssumption DEF Init
<1> QED BY <1>5, <1>6, <1>7, <1>8, <1>9 DEF Init, TypeInv

\* A bag that gains a task, or loses one, is a bag of tasks.
Bag(B) == DOMAIN B \subseteq Tasks /\ \A t \in DOMAIN B : B[t] \in Nat \ {0}
Runs == [Workers -> [pc : Labels, task : Tasks \cup {NoTask}]]

LEMMA BagKept ==
  ASSUME NEW B, Bag(B), NEW t
  PROVE  /\ t \in Tasks => Bag(BagAdd(B, t))
         /\ t \in DOMAIN B => Bag(BagRemove(B, t))
<1>0. DOMAIN B \subseteq Tasks /\ \A u \in DOMAIN B : B[u] \in Nat \ {0} BY DEF Bag
<1>1. /\ DOMAIN BagAdd(B, t) = DOMAIN B \cup {t}
      /\ \A u \in DOMAIN BagAdd(B, t) : BagAdd(B, t)[u] \in Nat \ {0}
  BY <1>0, Added
<1>2. t \in DOMAIN B =>
        /\ DOMAIN BagRemove(B, t) \subseteq DOMAIN B
        /\ \A u \in DOMAIN BagRemove(B, t) : BagRemove(B, t)[u] \in Nat \ {0}
  BY <1>0, Removed
<1> QED BY <1>0, <1>1, <1>2 DEF Bag

LEMMA TypesOf ==
  TypeInv <=>
    /\ job \in BOOLEAN /\ Bag(queue) /\ Bag(dlq) /\ run \in Runs /\ \A w \in Workers : Fits(run[w])
    /\ requeue \in Tasks \cup {NoTask} /\ requeues \in 0 .. MaxRequeues /\ scanned \subseteq Roots
    /\ logged \in [Roots -> Nat] /\ analyses \in [Roots -> Nat]
    /\ faults \in [death : Nat, unsure : Nat, failure : Nat]
  BY DEF TypeInv, Bag, Runs

LEMMA StepTyped ==
  ASSUME TypeInv, NEW w \in Workers, Step(w) \/ Dies(w)
  PROVE  TypeInv'
<1> DEFINE t == run[w].task
<1>0. /\ t \in Tasks \/ run[w] = Idle
      /\ Fits(run[w]) /\ run[w].pc \in Labels
      /\ Bag(queue) /\ Bag(dlq) /\ run \in Runs /\ \A v \in Workers : Fits(run[v])
      /\ job \in BOOLEAN /\ requeue \in Tasks \cup {NoTask} /\ requeues \in 0 .. MaxRequeues
      /\ scanned \subseteq Roots /\ logged \in [Roots -> Nat] /\ analyses \in [Roots -> Nat]
      /\ faults \in [death : Nat, unsure : Nat, failure : Nat]
  BY TypesOf DEF TypeInv, Fits
<1>1. \A l : At(w, l) /\ l # "idle" => t \in Tasks /\ Root(w) \in Roots
  BY <1>0 DEF At, Root, Idle, Tasks
<1>a. Idle \in [pc : Labels, task : Tasks \cup {NoTask}] /\ Fits(Idle)
  BY DEF Idle, Labels, Fits, Kinds
<1>b. UNCHANGED <<setup, requeue, requeues>>
  BY DEF Step, Receive, Raised, DeadLetter, Ack, Scan, Act, SendResult, Log, Guard, Analyze, ReadFile,
         Dies, history
<1>c. \A l \in Labels : Goto(w, l) /\ Fits([pc |-> l, task |-> t]) =>
         run' \in Runs /\ \A v \in Workers : Fits(run'[v])
  BY GoesOn DEF Runs
<1>d. \A k \in {"death", "unsure", "failure"} : Fault(k) =>
         faults' \in [death : Nat, unsure : Nat, failure : Nat]
  BY Faulty
<1> SUFFICES /\ Bag(queue)' /\ Bag(dlq)' /\ (run \in Runs)' /\ (\A v \in Workers : Fits(run[v]))'
             /\ scanned' \subseteq Roots /\ logged' \in [Roots -> Nat] /\ analyses' \in [Roots -> Nat]
             /\ faults' \in [death : Nat, unsure : Nat, failure : Nat]
  BY <1>0, <1>b DEF setup, TypeInv, Bag, Runs
<1>2. ASSUME NEW u \in BagToSet(queue), Receive(w, u)
      PROVE  Bag(queue)' /\ run' \in Runs /\ (\A v \in Workers : Fits(run'[v]))
  <2>1. u \in DOMAIN queue /\ u \in Tasks BY <1>0, <1>2 DEF BagToSet, Bag
  <2>2. Bag(queue)' BY <1>0, <1>2, <2>1, BagKept DEF Receive, Bag
  <2>3. [pc |-> u.kind, task |-> u] \in [pc : Labels, task : Tasks \cup {NoTask}]
        /\ Fits([pc |-> u.kind, task |-> u])
    BY <2>1 DEF Tasks, Labels, Kinds, Fits
  <2>4. run' = [run EXCEPT ![w] = [pc |-> u.kind, task |-> u]] BY <1>2 DEF Receive
  <2> QED BY <1>0, <2>2, <2>3, <2>4 DEF Runs
<1>3. CASE Raised(w)
  <2>1. t \in Tasks BY <1>1, <1>3 DEF Raised
  <2>2. [t EXCEPT !.retries = @ + 1] \in Tasks BY <2>1 DEF Tasks
  <2>3. Bag(queue)' /\ (Goto(w, "ack") \/ Goto(w, "dead"))
    BY <1>0, <1>3, <2>2, BagKept DEF Raised, Bag
  <2>4. Fits([pc |-> "ack", task |-> t]) /\ Fits([pc |-> "dead", task |-> t])
    BY <2>1 DEF Fits, Kinds
  <2> QED BY <1>0, <1>3, <1>c, <2>3, <2>4 DEF Raised, history, Bag, Labels
<1>4. CASE DeadLetter(w)
  <2>1. t \in Tasks BY <1>1, <1>4 DEF DeadLetter
  <2>2. Letter(t) \in Tasks
    BY <2>1, NewTask DEF Letter, Tasks, Kinds
  <2>3. Bag(dlq)' BY <1>0, <1>4, <2>2, BagKept DEF DeadLetter, Bag
  <2>4. Fits([pc |-> "ack", task |-> t]) BY <2>1 DEF Fits, Kinds
  <2> QED BY <1>0, <1>4, <1>c, <1>d, <2>3, <2>4 DEF DeadLetter, Bag, Labels
<1>5. CASE Ack(w) BY <1>0, <1>5, <1>a DEF Ack, history, Runs, Bag
<1>6. CASE Dies(w)
  <2>1. t \in Tasks BY <1>0, <1>6 DEF Dies, At, Idle
  <2>2. Bag(queue)' BY <1>0, <1>6, <2>1, BagKept DEF Dies, Bag
  <2> QED BY <1>0, <1>6, <1>a, <1>d, <2>2 DEF Dies, history, Runs, Bag
<1>7. CASE Scan(w)
  <2>1. t \in Tasks /\ Root(w) \in Roots BY <1>1, <1>7 DEF Scan
  <2>2. Fits([pc |-> "ack", task |-> t]) /\ Fits([pc |-> "dead", task |-> t])
        /\ Fits([pc |-> "raised", task |-> t])
    BY <2>1 DEF Fits, Kinds
  <2>3. scanned' \subseteq Roots BY <1>0, <1>7, <2>1 DEF Scan
  <2>4. CASE Send(w, Task("verdict", Root(w)), "ack", "dead")
    <3>1. Task("verdict", Root(w)) \in Tasks BY <2>1, NewTask DEF Kinds
    <3>2. /\ Goto(w, "ack") \/ Goto(w, "dead")
          /\ faults' \in [death : Nat, unsure : Nat, failure : Nat]
      BY <2>4, <3>1, Sends
    <3>3. Bag(queue)' BY <1>0, <2>4, <3>1, Sends DEF Bag
    <3> QED BY <1>0, <1>7, <1>c, <2>2, <2>3, <3>2, <3>3 DEF Scan, Bag, Labels
  <2>5. CASE (Goto(w, "raised") \/ Goto(w, "dead")) /\ UNCHANGED <<queue, scanned, faults>>
    BY <1>0, <1>7, <1>c, <2>2, <2>5 DEF Scan, Bag, Labels
  <2> QED BY <1>7, <2>4, <2>5 DEF Scan
<1>8. CASE Act(w)
  <2>1. t \in Tasks /\ t.kind = "verdict" BY <1>0, <1>1, <1>8 DEF Act, At, Fits, Kinds
  <2>2. Fits([pc |-> "send", task |-> t]) /\ Fits([pc |-> "dead", task |-> t])
    BY <2>1 DEF Fits, Kinds
  <2> QED BY <1>0, <1>8, <1>c, <1>d, <2>2 DEF Act, history, Bag, Labels
<1>9. CASE SendResult(w)
  <2>1. t \in Tasks /\ Root(w) \in Roots BY <1>1, <1>9 DEF SendResult
  <2>2. Fits([pc |-> "ack", task |-> t]) /\ Fits([pc |-> "dead", task |-> t])
    BY <2>1 DEF Fits, Kinds
  <2>3. Task("result", Root(w)) \in Tasks BY <2>1, NewTask DEF Kinds
  <2>4. /\ Goto(w, "ack") \/ Goto(w, "dead")
        /\ faults' \in [death : Nat, unsure : Nat, failure : Nat]
    BY <1>9, <2>3, Sends DEF SendResult
  <2>5. Bag(queue)' BY <1>0, <1>9, <2>3, Sends DEF Bag, SendResult
  <2> QED BY <1>0, <1>9, <1>c, <2>2, <2>4, <2>5 DEF SendResult, history, Bag, Labels
<1>10. CASE Log(w)
  <2>1. t \in Tasks /\ t.kind = "result" /\ Root(w) \in Roots
    BY <1>0, <1>1, <1>10 DEF Log, At, Fits, Kinds
  <2>2. /\ Fits([pc |-> "ack", task |-> t]) /\ Fits([pc |-> "guard", task |-> t])
        /\ Fits([pc |-> "raised", task |-> t])
    BY <2>1 DEF Fits, Kinds
  <2>3. logged' \in [Roots -> Nat] BY <1>0, <1>10, <2>1 DEF Log
  <2>4. Goto(w, "ack") \/ Goto(w, "guard") \/ Goto(w, "raised") BY <1>10 DEF Log, AfterLog
  <2>5. faults' \in [death : Nat, unsure : Nat, failure : Nat] BY <1>0, <1>10, <1>d DEF Log
  <2> QED BY <1>0, <1>10, <1>c, <2>2, <2>3, <2>4, <2>5 DEF Log, Bag, Labels
<1>11. CASE Guard(w)
  <2>1. t \in Tasks /\ t.kind = "result" BY <1>0, <1>1, <1>11 DEF Guard, At, Fits, Kinds
  <2>2. Fits([pc |-> "ack", task |-> t]) /\ Fits([pc |-> "analyze", task |-> t])
    BY <2>1 DEF Fits, Kinds
  <2>3. Goto(w, "ack") \/ Goto(w, "analyze") BY <1>11 DEF Guard
  <2> QED BY <1>0, <1>11, <1>c, <1>d, <2>2, <2>3 DEF Guard, history, Bag, Labels
<1>12. CASE Analyze(w)
  <2>1. t \in Tasks /\ Root(w) \in Roots BY <1>1, <1>12 DEF Analyze
  <2>2. Fits([pc |-> "ack", task |-> t]) BY <2>1 DEF Fits, Kinds
  <2>3. Task("dianna", Root(w)) \in Tasks BY <2>1, NewTask DEF Kinds
  <2>4. Goto(w, "ack") /\ faults' \in [death : Nat, unsure : Nat, failure : Nat]
    BY <1>12, <2>3, Sends DEF Analyze
  <2>5. Bag(queue)' BY <1>0, <1>12, <2>3, Sends DEF Bag, Analyze
  <2>6. analyses' \in [Roots -> Nat] BY <1>0, <1>12, <2>1 DEF Analyze
  <2> QED BY <1>0, <1>12, <1>c, <2>2, <2>4, <2>5, <2>6 DEF Analyze, Bag, Labels
<1>13. CASE ReadFile(w)
  <2>1. t \in Tasks BY <1>1, <1>13 DEF ReadFile
  <2>2. /\ Fits([pc |-> "ack", task |-> t]) /\ Fits([pc |-> "raised", task |-> t])
        /\ Fits([pc |-> "dead", task |-> t])
    BY <2>1 DEF Fits, Kinds
  <2> QED BY <1>0, <1>13, <1>c, <1>d, <2>2 DEF ReadFile, history, Bag, Labels
<1> QED BY <1>0, <1>2, <1>3, <1>4, <1>5, <1>6, <1>7, <1>8, <1>9, <1>10, <1>11, <1>12, <1>13
        DEF Step, Receive, history, Bag

LEMMA RouteTyped ==
  ASSUME TypeInv, Route \/ RouteDies
  PROVE  TypeInv'
<1>0. /\ Bag(queue) /\ Bag(dlq) /\ requeue \in Tasks \cup {NoTask} /\ requeues \in 0 .. MaxRequeues
      /\ faults \in [death : Nat, unsure : Nat, failure : Nat]
  BY TypesOf
<1>b. UNCHANGED <<setup, run, scanned, logged, analyses>>
  BY DEF Route, Pop, Resend, RouteDies, history
<1>d. \A k \in {"death", "unsure", "failure"} : Fault(k) =>
         faults' \in [death : Nat, unsure : Nat, failure : Nat]
  BY Faulty
<1> SUFFICES /\ Bag(queue)' /\ Bag(dlq)' /\ requeue' \in Tasks \cup {NoTask}
             /\ requeues' \in 0 .. MaxRequeues
             /\ faults' \in [death : Nat, unsure : Nat, failure : Nat]
  BY <1>b DEF setup, TypeInv, Bag
<1>1. ASSUME NEW t \in BagToSet(dlq), Pop(t)
      PROVE  Bag(dlq)' /\ requeue' \in Tasks /\ requeues' \in 0 .. MaxRequeues
  <2>1. t \in DOMAIN dlq /\ t \in Tasks BY <1>0, <1>1 DEF BagToSet, Bag
  <2>2. Bag(dlq)' BY <1>0, <1>1, <2>1, BagKept DEF Pop, Bag
  <2>3. requeues' \in 0 .. MaxRequeues BY <1>0, <1>1, ResultAssumption DEF Pop
  <2> QED BY <1>1, <2>1, <2>2, <2>3 DEF Pop
<1>2. CASE Resend
  <2>1. requeue \in Tasks /\ requeue' = NoTask /\ requeues' = requeues BY <1>0, <1>2 DEF Resend
  <2>2. requeues + 1 \in Roots BY <1>0, ResultAssumption DEF Roots
  <2>3. Again(requeue) \in Tasks BY <2>1, <2>2, NewTask DEF Again, Kinds
  <2>4. Bag(BagAdd(queue, Again(requeue))) /\ Bag(BagAdd(dlq, requeue)) BY <1>0, <2>1, <2>3, BagKept
  <2>5. Bag(queue)' /\ Bag(dlq)' BY <1>0, <1>2, <2>4 DEF Resend, Bag
  <2>6. faults' \in [death : Nat, unsure : Nat, failure : Nat] BY <1>0, <1>2, <1>d DEF Resend
  <2> QED BY <1>0, <2>1, <2>5, <2>6
<1>3. CASE RouteDies BY <1>0, <1>3, <1>d DEF RouteDies, Bag
<1> QED BY <1>0, <1>1, <1>2, <1>3 DEF Route, Pop, history, Bag

LEMMA TypeStep ==
  ASSUME TypeInv, [Next]_vars
  PROVE  TypeInv'
<1>1. CASE UNCHANGED vars BY <1>1 DEF vars, setup, history, TypeInv
<1> QED BY <1>1, StepTyped, RouteTyped DEF Next
-----------------------------------------------------------------------------
\* Where the verdict of a root is: logged, in a bag, at the route, or in the hands of a worker
\* that has yet to pass it on.
Holds(w, r) ==
    Carries(run[w].task, r) /\ run[w].pc \in {"verdict", "send", "result", "raised", "dead"}
Held(r) ==
    \/ logged[r] > 0
    \/ \E t \in DOMAIN queue \cup DOMAIN dlq \cup {requeue} : Carries(t, r)
    \/ \E w \in Workers : Holds(w, r)
VerdictHeld == \A r \in scanned \ lost : Held(r)

\* A task of the verdict, with a bag that has it.
LEMMA Queued ==
  ASSUME NEW B, Bag(B), NEW t \in Tasks, NEW u
  PROVE  /\ DOMAIN B \subseteq DOMAIN BagAdd(B, t) /\ t \in DOMAIN BagAdd(B, t)
         /\ u \in DOMAIN B => DOMAIN B \subseteq DOMAIN BagRemove(B, u) \cup {u}
<1>0. \A v \in DOMAIN B : B[v] \in Nat \ {0} BY DEF Bag
<1>1. DOMAIN BagAdd(B, t) = DOMAIN B \cup {t} BY <1>0, Added
<1>2. u \in DOMAIN B => DOMAIN B \ {u} \subseteq DOMAIN BagRemove(B, u) BY <1>0, Removed
<1> QED BY <1>1, <1>2

LEMMA HeldByStep ==
  ASSUME TypeInv, NEW w \in Workers, Step(w) \/ Dies(w), NEW r \in Roots, Held(r)
  PROVE  Held(r)' \/ r \in lost'
<1> DEFINE t == run[w].task
<1>0. /\ Bag(queue) /\ Bag(dlq) /\ run \in Runs /\ Fits(run[w]) /\ logged \in [Roots -> Nat]
      /\ t \in Tasks \/ run[w] = Idle
  BY TypesOf DEF TypeInv, Fits
<1>1. /\ \A v \in Workers \ {w} : run'[v] = run[v]
      /\ DOMAIN dlq \subseteq DOMAIN dlq' /\ requeue' = requeue
      /\ logged'[r] >= logged[r] /\ logged'[r] \in Nat
  <2>5. logged'[r] \in Nat BY StepTyped DEF TypeInv
  <2>1. \A v \in Workers \ {w} : run'[v] = run[v]
    BY <1>0 DEF Step, Receive, Raised, DeadLetter, Ack, Scan, Act, SendResult, Send, Log, Guard, Analyze,
                ReadFile, Dies, Goto, Runs
  <2>2. DOMAIN dlq \subseteq DOMAIN dlq'
    <3>1. t \in Tasks => Letter(t) \in Tasks BY NewTask DEF Letter, Tasks, Kinds
    <3>2. CASE DeadLetter(w) BY <1>0, <3>1, <3>2, Queued DEF DeadLetter, At, Idle
    <3> QED BY <3>2 DEF Step, Receive, Raised, Ack, Scan, Act, SendResult, Log, Guard, Analyze, ReadFile, Dies
  <2>3. requeue' = requeue
    BY DEF Step, Receive, Raised, DeadLetter, Ack, Scan, Act, SendResult, Log, Guard, Analyze, ReadFile, Dies
  <2>4. logged'[r] >= logged[r]
    <3>1. CASE Log(w) BY <1>0, <3>1 DEF Log
    <3>2. CASE ~Log(w)
      <4>1. logged' = logged
        BY <3>2 DEF Step, Receive, Raised, DeadLetter, Ack, Scan, Act, SendResult, Guard, Analyze, ReadFile,
                    Dies, history
      <4> QED BY <1>0, <4>1
    <3> QED BY <3>1, <3>2
  <2> QED BY <2>1, <2>2, <2>3, <2>4, <2>5
<1>2. CASE logged[r] > 0 BY <1>0, <1>1, <1>2 DEF Held
<1>3. ASSUME NEW u \in DOMAIN dlq \cup {requeue}, Carries(u, r) PROVE Held(r)'
  BY <1>1, <1>3 DEF Held, Carries
<1>4. ASSUME NEW v \in Workers \ {w}, Holds(v, r) PROVE Held(r)'
  BY <1>1, <1>4 DEF Held, Holds, Carries
<1>5. ASSUME NEW u \in DOMAIN queue, Carries(u, r) PROVE Held(r)'
  <2>1. CASE u \in DOMAIN queue' BY <1>5, <2>1 DEF Held, Carries
  <2>2. CASE u \notin DOMAIN queue'
    <3>1. Receive(w, u)
      <4>1. \A x \in Tasks : DOMAIN queue \subseteq DOMAIN BagAdd(queue, x) BY <1>0, Queued
      <4>2. \A x \in Tasks : \A l, f : Send(w, x, l, f) => DOMAIN queue \subseteq DOMAIN queue'
        BY <4>1 DEF Send
      <4>3. t \in Tasks => Root(w) \in Roots /\ [t EXCEPT !.retries = @ + 1] \in Tasks
        BY DEF Root, Tasks
      <4>4. CASE Raised(w) \/ Dies(w) BY <1>0, <1>5, <2>2, <4>1, <4>3, <4>4 DEF Raised, Dies, At, Idle
      <4>5. CASE Scan(w)
        BY <1>0, <1>5, <2>2, <4>2, <4>3, <4>5, NewTask DEF Scan, At, Idle, Kinds
      <4>6. CASE SendResult(w)
        BY <1>0, <1>5, <2>2, <4>2, <4>3, <4>6, NewTask DEF SendResult, At, Idle, Kinds
      <4>7. CASE Analyze(w)
        BY <1>0, <1>5, <2>2, <4>2, <4>3, <4>7, NewTask DEF Analyze, At, Idle, Kinds
      <4>8. ASSUME NEW x \in BagToSet(queue), Receive(w, x) PROVE x = u
        BY <1>0, <1>5, <2>2, <4>8, Queued DEF Receive, BagToSet, Bag
      <4> QED BY <1>5, <2>2, <4>4, <4>5, <4>6, <4>7, <4>8
              DEF Step, DeadLetter, Ack, Act, Log, Guard, ReadFile
    <3>2. run'[w] = [pc |-> u.kind, task |-> u] BY <1>0, <3>1 DEF Receive, Runs
    <3> QED BY <1>5, <3>2 DEF Held, Holds, Carries
  <2> QED BY <2>1, <2>2
<1>6. CASE Holds(w, r)
  <2>0. t \in Tasks /\ Carries(t, r) /\ t.root = r /\ t.kind # "dianna" /\ Root(w) = r
    BY <1>0, <1>6 DEF Holds, Carries, Idle, NoTask, Task, Root
  <2>1. CASE Raised(w)
    <3> DEFINE u == [t EXCEPT !.retries = @ + 1]
    <3>1. u \in Tasks /\ Carries(u, r) BY <2>0 DEF Tasks, Carries
    <3>4. u \in DOMAIN BagAdd(queue, u) BY <1>0, <3>1, Queued
    <3>2. CASE queue' = BagAdd(queue, u)
      BY <3>1, <3>2, <3>4 DEF Held, Carries
    <3>3. CASE Goto(w, "dead")
      <4>1. run'[w].pc = "dead" /\ run'[w].task = t BY <1>0, <3>3 DEF Goto, Runs
      <4> QED BY <2>0, <4>1 DEF Held, Holds, Carries
    <3>5. CASE lost' = lost \cup {t.root} BY <2>0, <3>5
    <3> QED BY <2>1, <3>2, <3>3, <3>5 DEF Raised
  <2>2. CASE DeadLetter(w)
    <3>1. Letter(t) \in Tasks /\ Carries(Letter(t), r)
      BY <2>0, NewTask DEF Letter, Tasks, Carries
    <3>2. CASE dlq' = BagAdd(dlq, Letter(t)) BY <1>0, <3>1, <3>2, Queued DEF Held, Carries
    <3> QED BY <2>0, <2>2, <3>2 DEF DeadLetter
  <2>3. CASE Act(w) \/ ReadFile(w) \/ Guard(w) \/ Ack(w) \/ Analyze(w) \/ Scan(w)
             \/ \E u \in BagToSet(queue) : Receive(w, u)
    <3>0. run[w].pc \in {"verdict", "send", "result", "raised", "dead"} BY <1>6 DEF Holds
    <3>1. Act(w)
      <4>1. ~\E u \in BagToSet(queue) : Receive(w, u) BY <3>0 DEF Receive, At
      <4>2. ~(ReadFile(w) \/ Guard(w) \/ Ack(w) \/ Analyze(w) \/ Scan(w))
        BY <3>0 DEF ReadFile, Guard, Ack, Analyze, Scan, At
      <4> QED BY <2>3, <4>1, <4>2
    <3>2. run'[w].pc \in {"send", "dead"} /\ run'[w].task = t
      BY <1>0, <3>1 DEF Act, Goto, Runs
    <3> QED BY <2>0, <3>2 DEF Held, Holds, Carries
  <2>4. CASE SendResult(w)
    <3> DEFINE u == Task("result", r)
    <3>1. u \in Tasks /\ Carries(u, r) BY NewTask DEF Kinds, Carries
    <3>2. CASE queue' = BagAdd(queue, u) BY <1>0, <3>1, <3>2, Queued DEF Held, Carries
    <3>3. CASE Goto(w, "dead")
      <4>1. run'[w].pc = "dead" /\ run'[w].task = t BY <1>0, <3>3 DEF Goto, Runs
      <4> QED BY <2>0, <4>1 DEF Held, Holds, Carries
    <3> QED BY <2>0, <2>4, <3>2, <3>3 DEF SendResult, Send
  <2>5. CASE Log(w)
    <3>1. CASE logged' = [logged EXCEPT ![Root(w)] = @ + 1]
      BY <1>0, <2>0, <3>1 DEF Held
    <3>2. CASE Goto(w, "raised")
      <4>1. run'[w].pc = "raised" /\ run'[w].task = t BY <1>0, <3>2 DEF Goto, Runs
      <4> QED BY <2>0, <4>1 DEF Held, Holds, Carries
    <3> QED BY <2>5, <3>1, <3>2 DEF Log
  <2>6. CASE Dies(w)
    <3>1. queue' = BagAdd(queue, t) BY <2>6 DEF Dies
    <3> QED BY <1>0, <2>0, <3>1, Queued DEF Held, Carries
  <2> QED BY <2>1, <2>2, <2>3, <2>4, <2>5, <2>6 DEF Step
<1> QED BY <1>2, <1>3, <1>4, <1>5, <1>6 DEF Held

LEMMA HeldByRoute ==
  ASSUME TypeInv, Route \/ RouteDies, NEW r \in Roots, Held(r)
  PROVE  Held(r)' \/ r \in lost'
<1>0. Bag(queue) /\ Bag(dlq) /\ requeue \in Tasks \cup {NoTask} /\ requeues \in 0 .. MaxRequeues
  BY TypesOf
<1>1. UNCHANGED <<run, logged>> BY DEF Route, Pop, Resend, RouteDies, history
<1>2. CASE logged[r] > 0 \/ \E w \in Workers : Holds(w, r) BY <1>1, <1>2 DEF Held, Holds
<1>3. ASSUME NEW u \in DOMAIN queue \cup DOMAIN dlq \cup {requeue}, Carries(u, r)
      PROVE  Held(r)' \/ r \in lost'
  <2>1. ASSUME NEW t \in BagToSet(dlq), Pop(t) PROVE Held(r)'
    <3>1. u # NoTask /\ requeue = NoTask /\ requeue' = t /\ queue' = queue
      BY <1>3, <2>1 DEF Pop, Carries, NoTask, Task
    <3>2. DOMAIN dlq \subseteq DOMAIN dlq' \cup {t}
      BY <1>0, <2>1, Queued DEF Pop, BagToSet, Bag
    <3> QED BY <1>3, <3>1, <3>2 DEF Held, Carries
  <2>2. CASE Resend
    <3>0. requeue \in Tasks BY <1>0, <2>2 DEF Resend
    <3>1. requeues + 1 \in Roots BY <1>0, ResultAssumption DEF Roots
    <3>2. Again(requeue) \in Tasks BY <3>0, <3>1, NewTask DEF Again, Kinds
    <3>3. DOMAIN queue \subseteq DOMAIN queue' /\ DOMAIN dlq \subseteq DOMAIN dlq'
      BY <1>0, <2>2, <3>0, <3>2, Queued DEF Resend
    <3>4. Carries(requeue, r) => Again(requeue) = requeue BY DEF Carries, Again
    <3>5. Carries(requeue, r) => requeue \in DOMAIN queue' \cup DOMAIN dlq'
      BY <1>0, <2>2, <3>0, <3>2, <3>4, Queued DEF Resend
    <3> QED BY <1>3, <3>3, <3>5 DEF Held, Carries
  <2>3. CASE RouteDies
    <3>1. UNCHANGED <<queue, dlq>> /\ requeue.root \in lost' BY <2>3 DEF RouteDies
    <3> QED BY <1>3, <3>1 DEF Held, Carries
  <2> QED BY <2>1, <2>2, <2>3 DEF Route
<1> QED BY <1>2, <1>3 DEF Held

\* A verdict that is sent is in the queue.
LEMMA ScanHeld ==
  ASSUME TypeInv, NEW w \in Workers, Scan(w)
  PROVE  \A r \in scanned' \ scanned : Held(r)'
<1> DEFINE t == Task("verdict", Root(w))
<1>1. Root(w) \in Roots /\ Bag(queue)
  BY TypesOf DEF Scan, At, TypeInv, Fits, Idle, Tasks, Root
<1>2. t \in Tasks /\ Carries(t, Root(w)) BY <1>1, NewTask DEF Kinds, Carries
<1>3. ASSUME NEW r \in scanned' \ scanned PROVE r = Root(w) /\ queue' = BagAdd(queue, t)
  BY <1>3 DEF Scan, Send
<1>4. t \in DOMAIN BagAdd(queue, t) BY <1>1, <1>2, Queued
<1> HIDE DEF t
<1> QED BY <1>2, <1>3, <1>4 DEF Held, Carries

LEMMA VerdictStep ==
  ASSUME TypeInv, VerdictHeld, [Next]_vars
  PROVE  VerdictHeld'
<1>1. ASSUME NEW r \in scanned \ lost PROVE Held(r)' \/ r \in lost'
  <2>1. r \in Roots /\ Held(r) BY <1>1 DEF TypeInv, VerdictHeld
  <2>2. CASE UNCHANGED vars
    BY <2>1, <2>2 DEF vars, setup, history, Held, Holds, Carries
  <2> QED BY <2>1, <2>2, HeldByStep, HeldByRoute DEF Next
<1>2. lost \subseteq lost'
  BY DEF Next, Route, RouteDies, Pop, Resend, Step, Receive, Raised, DeadLetter, Ack, Scan, Act, SendResult,
         Log, Guard, Analyze, ReadFile, Dies, vars, history
<1>3. scanned' = scanned \/ \E w \in Workers : Scan(w)
  BY DEF Next, Route, RouteDies, Pop, Resend, Step, Receive, Raised, DeadLetter, Ack, Act, SendResult,
         Log, Guard, Analyze, ReadFile, Dies, vars, history
<1> QED BY <1>1, <1>2, <1>3, ScanHeld DEF VerdictHeld
-----------------------------------------------------------------------------
\* A request of a job has one worker at most that is about to have it analyzed, and none once
\* it has been.
AtAnalyze(w, r) == run[w].pc = "analyze" /\ run[w].task.root = r
AnalyzedOnce ==
    job => \A r \in Roots :
        /\ \A w \in Workers : AtAnalyze(w, r) =>
               /\ r \in guarded /\ analyses[r] = 0
               /\ \A v \in Workers : AtAnalyze(v, r) => v = w
        /\ analyses[r] <= 1 /\ (analyses[r] > 0 => r \in guarded)

LEMMA AnalyzedStep ==
  ASSUME TypeInv, AnalyzedOnce, [Next]_vars
  PROVE  AnalyzedOnce'
<1>0. /\ run \in Runs /\ analyses \in [Roots -> Nat] /\ job' = job /\ TypeInv'
      /\ analyses' \in [Roots -> Nat]
  <2>1. job' = job
    BY DEF Next, Route, RouteDies, Pop, Resend, Step, Receive, Raised, DeadLetter, Ack, Scan, Act, SendResult,
           Log, Guard, Analyze, ReadFile, Dies, vars, setup
  <2> QED BY <2>1, TypeStep, TypesOf DEF TypeInv
<1> SUFFICES ASSUME job, NEW r \in Roots
             PROVE  (/\ \A w \in Workers : AtAnalyze(w, r) =>
                           /\ r \in guarded /\ analyses[r] = 0
                           /\ \A v \in Workers : AtAnalyze(v, r) => v = w
                     /\ analyses[r] <= 1 /\ (analyses[r] > 0 => r \in guarded))'
  BY <1>0 DEF AnalyzedOnce
<1>1. CASE Route \/ RouteDies \/ UNCHANGED vars
  BY <1>1 DEF Route, Pop, Resend, RouteDies, vars, setup, history, AnalyzedOnce, AtAnalyze
<1>2. ASSUME NEW w \in Workers, Guard(w)
      PROVE  /\ UNCHANGED analyses /\ guarded \subseteq guarded'
             /\ \A v \in Workers \ {w} : run'[v] = run[v]
             /\ AtAnalyze(w, r)' => r \notin guarded /\ r \in guarded'
  <2>1. /\ run'[w].task = run[w].task /\ \A v \in Workers \ {w} : run'[v] = run[v]
    BY <1>0, <1>2 DEF Guard, Goto, Runs
  <2>2. AtAnalyze(w, r)' => Root(w) = r /\ r \notin guarded /\ r \in guarded'
    BY <1>0, <1>2, <2>1 DEF Guard, Goto, AtAnalyze, Root, Runs
  <2> QED BY <1>2, <2>1, <2>2 DEF Guard, history
<1>3. ASSUME NEW w \in Workers, Analyze(w)
      PROVE  /\ UNCHANGED guarded /\ ~AtAnalyze(w, r)'
             /\ \A v \in Workers \ {w} : run'[v] = run[v]
             /\ analyses'[r] = analyses[r]
                  \/ (AtAnalyze(w, r) /\ analyses'[r] = analyses[r] + 1)
  <2>1. Goto(w, "ack") BY <1>3 DEF Analyze, Send
  <2>2. run'[w].pc = "ack" /\ \A v \in Workers \ {w} : run'[v] = run[v]
    BY <1>0, <2>1 DEF Goto, Runs
  <2>3. UNCHANGED guarded BY <1>3 DEF Analyze
  <2>4. ~AtAnalyze(w, r)' BY <2>2 DEF AtAnalyze
  <2>5. run[w].pc = "analyze" BY <1>3 DEF Analyze, At
  <2>6. analyses' \in {analyses, [analyses EXCEPT ![run[w].task.root] = @ + 1]}
    BY <1>3 DEF Analyze, Root
  <2>7. analyses'[r] = analyses[r] \/ (run[w].task.root = r /\ analyses'[r] = analyses[r] + 1)
    BY <1>0, <2>6
  <2>8. analyses'[r] = analyses[r] \/ (AtAnalyze(w, r) /\ analyses'[r] = analyses[r] + 1)
    BY <2>5, <2>7 DEF AtAnalyze
  <2> QED BY <2>2, <2>3, <2>4, <2>8
<1>4. ASSUME NEW w \in Workers, Step(w) \/ Dies(w), ~Guard(w), ~Analyze(w)
      PROVE  /\ UNCHANGED <<guarded, analyses>> /\ ~AtAnalyze(w, r)'
             /\ \A v \in Workers \ {w} : run'[v] = run[v]
  <2>1. UNCHANGED <<guarded, analyses>>
    BY <1>4 DEF Step, Receive, Raised, DeadLetter, Ack, Scan, Act, SendResult, Log, ReadFile, Dies, history
  <2>2. /\ run'[w].pc # "analyze" /\ \A v \in Workers \ {w} : run'[v] = run[v]
    <3>1. ASSUME NEW u \in BagToSet(queue), Receive(w, u) PROVE u.kind \in Kinds
      BY <3>1 DEF BagToSet, TypeInv, Tasks
    <3>2. CASE \E u \in BagToSet(queue) : Receive(w, u)
      BY <1>0, <3>1, <3>2 DEF Receive, Runs, Kinds
    <3>3. CASE Ack(w) \/ Dies(w) BY <1>0, <3>3 DEF Ack, Dies, Runs, Idle
    <3>4. \/ (\E u \in BagToSet(queue) : Receive(w, u)) \/ Ack(w) \/ Dies(w)
          \/ \E l \in Labels \ {"analyze"} : Goto(w, l)
      BY <1>4 DEF Step, Raised, DeadLetter, Scan, Act, SendResult, Send, Log, AfterLog, ReadFile, Labels, Kinds
    <3>5. ASSUME NEW l \in Labels \ {"analyze"}, Goto(w, l)
          PROVE  run'[w].pc # "analyze" /\ \A v \in Workers \ {w} : run'[v] = run[v]
      BY <1>0, <3>5 DEF Goto, Runs
    <3> QED BY <3>2, <3>3, <3>4, <3>5
  <2> QED BY <2>1, <2>2 DEF AtAnalyze
<1>5. ASSUME NEW w \in Workers, Step(w) \/ Dies(w)
      PROVE  (/\ \A v \in Workers : AtAnalyze(v, r) =>
                   /\ r \in guarded /\ analyses[r] = 0
                   /\ \A u \in Workers : AtAnalyze(u, r) => u = v
              /\ analyses[r] <= 1 /\ (analyses[r] > 0 => r \in guarded))'
  <2>1. CASE Guard(w) BY <1>0, <1>2, <2>1 DEF AnalyzedOnce, AtAnalyze
  <2>2. CASE Analyze(w) BY <1>0, <1>3, <2>2 DEF AnalyzedOnce, AtAnalyze
  <2>3. CASE ~Guard(w) /\ ~Analyze(w) BY <1>0, <1>4, <1>5, <2>3 DEF AnalyzedOnce, AtAnalyze
  <2> QED BY <2>1, <2>2, <2>3
<1> QED BY <1>1, <1>5 DEF Next
-----------------------------------------------------------------------------
\* Without deaths and sends that raise although they have sent, the request of a root, or its
\* verdict, is in one place until it is logged.  A failed scan's letter is a new request, an
\* analysis is none.
InQueue(t, r) == t \in DOMAIN queue /\ t.root = r /\ t.kind # "dianna"
InLetters(t, r) == t \in DOMAIN dlq /\ Carries(t, r)
AtRoute(r) == Carries(requeue, r)
Bears(s, r) ==
    /\ s.task.root = r
    /\ \/ s.pc \in {"scan", "verdict", "send", "result"}
       \/ s.pc = "raised" /\ s.task.kind # "dianna"
       \/ s.pc = "dead" /\ s.task.kind \in {"verdict", "result"}

NotQueued(r) == \A t \in Tasks : ~InQueue(t, r)
NoLetter(r) == \A t \in Tasks : ~InLetters(t, r)
Idles(r) == \A w \in Workers : ~Bears(run[w], r)

Nowhere(r) == NotQueued(r) /\ NoLetter(r) /\ ~AtRoute(r) /\ Idles(r)
OnlyQueued(t, r) ==
    /\ InQueue(t, r) /\ queue[t] = 1 /\ \A u \in Tasks : InQueue(u, r) => u = t
    /\ NoLetter(r) /\ ~AtRoute(r) /\ Idles(r)
OnlyLetter(t, r) ==
    /\ InLetters(t, r) /\ dlq[t] = 1 /\ \A u \in Tasks : InLetters(u, r) => u = t
    /\ NotQueued(r) /\ ~AtRoute(r) /\ Idles(r)
OnlyRoute(r) == AtRoute(r) /\ NotQueued(r) /\ NoLetter(r) /\ Idles(r)
OnlyWorker(w, r) ==
    /\ Bears(run[w], r) /\ \A v \in Workers : Bears(run[v], r) => v = w
    /\ NotQueued(r) /\ NoLetter(r) /\ ~AtRoute(r)

Sole(r) ==
    \/ logged[r] <= 1 /\ Nowhere(r)
    \/ /\ logged[r] = 0
       /\ \/ \E t \in Tasks : OnlyQueued(t, r) \/ OnlyLetter(t, r)
          \/ OnlyRoute(r)
          \/ \E w \in Workers : OnlyWorker(w, r)

\* Roots are given out in order.
Latest == IF requeue = NoTask THEN requeues + 1 ELSE requeues
Given ==
    /\ \A t \in DOMAIN queue \cup DOMAIN dlq \cup {requeue} : t.root <= Latest
    /\ \A w \in Workers : run[w].task.root <= Latest
    /\ \A r \in Roots : r > Latest => logged[r] = 0

NoRepeats == faults.death = 0 /\ faults.unsure = 0
SoleInv == NoRepeats => \A r \in Roots : Sole(r)

\* A step that does not touch what is there of a root.
Untouched(r) ==
    /\ \A t \in Tasks : /\ InQueue(t, r)' = InQueue(t, r)
                        /\ InQueue(t, r) => queue'[t] = queue[t]
                        /\ InLetters(t, r)' = InLetters(t, r)
                        /\ InLetters(t, r) => dlq'[t] = dlq[t]
    /\ AtRoute(r)' = AtRoute(r)
    /\ \A w \in Workers : Bears(run[w], r)' = Bears(run[w], r)
    /\ logged'[r] = logged[r]

LEMMA StandsStill ==
  ASSUME NEW r \in Roots
  PROVE  /\ UNCHANGED queue => \A t \in Tasks : /\ InQueue(t, r)' = InQueue(t, r)
                                                /\ InQueue(t, r) => queue'[t] = queue[t]
         /\ UNCHANGED dlq => \A t \in Tasks : /\ InLetters(t, r)' = InLetters(t, r)
                                              /\ InLetters(t, r) => dlq'[t] = dlq[t]
         /\ UNCHANGED run => \A w \in Workers : Bears(run[w], r)' = Bears(run[w], r)
<1>1. UNCHANGED queue => \A t \in Tasks : /\ InQueue(t, r)' = InQueue(t, r)
                                          /\ InQueue(t, r) => queue'[t] = queue[t]
  BY DEF InQueue
<1>2. UNCHANGED dlq => \A t \in Tasks : /\ InLetters(t, r)' = InLetters(t, r)
                                        /\ InLetters(t, r) => dlq'[t] = dlq[t]
  BY DEF InLetters
<1>3. UNCHANGED run => \A w \in Workers : Bears(run[w], r)' = Bears(run[w], r)
  BY DEF Bears
<1> QED BY <1>1, <1>2, <1>3

LEMMA UntouchedSole ==
  ASSUME NEW r \in Roots, Untouched(r), Sole(r)
  PROVE  Sole(r)'
<1>1. /\ NotQueued(r)' = NotQueued(r) /\ NoLetter(r)' = NoLetter(r)
      /\ AtRoute(r)' = AtRoute(r) /\ Idles(r)' = Idles(r)
  BY DEF Untouched, NotQueued, NoLetter, Idles
<1>2. Nowhere(r) => Nowhere(r)' BY <1>1 DEF Nowhere
<1>3. \A t \in Tasks : OnlyQueued(t, r) => OnlyQueued(t, r)' BY <1>1 DEF OnlyQueued, Untouched
<1>4. \A t \in Tasks : OnlyLetter(t, r) => OnlyLetter(t, r)' BY <1>1 DEF OnlyLetter, Untouched
<1>5. OnlyRoute(r) => OnlyRoute(r)' BY <1>1 DEF OnlyRoute
<1>6. \A w \in Workers : OnlyWorker(w, r) => OnlyWorker(w, r)' BY <1>1 DEF OnlyWorker, Untouched
<1>7. logged'[r] = logged[r] BY DEF Untouched
<1> QED BY <1>2, <1>3, <1>4, <1>5, <1>6, <1>7 DEF Sole

LEMMA OthersStay ==
  ASSUME NEW B, Bag(B), NEW u \in Tasks
  PROVE  /\ \A t \in Tasks \ {u} :
               /\ t \in DOMAIN BagAdd(B, u) <=> t \in DOMAIN B
               /\ t \in DOMAIN B => BagAdd(B, u)[t] = B[t]
         /\ u \in DOMAIN B => \A t \in Tasks \ {u} :
               /\ t \in DOMAIN BagRemove(B, u) <=> t \in DOMAIN B
               /\ t \in DOMAIN B => BagRemove(B, u)[t] = B[t]
<1>0. \A t \in DOMAIN B : B[t] \in Nat \ {0} BY DEF Bag
<1>1. DOMAIN BagAdd(B, u) = DOMAIN B \cup {u} /\ \A t \in DOMAIN B \ {u} : BagAdd(B, u)[t] = B[t]
  BY <1>0, Added
<1>2. u \in DOMAIN B => /\ DOMAIN B \ {u} \subseteq DOMAIN BagRemove(B, u)
                        /\ DOMAIN BagRemove(B, u) \subseteq DOMAIN B
                        /\ \A t \in DOMAIN B \ {u} : BagRemove(B, u)[t] = B[t]
  BY <1>0, Removed
<1> QED BY <1>1, <1>2

\* A bag that gains or loses another's task.
LEMMA QueueStays ==
  ASSUME TypeInv, NEW r \in Roots, NEW u \in Tasks, ~(u.root = r /\ u.kind # "dianna"),
         \/ queue' = BagAdd(queue, u)
         \/ u \in DOMAIN queue /\ queue' = BagRemove(queue, u)
  PROVE  \A t \in Tasks : /\ InQueue(t, r)' = InQueue(t, r)
                          /\ InQueue(t, r) => queue'[t] = queue[t]
<1>1. Bag(queue) BY TypesOf
<1>2. \A t \in Tasks \ {u} : /\ t \in DOMAIN queue' <=> t \in DOMAIN queue
                             /\ t \in DOMAIN queue => queue'[t] = queue[t]
  BY <1>1, OthersStay
<1> QED BY <1>2 DEF InQueue

LEMMA LettersStay ==
  ASSUME TypeInv, NEW r \in Roots, NEW u \in Tasks, ~Carries(u, r),
         \/ dlq' = BagAdd(dlq, u)
         \/ u \in DOMAIN dlq /\ dlq' = BagRemove(dlq, u)
  PROVE  \A t \in Tasks : /\ InLetters(t, r)' = InLetters(t, r)
                          /\ InLetters(t, r) => dlq'[t] = dlq[t]
<1>1. Bag(dlq) BY TypesOf
<1>2. \A t \in Tasks \ {u} : /\ t \in DOMAIN dlq' <=> t \in DOMAIN dlq
                             /\ t \in DOMAIN dlq => dlq'[t] = dlq[t]
  BY <1>1, OthersStay
<1> QED BY <1>2 DEF InLetters, Carries

\* A worker that does not bear a root, nor receives it, leaves it alone.
LEMMA StepUntouched ==
  ASSUME TypeInv, NEW w \in Workers, Step(w), NEW r \in Roots,
         ~Bears(run[w], r), \A u \in Tasks : InQueue(u, r) => ~Receive(w, u)
  PROVE  Untouched(r)
<1> DEFINE t == run[w].task
           SameQueue == \A u \in Tasks : /\ InQueue(u, r)' = InQueue(u, r)
                                         /\ InQueue(u, r) => queue'[u] = queue[u]
           SameLetters == \A u \in Tasks : /\ InLetters(u, r)' = InLetters(u, r)
                                           /\ InLetters(u, r) => dlq'[u] = dlq[u]
<1>0. /\ run \in Runs /\ Fits(run[w]) /\ logged \in [Roots -> Nat] /\ Bag(queue)
      /\ t \in Tasks \/ run[w] = Idle
  BY TypesOf DEF TypeInv, Fits
<1>1. \A v \in Workers \ {w} : run'[v] = run[v]
  BY <1>0 DEF Step, Receive, Raised, DeadLetter, Ack, Scan, Act, SendResult, Send, Log, Guard, Analyze,
              ReadFile, Goto, Runs
<1>2. requeue' = requeue
  BY DEF Step, Receive, Raised, DeadLetter, Ack, Scan, Act, SendResult, Log, Guard, Analyze, ReadFile
<1>3. UNCHANGED queue => SameQueue BY DEF InQueue
<1>4. UNCHANGED dlq => SameLetters BY DEF InLetters
<1>5. \A l : At(w, l) /\ l # "idle" => t \in Tasks /\ Root(w) = t.root /\ Root(w) \in Roots
  BY <1>0 DEF At, Root, Idle, Tasks
<1>6. \A l : Goto(w, l) => run'[w] = [pc |-> l, task |-> t] BY GoesOn
<1> HIDE DEF t, SameQueue, SameLetters
<1> SUFFICES SameQueue /\ SameLetters /\ ~Bears(run'[w], r) /\ logged'[r] = logged[r]
  BY <1>1, <1>2 DEF Untouched, SameQueue, SameLetters, AtRoute, Carries, Bears
<1>7. ~Log(w) => logged' = logged
  BY DEF Step, Receive, Raised, DeadLetter, Ack, Scan, Act, SendResult, Guard, Analyze, ReadFile, history
<1>8. ASSUME NEW u \in BagToSet(queue), Receive(w, u)
      PROVE  SameQueue /\ SameLetters /\ ~Bears(run'[w], r)
  <2>1. u \in DOMAIN queue /\ u \in Tasks BY <1>0, <1>8 DEF BagToSet, Bag
  <2>2. ~(u.root = r /\ u.kind # "dianna") BY <1>8, <2>1 DEF InQueue
  <2>3. SameQueue BY <1>8, <2>1, <2>2, QueueStays DEF Receive, SameQueue
  <2>4. run'[w] = [pc |-> u.kind, task |-> u] BY <1>0, <1>8 DEF Receive, Runs
  <2>5. ~Bears(run'[w], r) BY <2>2, <2>4 DEF Bears
  <2>6. UNCHANGED dlq BY <1>8 DEF Receive
  <2> QED BY <1>4, <2>3, <2>5, <2>6
<1>9. CASE Raised(w)
  <2>1. t \in Tasks /\ ~(t.root = r /\ t.kind # "dianna")
    BY <1>5, <1>9 DEF Raised, At, Bears, t
  <2> DEFINE u == [t EXCEPT !.retries = @ + 1]
  <2>2. u \in Tasks /\ u.root = t.root /\ u.kind = t.kind BY <2>1 DEF Tasks
  <2>3. queue' = BagAdd(queue, u) \/ UNCHANGED queue BY <1>9 DEF Raised, t
  <2> HIDE DEF u
  <2>4. SameQueue BY <1>3, <2>1, <2>2, <2>3, QueueStays DEF SameQueue
  <2>5. run'[w] = [pc |-> "ack", task |-> t] \/ run'[w] = [pc |-> "dead", task |-> t]
    BY <1>6, <1>9 DEF Raised
  <2>6. ~Bears(run'[w], r) BY <2>1, <2>5 DEF Bears
  <2>7. UNCHANGED <<dlq, logged>> BY <1>9 DEF Raised, history
  <2> QED BY <1>4, <2>4, <2>6, <2>7
<1>10. CASE DeadLetter(w)
  <2>1. t \in Tasks /\ ~Carries(t, r) BY <1>5, <1>10 DEF DeadLetter, At, Bears, t, Carries
  <2>2. Letter(t) \in Tasks /\ ~Carries(Letter(t), r)
    BY <2>1, NewTask DEF Letter, Tasks, Kinds, Carries
  <2>3. dlq' = BagAdd(dlq, Letter(t)) \/ UNCHANGED dlq BY <1>10 DEF DeadLetter, t
  <2>4. SameLetters BY <1>4, <2>2, <2>3, LettersStay DEF SameLetters
  <2>5. run'[w] = [pc |-> "ack", task |-> t] BY <1>6, <1>10 DEF DeadLetter
  <2>6. ~Bears(run'[w], r) BY <2>5 DEF Bears
  <2>7. UNCHANGED <<queue, logged>> BY <1>10 DEF DeadLetter
  <2> QED BY <1>3, <2>4, <2>6, <2>7
<1>11. CASE Ack(w)
  <2>1. run'[w] = Idle BY <1>0, <1>11 DEF Ack, Runs
  <2>2. ~Bears(run'[w], r) BY <2>1 DEF Bears, Idle
  <2>3. UNCHANGED <<queue, dlq, logged>> BY <1>11 DEF Ack, history
  <2> QED BY <1>3, <1>4, <2>2, <2>3
<1>12. CASE Scan(w) \/ SendResult(w)
  <2>1. Root(w) # r /\ Root(w) \in Roots
    BY <1>5, <1>12 DEF Scan, SendResult, At, Bears, t
  <2>2. \E k \in Kinds : queue' = BagAdd(queue, Task(k, Root(w))) \/ UNCHANGED queue
    BY <1>12 DEF Scan, SendResult, Send, Kinds
  <2>3. SameQueue BY <1>3, <2>1, <2>2, QueueStays, NewTask DEF SameQueue
  <2>4. \E l : run'[w] = [pc |-> l, task |-> t] BY <1>6, <1>12 DEF Scan, SendResult, Send
  <2>5. t.root # r BY <1>5, <1>12, <2>1 DEF Scan, SendResult
  <2>6. ~Bears(run'[w], r) BY <2>4, <2>5 DEF Bears
  <2>7. UNCHANGED <<dlq, logged>> BY <1>12 DEF Scan, SendResult, history
  <2> QED BY <1>4, <2>3, <2>6, <2>7
<1>13. CASE Act(w) \/ Log(w)
  <2>1. Root(w) # r /\ t.root # r BY <1>5, <1>13 DEF Act, Log, At, Bears, t
  <2>2. \E l : run'[w] = [pc |-> l, task |-> t] BY <1>6, <1>13 DEF Act, Log
  <2>3. logged'[r] = logged[r] BY <1>0, <1>7, <1>13, <2>1 DEF Log
  <2>4. ~Bears(run'[w], r) BY <2>1, <2>2 DEF Bears
  <2>5. UNCHANGED <<queue, dlq>> BY <1>13 DEF Act, Log
  <2> QED BY <1>3, <1>4, <2>3, <2>4, <2>5
<1>14. CASE Guard(w) \/ ReadFile(w)
  <2>1. \/ run'[w] \in {[pc |-> "ack", task |-> t], [pc |-> "analyze", task |-> t]}
        \/ t.kind = "dianna" /\ run'[w] \in {[pc |-> "raised", task |-> t], [pc |-> "dead", task |-> t]}
    BY <1>0, <1>6, <1>14 DEF Guard, ReadFile, At, Fits, Kinds, t
  <2>2. ~Bears(run'[w], r) BY <2>1 DEF Bears
  <2>3. UNCHANGED <<queue, dlq, logged>> BY <1>14 DEF Guard, ReadFile, history
  <2> QED BY <1>3, <1>4, <2>2, <2>3
<1>15. CASE Analyze(w)
  <2> DEFINE u == Task("dianna", Root(w))
  <2>1. u \in Tasks /\ u.kind = "dianna" BY <1>5, <1>15, NewTask DEF Analyze, Kinds
  <2>2. (queue' = BagAdd(queue, u) \/ UNCHANGED queue) /\ run'[w] = [pc |-> "ack", task |-> t]
    BY <1>6, <1>15 DEF Analyze, Send
  <2> HIDE DEF u
  <2>3. SameQueue BY <1>3, <2>1, <2>2, QueueStays DEF SameQueue
  <2>4. ~Bears(run'[w], r) BY <2>2 DEF Bears
  <2>5. UNCHANGED <<dlq, logged>> BY <1>15 DEF Analyze
  <2> QED BY <1>4, <2>3, <2>4, <2>5
<1> QED BY <1>7, <1>8, <1>9, <1>10, <1>11, <1>12, <1>13, <1>14, <1>15 DEF Step

\* A task that comes into a bag, while it is nowhere else.
LEMMA Arrives ==
  ASSUME TypeInv, NEW r \in Roots, NEW u \in Tasks, NotQueued(r), NoLetter(r),
         ~AtRoute(r)', Idles(r)', logged'[r] = 0
  PROVE  /\ u.root = r /\ u.kind # "dianna" /\ queue' = BagAdd(queue, u) /\ UNCHANGED dlq => Sole(r)'
         /\ Carries(u, r) /\ dlq' = BagAdd(dlq, u) /\ UNCHANGED queue => Sole(r)'
<1>0. Bag(queue) /\ Bag(dlq) BY TypesOf
<1>1. UNCHANGED queue => NotQueued(r)' BY DEF NotQueued, InQueue
<1>2. UNCHANGED dlq => NoLetter(r)' BY DEF NoLetter, InLetters, Carries
<1>3. ASSUME u.root = r, u.kind # "dianna", queue' = BagAdd(queue, u), UNCHANGED dlq
      PROVE  Sole(r)'
  <2>1. u \notin DOMAIN queue BY <1>3 DEF NotQueued, InQueue
  <2>2. \A t \in DOMAIN queue : queue[t] \in Nat \ {0} BY <1>0 DEF Bag
  <2>3. DOMAIN BagAdd(queue, u) = DOMAIN queue \cup {u} /\ BagAdd(queue, u)[u] = 1
    BY <2>1, <2>2, Added
  <2>4. InQueue(u, r)' /\ queue'[u] = 1 /\ \A t \in Tasks : InQueue(t, r)' => t = u
    BY <1>3, <2>3 DEF NotQueued, InQueue
  <2>5. OnlyQueued(u, r)' BY <1>2, <1>3, <2>4 DEF OnlyQueued
  <2> QED BY <2>5 DEF Sole
<1>4. ASSUME Carries(u, r), dlq' = BagAdd(dlq, u), UNCHANGED queue PROVE Sole(r)'
  <2>1. u \notin DOMAIN dlq BY <1>4 DEF NoLetter, InLetters
  <2>2. \A t \in DOMAIN dlq : dlq[t] \in Nat \ {0} BY <1>0 DEF Bag
  <2>3. DOMAIN BagAdd(dlq, u) = DOMAIN dlq \cup {u} /\ BagAdd(dlq, u)[u] = 1
    BY <2>1, <2>2, Added
  <2>4. InLetters(u, r)' /\ dlq'[u] = 1 /\ \A t \in Tasks : InLetters(t, r)' => t = u
    BY <1>4, <2>3 DEF NoLetter, InLetters, Carries
  <2>5. OnlyLetter(u, r)' BY <1>1, <1>4, <2>4 DEF OnlyLetter
  <2> QED BY <2>5 DEF Sole
<1> QED BY <1>3, <1>4

\* What the only worker that bears a root may do with it: keep it, queue it, make it a letter
\* or log it.
LEMMA BearerMoves ==
  ASSUME TypeInv, NEW w \in Workers, NEW r \in Roots, OnlyWorker(w, r), logged[r] = 0,
         \A v \in Workers \ {w} : run'[v] = run[v], requeue' = requeue
  PROVE  /\ Bears(run'[w], r) /\ UNCHANGED <<queue, dlq, logged>> => Sole(r)'
         /\ \A u \in Tasks :
              u.root = r /\ u.kind # "dianna" /\ queue' = BagAdd(queue, u)
                /\ ~Bears(run'[w], r) /\ UNCHANGED <<dlq, logged>> => Sole(r)'
         /\ \A u \in Tasks :
              Carries(u, r) /\ dlq' = BagAdd(dlq, u)
                /\ ~Bears(run'[w], r) /\ UNCHANGED <<queue, logged>> => Sole(r)'
         /\ ~Bears(run'[w], r) /\ logged'[r] <= 1 /\ UNCHANGED <<queue, dlq>> => Sole(r)'
<1>0. /\ NotQueued(r) /\ NoLetter(r) /\ ~AtRoute(r) /\ ~AtRoute(r)'
      /\ \A v \in Workers \ {w} : ~Bears(run[v], r) /\ ~Bears(run'[v], r)
      /\ Bag(queue) /\ Bag(dlq)
  BY TypesOf DEF OnlyWorker, AtRoute, Carries
<1>1. UNCHANGED queue => NotQueued(r)' BY <1>0 DEF NotQueued, InQueue
<1>2. UNCHANGED dlq => NoLetter(r)' BY <1>0 DEF NoLetter, InLetters, Carries
<1>3. ~Bears(run'[w], r) => Idles(r)' BY <1>0 DEF Idles
<1>4. ASSUME Bears(run'[w], r), UNCHANGED <<queue, dlq, logged>> PROVE Sole(r)'
  <2>1. OnlyWorker(w, r)' BY <1>0, <1>1, <1>2, <1>4 DEF OnlyWorker
  <2> QED BY <1>4, <2>1 DEF Sole
<1>5. ASSUME NEW u \in Tasks, u.root = r, u.kind # "dianna", queue' = BagAdd(queue, u),
             ~Bears(run'[w], r), UNCHANGED <<dlq, logged>>
      PROVE  Sole(r)'
  <2>1. logged'[r] = 0 BY <1>5
  <2> QED BY <1>0, <1>3, <1>5, <2>1, Arrives
<1>6. ASSUME NEW u \in Tasks, Carries(u, r), dlq' = BagAdd(dlq, u),
             ~Bears(run'[w], r), UNCHANGED <<queue, logged>>
      PROVE  Sole(r)'
  <2>1. logged'[r] = 0 BY <1>6
  <2> QED BY <1>0, <1>3, <1>6, <2>1, Arrives
<1>7. ASSUME ~Bears(run'[w], r), logged'[r] <= 1, UNCHANGED <<queue, dlq>> PROVE Sole(r)'
  BY <1>0, <1>1, <1>2, <1>3, <1>7 DEF Sole, Nowhere
<1> QED BY <1>4, <1>5, <1>6, <1>7

LEMMA BearerStep ==
  ASSUME TypeInv, NEW w \in Workers, Step(w), NEW r \in Roots,
         OnlyWorker(w, r), logged[r] = 0, NoRepeats'
  PROVE  Sole(r)'
<1> DEFINE t == run[w].task
<1>0. /\ run \in Runs /\ Fits(run[w]) /\ logged \in [Roots -> Nat]
      /\ t \in Tasks /\ Bears(run[w], r) /\ t.root = r /\ Root(w) = r
      /\ run[w].pc \in {"scan", "verdict", "send", "result", "raised", "dead"}
  BY TypesOf DEF TypeInv, Fits, OnlyWorker, Bears, Idle, Root
<1>1. \A v \in Workers \ {w} : run'[v] = run[v]
  BY <1>0 DEF Step, Receive, Raised, DeadLetter, Ack, Scan, Act, SendResult, Send, Log, Guard, Analyze,
              ReadFile, Goto, Runs
<1>2. requeue' = requeue
  BY DEF Step, Receive, Raised, DeadLetter, Ack, Scan, Act, SendResult, Log, Guard, Analyze, ReadFile
<1>3. \A l : Goto(w, l) => run'[w] = [pc |-> l, task |-> t] BY GoesOn
<1>4. ~Fault("unsure") BY DEF NoRepeats, Fault, TypeInv
<1> HIDE DEF t
<1>5. \A l \in {"ack", "guard"} : ~Bears([pc |-> l, task |-> t], r) BY DEF Bears
<1>6. CASE Raised(w)
  <2> DEFINE u == [t EXCEPT !.retries = @ + 1]
  <2>1. t.kind # "dianna" BY <1>0, <1>6 DEF Raised, At, Bears, t
  <2>2. u \in Tasks /\ u.root = r /\ u.kind # "dianna" BY <1>0, <2>1 DEF Tasks
  <2>3. \/ queue' = BagAdd(queue, u) /\ run'[w] = [pc |-> "ack", task |-> t]
        \/ UNCHANGED queue /\ run'[w] = [pc |-> "ack", task |-> t]
        \/ UNCHANGED queue /\ run'[w] = [pc |-> "dead", task |-> t]
    BY <1>3, <1>6 DEF Raised, t
  <2>4. UNCHANGED <<dlq, logged>> BY <1>6 DEF Raised, history
  <2> HIDE DEF u
  <2>5. CASE queue' = BagAdd(queue, u) /\ run'[w] = [pc |-> "ack", task |-> t]
    BY <1>1, <1>2, <1>5, <2>2, <2>4, <2>5, BearerMoves
  <2>7. CASE UNCHANGED queue /\ run'[w] = [pc |-> "ack", task |-> t]
    <3>1. logged'[r] <= 1 BY <2>4
    <3> QED BY <1>1, <1>2, <1>5, <2>4, <2>7, <3>1, BearerMoves
  <2>6. CASE UNCHANGED queue /\ run'[w] = [pc |-> "dead", task |-> t]
    <3>1. CASE t.kind \in {"verdict", "result"}
      <4>1. Bears(run'[w], r) BY <1>0, <2>6, <3>1 DEF Bears
      <4> QED BY <1>1, <1>2, <2>4, <2>6, <4>1, BearerMoves
    <3>2. CASE t.kind \notin {"verdict", "result"}
      <4>1. ~Bears(run'[w], r) BY <2>6, <3>2 DEF Bears
      <4>2. logged'[r] <= 1 BY <2>4
      <4> QED BY <1>1, <1>2, <2>4, <2>6, <4>1, <4>2, BearerMoves
    <3> QED BY <3>1, <3>2
  <2> QED BY <2>3, <2>5, <2>6, <2>7
<1>7. CASE DeadLetter(w)
  <2>1. t.kind \in {"verdict", "result"} BY <1>0, <1>7 DEF DeadLetter, At, Bears, t
  <2>2. Letter(t) \in Tasks /\ Carries(Letter(t), r)
    BY <1>0, <2>1, NewTask DEF Letter, Kinds, Carries
  <2>3. run'[w] = [pc |-> "ack", task |-> t] /\ UNCHANGED <<queue, logged>>
    BY <1>3, <1>7 DEF DeadLetter
  <2>4. CASE dlq' = BagAdd(dlq, Letter(t))
    BY <1>1, <1>2, <1>5, <2>2, <2>3, <2>4, BearerMoves
  <2>5. CASE UNCHANGED dlq
    <3>1. logged'[r] <= 1 BY <2>3
    <3> QED BY <1>1, <1>2, <1>5, <2>3, <2>5, <3>1, BearerMoves
  <2> QED BY <1>7, <2>4, <2>5 DEF DeadLetter, t
<1>8. ASSUME NEW k \in {"verdict", "result"}, Send(w, Task(k, r), "ack", "dead"),
             t.kind = "verdict" \/ t.kind = "scan", UNCHANGED <<dlq, logged>>
      PROVE  Sole(r)'
  <2> DEFINE u == Task(k, r)
  <2>1. u \in Tasks /\ u.root = r /\ u.kind # "dianna" BY NewTask DEF Kinds
  <2>2. \/ queue' = BagAdd(queue, u) /\ run'[w] = [pc |-> "ack", task |-> t]
        \/ UNCHANGED queue /\ run'[w] = [pc |-> "dead", task |-> t]
    BY <1>3, <1>4, <1>8 DEF Send
  <2> HIDE DEF u
  <2>5. CASE queue' = BagAdd(queue, u) /\ run'[w] = [pc |-> "ack", task |-> t]
    BY <1>1, <1>2, <1>5, <1>8, <2>1, <2>5, BearerMoves
  <2>6. CASE UNCHANGED queue /\ run'[w] = [pc |-> "dead", task |-> t]
    <3>1. CASE t.kind = "verdict"
      <4>1. Bears(run'[w], r) BY <1>0, <2>6, <3>1 DEF Bears
      <4> QED BY <1>1, <1>2, <1>8, <2>6, <4>1, BearerMoves
    <3>2. CASE t.kind = "scan"
      <4>1. ~Bears(run'[w], r) BY <2>6, <3>2 DEF Bears
      <4>2. logged'[r] <= 1 BY <1>8
      <4> QED BY <1>1, <1>2, <1>8, <2>6, <4>1, <4>2, BearerMoves
    <3> QED BY <1>8, <3>1, <3>2
  <2> QED BY <2>2, <2>5, <2>6
<1>9. CASE Scan(w)
  <2>1. t.kind = "scan" BY <1>0, <1>9 DEF Scan, At, Fits, Kinds, t
  <2>2. UNCHANGED <<dlq, logged>> BY <1>9 DEF Scan
  <2>3. CASE Send(w, Task("verdict", Root(w)), "ack", "dead") BY <1>0, <1>8, <2>1, <2>2, <2>3
  <2>4. CASE UNCHANGED queue /\ run'[w] = [pc |-> "raised", task |-> t]
    <3>1. Bears(run'[w], r) BY <1>0, <2>1, <2>4 DEF Bears
    <3> QED BY <1>1, <1>2, <2>2, <2>4, <3>1, BearerMoves
  <2>5. CASE UNCHANGED queue /\ run'[w] = [pc |-> "dead", task |-> t]
    <3>1. ~Bears(run'[w], r) BY <2>1, <2>5 DEF Bears
    <3>2. logged'[r] <= 1 BY <2>2
    <3> QED BY <1>1, <1>2, <2>2, <2>5, <3>1, <3>2, BearerMoves
  <2> QED BY <1>3, <1>9, <2>3, <2>4, <2>5 DEF Scan
<1>10. CASE SendResult(w)
  <2>1. t.kind = "verdict" BY <1>0, <1>10 DEF SendResult, At, Fits, t
  <2>2. UNCHANGED <<dlq, logged>> BY <1>10 DEF SendResult, history
  <2> QED BY <1>0, <1>8, <1>10, <2>1, <2>2 DEF SendResult
<1>11. CASE Act(w)
  <2>1. t.kind = "verdict" BY <1>0, <1>11 DEF Act, At, Fits, Kinds, t
  <2>2. UNCHANGED <<queue, dlq, logged>> BY <1>11 DEF Act, history
  <2>3. run'[w] = [pc |-> "send", task |-> t] \/ run'[w] = [pc |-> "dead", task |-> t]
    BY <1>3, <1>11 DEF Act
  <2>4. Bears(run'[w], r) BY <1>0, <2>1, <2>3 DEF Bears
  <2> QED BY <1>1, <1>2, <2>2, <2>4, BearerMoves
<1>12. CASE Log(w)
  <2>1. t.kind = "result" BY <1>0, <1>12 DEF Log, At, Fits, Kinds, t
  <2>2. UNCHANGED <<queue, dlq>> BY <1>12 DEF Log
  <2>3. CASE logged' = [logged EXCEPT ![Root(w)] = @ + 1] /\ Goto(w, AfterLog)
    <3>1. logged'[r] <= 1 BY <1>0, <2>3
    <3>2. ~Bears(run'[w], r) BY <1>3, <1>5, <2>3 DEF AfterLog
    <3> QED BY <1>1, <1>2, <2>2, <3>1, <3>2, BearerMoves
  <2>4. CASE UNCHANGED logged /\ Goto(w, "raised")
    <3>1. run'[w] = [pc |-> "raised", task |-> t] BY <1>3, <2>4
    <3>2. Bears(run'[w], r) BY <1>0, <2>1, <3>1 DEF Bears
    <3> QED BY <1>1, <1>2, <2>2, <2>4, <3>2, BearerMoves
  <2> QED BY <1>12, <2>3, <2>4 DEF Log
<1>13. ~(Ack(w) \/ Guard(w) \/ Analyze(w) \/ ReadFile(w) \/ \E u \in BagToSet(queue) : Receive(w, u))
  BY <1>0 DEF Ack, Guard, Analyze, ReadFile, Receive, At
<1> QED BY <1>6, <1>7, <1>9, <1>10, <1>11, <1>12, <1>13 DEF Step

LEMMA ReceiveStep ==
  ASSUME TypeInv, NEW w \in Workers, NEW r \in Roots, NEW t \in Tasks, InQueue(t, r), Sole(r),
         Receive(w, t)
  PROVE  Sole(r)'
<1>1. OnlyQueued(t, r) /\ logged[r] = 0
  BY DEF Sole, Nowhere, NotQueued, OnlyQueued, OnlyLetter, OnlyRoute, OnlyWorker
<1>2. Bag(queue) /\ run \in Runs /\ UNCHANGED <<dlq, requeue, logged>>
  BY TypesOf DEF Receive, history
<1>3. run'[w] = [pc |-> t.kind, task |-> t] /\ \A v \in Workers \ {w} : run'[v] = run[v]
  BY <1>2 DEF Receive, Runs
<1>4. t.root = r /\ t.kind \in {"scan", "verdict", "result"} BY DEF InQueue, Tasks, Kinds
<1>5. Bears(run'[w], r) BY <1>3, <1>4 DEF Bears
<1>6. \A v \in Workers : Bears(run'[v], r) => v = w BY <1>1, <1>3 DEF OnlyQueued, Idles
<1>7. t \notin DOMAIN queue' /\ DOMAIN queue' \subseteq DOMAIN queue
  <2>1. t \in DOMAIN queue /\ queue[t] = 1 BY <1>1 DEF OnlyQueued, InQueue
  <2>2. \A u \in DOMAIN queue : queue[u] \in Nat \ {0} BY <1>2 DEF Bag
  <2>3. t \notin DOMAIN BagRemove(queue, t) /\ DOMAIN BagRemove(queue, t) \subseteq DOMAIN queue
    BY <2>1, <2>2, Removed
  <2> QED BY <2>3 DEF Receive
<1>8. NotQueued(r)' BY <1>1, <1>7 DEF NotQueued, OnlyQueued, InQueue
<1>9. NoLetter(r)' /\ ~AtRoute(r)' BY <1>1, <1>2 DEF OnlyQueued, NoLetter, InLetters, AtRoute, Carries
<1>10. OnlyWorker(w, r)' BY <1>5, <1>6, <1>8, <1>9 DEF OnlyWorker
<1> QED BY <1>1, <1>2, <1>10 DEF Sole

LEMMA PopStep ==
  ASSUME TypeInv, NEW r \in Roots, Sole(r), NEW t \in BagToSet(dlq), Pop(t)
  PROVE  Sole(r)'
<1>0. /\ Bag(dlq) /\ t \in DOMAIN dlq /\ t \in Tasks /\ requeue = NoTask /\ requeue' = t
      /\ dlq' = BagRemove(dlq, t) /\ UNCHANGED <<queue, run, logged>>
  BY TypesOf DEF Pop, BagToSet, Bag, history
<1>1. CASE ~Carries(t, r)
  <2>1. \A u \in Tasks : /\ InLetters(u, r)' = InLetters(u, r)
                         /\ InLetters(u, r) => dlq'[u] = dlq[u]
    BY <1>0, <1>1, LettersStay
  <2>2. ~AtRoute(r) /\ ~AtRoute(r)' BY <1>0, <1>1 DEF AtRoute, Carries, NoTask, Task
  <2>3. \A u \in Tasks : InQueue(u, r)' = InQueue(u, r) /\ (InQueue(u, r) => queue'[u] = queue[u])
    BY <1>0, StandsStill
  <2>4. \A w \in Workers : Bears(run[w], r)' = Bears(run[w], r) BY <1>0, StandsStill
  <2>5. logged'[r] = logged[r] BY <1>0
  <2>6. AtRoute(r)' = AtRoute(r) BY <1>0, <1>1 DEF AtRoute, Carries, NoTask, Task
  <2>7. Untouched(r) BY <2>1, <2>3, <2>4, <2>5, <2>6 DEF Untouched
  <2> QED BY <2>7, UntouchedSole
<1>2. CASE Carries(t, r)
  <2>1. OnlyLetter(t, r) /\ logged[r] = 0
    BY <1>0, <1>2 DEF Sole, Nowhere, NoLetter, InLetters, OnlyQueued, OnlyLetter, OnlyRoute, OnlyWorker
  <2>2. dlq[t] = 1 BY <2>1 DEF OnlyLetter
  <2>3. \A u \in DOMAIN dlq : dlq[u] \in Nat \ {0} BY <1>0 DEF Bag
  <2>4. t \notin DOMAIN dlq' /\ DOMAIN dlq' \subseteq DOMAIN dlq BY <1>0, <2>2, <2>3, Removed
  <2>5. NoLetter(r)' BY <2>1, <2>4 DEF NoLetter, OnlyLetter, InLetters, Carries
  <2>6. NotQueued(r)' /\ Idles(r)' BY <1>0, <2>1 DEF OnlyLetter, NotQueued, Idles, InQueue, Bears
  <2>7. AtRoute(r)' BY <1>0, <1>2 DEF AtRoute, Carries
  <2>8. OnlyRoute(r)' BY <2>5, <2>6, <2>7 DEF OnlyRoute
  <2> QED BY <1>0, <2>1, <2>8 DEF Sole
<1> QED BY <1>1, <1>2

LEMMA ResendStep ==
  ASSUME TypeInv, Given, NEW r \in Roots, Sole(r), Resend, NoRepeats'
  PROVE  Sole(r)'
<1> DEFINE u == Again(requeue)
<1>0. /\ requeue \in Tasks /\ requeue' = NoTask /\ UNCHANGED <<run, logged>>
      /\ requeues \in 0 .. MaxRequeues /\ run \in Runs
  BY TypesOf DEF Resend, history
<1>1. requeues + 1 \in Roots BY <1>0, ResultAssumption DEF Roots
<1>2. u \in Tasks BY <1>0, <1>1, NewTask DEF Again, Kinds
<1>3. ~Fault("unsure") BY DEF NoRepeats, Fault, TypeInv
<1>4. \/ queue' = BagAdd(queue, u) /\ UNCHANGED dlq
      \/ UNCHANGED queue /\ dlq' = BagAdd(dlq, requeue)
  BY <1>3 DEF Resend
<1>5. ~AtRoute(r)' BY <1>0 DEF AtRoute, Carries, NoTask, Task
<1>6. CASE AtRoute(r)
  <2>1. OnlyRoute(r) /\ logged[r] = 0
    BY <1>6 DEF Sole, Nowhere, OnlyQueued, OnlyLetter, OnlyRoute, OnlyWorker
  <2>2. u = requeue /\ requeue.root = r /\ requeue.kind # "dianna" /\ Carries(requeue, r)
    BY <1>6 DEF AtRoute, Carries, Again
  <2>3. NotQueued(r) /\ NoLetter(r) /\ Idles(r)' /\ logged'[r] = 0
    BY <1>0, <2>1 DEF OnlyRoute, Idles, Bears
  <2> QED BY <1>0, <1>4, <1>5, <2>2, <2>3, Arrives
<1>7. CASE ~AtRoute(r) /\ queue' = BagAdd(queue, u) /\ UNCHANGED dlq /\ u.root = r /\ u.kind # "dianna"
  <2>1. r = requeues + 1 \/ (u = requeue /\ requeue.kind = "dianna") \/ (u = requeue /\ requeue.kind = "scan")
    BY <1>0, <1>2, <1>7 DEF Again, Task, AtRoute, Carries, Tasks, Kinds
  <2>2. r = requeues + 1 BY <1>7, <2>1 DEF Again, Task
  <2>3. Latest = requeues BY <1>0, NoneTask DEF Latest
  <2>4. r > Latest BY <1>0, <2>2, <2>3
  <2>5. Latest \in Int BY <1>0, <2>3
  <2>6. \A t \in Tasks : t \in DOMAIN queue \/ t \in DOMAIN dlq => t.root # r
    BY <2>4, <2>5 DEF Given, Tasks, Roots
  <2>7. NotQueued(r) /\ NoLetter(r) BY <2>6 DEF NotQueued, NoLetter, InQueue, InLetters, Carries
  <2>8. logged'[r] = 0 BY <1>0, <2>4 DEF Given
  <2>9. Idles(r)'
    <3>1. \A w \in Workers : run[w].task.root # r BY <2>4, <2>5 DEF Given, Roots
    <3> QED BY <1>0, <3>1 DEF Idles, Bears
  <2> HIDE DEF u
  <2> QED BY <1>2, <1>5, <1>7, <2>7, <2>8, <2>9, Arrives
<1>8. CASE ~AtRoute(r) /\ queue' = BagAdd(queue, u) /\ UNCHANGED dlq /\ ~(u.root = r /\ u.kind # "dianna")
  <2> HIDE DEF u
  <2>1. \A t \in Tasks : /\ InQueue(t, r)' = InQueue(t, r)
                         /\ InQueue(t, r) => queue'[t] = queue[t]
    BY <1>2, <1>8, QueueStays
  <2>2. \A t \in Tasks : InLetters(t, r)' = InLetters(t, r) /\ (InLetters(t, r) => dlq'[t] = dlq[t])
    BY <1>8, StandsStill
  <2>3. \A w \in Workers : Bears(run[w], r)' = Bears(run[w], r) BY <1>0, StandsStill
  <2>4. AtRoute(r)' = AtRoute(r) BY <1>0, <1>8 DEF AtRoute, Carries, NoTask, Task
  <2>5. logged'[r] = logged[r] BY <1>0
  <2>6. Untouched(r) BY <2>1, <2>2, <2>3, <2>4, <2>5 DEF Untouched
  <2> QED BY <2>6, UntouchedSole
<1>9. CASE ~AtRoute(r) /\ UNCHANGED queue /\ dlq' = BagAdd(dlq, requeue)
  <2>1. \A t \in Tasks : /\ InLetters(t, r)' = InLetters(t, r)
                         /\ InLetters(t, r) => dlq'[t] = dlq[t]
    BY <1>0, <1>9, LettersStay DEF AtRoute
  <2>2. \A t \in Tasks : InQueue(t, r)' = InQueue(t, r) /\ (InQueue(t, r) => queue'[t] = queue[t])
    BY <1>9, StandsStill
  <2>3. \A w \in Workers : Bears(run[w], r)' = Bears(run[w], r) BY <1>0, StandsStill
  <2>4. AtRoute(r)' = AtRoute(r) BY <1>0, <1>9 DEF AtRoute, Carries, NoTask, Task
  <2>5. logged'[r] = logged[r] BY <1>0
  <2>6. Untouched(r) BY <2>1, <2>2, <2>3, <2>4, <2>5 DEF Untouched
  <2> QED BY <2>6, UntouchedSole
<1> QED BY <1>4, <1>6, <1>7, <1>8, <1>9

LEMMA SoleStep ==
  ASSUME TypeInv, Given, SoleInv, [Next]_vars
  PROVE  SoleInv'
<1>0. NoRepeats' => NoRepeats
  <2>1. \A k \in {"death", "unsure", "failure"} : Fault(k) =>
          faults'.death >= faults.death /\ faults'.unsure >= faults.unsure
    BY Faulty
  <2>2. UNCHANGED faults \/ \E k \in {"death", "unsure", "failure"} : Fault(k)
    BY DEF Next, Route, RouteDies, Pop, Resend, Step, Receive, Raised, DeadLetter, Ack, Scan, Act, SendResult,
           Send, Log, Guard, Analyze, ReadFile, Dies, vars
  <2>3. faults \in [death : Nat, unsure : Nat, failure : Nat] BY DEF TypeInv
  <2>4. faults' \in [death : Nat, unsure : Nat, failure : Nat] BY TypeStep DEF TypeInv
  <2> QED BY <2>1, <2>2, <2>3, <2>4 DEF NoRepeats
<1> SUFFICES ASSUME NoRepeats', NEW r \in Roots PROVE Sole(r)' BY DEF SoleInv
<1>1. Sole(r) BY <1>0 DEF SoleInv
<1>2. ~Fault("death") BY DEF NoRepeats, Fault, TypeInv
<1>3. ~RouteDies /\ \A w \in Workers : ~Dies(w) BY <1>2 DEF RouteDies, Dies
<1>4. CASE UNCHANGED vars
  <2>1. UNCHANGED <<queue, dlq, run, requeue, logged>> BY <1>4 DEF vars, history
  <2>2. Untouched(r) BY <2>1, StandsStill DEF Untouched, AtRoute
  <2> QED BY <1>1, <2>2, UntouchedSole
<1>5. CASE Route BY <1>1, <1>5, PopStep, ResendStep DEF Route
<1>6. ASSUME NEW w \in Workers, Step(w) PROVE Sole(r)'
  <2>1. ASSUME NEW u \in Tasks, InQueue(u, r), Receive(w, u) PROVE Sole(r)'
    BY <1>1, <2>1, ReceiveStep
  <2>2. CASE Bears(run[w], r)
    <3>1. OnlyWorker(w, r) /\ logged[r] = 0
      BY <1>1, <2>2 DEF Sole, Nowhere, OnlyQueued, OnlyLetter, OnlyRoute, OnlyWorker, Idles
    <3> QED BY <1>6, <3>1, BearerStep
  <2>3. CASE ~Bears(run[w], r) /\ \A u \in Tasks : InQueue(u, r) => ~Receive(w, u)
    BY <1>1, <1>6, <2>3, StepUntouched, UntouchedSole
  <2> QED BY <2>1, <2>2, <2>3
<1> QED BY <1>3, <1>4, <1>5, <1>6 DEF Next

\* What is sent carries the root of what it follows from.
LEMMA GivenStep ==
  ASSUME TypeInv, Given, [Next]_vars
  PROVE  Given'
<1>0. /\ Bag(queue) /\ Bag(dlq) /\ run \in Runs /\ logged \in [Roots -> Nat]
      /\ requeue \in Tasks \cup {NoTask} /\ requeues \in 0 .. MaxRequeues
      /\ \A w \in Workers : Fits(run[w])
      /\ Latest \in Nat /\ Roots \subseteq Nat
  BY TypesOf DEF Latest, Roots
<1>a. \A u \in Tasks : /\ DOMAIN BagAdd(queue, u) = DOMAIN queue \cup {u}
                       /\ DOMAIN BagAdd(dlq, u) = DOMAIN dlq \cup {u}
  <2>1. \A t \in DOMAIN queue : queue[t] \in Nat \ {0} BY <1>0 DEF Bag
  <2>2. \A t \in DOMAIN dlq : dlq[t] \in Nat \ {0} BY <1>0 DEF Bag
  <2> QED BY <2>1, <2>2, Added
<1>b. /\ \A u \in DOMAIN queue : DOMAIN BagRemove(queue, u) \subseteq DOMAIN queue
      /\ \A u \in DOMAIN dlq : DOMAIN BagRemove(dlq, u) \subseteq DOMAIN dlq
  <2>1. \A t \in DOMAIN queue : queue[t] \in Nat \ {0} BY <1>0 DEF Bag
  <2>2. \A t \in DOMAIN dlq : dlq[t] \in Nat \ {0} BY <1>0 DEF Bag
  <2> QED BY <2>1, <2>2, Removed
<1>c. \A u \in Tasks \cup {NoTask} : u.root \in Nat
  <2>1. \A u \in Tasks : u.root \in Roots BY DEF Tasks
  <2>2. NoTask.root \in Nat BY NoneTask
  <2> QED BY <1>0, <2>1, <2>2
<1>d. \A w \in Workers : run[w].task.root \in Nat BY <1>0, <1>c DEF Runs
<1>1. CASE UNCHANGED vars BY <1>1 DEF vars, history, Given, Latest
<1>2. ASSUME NEW w \in Workers, Step(w) \/ Dies(w) PROVE Given'
  <2> DEFINE t == run[w].task
  <2>0. /\ t \in Tasks \/ run[w] = Idle
        /\ t.root <= Latest /\ Root(w) = t.root /\ Latest' = Latest /\ requeue' = requeue
    <3>1. UNCHANGED <<requeue, requeues>>
      BY <1>2 DEF Step, Receive, Raised, DeadLetter, Ack, Scan, Act, SendResult, Log, Guard, Analyze,
                  ReadFile, Dies
    <3> QED BY <1>0, <3>1 DEF Given, Fits, Root, Latest
  <2>1. \A u \in DOMAIN queue' : u \in DOMAIN queue \/ u.root = t.root
    <3>1. CASE UNCHANGED queue BY <3>1
    <3>2. CASE \E u \in BagToSet(queue) : Receive(w, u) BY <1>b, <3>2 DEF Receive, BagToSet
    <3>3. CASE Raised(w) \/ Dies(w)
      <4>1. t \in Tasks BY <2>0, <3>3 DEF Raised, Dies, At, Idle
      <4> DEFINE u == [t EXCEPT !.retries = @ + 1]
      <4>2. u \in Tasks /\ u.root = t.root BY <4>1 DEF Tasks
      <4>3. queue' \in {queue, BagAdd(queue, u), BagAdd(queue, t)} BY <3>3 DEF Raised, Dies
      <4> HIDE DEF u, t
      <4>4. CASE queue' = queue BY <4>4
      <4>5. CASE queue' = BagAdd(queue, u)
        <5>1. DOMAIN queue' = DOMAIN queue \cup {u} BY <1>a, <4>2, <4>5
        <5> QED BY <4>2, <5>1
      <4>6. CASE queue' = BagAdd(queue, t)
        <5>1. DOMAIN queue' = DOMAIN queue \cup {t} BY <1>a, <4>1, <4>6
        <5> QED BY <5>1
      <4> QED BY <4>3, <4>4, <4>5, <4>6
    <3>4. CASE Scan(w) \/ SendResult(w) \/ Analyze(w)
      <4>1. t \in Tasks BY <2>0, <3>4 DEF Scan, SendResult, Analyze, At, Idle
      <4>2. t.root \in Roots BY <4>1 DEF Tasks
      <4>3. \E k \in Kinds : queue' = BagAdd(queue, Task(k, t.root)) \/ queue' = queue
        BY <2>0, <3>4 DEF Scan, SendResult, Analyze, Send, Kinds
      <4>4. PICK k \in Kinds : queue' = BagAdd(queue, Task(k, t.root)) \/ queue' = queue BY <4>3
      <4>5. Task(k, t.root) \in Tasks /\ Task(k, t.root).root = t.root BY <4>2, NewTask
      <4>6. DOMAIN queue' \subseteq DOMAIN queue \cup {Task(k, t.root)} BY <1>a, <4>4, <4>5
      <4> QED BY <4>5, <4>6
    <3> QED BY <1>2, <3>1, <3>2, <3>3, <3>4 DEF Step, DeadLetter, Ack, Act, Log, Guard, ReadFile
  <2>2. \A u \in DOMAIN dlq' : u \in DOMAIN dlq \/ u.root = t.root
    <3>1. CASE DeadLetter(w)
      <4>1. t \in Tasks BY <2>0, <3>1 DEF DeadLetter, At, Idle
      <4>2. Letter(t) \in Tasks /\ Letter(t).root = t.root BY <4>1, NewTask DEF Letter, Tasks, Kinds
      <4>3. dlq' = dlq \/ dlq' = BagAdd(dlq, Letter(t)) BY <3>1 DEF DeadLetter
      <4>4. DOMAIN dlq' \subseteq DOMAIN dlq \cup {Letter(t)} BY <1>a, <4>2, <4>3
      <4> QED BY <4>2, <4>4
    <3> QED BY <1>2, <3>1 DEF Step, Receive, Raised, Ack, Scan, Act, SendResult, Log, Guard, Analyze,
                              ReadFile, Dies
  <2>3. \A v \in Workers : run'[v].task.root <= Latest
    <3>1. \A v \in Workers \ {w} : run'[v] = run[v]
      BY <1>0, <1>2 DEF Step, Receive, Raised, DeadLetter, Ack, Scan, Act, SendResult, Send, Log, Guard,
                        Analyze, ReadFile, Dies, Goto, Runs
    <3>2. run'[w].task.root <= Latest
      <4>1. ASSUME NEW u \in BagToSet(queue), Receive(w, u) PROVE run'[w].task.root <= Latest
        BY <1>0, <4>1 DEF Receive, Runs, BagToSet, Given
      <4>2. CASE Ack(w) \/ Dies(w)
        <5>1. run'[w] = Idle BY <1>0, <4>2 DEF Ack, Dies, Runs
        <5> QED BY <1>0, <5>1, NoneTask DEF Idle
      <4>3. ASSUME NEW l, Goto(w, l) PROVE run'[w].task.root <= Latest
        BY <1>0, <2>0, <4>3 DEF Goto, Runs
      <4>4. (\E u \in BagToSet(queue) : Receive(w, u)) \/ Ack(w) \/ Dies(w) \/ \E l : Goto(w, l)
        BY <1>2 DEF Step, Raised, DeadLetter, Scan, Act, SendResult, Send, Log, Guard, Analyze, ReadFile
      <4> QED BY <4>1, <4>2, <4>3, <4>4
    <3> QED BY <3>1, <3>2 DEF Given
  <2>4. \A r \in Roots : r > Latest => logged'[r] = 0
    <3>1. CASE Log(w)
      <4>1. logged' = logged \/ logged' = [logged EXCEPT ![Root(w)] = @ + 1] BY <3>1 DEF Log
      <4>2. t.root \in Roots BY <2>0, <3>1 DEF Log, At, Idle, Tasks
      <4>3. \A r \in Roots : r > Latest => r # Root(w)
        <5>1. Root(w) \in Nat /\ Root(w) <= Latest BY <1>0, <2>0, <4>2
        <5> QED BY <1>0, <5>1
      <4>4. \A r \in Roots : r # Root(w) => logged'[r] = logged[r] BY <1>0, <4>1
      <4> QED BY <4>3, <4>4 DEF Given
    <3>2. CASE ~Log(w)
      <4>1. logged' = logged
        BY <1>2, <3>2 DEF Step, Receive, Raised, DeadLetter, Ack, Scan, Act, SendResult, Guard, Analyze,
                          ReadFile, Dies, history
      <4> QED BY <4>1 DEF Given
    <3> QED BY <3>1, <3>2
  <2> HIDE DEF t
  <2> QED BY <2>0, <2>1, <2>2, <2>3, <2>4 DEF Given
<1>3. ASSUME NEW t \in BagToSet(dlq), Pop(t) PROVE Given'
  <2>1. /\ t \in DOMAIN dlq /\ t \in Tasks /\ requeue = NoTask /\ requeue' = t
        /\ requeues' = requeues + 1 /\ dlq' = BagRemove(dlq, t) /\ UNCHANGED <<queue, run, logged>>
    BY <1>0, <1>3 DEF Pop, BagToSet, Bag, history
  <2>2. Latest' = Latest BY <2>1, NoneTask DEF Latest
  <2>3. DOMAIN dlq' \subseteq DOMAIN dlq BY <1>b, <2>1
  <2> QED BY <2>1, <2>2, <2>3 DEF Given
<1>4. CASE Resend
  <2>1. /\ requeue \in Tasks /\ requeue' = NoTask /\ UNCHANGED <<run, logged, requeues>>
    BY <1>0, <1>4 DEF Resend, history
  <2>2. Latest = requeues /\ Latest' = requeues + 1 BY <2>1, NoneTask DEF Latest
  <2>3. requeues + 1 \in Roots BY <1>0, ResultAssumption DEF Roots
  <2>4. /\ Again(requeue) \in Tasks
        /\ Again(requeue).root = requeues + 1 \/ Again(requeue) = requeue
    BY <2>1, <2>3, NewTask DEF Again, Kinds
  <2>5. /\ \A u \in DOMAIN queue' : u \in DOMAIN queue \/ u = Again(requeue)
        /\ \A u \in DOMAIN dlq' : u \in DOMAIN dlq \/ u = requeue
    BY <1>a, <1>4, <2>1, <2>4 DEF Resend
  <2>6. \A u \in DOMAIN queue \cup DOMAIN dlq \cup {requeue} : u.root <= requeues + 1
    BY <1>0, <2>1, <2>2, <1>c DEF Given, Bag
  <2>7. Again(requeue).root <= requeues + 1 BY <1>0, <2>4, <2>6
  <2>8. \A u \in DOMAIN queue' \cup DOMAIN dlq' \cup {requeue'} : u.root <= Latest'
    BY <1>0, <2>1, <2>2, <2>5, <2>6, <2>7, NoneTask
  <2>9. \A w \in Workers : run'[w].task.root <= Latest' BY <1>0, <1>d, <2>1, <2>2 DEF Given
  <2>10. \A r \in Roots : r > Latest' => logged'[r] = 0
    <3>1. \A r \in Roots : r > requeues + 1 => r > requeues BY <1>0 DEF Roots
    <3>2. \A r \in Roots : r > requeues => logged[r] = 0 BY <2>2 DEF Given
    <3> QED BY <2>1, <2>2, <3>1, <3>2
  <2> QED BY <2>8, <2>9, <2>10 DEF Given
<1>5. CASE RouteDies
  <2>1. requeue \in Tasks /\ requeue' = NoTask /\ UNCHANGED <<queue, dlq, run, logged, requeues>>
    BY <1>0, <1>5 DEF RouteDies
  <2>2. Latest = requeues /\ Latest' = requeues + 1 BY <2>1, NoneTask DEF Latest
  <2>3. \A u \in DOMAIN queue' \cup DOMAIN dlq' \cup {requeue'} : u.root <= Latest'
    BY <1>0, <1>c, <2>1, <2>2, NoneTask DEF Given, Bag
  <2>4. \A w \in Workers : run'[w].task.root <= Latest' BY <1>0, <1>d, <2>1, <2>2 DEF Given
  <2>5. \A r \in Roots : r > Latest' => logged'[r] = 0 BY <1>0, <2>1, <2>2 DEF Given
  <2> QED BY <2>3, <2>4, <2>5 DEF Given
<1> QED BY <1>1, <1>2, <1>3, <1>4, <1>5 DEF Next, Route
-----------------------------------------------------------------------------
IInv == TypeInv /\ VerdictHeld /\ AnalyzedOnce /\ Given /\ SoleInv

LEMMA InitHolds == ASSUME Init PROVE IInv
<1> DEFINE t == Task("scan", 1)
<1>0. 1 \in Roots /\ TypeInv BY StartsTyped, ResultAssumption DEF Roots
<1>1. t \in Tasks /\ t.root = 1 /\ t.kind = "scan" BY <1>0, NewTask DEF Kinds
<1>2. DOMAIN queue = {t} /\ queue[t] = 1 /\ DOMAIN dlq = {} BY DEF Init, SetToBag, EmptyBag
<1>3. /\ run = [w \in Workers |-> Idle] /\ requeue = NoTask /\ requeues = 0
      /\ logged = [r \in Roots |-> 0] /\ analyses = [r \in Roots |-> 0] /\ scanned = {}
  BY DEF Init
<1> HIDE DEF t
<1>4. VerdictHeld BY <1>3 DEF VerdictHeld
<1>5. AnalyzedOnce BY <1>3 DEF AnalyzedOnce, AtAnalyze, Idle
<1>6. Given BY <1>1, <1>2, <1>3, NoneTask DEF Given, Latest, Idle
<1>7. ASSUME NEW r \in Roots PROVE Sole(r)
  <2>1. Idles(r) /\ NoLetter(r) /\ ~AtRoute(r)
    BY <1>2, <1>3, NoneTask DEF Idles, Bears, Idle, NoLetter, InLetters, AtRoute, Carries
  <2>2. CASE r = 1
    <3>1. OnlyQueued(t, r) BY <1>1, <1>2, <2>1, <2>2 DEF OnlyQueued, InQueue
    <3> QED BY <1>1, <1>3, <3>1 DEF Sole
  <2>3. CASE r # 1
    <3>1. NotQueued(r) BY <1>1, <1>2, <2>3 DEF NotQueued, InQueue
    <3> QED BY <1>3, <2>1, <3>1 DEF Sole, Nowhere
  <2> QED BY <2>2, <2>3
<1> QED BY <1>0, <1>4, <1>5, <1>6, <1>7 DEF IInv, SoleInv

LEMMA ResultInductive == Spec => []IInv
<1>1. Init => IInv BY InitHolds
<1>2. IInv /\ [Next]_vars => IInv'
  BY TypeStep, VerdictStep, AnalyzedStep, GivenStep, SoleStep DEF IInv
<1> QED BY <1>1, <1>2, PTL DEF Spec

\* What scan_request has sent on is logged, or a message, a dead letter or in somebody's hands,
\* unless the dead-letter store or the requeue route has let it go.
THEOREM VerdictsKept == Spec => []VerdictKept
<1>1. IInv => VerdictKept
  BY DEF IInv, VerdictHeld, Held, Holds, VerdictKept, BagToSet
<1> QED BY <1>1, ResultInductive, PTL

\* Retries and requeues log no verdict twice, as long as no worker dies and no send that raised
\* has sent; and the guard of a job's request lets one automatic analysis through, whatever fails.
THEOREM VerdictsReportedOnce == Spec => []ReportedOnce
<1>1. ASSUME IInv PROVE ReportedOnce
  <2>1. ASSUME NEW r \in Roots, faults.death = 0 /\ faults.unsure = 0 PROVE logged[r] <= 1
    <3>1. Sole(r) BY <1>1, <2>1 DEF IInv, SoleInv, NoRepeats
    <3> QED BY <3>1 DEF Sole
  <2>2. ASSUME NEW r \in Roots, job PROVE analyses[r] <= 1 BY <1>1, <2>2 DEF IInv, AnalyzedOnce
  <2> QED BY <2>1, <2>2 DEF ReportedOnce
<1> QED BY <1>1, ResultInductive, PTL
=============================================================================
