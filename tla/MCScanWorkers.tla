--------------------------- MODULE MCScanWorkers ---------------------------
(* Instances of BatchCoordinator, CompletionBuffer and ScanTasks for TLC:     *)
(* the workers that scan, in both generations of dsx-connect.  mode says      *)
(* which one a behaviour is about; the others stay as they start.             *)
EXTENDS ScanTasks, ScanCompletions

CONSTANTS e1, e2, e3, m1, m2, m3, m4, i1, i2, w1, w2

VARIABLE mode

coordinatorVars ==
    <<ackMode, message, future, pending, running, refused, completions, timer, requested, task,
      batch, phase, ledger, failures, crashes>>
bufferVars == <<handler, buffered, drained, ticker, process, persisted, bulkFailures>>
allVars == <<mode, vars, coordinatorVars, bufferVars>>

TwoItems == {i1, i2}
TwoWorkers == {w1, w2}

\* What happens together in one behaviour of the scan tasks.
NoFault == [errors |-> 0, crashes |-> 0, drift |-> 0, reposts |-> 0,
            pauses |-> 0, cancels |-> 0]
AnyFault ==
    {[NoFault EXCEPT !.errors = 1, !.pauses = 1],
     [NoFault EXCEPT !.crashes = 1],
     [NoFault EXCEPT !.cancels = 1],
     [NoFault EXCEPT !.drift = 1, !.reposts = 1]}

ThreeEntries == {e1, e2, e3}
FourMessages == {m1, m2, m3, m4}

MCInit ==
    /\ mode \in {"coordinator", "buffer", "tasks"}
    /\ Init /\ Coordinator!Init /\ Buffer!Init
    /\ mode # "coordinator" => ackMode = "completed"

Coordinates(A) == mode = "coordinator" /\ A /\ UNCHANGED <<mode, vars, bufferVars>>
Buffers(A) == mode = "buffer" /\ A /\ UNCHANGED <<mode, vars, coordinatorVars>>
Tasks(A) == mode = "tasks" /\ A /\ UNCHANGED <<mode, coordinatorVars, bufferVars>>

MCNext == Tasks(Next) \/ Coordinates(Coordinator!Next) \/ Buffers(Buffer!Next)

\* What the coordinator's and the buffer's process goes on with.  Neither goes round in
\* circles, so that one condition may speak of everything that is due.
CoordinatorGoesOn ==
    \/ \E e \in Entries : Coordinator!Handle(e) \/ Coordinator!Scan(e)
    \/ Coordinator!TimerFires \/ Coordinator!Flush \/ Coordinator!Shutdown
BufferGoesOn ==
    \/ Buffer!Work \/ Buffer!Tick \/ Buffer!FlushAll
    \/ \E w \in Buffer!Writers : Buffer!Flushed(w)

MCFairSpec ==
    /\ MCInit /\ [][MCNext]_allVars
    /\ WF_allVars(Tasks(Post) \/ Coordinates(CoordinatorGoesOn) \/ Buffers(BufferGoesOn))
    /\ WF_allVars(Tasks(Expire))
    /\ \A w \in Workers : WF_allVars(Tasks(Step(w)))
    /\ \A i \in Items : SF_allVars(Tasks(Delivered(i)))

\* What an NG worker holds is written in the end: every item of the coordinator ends, and
\* whatever is buffered is drained.
CompletionsWritten == <>[](mode = "coordinator" => Coordinator!Settled) /\ Buffer!BufferDrains
=============================================================================
