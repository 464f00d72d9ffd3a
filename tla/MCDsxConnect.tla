---------------------------- MODULE MCDsxConnect ----------------------------
(* Instances of ResultTasks and ConnectorRegistry for TLC: the task workers and    *)
(* the API processes of the first dsx_connect.  part says which one a behaviour is *)
(* about; the other stays as it starts.                                            *)
EXTENDS ResultTasks

CONSTANTS a1, a2, w1, w2

VARIABLES
    part,
    conn, presence, cache, app, inbox, sweep, request, failures

registryVars == <<conn, presence, cache, app, inbox, sweep, request, failures>>
allVars == <<part, vars, registryVars>>

TwoWorkers == {w1, w2}
TwoApps == {a1, a2}

\* A policy within Celery's limit, and one beyond it (as that of production, which has 5 where
\* Celery has 3), for the verdict of one benign file.
TwoLimits == {1, 2}

\* What goes wrong together with the tasks of a file.
TaskFaults ==
    {[death |-> 0, unsure |-> 0, failure |-> 2],
     [death |-> 1, unsure |-> 0, failure |-> 0],
     [death |-> 0, unsure |-> 1, failure |-> 0]}

Registry == INSTANCE ConnectorRegistry WITH
    Apps <- TwoApps, MaxGen <- 2, MaxLag <- 1, MaxFaults <- 1, faults <- failures

MCInit ==
    /\ part \in {"registry", "results"}
    /\ Init /\ Registry!Init
    /\ part = "registry" => limit <= CeleryRetries /\ job /\ malicious /\ auto
    /\ limit > CeleryRetries => ~job /\ ~malicious

InRegistry(A) == part = "registry" /\ A

MCNext ==
    \/ part = "results" /\ Next /\ UNCHANGED <<part, registryVars>>
    \/ InRegistry(Registry!Next) /\ UNCHANGED <<part, vars>>

\* The fairness of the registry; nothing is claimed to happen to results.
MCFairSpec ==
    /\ MCInit /\ [][MCNext]_allVars
    /\ WF_registryVars(InRegistry(Registry!Expire))
    /\ WF_registryVars(InRegistry(\E a \in TwoApps : Registry!Heartbeat(a)))
    /\ SF_registryVars(InRegistry(Registry!Serve))
    /\ \A a \in TwoApps :
          /\ WF_registryVars(InRegistry(Registry!Load(a) \/ Registry!Subscribe(a) \/ Registry!Listen(a)))
          /\ SF_registryVars(InRegistry(Registry!Sweep(a)))

\* The property of ConnectorRegistry, of this instance.
CachesConverge == Registry!CachesConverge
=============================================================================
