---------------------------- MODULE MCConnectors ----------------------------
(* Instances of ControlPlane, DriveChanges and ItemActions for TLC: what       *)
(* dsx-connect keeps for its connectors, their registrations and the cursors   *)
(* of the drives, and what it has them do to a file.  part says which one a    *)
(* behaviour is about; the others stay as they start.                          *)
EXTENDS Connectors

CONSTANTS p1, p2, c1, c2, s1, s2, h1, h2, i1, i2, w1, w2

VARIABLE part

driveVars ==
    <<service, log, subscribed, notes, store, cursor, proc, task, requested, heard, dropped,
      troubles>>
actionVars ==
    <<platform, action, setting, source, copies, arriving, tagged, calls, waiting,
      pc, stage, queue, dlq, failed>>
allVars == <<part, vars, driveVars, actionVars>>

TwoProcesses == {p1, p2}
TwoInstances == {c1, c2}
OneWriter == {c1}
TwoScopes == {s1, s2}
Path(parts) == [type |-> "path", raw |-> parts]
Identity(name) == [type |-> "identity", raw |-> name]
Protected == {Path(<<"a">>), Path(<<"", "a", "b", "">>), Identity(<<"a">>)}
LookedUp == {Path(<<"a", "b">>), Path(<<"a", "c", "", "d">>), Identity(<<"a">>)}
TwoItems == {i1, i2}
TwoHandlers == {h1, h2}
TwoWorkers == {w1, w2}

MCInit ==
    /\ part \in {"registrations", "drive", "action"}
    /\ Init /\ Drive!Init /\ Action!Init
    /\ part # "drive" => service = "mail"
    /\ part # "registrations" => backend = "postgres" /\ serving = TwoProcesses
    /\ part # "action" => platform = "drive" /\ action = "tag" /\ setting = "none"

Registers(A) == part = "registrations" /\ A /\ UNCHANGED <<part, driveVars, actionVars>>
InDrive(A) == part = "drive" /\ A /\ UNCHANGED <<part, vars, actionVars>>

MCNext ==
    \/ Registers(Next) \/ InDrive(Drive!Next)
    \/ part = "action" /\ Action!Next /\ UNCHANGED <<part, vars, driveVars>>

\* The fairness of the first two.  A behaviour is about one part, so that one condition may
\* speak of both.
MCFairSpec ==
    /\ MCInit /\ [][MCNext]_allVars
    /\ WF_allVars(Registers(Serve(p1)) \/ InDrive(Drive!Step(h1)))
    /\ WF_allVars(Registers(Serve(p2)) \/ InDrive(Drive!Step(h2)))
    /\ WF_allVars(Registers(c1 \notin alive /\ Expire(c1)) \/ InDrive(Drive!Step(Drive!Loop)))
    /\ WF_allVars(Registers(c2 \notin alive /\ Expire(c2)) \/ InDrive(Drive!Boot))
    /\ WF_allVars(InDrive(Drive!Reconcile)) /\ WF_allVars(InDrive(Drive!Poll))
    /\ \A c \in Instances : SF_allVars(Registers(Heartbeat(c)))
=============================================================================
