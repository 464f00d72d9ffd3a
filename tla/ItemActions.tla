----------------------------- MODULE ItemActions -----------------------------
(***************************************************************************)
(* The remediation of one item, from the message at the remediation worker *)
(* to the calls that a connector's item_action handler makes to its        *)
(* platform: the file system, an object store (S3, GCS, Azure), or a drive *)
(* of Microsoft Graph (SharePoint, OneDrive).                              *)
(*                                                                         *)
(* Worker and handler are different processes.  A worker that dies or      *)
(* times out leaves its handler at work, and the message is redelivered:   *)
(* handlers of one item may run at the same time.  An action is one call   *)
(* to the platform, or one step of the worker.                             *)
(***************************************************************************)
EXTENDS Integers, Sequences, FiniteSets

CONSTANTS
    Workers,        \* remediation worker processes
    MaxCalls,       \* bound: item_action requests sent
    MaxFaults       \* bound: calls to the platform that fail without need
VARIABLES
    platform, action, integration,    \* what kind of connector, what it is asked, how it is set up
    source,        \* the file is where it was found
    copies,        \* its copies in quarantine, by name
    arriving,      \* copies that the platform has promised to make
    tagged,        \* the names of the files that carry the tags
    calls,         \* the item_action requests at the connector
    waiting,       \* the call that each worker waits for, 0 = none
    pc, stage, queue, dlq, faults

file == <<source, copies, arriving, tagged>>
setup == <<platform, action, integration>>
vars == <<setup, file, calls, waiting, pc, stage, queue, dlq, faults>>

Stores == {"s3", "gcs", "azure"}
Platforms == Stores \cup {"filesystem", "drive"}

\* as_connector_remediation_request.
connector_action(plan) ==
    CASE plan.action = "delete"     -> "delete"
      [] plan.action = "tag_only"   -> "tag"
      [] plan.action = "quarantine" -> IF plan.tag THEN "movetag" ELSE "move"
      [] OTHER                      -> "nothing"

Plans == [action : {"delete", "tag_only", "quarantine", "noop"}, tag : BOOLEAN]

Moves == action \in {"move", "movetag"}

\* Names of files: where it was found, and in quarantine.
Source == 0

\* Mutant: a suffix of its own for each request.
resolved_quarantine_filename_random(c) == c

\* The name is made from the id of the item.
resolved_quarantine_filename(c) == 1

Init ==
    /\ platform \in Platforms
    /\ action \in {connector_action(p) : p \in Plans}
    /\ integration \in {"none", "unconfigured", "unsupported", "ready"}
    /\ source = TRUE /\ copies = {} /\ arriving = {} /\ tagged = {}
    /\ calls = <<>>
    /\ waiting = [w \in Workers |-> 0]
    /\ pc = [w \in Workers |-> "idle"]
    /\ stage = [state |-> "pending", outcome |-> "none"]
    /\ queue = 1 /\ dlq = 0 /\ faults = 0
-----------------------------------------------------------------------------
(***************************************************************************)
(* The worker.                                                             *)
(***************************************************************************)
Goto(w, l) == pc' = [pc EXCEPT ![w] = l]

\* process_remediation_message: an ended stage is not reopened, but the action is carried out.
\* (Workers are alike: one of the idle ones.)
Deliver(w) ==
    /\ queue > 0
    /\ pc[w] = "idle" /\ w = CHOOSE v \in Workers : pc[v] = "idle"
    /\ queue' = queue - 1
    /\ stage' = IF stage.state = "completed" THEN stage ELSE [stage EXCEPT !.state = "running"]
    /\ Goto(w, "execute")
    /\ UNCHANGED <<setup, file, calls, waiting, dlq, faults>>

\* build_remediation_executor: where nothing is to be done or nobody can be asked the stub
\* answers.
Stub(w) ==
    /\ pc[w] = "execute"
    /\ action = "nothing" \/ integration = "none"
    /\ Goto(w, "stub")
    /\ UNCHANGED <<setup, file, calls, waiting, stage, queue, dlq, faults>>

\* resolve_connector_action_runtime_config and the test of the capabilities raise for good.
Refuse(w) ==
    /\ pc[w] = "execute"
    /\ action # "nothing" /\ integration \in {"unconfigured", "unsupported"}
    /\ Goto(w, "dead_letter")
    /\ UNCHANGED <<setup, file, calls, waiting, stage, queue, dlq, faults>>

\* _connector_item_action_sync
Call(w) ==
    /\ pc[w] = "execute"
    /\ action # "nothing" /\ integration = "ready"
    /\ Len(calls) < MaxCalls
    /\ calls' = Append(calls, [todo |-> <<"start">>, answer |-> "none"])
    /\ waiting' = [waiting EXCEPT ![w] = Len(calls) + 1]
    /\ Goto(w, "called")
    /\ UNCHANGED <<setup, file, stage, queue, dlq, faults>>

\* An answer "error" is a TerminalScanError, a handler that raised or died makes the stub answer.
Answered(w) ==
    LET answer == calls[waiting[w]].answer
    IN  /\ pc[w] = "called" /\ answer # "none"
        /\ Goto(w, CASE answer = "error"   -> "dead_letter"
                     [] answer = "success" -> "succeeded"
                     [] answer = "nothing" -> "noop"
                     [] answer = "raised"  -> "stub")
        /\ waiting' = [waiting EXCEPT ![w] = 0]
        /\ UNCHANGED <<setup, file, calls, stage, queue, dlq, faults>>

\* The request times out; its handler goes on.
TimesOut(w) ==
    /\ pc[w] = "called"
    /\ Goto(w, "stub")
    /\ waiting' = [waiting EXCEPT ![w] = 0]
    /\ UNCHANGED <<setup, file, calls, stage, queue, dlq, faults>>

\* advance_remediation_stage.  The stub reports success.
Complete(w) ==
    /\ pc[w] \in {"stub", "succeeded", "noop"}
    /\ stage' = [state |-> "completed", outcome |-> pc[w]]
    /\ Goto(w, "idle")
    /\ UNCHANGED <<setup, file, calls, waiting, queue, dlq, faults>>

DeadLetter(w) ==
    /\ pc[w] = "dead_letter"
    /\ dlq' = dlq + 1
    /\ Goto(w, "idle")
    /\ UNCHANGED <<setup, file, calls, waiting, stage, queue, faults>>

\* The message of a worker that dies is redelivered.
WorkerDies(w) ==
    /\ pc[w] # "idle" /\ Len(calls) < MaxCalls
    /\ queue' = queue + 1
    /\ waiting' = [waiting EXCEPT ![w] = 0]
    /\ Goto(w, "idle")
    /\ UNCHANGED <<setup, file, calls, stage, dlq, faults>>
-----------------------------------------------------------------------------
(***************************************************************************)
(* The handlers, as the calls each one makes to its platform.              *)
(***************************************************************************)
filesystem_handler ==
    [delete  |-> <<"check", "remove">>,
     move    |-> <<"check", "mkdir", "rename">>,
     movetag |-> <<"check", "mkdir", "rename", "tag_copy">>,
     tag     |-> <<"check", "tag_source">>]

s3_handler ==
    [delete  |-> <<"check", "remove">>,
     move    |-> <<"check", "copy", "remove">>,
     movetag |-> <<"check", "copy", "remove", "tag_copy">>,
     tag     |-> <<"check", "tag_source">>]

gcs_handler ==
    [delete  |-> <<"check", "remove">>,
     move    |-> <<"check", "copy", "remove">>,
     movetag |-> <<"check", "copy", "remove", "tag_copy">>,
     tag     |-> <<"check", "tag_source">>]

\* The tags go to the source, and from there to the copy.
azure_handler ==
    [delete  |-> <<"check", "remove">>,
     move    |-> <<"check", "copy", "remove">>,
     movetag |-> <<"check", "tag_source", "copy", "remove">>,
     tag     |-> <<"check", "tag_source">>]

\* Drives do not tag.
drive_handler ==
    [delete |-> <<"remove">>, move |-> <<"rename">>, movetag |-> <<"rename">>, tag |-> <<>>]

item_action_handler ==
    [filesystem |-> filesystem_handler, s3 |-> s3_handler, gcs |-> gcs_handler,
     azure |-> azure_handler, drive |-> drive_handler]

Todo(c, ops) ==
    calls' = [calls EXCEPT ![c] = [todo |-> ops, answer |->
                IF ops # <<>> THEN "none"
                ELSE IF platform = "drive" /\ action = "tag" THEN "nothing" ELSE "success"]]

Answer(c, a) == calls' = [calls EXCEPT ![c] = [todo |-> <<>>, answer |-> a]]

Serve(c) ==
    /\ calls[c].todo = <<"start">>
    /\ Todo(c, item_action_handler[platform][action])
    /\ UNCHANGED <<setup, file, waiting, pc, stage, queue, dlq, faults>>

Op(c, op) == calls[c].todo # <<>> /\ Head(calls[c].todo) = op
Proceed(c) == Todo(c, Tail(calls[c].todo))

Check(c) ==
    /\ Op(c, "check")
    /\ IF source THEN Proceed(c) ELSE Answer(c, "error")
    /\ UNCHANGED <<setup, file, waiting, pc, stage, queue, dlq, faults>>

\* S3 accepts the removal of what is not there.
Remove(c) ==
    /\ Op(c, "remove")
    /\ source \/ platform = "s3"
    /\ source' = FALSE
    /\ tagged' = tagged \ {Source}
    /\ Proceed(c)
    /\ UNCHANGED <<setup, copies, arriving, waiting, pc, stage, queue, dlq, faults>>

MakeDirectory(c) ==
    /\ Op(c, "mkdir")
    /\ Proceed(c)
    /\ UNCHANGED <<setup, file, waiting, pc, stage, queue, dlq, faults>>

\* One call: rename(2), or a change of the parent folder.
Rename(c) ==
    /\ Op(c, "rename") /\ source
    /\ source' = FALSE
    /\ copies' = copies \cup {resolved_quarantine_filename(c)}
    /\ Proceed(c)
    /\ UNCHANGED <<setup, arriving, tagged, waiting, pc, stage, queue, dlq, faults>>

\* To another file system: shutil.move copies the file and removes it.
RenameAcross(c) ==
    /\ Op(c, "rename") /\ source /\ platform = "filesystem"
    /\ Todo(c, <<"copy", "remove">> \o Tail(calls[c].todo))
    /\ UNCHANGED <<setup, file, waiting, pc, stage, queue, dlq, faults>>

Copy(c) ==
    /\ Op(c, "copy") /\ source
    /\ LET name == resolved_quarantine_filename(c)
       IN  /\ copies' = copies \cup {name}
           /\ tagged' = IF Source \in tagged /\ platform # "filesystem"
                        THEN tagged \cup {name} ELSE tagged
    /\ Proceed(c)
    /\ UNCHANGED <<setup, source, arriving, waiting, pc, stage, queue, dlq, faults>>

\* start_copy_from_url: Azure may only promise the copy.
CopyPromised(c) ==
    /\ Op(c, "copy") /\ source /\ platform = "azure"
    /\ arriving' = arriving \cup {resolved_quarantine_filename(c)}
    /\ Proceed(c)
    /\ UNCHANGED <<setup, source, copies, tagged, waiting, pc, stage, queue, dlq, faults>>

\* A copy whose source is gone by then is not made.
CopyArrives(name) ==
    /\ arriving' = arriving \ {name}
    /\ copies' = IF source THEN copies \cup {name} ELSE copies
    /\ UNCHANGED <<setup, source, tagged, calls, waiting, pc, stage, queue, dlq, faults>>

Tag(c) ==
    /\ \/ Op(c, "tag_source") /\ source /\ tagged' = tagged \cup {Source}
       \/ /\ Op(c, "tag_copy")
          /\ tagged' = tagged \cup ({resolved_quarantine_filename(c)} \cap copies)
    /\ Proceed(c)
    /\ UNCHANGED <<setup, source, copies, arriving, waiting, pc, stage, queue, dlq, faults>>

\* Calls whose failure fails the move.
InMove(op) == op \in {"rename", "copy"} \/ (op = "remove" /\ Moves)

\* Mutant: a failed move is logged and ignored everywhere.
Failing_ignored(op) == IF InMove(op) THEN {"skip"} ELSE {"raise"}

\* What a failing call may do to a handler: it raises, it answers "error", or it goes on after
\* the move or the tagging, whose result it ignores.
Failing(op) ==
    CASE platform = "drive"       -> {"error"}
      [] platform = "filesystem"  -> IF InMove(op) THEN {"error"}
                                     ELSE IF op = "mkdir" THEN {"error", "raise"} ELSE {"raise"}
      [] platform \in Stores      -> IF InMove(op) \/ op \in {"tag_source", "tag_copy"}
                                     THEN {"skip"} ELSE {"raise"}

\* A file that is gone is no reason for an object store to raise.
FindsNothing(c) ==
    /\ Op(c, "remove") /\ ~source /\ action = "delete" /\ platform \in {"gcs", "azure"}
    /\ Proceed(c)
    /\ UNCHANGED <<setup, file, waiting, pc, stage, queue, dlq, faults>>

\* Mutant: the source is removed though the copy has failed.
RestAfter_copy_ignored(op, todo) == Tail(todo)

\* A failed copy ends the move: the source is not removed.
RestAfter(op, todo) == IF op = "copy" THEN SubSeq(todo, 3, Len(todo)) ELSE Tail(todo)

\* The call cannot succeed: the file has gone meanwhile.
MustFail(op) ==
    /\ ~source
    /\ \/ op \in {"rename", "copy", "tag_source"}
       \/ op = "remove" /\ platform # "s3" /\ (Moves \/ platform \notin Stores)

Fails(c) ==
    /\ calls[c].todo \notin {<<>>, <<"start">>}
    /\ LET op == Head(calls[c].todo)
       IN  /\ IF MustFail(op) THEN UNCHANGED faults
              ELSE faults < MaxFaults /\ faults' = faults + 1
           /\ \/ "raise" \in Failing(op) /\ Answer(c, "raised")
              \/ "error" \in Failing(op) /\ Answer(c, "error")
              \/ "skip" \in Failing(op) /\ Todo(c, RestAfter(op, calls[c].todo))
    /\ UNCHANGED <<setup, file, waiting, pc, stage, queue, dlq>>

\* The connector process dies.
ConnectorDies(c) ==
    /\ calls[c].answer = "none"
    /\ faults < MaxFaults /\ faults' = faults + 1
    /\ Answer(c, "raised")
    /\ UNCHANGED <<setup, file, waiting, pc, stage, queue, dlq>>
-----------------------------------------------------------------------------
Worker(w) ==
    \/ Deliver(w) \/ Stub(w) \/ Refuse(w) \/ Call(w) \/ Answered(w) \/ Complete(w) \/ DeadLetter(w)

Handler(c) ==
    \/ Serve(c) \/ Check(c) \/ Remove(c) \/ MakeDirectory(c) \/ Rename(c) \/ RenameAcross(c)
    \/ Copy(c) \/ CopyPromised(c) \/ Tag(c) \/ FindsNothing(c) \/ Fails(c) \/ ConnectorDies(c)

Next ==
    \/ \E w \in Workers : Worker(w) \/ TimesOut(w) \/ WorkerDies(w)
    \/ \E c \in DOMAIN calls : Handler(c)
    \/ \E name \in arriving : CopyArrives(name)

Spec == Init /\ [][Next]_vars
-----------------------------------------------------------------------------
(***************************************************************************)
(* Properties.                                                             *)
(***************************************************************************)
\* A file is never lost while it is moved, wherever the calls of one handler or of several
\* are cut off: it is where it was found or in quarantine.  (Azure's copy is not waited for.)
ContentKept == (Moves /\ platform # "azure") => source \/ copies # {}

\* However often the action is carried out, one copy is in quarantine: the name does not
\* depend on the attempt.
QuarantinedOnce == Cardinality(copies) <= 1

\* An action that a connector has reported as done is done.  (The object stores ignore the
\* result of a move or a tagging, drives do not tag.)
SuccessIsReal ==
    (stage.outcome = "succeeded" /\ (action = "delete" \/ platform \notin Stores)) =>
        CASE action = "delete"  -> ~source
          [] action = "move"    -> ~source /\ copies # {}
          [] action = "movetag" -> /\ ~source
                                   /\ platform = "drive" \/ tagged \cap copies # {}
          [] action = "tag"     -> Source \in tagged
=============================================================================
