---------------------------- MODULE DriveChanges ----------------------------
(***************************************************************************)
(* How the connectors for Microsoft 365 (OneDrive, SharePoint, mail) turn  *)
(* changes into scan requests: by the notifications of Graph, and by delta *)
(* queries from a cursor that dsx-connect keeps for them.                  *)
(*                                                                         *)
(* Graph is what the connectors make of it: a log of changed items, delta  *)
(* queries that return the items changed since a position in the log, and  *)
(* a subscription that sends a notification for each change, which names   *)
(* the item, has no data, or has data without an id.  The connector's      *)
(* process answers notifications concurrently; a lock is held by one delta *)
(* query at a time.  A scan request for an item covers the changes made    *)
(* before it.                                                              *)
(***************************************************************************)
EXTENDS Integers, Sequences, FiniteSets

CONSTANTS
    Services,       \* among "onedrive", "sharepoint", "mail"
    Items,
    Handlers,       \* notifications handled at a time
    MaxChanges,     \* bound: changes
    FaultKinds,     \* among "note", "post", "store", "fetch", "crash", "subscription"
    MaxFaults       \* bound: faults, one of a kind
VARIABLES
    service, log, subscribed, notes,  \* Graph
    store,          \* the cursor that dsx-connect keeps
    cache,          \* the connector's copy of it
    proc,           \* the connector's process: down, starting or up
    task,           \* its handlers, and the loop that runs from its start
    requested,      \* per item: the changes made before its last scan request
    heard,          \* changes whose notifications were answered with a request or a query
    dropped,        \* changes that the code lets go, see NothingSkipped
    faults

graph == <<service, log, subscribed, notes>>
vars == <<graph, store, cache, proc, task, requested, heard, dropped, faults>>

Loop == "loop"
Tasks == Handlers \cup {Loop}

None == -1
Idle == [pc |-> "idle", batch |-> {}, seen |-> {}, todo |-> {}, cursor |-> None, fetched |-> 0]

Data == {"item", "none", "empty"}
Note == [change : 1 .. MaxChanges, data : Data]

Init ==
    /\ service \in Services
    /\ log = <<>> /\ subscribed = FALSE /\ notes = {}
    /\ store = None /\ cache = None /\ proc = "down"
    /\ task = [t \in Tasks |-> Idle]
    /\ requested = [i \in Items |-> 0]
    /\ heard = {} /\ dropped = {}
    /\ faults = {}

Fault(kind) ==
    /\ kind \in FaultKinds \ faults
    /\ Cardinality(faults) < MaxFaults
    /\ faults' = faults \cup {kind}
-----------------------------------------------------------------------------
(***************************************************************************)
(* Graph.                                                                  *)
(***************************************************************************)
\* A message in a mailbox is always named, a driveItem may be.  (OneDrive makes no difference
\* between no data and data without an id.)
Change(i, data) ==
    /\ Len(log) < MaxChanges
    /\ service = "mail" => data = "item"
    /\ data = "empty" => service = "sharepoint"
    /\ log' = Append(log, i)
    /\ notes' = IF subscribed THEN notes \cup {[change |-> Len(log) + 1, data |-> data]} ELSE notes
    /\ UNCHANGED <<service, subscribed, store, cache, proc, task, requested, heard, dropped, faults>>

Lose(n) ==
    /\ Fault("note")
    /\ notes' = notes \ {n}
    /\ UNCHANGED <<service, log, subscribed, store, cache, proc, task, requested, heard, dropped>>

\* Nothing renews the subscription while the connector is down.
Lapse ==
    /\ subscribed
    /\ IF proc = "down" THEN UNCHANGED faults ELSE Fault("subscription")
    /\ subscribed' = FALSE
    /\ UNCHANGED <<service, log, notes, store, cache, proc, task, requested, heard, dropped>>

\* reconcile, from the subscription loop: a failure is tried again at the next round.
Reconcile ==
    /\ proc = "up" /\ ~subscribed
    /\ subscribed' = TRUE
    /\ UNCHANGED <<service, log, notes, store, cache, proc, task, requested, heard, dropped, faults>>
-----------------------------------------------------------------------------
(***************************************************************************)
(* The state API, and the steps of a task.                                 *)
(***************************************************************************)
\* _kv_get, _kv_put: the drives fall back on their copy, mail has none.
Found(value) == IF value # None THEN value ELSE cache
Keep(value) == cache' = IF service = "mail" \/ value = None THEN cache ELSE value

Goto(t, l) == task' = [task EXCEPT ![t].pc = l]

Changed(lo, hi) == {log[k] : k \in (IF lo = None THEN 1 ELSE lo + 1) .. hi}

\* The changes after a position whose items have not been requested since.
Unrequested(lo, hi) ==
    {k \in (IF lo = None THEN 1 ELSE lo + 1) .. hi : requested[log[k]] < k}

Answer(batch) == heard' = heard \cup {n.change : n \in batch}

Queries(t) == task[t].pc \in {"fetch", "put", "enqueue"}
Unlocked == \A t \in Tasks : ~Queries(t)
-----------------------------------------------------------------------------
(***************************************************************************)
(* Startup and shutdown.                                                   *)
(***************************************************************************)
\* startup_event: the drives see to it that there is a cursor, before anything is served.
StartDrive ==
    /\ proc = "down" /\ service # "mail"
    /\ proc' = "starting" /\ Goto(Loop, "init")
    /\ UNCHANGED <<graph, store, cache, requested, heard, dropped, faults>>

StartMail ==
    /\ proc = "down" /\ service = "mail"
    /\ proc' = "up"
    /\ UNCHANGED <<graph, store, cache, task, requested, heard, dropped, faults>>

Started == proc' = "up" /\ Goto(Loop, "idle")

\* _initialize_delta_cursor: a cursor that cannot be read is taken for none.
InitGet ==
    /\ task[Loop].pc = "init"
    /\ \/ /\ store # None
          /\ Keep(store) /\ Started
          /\ UNCHANGED faults
       \/ /\ IF store = None THEN UNCHANGED faults ELSE Fault("store")
          /\ Goto(Loop, "baseline")
          /\ UNCHANGED <<cache, proc>>
    /\ UNCHANGED <<graph, store, requested, heard, dropped>>

Baseline ==
    /\ task[Loop].pc = "baseline"
    /\ \/ /\ task' = [task EXCEPT ![Loop].pc = "init_put", ![Loop].fetched = Len(log)]
          /\ UNCHANGED <<proc, faults>>
       \/ Fault("fetch") /\ Started
    /\ UNCHANGED <<graph, store, cache, requested, heard, dropped>>

\* What was changed before is not asked for.
InitPut ==
    /\ task[Loop].pc = "init_put"
    /\ \/ store' = task[Loop].fetched /\ UNCHANGED faults
       \/ Fault("store") /\ UNCHANGED store
    /\ Keep(task[Loop].fetched) /\ Started
    /\ dropped' = dropped \cup Unrequested(None, task[Loop].fetched)
    /\ UNCHANGED <<graph, requested, heard>>

\* shutdown_event, or the process dies: Graph repeats what has not been answered.
Stop ==
    /\ proc # "down" /\ Fault("crash")
    /\ proc' = "down" /\ cache' = None
    /\ task' = [t \in Tasks |-> Idle]
    /\ notes' = notes \cup UNION {task[t].batch : t \in Tasks}
    /\ dropped' = dropped \cup
         {k \in DOMAIN log : \E t \in Tasks :
             task[t].pc = "enqueue" /\ service # "mail"
               /\ log[k] \in task[t].todo /\ k <= task[t].fetched}
    /\ UNCHANGED <<service, log, subscribed, store, requested, heard>>
-----------------------------------------------------------------------------
(***************************************************************************)
(* webhook_handler.                                                        *)
(***************************************************************************)
\* A notification may come more than once.  (Handlers are alike: one of the idle ones.)
Receive(t, batch) ==
    /\ proc = "up" /\ batch # {}
    /\ t \in Handlers /\ task[t].pc = "idle"
    /\ t = CHOOSE h \in Handlers : task[h].pc = "idle"
    /\ LET named == {log[n.change] : n \in {m \in batch : m.data = "item"}}
       IN  task' = [task EXCEPT ![t].pc = "direct", ![t].batch = batch,
                              ![t].seen = named, ![t].todo = named]
    /\ \/ notes' = notes \ batch /\ UNCHANGED faults
       \/ UNCHANGED notes /\ Fault("note")
    /\ UNCHANGED <<service, log, subscribed, store, cache, proc, requested, heard, dropped>>

\* scan_file_request.
Post(t, i) ==
    /\ task[t].pc \in {"direct", "enqueue"} /\ i \in task[t].todo
    /\ requested' = [requested EXCEPT ![i] = Len(log)]
    /\ task' = [task EXCEPT ![t].todo = @ \ {i}]
    /\ UNCHANGED <<graph, store, cache, proc, heard, dropped, faults>>

\* A request that is refused is answered with a status, which nobody looks at.
Refused(t, i) ==
    /\ task[t].pc \in {"direct", "enqueue"} /\ i \in task[t].todo
    /\ Fault("post")
    /\ dropped' = dropped \cup {k \in DOMAIN log : log[k] = i}
    /\ task' = [task EXCEPT ![t].todo = @ \ {i}]
    /\ UNCHANGED <<graph, store, cache, proc, requested, heard>>

AllPosted(t) == task[t].pc = "direct" /\ task[t].todo = {}

\* OneDrive queries the changes before it answers.
PostedOneDrive(t) ==
    /\ service = "onedrive" /\ AllPosted(t)
    /\ Goto(t, "get")
    /\ UNCHANGED <<graph, store, cache, proc, requested, heard, dropped, faults>>

\* Mutant: SharePoint queries only if no notification named an item.
PostedSharePoint_unnamed(t) ==
    /\ service = "sharepoint" /\ AllPosted(t)
    /\ \/ /\ task[t].seen = {}
          /\ Answer(task[t].batch)
          /\ task' = [task EXCEPT ![t].pc = "get", ![t].batch = {}]
       \/ /\ task[t].seen # {}
          /\ Answer({n \in task[t].batch : n.data # "empty"})
          /\ task' = [task EXCEPT ![t] = Idle]
    /\ UNCHANGED <<graph, store, cache, proc, requested, dropped, faults>>

\* SharePoint queries afterwards: always if a notification has no data or none names an item,
\* otherwise only if it cannot find out where a named item is.  Without a query, nothing is
\* done about a notification whose data has no id.
PostedSharePoint(t) ==
    /\ service = "sharepoint" /\ AllPosted(t)
    /\ \/ /\ Answer(task[t].batch)
          /\ task' = [task EXCEPT ![t].pc = "get", ![t].batch = {}]
       \/ /\ task[t].seen # {} /\ \A n \in task[t].batch : n.data # "none"
          /\ Answer({n \in task[t].batch : n.data = "item"})
          /\ task' = [task EXCEPT ![t] = Idle]
    /\ UNCHANGED <<graph, store, cache, proc, requested, dropped, faults>>

PostedMail(t) ==
    /\ service = "mail" /\ AllPosted(t)
    /\ Answer(task[t].batch)
    /\ task' = [task EXCEPT ![t] = Idle]
    /\ UNCHANGED <<graph, store, cache, proc, requested, dropped, faults>>
-----------------------------------------------------------------------------
(***************************************************************************)
(* _run_delta_sync, _run_delta_for_mailbox.                                *)
(***************************************************************************)
\* The loop of the mail connector.  A run that a notification kicks off is one that comes early.
Poll ==
    /\ service = "mail" /\ proc = "up" /\ task[Loop].pc = "idle"
    /\ Goto(Loop, "get")
    /\ UNCHANGED <<graph, store, cache, proc, requested, heard, dropped, faults>>

Get(t) ==
    /\ task[t].pc = "get" /\ Unlocked
    /\ \/ /\ task' = [task EXCEPT ![t].pc = "fetch", ![t].cursor = Found(store)]
          /\ Keep(store)
          /\ UNCHANGED faults
       \/ /\ Fault("store")
          /\ task' = [task EXCEPT ![t].pc = "fetch", ![t].cursor = cache]
          /\ UNCHANGED cache
    /\ UNCHANGED <<graph, store, proc, requested, heard, dropped>>

\* Without a cursor the query returns every item.  What the handler has asked for itself is
\* left out, though it may have changed again.
Fetch(t) ==
    /\ task[t].pc = "fetch"
    /\ task' = [task EXCEPT ![t].pc = IF service = "mail" THEN "enqueue" ELSE "put",
                            ![t].fetched = Len(log),
                            ![t].todo = Changed(task[t].cursor, Len(log)) \ task[t].seen]
    /\ dropped' = dropped \cup
         {k \in Unrequested(task[t].cursor, Len(log)) : log[k] \in task[t].seen}
    /\ UNCHANGED <<graph, store, cache, proc, requested, heard, faults>>

Ends(t) == Answer(task[t].batch) /\ task' = [task EXCEPT ![t] = Idle]

FetchFails(t) ==
    /\ task[t].pc = "fetch" /\ Fault("fetch")
    /\ Ends(t)
    /\ UNCHANGED <<graph, store, cache, proc, requested, dropped>>

StoreCursor(t, position) ==
    /\ \/ store' = position /\ UNCHANGED faults
       \/ Fault("store") /\ UNCHANGED store
    /\ Keep(position)

\* Mutant: the position of the log by now.
PutDrive_latest(t) ==
    /\ task[t].pc = "put" /\ service # "mail"
    /\ StoreCursor(t, Len(log))
    /\ Goto(t, "enqueue")
    /\ UNCHANGED <<graph, proc, requested, heard, dropped>>

\* A cursor that cannot be stored is kept in the process only.
PutDrive(t) ==
    /\ task[t].pc = "put" /\ service # "mail"
    /\ StoreCursor(t, task[t].fetched)
    /\ Goto(t, "enqueue")
    /\ UNCHANGED <<graph, proc, requested, heard, dropped>>

\* process_drive_delta_items returns.
EnqueuedDrive(t) ==
    /\ task[t].pc = "enqueue" /\ task[t].todo = {} /\ service # "mail"
    /\ Ends(t)
    /\ UNCHANGED <<graph, store, cache, proc, requested, dropped, faults>>

\* Mail asks for the scans first, and stores its cursor only then.
EnqueuedMail(t) ==
    /\ task[t].pc = "enqueue" /\ task[t].todo = {} /\ service = "mail"
    /\ Goto(t, "put")
    /\ UNCHANGED <<graph, store, cache, proc, requested, heard, dropped, faults>>

PutMail(t) ==
    /\ task[t].pc = "put" /\ service = "mail"
    /\ StoreCursor(t, task[t].fetched)
    /\ Ends(t)
    /\ UNCHANGED <<graph, proc, requested, dropped>>
-----------------------------------------------------------------------------
Step(t) ==
    \/ \E batch \in SUBSET notes : Receive(t, batch)
    \/ \E i \in Items : Post(t, i)
    \/ PostedOneDrive(t) \/ PostedSharePoint(t) \/ PostedMail(t)
    \/ Get(t) \/ Fetch(t)
    \/ PutDrive(t) \/ EnqueuedDrive(t) \/ EnqueuedMail(t) \/ PutMail(t)

Boot == StartDrive \/ StartMail \/ InitGet \/ Baseline \/ InitPut

Disturb ==
    \/ Stop \/ Lapse
    \/ \E n \in notes : Lose(n)
    \/ \E t \in Tasks : FetchFails(t) \/ \E i \in Items : Refused(t, i)

Next ==
    \/ \E i \in Items, data \in Data : Change(i, data)
    \/ Boot \/ Reconcile \/ Poll \/ Disturb
    \/ \E t \in Tasks : Step(t)

Spec == Init /\ [][Next]_vars

\* The process is restarted, its loops and tasks go on, Graph repeats its notifications.
FairSpec ==
    /\ Spec
    /\ WF_vars(Boot) /\ WF_vars(Reconcile) /\ WF_vars(Poll)
    /\ \A t \in Tasks : WF_vars(Step(t))
-----------------------------------------------------------------------------
(***************************************************************************)
(* Properties.                                                             *)
(***************************************************************************)
\* A drive's delta query is still asking for a change that it has fetched.
InHand(k) ==
    /\ service # "mail"
    /\ \E t \in Tasks : /\ task[t].pc = "enqueue" /\ k <= task[t].fetched
                        /\ log[k] \in task[t].todo

\* No cursor, kept by dsx-connect or by the connector, is past a change whose item has not been
\* asked for since and is not being asked for, whatever is lost, repeated, restarted or refused.
\* The code lets a change go at four places only: before its first cursor, when a request is
\* refused, when an item changes between a notification's request and its query, and when a
\* drive's connector stops between the cursor and the requests.
NothingSkipped ==
    \A c \in {store, cache} : \A k \in Unrequested(None, c) \ dropped : InHand(k)

\* The changes that somebody is told of: in a mailbox all of them, by the loop; on OneDrive
\* those up to one that was notified of; on SharePoint that one, if the connector does anything
\* about its notification: it skips one with data but no id that comes beside a named one.
Owed(k) ==
    CASE service = "mail"       -> TRUE
      [] service = "onedrive"   -> \E j \in heard : k <= j
      [] service = "sharepoint" -> k \in heard

\* They are asked for in the end, through lost and repeated notifications, stores that fail
\* and restarts.  (A query that fails is not repeated before the next notification, and
\* SharePoint has answered before it queries.)
CatchesUp ==
    <>[](\A k \in DOMAIN log : Owed(k) =>
           \/ requested[log[k]] >= k \/ k \in dropped
           \/ service # "mail" /\ "fetch" \in faults
           \/ service = "sharepoint" /\ "crash" \in faults)

\* A missed notification is made good by the delta query of a later one.
MissedEventsRecovered ==
    <>[](\A k \in DOMAIN log : (\E j \in heard : k <= j) =>
           requested[log[k]] >= k \/ k \in dropped)
=============================================================================
