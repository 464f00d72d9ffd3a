---------------------------- MODULE ControlPlane ----------------------------
(***************************************************************************)
(* The control plane of dsx_connect_ng: the integration of one platform    *)
(* key, the leases of its connector instances and its protected scopes,    *)
(* as the requests of connectors and operators change them.  A handler is  *)
(* a coroutine that never suspends, so a process serves one request after  *)
(* the other; each action is one transaction of it, and only processes     *)
(* that share a PostgreSQL database interleave.  With the repository in    *)
(* memory there is one process, and what it knows ends with it.            *)
(*                                                                         *)
(* Rows of different integrations never meet, so one integration is        *)
(* enough; a registration that names another one is refused.               *)
(***************************************************************************)
EXTENDS Naturals, FiniteSets, Sequences, SequencesExt

CONSTANTS
    Processes,   \* API processes
    Instances,   \* connector instances of the integration
    Writers,     \* those of them with the capability "write"; all can "read"
    ScopeIds,    \* bound: the scopes that can be created
    Selectors,   \* what operators protect: a type and a selector, split at "/"
    Resources,   \* what is looked up: a type and a selector
    MaxUpdates,  \* bound: requests of operators that change the integration
    MaxFaults    \* bound: restarts of processes and connectors, late heartbeats

ASSUME ControlPlaneAssumption ==
    /\ IsFiniteSet(Processes) /\ IsFiniteSet(Instances) /\ Writers \subseteq Instances
    /\ {MaxUpdates, MaxFaults} \subseteq Nat

VARIABLES
    backend,      \* "postgres" or "memory"
    serving,      \* the processes there are
    integration,  \* the row of cp_integrations
    lease,        \* cp_connector_instances: is expires_at in the future?
    scopes,       \* cp_scopes
    alive,        \* the connector processes that run
    req,          \* the request each process serves
    intended,     \* history: what operators have last set and seen accepted
    updates, faults

rows == <<integration, lease, scopes>>
vars == <<backend, serving, rows, alive, req, intended, updates, faults>>

NoConfig == [reader |-> "none", delivery |-> FALSE, scanner |-> 0]
NoRow == [exists |-> FALSE, enabled |-> TRUE, config |-> NoConfig]
NoScope == [type |-> "none", selector |-> <<>>, enabled |-> FALSE]
NoScopes == [s \in ScopeIds |-> NoScope]
Idle == [kind |-> "none", pc |-> "idle", who |-> "none", arg |-> 0, row |-> NoRow]
-----------------------------------------------------------------------------
(***************************************************************************)
(* Selectors.                                                              *)
(***************************************************************************)
\* Empty parts of a path are dropped; an identity is taken as it is.
normalize_selector(type, raw) ==
    IF type = "identity" THEN raw ELSE SelectSeq(raw, LAMBDA part : part # "")

\* What is stored of a path is a sequence of names.
ASSUME SelectorAssumption ==
    \A x \in Selectors :
        x.type # "identity" => normalize_selector(x.type, x.raw) \in Seq(STRING)

\* Mutant: only a scope within an existing one overlaps it.
selectors_overlap_within(type, left, right) ==
    IF type = "identity" THEN left = right ELSE IsPrefix(left, right)

selectors_overlap(type, left, right) ==
    IF type = "identity" THEN left = right
    ELSE IsPrefix(left, right) \/ IsPrefix(right, left)

Scopes == {s \in ScopeIds : scopes[s] # NoScope}

Overlaps(type, selector, others) ==
    \E s \in others : /\ scopes[s].type = type
                      /\ selectors_overlap(type, scopes[s].selector, selector)

Covers(s, type, selector) ==
    /\ scopes[s].enabled /\ scopes[s].type = type
    /\ IF type = "identity" THEN scopes[s].selector = selector
                            ELSE IsPrefix(scopes[s].selector, selector)

\* match_scope takes the longest of these.
Matching(type, raw) == {s \in Scopes : Covers(s, type, normalize_selector(type, raw))}
-----------------------------------------------------------------------------
(***************************************************************************)
(* Requests.                                                               *)
(***************************************************************************)
Init ==
    /\ backend \in {"postgres", "memory"}
    /\ serving \in (SUBSET Processes) \ {{}}
    /\ backend = "memory" => Cardinality(serving) = 1
    /\ integration = NoRow
    /\ lease = [c \in Instances |-> "none"]
    /\ scopes = NoScopes
    /\ alive = {}
    /\ req = [p \in Processes |-> Idle]
    /\ intended = NoRow
    /\ updates = 0 /\ faults = 0

Request(kind, pc, who, arg) == [Idle EXCEPT !.kind = kind, !.pc = pc, !.who = who, !.arg = arg]

Take(p, kind, pc, who, arg) ==
    /\ p \in serving /\ req[p] = Idle
    /\ req' = [req EXCEPT ![p] = Request(kind, pc, who, arg)]

At(p, pc) == req[p].pc = pc
Goto(p, pc) == req' = [req EXCEPT ![p].pc = pc]
End(p) == req' = [req EXCEPT ![p] = Idle]

\* A connector awaits the answer to one request before it sends the next.
Unanswered(c) == \E p \in Processes : req[p].who = c

StartConnector(c) ==
    /\ c \notin alive
    /\ \A p \in serving : ~Unanswered(c)
    /\ \E p \in serving : Take(p, "register", "find", c, 0)
    /\ alive' = alive \cup {c}
    /\ UNCHANGED <<backend, serving, rows, intended, updates, faults>>

\* _heartbeat_loop, and the retry loop of a registration that failed.
Heartbeat(c) ==
    /\ c \in alive /\ ~Unanswered(c)
    /\ \E p \in serving : Take(p, "heartbeat", "renew", c, 0)
    /\ UNCHANGED <<backend, serving, rows, alive, intended, updates, faults>>

\* Operators: create_integration, the enabled switch and the scanner binding.
Operate(p) ==
    /\ updates < MaxUpdates
    /\ updates' = updates + 1
    /\ \/ Take(p, "create", "find", "none", updates')
       \/ \E b \in {0, 1} : Take(p, "enable", "merge", "none", b)
       \/ Take(p, "bind", "bind", "none", updates')
    /\ UNCHANGED <<backend, serving, rows, alive, intended, faults>>

NeedsReader(row) == row.config.reader = "none"
NeedsDelivery(c, row) == c \in Writers /\ ~row.config.delivery

\* Mutant: the defaults become the whole configuration.
WithDefaults_only(c, row) ==
    [row EXCEPT !.config = [reader |-> "default", delivery |-> c \in Writers, scanner |-> 0]]

\* The default reader and delivery are added to a copy of the configuration.
WithDefaults(c, row) ==
    [row EXCEPT !.config.reader = IF NeedsReader(row) THEN "default" ELSE @,
                !.config.delivery = @ \/ c \in Writers]

\* _ensure_reader_config_for_connector_registration, on the row just read.
Ensure(p, row, after) ==
    IF NeedsReader(row) \/ NeedsDelivery(req[p].who, row)
    THEN req' = [req EXCEPT ![p].pc = "merge", ![p].row = WithDefaults(req[p].who, row)]
    ELSE IF after = "idle" THEN End(p) ELSE Goto(p, after)

\* create_integration and register_connector_instance look for the platform key.
Find(p) ==
    /\ At(p, "find")
    /\ IF ~integration.exists THEN Goto(p, "insert")
       ELSE IF req[p].kind = "create" THEN End(p)   \* 409
       ELSE Ensure(p, integration, "upsert")
    /\ UNCHANGED <<backend, serving, rows, alive, intended, updates, faults>>

\* The INSERT fails if another process was faster (UNIQUE).
Insert(p) ==
    /\ At(p, "insert")
    /\ LET row == IF req[p].kind = "create"
                  THEN [NoRow EXCEPT !.exists = TRUE, !.config.reader = "native",
                                     !.config.scanner = req[p].arg]
                  ELSE WithDefaults(req[p].who, [NoRow EXCEPT !.exists = TRUE])
       IN  IF integration.exists
           THEN End(p) /\ UNCHANGED <<integration, intended>>
           ELSE /\ integration' = row
                /\ intended' = row
                /\ IF req[p].kind = "create" THEN End(p) ELSE Goto(p, "upsert")
    /\ UNCHANGED <<backend, serving, lease, scopes, alive, updates, faults>>

\* upsert_connector_instance.
Upsert(p) ==
    /\ At(p, "upsert")
    /\ lease' = [lease EXCEPT ![req[p].who] = "live"]
    /\ End(p)
    /\ UNCHANGED <<backend, serving, integration, scopes, alive, intended, updates, faults>>

\* Mutant: an instance that is not known is only told so.
Renew_refused(p) ==
    /\ At(p, "renew")
    /\ IF lease[req[p].who] = "none"
       THEN End(p) /\ UNCHANGED lease
       ELSE lease' = [lease EXCEPT ![req[p].who] = "live"] /\ Goto(p, "ensure")
    /\ UNCHANGED <<backend, serving, integration, scopes, alive, intended, updates, faults>>

\* heartbeat_connector_instance.  The connector answers a 404 with a registration,
\* which may reach another process.
Renew(p) ==
    /\ At(p, "renew")
    /\ IF lease[req[p].who] = "none"
       THEN /\ \E q \in serving :
                 /\ q = p \/ req[q] = Idle
                 /\ req' = [req EXCEPT ![p] = Idle, ![q] = Request("register", "find", req[p].who, 0)]
            /\ UNCHANGED lease
       ELSE lease' = [lease EXCEPT ![req[p].who] = "live"] /\ Goto(p, "ensure")
    /\ UNCHANGED <<backend, serving, integration, scopes, alive, intended, updates, faults>>

EnsureOnHeartbeat(p) ==
    /\ At(p, "ensure")
    /\ Ensure(p, integration, "idle")
    /\ UNCHANGED <<backend, serving, rows, alive, intended, updates, faults>>

\* The scanner binding is put into a copy of the configuration.
Bind(p) ==
    /\ At(p, "bind")
    /\ IF integration.exists
       THEN req' = [req EXCEPT ![p].pc = "merge", ![p].row = [integration EXCEPT !.config.scanner = req[p].arg]]
       ELSE End(p)
    /\ UNCHANGED <<backend, serving, rows, alive, intended, updates, faults>>

\* update_integration reads the row again and puts what is to change into it ...
Merge(p) ==
    /\ At(p, "merge")
    /\ LET merged == IF req[p].kind = "enable"
                     THEN [integration EXCEPT !.enabled = (req[p].arg = 1)]
                     ELSE [integration EXCEPT !.config = req[p].row.config]
       IN  IF integration.exists
           THEN req' = [req EXCEPT ![p].pc = "write", ![p].row = merged]
           ELSE End(p)
    /\ UNCHANGED <<backend, serving, rows, alive, intended, updates, faults>>

\* ... and writes all of it.
Write(p) ==
    /\ At(p, "write")
    /\ integration' = req[p].row
    /\ intended' = CASE req[p].kind = "enable" -> [intended EXCEPT !.enabled = (req[p].arg = 1)]
                     [] req[p].kind = "bind"   -> [intended EXCEPT !.config.scanner = req[p].arg]
                     [] OTHER                  -> intended
    /\ IF req[p].kind = "register" THEN Goto(p, "upsert") ELSE End(p)
    /\ UNCHANGED <<backend, serving, lease, scopes, alive, updates, faults>>
-----------------------------------------------------------------------------
(***************************************************************************)
(* Scopes.  The argument of a request is what to protect, or which scope   *)
(* to switch on or off.                                                    *)
(***************************************************************************)
OperateScopes(p) ==
    /\ updates < MaxUpdates
    /\ updates' = updates + 1
    /\ integration.exists
    /\ \/ \E x \in Selectors : Take(p, "protect", "check", "none", x)
       \/ \E s \in Scopes : Take(p, "toggle", "check", "none", s)
    /\ UNCHANGED <<backend, serving, rows, alive, intended, faults>>

\* _validate_overlap: a scope that overlaps another one is refused, 409.
Check(p) ==
    /\ At(p, "check")
    /\ LET x == req[p].arg
           refused == IF req[p].kind = "protect"
                      THEN Overlaps(x.type, normalize_selector(x.type, x.raw), Scopes)
                      ELSE Overlaps(scopes[x].type, scopes[x].selector, Scopes \ {x})
       IN  IF refused THEN End(p) ELSE Goto(p, "store")
    /\ UNCHANGED <<backend, serving, rows, alive, intended, updates, faults>>

\* The repository's create_scope or update_scope.
Store(p) ==
    /\ At(p, "store")
    /\ LET x == req[p].arg
       IN  IF req[p].kind = "protect"
           THEN \E s \in ScopeIds \ Scopes :
                  scopes' = [scopes EXCEPT ![s] = [type |-> x.type, enabled |-> TRUE,
                                                   selector |-> normalize_selector(x.type, x.raw)]]
           ELSE scopes' = [scopes EXCEPT ![x].enabled = ~@]
    /\ End(p)
    /\ UNCHANGED <<backend, serving, integration, lease, alive, intended, updates, faults>>
-----------------------------------------------------------------------------
(***************************************************************************)
(* What happens to them.                                                   *)
(***************************************************************************)
\* A connector process ends without a word.
StopConnector(c) ==
    /\ c \in alive /\ faults < MaxFaults
    /\ alive' = alive \ {c} /\ faults' = faults + 1
    /\ UNCHANGED <<backend, serving, rows, req, intended, updates>>

\* expires_at passes: of a connector that is gone, or whose heartbeats are late.
Expire(c) ==
    /\ lease[c] = "live"
    /\ IF c \in alive THEN faults < MaxFaults /\ faults' = faults + 1
                      ELSE ~Unanswered(c) /\ UNCHANGED faults
    /\ lease' = [lease EXCEPT ![c] = "expired"]
    /\ UNCHANGED <<backend, serving, integration, scopes, alive, req, intended, updates>>

\* A process starts anew; a repository in memory starts empty.
Restart(p) ==
    /\ p \in serving /\ faults < MaxFaults
    /\ faults' = faults + 1
    /\ End(p)
    /\ IF backend = "memory"
       THEN /\ integration' = NoRow /\ intended' = NoRow /\ scopes' = NoScopes
            /\ lease' = [c \in Instances |-> "none"]
       ELSE UNCHANGED <<rows, intended>>
    /\ UNCHANGED <<backend, serving, alive, updates>>

Serve(p) ==
    \/ Find(p) \/ Insert(p) \/ Upsert(p) \/ Renew(p) \/ EnsureOnHeartbeat(p)
    \/ Bind(p) \/ Merge(p) \/ Write(p) \/ Check(p) \/ Store(p)

Next ==
    \/ \E p \in Processes : Serve(p) \/ Operate(p) \/ OperateScopes(p) \/ Restart(p)
    \/ \E c \in Instances : StartConnector(c) \/ Heartbeat(c) \/ StopConnector(c) \/ Expire(c)

Spec == Init /\ [][Next]_vars

\* A handler runs to its end.  Strong fairness for heartbeats: a process that is
\* busy makes a connector wait, and serves its connections in turn.
Fairness ==
    /\ \A p \in Processes : WF_vars(Serve(p))
    /\ \A c \in Instances : SF_vars(Heartbeat(c)) /\ WF_vars(c \notin alive /\ Expire(c))

FairSpec == Spec /\ Fairness
-----------------------------------------------------------------------------
(***************************************************************************)
(* Properties.                                                             *)
(***************************************************************************)
\* With one API process no resource ever has two enabled scopes to answer for it,
\* in whatever order scopes were made and switched: match_scope has nothing to choose.
OneOwner ==
    Cardinality(serving) = 1 =>
        \A r \in Resources : Cardinality(Matching(r.type, r.raw)) <= 1

\* With one API process a registration or a heartbeat that completes the configuration
\* never undoes what an operator has set.
ConfigKept ==
    Cardinality(serving) = 1 =>
        /\ integration.enabled = intended.enabled
        /\ integration.config.scanner = intended.config.scanner

\* Through restarts, lost registrations, late heartbeats and stale writes of another
\* process: in the end exactly the connectors that run have a live lease, and the
\* configuration lets items be read from and delivered to them.
LeasesHeal ==
    <>[](/\ \A c \in Instances : (lease[c] = "live") = (c \in alive)
         /\ alive # {} => integration.exists /\ ~NeedsReader(integration)
         /\ \A c \in alive : ~NeedsDelivery(c, integration))
=============================================================================
