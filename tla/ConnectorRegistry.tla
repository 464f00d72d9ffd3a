------------------------- MODULE ConnectorRegistry -------------------------
(***************************************************************************)
(* How the API processes of dsx_connect know a connector: its presence key *)
(* in Redis, with a lifetime that the connector's heartbeats renew, and a  *)
(* cache in every process, fed by a publish/subscribe channel and swept    *)
(* when the presence key is gone.  Nothing orders the key, the channel and *)
(* the caches; what the code relies on is that they meet again.            *)
(*                                                                         *)
(* One connector is enough: entries of different identifiers never meet.   *)
(* It is started up to MaxGen times and keeps its identifier; what it      *)
(* registers the g-th time (its address, its state) is generation g.       *)
(***************************************************************************)
EXTENDS Naturals, Sequences, SequencesExt

CONSTANTS
  Apps,           \* API processes, each with a registry
  MaxGen,         \* bound: times the connector is started
  MaxLag,         \* bound: messages of the channel a process may lag behind
  MaxFaults       \* bound: API processes that die, health checks that a running
                  \* connector fails, refreshes that Redis refuses

VARIABLES
  conn,           \* the connector: its generation, alive or not, registered or not
  presence,       \* the presence key in Redis: a generation, or Absent
  cache,          \* per process: what _by_id holds for the connector
  app,            \* per process: down, validating (at startup), serving, up (serving
                  \* and subscribed to the channel)
  inbox,          \* per process: channel messages not handled yet
  sweep,          \* per process: where the sweeper (or the startup validation) is
  request,        \* the registration or unregistration in progress
  faults

vars == <<conn, presence, cache, app, inbox, sweep, request, faults>>

Absent == 0
Generations == 1..MaxGen
Entry == Generations \cup {Absent}
Quiet == [pc |-> "none", model |-> Absent]
NoRequest == [pc |-> "none", app |-> "none"]

Init ==
  /\ conn = [gen |-> 0, alive |-> FALSE, known |-> FALSE]
  /\ presence = Absent
  /\ cache = [a \in Apps |-> Absent]
  /\ app = [a \in Apps |-> "down"]
  /\ inbox = [a \in Apps |-> <<>>]
  /\ sweep = [a \in Apps |-> Quiet]
  /\ request = NoRequest
  /\ faults = 0

\* Only processes that have subscribed get a message.  Handling the same
\* message twice in a row is handling it once.
Repeats(a, m) == inbox[a] # <<>> /\ Last(inbox[a]) = m
Publish(m) ==
  LET hearing == {a \in Apps : app[a] = "up" /\ ~Repeats(a, m)} IN
    /\ \A a \in hearing : Len(inbox[a]) < MaxLag
    /\ inbox' = [a \in Apps |-> IF a \in hearing THEN Append(inbox[a], m) ELSE inbox[a]]

Serves(a) == app[a] \in {"serving", "up"}

-----------------------------------------------------------------------------
(* The connector.                                                           *)

\* Starting takes longer than a route takes to serve the last request.
Start ==
  /\ ~conn.alive /\ conn.gen < MaxGen /\ request = NoRequest
  /\ conn' = [gen |-> conn.gen + 1, alive |-> TRUE, known |-> FALSE]
  /\ UNCHANGED <<presence, cache, app, inbox, sweep, request, faults>>

\* A registration, at startup and then as heartbeat: one request at a time.
Heartbeat(a) ==
  /\ conn.alive /\ request = NoRequest /\ Serves(a)
  /\ request' = [pc |-> "set", app |-> a]
  /\ UNCHANGED <<conn, presence, cache, app, inbox, sweep, faults>>

\* Shutting down unregisters; dying does not.
Stop(a) ==
  /\ conn.alive /\ request = NoRequest /\ Serves(a)
  /\ conn' = [conn EXCEPT !.alive = FALSE]
  /\ request' = [pc |-> "delete", app |-> a]
  /\ UNCHANGED <<presence, cache, app, inbox, sweep, faults>>

Die ==
  /\ conn.alive
  /\ conn' = [conn EXCEPT !.alive = FALSE]
  /\ UNCHANGED <<presence, cache, app, inbox, sweep, request, faults>>

-----------------------------------------------------------------------------
(* The routes.                                                              *)

Advance(pc) == request' = [request EXCEPT !.pc = pc]

\* register_or_refresh_connector: the new payload replaces the old one.
SetPresence ==
  /\ request.pc = "set"
  /\ presence' = conn.gen
  /\ conn' = [conn EXCEPT !.known = TRUE]
  /\ Advance("announce")
  /\ UNCHANGED <<cache, app, inbox, sweep, faults>>

\* The route publishes, then puts the model into the cache of its own process.
Announce ==
  /\ request.pc = "announce"
  /\ Publish(conn.gen)
  /\ cache' = [cache EXCEPT ![request.app] = conn.gen]
  /\ request' = NoRequest
  /\ UNCHANGED <<conn, presence, app, sweep, faults>>

DeletePresence ==
  /\ request.pc = "delete"
  /\ presence' = Absent
  /\ Advance("withdraw")
  /\ UNCHANGED <<conn, cache, app, inbox, sweep, faults>>

Withdraw ==
  /\ request.pc = "withdraw"
  /\ Publish(Absent)
  /\ cache' = [cache EXCEPT ![request.app] = Absent]
  /\ request' = NoRequest
  /\ UNCHANGED <<conn, presence, app, sweep, faults>>

\* get reads Redis and keeps what it finds.
Lookup(a) ==
  /\ Serves(a) /\ presence # Absent
  /\ cache' = [cache EXCEPT ![a] = presence]
  /\ UNCHANGED <<conn, presence, app, inbox, sweep, request, faults>>

-----------------------------------------------------------------------------
(* The registry of one process.                                             *)

\* start: load, validate what was loaded, and only then serve, listen and sweep.
\* (Processes that are down are alike: one of them.)
Load(a) ==
  /\ app[a] = "down" /\ a = (CHOOSE b \in Apps : app[b] = "down")
  /\ cache' = [cache EXCEPT ![a] = presence]
  /\ app' = [app EXCEPT ![a] = IF presence = Absent THEN "serving" ELSE "validating"]
  /\ sweep' = [sweep EXCEPT ![a] = IF presence = Absent THEN Quiet
                                   ELSE [pc |-> "check", model |-> presence]]
  /\ UNCHANGED <<conn, presence, inbox, request, faults>>

\* The listener.  Of what was published before it has subscribed it never hears.
Subscribe(a) ==
  /\ app[a] = "serving"
  /\ app' = [app EXCEPT ![a] = "up"]
  /\ UNCHANGED <<conn, presence, cache, inbox, sweep, request, faults>>

Listen(a) ==
  /\ app[a] = "up" /\ inbox[a] # <<>>
  /\ cache' = [cache EXCEPT ![a] = Head(inbox[a])]
  /\ inbox' = [inbox EXCEPT ![a] = Tail(@)]
  /\ UNCHANGED <<conn, presence, app, sweep, request, faults>>

SweepGoto(a, pc) == sweep' = [sweep EXCEPT ![a].pc = pc]
SweepEnds(a) ==
  /\ sweep' = [sweep EXCEPT ![a] = Quiet]
  /\ app' = [app EXCEPT ![a] = IF @ = "validating" THEN "serving" ELSE @]

\* The sweeper goes through a copy of its cache and checks what has no key.
SweepList(a) ==
  /\ Serves(a) /\ sweep[a].pc = "none" /\ cache[a] # Absent /\ presence = Absent
  /\ sweep' = [sweep EXCEPT ![a] = [pc |-> "check", model |-> cache[a]]]
  /\ UNCHANGED <<conn, presence, cache, app, inbox, request, faults>>

\* Mutant: the answer is not looked at.
Healthy_assumed(a) ==
  /\ sweep[a].pc = "check"
  /\ IF app[a] = "validating"
       THEN SweepEnds(a)
       ELSE SweepGoto(a, "refresh") /\ UNCHANGED app
  /\ UNCHANGED <<conn, presence, cache, inbox, request, faults>>

\* A health check of the address in the copied model.  A later generation
\* may or may not answer there.
Healthy(a) ==
  /\ sweep[a].pc = "check" /\ conn.alive
  /\ IF app[a] = "validating"
       THEN SweepEnds(a)
       ELSE SweepGoto(a, "refresh") /\ UNCHANGED app
  /\ UNCHANGED <<conn, presence, cache, inbox, request, faults>>

Unhealthy(a) ==
  /\ sweep[a].pc = "check"
  /\ IF conn.alive /\ conn.gen = sweep[a].model
       THEN faults < MaxFaults /\ faults' = faults + 1
       ELSE UNCHANGED faults
  /\ SweepGoto(a, "evict")
  /\ UNCHANGED <<conn, presence, cache, app, inbox, request>>

\* _refresh_connector_ttl writes the copied model back.
Refresh(a) ==
  /\ sweep[a].pc = "refresh"
  /\ presence' = sweep[a].model
  /\ SweepEnds(a)
  /\ UNCHANGED <<conn, cache, inbox, request, faults>>

\* Redis refuses the key: the process only forgets the connector.
RefreshFails(a) ==
  /\ sweep[a].pc = "refresh" /\ faults < MaxFaults
  /\ faults' = faults + 1
  /\ cache' = [cache EXCEPT ![a] = Absent]
  /\ SweepEnds(a)
  /\ UNCHANGED <<conn, presence, inbox, request>>

\* _evict_connector: cache and key, then the channel.
Evict(a) ==
  /\ sweep[a].pc = "evict"
  /\ cache' = [cache EXCEPT ![a] = Absent]
  /\ presence' = Absent
  /\ SweepGoto(a, "tell")
  /\ UNCHANGED <<conn, app, inbox, request, faults>>

EvictTell(a) ==
  /\ sweep[a].pc = "tell"
  /\ Publish(Absent)
  /\ SweepEnds(a)
  /\ UNCHANGED <<conn, presence, cache, request, faults>>

-----------------------------------------------------------------------------
(* What happens to them.                                                    *)

\* The key lives for 120 s after a registration and for 300 s after a refresh,
\* and the heartbeats of a running connector come every 60 s: it does not run
\* out on a connector that has registered and goes on.
Expire ==
  /\ presence # Absent
  /\ ~(conn.alive /\ conn.known)
  /\ presence' = Absent
  /\ UNCHANGED <<conn, cache, app, inbox, sweep, request, faults>>

\* An API process dies, with the request it was serving.
Restart(a) ==
  /\ app[a] # "down" /\ faults < MaxFaults
  /\ app' = [app EXCEPT ![a] = "down"]
  /\ cache' = [cache EXCEPT ![a] = Absent]
  /\ inbox' = [inbox EXCEPT ![a] = <<>>]
  /\ sweep' = [sweep EXCEPT ![a] = Quiet]
  /\ request' = IF request.app = a THEN NoRequest ELSE request
  /\ faults' = faults + 1
  /\ UNCHANGED <<conn, presence>>

Serve == SetPresence \/ Announce \/ DeletePresence \/ Withdraw
Sweep(a) ==
  SweepList(a) \/ Healthy(a) \/ Unhealthy(a) \/ Refresh(a) \/ Evict(a) \/ EvictTell(a)

Next ==
  \/ Start \/ Die \/ Expire \/ Serve
  \/ \E a \in Apps :
       \/ Heartbeat(a) \/ Stop(a) \/ Lookup(a) \/ Load(a)
       \/ Subscribe(a) \/ Listen(a) \/ Sweep(a) \/ RefreshFails(a) \/ Restart(a)

Spec == Init /\ [][Next]_vars

\* Every loop of the code goes on, and keys that nobody renews run out.  Strong
\* fairness because MaxLag, and nothing in the code, makes a publisher wait.
Fairness ==
  /\ WF_vars(Expire)
  /\ WF_vars(\E a \in Apps : Heartbeat(a))
  /\ SF_vars(Serve)
  /\ \A a \in Apps : WF_vars(Load(a) \/ Subscribe(a) \/ Listen(a)) /\ SF_vars(Sweep(a))

FairSpec == Spec /\ Fairness

-----------------------------------------------------------------------------
\* A connector that goes on running is at last known, as it now is, to every API process
\* for good, and one that is gone is forgotten everywhere: no stale message, sweep, late
\* lookup, eviction or restart has the last word.  (It is started MaxGen times at most, so
\* at some point it does the one or the other for good.)
CachesConverge ==
    <>[](IF conn.alive THEN \A a \in Apps : cache[a] = conn.gen
         ELSE presence = Absent /\ \A a \in Apps : cache[a] = Absent)
=============================================================================
