-------------------------- MODULE ConnectorsProofs --------------------------
(***************************************************************************)
(* Proofs about what connectors do for dsx-connect.                        *)
(*                                                                         *)
(* ControlPlane, with one API process, for any number of connectors,       *)
(* scopes, operator requests, restarts and lost registrations: no          *)
(* operator's setting is undone and no resource has two scopes.  Both rest *)
(* on a handler being alone between its reads and its writes.              *)
(*                                                                         *)
(* ItemActions, for any number of workers, calls and faults: a file that   *)
(* is moved is never lost nor in quarantine twice, and what a connector    *)
(* has reported as done is done.                                           *)
(*                                                                         *)
(* DriveChanges, for any number of items, changes, concurrent              *)
(* notifications and faults, and for each of its services: its types, and  *)
(* that no cursor skips a change.                                          *)
(***************************************************************************)
EXTENDS Connectors, TLAPS, FiniteSetTheorems, SequenceTheorems

USE DEF rows

Readers == {"none", "default", "native"}
Args == Nat \cup Selectors \cup ScopeIds
Config == [reader : Readers, delivery : BOOLEAN, scanner : Args]
RowSet == [exists : BOOLEAN, enabled : BOOLEAN, config : Config]
RequestSet ==
    [kind : {"none", "register", "heartbeat", "create", "enable", "bind", "protect", "toggle"},
     pc : {"idle", "find", "insert", "upsert", "renew", "ensure", "bind", "merge", "write",
           "check", "store"},
     who : Instances \cup {"none"}, arg : Args, row : RowSet]

TypeInv ==
    /\ integration \in RowSet /\ intended \in RowSet
    /\ req \in [Processes -> RequestSet]
    /\ serving \subseteq Processes
    /\ updates \in Nat

LEMMA Members == /\ NoRow \in RowSet /\ Idle \in RequestSet
                 /\ Idle.pc = "idle" /\ Idle.kind = "none"
  BY DEF NoRow, RowSet, NoConfig, Config, Readers, Args, Idle, RequestSet

LEMMA Requested ==
  ASSUME NEW k, NEW l, NEW who, NEW arg
  PROVE  /\ Request(k, l, who, arg).kind = k /\ Request(k, l, who, arg).pc = l
         /\ Request(k, l, who, arg).who = who /\ Request(k, l, who, arg).arg = arg
         /\ Request(k, l, who, arg).row = NoRow
  BY DEF Request, Idle

\* The defaults of a registration touch neither the switch nor the scanner.
LEMMA Defaults ==
  ASSUME NEW c \in Instances, NEW row \in RowSet
  PROVE  /\ WithDefaults(c, row) \in RowSet
         /\ WithDefaults(c, row).enabled = row.enabled
         /\ WithDefaults(c, row).config.scanner = row.config.scanner
  BY DEF WithDefaults, RowSet, Config, Readers

LEMMA RequestTyped ==
  ASSUME NEW k \in {"register", "heartbeat", "create", "enable", "bind", "protect", "toggle"},
         NEW l \in {"find", "renew", "merge", "bind", "check"},
         NEW who \in Instances \cup {"none"}, NEW arg \in Args
  PROVE  Request(k, l, who, arg) \in RequestSet
  BY Members DEF Request, RequestSet

LEMMA TypeInit == Init => TypeInv
  BY Members DEF Init, TypeInv

\* A step that writes rows and requests of the right type.
LEMMA TypeServe ==
  ASSUME TypeInv, NEW p \in Processes, Serve(p)
  PROVE  TypeInv'
<1> USE Members DEF TypeInv, At, Goto, End
<1>1. req[p] \in RequestSet /\ req[p].who \in Instances \cup {"none"} /\ req[p].row \in RowSet
  BY DEF RequestSet
<1>2. ASSUME NEW l \in {"insert", "upsert", "ensure", "merge", "write", "check", "store"}
      PROVE  [req EXCEPT ![p].pc = l] \in [Processes -> RequestSet]
  BY DEF RequestSet
<1>3. [req EXCEPT ![p] = Idle] \in [Processes -> RequestSet] OBVIOUS
<1>4. ASSUME NEW l \in {"merge", "write"}, NEW row \in RowSet,
             req' = [req EXCEPT ![p].pc = l, ![p].row = row]
      PROVE  req' \in [Processes -> RequestSet]
  BY <1>4, ZenonT(40) DEF RequestSet
<1>5. \A c \in Instances \cup {"none"}, row \in RowSet : WithDefaults(c, row) \in RowSet
  BY DEF WithDefaults, RowSet, Config, Readers
<1>6. ASSUME NEW after \in {"idle", "upsert"}, Ensure(p, integration, after)
      PROVE  req' \in [Processes -> RequestSet]
  <2>1. WithDefaults(req[p].who, integration) \in RowSet BY <1>1, <1>5
  <2>2. CASE req' = [req EXCEPT ![p].pc = "merge", ![p].row = WithDefaults(req[p].who, integration)]
    BY <1>4, <2>1, <2>2
  <2>3. CASE \/ req' = [req EXCEPT ![p] = Idle]
             \/ after = "upsert" /\ req' = [req EXCEPT ![p].pc = after]
    BY <1>2, <1>3, <2>3
  <2> QED BY <1>6, <2>2, <2>3 DEF Ensure
<1>7. CASE Find(p) BY <1>2, <1>3, <1>6, <1>7 DEF Find
<1>8. CASE Insert(p)
  <2>1. /\ WithDefaults(req[p].who, [NoRow EXCEPT !.exists = TRUE]) \in RowSet
        /\ [NoRow EXCEPT !.exists = TRUE, !.config.reader = "native",
                         !.config.scanner = req[p].arg] \in RowSet
    <3>1. [NoRow EXCEPT !.exists = TRUE] \in RowSet BY DEF RowSet
    <3>2. req[p].arg \in Args BY <1>1 DEF RequestSet
    <3>3. [NoRow EXCEPT !.exists = TRUE, !.config.reader = "native",
                        !.config.scanner = req[p].arg] \in RowSet
      BY <3>2 DEF RowSet, Config, Readers
    <3> QED BY <1>1, <1>5, <3>1, <3>3
  <2> QED BY <1>2, <1>3, <1>8, <2>1 DEF Insert
<1>9. CASE Upsert(p) BY <1>3, <1>9 DEF Upsert
<1>10. CASE Renew(p)
  <2>1. 0 \in Args BY DEF Args
  <2>2. Request("register", "find", req[p].who, 0) \in RequestSet BY <1>1, <2>1, RequestTyped
  <2> QED BY <1>2, <1>10, <2>2 DEF Renew
<1>11. CASE EnsureOnHeartbeat(p) BY <1>6, <1>11 DEF EnsureOnHeartbeat
<1>12. CASE Bind(p)
  <2>1. [integration EXCEPT !.config.scanner = req[p].arg] \in RowSet
    BY <1>1 DEF RequestSet, RowSet, Config
  <2>2. CASE integration.exists
    <3>1. req' = [req EXCEPT ![p].pc = "merge",
                             ![p].row = [integration EXCEPT !.config.scanner = req[p].arg]]
      BY <1>12, <2>2 DEF Bind
    <3> QED BY <1>4, <1>12, <2>1, <3>1 DEF Bind
  <2> QED BY <1>3, <1>12, <2>2 DEF Bind
<1>13. CASE Merge(p)
  <2>1. /\ [integration EXCEPT !.enabled = (req[p].arg = 1)] \in RowSet
        /\ [integration EXCEPT !.config = req[p].row.config] \in RowSet
    BY <1>1 DEF RowSet
  <2>2. CASE integration.exists
    <3> DEFINE merged == IF req[p].kind = "enable"
                         THEN [integration EXCEPT !.enabled = (req[p].arg = 1)]
                         ELSE [integration EXCEPT !.config = req[p].row.config]
    <3>1. req' = [req EXCEPT ![p].pc = "write", ![p].row = merged] BY <1>13, <2>2 DEF Merge
    <3>2. merged \in RowSet BY <2>1
    <3> HIDE DEF merged
    <3> QED BY <1>4, <1>13, <3>1, <3>2 DEF Merge
  <2> QED BY <1>3, <1>13, <2>2 DEF Merge
<1>14. CASE Write(p)
  <2>1. intended' \in RowSet
    <3>1. /\ [intended EXCEPT !.enabled = (req[p].arg = 1)] \in RowSet
          /\ [intended EXCEPT !.config.scanner = req[p].arg] \in RowSet
      BY <1>1 DEF RequestSet, RowSet, Config
    <3> QED BY <1>14, <3>1 DEF Write
  <2> QED BY <1>1, <1>2, <1>3, <1>14, <2>1 DEF Write
<1>15. CASE Check(p) BY <1>2, <1>3, <1>15 DEF Check
<1>16. CASE Store(p) BY <1>3, <1>16 DEF Store
<1> QED BY <1>7, <1>8, <1>9, <1>10, <1>11, <1>12, <1>13, <1>14, <1>15, <1>16 DEF Serve

LEMMA TypeTake ==
  ASSUME TypeInv, NEW p \in Processes, Operate(p) \/ OperateScopes(p)
  PROVE  TypeInv'
<1> USE DEF TypeInv, Take
<1>1. updates' \in Nat /\ updates' \in Args /\ {0, 1} \subseteq Args
  BY DEF Operate, OperateScopes, Args
<1>2. Scopes \subseteq Args /\ Selectors \subseteq Args BY DEF Scopes, Args
<1>3. CASE Operate(p) BY <1>1, <1>3, RequestTyped DEF Operate
<1>4. CASE OperateScopes(p) BY <1>1, <1>2, <1>4, RequestTyped DEF OperateScopes
<1> QED BY <1>3, <1>4

LEMMA TypeStep == TypeInv /\ [Next]_vars => TypeInv'
<1> SUFFICES ASSUME TypeInv, [Next]_vars PROVE TypeInv' OBVIOUS
<1>1. 0 \in Args BY DEF Args
<1>2. ASSUME NEW c \in Instances, StartConnector(c) \/ Heartbeat(c) PROVE TypeInv'
  BY <1>1, <1>2, RequestTyped DEF StartConnector, Heartbeat, Take, TypeInv
<1>3. ASSUME NEW c \in Instances, StopConnector(c) \/ Expire(c) PROVE TypeInv'
  BY <1>3 DEF StopConnector, Expire, TypeInv
<1>4. ASSUME NEW p \in Processes, Restart(p) PROVE TypeInv'
  BY <1>4, Members DEF Restart, End, TypeInv
<1>5. CASE UNCHANGED vars BY <1>5 DEF vars, TypeInv
<1> QED BY <1>2, <1>3, <1>4, <1>5, TypeServe, TypeTake DEF Next
-----------------------------------------------------------------------------
(***************************************************************************)
(* One process.                                                            *)
(***************************************************************************)
One == Cardinality(serving) = 1

\* At most one request is served at a time.
Alone ==
    /\ \A p \in Processes : req[p] # Idle => p \in serving
    /\ \A p, q \in serving : p = q

LEMMA OneServes ==
  ASSUME TypeInv
  PROVE  One <=> \E p : serving = {p}
  BY ControlPlaneAssumption, FS_Singleton, FS_Subset DEF TypeInv, One

LEMMA AloneInit == Init /\ One => Alone
  BY TypeInit, OneServes DEF Init, Alone

LEMMA AloneStep ==
  ASSUME TypeInv, Alone, [Next]_vars
  PROVE  Alone' /\ serving' = serving
<1> USE DEF TypeInv, Alone, End, Goto, At, Take
<1>1. ASSUME NEW p \in Processes, Serve(p) PROVE Alone' /\ serving' = serving
  <2>1. req[p] # Idle BY <1>1, Members DEF Serve, Find, Insert, Upsert, Renew, EnsureOnHeartbeat, Bind,
        Merge, Write, Check, Store
  <2>2. serving' = serving
    BY <1>1 DEF Serve, Find, Insert, Upsert, Renew, EnsureOnHeartbeat, Bind, Merge, Write, Check, Store
  <2>3. \A q \in Processes \ {p} : req'[q] = req[q]
    BY <1>1, <2>1 DEF Serve, Find, Insert, Upsert, Renew, EnsureOnHeartbeat, Ensure, Bind, Merge,
       Write, Check, Store
  <2> QED BY <2>1, <2>2, <2>3
<1>2. ASSUME NEW p \in Processes, Operate(p) \/ OperateScopes(p) PROVE Alone' /\ serving' = serving
  BY <1>2 DEF Operate, OperateScopes
<1>3. ASSUME NEW p \in Processes, Restart(p) PROVE Alone' /\ serving' = serving
  BY <1>3 DEF Restart
<1>4. ASSUME NEW c \in Instances, StartConnector(c) \/ Heartbeat(c) PROVE Alone' /\ serving' = serving
  BY <1>4 DEF StartConnector, Heartbeat
<1>5. ASSUME NEW c \in Instances, StopConnector(c) \/ Expire(c) PROVE Alone' /\ serving' = serving
  BY <1>5 DEF StopConnector, Expire
<1>6. CASE UNCHANGED vars BY <1>6 DEF vars
<1> QED BY <1>1, <1>2, <1>3, <1>4, <1>5, <1>6 DEF Next

\* What operators have set is stored.
Agree ==
    /\ integration.enabled = intended.enabled
    /\ integration.config.scanner = intended.config.scanner

\* The row in the hands of request r keeps what operators have set, but for what r itself
\* is to change.
KeepsConfig(r) ==
    /\ r.pc \in {"merge", "write"} => r.kind \in {"register", "heartbeat", "enable", "bind"}
    /\ r.pc = "insert" => r.kind \in {"create", "register"}
    /\ r.pc = "find" => r.kind \in {"create", "register"}
    /\ r.pc = "ensure" => r.kind = "heartbeat"
    /\ r.pc = "renew" => r.kind = "heartbeat"
    /\ r.pc = "bind" => r.kind = "bind"
    /\ r.pc \in {"merge", "write"} /\ r.kind \in {"register", "heartbeat"} =>
         r.row.config.scanner = intended.config.scanner
    /\ r.pc \in {"merge", "write"} /\ r.kind = "bind" => r.row.config.scanner = r.arg
    /\ r.pc = "write" /\ r.kind # "enable" => r.row.enabled = intended.enabled
    /\ r.pc = "write" /\ r.kind = "enable" =>
         /\ r.row.enabled = (r.arg = 1)
         /\ r.row.config.scanner = intended.config.scanner

\* ConfigKept with what makes it inductive.
ConfigInv == Agree /\ \A p \in Processes : KeepsConfig(req[p])

\* As nobody else is served, only the request at hand matters.
LEMMA ConfigByRequest ==
  ASSUME TypeInv, Alone, ConfigInv, NEW p \in serving, TypeInv', Alone', serving' = serving,
         Agree', KeepsConfig(req[p])'
  PROVE  ConfigInv'
<1>1. KeepsConfig(Idle)' BY Members DEF KeepsConfig
<1>2. \A q \in Processes \ {p} : req'[q] = Idle BY DEF Alone
<1> QED BY <1>1, <1>2 DEF ConfigInv

LEMMA ConfigServe ==
  ASSUME TypeInv, Alone, ConfigInv, NEW p \in Processes, Serve(p)
  PROVE  ConfigInv'
<1>1. req[p] \in RequestSet /\ KeepsConfig(req[p]) /\ Agree /\ integration \in RowSet
  BY DEF TypeInv, ConfigInv
<1>2. req[p] # Idle /\ p \in serving
  BY Members DEF Alone, At, Serve, Find, Insert, Upsert, Renew, EnsureOnHeartbeat, Bind, Merge, Write,
     Check, Store
<1>3. TypeInv' /\ Alone' /\ serving' = serving BY AloneStep, TypeStep DEF Next
<1>4. Agree' /\ KeepsConfig(req[p])'
  <2> USE DEF TypeInv, At, Goto, End
  <2>0. KeepsConfig(Idle)' BY Members DEF KeepsConfig
  <2>1. ASSUME NEW after \in {"idle", "upsert"}, Ensure(p, integration, after),
               UNCHANGED <<integration, intended>>, req[p].kind \in {"register", "heartbeat"}
        PROVE  Agree' /\ KeepsConfig(req[p])'
    <3>1. req[p].who \in Instances \cup {"none"} BY <1>1 DEF RequestSet
    <3>2. WithDefaults(req[p].who, integration).config.scanner = integration.config.scanner
      BY <1>1 DEF WithDefaults, RowSet, Config
    <3>3. CASE req' = [req EXCEPT ![p].pc = "merge",
                                  ![p].row = WithDefaults(req[p].who, integration)]
      BY <1>1, <2>1, <3>2, <3>3 DEF RequestSet, KeepsConfig, Agree
    <3>4. CASE req' = [req EXCEPT ![p] = Idle]
      BY <1>1, <2>0, <2>1, <3>4 DEF Agree
    <3>5. CASE after = "upsert" /\ req' = [req EXCEPT ![p].pc = after]
      BY <1>1, <2>1, <3>5 DEF RequestSet, KeepsConfig, Agree
    <3> QED BY <2>1, <3>3, <3>4, <3>5 DEF Ensure
  <2>2. CASE Find(p)
    BY <1>1, <2>0, <2>1, <2>2 DEF Find, KeepsConfig, Agree, RequestSet
  <2>3. CASE Insert(p)
    BY <1>1, <2>0, <2>3 DEF Insert, KeepsConfig, Agree, RequestSet
  <2>4. CASE Upsert(p)
    BY <1>1, <2>0, <2>4 DEF Upsert, Agree
  <2>5. CASE Renew(p)
    BY <1>1, <2>0, <2>5, Requested DEF Renew, KeepsConfig, Agree, RequestSet
  <2>6. CASE EnsureOnHeartbeat(p)
    BY <1>1, <2>1, <2>6 DEF EnsureOnHeartbeat, KeepsConfig
  <2>7. CASE Bind(p)
    BY <1>1, <2>0, <2>7 DEF Bind, KeepsConfig, Agree, RequestSet, RowSet, Config
  <2>8. CASE Merge(p)
    BY <1>1, <2>0, <2>8 DEF Merge, KeepsConfig, Agree, RequestSet, RowSet
  <2>9. CASE Write(p)
    BY <1>1, <2>0, <2>9 DEF Write, KeepsConfig, Agree, RequestSet, RowSet, Config
  <2>10. CASE Check(p)
    BY <1>1, <2>0, <2>10 DEF Check, KeepsConfig, Agree, RequestSet
  <2>11. CASE Store(p)
    BY <1>1, <2>0, <2>11 DEF Store, Agree
  <2> QED BY <2>2, <2>3, <2>4, <2>5, <2>6, <2>7, <2>8, <2>9, <2>10, <2>11 DEF Serve
<1> QED BY <1>2, <1>3, <1>4, ConfigByRequest

LEMMA ConfigStep ==
  ASSUME TypeInv, Alone, ConfigInv, [Next]_vars
  PROVE  ConfigInv'
<1>1. ASSUME NEW p \in Processes, Operate(p) \/ OperateScopes(p) PROVE ConfigInv'
  <2>1. PICK r : /\ req' = [req EXCEPT ![p] = r] /\ r.pc \in {"find", "merge", "bind", "check"}
                 /\ r.pc = "find" => r.kind = "create"
                 /\ r.pc = "merge" => r.kind = "enable"
                 /\ r.pc = "bind" => r.kind = "bind"
    BY <1>1, Requested DEF Operate, OperateScopes, Take
  <2>2. UNCHANGED <<integration, intended>> BY <1>1 DEF Operate, OperateScopes
  <2>3. KeepsConfig(r)' BY <2>1 DEF KeepsConfig
  <2> QED BY <2>1, <2>2, <2>3 DEF ConfigInv, Agree, KeepsConfig, TypeInv
<1>2. ASSUME NEW p \in Processes, Restart(p) PROVE ConfigInv'
  <2>1. \A q \in Processes : req'[q] = Idle BY <1>2 DEF Restart, End, Alone, TypeInv
  <2>2. KeepsConfig(Idle)' BY Members DEF KeepsConfig
  <2>3. Agree' BY <1>2 DEF Restart, ConfigInv, Agree
  <2> QED BY <2>1, <2>2, <2>3 DEF ConfigInv
<1>3. ASSUME NEW c \in Instances, StartConnector(c) \/ Heartbeat(c) PROVE ConfigInv'
  <2>4. PICK p \in serving : \/ Take(p, "register", "find", c, 0)
                             \/ Take(p, "heartbeat", "renew", c, 0)
    BY <1>3 DEF StartConnector, Heartbeat
  <2>1. PICK r : /\ req' = [req EXCEPT ![p] = r] /\ r.pc \in {"find", "renew"}
                 /\ r.pc = "find" => r.kind = "register"
                 /\ r.pc = "renew" => r.kind = "heartbeat"
    BY <2>4, Requested DEF Take
  <2>2. UNCHANGED <<integration, intended>> BY <1>3 DEF StartConnector, Heartbeat
  <2>3. KeepsConfig(r)' BY <2>1 DEF KeepsConfig
  <2> QED BY <2>1, <2>2, <2>3 DEF ConfigInv, Agree, KeepsConfig, TypeInv
<1>4. ASSUME NEW c \in Instances, StopConnector(c) \/ Expire(c) PROVE ConfigInv'
  BY <1>4 DEF StopConnector, Expire, ConfigInv, Agree, KeepsConfig
<1>5. CASE UNCHANGED vars
  BY <1>5 DEF vars, ConfigInv, Agree, KeepsConfig
<1> QED BY <1>1, <1>2, <1>3, <1>4, <1>5, ConfigServe DEF Next

LEMMA ConfigInit == Init => ConfigInv
  BY Members DEF Init, ConfigInv, Agree, KeepsConfig

\* With one API process no registration or heartbeat that completes the configuration, and
\* no other request, undoes what an operator has set, though update_integration writes back
\* a whole row it read earlier (_ensure_reader_config_for_connector_registration).
THEOREM SettingsKept == Spec => []ConfigKept
<1> DEFINE Inv == TypeInv /\ (One => Alone /\ ConfigInv)
<1>1. Init => Inv BY TypeInit, AloneInit, ConfigInit
<1>2. Inv /\ [Next]_vars => Inv'
  <2> SUFFICES ASSUME Inv, [Next]_vars PROVE Inv' OBVIOUS
  <2>1. serving' = serving
    BY DEF Next, Serve, Find, Insert, Upsert, Renew, EnsureOnHeartbeat, Bind, Merge, Write, Check, Store,
       Operate, OperateScopes, Restart, StartConnector, Heartbeat, StopConnector, Expire, vars
  <2>2. One' <=> One BY <2>1 DEF One
  <2> QED BY <2>2, TypeStep, AloneStep, ConfigStep
<1>3. Inv => ConfigKept BY DEF One, ConfigInv, Agree, ConfigKept
<1> QED BY <1>1, <1>2, <1>3, PTL DEF Spec
-----------------------------------------------------------------------------
(***************************************************************************)
(* Scopes.                                                                 *)
(***************************************************************************)
\* Two prefixes of one sequence are prefixes of each other, one way or the other.
LEMMA PrefixChain ==
  ASSUME NEW a \in Seq(STRING), NEW b \in Seq(STRING), NEW s, IsPrefix(a, s), IsPrefix(b, s)
  PROVE  IsPrefix(a, b) \/ IsPrefix(b, a)
<1>1. ASSUME NEW x \in Seq(STRING), NEW y \in Seq(STRING), IsPrefix(x, s), IsPrefix(y, s),
             Len(x) <= Len(y)
      PROVE  IsPrefix(x, y)
  <2>1. Len(x) \in Nat /\ Len(y) \in Nat OBVIOUS
  <2>2. SubSeq(x, 1, Len(x)) = SubSeq(s, 1, Len(x)) /\ SubSeq(y, 1, Len(y)) = SubSeq(s, 1, Len(y))
    BY <1>1 DEF IsPrefix
  <2>3. \A i \in 1 .. Len(y) : y[i] = s[i]
    <3> DEFINE V == {s[i] : i \in 1 .. Len(y)}
    <3>1. \A i \in 1 .. Len(y) : SubSeq(s, 1, Len(y))[i] = s[i]
      <4>1. \A i \in 1 .. Len(y) : s[i] \in V OBVIOUS
      <4> HIDE DEF V
      <4>2. \A i \in 1 .. Len(y) - 1 + 1 : SubSeq(s, 1, Len(y))[i] = s[1 + i - 1]
        BY <2>1, <4>1, SubSeqProperties
      <4> QED BY <2>1, <4>2
    <3>2. \A i \in 1 .. Len(y) : SubSeq(y, 1, Len(y))[i] = y[i] BY <2>1
    <3> QED BY <2>2, <3>1, <3>2
  <2>4. \A i \in 1 .. Len(x) : SubSeq(s, 1, Len(x))[i] = y[i]
    <3>1. \A i \in 1 .. Len(x) : s[i] = y[i] BY <1>1, <2>1, <2>3
    <3>2. \A i \in 1 .. Len(x) : s[i] \in STRING BY <1>1, <2>1, <3>1
    <3>3. \A i \in 1 .. Len(x) - 1 + 1 : SubSeq(s, 1, Len(x))[i] = s[1 + i - 1]
      BY <2>1, <3>2, SubSeqProperties
    <3> QED BY <2>1, <3>1, <3>3
  <2>5. x = SubSeq(x, 1, Len(x)) BY <2>1
  <2>6. \A i \in 1 .. Len(x) : x[i] = y[i] BY <2>2, <2>4, <2>5
  <2>7. SubSeq(x, 1, Len(x)) = SubSeq(y, 1, Len(x)) BY <1>1, <2>1, <2>6
  <2> QED BY <1>1, <2>7 DEF IsPrefix
<1>2. Len(a) <= Len(b) \/ Len(b) <= Len(a) OBVIOUS
<1> QED BY <1>1, <1>2

ScopeSet == [type : {x.type : x \in Selectors} \cup {"none"},
             selector : {normalize_selector(x.type, x.raw) : x \in Selectors} \cup {<<>>},
             enabled : BOOLEAN]

\* The selectors of two scopes never overlap, enabled or not.
Apart ==
    \A s, t \in Scopes : s # t /\ scopes[s].type = scopes[t].type
        => ~selectors_overlap(scopes[s].type, scopes[s].selector, scopes[t].selector)

\* A request that is about to store what it was asked to protect has found no overlap.
NoOverlapFound(r) ==
    /\ r.pc \in {"check", "store"} => \/ r.kind = "protect" /\ r.arg \in Selectors
                                      \/ r.kind = "toggle" /\ r.arg \in Scopes
    /\ r.pc = "store" /\ r.kind = "protect" =>
         ~Overlaps(r.arg.type, normalize_selector(r.arg.type, r.arg.raw), Scopes)

\* OneOwner with what makes it inductive.
ScopeInv ==
    /\ scopes \in [ScopeIds -> ScopeSet]
    /\ \A s \in Scopes : scopes[s].type # "identity" => scopes[s].selector \in Seq(STRING)
    /\ Apart
    /\ \A p \in Processes : NoOverlapFound(req[p])

LEMMA ScopeInit == Init => ScopeInv
  BY Members DEF Init, ScopeInv, NoScopes, NoScope, ScopeSet, Scopes, Apart, NoOverlapFound

LEMMA ScopeStore ==
  ASSUME TypeInv, Alone, ScopeInv, NEW p \in Processes, Store(p)
  PROVE  ScopeInv'
<1> DEFINE x == req[p].arg
<1>1. NoOverlapFound(req[p]) /\ req[p].pc = "store" BY DEF ScopeInv, Store, At
<1>2. \A q \in Processes : req'[q] = Idle
  <2>1. req[p] # Idle BY <1>1, Members
  <2> QED BY <2>1 DEF Store, End, Alone, TypeInv
<1>3. \A q \in Processes : NoOverlapFound(req[q])'
  BY <1>2, Members DEF NoOverlapFound
<1>4. CASE req[p].kind = "protect"
  <2> DEFINE new == [type |-> x.type, enabled |-> TRUE, selector |-> normalize_selector(x.type, x.raw)]
  <2>1. PICK s \in ScopeIds \ Scopes : scopes' = [scopes EXCEPT ![s] = new]
    BY <1>4 DEF Store
  <2>2. x \in Selectors /\ ~Overlaps(x.type, normalize_selector(x.type, x.raw), Scopes)
    BY <1>1, <1>4 DEF NoOverlapFound
  <2>3. new \in ScopeSet /\ new # NoScope BY <2>2 DEF ScopeSet, NoScope
  <2>4. x.type # "identity" => new.selector \in Seq(STRING) BY <2>2, SelectorAssumption
  <2>5. \A t \in Scopes : scopes[t].type = new.type =>
           /\ ~selectors_overlap(new.type, scopes[t].selector, new.selector)
           /\ ~selectors_overlap(new.type, new.selector, scopes[t].selector)
    BY <2>2 DEF Overlaps, selectors_overlap
  <2>6. new.type = x.type OBVIOUS
  <2> HIDE DEF new, x
  <2>7. scopes' \in [ScopeIds -> ScopeSet] BY <2>1, <2>3 DEF ScopeInv
  <2>8. Scopes' = Scopes \cup {s} /\ scopes'[s] = new /\ \A t \in Scopes : scopes'[t] = scopes[t]
    BY <2>1, <2>3 DEF Scopes, ScopeInv
  <2>9. \A t \in Scopes' : scopes'[t].type # "identity" => scopes'[t].selector \in Seq(STRING)
    BY <2>4, <2>6, <2>8 DEF ScopeInv
  <2>10. Apart'
    <3>1. \A u, t \in Scopes : u # t /\ scopes'[u].type = scopes'[t].type
            => ~selectors_overlap(scopes'[u].type, scopes'[u].selector, scopes'[t].selector)
      BY <2>8 DEF ScopeInv, Apart
    <3>2. \A t \in Scopes : scopes'[s].type = scopes'[t].type =>
            /\ ~selectors_overlap(scopes'[s].type, scopes'[s].selector, scopes'[t].selector)
            /\ ~selectors_overlap(scopes'[t].type, scopes'[t].selector, scopes'[s].selector)
      BY <2>5, <2>8
    <3> QED BY <2>8, <3>1, <3>2 DEF Apart, selectors_overlap
  <2> QED BY <1>3, <2>7, <2>9, <2>10 DEF ScopeInv
<1>5. CASE req[p].kind = "toggle"
  <2>1. x \in Scopes /\ Scopes \subseteq ScopeIds BY <1>1, <1>5 DEF NoOverlapFound, Scopes
  <2>2. scopes' = [scopes EXCEPT ![x].enabled = ~@] BY <1>5 DEF Store
  <2> HIDE DEF x
  <2>3. scopes' \in [ScopeIds -> ScopeSet] BY <2>1, <2>2 DEF ScopeInv, ScopeSet
  <2>4. \A s \in ScopeIds : /\ scopes'[s].type = scopes[s].type
                            /\ scopes'[s].selector = scopes[s].selector
                            /\ s # x => scopes'[s] = scopes[s]
    BY <2>1, <2>2 DEF ScopeInv, ScopeSet
  <2>5. Scopes' \subseteq Scopes BY <2>1, <2>4 DEF Scopes
  <2> QED BY <1>3, <2>1, <2>3, <2>4, <2>5 DEF ScopeInv, Apart, selectors_overlap
<1> QED BY <1>1, <1>4, <1>5 DEF NoOverlapFound

\* A step that leaves the scopes alone keeps ScopeInv when each request either was there
\* before or is not about to store a scope.
LEMMA ScopeFrame ==
  ASSUME ScopeInv, scopes' = scopes,
         \A q \in Processes : req'[q] = req[q] \/ req'[q].pc \notin {"check", "store"}
  PROVE  ScopeInv'
<1>1. Scopes' = Scopes BY DEF Scopes
<1>2. \A q \in Processes : NoOverlapFound(req[q])'
  BY <1>1 DEF ScopeInv, NoOverlapFound, Overlaps, selectors_overlap
<1> QED BY <1>1, <1>2 DEF ScopeInv, Apart, selectors_overlap

LEMMA ScopeCheck ==
  ASSUME TypeInv, ScopeInv, NEW p \in Processes, Check(p)
  PROVE  ScopeInv'
<1>1. scopes' = scopes /\ Scopes' = Scopes BY DEF Check, Scopes
<1>2. CASE End(p) BY <1>1, <1>2, ScopeFrame, Members DEF End, TypeInv
<1>3. CASE Goto(p, "store")
  <2>1. NoOverlapFound(req[p]) /\ req[p].pc = "check" /\ req[p] \in RequestSet
    BY DEF ScopeInv, TypeInv, Check, At
  <2>2. /\ req'[p] = [req[p] EXCEPT !.pc = "store"]
        /\ \A q \in Processes \ {p} : req'[q] = req[q]
    BY <1>3 DEF Goto, TypeInv
  <2>3. /\ req'[p].kind = req[p].kind /\ req'[p].arg = req[p].arg /\ req'[p].pc = "store"
    BY <2>1, <2>2 DEF RequestSet
  <2>4. ~End(p)
    <3>1. [req EXCEPT ![p] = Idle][p].pc # "store" BY Members DEF TypeInv
    <3> QED BY <2>3, <3>1 DEF End
  <2>5. req[p].kind = "protect" =>
          ~Overlaps(req[p].arg.type, normalize_selector(req[p].arg.type, req[p].arg.raw), Scopes)
    BY <2>4 DEF Check
  <2>6. NoOverlapFound(req[p])'
    BY <1>1, <2>1, <2>3, <2>5 DEF NoOverlapFound, Overlaps, selectors_overlap
  <2>7. \A q \in Processes \ {p} : NoOverlapFound(req[q])'
    BY <1>1, <2>2 DEF ScopeInv, NoOverlapFound, Overlaps, selectors_overlap
  <2>8. \A q \in Processes : NoOverlapFound(req[q])' BY <2>6, <2>7
  <2> QED BY <1>1, <2>8 DEF ScopeInv, Apart, selectors_overlap
<1> QED BY <1>2, <1>3 DEF Check

LEMMA ScopeStep ==
  ASSUME TypeInv, Alone, ScopeInv, [Next]_vars
  PROVE  ScopeInv'
<1>1. ASSUME NEW p \in Processes, Serve(p), ~Check(p), ~Store(p) PROVE ScopeInv'
  <2> USE DEF TypeInv, At, Goto, End
  <2>1. scopes' = scopes
    BY <1>1 DEF Serve, Find, Insert, Upsert, Renew, EnsureOnHeartbeat, Bind, Merge, Write
  <2>2. req[p] \in RequestSet OBVIOUS
  <2>3. \A q \in Processes : req'[q] = req[q] \/ req'[q].pc \notin {"check", "store"}
    <3>1. CASE Renew(p) BY <2>2, <3>1, Members, Requested DEF Renew, RequestSet
    <3>2. CASE Find(p) \/ EnsureOnHeartbeat(p)
      BY <2>2, <3>2, Members DEF Find, EnsureOnHeartbeat, Ensure, RequestSet
    <3>3. CASE Insert(p) \/ Upsert(p) BY <2>2, <3>3, Members DEF Insert, Upsert, RequestSet
    <3>4. CASE Bind(p) \/ Merge(p) \/ Write(p)
      BY <2>2, <3>4, Members DEF Bind, Merge, Write, RequestSet
    <3> QED BY <1>1, <3>1, <3>2, <3>3, <3>4 DEF Serve
  <2> QED BY <2>1, <2>3, ScopeFrame
<1>2. ASSUME NEW p \in Processes, Operate(p) PROVE ScopeInv'
  <2>1. scopes' = scopes BY <1>2 DEF Operate
  <2>2. \A q \in Processes : req'[q] = req[q] \/ req'[q].pc \notin {"check", "store"}
    BY <1>2, Requested DEF Operate, Take, TypeInv
  <2> QED BY <2>1, <2>2, ScopeFrame
<1>3. ASSUME NEW p \in Processes, OperateScopes(p) PROVE ScopeInv'
  <2>1. scopes' = scopes /\ Scopes' = Scopes BY <1>3 DEF OperateScopes, Scopes
  <2>2. PICK r : /\ req' = [req EXCEPT ![p] = r] /\ r.pc = "check"
                 /\ \/ r.kind = "protect" /\ r.arg \in Selectors
                    \/ r.kind = "toggle" /\ r.arg \in Scopes
    BY <1>3, Requested DEF OperateScopes, Take
  <2>3. NoOverlapFound(r)' BY <2>1, <2>2 DEF NoOverlapFound
  <2>4. \A q \in Processes : NoOverlapFound(req[q])'
    BY <2>1, <2>2, <2>3 DEF ScopeInv, TypeInv, NoOverlapFound, Overlaps, selectors_overlap
  <2> QED BY <2>1, <2>4 DEF ScopeInv, Apart, selectors_overlap
<1>4. ASSUME NEW p \in Processes, Restart(p) PROVE ScopeInv'
  <2>1. \A q \in Processes : req'[q] = Idle BY <1>4 DEF Restart, End, Alone, TypeInv
  <2>2. \A q \in Processes : req'[q].pc \notin {"check", "store"} BY <2>1, Members
  <2>3. CASE scopes' = scopes BY <2>2, <2>3, ScopeFrame
  <2>4. CASE scopes' = NoScopes
    BY <2>2, <2>4 DEF ScopeInv, NoScopes, NoScope, ScopeSet, Scopes, Apart, NoOverlapFound
  <2> QED BY <1>4, <2>3, <2>4 DEF Restart
<1>5. ASSUME NEW c \in Instances, StartConnector(c) \/ Heartbeat(c) PROVE ScopeInv'
  <2>1. scopes' = scopes BY <1>5 DEF StartConnector, Heartbeat
  <2>2. \A q \in Processes : req'[q] = req[q] \/ req'[q].pc \notin {"check", "store"}
    BY <1>5, Requested DEF StartConnector, Heartbeat, Take, TypeInv
  <2> QED BY <2>1, <2>2, ScopeFrame
<1>6. ASSUME NEW c \in Instances, StopConnector(c) \/ Expire(c) PROVE ScopeInv'
  BY <1>6, ScopeFrame DEF StopConnector, Expire
<1>7. CASE UNCHANGED vars BY <1>7, ScopeFrame DEF vars
<1> QED BY <1>1, <1>2, <1>3, <1>4, <1>5, <1>6, <1>7, ScopeCheck, ScopeStore DEF Next

\* Scopes that are apart leave match_scope nothing to choose.
LEMMA OneMatch ==
  ASSUME ScopeInv, NEW type, NEW raw
  PROVE  Cardinality(Matching(type, raw)) <= 1
<1> DEFINE M == Matching(type, raw)
           n == normalize_selector(type, raw)
<1>1. \A s, t \in M : s = t
  <2> SUFFICES ASSUME NEW s \in M, NEW t \in M, s # t PROVE FALSE OBVIOUS
  <2>1. /\ s \in Scopes /\ scopes[s].type = type /\ t \in Scopes /\ scopes[t].type = type
        /\ IF type = "identity" THEN scopes[s].selector = n /\ scopes[t].selector = n
           ELSE IsPrefix(scopes[s].selector, n) /\ IsPrefix(scopes[t].selector, n)
    BY DEF Matching, Covers
  <2>2. ~selectors_overlap(type, scopes[s].selector, scopes[t].selector)
    BY <2>1 DEF ScopeInv, Apart
  <2>3. CASE type = "identity" BY <2>1, <2>2, <2>3 DEF selectors_overlap
  <2>4. CASE type # "identity"
    <3>1. scopes[s].selector \in Seq(STRING) /\ scopes[t].selector \in Seq(STRING)
      BY <2>1, <2>4 DEF ScopeInv
    <3> QED BY <2>1, <2>2, <2>4, <3>1, PrefixChain DEF selectors_overlap
  <2> QED BY <2>3, <2>4
<1> HIDE DEF M
<1>2. CASE M = {} BY <1>2, FS_EmptySet DEF M
<1>3. ASSUME NEW s \in M PROVE Cardinality(M) <= 1
  <2>1. \A x : x \in M <=> x = s BY <1>1, <1>3
  <2>2. M = {s} BY <2>1
  <2>3. \E x : M = {x} BY <2>2
  <2>4. Cardinality(M) = 1 BY <2>3, FS_Singleton
  <2> QED BY <2>4
<1> QED BY <1>2, <1>3 DEF M

\* With one API process no resource ever has two enabled scopes to answer for it, in
\* whatever order scopes are made and switched: _validate_overlap reads all scopes before
\* the repository writes one, and a scope that is switched off still keeps others out.
THEOREM ScopesApart == Spec => []OneOwner
<1> DEFINE Inv == TypeInv /\ (One => Alone /\ ScopeInv)
<1>1. Init => Inv BY TypeInit, AloneInit, ScopeInit
<1>2. Inv /\ [Next]_vars => Inv'
  <2> SUFFICES ASSUME Inv, [Next]_vars PROVE Inv' OBVIOUS
  <2>1. serving' = serving
    BY DEF Next, Serve, Find, Insert, Upsert, Renew, EnsureOnHeartbeat, Bind, Merge, Write, Check, Store,
       Operate, OperateScopes, Restart, StartConnector, Heartbeat, StopConnector, Expire, vars
  <2>2. One' <=> One BY <2>1 DEF One
  <2> QED BY <2>2, TypeStep, AloneStep, ScopeStep
<1>3. Inv => OneOwner BY OneMatch DEF One, OneOwner
<1> QED BY <1>1, <1>2, <1>3, PTL DEF Spec
-----------------------------------------------------------------------------
(***************************************************************************)
(* ItemActions: the handlers of a connector and the file.                  *)
(***************************************************************************)
LEMMA ActionNames == \A S : Action!Cardinality(S) = Cardinality(S)
  BY DEF Action!Cardinality, Cardinality

Ops == {"start", "check", "remove", "mkdir", "rename", "copy", "tag_source", "tag_copy"}
Answers == {"none", "error", "success", "nothing", "raised"}
RequestType == [todo : Seq(Ops), answer : Answers]

\* The shape of the state.
ActionType ==
    /\ platform \in Action!Platforms
    /\ action \in {"delete", "tag", "move", "movetag", "nothing"}
    /\ source \in BOOLEAN
    /\ copies \subseteq {1} /\ arriving \subseteq {1}
    /\ calls \in Seq(RequestType)
    /\ waiting \in [Workers -> Nat]
    /\ pc \in [Workers -> {"idle", "execute", "stub", "dead_letter", "called", "succeeded", "noop"}]
    /\ \A w \in Workers : pc[w] = "called" => waiting[w] \in 1 .. Len(calls)
    /\ stage \in [state : {"pending", "running", "completed"},
                  outcome : {"none", "stub", "succeeded", "noop"}]

\* What the action is meant to bring about, where its result is not ignored.
Done ==
    (action = "delete" \/ platform \notin Action!Stores) =>
        CASE action = "delete"  -> ~source
          [] action = "move"    -> ~source /\ copies # {}
          [] action = "movetag" -> ~source /\ copies # {} /\ (platform = "drive" \/ 1 \in tagged)
          [] action = "tag"     -> Action!Source \in tagged
          [] OTHER              -> FALSE

\* A copy is followed by the removal, and nothing is removed, in a move, before there is a copy.
CopyFirst(todo) ==
    /\ \A k \in 1 .. Len(todo) : todo[k] = "copy" => k < Len(todo) /\ todo[k + 1] = "remove"
    /\ (Action!Moves /\ platform # "azure") =>
           \A k \in 1 .. Len(todo) :
               todo[k] = "remove" => IF k = 1 THEN copies # {} ELSE todo[k - 1] = "copy"

\* What is still to be done, with what has been, makes the action.
Suffices(todo) ==
    /\ action = "delete" => todo[Len(todo)] = "remove"
    /\ action = "tag" => todo[Len(todo)] = "tag_source"
    /\ (Action!Moves /\ platform \notin Action!Stores) =>
           (~source /\ copies # {}) \/ \E k \in 1 .. Len(todo) : todo[k] \in {"rename", "remove"}
    /\ (action = "movetag" /\ platform = "filesystem") => todo[Len(todo)] = "tag_copy"

Underway(todo) ==
    /\ \A k \in 1 .. Len(todo) :
           /\ todo[k] # "start"
           /\ action = "delete" => todo[k] \in {"check", "remove"}
           /\ action = "tag" => todo[k] \in {"check", "tag_source"}
    /\ CopyFirst(todo)
    /\ todo # <<>> => Suffices(todo)

\* A request is at work exactly as long as it is not answered, and its success is true.
Sound(r) ==
    /\ action # "nothing"
    /\ r.answer = "none" <=> r.todo # <<>>
    /\ r.todo = <<"start">> \/ Underway(r.todo)
    /\ r.answer = "success" => Done

AllSound == \A c \in 1 .. Len(calls) : Sound(calls[c])

Reported == stage.outcome = "succeeded" \/ \E w \in Workers : pc[w] = "succeeded"

ActionInv == ActionType /\ Action!ContentKept /\ AllSound /\ (Reported => Done)

\* No step brings the file back, or takes back what is in quarantine or a tag that is to stay.
Progress ==
    /\ UNCHANGED Action!setup
    /\ source' => source
    /\ copies \subseteq copies' /\ copies' \subseteq {1}
    /\ 1 \in tagged => 1 \in tagged'
    /\ action = "tag" /\ Action!Source \in tagged => Action!Source \in tagged'

LEMMA ProgressKeeps ==
  ASSUME Progress
  PROVE  /\ Done => Done'
         /\ \A todo : CopyFirst(todo) => CopyFirst(todo)'
         /\ \A todo : Suffices(todo) => Suffices(todo)'
         /\ \A todo : Underway(todo) => Underway(todo)'
<1> USE DEF Progress, Action!setup, Action!Moves
<1>1. Done => Done' BY DEF Done
<1>2. \A todo : CopyFirst(todo) => CopyFirst(todo)' BY DEF CopyFirst
<1>3. \A todo : Suffices(todo) => Suffices(todo)' BY DEF Suffices
<1>4. \A todo : Underway(todo) => Underway(todo)' BY <1>2, <1>3 DEF Underway
<1> QED BY <1>1, <1>2, <1>3, <1>4

\* What a call to the platform leaves behind when it succeeds.
Effect(op) ==
    /\ op = "copy" /\ platform # "azure" => copies' # {}
    /\ op = "rename" => copies' # {}
    /\ op \in {"rename", "remove"} => ~source'
    /\ op = "tag_source" => Action!Source \in tagged'
    /\ op = "tag_copy" => (1 \in copies' => 1 \in tagged')

\* The rest of a program is one, once its first call has had its effect.
LEMMA TailUnderway ==
  ASSUME Progress, platform \in Action!Platforms,
         action \in {"delete", "tag", "move", "movetag"},
         NEW todo \in Seq(Ops), todo # <<>>, Underway(todo), Effect(todo[1])
  PROVE  /\ Tail(todo) \in Seq(Ops)
         /\ Underway(Tail(todo))'
         /\ Tail(todo) = <<>> => Done'
<1> DEFINE rest == Tail(todo)
<1>1. /\ rest \in Seq(Ops) /\ Len(rest) = Len(todo) - 1
      /\ \A k \in 1 .. Len(rest) : rest[k] = todo[k + 1]
      /\ Len(todo) \in Nat \ {0}
  BY HeadTailProperties, EmptySeq
<1>0. rest = <<>> <=> Len(todo) = 1 BY <1>1, EmptySeq
<1> HIDE DEF rest
<1>2. UNCHANGED <<platform, action>> BY DEF Progress, Action!setup
<1>3. CopyFirst(rest)'
  <2>1. \A k \in 1 .. Len(rest) : rest[k] = "copy" => k < Len(rest) /\ rest[k + 1] = "remove"
    <3> SUFFICES ASSUME NEW k \in 1 .. Len(rest), rest[k] = "copy"
                 PROVE  k < Len(rest) /\ rest[k + 1] = "remove"
      OBVIOUS
    <3>1. k + 1 \in 1 .. Len(todo) /\ todo[k + 1] = "copy" BY <1>1
    <3>2. k + 1 < Len(todo) /\ todo[k + 1 + 1] = "remove" BY <3>1 DEF Underway, CopyFirst
    <3> QED BY <1>1, <3>2
  <2>2. ASSUME Action!Moves, platform # "azure", NEW k \in 1 .. Len(rest), rest[k] = "remove"
        PROVE  IF k = 1 THEN copies' # {} ELSE rest[k - 1] = "copy"
    <3>1. k + 1 \in 1 .. Len(todo) /\ todo[k + 1] = "remove" /\ k + 1 # 1 BY <1>1, <2>2
    <3>2. todo[k + 1 - 1] = "copy" BY <2>2, <3>1 DEF Underway, CopyFirst
    <3>3. CASE k = 1 BY <2>2, <3>2, <3>3 DEF Effect
    <3>4. CASE k # 1 BY <1>1, <3>2, <3>4
    <3> QED BY <3>3, <3>4
  <2> QED BY <1>2, <2>1, <2>2 DEF CopyFirst, Action!Moves
<1>4. \A k \in 1 .. Len(rest) :
         /\ rest[k] # "start"
         /\ action = "delete" => rest[k] \in {"check", "remove"}
         /\ action = "tag" => rest[k] \in {"check", "tag_source"}
  BY <1>1 DEF Underway
<1>5. ASSUME rest # <<>> PROVE Suffices(rest)'
  <2>1. Len(rest) \in 1 .. Len(rest) /\ rest[Len(rest)] = todo[Len(todo)] BY <1>0, <1>1, <1>5
  <2>2. ASSUME Action!Moves, platform \notin Action!Stores
        PROVE  (~source' /\ copies' # {})
               \/ \E k \in 1 .. Len(rest) : rest[k] \in {"rename", "remove"}
    <3>1. CASE ~source /\ copies # {} BY <3>1 DEF Progress
    <3>2. ASSUME NEW k \in 1 .. Len(todo), todo[k] \in {"rename", "remove"}, k # 1
          PROVE  \E j \in 1 .. Len(rest) : rest[j] \in {"rename", "remove"}
      <4>1. k - 1 \in 1 .. Len(rest) /\ rest[k - 1] = todo[k]
        <5>1. k - 1 \in 1 .. Len(rest) BY <1>1, <3>2
        <5>2. rest[k - 1] = todo[k - 1 + 1] BY <1>1, <5>1
        <5> QED BY <5>1, <5>2
      <4> QED BY <3>2, <4>1
    <3>3. CASE todo[1] \in {"rename", "remove"}
      <4>1. 1 \in 1 .. Len(todo) /\ platform # "azure" BY <1>1, <2>2 DEF Action!Stores
      <4>2. CASE todo[1] = "rename" BY <4>2 DEF Effect
      <4>3. CASE todo[1] = "remove"
        <5>1. copies # {} BY <2>2, <4>1, <4>3 DEF Underway, CopyFirst
        <5> QED BY <4>3, <5>1 DEF Effect, Progress
      <4> QED BY <3>3, <4>2, <4>3
    <3> QED BY <2>2, <3>1, <3>2, <3>3 DEF Underway, Suffices
  <2> QED BY <1>2, <2>1, <2>2 DEF Underway, Suffices, Action!Moves
<1>6. ASSUME rest = <<>> PROVE Done'
  <2>1. Len(todo) = 1 /\ 1 \in 1 .. Len(todo) /\ Suffices(todo) BY <1>0, <1>1, <1>6 DEF Underway
  <2>2. CASE action = "delete" BY <1>2, <2>1, <2>2 DEF Suffices, Effect, Done
  <2>3. CASE action = "tag" BY <1>2, <2>1, <2>3 DEF Suffices, Effect, Done
  <2>4. ASSUME Action!Moves, platform \notin Action!Stores PROVE ~source' /\ copies' # {}
    <3>1. CASE ~source /\ copies # {} BY <3>1 DEF Progress
    <3>2. CASE todo[1] = "rename" BY <3>2 DEF Effect
    <3>3. CASE todo[1] = "remove"
      <4>1. copies # {} BY <2>1, <2>4, <3>3 DEF Underway, CopyFirst, Action!Stores
      <4> QED BY <3>3, <4>1 DEF Effect, Progress
    <3> QED BY <2>1, <2>4, <3>1, <3>2, <3>3 DEF Suffices
  <2>5. ASSUME action = "movetag", platform = "filesystem" PROVE 1 \in tagged'
    <3>1. copies' = {1} BY <2>4, <2>5 DEF Action!Moves, Action!Stores, Progress
    <3> QED BY <2>1, <2>5, <3>1 DEF Suffices, Effect
  <2>6. CASE Action!Moves /\ platform \notin Action!Stores
    <3>1. platform \in {"filesystem", "drive"} BY <2>6 DEF Action!Platforms
    <3>2. CASE action = "move" BY <1>2, <2>4, <2>6, <3>2 DEF Done
    <3>3. CASE action = "movetag" BY <1>2, <2>4, <2>5, <2>6, <3>1, <3>3 DEF Done
    <3> QED BY <2>6, <3>2, <3>3 DEF Action!Moves
  <2>7. CASE platform \in Action!Stores /\ action # "delete" BY <1>2, <2>7 DEF Done
  <2> QED BY <2>2, <2>3, <2>6, <2>7 DEF Action!Moves
<1> QED BY <1>1, <1>2, <1>3, <1>4, <1>5, <1>6 DEF Underway, rest

\* The rest of a handler that ignores a failure is a program, at a store that need not have
\* moved or tagged.
LEMMA RestUnderway ==
  ASSUME platform \in Action!Stores,
         action \in {"delete", "tag", "move", "movetag"},
         NEW todo \in Seq(Ops), todo # <<>>, Underway(todo), "skip" \in Action!Failing(todo[1])
  PROVE  /\ Action!RestAfter(todo[1], todo) \in Seq(Ops)
         /\ Underway(Action!RestAfter(todo[1], todo))
         /\ action # "delete"
<1> DEFINE rest == Action!RestAfter(todo[1], todo)
           gone == IF todo[1] = "copy" THEN 2 ELSE 1
<1>1. Len(todo) \in Nat \ {0} /\ 1 \in 1 .. Len(todo) BY EmptySeq, LenProperties
<1>2. todo[1] \in {"rename", "copy", "tag_source", "tag_copy"} \/ (todo[1] = "remove"
      /\ Action!Moves)
  BY DEF Action!Failing, Action!InMove, Action!Stores
<1>3. todo[1] = "copy" => Len(todo) >= 2 /\ todo[2] = "remove" BY <1>1 DEF Underway, CopyFirst
<1>4. gone \in {1, 2} /\ gone <= Len(todo) BY <1>1, <1>3
<1>5. rest \in Seq(Ops) /\ Len(rest) = Len(todo) - gone
      /\ \A k \in 1 .. Len(rest) : rest[k] = todo[k + gone]
  <2>1. CASE todo[1] = "copy"
    <3>1. rest = SubSeq(todo, 3, Len(todo)) BY <2>1 DEF Action!RestAfter
    <3>2. /\ 3 \in 1 .. Len(todo) + 1 /\ Len(todo) \in 3 - 1 .. Len(todo)
          /\ Len(todo) - 3 + 1 = Len(todo) - 2
      BY <1>1, <1>3, <2>1
    <3>3. rest \in Seq(Ops) /\ Len(rest) = Len(todo) - 2 BY <3>1, <3>2, SubSeqProperties
    <3> HIDE DEF rest
    <3>4. \A k \in 1 .. Len(rest) : rest[k] = todo[k + 2]
      <4>1. TAKE k \in 1 .. Len(rest)
      <4>2. k \in 1 .. Len(todo) - 3 + 1 /\ 3 + k - 1 = k + 2 BY <1>1, <3>2, <3>3
      <4> QED BY <3>1, <3>2, <4>2, SubSeqProperties
    <3> QED BY <2>1, <3>3, <3>4
  <2>2. CASE todo[1] # "copy"
    <3>1. rest = Tail(todo) BY <2>2 DEF Action!RestAfter
    <3> QED BY <1>1, <2>2, <3>1, HeadTailProperties
  <2> QED BY <2>1, <2>2
<1>6. action # "delete" BY <1>1, <1>2 DEF Underway, Action!Moves
<1> HIDE DEF rest, gone
<1>7. rest = <<>> <=> Len(rest) = 0 BY <1>5, EmptySeq
<1>8. \A k \in 1 .. Len(rest) :
         /\ rest[k] # "start"
         /\ action = "delete" => rest[k] \in {"check", "remove"}
         /\ action = "tag" => rest[k] \in {"check", "tag_source"}
  BY <1>1, <1>4, <1>5 DEF Underway
<1>9. CopyFirst(rest)
  <2>1. ASSUME NEW k \in 1 .. Len(rest), rest[k] = "copy"
        PROVE  k < Len(rest) /\ rest[k + 1] = "remove"
    <3>1. k + gone \in 1 .. Len(todo) /\ todo[k + gone] = "copy" BY <1>1, <1>4, <1>5, <2>1
    <3>2. k + gone < Len(todo) /\ todo[k + gone + 1] = "remove" BY <3>1 DEF Underway, CopyFirst
    <3> QED BY <1>1, <1>4, <1>5, <3>2
  <2>2. ASSUME Action!Moves, platform # "azure", NEW k \in 1 .. Len(rest), rest[k] = "remove"
        PROVE  k # 1 /\ rest[k - 1] = "copy"
    <3>1. PICK j \in 1 .. Len(todo) : j = k + gone /\ j # 1 /\ todo[j] = "remove"
      BY <1>1, <1>4, <1>5, <2>2
    <3>2. todo[j - 1] = "copy" BY <2>2, <3>1 DEF Underway, CopyFirst
    <3>3. k # 1
      <4>1. SUFFICES ASSUME k = 1 PROVE FALSE OBVIOUS
      <4>2. CASE gone = 1 BY <1>2, <3>1, <3>2, <4>1, <4>2 DEF gone
      <4>3. CASE gone = 2 BY <1>3, <3>1, <3>2, <4>1, <4>3 DEF gone
      <4> QED BY <1>4, <4>2, <4>3
    <3>4. rest[k - 1] = todo[k - 1 + gone] BY <1>4, <1>5, <3>3
    <3> QED BY <1>4, <3>1, <3>2, <3>3, <3>4
  <2> QED BY <2>1, <2>2 DEF CopyFirst
<1>10. ASSUME rest # <<>> PROVE Suffices(rest)
  <2>1. Len(rest) \in 1 .. Len(rest) /\ rest[Len(rest)] = todo[Len(todo)]
    BY <1>1, <1>4, <1>5, <1>7, <1>10
  <2> QED BY <1>6, <2>1 DEF Underway, Suffices, Action!Stores
<1> QED BY <1>5, <1>6, <1>8, <1>9, <1>10 DEF Underway, rest
-----------------------------------------------------------------------------
(***************************************************************************)
(* The handlers.                                                           *)
(***************************************************************************)
\* Each handler's program, for each action, is one that makes the action.
LEMMA ProgramUnderway ==
  ASSUME platform \in Action!Platforms, action \in {"delete", "tag", "move", "movetag"}
  PROVE  /\ Action!item_action_handler[platform][action] \in Seq(Ops)
         /\ Underway(Action!item_action_handler[platform][action])
         /\ Action!item_action_handler[platform][action] = <<>> => platform = "drive"
              /\ action = "tag"
<1> DEFINE prog == Action!item_action_handler[platform][action]
           Good(ops) == /\ ops \in Seq(Ops) /\ Underway(ops)
                        /\ ops = <<>> => platform = "drive" /\ action = "tag"
<1>1. CASE action = "delete"
  <2>1. Good(<<"check", "remove">>) BY <1>1 DEF Underway, CopyFirst, Suffices, Action!Moves, Ops
  <2>2. Good(<<"remove">>) BY <1>1 DEF Underway, CopyFirst, Suffices, Action!Moves, Ops
  <2>3. prog \in {<<"check", "remove">>, <<"remove">>}
    BY <1>1 DEF Action!Platforms, Action!Stores, Action!item_action_handler,
       Action!filesystem_handler, Action!s3_handler, Action!gcs_handler, Action!azure_handler,
       Action!drive_handler
  <2> QED BY <2>1, <2>2, <2>3
<1>2. CASE action = "tag"
  <2>1. Good(<<"check", "tag_source">>)
    BY <1>2 DEF Underway, CopyFirst, Suffices, Action!Moves, Ops
  <2>2. CASE platform = "drive"
    <3>1. prog = <<>> BY <1>2, <2>2 DEF Action!item_action_handler, Action!drive_handler
    <3>2. Good(<<>>) BY <1>2, <2>2 DEF Underway, CopyFirst, Action!Moves
    <3> QED BY <3>1, <3>2
  <2>3. CASE platform # "drive"
    <3>1. prog = <<"check", "tag_source">>
      BY <1>2, <2>3 DEF Action!Platforms, Action!Stores, Action!item_action_handler,
         Action!filesystem_handler, Action!s3_handler, Action!gcs_handler, Action!azure_handler,
         Action!drive_handler
    <3> QED BY <2>1, <3>1
  <2> QED BY <2>2, <2>3
<1>3. CASE action = "move"
  <2>1. CASE platform = "filesystem"
    <3>1. prog = <<"check", "mkdir", "rename">>
      BY <1>3, <2>1 DEF Action!item_action_handler, Action!filesystem_handler
    <3>2. Good(<<"check", "mkdir", "rename">>)
      BY <1>3, <2>1 DEF Underway, CopyFirst, Suffices, Action!Moves, Ops
    <3> QED BY <3>1, <3>2
  <2>2. CASE platform = "drive"
    <3>1. prog = <<"rename">> BY <1>3, <2>2 DEF Action!item_action_handler, Action!drive_handler
    <3>2. Good(<<"rename">>) BY <1>3, <2>2 DEF Underway, CopyFirst, Suffices, Action!Moves, Ops
    <3> QED BY <3>1, <3>2
  <2>3. CASE platform \in Action!Stores
    <3>1. prog = <<"check", "copy", "remove">>
      BY <1>3, <2>3 DEF Action!Stores, Action!item_action_handler, Action!s3_handler,
         Action!gcs_handler, Action!azure_handler
    <3>2. Good(<<"check", "copy", "remove">>)
      BY <1>3, <2>3 DEF Underway, CopyFirst, Suffices, Action!Moves, Ops, Action!Stores
    <3> QED BY <3>1, <3>2
  <2> QED BY <2>1, <2>2, <2>3 DEF Action!Platforms
<1>4. CASE action = "movetag"
  <2>1. CASE platform = "filesystem"
    <3>1. prog = <<"check", "mkdir", "rename", "tag_copy">>
      BY <1>4, <2>1 DEF Action!item_action_handler, Action!filesystem_handler
    <3>2. Good(<<"check", "mkdir", "rename", "tag_copy">>)
      BY <1>4, <2>1 DEF Underway, CopyFirst, Suffices, Action!Moves, Ops
    <3> QED BY <3>1, <3>2
  <2>2. CASE platform = "drive"
    <3>1. prog = <<"rename">> BY <1>4, <2>2 DEF Action!item_action_handler, Action!drive_handler
    <3>2. Good(<<"rename">>) BY <1>4, <2>2 DEF Underway, CopyFirst, Suffices, Action!Moves, Ops
    <3> QED BY <3>1, <3>2
  <2>3. CASE platform \in {"s3", "gcs"}
    <3>1. prog = <<"check", "copy", "remove", "tag_copy">>
      BY <1>4, <2>3 DEF Action!item_action_handler, Action!s3_handler, Action!gcs_handler
    <3>2. Good(<<"check", "copy", "remove", "tag_copy">>)
      BY <1>4, <2>3 DEF Underway, CopyFirst, Suffices, Action!Moves, Ops, Action!Stores
    <3> QED BY <3>1, <3>2
  <2>4. CASE platform = "azure"
    <3>1. prog = <<"check", "tag_source", "copy", "remove">>
      BY <1>4, <2>4 DEF Action!item_action_handler, Action!azure_handler
    <3>2. Good(<<"check", "tag_source", "copy", "remove">>)
      BY <1>4, <2>4 DEF Underway, CopyFirst, Suffices, Action!Moves, Ops, Action!Stores
    <3> QED BY <3>1, <3>2
  <2> QED BY <2>1, <2>2, <2>3, <2>4 DEF Action!Platforms, Action!Stores
<1> QED BY <1>1, <1>2, <1>3, <1>4

\* A step of a handler that gets its request to a sound state.
LEMMA HandlerKeeps ==
  ASSUME ActionInv, Progress, Action!ContentKept', source' \in BOOLEAN, arriving' \subseteq {1},
         UNCHANGED <<waiting, pc, stage>>,
         NEW c \in 1 .. Len(calls), NEW r \in RequestType, Sound(r)',
         calls' = [calls EXCEPT ![c] = r]
  PROVE  ActionInv'
<1>1. calls' \in Seq(RequestType) /\ Len(calls') = Len(calls)
      /\ calls'[c] = r /\ \A d \in 1 .. Len(calls) : d # c => calls'[d] = calls[d]
  BY DEF ActionInv, ActionType
<1>2. ActionType' BY <1>1 DEF ActionInv, ActionType, Progress, Action!setup
<1>3. ASSUME NEW d \in 1 .. Len(calls') PROVE Sound(calls[d])'
  <2>1. CASE d = c BY <1>1, <2>1 DEF Sound
  <2>2. CASE d # c
    <3>1. Sound(calls[d]) /\ calls'[d] = calls[d] BY <1>1, <1>3, <2>2 DEF ActionInv, AllSound
    <3>2. UNCHANGED action BY DEF Progress, Action!setup
    <3> QED BY <3>1, <3>2, ProgressKeeps DEF Sound
  <2> QED BY <2>1, <2>2
<1>4. AllSound' BY <1>3 DEF AllSound
<1>5. (Reported => Done)' BY ProgressKeeps DEF ActionInv, Reported
<1> QED BY <1>2, <1>4, <1>5 DEF ActionInv

\* A handler that goes on, once the effect of its call is there.
LEMMA ProceedKeeps ==
  ASSUME ActionInv, Progress, Action!ContentKept', source' \in BOOLEAN, arriving' \subseteq {1},
         UNCHANGED <<waiting, pc, stage>>,
         NEW c \in 1 .. Len(calls), calls[c].todo \notin {<<>>, <<"start">>},
         Effect(calls[c].todo[1]), Action!Proceed(c)
  PROVE  ActionInv'
<1>1. calls[c] \in RequestType /\ Sound(calls[c]) /\ platform \in Action!Platforms
  BY DEF ActionInv, ActionType, AllSound
<1>2. /\ calls[c].todo \in Seq(Ops) /\ Underway(calls[c].todo)
      /\ action \in {"delete", "tag", "move", "movetag"}
  BY <1>1 DEF RequestType, Sound, ActionInv, ActionType
<1>3. PICK rest \in Seq(Ops) : rest = Tail(calls[c].todo) /\ Underway(rest)' /\ (rest = <<>>
      => Done')
  BY <1>1, <1>2, TailUnderway
<1>4. PICK r \in RequestType :
         /\ r.todo = rest
         /\ r.answer = IF rest # <<>> THEN "none"
                       ELSE IF platform = "drive" /\ action = "tag" THEN "nothing" ELSE "success"
         /\ calls' = [calls EXCEPT ![c] = r]
  <2> DEFINE q == [todo |-> rest, answer |->
                      IF rest # <<>> THEN "none"
                      ELSE IF platform = "drive" /\ action = "tag" THEN "nothing" ELSE "success"]
  <2>1. q \in RequestType BY <1>3 DEF RequestType, Answers
  <2>2. calls' = [calls EXCEPT ![c] = q] BY <1>3 DEF Action!Proceed, Action!Todo
  <2> QED BY <2>1, <2>2
<1>5. Sound(r)' BY <1>2, <1>3, <1>4 DEF Sound, Progress, Action!setup
<1> QED BY <1>4, <1>5, HandlerKeeps

\* A handler that gives up.
LEMMA AnswerKeeps ==
  ASSUME ActionInv, UNCHANGED <<Action!setup, Action!file, waiting, pc, stage>>,
         NEW c \in 1 .. Len(calls), NEW a \in {"error", "raised"}, Action!Answer(c, a)
  PROVE  ActionInv'
<1>1. PICK r \in RequestType : r = [todo |-> <<>>, answer |-> a]
  <2>1. <<>> \in Seq(Ops) OBVIOUS
  <2>2. a \in Answers BY DEF Answers
  <2>3. [todo |-> <<>>, answer |-> a] \in RequestType BY <2>1, <2>2 DEF RequestType
  <2> QED BY <2>3
<1>2. Progress BY DEF Progress, Action!setup, Action!file, ActionInv, ActionType
<1>3. action # "nothing" BY DEF ActionInv, AllSound, Sound
<1>4. Underway(<<>>)' BY DEF Underway, CopyFirst
<1>5. Sound(r)' BY <1>1, <1>3, <1>4 DEF Sound, Action!setup
<1>6. Action!ContentKept' /\ source' \in BOOLEAN /\ arriving' \subseteq {1}
  BY DEF ActionInv, ActionType, Action!ContentKept, Action!Moves, Action!setup, Action!file
<1>7. calls' = [calls EXCEPT ![c] = r] BY <1>1 DEF Action!Answer
<1> QED BY <1>2, <1>5, <1>6, <1>7, HandlerKeeps

\* A move to another file system goes on as a copy, a removal, and what was left to do.
LEMMA CrossUnderway ==
  ASSUME platform = "filesystem", action \in {"delete", "tag", "move", "movetag"},
         NEW todo \in Seq(Ops), todo # <<>>, Underway(todo), todo[1] = "rename"
  PROVE  /\ <<"copy", "remove">> \o Tail(todo) \in Seq(Ops)
         /\ <<"copy", "remove">> \o Tail(todo) # <<>>
         /\ Underway(<<"copy", "remove">> \o Tail(todo))
<1> DEFINE rest == Tail(todo)
           ops == <<"copy", "remove">> \o rest
<1>1. /\ rest \in Seq(Ops) /\ Len(rest) = Len(todo) - 1
      /\ \A k \in 1 .. Len(rest) : rest[k] = todo[k + 1]
      /\ Len(todo) \in Nat \ {0} /\ 1 \in 1 .. Len(todo)
  BY HeadTailProperties, EmptySeq, LenProperties
<1> HIDE DEF rest
<1>2. /\ ops \in Seq(Ops) /\ Len(ops) = Len(todo) + 1 /\ ops[1] = "copy" /\ ops[2] = "remove"
      /\ \A k \in 3 .. Len(ops) : ops[k] = todo[k - 1]
  <2>1. <<"copy", "remove">> \in Seq(Ops) /\ Len(<<"copy", "remove">>) = 2 BY DEF Ops
  <2>2. ops \in Seq(Ops) /\ Len(ops) = Len(todo) + 1 BY <1>1, <2>1, ConcatProperties
  <2>3. ops[1] = "copy" /\ ops[2] = "remove" BY <1>1, <2>1, ConcatProperties
  <2>4. ASSUME NEW k \in 3 .. Len(ops) PROVE ops[k] = todo[k - 1]
    <3>1. ops[k] = rest[k - 2] BY <1>1, <2>1, <2>2, <2>4, ConcatProperties
    <3>2. k - 2 \in 1 .. Len(rest) /\ k - 2 + 1 = k - 1 BY <1>1, <2>2, <2>4
    <3> QED BY <1>1, <3>1, <3>2
  <2> QED BY <2>2, <2>3, <2>4
<1> HIDE DEF ops
<1>3. Action!Moves BY <1>1 DEF Underway, Action!Moves
<1>4. ops # <<>> BY <1>1, <1>2
<1>5. \A k \in 1 .. Len(ops) : ops[k] # "start"
  <2>1. ASSUME NEW k \in 3 .. Len(ops) PROVE ops[k] # "start"
    <3>1. k - 1 \in 1 .. Len(todo) BY <1>1, <1>2, <2>1
    <3> QED BY <1>2, <2>1, <3>1 DEF Underway
  <2> QED BY <1>1, <1>2, <2>1
<1>6. CopyFirst(ops)
  <2>1. ASSUME NEW k \in 1 .. Len(ops), ops[k] = "copy"
        PROVE k < Len(ops) /\ ops[k + 1] = "remove"
    <3>1. CASE k = 1 BY <1>1, <1>2, <3>1
    <3>2. CASE k \in 3 .. Len(ops)
      <4>1. PICK j \in 1 .. Len(todo) : j = k - 1 /\ todo[j] = "copy" BY <1>1, <1>2, <2>1, <3>2
      <4>2. j < Len(todo) /\ todo[j + 1] = "remove" BY <4>1 DEF Underway, CopyFirst
      <4>3. k + 1 \in 3 .. Len(ops) /\ k + 1 - 1 = j + 1 BY <1>1, <1>2, <3>2, <4>1, <4>2
      <4> QED BY <1>2, <4>2, <4>3
    <3> QED BY <1>2, <2>1, <3>1, <3>2
  <2>2. ASSUME NEW k \in 1 .. Len(ops), ops[k] = "remove" PROVE k # 1 /\ ops[k - 1] = "copy"
    <3>1. CASE k = 2 BY <1>2, <3>1
    <3>2. CASE k \in 3 .. Len(ops)
      <4>1. PICK j \in 1 .. Len(todo) : j = k - 1 /\ j # 1 /\ todo[j] = "remove"
        BY <1>1, <1>2, <2>2, <3>2
      <4>2. todo[j - 1] = "copy" BY <1>3, <4>1 DEF Underway, CopyFirst
      <4>3. k # 3 BY <4>1, <4>2
      <4>4. k - 1 \in 3 .. Len(ops) /\ k - 1 - 1 = j - 1 BY <1>1, <1>2, <3>2, <4>1, <4>3
      <4>5. ops[k - 1] = todo[j - 1] BY <1>2, <4>4
      <4> QED BY <3>2, <4>2, <4>5
    <3> QED BY <1>2, <2>2, <3>1, <3>2
  <2> QED BY <2>1, <2>2 DEF CopyFirst
<1>7. Suffices(ops)
  <2>1. 2 \in 1 .. Len(ops) BY <1>1, <1>2
  <2>2. ASSUME action = "movetag" PROVE ops[Len(ops)] = "tag_copy"
    <3>1. todo[Len(todo)] = "tag_copy" BY <2>2 DEF Underway, Suffices
    <3>2. Len(ops) \in 3 .. Len(ops) /\ Len(ops) - 1 = Len(todo) BY <1>1, <1>2, <3>1
    <3> QED BY <1>2, <3>1, <3>2
  <2> QED BY <1>2, <1>3, <2>1, <2>2 DEF Suffices, Action!Moves
<1> QED BY <1>2, <1>3, <1>4, <1>5, <1>6, <1>7 DEF Underway, Action!Moves, ops, rest

LEMMA ActionStarts == Action!Init => ActionInv
<1> SUFFICES ASSUME Action!Init PROVE ActionInv OBVIOUS
<1>1. action \in {"delete", "tag", "move", "movetag", "nothing"}
  BY DEF Action!Init, Action!connector_action, Action!Plans
<1>2. calls = <<>> /\ calls \in Seq(RequestType) /\ Len(calls) = 0 BY DEF Action!Init
<1>3. ActionType BY <1>1, <1>2 DEF Action!Init, ActionType
<1>4. AllSound BY <1>2 DEF AllSound
<1> QED BY <1>3, <1>4 DEF Action!Init, ActionInv, Action!ContentKept, Reported

\* Every step of a handler, one by one.
LEMMA HandlerStep ==
  ASSUME ActionInv, NEW c \in DOMAIN calls, Action!Handler(c)
  PROVE  ActionInv'
<1> DEFINE todo == calls[c].todo
<1>0. c \in 1 .. Len(calls) /\ calls[c] \in RequestType /\ Sound(calls[c]) /\ todo \in Seq(Ops)
      /\ platform \in Action!Platforms /\ source \in BOOLEAN /\ copies \subseteq {1}
           /\ arriving \subseteq {1}
  <2>1. calls \in Seq(RequestType) BY DEF ActionInv, ActionType
  <2>2. c \in 1 .. Len(calls) /\ calls[c] \in RequestType BY <2>1
  <2>3. Sound(calls[c]) BY <2>2 DEF ActionInv, AllSound
  <2>4. todo \in Seq(Ops) BY <2>2 DEF RequestType
  <2> QED BY <2>2, <2>3, <2>4 DEF ActionInv, ActionType
<1>1. action \in {"delete", "tag", "move", "movetag"} BY <1>0 DEF ActionInv, ActionType, Sound
<1>2. ASSUME NEW op, Action!Op(c, op), op # "start"
      PROVE todo \notin {<<>>, <<"start">>} /\ todo[1] = op
  <2>1. todo # <<>> /\ todo[1] = op BY <1>2 DEF Action!Op
  <2>2. <<"start">>[1] = "start" OBVIOUS
  <2> QED BY <1>2, <2>1, <2>2
<1>3. todo \notin {<<>>, <<"start">>} => Underway(todo) /\ 1 \in 1 .. Len(todo)
  <2>1. todo \notin {<<>>, <<"start">>} => Underway(todo) BY <1>0 DEF Sound
  <2>2. todo # <<>> => 1 \in 1 .. Len(todo)
    <3>1. Len(todo) \in Nat BY <1>0, LenProperties
    <3>2. todo # <<>> => Len(todo) # 0 BY <1>0, EmptySeq
    <3> HIDE DEF todo
    <3> QED BY <3>1, <3>2
  <2> QED BY <2>1, <2>2
<1>4. UNCHANGED Action!file /\ UNCHANGED Action!setup
      => Progress /\ (Action!ContentKept => Action!ContentKept')
  BY <1>0 DEF Progress, Action!ContentKept, Action!file, Action!setup, Action!Moves
<1>5. CASE Action!Serve(c)
  <2>1. PICK r \in RequestType :
          r = [todo |-> Action!item_action_handler[platform][action],
               answer |-> IF Action!item_action_handler[platform][action] # <<>>
                          THEN "none" ELSE "nothing"]
    BY <1>0, <1>1, ProgramUnderway DEF RequestType, Answers
  <2>2. Progress /\ Action!ContentKept' BY <1>4, <1>5 DEF Action!Serve, ActionInv, Action!file
  <2>3. calls' = [calls EXCEPT ![c] = r]
    BY <1>0, <1>1, <1>5, <2>1, ProgramUnderway DEF Action!Serve, Action!Todo
  <2>4. Underway(r.todo) BY <1>0, <1>1, <2>1, ProgramUnderway
  <2>5. Underway(r.todo)' BY <2>2, <2>4, ProgressKeeps
  <2>6. Sound(r)' BY <1>1, <2>1, <2>2, <2>5 DEF Sound, Progress, Action!setup
  <2> QED BY <1>0, <1>5, <2>2, <2>3, <2>6, HandlerKeeps DEF Action!Serve, Action!file
<1>6. CASE Action!Check(c)
  <2>1. todo \notin {<<>>, <<"start">>} /\ todo[1] = "check" BY <1>2, <1>6 DEF Action!Check
  <2>2. Progress /\ Action!ContentKept' BY <1>4, <1>6 DEF Action!Check, ActionInv, Action!file
  <2>3. CASE source
    <3>1. Effect(todo[1]) BY <2>1 DEF Effect
    <3> QED BY <1>0, <1>6, <2>1, <2>2, <2>3, <3>1, ProceedKeeps DEF Action!Check, Action!file
  <2>4. CASE ~source
    BY <1>0, <1>6, <2>4, AnswerKeeps DEF Action!Check
  <2> QED BY <2>3, <2>4
<1>7. CASE Action!Remove(c)
  <2>1. todo \notin {<<>>, <<"start">>} /\ todo[1] = "remove" BY <1>2, <1>7 DEF Action!Remove
  <2>2. action # "tag" BY <1>3, <2>1 DEF Underway
  <2>3. Progress BY <1>0, <1>7, <2>2 DEF Action!Remove, Progress, Action!Source
  <2>4. Action!ContentKept'
    <3>1. Action!Moves /\ platform # "azure" => copies # {} BY <1>3, <2>1 DEF Underway, CopyFirst
    <3> QED BY <1>7, <3>1 DEF Action!Remove, Action!ContentKept, Action!Moves, Action!setup
  <2>5. Effect(todo[1]) BY <1>7, <2>1 DEF Effect, Action!Remove
  <2> QED BY <1>0, <1>7, <2>1, <2>3, <2>4, <2>5, ProceedKeeps DEF Action!Remove
<1>8. CASE Action!MakeDirectory(c)
  <2>1. todo \notin {<<>>, <<"start">>} /\ todo[1] = "mkdir"
    BY <1>2, <1>8 DEF Action!MakeDirectory
  <2>2. Progress /\ Action!ContentKept'
    BY <1>4, <1>8 DEF Action!MakeDirectory, ActionInv, Action!file
  <2>3. Effect(todo[1]) BY <2>1 DEF Effect
  <2> QED BY <1>0, <1>8, <2>1, <2>2, <2>3, ProceedKeeps DEF Action!MakeDirectory, Action!file
<1>9. CASE Action!Rename(c)
  <2>1. todo \notin {<<>>, <<"start">>} /\ todo[1] = "rename" BY <1>2, <1>9 DEF Action!Rename
  <2>2. source' = FALSE /\ copies' = {1}
    BY <1>0, <1>9 DEF Action!Rename, Action!resolved_quarantine_filename
  <2>3. Progress BY <1>0, <1>9, <2>2 DEF Action!Rename, Progress
  <2>4. Action!ContentKept' BY <2>2 DEF Action!ContentKept
  <2>5. Effect(todo[1]) BY <2>1, <2>2 DEF Effect
  <2> QED BY <1>0, <1>9, <2>1, <2>2, <2>3, <2>4, <2>5, ProceedKeeps DEF Action!Rename
<1>10. CASE Action!Copy(c)
  <2>1. todo \notin {<<>>, <<"start">>} /\ todo[1] = "copy" BY <1>2, <1>10 DEF Action!Copy
  <2>2. UNCHANGED source /\ copies' = {1}
    BY <1>0, <1>10 DEF Action!Copy, Action!resolved_quarantine_filename
  <2>3. Progress BY <1>0, <1>10, <2>2 DEF Action!Copy, Progress
  <2>4. Action!ContentKept' BY <2>2 DEF Action!ContentKept
  <2>5. Effect(todo[1]) BY <2>1, <2>2 DEF Effect
  <2> QED BY <1>0, <1>10, <2>1, <2>2, <2>3, <2>4, <2>5, ProceedKeeps DEF Action!Copy
<1>11. CASE Action!CopyPromised(c)
  <2>1. todo \notin {<<>>, <<"start">>} /\ todo[1] = "copy" BY <1>2, <1>11 DEF Action!CopyPromised
  <2>2. UNCHANGED <<Action!setup, source, copies, tagged>> /\ platform = "azure"
    BY <1>11 DEF Action!CopyPromised
  <2>3. arriving' \subseteq {1}
    BY <1>0, <1>11 DEF Action!CopyPromised, Action!resolved_quarantine_filename
  <2>4. Progress BY <1>0, <2>2 DEF Progress
  <2>5. Action!ContentKept' BY <2>2 DEF Action!ContentKept, Action!setup
  <2>6. Effect(todo[1]) BY <2>1, <2>2 DEF Effect
  <2> QED BY <1>0, <1>11, <2>1, <2>2, <2>3, <2>4, <2>5, <2>6, ProceedKeeps DEF Action!CopyPromised
<1>12. CASE Action!Tag(c)
  <2>1. /\ todo \notin {<<>>, <<"start">>} /\ todo[1] \in {"tag_source", "tag_copy"}
        /\ todo[1] = "tag_source" => Action!Source \in tagged'
        /\ todo[1] = "tag_copy" => tagged' = tagged \cup ({1} \cap copies)
        /\ tagged \subseteq tagged'
    <3>1. CASE Action!Op(c, "tag_source") /\ source /\ tagged' = tagged \cup {Action!Source}
      BY <1>2, <3>1
    <3>2. CASE Action!Op(c, "tag_copy")
               /\ tagged' = tagged \cup ({Action!resolved_quarantine_filename(c)} \cap copies)
      BY <1>2, <3>2 DEF Action!resolved_quarantine_filename
    <3> QED BY <1>12, <3>1, <3>2 DEF Action!Tag
  <2>2. UNCHANGED <<Action!setup, source, copies, arriving, waiting, pc, stage>>
        /\ Action!Proceed(c)
    BY <1>12 DEF Action!Tag
  <2>3. Progress BY <1>0, <2>1, <2>2 DEF Progress
  <2>4. Action!ContentKept' BY <2>2 DEF Action!ContentKept, ActionInv, Action!Moves, Action!setup
  <2>5. Effect(todo[1]) BY <2>1, <2>2 DEF Effect
  <2> QED BY <1>0, <2>1, <2>2, <2>3, <2>4, <2>5, ProceedKeeps
<1>13. CASE Action!FindsNothing(c)
  <2>1. todo \notin {<<>>, <<"start">>} /\ todo[1] = "remove"
    BY <1>2, <1>13 DEF Action!FindsNothing
  <2>2. Progress /\ Action!ContentKept'
    BY <1>4, <1>13 DEF Action!FindsNothing, ActionInv, Action!file
  <2>3. Effect(todo[1]) BY <1>13, <2>1 DEF Action!FindsNothing, Effect, Action!file
  <2> QED BY <1>0, <1>13, <2>1, <2>2, <2>3, ProceedKeeps DEF Action!FindsNothing, Action!file
<1>14. CASE Action!RenameAcross(c)
  <2>1. todo \notin {<<>>, <<"start">>} /\ todo[1] = "rename"
    BY <1>2, <1>14 DEF Action!RenameAcross
  <2>2. Progress /\ Action!ContentKept'
    BY <1>4, <1>14 DEF Action!RenameAcross, ActionInv, Action!file
  <2>3. PICK ops \in Seq(Ops) : ops = <<"copy", "remove">> \o Tail(todo) /\ Underway(ops)
        /\ ops # <<>>
    BY <1>0, <1>1, <1>3, <1>14, <2>1, CrossUnderway DEF Action!RenameAcross
  <2>4. PICK r \in RequestType : r = [todo |-> ops, answer |-> "none"] BY DEF RequestType, Answers
  <2>5. calls' = [calls EXCEPT ![c] = r] BY <1>14, <2>3, <2>4 DEF Action!RenameAcross, Action!Todo
  <2>6. Sound(r)' BY <1>1, <2>2, <2>3, <2>4, ProgressKeeps DEF Sound, Progress, Action!setup
  <2> QED BY <1>0, <1>14, <2>2, <2>5, <2>6, HandlerKeeps DEF Action!RenameAcross, Action!file
<1>15. CASE Action!Fails(c)
  <2>1. todo \notin {<<>>, <<"start">>}
        /\ UNCHANGED <<Action!setup, Action!file, waiting, pc, stage>>
    BY <1>15 DEF Action!Fails
  <2>2. Progress /\ Action!ContentKept' BY <1>4, <2>1 DEF ActionInv, Action!file
  <2>3. CASE Action!Answer(c, "raised") \/ Action!Answer(c, "error")
    BY <1>0, <2>1, <2>3, AnswerKeeps
  <2>4. CASE "skip" \in Action!Failing(Head(todo))
             /\ Action!Todo(c, Action!RestAfter(Head(todo), todo))
    <3>1. platform \in Action!Stores /\ Head(todo) = todo[1]
      BY <1>0, <2>1, <2>4 DEF Action!Failing, Action!Platforms
    <3>2. PICK rest \in Seq(Ops) : rest = Action!RestAfter(todo[1], todo) /\ Underway(rest)
          /\ action # "delete"
      BY <1>0, <1>1, <1>3, <2>1, <2>4, <3>1, RestUnderway
    <3>3. PICK r \in RequestType :
            /\ r.todo = rest
            /\ r.answer = IF rest # <<>> THEN "none" ELSE "success"
            /\ r = [todo |-> rest, answer |-> r.answer]
      <4> DEFINE q == [todo |-> rest, answer |-> IF rest # <<>> THEN "none" ELSE "success"]
      <4>1. q \in RequestType BY DEF RequestType, Answers
      <4>2. q.todo = rest /\ q = [todo |-> rest, answer |-> q.answer]
            /\ q.answer = IF rest # <<>> THEN "none" ELSE "success"
        OBVIOUS
      <4> HIDE DEF q
      <4> QED BY <4>1, <4>2
    <3>4. calls' = [calls EXCEPT ![c] = r]
      BY <2>4, <3>1, <3>2, <3>3 DEF Action!Todo, Action!Stores
    <3>5. Done' BY <2>2, <3>1, <3>2 DEF Done, Progress, Action!setup
    <3>6. Underway(rest)' BY <2>2, <3>2, ProgressKeeps
    <3>7. Sound(r)' BY <1>1, <2>2, <3>3, <3>5, <3>6 DEF Sound, Progress, Action!setup
    <3> QED BY <1>0, <2>1, <2>2, <3>4, <3>7, HandlerKeeps DEF Action!file
  <2> QED BY <1>15, <2>3, <2>4 DEF Action!Fails
<1>16. CASE Action!ConnectorDies(c) BY <1>0, <1>16, AnswerKeeps DEF Action!ConnectorDies
<1> QED
  BY <1>5, <1>6, <1>7, <1>8, <1>9, <1>10, <1>11, <1>12, <1>13, <1>14, <1>15, <1>16 DEF
     Action!Handler
-----------------------------------------------------------------------------
(***************************************************************************)
(* The worker, and the steps together.                                     *)
(***************************************************************************)
LEMMA WorkerStep ==
  ASSUME ActionInv, NEW w \in Workers,
         Action!Worker(w) \/ Action!TimesOut(w) \/ Action!WorkerDies(w)
  PROVE  ActionInv'
<1>1. UNCHANGED <<Action!setup, Action!file>>
  BY DEF Action!Worker, Action!Deliver, Action!Stub, Action!Refuse, Action!Call, Action!Answered,
     Action!Complete, Action!DeadLetter, Action!TimesOut, Action!WorkerDies
<1>2. Progress /\ Action!ContentKept' /\ source' \in BOOLEAN /\ arriving' \subseteq {1}
  BY <1>1 DEF ActionInv, ActionType, Progress, Action!ContentKept, Action!Moves, Action!setup,
     Action!file
<1>3. CASE Action!Call(w)
  <2>1. PICK r \in RequestType : r = [todo |-> <<"start">>, answer |-> "none"]
    <3>1. <<"start">> \in Seq(Ops) BY DEF Ops
    <3>2. "none" \in Answers BY DEF Answers
    <3>3. [todo |-> <<"start">>, answer |-> "none"] \in RequestType BY <3>1, <3>2 DEF RequestType
    <3> QED BY <3>3
  <2>2. calls' = Append(calls, r) /\ calls \in Seq(RequestType)
    BY <1>3, <2>1 DEF Action!Call, ActionInv, ActionType
  <2>3. /\ calls' \in Seq(RequestType) /\ Len(calls') = Len(calls) + 1 /\ Len(calls) \in Nat
        /\ calls'[Len(calls) + 1] = r
        /\ \A d \in 1 .. Len(calls) : calls'[d] = calls[d]
    BY <2>2, AppendProperties, LenProperties
  <2>4. /\ waiting' = [waiting EXCEPT ![w] = Len(calls) + 1]
        /\ pc' = [pc EXCEPT ![w] = "called"]
        /\ UNCHANGED stage
    BY <1>3 DEF Action!Call, Action!Goto
  <2>5. /\ waiting' \in [Workers -> Nat]
        /\ \A v \in Workers : pc'[v] = "called" => waiting'[v] \in 1 .. Len(calls')
    <3>1. ASSUME NEW v \in Workers, pc'[v] = "called" PROVE waiting'[v] \in 1 .. Len(calls')
      <4>1. CASE v = w BY <2>3, <2>4, <4>1 DEF ActionInv, ActionType
      <4>2. CASE v # w BY <2>3, <2>4, <3>1, <4>2 DEF ActionInv, ActionType
      <4> QED BY <4>1, <4>2
    <3> QED BY <2>3, <2>4, <3>1 DEF ActionInv, ActionType
  <2>6. ActionType'
    BY <1>1, <1>2, <2>3, <2>4, <2>5 DEF ActionInv, ActionType, Progress, Action!setup
  <2>7. ASSUME NEW d \in 1 .. Len(calls') PROVE Sound(calls[d])'
    <3>1. CASE d = Len(calls) + 1
      <4>1. calls'[d] = r /\ action # "nothing" BY <1>3, <2>3, <3>1 DEF Action!Call
      <4> QED BY <1>1, <2>1, <4>1 DEF Sound, Action!setup
    <3>2. CASE d # Len(calls) + 1
      <4>1. d \in 1 .. Len(calls) BY <2>3, <2>7, <3>2
      <4>2. Sound(calls[d]) /\ calls'[d] = calls[d] BY <2>3, <4>1 DEF ActionInv, AllSound
      <4> QED BY <1>1, <1>2, <4>2, ProgressKeeps DEF Sound, Action!setup
    <3> QED BY <3>1, <3>2
  <2>8. (Reported => Done)' BY <1>2, <2>4, ProgressKeeps DEF ActionInv, Reported, ActionType
  <2> QED BY <1>2, <2>6, <2>7, <2>8 DEF ActionInv, AllSound
<1>4. ASSUME UNCHANGED calls, ActionType', Reported' => Done PROVE ActionInv'
  <2>1. AllSound'
    <3>1. ASSUME NEW d \in 1 .. Len(calls') PROVE Sound(calls[d])'
      <4>1. Sound(calls[d]) /\ calls'[d] = calls[d] BY <1>4, <3>1 DEF ActionInv, AllSound
      <4> QED BY <1>1, <1>2, <4>1, ProgressKeeps DEF Sound, Action!setup
    <3> QED BY <3>1 DEF AllSound
  <2> QED BY <1>2, <1>4, <2>1, ProgressKeeps DEF ActionInv
<1>5. CASE Action!Deliver(w)
  <2>1. UNCHANGED <<calls, waiting>> /\ pc' = [pc EXCEPT ![w] = "execute"]
        /\ stage' \in {stage, [stage EXCEPT !.state = "running"]}
    BY <1>5 DEF Action!Deliver, Action!Goto
  <2>2. stage' \in [state : {"pending", "running", "completed"},
                    outcome : {"none", "stub", "succeeded", "noop"}]
                    /\ stage'.outcome = stage.outcome
    BY <2>1 DEF ActionInv, ActionType
  <2>3. ActionType' BY <1>1, <1>2, <2>1, <2>2 DEF ActionInv, ActionType, Progress, Action!setup
  <2>4. Reported' => Done BY <2>1, <2>2 DEF Reported, ActionInv, ActionType
  <2> QED BY <1>4, <2>1, <2>3, <2>4
<1>6. CASE Action!Stub(w) \/ Action!Refuse(w) \/ Action!DeadLetter(w) \/ Action!TimesOut(w)
           \/ Action!WorkerDies(w)
  <2>1. PICK l \in {"stub", "dead_letter", "idle"} : pc' = [pc EXCEPT ![w] = l]
    BY <1>6 DEF Action!Stub, Action!Refuse, Action!DeadLetter, Action!TimesOut,
       Action!WorkerDies, Action!Goto
  <2>2. UNCHANGED <<calls, stage>> /\ waiting' \in {waiting, [waiting EXCEPT ![w] = 0]}
    BY <1>6 DEF Action!Stub, Action!Refuse, Action!DeadLetter, Action!TimesOut, Action!WorkerDies
  <2>3. ActionType' BY <1>1, <1>2, <2>1, <2>2 DEF ActionInv, ActionType, Progress, Action!setup
  <2>4. Reported' => Done BY <2>1, <2>2 DEF Reported, ActionInv, ActionType
  <2> QED BY <1>4, <2>2, <2>3, <2>4
<1>7. CASE Action!Answered(w)
  <2>1. /\ waiting[w] \in 1 .. Len(calls) /\ calls[waiting[w]] \in RequestType
             /\ Sound(calls[waiting[w]])
        /\ calls[waiting[w]].answer # "none"
    <3>1. waiting[w] \in 1 .. Len(calls) /\ calls \in Seq(RequestType)
      BY <1>7 DEF Action!Answered, ActionInv, ActionType
    <3> QED BY <1>7, <3>1 DEF Action!Answered, ActionInv, AllSound
  <2>2. PICK l \in {"dead_letter", "succeeded", "noop", "stub"} :
           pc' = [pc EXCEPT ![w] = l] /\ (l = "succeeded" => calls[waiting[w]].answer = "success")
    BY <1>7, <2>1 DEF Action!Answered, Action!Goto, RequestType, Answers
  <2>3. UNCHANGED <<calls, stage>> /\ waiting' = [waiting EXCEPT ![w] = 0]
    BY <1>7 DEF Action!Answered
  <2>4. ActionType' BY <1>1, <1>2, <2>2, <2>3 DEF ActionInv, ActionType, Progress, Action!setup
  <2>5. Reported' => Done
    <3>1. l = "succeeded" => Done BY <2>1, <2>2 DEF Sound
    <3> QED BY <2>2, <2>3, <3>1 DEF Reported, ActionInv, ActionType
  <2> QED BY <1>4, <2>3, <2>4, <2>5
<1>8. CASE Action!Complete(w)
  <2>1. /\ pc[w] \in {"stub", "succeeded", "noop"} /\ pc' = [pc EXCEPT ![w] = "idle"]
        /\ stage' = [state |-> "completed", outcome |-> pc[w]] /\ UNCHANGED <<calls, waiting>>
    BY <1>8 DEF Action!Complete, Action!Goto
  <2>2. ActionType' BY <1>1, <1>2, <2>1 DEF ActionInv, ActionType, Progress, Action!setup
  <2>3. Reported' => Done
    <3>1. stage'.outcome = "succeeded" => Reported BY <2>1 DEF Reported
    <3>2. ASSUME NEW v \in Workers, pc'[v] = "succeeded" PROVE Reported
      BY <2>1, <3>2 DEF Reported, ActionInv, ActionType
    <3> QED BY <3>1, <3>2 DEF Reported, ActionInv
  <2> QED BY <1>4, <2>1, <2>2, <2>3
<1> QED BY <1>3, <1>5, <1>6, <1>7, <1>8 DEF Action!Worker

\* The invariant is kept by every step.
LEMMA ActionStep == ActionInv /\ [Action!Next]_(Action!vars) => ActionInv'
<1> SUFFICES ASSUME ActionInv, [Action!Next]_(Action!vars) PROVE ActionInv' OBVIOUS
<1>1. ASSUME UNCHANGED <<Action!setup, waiting, calls, pc, stage>>, Progress, Action!ContentKept',
             source' \in BOOLEAN, arriving' \subseteq {1}
      PROVE  ActionInv'
  <2>1. ActionType' BY <1>1 DEF ActionInv, ActionType, Progress, Action!setup
  <2>2. ASSUME NEW d \in 1 .. Len(calls') PROVE Sound(calls[d])'
    <3>1. Sound(calls[d]) /\ calls'[d] = calls[d] BY <1>1, <2>2 DEF ActionInv, AllSound
    <3> QED BY <1>1, <3>1, ProgressKeeps DEF Sound, Action!setup
  <2>3. (Reported => Done)' BY <1>1, ProgressKeeps DEF ActionInv, Reported
  <2> QED BY <1>1, <2>1, <2>2, <2>3 DEF ActionInv, AllSound
<1>2. CASE UNCHANGED Action!vars
  BY <1>1, <1>2 DEF Action!vars, Action!setup, Action!file, ActionInv, ActionType, Progress,
     Action!ContentKept, Action!Moves
<1>3. CASE \E name \in arriving : Action!CopyArrives(name)
  <2>1. PICK name \in arriving : Action!CopyArrives(name) BY <1>3
  <2>2. name = 1 BY <2>1 DEF ActionInv, ActionType
  <2>3. /\ UNCHANGED <<Action!setup, source, tagged, calls, waiting, pc, stage>>
             /\ arriving' \subseteq {1}
        /\ copies \subseteq copies' /\ copies' \subseteq {1}
    BY <2>1, <2>2 DEF Action!CopyArrives, ActionInv, ActionType
  <2>4. Progress /\ Action!ContentKept' /\ source' \in BOOLEAN
    BY <2>3 DEF Progress, Action!ContentKept, Action!Moves, Action!setup, ActionInv, ActionType
  <2> QED BY <1>1, <2>3, <2>4
<1>4. CASE \E w \in Workers : Action!Worker(w) \/ Action!TimesOut(w) \/ Action!WorkerDies(w)
  BY <1>4, WorkerStep
<1>5. CASE \E c \in DOMAIN calls : Action!Handler(c) BY <1>5, HandlerStep
<1> QED BY <1>2, <1>3, <1>4, <1>5 DEF Action!Next
-----------------------------------------------------------------------------
\* The variables keep their types.
THEOREM ActionTypesKept == Action!Spec => []ActionType
<1>1. ActionInv => ActionType BY DEF ActionInv
<1> QED BY <1>1, ActionStarts, ActionStep, PTL DEF Action!Spec

\* A file that is moved is where it was found or in quarantine, at every step of any number of
\* handlers, failures and deaths, except on Azure; and it is in quarantine under one name.
THEOREM FilesAreKept == Action!Spec => []FileKept
<1>1. ActionInv => FileKept
  <2> SUFFICES ASSUME ActionInv PROVE Action!QuarantinedOnce BY DEF FileKept, ActionInv
  <2>1. copies = {} \/ copies = {1} BY DEF ActionInv, ActionType
  <2>2. Cardinality({}) = 0 /\ Cardinality({1}) = 1 BY FS_EmptySet, FS_Singleton
  <2> QED BY <2>1, <2>2, ActionNames DEF Action!QuarantinedOnce
<1> QED BY <1>1, ActionStarts, ActionStep, PTL DEF Action!Spec

\* What a connector has reported as done is done, whoever did it and whatever was done twice.
THEOREM ReportedIsReal == Action!Spec => []SuccessIsReal
<1>1. ActionInv => SuccessIsReal
  <2> SUFFICES ASSUME ActionInv, stage.outcome = "succeeded",
                      action = "delete" \/ platform \notin Action!Stores
               PROVE  CASE action = "delete"  -> ~source
                        [] action = "move"    -> ~source /\ copies # {}
                        [] action = "movetag" -> /\ ~source
                                                 /\ platform = "drive" \/ tagged \cap copies # {}
                        [] action = "tag"     -> Action!Source \in tagged
    BY DEF SuccessIsReal, Action!SuccessIsReal
  <2>1. Done /\ copies \subseteq {1} BY DEF ActionInv, Reported, ActionType
  <2>2. action \in {"delete", "move", "movetag", "tag"} BY <2>1 DEF Done, ActionInv, ActionType
  <2>3. CASE action = "movetag"
    <3>1. ~source /\ copies = {1} /\ (platform = "drive" \/ 1 \in tagged) BY <2>1, <2>3 DEF Done
    <3> QED BY <2>3, <3>1
  <2> QED BY <2>1, <2>2, <2>3 DEF Done
<1> QED BY <1>1, ActionStarts, ActionStep, PTL DEF Action!Spec
-----------------------------------------------------------------------------
(***************************************************************************)
(* DriveChanges: the cursors and the tasks.                                *)
(***************************************************************************)
\* Positions in the log, and what is sent about its changes.
Positions == {Drive!None} \cup 0 .. Len(log)
SentNotes == [change : DOMAIN log, data : Drive!Data]
DriveLabels == {"idle", "init", "baseline", "init_put", "direct", "get", "fetch", "put", "enqueue"}
TaskType ==
    [pc : DriveLabels, batch : SUBSET SentNotes, seen : SUBSET Items, todo : SUBSET Items,
     cursor : Positions, fetched : 0 .. Len(log)]

\* The log, its positions, the notifications and the locals of the tasks.
DriveTypeOK ==
    /\ log \in Seq(Items)
    /\ notes \subseteq SentNotes
    /\ store \in Positions /\ cursor \in Positions
    /\ proc \in {"down", "starting", "up"}
    /\ task \in [Drive!Tasks -> TaskType]
    /\ requested \in [Items -> Nat]
    /\ proc = "down" => \A t \in Drive!Tasks : task[t] = Drive!Idle

\* A change up to a cursor has been dealt with, or a drive's query is asking for it.
Settled(k) == requested[log[k]] >= k \/ k \in dropped
Passed(c) == \A k \in 1 .. c : Settled(k) \/ Drive!InHand(k)

\* A query starts from a cursor of which this is true, and asks for all that comes after it;
\* the cursor of a mailbox is stored when nothing is left to be asked for.
Query(t) ==
    /\ task[t].pc = "fetch" => Passed(task[t].cursor)
    /\ task[t].pc \in {"put", "enqueue"} =>
           \A k \in 1 .. task[t].fetched :
               Settled(k) \/ Drive!InHand(k) \/ log[k] \in task[t].todo
    /\ task[t].pc = "put" /\ service = "mail" => task[t].todo = {}

DriveInv == DriveTypeOK /\ Passed(store) /\ Passed(cursor) /\ \A t \in Drive!Tasks : Query(t)

LEMMA DriveStarts == Drive!Init => DriveInv
<1> SUFFICES ASSUME Drive!Init PROVE DriveInv OBVIOUS
<1>1. Len(log) = 0 /\ log \in Seq(Items) BY DEF Drive!Init
<1>2. Drive!Idle \in TaskType BY <1>1 DEF Drive!Idle, TaskType, DriveLabels, Positions, Drive!None
<1>3. DriveTypeOK BY <1>1, <1>2 DEF Drive!Init, DriveTypeOK, Positions
<1>4. Passed(store) /\ Passed(cursor) BY DEF Drive!Init, Passed, Drive!None
<1>5. \A t \in Drive!Tasks : Query(t) BY DEF Drive!Init, Query, Drive!Idle
<1> QED BY <1>3, <1>4, <1>5 DEF DriveInv

\* The log only grows: what has been said of it stays true.
LEMMA LogGrows ==
  ASSUME DriveTypeOK, NEW i \in Items, log' = Append(log, i)
  PROVE  /\ log' \in Seq(Items) /\ Len(log') = Len(log) + 1
         /\ Positions \subseteq Positions' /\ SentNotes \subseteq SentNotes'
         /\ TaskType \subseteq TaskType'
         /\ \A k \in 1 .. Len(log) : log'[k] = log[k]
<1>1. /\ log \in Seq(Items) /\ log' \in Seq(Items) /\ Len(log') = Len(log) + 1 /\ Len(log) \in Nat
      /\ \A k \in 1 .. Len(log) : log'[k] = log[k]
      /\ DOMAIN log = 1 .. Len(log) /\ DOMAIN log' = 1 .. Len(log')
  BY DEF DriveTypeOK
<1>2. Positions \subseteq Positions' BY <1>1 DEF Positions
<1>3. SentNotes \subseteq SentNotes' BY <1>1 DEF SentNotes
<1>4. 0 .. Len(log) \subseteq 0 .. Len(log') BY <1>1
<1>5. TaskType \subseteq TaskType' BY <1>2, <1>3, <1>4 DEF TaskType
<1> QED BY <1>1, <1>2, <1>3, <1>5

\* Where a query starts, and what it finds.
LEMMA CursorType ==
  ASSUME DriveTypeOK
  PROVE  /\ Drive!Found(store) \in Positions
         /\ \A v : Drive!Keep(v) /\ v \in Positions => cursor' \in Positions
         /\ \A c \in Positions : Drive!Changed(c, Len(log)) \subseteq Items
<1>1. Drive!Found(store) \in Positions BY DEF DriveTypeOK, Drive!Found
<1>2. \A v : Drive!Keep(v) /\ v \in Positions => cursor' \in Positions BY DEF DriveTypeOK, Drive!Keep
<1>3. ASSUME NEW c \in Positions PROVE Drive!Changed(c, Len(log)) \subseteq Items
  <2>1. \A k \in 1 .. Len(log) : log[k] \in Items BY DEF DriveTypeOK
  <2>2. \A k \in (IF c = Drive!None THEN 1 ELSE c + 1) .. Len(log) : k \in 1 .. Len(log)
    BY DEF DriveTypeOK, Positions, Drive!None
  <2> QED BY <2>1, <2>2 DEF Drive!Changed
<1> QED BY <1>1, <1>2, <1>3

\* A step that leaves the log alone keeps the types if what it writes has them.
LEMMA TypeFrame ==
  ASSUME DriveTypeOK, UNCHANGED log, store' \in Positions, cursor' \in Positions, notes' \subseteq SentNotes,
         task' \in [Drive!Tasks -> TaskType], requested' \in [Items -> Nat],
         proc' \in {"down", "starting", "up"},
         proc' = "down" => \A t \in Drive!Tasks : task'[t] = Drive!Idle
  PROVE  DriveTypeOK'
<1>1. Positions' = Positions /\ SentNotes' = SentNotes BY DEF Positions, SentNotes
<1>2. TaskType' = TaskType BY <1>1 DEF TaskType
<1> QED BY <1>1, <1>2 DEF DriveTypeOK

\* A task with another value in one of its fields.
LEMMA TaskFields ==
  ASSUME NEW u \in TaskType
  PROVE  /\ \A l \in DriveLabels : [u EXCEPT !.pc = l] \in TaskType
         /\ \A S \in SUBSET Items : [u EXCEPT !.todo = S] \in TaskType
         /\ \A c \in Positions : [u EXCEPT !.cursor = c] \in TaskType
         /\ \A n \in 0 .. Len(log) : [u EXCEPT !.fetched = n] \in TaskType
<1>1. \A l \in DriveLabels : [u EXCEPT !.pc = l] \in TaskType BY DEF TaskType
<1>2. \A S \in SUBSET Items : [u EXCEPT !.todo = S] \in TaskType BY DEF TaskType
<1>3. \A c \in Positions : [u EXCEPT !.cursor = c] \in TaskType BY DEF TaskType
<1>4. \A n \in 0 .. Len(log) : [u EXCEPT !.fetched = n] \in TaskType BY DEF TaskType
<1> QED BY <1>1, <1>2, <1>3, <1>4

LEMMA TypeBoot ==
  ASSUME DriveTypeOK, Drive!Boot
  PROVE  DriveTypeOK'
<1>0. /\ Drive!Loop \in Drive!Tasks /\ Len(log) \in Nat
      /\ proc \in {"down", "starting", "up"} /\ task \in [Drive!Tasks -> TaskType]
      /\ proc = "down" => \A t \in Drive!Tasks : task[t] = Drive!Idle
  BY DEF DriveTypeOK, Drive!Tasks
<1>1. UNCHANGED <<log, notes, requested>>
  BY DEF Drive!Boot, Drive!StartDrive, Drive!StartMail, Drive!InitGet, Drive!Baseline,
     Drive!InitPut, Drive!graph
<1>2. task' \in [Drive!Tasks -> TaskType]
  BY <1>0 DEF Drive!Boot, Drive!StartDrive, Drive!StartMail, Drive!InitGet, Drive!Baseline,
     Drive!InitPut, Drive!Started, Drive!Goto, TaskType, DriveLabels
<1>3. Len(log) \in Positions /\ task[Drive!Loop].fetched \in Positions
  BY <1>0 DEF TaskType, Positions
<1>4. store' \in Positions
  BY <1>3 DEF Drive!Boot, Drive!StartDrive, Drive!StartMail, Drive!InitGet, Drive!Baseline,
     Drive!InitPut, DriveTypeOK
<1>5. cursor' \in Positions
  BY <1>3, CursorType DEF Drive!Boot, Drive!StartDrive, Drive!StartMail, Drive!InitGet,
     Drive!Baseline, Drive!InitPut, DriveTypeOK
<1>6. proc' \in {"down", "starting", "up"} /\ proc' # "down"
  BY <1>0 DEF Drive!Boot, Drive!StartDrive, Drive!StartMail, Drive!InitGet, Drive!Baseline,
     Drive!InitPut, Drive!Started, Drive!Idle
<1> QED BY <1>1, <1>2, <1>4, <1>5, <1>6, TypeFrame DEF DriveTypeOK

LEMMA TypeTask ==
  ASSUME DriveTypeOK, NEW t \in Drive!Tasks,
         Drive!Step(t) \/ Drive!FetchFails(t) \/ \E i \in Items : Drive!Refused(t, i)
  PROVE  DriveTypeOK'
<1>0. /\ Len(log) \in Nat /\ task \in [Drive!Tasks -> TaskType] /\ task[t] \in TaskType
      /\ notes \subseteq SentNotes /\ requested \in [Items -> Nat]
      /\ proc \in {"down", "starting", "up"}
      /\ store \in Positions /\ cursor \in Positions
      /\ proc = "down" => \A u \in Drive!Tasks : task[u] = Drive!Idle
      /\ Drive!Idle \in TaskType
  BY DEF DriveTypeOK, Drive!Idle, TaskType, DriveLabels, Positions, Drive!None
<1>1. UNCHANGED <<log, proc>> /\ notes' \subseteq SentNotes
  BY <1>0 DEF Drive!Step, Drive!Receive, Drive!Post, Drive!PostedOneDrive, Drive!PostedSharePoint,
     Drive!PostedMail, Drive!Get, Drive!Fetch, Drive!PutDrive, Drive!EnqueuedDrive,
     Drive!EnqueuedMail, Drive!PutMail, Drive!FetchFails, Drive!Refused, Drive!graph
<1>2. proc # "down"
  <2>1. proc = "up" \/ task[t].pc # "idle"
    BY DEF Drive!Step, Drive!Receive, Drive!Post, Drive!PostedOneDrive, Drive!PostedSharePoint,
       Drive!PostedMail, Drive!AllPosted, Drive!Get, Drive!Fetch, Drive!PutDrive,
       Drive!EnqueuedDrive, Drive!EnqueuedMail, Drive!PutMail, Drive!FetchFails, Drive!Refused
  <2> QED BY <1>0, <2>1 DEF Drive!Idle
<1>3. requested' \in [Items -> Nat]
  BY <1>0 DEF Drive!Step, Drive!Receive, Drive!Post, Drive!PostedOneDrive, Drive!PostedSharePoint,
     Drive!PostedMail, Drive!Get, Drive!Fetch, Drive!PutDrive, Drive!EnqueuedDrive,
     Drive!EnqueuedMail, Drive!PutMail, Drive!FetchFails, Drive!Refused, Drive!graph
<1>4. task' \in [Drive!Tasks -> TaskType]
  <2>1. ASSUME NEW batch \in SUBSET notes, Drive!Receive(t, batch)
        PROVE task' \in [Drive!Tasks -> TaskType]
    <3>1. batch \subseteq SentNotes BY <1>0
    <3>2. {log[n.change] : n \in {m \in batch : m.data = "item"}} \subseteq Items
      BY <3>1 DEF DriveTypeOK, SentNotes
    <3> DEFINE named == {log[n.change] : n \in {m \in batch : m.data = "item"}}
               new == [task[t] EXCEPT !.pc = "direct", !.batch = batch, !.seen = named,
                                      !.todo = named]
    <3>3. task' = [task EXCEPT ![t] = new] BY <1>0, <2>1 DEF Drive!Receive, TaskType
    <3> HIDE DEF named
    <3>4. new \in TaskType BY <1>0, <3>1, <3>2 DEF TaskType, DriveLabels, named
    <3> QED BY <1>0, <3>3, <3>4
  <2>2. CASE Drive!Get(t)
    <3>1. PICK c \in Positions : task' = [task EXCEPT ![t].pc = "fetch", ![t].cursor = c]
      BY <1>0, <2>2, CursorType DEF Drive!Get
    <3> DEFINE u == [task[t] EXCEPT !.pc = "fetch"]
               v == [u EXCEPT !.cursor = c]
    <3>2. task' = [task EXCEPT ![t] = v] BY <1>0, <3>1 DEF TaskType
    <3>3. "fetch" \in DriveLabels BY DEF DriveLabels
    <3>4. u \in TaskType BY <1>0, <3>3, TaskFields
    <3> HIDE DEF u
    <3>5. v \in TaskType BY <3>4, TaskFields
    <3> QED BY <1>0, <3>2, <3>5
  <2>3. CASE Drive!Fetch(t)
    <3> DEFINE l == IF service = "mail" THEN "enqueue" ELSE "put"
               todo == Drive!Changed(task[t].cursor, Len(log)) \ task[t].seen
               u == [task[t] EXCEPT !.pc = l]
               v == [u EXCEPT !.fetched = Len(log)]
               w == [v EXCEPT !.todo = todo]
    <3>1. Drive!Changed(task[t].cursor, Len(log)) \subseteq Items BY <1>0, CursorType DEF TaskType
    <3>2. task' = [task EXCEPT ![t] = w] BY <1>0, <2>3 DEF Drive!Fetch, TaskType
    <3>3. todo \in SUBSET Items /\ l \in DriveLabels /\ Len(log) \in 0 .. Len(log)
      BY <1>0, <3>1 DEF DriveLabels
    <3> HIDE DEF todo, l
    <3>4. u \in TaskType BY <1>0, <3>3, TaskFields
    <3> HIDE DEF u
    <3>5. v \in TaskType BY <3>3, <3>4, TaskFields
    <3> HIDE DEF v
    <3>6. w \in TaskType BY <3>3, <3>5, TaskFields
    <3> QED BY <1>0, <3>2, <3>6
  <2>4. CASE Drive!PostedOneDrive(t) \/ Drive!PutDrive(t) \/ Drive!EnqueuedMail(t)
    <3>1. PICK l \in DriveLabels : task' = [task EXCEPT ![t].pc = l]
      BY <2>4 DEF Drive!PostedOneDrive, Drive!PutDrive, Drive!EnqueuedMail, Drive!Goto, DriveLabels
    <3>2. task' = [task EXCEPT ![t] = [task[t] EXCEPT !.pc = l]] BY <1>0, <3>1 DEF TaskType
    <3> QED BY <1>0, <3>2, TaskFields
  <2>7. CASE \E i \in Items : Drive!Post(t, i) \/ Drive!Refused(t, i)
    <3>1. PICK i \in Items : task' = [task EXCEPT ![t].todo = @ \ {i}]
      BY <2>7 DEF Drive!Post, Drive!Refused
    <3>2. task' = [task EXCEPT ![t] = [task[t] EXCEPT !.todo = task[t].todo \ {i}]]
      BY <1>0, <3>1 DEF TaskType
    <3>3. task[t].todo \ {i} \in SUBSET Items BY <1>0 DEF TaskType
    <3> QED BY <1>0, <3>2, <3>3, TaskFields
  <2>5. CASE Drive!PostedSharePoint(t)
    <3> DEFINE new == [task[t] EXCEPT !.pc = "get", !.batch = {}]
    <3>1. new \in TaskType BY <1>0 DEF TaskType, DriveLabels
    <3>2. task' = [task EXCEPT ![t] = new] \/ task' = [task EXCEPT ![t] = Drive!Idle]
      BY <1>0, <2>5 DEF Drive!PostedSharePoint, TaskType
    <3> HIDE DEF new
    <3> QED BY <1>0, <3>1, <3>2
  <2>6. CASE Drive!PostedMail(t) \/ Drive!EnqueuedDrive(t) \/ Drive!PutMail(t) \/ Drive!FetchFails(t)
    BY <1>0, <2>6 DEF Drive!PostedMail, Drive!EnqueuedDrive, Drive!PutMail, Drive!FetchFails,
       Drive!Ends
  <2> QED BY <2>1, <2>2, <2>3, <2>4, <2>5, <2>6, <2>7 DEF Drive!Step
<1>5. store' \in Positions /\ cursor' \in Positions
  <2>1. task[t].fetched \in Positions BY <1>0 DEF TaskType, Positions
  <2>2. CASE Drive!PutDrive(t) \/ Drive!PutMail(t)
    BY <1>0, <2>1, <2>2, CursorType DEF Drive!PutDrive, Drive!PutMail, Drive!StoreCursor
  <2>3. CASE Drive!Get(t) BY <1>0, <2>3, CursorType DEF Drive!Get
  <2>4. CASE ~(Drive!PutDrive(t) \/ Drive!PutMail(t) \/ Drive!Get(t))
    BY <1>0, <2>4 DEF Drive!Step, Drive!Receive, Drive!Post, Drive!PostedOneDrive,
       Drive!PostedSharePoint, Drive!PostedMail, Drive!Fetch, Drive!EnqueuedDrive,
       Drive!EnqueuedMail, Drive!FetchFails, Drive!Refused
  <2> QED BY <2>2, <2>3, <2>4
<1> QED BY <1>0, <1>1, <1>2, <1>3, <1>4, <1>5, TypeFrame

LEMMA DriveTypeStep == DriveTypeOK /\ [Drive!Next]_(Drive!vars) => DriveTypeOK'
<1> SUFFICES ASSUME DriveTypeOK, [Drive!Next]_(Drive!vars) PROVE DriveTypeOK' OBVIOUS
<1>0. /\ task \in [Drive!Tasks -> TaskType] /\ notes \subseteq SentNotes /\ Len(log) \in Nat
      /\ \A t \in Drive!Tasks : task[t].batch \subseteq SentNotes
      /\ Drive!Idle \in TaskType /\ Drive!None \in Positions
  BY DEF DriveTypeOK, TaskType, Drive!Idle, DriveLabels, Positions, Drive!None
<1>1. ASSUME NEW i \in Items, NEW data \in Drive!Data, Drive!Change(i, data) PROVE DriveTypeOK'
  <2>1. /\ log' = Append(log, i)
        /\ UNCHANGED <<store, cursor, proc, task, requested>>
        /\ notes' \subseteq notes \cup {[change |-> Len(log) + 1, data |-> data]}
    BY <1>1 DEF Drive!Change
  <2>2. Len(log) + 1 \in DOMAIN log' BY <1>0, <2>1, LogGrows
  <2>3. [change |-> Len(log) + 1, data |-> data] \in SentNotes' BY <2>2 DEF SentNotes
  <2> QED BY <2>1, <2>3, LogGrows DEF DriveTypeOK
<1>2. CASE Drive!Boot BY <1>2, TypeBoot
<1>3. CASE Drive!Reconcile \/ Drive!Lapse
  BY <1>3, TypeFrame DEF Drive!Reconcile, Drive!Lapse, DriveTypeOK
<1>4. CASE Drive!Poll
  <2>1. task' \in [Drive!Tasks -> TaskType] /\ proc = "up"
    BY <1>0, <1>4 DEF Drive!Poll, Drive!Goto, TaskType, DriveLabels
  <2> QED BY <1>4, <2>1, TypeFrame DEF Drive!Poll, Drive!graph, DriveTypeOK
<1>5. CASE Drive!Stop
  <2>1. notes' \subseteq SentNotes BY <1>0, <1>5 DEF Drive!Stop
  <2> QED BY <1>0, <1>5, <2>1, TypeFrame DEF Drive!Stop, DriveTypeOK
<1>6. ASSUME NEW n \in notes, Drive!Lose(n) PROVE DriveTypeOK'
  BY <1>6, TypeFrame DEF Drive!Lose, DriveTypeOK
<1>7. ASSUME NEW t \in Drive!Tasks, Drive!Step(t) \/ Drive!FetchFails(t) \/ \E i \in Items : Drive!Refused(t, i)
      PROVE DriveTypeOK'
  BY <1>7, TypeTask
<1>8. CASE UNCHANGED Drive!vars BY <1>8, TypeFrame DEF Drive!vars, Drive!graph, DriveTypeOK
<1> QED BY <1>1, <1>2, <1>3, <1>4, <1>5, <1>6, <1>7, <1>8 DEF Drive!Next, Drive!Disturb
-----------------------------------------------------------------------------
(***************************************************************************)
(* What has been dealt with stays so.                                      *)
(***************************************************************************)
LEMMA SettledKept ==
  ASSUME DriveTypeOK, [Drive!Next]_(Drive!vars), NEW k \in 1 .. Len(log)
  PROVE  /\ log'[k] = log[k] /\ Len(log') >= Len(log)
         /\ Settled(k) => Settled(k)'
<1>0. Len(log) \in Nat /\ requested \in [Items -> Nat] BY DEF DriveTypeOK
<1>1. ASSUME NEW i \in Items, NEW data \in Drive!Data, Drive!Change(i, data)
      PROVE  log'[k] = log[k] /\ Len(log') >= Len(log) /\ UNCHANGED <<requested, dropped>>
  BY <1>0, <1>1, LogGrows DEF Drive!Change
<1>2. ASSUME NEW t \in Drive!Tasks, NEW i \in Items, Drive!Post(t, i)
      PROVE  UNCHANGED <<log, dropped>> /\ (requested[log[k]] >= k => requested'[log[k]] >= k)
  BY <1>0, <1>2 DEF Drive!Post, Drive!graph
<1>3. CASE Drive!Boot
  BY <1>3 DEF Drive!Boot, Drive!StartDrive, Drive!StartMail, Drive!InitGet, Drive!Baseline,
     Drive!InitPut, Drive!graph, Settled
<1>4. CASE Drive!Reconcile \/ Drive!Poll \/ Drive!Stop \/ Drive!Lapse \/ \E n \in notes : Drive!Lose(n)
  BY <1>4 DEF Drive!Reconcile, Drive!Poll, Drive!Stop, Drive!Lapse, Drive!Lose, Drive!graph, Settled
<1>5. ASSUME NEW t \in Drive!Tasks, Drive!FetchFails(t) \/ (\E i \in Items : Drive!Refused(t, i))
      PROVE  UNCHANGED <<log, requested>> /\ dropped \subseteq dropped'
  BY <1>5 DEF Drive!FetchFails, Drive!Refused, Drive!graph
<1>6. ASSUME NEW t \in Drive!Tasks, Drive!Step(t), ~\E i \in Items : Drive!Post(t, i)
      PROVE  UNCHANGED <<log, requested>> /\ dropped \subseteq dropped'
  BY <1>6 DEF Drive!Step, Drive!Receive, Drive!PostedOneDrive, Drive!PostedSharePoint,
     Drive!PostedMail, Drive!Get, Drive!Fetch, Drive!PutDrive, Drive!EnqueuedDrive,
     Drive!EnqueuedMail, Drive!PutMail, Drive!graph
<1>7. CASE UNCHANGED Drive!vars BY <1>7 DEF Drive!vars, Drive!graph, Settled
<1> QED BY <1>0, <1>1, <1>2, <1>3, <1>4, <1>5, <1>6, <1>7 DEF Settled, Drive!Next, Drive!Disturb

\* Who moves a task.
Advances(t) ==
    \/ Drive!Stop \/ Drive!Step(t) \/ Drive!FetchFails(t) \/ \E i \in Items : Drive!Refused(t, i)
    \/ t = Drive!Loop /\ (Drive!Boot \/ Drive!Poll)

LEMMA TaskMoves ==
  ASSUME DriveTypeOK, [Drive!Next]_(Drive!vars), NEW t \in Drive!Tasks, ~Advances(t)
  PROVE  task'[t] = task[t]
<1>0. task \in [Drive!Tasks -> TaskType] BY DEF DriveTypeOK
<1>1. ASSUME NEW i \in Items, NEW data \in Drive!Data, Drive!Change(i, data) PROVE UNCHANGED task
  BY <1>1 DEF Drive!Change
<1>2. CASE Drive!Boot \/ Drive!Poll
  BY <1>0, <1>2 DEF Advances, Drive!Boot, Drive!StartDrive, Drive!StartMail, Drive!InitGet,
     Drive!Baseline, Drive!InitPut, Drive!Started, Drive!Goto, Drive!Poll
<1>3. CASE Drive!Reconcile \/ Drive!Lapse \/ \E n \in notes : Drive!Lose(n)
  BY <1>3 DEF Drive!Reconcile, Drive!Lapse, Drive!Lose
<1>4. ASSUME NEW u \in Drive!Tasks, u # t, Drive!FetchFails(u) \/ \E i \in Items : Drive!Refused(u, i)
      PROVE  task'[t] = task[t]
  BY <1>0, <1>4 DEF Drive!FetchFails, Drive!Refused, Drive!Ends
<1>5. ASSUME NEW u \in Drive!Tasks, u # t, Drive!Step(u) PROVE task'[t] = task[t]
  BY <1>0, <1>5 DEF Drive!Step, Drive!Receive, Drive!Post, Drive!PostedOneDrive,
     Drive!PostedSharePoint, Drive!PostedMail, Drive!Get, Drive!Fetch, Drive!PutDrive,
     Drive!EnqueuedDrive, Drive!EnqueuedMail, Drive!PutMail, Drive!Goto, Drive!Ends
<1>6. CASE UNCHANGED Drive!vars BY <1>6 DEF Drive!vars
<1> QED BY <1>1, <1>2, <1>3, <1>4, <1>5, <1>6 DEF Advances, Drive!Next, Drive!Disturb

\* A connector serves one service.
LEMMA OneService == ASSUME [Drive!Next]_(Drive!vars) PROVE service' = service
<1>1. Drive!Boot => service' = service
  BY DEF Drive!Boot, Drive!StartDrive, Drive!StartMail, Drive!InitGet, Drive!Baseline,
     Drive!InitPut, Drive!graph
<1>2. Drive!Reconcile \/ Drive!Poll \/ Drive!Stop \/ Drive!Lapse \/ (\E n \in notes : Drive!Lose(n)) => service' = service
  BY DEF Drive!Reconcile, Drive!Poll, Drive!Stop, Drive!Lapse, Drive!Lose, Drive!graph
<1>3. ASSUME NEW t \in Drive!Tasks, Drive!Step(t) PROVE service' = service
  BY <1>3 DEF Drive!Step, Drive!Receive, Drive!Post, Drive!PostedOneDrive, Drive!PostedSharePoint,
     Drive!PostedMail, Drive!Get, Drive!Fetch, Drive!PutDrive, Drive!EnqueuedDrive,
     Drive!EnqueuedMail, Drive!PutMail, Drive!graph
<1>4. ASSUME NEW t \in Drive!Tasks, Drive!FetchFails(t) \/ \E i \in Items : Drive!Refused(t, i)
      PROVE  service' = service
  BY <1>4 DEF Drive!FetchFails, Drive!Refused, Drive!graph
<1>5. (\E i \in Items, data \in Drive!Data : Drive!Change(i, data)) \/ UNCHANGED Drive!vars => service' = service
  BY DEF Drive!Change, Drive!vars, Drive!graph
<1> QED BY <1>1, <1>2, <1>3, <1>4, <1>5 DEF Drive!Next, Drive!Disturb

\* A change in hand stays there until it is asked for, refused or let go by a stop.
LEMMA HandKept ==
  ASSUME DriveTypeOK, [Drive!Next]_(Drive!vars), NEW k \in 1 .. Len(log), Drive!InHand(k)
  PROVE  Drive!InHand(k)' \/ Settled(k)'
<1>0. /\ Len(log) \in Nat /\ requested \in [Items -> Nat] /\ task \in [Drive!Tasks -> TaskType]
      /\ DOMAIN log = 1 .. Len(log) /\ log[k] \in Items
      /\ proc = "down" => \A t \in Drive!Tasks : task[t] = Drive!Idle
  BY DEF DriveTypeOK
<1>1. PICK t \in Drive!Tasks : /\ service # "mail" /\ task[t].pc = "enqueue"
                         /\ k <= task[t].fetched /\ log[k] \in task[t].todo
  BY DEF Drive!InHand
<1>2. service' = service /\ log'[k] = log[k] BY SettledKept, OneService
<1>3. CASE task'[t] = task[t] BY <1>1, <1>2, <1>3 DEF Drive!InHand
<1>4. CASE Drive!Stop BY <1>0, <1>1, <1>4 DEF Drive!Stop, Settled
<1>5. ASSUME NEW i \in Items, Drive!Post(t, i) \/ Drive!Refused(t, i)
      PROVE Drive!InHand(k)' \/ Settled(k)'
  <2>1. CASE i = log[k]
    BY <1>0, <1>5, <2>1 DEF Drive!Post, Drive!Refused, Settled, Drive!graph
  <2>2. CASE i # log[k]
    <3>1. /\ task'[t].pc = "enqueue" /\ task'[t].fetched = task[t].fetched
          /\ task'[t].todo = task[t].todo \ {i}
      BY <1>0, <1>1, <1>5 DEF Drive!Post, Drive!Refused, TaskType
    <3> QED BY <1>1, <1>2, <2>2, <3>1 DEF Drive!InHand
  <2> QED BY <2>1, <2>2
<1>6. Advances(t) => Drive!Stop \/ \E i \in Items : Drive!Post(t, i) \/ Drive!Refused(t, i)
  BY <1>0, <1>1 DEF Advances, Drive!Step, Drive!Receive, Drive!PostedOneDrive,
     Drive!PostedSharePoint, Drive!PostedMail, Drive!AllPosted, Drive!Get, Drive!Fetch,
     Drive!PutDrive, Drive!EnqueuedDrive, Drive!EnqueuedMail, Drive!PutMail, Drive!FetchFails,
     Drive!Boot, Drive!StartDrive, Drive!StartMail, Drive!InitGet, Drive!Baseline, Drive!InitPut,
     Drive!Poll, Drive!Idle
<1> QED BY <1>3, <1>4, <1>5, <1>6, TaskMoves

\* So a cursor that has passed a change goes on to have done so.
LEMMA PassedKept ==
  ASSUME DriveTypeOK, [Drive!Next]_(Drive!vars)
  PROVE  \A c \in Positions : Passed(c) =>
             \A k \in 1 .. c : Settled(k)' \/ Drive!InHand(k)'
<1>1. Len(log) \in Nat BY DEF DriveTypeOK
<1>2. ASSUME NEW c \in Positions, NEW k \in 1 .. c PROVE k \in 1 .. Len(log)
  BY <1>1, <1>2 DEF Positions, Drive!None
<1> QED BY <1>2, SettledKept, HandKept DEF Passed
-----------------------------------------------------------------------------
(***************************************************************************)
(* The cursors, and the queries that move them.                            *)
(***************************************************************************)
LEMMA Located ==
  ASSUME DriveTypeOK
  PROVE  /\ Len(log) \in Nat /\ DOMAIN log = 1 .. Len(log)
         /\ store \in Positions /\ cursor \in Positions /\ Drive!None \in Positions
         /\ task \in [Drive!Tasks -> TaskType]
         /\ \A t \in Drive!Tasks : /\ task[t].cursor \in Positions /\ task[t].fetched \in Positions
                             /\ task[t].fetched \in 0 .. Len(log)
         /\ \A c \in Positions : \A k \in 1 .. c : k \in 1 .. Len(log)
  BY DEF DriveTypeOK, TaskType, Positions, Drive!None

\* A drive that has stored its cursor asks for what it has fetched; a mailbox has asked.
LEMMA PutPassed ==
  ASSUME DriveInv, [Drive!Next]_(Drive!vars), NEW t \in Drive!Tasks, Drive!PutDrive(t) \/ Drive!PutMail(t)
  PROVE  \A k \in 1 .. task[t].fetched : Settled(k)' \/ Drive!InHand(k)'
<1>0. DriveTypeOK /\ Query(t) /\ task[t].pc = "put" BY DEF DriveInv, Drive!PutDrive, Drive!PutMail
<1>1. TAKE k \in 1 .. task[t].fetched
<1>2. k \in 1 .. Len(log) /\ k <= task[t].fetched BY <1>0, Located
<1>3. Settled(k) \/ Drive!InHand(k) \/ log[k] \in task[t].todo BY <1>0, <1>1 DEF Query
<1>4. CASE Settled(k) \/ Drive!InHand(k) BY <1>0, <1>2, <1>4, SettledKept, HandKept
<1>5. CASE log[k] \in task[t].todo
  <2>1. Drive!PutDrive(t) /\ service # "mail" BY <1>0, <1>5 DEF Query, Drive!PutDrive, Drive!PutMail
  <2>2. task'[t] = [task[t] EXCEPT !.pc = "enqueue"] /\ UNCHANGED <<service, log>>
    BY <1>0, <2>1, Located DEF Drive!PutDrive, Drive!Goto, Drive!graph, TaskType
  <2>3. /\ task'[t].pc = "enqueue" /\ task'[t].fetched = task[t].fetched
        /\ task'[t].todo = task[t].todo
    BY <1>0, <2>2, Located DEF TaskType
  <2> QED BY <1>2, <1>5, <2>1, <2>2, <2>3 DEF Drive!InHand
<1> QED BY <1>3, <1>4, <1>5

\* The first cursor lets go of what was changed before it.
LEMMA InitPassed ==
  ASSUME DriveTypeOK, Drive!InitPut
  PROVE  \A k \in 1 .. task[Drive!Loop].fetched : Settled(k)'
<1>0. Drive!Loop \in Drive!Tasks BY DEF Drive!Tasks
<1>1. TAKE k \in 1 .. task[Drive!Loop].fetched
<1>2. UNCHANGED <<log, requested>> BY DEF Drive!InitPut, Drive!graph
<1>3. requested[log[k]] < k => k \in dropped'
  BY <1>1 DEF Drive!InitPut, Drive!Unrequested, Drive!None
<1>4. k \in Nat /\ requested[log[k]] \in Nat BY <1>0, <1>1, Located DEF DriveTypeOK
<1> QED BY <1>2, <1>3, <1>4 DEF Settled

\* Where a cursor comes from.
LEMMA CursorFrom ==
  ASSUME DriveTypeOK, [Drive!Next]_(Drive!vars)
  PROVE  \A c \in {store', cursor'} :
            \/ c \in {store, cursor, Drive!None}
            \/ Drive!InitPut /\ c = task[Drive!Loop].fetched
            \/ \E t \in Drive!Tasks : (Drive!PutDrive(t) \/ Drive!PutMail(t)) /\ c = task[t].fetched
<1>1. CASE Drive!Boot
  BY <1>1 DEF Drive!Boot, Drive!StartDrive, Drive!StartMail, Drive!InitGet, Drive!Baseline,
     Drive!InitPut, Drive!Keep
<1>2. CASE Drive!Reconcile \/ Drive!Poll \/ Drive!Stop \/ Drive!Lapse \/ \E n \in notes : Drive!Lose(n)
  BY <1>2 DEF Drive!Reconcile, Drive!Poll, Drive!Stop, Drive!Lapse, Drive!Lose
<1>3. CASE \E i \in Items, data \in Drive!Data : Drive!Change(i, data) BY <1>3 DEF Drive!Change
<1>4. CASE \E t \in Drive!Tasks : Drive!FetchFails(t) \/ \E i \in Items : Drive!Refused(t, i)
  BY <1>4 DEF Drive!FetchFails, Drive!Refused
<1>5. ASSUME NEW t \in Drive!Tasks, Drive!Step(t), ~Drive!PutDrive(t), ~Drive!PutMail(t)
      PROVE  store' = store /\ cursor' \in {store, cursor}
  BY <1>5 DEF Drive!Step, Drive!Receive, Drive!Post, Drive!PostedOneDrive, Drive!PostedSharePoint,
     Drive!PostedMail, Drive!Get, Drive!Fetch, Drive!Keep, Drive!EnqueuedDrive, Drive!EnqueuedMail
<1>6. ASSUME NEW t \in Drive!Tasks, Drive!PutDrive(t) \/ Drive!PutMail(t)
      PROVE  \A c \in {store', cursor'} : c \in {store, cursor, task[t].fetched}
  BY <1>6 DEF Drive!PutDrive, Drive!PutMail, Drive!StoreCursor, Drive!Keep
<1>7. CASE UNCHANGED Drive!vars BY <1>7 DEF Drive!vars
<1> QED BY <1>1, <1>2, <1>3, <1>4, <1>5, <1>6, <1>7 DEF Drive!Next, Drive!Disturb

LEMMA CursorsStep ==
  ASSUME DriveInv, [Drive!Next]_(Drive!vars)
  PROVE  Passed(store)' /\ Passed(cursor)'
<1>0. DriveTypeOK /\ Passed(store) /\ Passed(cursor) /\ Passed(Drive!None)
  BY DEF DriveInv, Passed, Drive!None
<1>1. ASSUME NEW c \in {store', cursor'}, NEW k \in 1 .. c PROVE Settled(k)' \/ Drive!InHand(k)'
  <2>1. CASE c \in {store, cursor, Drive!None} BY <1>0, <1>1, <2>1, PassedKept, Located
  <2>2. CASE Drive!InitPut /\ c = task[Drive!Loop].fetched BY <1>0, <1>1, <2>2, InitPassed
  <2>3. CASE \E t \in Drive!Tasks : (Drive!PutDrive(t) \/ Drive!PutMail(t)) /\ c = task[t].fetched
    BY <1>1, <2>3, PutPassed
  <2> QED BY <1>0, <2>1, <2>2, <2>3, CursorFrom
<1> QED BY <1>1 DEF Passed

\* A query that has fetched has settled, or has to ask for, all that it was given.
LEMMA FetchCovers ==
  ASSUME DriveInv, [Drive!Next]_(Drive!vars), NEW t \in Drive!Tasks, Drive!Fetch(t), NEW k \in 1 .. Len(log)
  PROVE  Settled(k)' \/ Drive!InHand(k)' \/ log'[k] \in task'[t].todo
<1>0. DriveTypeOK /\ Query(t) /\ task[t].pc = "fetch" BY DEF DriveInv, Drive!Fetch
<1> DEFINE c == task[t].cursor
           lo == IF c = Drive!None THEN 1 ELSE c + 1
<1>1. CASE k \in 1 .. c BY <1>0, <1>1, Located, PassedKept DEF Query
<1>2. CASE k \notin 1 .. c
  <2>1. k \in lo .. Len(log) BY <1>0, <1>2, Located DEF Positions, Drive!None
  <2>2. UNCHANGED <<log, requested>> BY DEF Drive!Fetch, Drive!graph
  <2>3. log[k] \in Drive!Changed(c, Len(log)) BY <2>1 DEF Drive!Changed
  <2>4. requested[log[k]] < k => k \in Drive!Unrequested(c, Len(log)) BY <2>1 DEF Drive!Unrequested
  <2>5. requested[log[k]] \in Nat BY <1>0, Located DEF DriveTypeOK
  <2>6. task'[t].todo = Drive!Changed(c, Len(log)) \ task[t].seen
    BY <1>0, Located DEF Drive!Fetch, TaskType
  <2>7. CASE log[k] \in task[t].seen
    BY <2>2, <2>4, <2>5, <2>7 DEF Drive!Fetch, Settled
  <2> QED BY <2>2, <2>3, <2>6, <2>7
<1> QED BY <1>1, <1>2

LEMMA QueryStep ==
  ASSUME DriveInv, [Drive!Next]_(Drive!vars), NEW t \in Drive!Tasks
  PROVE  Query(t)'
<1>0. /\ DriveTypeOK /\ Query(t) /\ task \in [Drive!Tasks -> TaskType] /\ task[t] \in TaskType
      /\ Passed(store) /\ Passed(cursor)
  BY Located DEF DriveInv
<1>1. CASE task'[t] = task[t]
  <2>1. task[t].pc = "fetch" => \A k \in 1 .. task[t].cursor : Settled(k)' \/ Drive!InHand(k)'
    BY <1>0, Located, PassedKept DEF Query
  <2>2. ASSUME task[t].pc \in {"put", "enqueue"}, NEW k \in 1 .. task[t].fetched
        PROVE  Settled(k)' \/ Drive!InHand(k)' \/ log'[k] \in task[t].todo
    <3>1. k \in 1 .. Len(log) BY <1>0, <2>2, Located
    <3> QED BY <1>0, <2>2, <3>1, SettledKept, HandKept DEF Query
  <2>3. service' = service BY OneService
  <2> QED BY <1>0, <1>1, <2>1, <2>2, <2>3 DEF Query, Passed
<1>2. CASE Drive!Stop \/ Drive!PostedMail(t) \/ Drive!EnqueuedDrive(t) \/ Drive!PutMail(t) \/ Drive!FetchFails(t)
  <2>1. task'[t] = Drive!Idle
    BY <1>0, <1>2 DEF Drive!Stop, Drive!PostedMail, Drive!EnqueuedDrive, Drive!PutMail,
       Drive!FetchFails, Drive!Ends
  <2> QED BY <2>1 DEF Query, Drive!Idle
<1>3. CASE (t = Drive!Loop /\ (Drive!Boot \/ Drive!Poll)) \/ Drive!PostedOneDrive(t) \/ Drive!PostedSharePoint(t)
           \/ \E batch \in SUBSET notes : Drive!Receive(t, batch)
  <2> DEFINE Rests == task'[t].pc \in {"idle", "init", "baseline", "init_put", "direct", "get"}
  <2>1. CASE t = Drive!Loop /\ (Drive!Boot \/ Drive!Poll)
    <3>1. Rests \/ task'[t] = task[t]
      BY <1>0, <2>1 DEF Drive!Boot, Drive!StartDrive, Drive!StartMail, Drive!InitGet,
         Drive!Baseline, Drive!InitPut, Drive!Started, Drive!Goto, Drive!Poll, TaskType
    <3> QED BY <1>1, <3>1 DEF Query
  <2>2. CASE Drive!PostedOneDrive(t) \/ Drive!PostedSharePoint(t)
    <3>1. Rests
      BY <1>0, <2>2 DEF Drive!PostedOneDrive, Drive!PostedSharePoint, Drive!Goto, TaskType,
         Drive!Idle
    <3> QED BY <3>1 DEF Query
  <2>3. ASSUME NEW batch \in SUBSET notes, Drive!Receive(t, batch) PROVE Rests
    BY <1>0, <2>3 DEF Drive!Receive, TaskType
  <2> QED BY <1>3, <2>1, <2>2, <2>3 DEF Query
<1>4. CASE Drive!Get(t)
  <2>1. task'[t].pc = "fetch" /\ task'[t].cursor \in {store, cursor}
    BY <1>0, <1>4 DEF Drive!Get, Drive!Found, TaskType
  <2>2. \A k \in 1 .. task'[t].cursor : Settled(k)' \/ Drive!InHand(k)'
    BY <1>0, <2>1, Located, PassedKept
  <2> QED BY <2>1, <2>2 DEF Query, Passed
<1>5. CASE Drive!Fetch(t)
  <2>1. /\ task'[t].fetched = Len(log)
        /\ task'[t].pc = IF service = "mail" THEN "enqueue" ELSE "put"
        /\ service' = service
    BY <1>0, <1>5 DEF Drive!Fetch, TaskType, Drive!graph
  <2>2. \A k \in 1 .. task'[t].fetched : Settled(k)' \/ Drive!InHand(k)' \/ log'[k] \in task'[t].todo
    BY <1>5, <2>1, FetchCovers
  <2> QED BY <2>1, <2>2 DEF Query
<1>6. CASE Drive!PutDrive(t) \/ Drive!EnqueuedMail(t)
  <2>1. /\ task'[t].pc = IF service = "mail" THEN "put" ELSE "enqueue"
        /\ task'[t].fetched = task[t].fetched /\ task'[t].todo = task[t].todo
        /\ UNCHANGED <<service, log>>
        /\ service = "mail" => task[t].todo = {}
        /\ task[t].pc \in {"put", "enqueue"}
    BY <1>0, <1>6 DEF Drive!PutDrive, Drive!EnqueuedMail, Drive!Goto, TaskType, Drive!graph
  <2>2. ASSUME NEW k \in 1 .. task[t].fetched
        PROVE  Settled(k)' \/ Drive!InHand(k)' \/ log'[k] \in task[t].todo
    <3>1. k \in 1 .. Len(log) BY <1>0, <2>2, Located
    <3> QED BY <1>0, <2>1, <2>2, <3>1, SettledKept, HandKept DEF Query
  <2> QED BY <2>1, <2>2 DEF Query
<1>7. ASSUME NEW i \in Items, Drive!Post(t, i) \/ Drive!Refused(t, i) PROVE Query(t)'
  <2>1. /\ task'[t].pc = task[t].pc /\ task[t].pc \in {"direct", "enqueue"}
        /\ task'[t].fetched = task[t].fetched
        /\ task'[t].todo = task[t].todo \ {i} /\ UNCHANGED <<service, log>>
    BY <1>0, <1>7 DEF Drive!Post, Drive!Refused, TaskType, Drive!graph
  <2>2. ASSUME task[t].pc = "enqueue", NEW k \in 1 .. task[t].fetched
        PROVE  Settled(k)' \/ Drive!InHand(k)' \/ log'[k] \in task'[t].todo
    <3>1. k \in 1 .. Len(log) /\ log[k] \in Items BY <1>0, <2>2, Located DEF DriveTypeOK
    <3>2. CASE log[k] = i
      BY <1>0, <1>7, <3>1, <3>2, Located DEF Drive!Post, Drive!Refused, Settled, Drive!graph,
         DriveTypeOK
    <3>3. CASE log[k] # i
      BY <1>0, <2>1, <2>2, <3>1, <3>3, SettledKept, HandKept DEF Query
    <3> QED BY <3>2, <3>3
  <2> QED BY <2>1, <2>2 DEF Query
<1>8. Advances(t) \/ task'[t] = task[t] BY <1>0, TaskMoves
<1> QED BY <1>1, <1>2, <1>3, <1>4, <1>5, <1>6, <1>7, <1>8 DEF Advances, Drive!Step

LEMMA DriveInductive == Drive!Spec => []DriveInv
<1>1. DriveInv /\ [Drive!Next]_(Drive!vars) => DriveInv'
  BY DriveTypeStep, CursorsStep, QueryStep DEF DriveInv
<1> QED BY <1>1, DriveStarts, PTL DEF Drive!Spec

\* The cursors are positions in the log, and so is what every query fetched; a process that
\* is down has no tasks.
THEOREM DriveTypesKept == Drive!Spec => []DriveTypeOK
<1>1. DriveInv => DriveTypeOK BY DEF DriveInv
<1> QED BY <1>1, DriveInductive, PTL

\* No cursor skips a change (state.py, _kv_get and _kv_put, the delta queries of the three
\* connectors): what is not asked for is let go of by the code at one of its four places.
THEOREM NoChangeSkipped == Drive!Spec => []NothingSkipped
<1>1. ASSUME DriveInv PROVE NothingSkipped
  <2>1. ASSUME NEW c \in {store, cursor}, NEW k \in Drive!Unrequested(Drive!None, c) \ dropped
        PROVE  Drive!InHand(k)
    <3>1. k \in 1 .. c /\ requested[log[k]] < k BY <2>1 DEF Drive!Unrequested
    <3>2. DriveTypeOK /\ Passed(c) BY <1>1, <2>1 DEF DriveInv
    <3>3. k \in 1 .. Len(log) BY <2>1, <3>1, <3>2, Located
    <3>4. requested[log[k]] \in Nat BY <3>2, <3>3 DEF DriveTypeOK
    <3> QED BY <2>1, <3>1, <3>2, <3>3, <3>4 DEF Passed, Settled
  <2> QED BY <2>1 DEF NothingSkipped, Drive!NothingSkipped
<1> QED BY <1>1, DriveInductive, PTL
=============================================================================
