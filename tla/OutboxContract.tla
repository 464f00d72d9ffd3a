---------------------------- MODULE OutboxContract ----------------------------
(***************************************************************************)
(* What the transactional outbox promises, with no processes, claims or    *)
(* retries: an intent to publish is recorded once, stays open until the    *)
(* broker has the message or the item it is about has ended, and is never  *)
(* acted on again once it is closed.                                       *)
(***************************************************************************)
CONSTANTS Items, Records

VARIABLES
    intent,     \* what has become of each intent to publish
    delivered,  \* intents whose message the broker has accepted
    ended       \* items in a terminal state

vars == <<intent, delivered, ended>>

Init ==
    /\ intent = [r \in Records |-> "none"]
    /\ delivered = {}
    /\ ended = {}

\* Intents are recorded, all those of a batch together.
Record(R) ==
    /\ \A r \in R : intent[r] = "none"
    /\ intent' = [r \in Records |-> IF r \in R THEN "open" ELSE intent[r]]
    /\ UNCHANGED <<delivered, ended>>

\* At least once: an open intent may reach the broker again.
Deliver(r) ==
    /\ intent[r] = "open"
    /\ delivered' = delivered \cup {r}
    /\ UNCHANGED <<intent, ended>>

\* An intent about an item that has ended need not be delivered.
Withdraw(r) ==
    /\ intent[r] = "open"
    /\ r[1] \in ended
    /\ intent' = [intent EXCEPT ![r] = "withdrawn"]
    /\ UNCHANGED <<delivered, ended>>

\* The process that withdrew it died before it could close it.
Reopen(r) ==
    /\ intent[r] = "withdrawn"
    /\ intent' = [intent EXCEPT ![r] = "open"]
    /\ UNCHANGED <<delivered, ended>>

Close(R) ==
    /\ \A r \in R : intent[r] = "withdrawn" \/ (intent[r] = "open" /\ r \in delivered)
    /\ intent' = [r \in Records |-> IF r \in R THEN "closed" ELSE intent[r]]
    /\ UNCHANGED <<delivered, ended>>

\* Items end, and may be set going again, for reasons of their own.
ItemsChange ==
    /\ ended' \in SUBSET Items
    /\ UNCHANGED <<intent, delivered>>

Next ==
    \/ \E R \in SUBSET Records : Record(R) \/ Close(R)
    \/ \E r \in Records : Deliver(r) \/ Withdraw(r) \/ Reopen(r)
    \/ ItemsChange

Spec == Init /\ [][Next]_vars
=============================================================================
