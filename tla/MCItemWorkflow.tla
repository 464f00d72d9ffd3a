---------------------------- MODULE MCItemWorkflow ----------------------------
(* Instances of ItemWorkflow for TLC.  The decisions are those of PolicyRules for *)
(* the configurations and files below.                                            *)
EXTENDS ItemWorkflow, TLC

Rules == INSTANCE PolicyRules

Document(verdict) ==
    [type |-> "pdf", extension |-> "pdf", macros |-> FALSE, verdict |-> verdict,
     content |-> "original", payload |-> Rules!Unset]

Summarized == [workflow_summary |-> TRUE, scan |-> FALSE, remediation |-> FALSE, dianna |-> FALSE]

\* A scan result only (fast path), preserved content, a summary, a summary after a scan
\* result, a summary that waits for a DIANNA nobody asked for.
PlainPlans ==
    {Rules!PlanFor([delivery |-> [scan |-> TRUE]], Rules!Unset, Document("benign")),
     Rules!PlanFor(Rules!Unset, [content_preservation_mode_by_verdict |-> [benign |-> "cached"]],
                   Document("benign")),
     Rules!PlanFor([delivery |-> Summarized], Rules!Unset, Document("benign")),
     Rules!PlanFor([delivery |-> [workflow_summary |-> TRUE]], Rules!Unset, Document("benign")),
     Rules!PlanFor([delivery |-> Summarized], Rules!Unset,
                   [Document("benign") EXCEPT !.payload = [waitForDiannaBeforeDelivery |-> TRUE]])}

\* An integration that has DIANNA look at malicious files, without a delivery.
Dianna == [auto_dianna_on_verdicts |-> {"malicious"},
           delivery |-> [workflow_summary |-> FALSE]]
WaitForIt == [wait_for_dianna_on_auto_request |-> TRUE]

\* DIANNA alone; delivery that waits for it, with and without a summary and results;
\* remediation beside it.
DiannaPlans ==
    {Rules!PlanFor(Dianna, scope, Document("malicious")) : scope \in
       {Rules!Unset,
        [delivery |-> Summarized] @@ WaitForIt,
        [delivery |-> [dianna |-> TRUE]] @@ WaitForIt,
        [malicious_verdict |-> "quarantine"] @@ WaitForIt}}

\* A malicious file is deleted, a file of a blocked type quarantined.
RemediationPlan ==
    Rules!PlanFor([delivery |-> Summarized], [malicious_verdict |-> "delete"], Document("malicious"))
RemediationResultPlan ==
    Rules!PlanFor([delivery |-> [scan |-> FALSE, remediation |-> TRUE]],
                  [non_compliance |-> [blocked_file_types |-> {"pdf"}, action |-> "quarantine"]],
                  Document("benign"))

\* A malicious file is deleted, and nothing is delivered.
DeletePlan == Rules!PlanFor(Rules!Unset, [malicious_verdict |-> "delete"], Document("malicious"))

BranchingPlans ==
    PlainPlans \cup DiannaPlans \cup {RemediationPlan, RemediationResultPlan, DeletePlan}

\* The file and the policy of test_stub_policy_engine_maps_non_compliant_to_malicious_policy.
OnlyRefused ==
    {Rules!PlanFor(Rules!Unset,
                   [auto_dianna_on_verdicts |-> {"malicious"},
                    wait_for_dianna_on_auto_request |-> TRUE,
                    malicious_verdict |-> "delete",
                    non_compliant_treatment |-> "treat_as_malicious"],
                   Document("non_compliant"))}

\* What may go wrong with each decision.
Undisturbed == [k \in Failures |-> 0]
NoLimits == [p \in Plans |-> Undisturbed]

\* Sequential decisions are disturbed by a retry where only a scan result is delivered, by a
\* crash and a retry where the content is preserved, by a crash where only a summary is
\* delivered.  Of the others, the one that has a file deleted is: by a publish that fails and
\* a connector that refuses.
StageLimits ==
    [p \in BranchingPlans |->
       [Undisturbed EXCEPT !["exec"] = IF Sequential(p) /\ ~p.summary THEN 1 ELSE 0,
                           !["crash"] = IF Sequential(p) /\ ~p.fast THEN 1 ELSE 0,
                           !["bus"] = IF p = DeletePlan THEN 1 ELSE 0,
                           !["refusal"] = IF p = DeletePlan THEN 1 ELSE 0]]
=============================================================================
