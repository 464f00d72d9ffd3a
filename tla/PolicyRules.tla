----------------------------- MODULE PolicyRules -----------------------------
(***************************************************************************)
(* The policy engine of dsx_connect_ng: from the configuration of an       *)
(* integration and of a scope, and from a scanned file, to what is to be   *)
(* done with the file; and from that decision to what the job service      *)
(* makes of it.                                                            *)
(*                                                                         *)
(* A configuration, and the payload of an item, is a function from those   *)
(* of its fields that are set.  Of a remediation plan the action is kept   *)
(* ("none" is an empty plan), of a list of targets whether it holds one.   *)
(***************************************************************************)
EXTENDS TLC, Integers

Unset == <<>>

Get(config, field, default) ==
    IF field \in DOMAIN config THEN config[field] ELSE default

\* A field of the scope's policy overrides that of the integration.
resolve_policy_runtime_config(integration, scope) == scope @@ integration
-----------------------------------------------------------------------------
(***************************************************************************)
(* The file types that are not allowed.                                    *)
(***************************************************************************)
\* What the lower-cased name of a file type contains of the markers looked for: every
\* name the scanner gives ends in "FileType", and so contains "pe".
Markers ==
    [none |-> {}, pdf |-> {"pdf", "pe"}, executable |-> {"pe"},
     office |-> {"office", "pe"}, other |-> {"pe"}]

OfficeToken(file) ==
    CASE file.macros                       -> "office_macro"
      [] file.extension \in {"doc", "docx"} -> "office_word"
      [] file.extension \in {"xls", "xlsx"} -> "office_excel"
      [] OTHER                              -> "office_other"

file_type_tokens(file) ==
    UNION {IF "pdf" \in Markers[file.type] \/ file.extension = "pdf" THEN {"pdf"} ELSE {},
           IF "pe" \in Markers[file.type] THEN {"executables", "windows_executable"} ELSE {},
           IF "office" \in Markers[file.type] THEN {OfficeToken(file)} ELSE {}}

non_compliance_match(config, file) ==
    Get(Get(config, "non_compliance", Unset), "blocked_file_types", {})
        \cap file_type_tokens(file) # {}
-----------------------------------------------------------------------------
(***************************************************************************)
(* Verdicts and actions.                                                   *)
(***************************************************************************)
Treated(treatment) == IF treatment = "treat_as_malicious" THEN "malicious" ELSE "benign"

effective_policy_verdict(config, verdict) ==
    CASE verdict = "non_compliant" -> Treated(Get(config, "non_compliant_treatment", "none"))
      [] verdict = "not_scanned"   -> Treated(Get(config, "not_scanned_treatment", "none"))
      [] OTHER                     -> verdict

\* The action for "non_compliant" or "not_scanned", by whichever field names one.
configured_action(config, key) ==
    LET section == IF key = "non_compliant" THEN "non_compliance" ELSE "not_scanned"
        actions == Get(config, "verdict_actions", Unset)
    IN  CASE key \in DOMAIN actions -> actions[key]
          [] "action" \in DOMAIN Get(config, section, Unset) -> config[section].action
          [] key \in Get(config, "outcome_triggers", {}) -> "quarantine"
          [] OTHER -> "detect_only"

remediation_plan_for_action(action) ==
    CASE action \in {"detect_only", "nothing", "none"} -> "none"
      [] action \in {"delete", "tag_only"}             -> action
      [] OTHER                                         -> "quarantine"

default_remediation_plan_for_verdict(config, verdict) ==
    IF verdict = "malicious"
    THEN remediation_plan_for_action(Get(config, "malicious_verdict", "detect_only"))
    ELSE "none"

delivery_policy_for_scan_verdict(verdict) ==
    [scan |-> IF verdict \in {"malicious", "suspicious"} THEN "malicious_only" ELSE "all_results",
     remediation |-> "all_outcomes", dianna |-> "completed_only"]
-----------------------------------------------------------------------------
(***************************************************************************)
(* The decision.                                                           *)
(***************************************************************************)
\* The first plan that is not empty.
FirstPlan(plans) ==
    LET given == {i \in DOMAIN plans : plans[i] # "none"}
    IN  IF given = {} THEN "none" ELSE plans[CHOOSE i \in given : \A j \in given : i <= j]

Blocked(config, file) == non_compliance_match(config, file)
NotScanned(file) == file.verdict = "not_scanned"

\* stub_policy_engine: an action on the kind of file makes it malicious.
EffectiveVerdict(config, file) ==
    IF \/ Blocked(config, file) /\ configured_action(config, "non_compliant") # "detect_only"
       \/ NotScanned(file) /\ configured_action(config, "not_scanned") # "detect_only"
    THEN "malicious"
    ELSE effective_policy_verdict(config, file.verdict)

RemediationPlan(config, file) ==
    LET verdict   == EffectiveVerdict(config, file)
        ActionOn(applies, key) ==
            IF applies THEN remediation_plan_for_action(configured_action(config, key)) ELSE "none"
    IN  FirstPlan(<<Get(file.payload, "remediationPlan", "none"),
                    Get(Get(config, "remediation_plan_by_verdict", Unset), verdict, "none"),
                    ActionOn(Blocked(config, file), "non_compliant"),
                    ActionOn(NotScanned(file), "not_scanned"),
                    default_remediation_plan_for_verdict(config, verdict)>>)

RequestsDianna(config, file) ==
    \/ Get(file.payload, "requestDianna", FALSE)
    \/ EffectiveVerdict(config, file) \in Get(config, "auto_dianna_on_verdicts", {})

\* What the rules decide, unless the payload of the item brings a decision along.
Decision(config, file) ==
    IF "policyDecision" \in DOMAIN file.payload
    THEN file.payload.policyDecision
    ELSE [remediation_plan |-> RemediationPlan(config, file),
          request_dianna   |-> RequestsDianna(config, file),
          wait_for_dianna  |-> \/ Get(file.payload, "waitForDiannaBeforeDelivery", FALSE)
                               \/ /\ RequestsDianna(config, file)
                                  /\ Get(config, "wait_for_dianna_on_auto_request", FALSE),
          delivery_target  |-> Get(file.payload, "deliveryTarget", FALSE)]

\* The verdict the handoff is built with: a decision brought along goes by the verdict alone.
HandoffVerdict(config, file) ==
    IF "policyDecision" \in DOMAIN file.payload
    THEN effective_policy_verdict(config, file.verdict)
    ELSE EffectiveVerdict(config, file)

\* _targets_from_policy_config, then _extract_delivery_targets_from_handoff: where nothing is
\* configured for a family of results, the target of the decision serves.
targets_from_handoff(config, decision, family) ==
    LET delivery == Get(config, "delivery", Unset)
        target   == decision.delivery_target
    IN  IF family \in DOMAIN delivery THEN delivery[family]
        ELSE target \/ Get(delivery, "workflow_summary", target)

\* _extract_delivery_target: and else that of the item's payload.
extract_delivery_target(config, decision, file, family) ==
    \/ targets_from_handoff(config, decision, family)
    \/ Get(file.payload, "deliveryTarget", FALSE)

result_delivery_policy(config, file) ==
    Get(config, "result_delivery_policy",
        delivery_policy_for_scan_verdict(HandoffVerdict(config, file)))

content_preservation(config, file) ==
    Get(Get(config, "content_preservation_mode_by_verdict", Unset),
        HandoffVerdict(config, file), "none")
-----------------------------------------------------------------------------
(***************************************************************************)
(* What the job service makes of it.                                       *)
(***************************************************************************)
scan_result_should_be_delivered(config, file) ==
    LET mode == result_delivery_policy(config, file).scan
    IN  \/ mode = "all_results"
        \/ mode = "malicious_only" /\ file.verdict \in {"malicious", "suspicious"}

\* Once remediation has completed.
remediation_result_should_be_delivered(config, file) ==
    result_delivery_policy(config, file).remediation = "all_outcomes"

\* Once DIANNA has completed.
dianna_result_should_be_delivered(config, file) ==
    result_delivery_policy(config, file).dianna \in {"completed_only", "all_outcomes"}

\* The scan result has no verdict, or an empty one.
NoVerdict == ""

\* request_dianna_analysis raises.  A file without a verdict is not refused.
DiannaRefused(config, file) ==
    \/ file.verdict \notin {"malicious", "suspicious", NoVerdict}
    \/ /\ file.content = "none"
       /\ content_preservation(config, file) \notin {"cached", "quarantine"}

\* _try_fast_complete_policy_stage: nothing is left to do but to send a result.
FastCompletes(config, decision, file) ==
    ~(\/ decision.wait_for_dianna \/ decision.request_dianna
      \/ decision.remediation_plan # "none"
      \/ content_preservation(config, file) \in {"cached", "quarantine"}
      \/ targets_from_handoff(config, decision, "workflow_summary"))

\* What the workers of the item get to see of a decision.
Plan(config, decision, file) ==
    [fast        |-> FastCompletes(config, decision, file),
     dianna      |-> decision.request_dianna,
     refused     |-> decision.request_dianna /\ DiannaRefused(config, file),
     wait        |-> decision.wait_for_dianna,
     remediation |-> decision.remediation_plan # "none",
     scanResult  |-> /\ scan_result_should_be_delivered(config, file)
                     /\ IF FastCompletes(config, decision, file)
                        THEN targets_from_handoff(config, decision, "scan")
                        ELSE extract_delivery_target(config, decision, file, "scan"),
     remediationResult |-> /\ remediation_result_should_be_delivered(config, file)
                           /\ extract_delivery_target(config, decision, file, "remediation"),
     diannaResult |-> /\ dianna_result_should_be_delivered(config, file)
                      /\ extract_delivery_target(config, decision, file, "dianna"),
     summary      |-> extract_delivery_target(config, decision, file, "workflow_summary")]

PlanFor(integration, scope, file) ==
    LET config == resolve_policy_runtime_config(integration, scope)
    IN  Plan(config, Decision(config, file), file)
=============================================================================
