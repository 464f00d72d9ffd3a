------------------------------ MODULE ItemStages ------------------------------
(***************************************************************************)
(* The vocabulary of the dsx_connect_ng job ledger, and the two pure       *)
(* functions that tie its levels together: the state of a job item derived *)
(* from its five stages, and the state of the parent job derived from the  *)
(* states of its items.                                                    *)
(***************************************************************************)

StageNames == {"scan", "policy", "remediation", "delivery", "dianna"}

StageStates == {"pending", "running", "completed", "failed", "skipped"}

\* _TERMINAL_STAGE_STATES of the repositories.
TerminalStageStates == {"completed", "failed", "skipped"}

ItemStates ==
    {"accepted", "publish_pending", "queued", "scanning", "scanned",
     "remediating", "deliver_pending", "delivering_result",
     "completed", "failed", "cancelled"}

TerminalStates == {"completed", "failed", "cancelled"}

\* cancellable_states of cancel_job.
CancellableStates ==
    {"accepted", "publish_pending", "queued", "scanning", "scanned",
     "remediating", "deliver_pending", "delivering_result"}

JobStates ==
    {"accepted", "publish_pending", "queued", "running",
     "completed", "failed", "cancelled"}

NoStages == [s \in StageNames |-> "pending"]

-----------------------------------------------------------------------------
(***************************************************************************)
(* _derive_item_state_from_stages: the item state stored together with an  *)
(* update of stage `name'.  `current' is the item state and `s' the stages *)
(* the caller read earlier, with the update applied to s.  The function    *)
(* never looks for "cancelled" in `current'.                               *)
(***************************************************************************)
DeriveItemState(current, s, name) ==
    IF name = "dianna" THEN current
    ELSE IF s["scan"] = "running" THEN "scanning"
    ELSE IF s["scan"] = "failed" THEN "failed"
    ELSE IF s["scan"] # "completed" THEN current
    ELSE IF s["policy"] = "running" THEN "scanned"
    ELSE IF s["policy"] = "failed" THEN "failed"
    ELSE IF s["remediation"] = "running" THEN "remediating"
    ELSE IF s["remediation"] = "failed" THEN "failed"
    ELSE IF s["delivery"] = "running" THEN "delivering_result"
    ELSE IF s["delivery"] = "failed" THEN "failed"
    ELSE IF s["delivery"] # "pending" THEN "completed"
    ELSE IF s["remediation"] = "pending" THEN "scanned"
    ELSE "deliver_pending"

(***************************************************************************)
(* The decision of _refresh_parent_job_state over a summary of the item    *)
(* states st[i], i \in I.  "keep" stands for the paths that write nothing. *)
(***************************************************************************)
ParentState(st, I) ==
    LET Some(S) == \E i \in I : st[i] \in S
        All(S)  == \A i \in I : st[i] \in S
    IN  IF I = {} THEN "keep"
        ELSE IF Some({"publish_pending"}) THEN "publish_pending"
        ELSE IF Some({"scanning", "remediating", "delivering_result"}) THEN "running"
        ELSE IF All(TerminalStates)
             THEN IF All({"cancelled"}) THEN "cancelled"
                  ELSE IF Some({"failed"}) THEN "failed"
                  ELSE "completed"
        ELSE IF Some({"queued", "scanned", "deliver_pending"}) THEN "queued"
        ELSE IF All({"accepted"}) THEN "accepted"
        ELSE "keep"
=============================================================================
