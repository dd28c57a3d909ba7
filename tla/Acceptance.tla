----------------------------- MODULE Acceptance -----------------------------
(***************************************************************************)
(* How one execution result is judged: the task's acceptance criteria, the *)
(* statuses the submission supplies for them, and the task status that     *)
(* record_result derives (project_execution.py).  Pure operators.          *)
(*                                                                         *)
(* A criterion of the task, as the submission reports it, is a pair        *)
(* <<kind, status>>.  "ABSENT" is a status the submission left out.        *)
(***************************************************************************)
EXTENDS Naturals

CriterionKinds == {"DETERMINISTIC", "MANUAL_REVIEW", "EXTERNAL", "UNKNOWN"}
SuppliedStatuses == {"PASS", "FAIL", "REVIEW_REQUIRED", "UNKNOWN", "ABSENT"}
Criteria == CriterionKinds \X SuppliedStatuses

Overalls == {"PASS", "REVIEW_REQUIRED", "UNKNOWN", "FAIL"}

(* exec, valid: execution_status / validation_status is one of PASS,       *)
(* SUCCEEDED, SUCCESS.  code: a failure_code is present.  match: command,  *)
(* correlation, project, task, plan version, repository alias and head of  *)
(* the submission are those of the binding.                                *)
ResultShape == [exec : BOOLEAN, valid : BOOLEAN, code : BOOLEAN,
                match : BOOLEAN, criteria : SUBSET Criteria]

(* The status a criterion is judged with when the submission gives none.   *)
CriterionStatus(c, valid) ==
    IF c[2] # "ABSENT" THEN c[2]
    ELSE IF valid /\ c[1] = "DETERMINISTIC" THEN "PASS"
    ELSE IF c[1] \in {"MANUAL_REVIEW", "EXTERNAL"} THEN "REVIEW_REQUIRED"
    ELSE "UNKNOWN"

DeterministicFailure(c, valid) ==
    c[1] = "DETERMINISTIC" /\ CriterionStatus(c, valid) = "FAIL"

ReviewRequired(c, valid) ==
    c[1] \in {"MANUAL_REVIEW", "EXTERNAL"} /\ CriterionStatus(c, valid) # "PASS"

UnknownCriterion(c, valid) ==
    /\ ~ DeterministicFailure(c, valid)
    /\ ~ ReviewRequired(c, valid)
    /\ c[1] = "UNKNOWN" \/ CriterionStatus(c, valid) = "UNKNOWN"

EvaluateAcceptance(r) ==
    IF ~ r.valid \/ \E c \in r.criteria : DeterministicFailure(c, r.valid)
      THEN "FAIL"
    ELSE IF \E c \in r.criteria : UnknownCriterion(c, r.valid) THEN "UNKNOWN"
    ELSE IF \E c \in r.criteria : ReviewRequired(c, r.valid)
      THEN "REVIEW_REQUIRED"
    ELSE "PASS"

(* The attempt's result_status. *)
Overall(r) == IF r.exec THEN EvaluateAcceptance(r) ELSE "FAIL"

(* The task status an accepted-for-recording result leads to. *)
StatusAfter(r) ==
    CASE Overall(r) = "PASS" -> "completed"
      [] Overall(r) \in {"REVIEW_REQUIRED", "UNKNOWN"} -> "review"
      [] Overall(r) = "FAIL" /\ (r.code \/ ~ r.valid) -> "blocked"
      [] OTHER -> "active"
=============================================================================
