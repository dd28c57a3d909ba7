-------------------------- MODULE StartupRecovery --------------------------
(***************************************************************************)
(* What startup recovery (startup_recovery.py, _candidate) answers for the *)
(* state that SessionReentry keeps in the database.  The rules are tried   *)
(* in the order of the code; those on security events, CI waits, repairs,  *)
(* plans and tasks are about other tables and are left out, the last four  *)
(* as OTHER.                                                               *)
(***************************************************************************)
EXTENDS SessionReentry

Intents == {intent[c][g] : c \in Packets, g \in Generations}
Rows == {reentry[c] : c \in Packets}
ClaimedLeases == {c \in Packets : lease[c].status = "CLAIMED"}

RecoveryAction ==
    IF cursor.stopped \/ cursor.epoch \in fences THEN "STOPPED"
    ELSE IF Intents \cap Unresolved # {} THEN "RECONCILE_UNCERTAIN_DELIVERY"
    ELSE IF "SEND_CONFIRMED" \in Intents THEN "ACK_SEND_INTENT"
    ELSE IF Intents \cap Sendable # {} THEN "RESUME_SEND_INTENT"
    ELSE IF Rows \cap (Underway \cup {"SESSION_UNAVAILABLE", "CONTINUATION_PENDING"}) # {}
         THEN "RESUME_SESSION_REENTRY"
    ELSE IF "OPERATOR_CHECKPOINT" \in Rows THEN "OPERATOR_CHECKPOINT"
    ELSE IF Rows \cap {"REENTRY_FAILED", "REENTRY_BLOCKED"} # {}
         THEN "MANUAL_POLICY_CHECKPOINT"
    ELSE IF \E c \in ClaimedLeases : ~lease[c].late
         THEN "WAIT_FOR_ACTIVE_CONTINUATION_LEASE"
    ELSE IF ClaimedLeases # {} THEN "RECLAIM_EXPIRED_CONTINUATION_LEASE"
    ELSE "OTHER"

(* After a restart, when every process of before is gone, the re-entry     *)
(* that recovery asks to resume can be resumed: a call of reenter finds a  *)
(* row it goes on with, or an acknowledgement it records.                  *)
ResumeIsPossible ==
    (\A p \in Processes : At(p, "idle")) /\ RecoveryAction = "RESUME_SESSION_REENTRY" =>
      \E c \in Packets :
        \/ reentry[c] \in {"CONTINUATION_PENDING", "SESSION_UNAVAILABLE"}
        \/ reentry[c] \in Underway /\ \E g \in Generations : intent[c][g] = "ACKNOWLEDGED"
=============================================================================
