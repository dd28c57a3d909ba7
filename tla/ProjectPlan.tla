----------------------------- MODULE ProjectPlan ----------------------------
(***************************************************************************)
(* The imported project plan and the read-only cursor algorithms of        *)
(* project_memory.py: which prerequisites block a task, which tasks are    *)
(* available and where milestone AUTO stands.  A plan version is immutable,*)
(* so it is a constant; which version is current is state elsewhere.       *)
(*                                                                         *)
(* ts is the task status of every task, gs the status of every gate (an    *)
(* open question is a gate whose statuses are called open/resolved).       *)
(***************************************************************************)
EXTENDS Naturals

CONSTANTS
    Tasks,          \* task ids of all plan versions
    NoTask,         \* Python None where a task id is expected
    Milestones,
    Gates,          \* gate and open-question ids
    MaxPlan,        \* number of plan versions
    PlanTasks,      \* [plan version -> tasks of that version]
    PlanCurrent,    \* [plan version -> current_task_id of the plan document]
    MilestoneOf,    \* [Tasks -> Milestones]
    TaskDeps,       \* [Tasks -> SUBSET Tasks]
    GateDeps,       \* [Tasks -> SUBSET Gates]
    Rank            \* [Tasks -> Nat]: position in the plan document

PlanVersions == 1..MaxPlan
TaskOrNone == Tasks \cup {NoTask}
TaskStatuses == {"pending", "active", "review", "blocked", "completed"}
GateStatuses == {"pending", "passed"}

(* What validate_project_plan guarantees of every stored version. *)
ASSUME PlanAssumption ==
    /\ NoTask \notin Tasks
    /\ MaxPlan \in Nat \ {0}
    /\ PlanTasks \in [PlanVersions -> SUBSET Tasks]
    /\ PlanCurrent \in [PlanVersions -> TaskOrNone]
    /\ \A v \in PlanVersions : PlanCurrent[v] \in PlanTasks[v] \cup {NoTask}
    /\ MilestoneOf \in [Tasks -> Milestones]
    /\ TaskDeps \in [Tasks -> SUBSET Tasks]
    /\ GateDeps \in [Tasks -> SUBSET Gates]
    /\ \A v \in PlanVersions : \A t \in PlanTasks[v] :
            TaskDeps[t] \subseteq PlanTasks[v]
    /\ Rank \in [Tasks -> Nat]
    /\ \A t, u \in Tasks : Rank[t] = Rank[u] => t = u

(* Unsatisfied prerequisites of a task. *)
PrerequisiteBlockers(v, ts, gs, t) ==
    {d \in TaskDeps[t] : d \notin PlanTasks[v] \/ ts[d] # "completed"}
        \cup {g \in GateDeps[t] : gs[g] # "passed"}

AvailableTasks(v, ts, gs) ==
    {t \in PlanTasks[v] : /\ ts[t] \in {"pending", "active"}
                          /\ PrerequisiteBlockers(v, ts, gs, t) = {}}

MilestoneTasks(v, m) == {t \in PlanTasks[v] : MilestoneOf[t] = m}

FirstInPlan(S) == CHOOSE t \in S : \A u \in S : Rank[t] <= Rank[u]

(* The element of a one-element set, None for any other set. *)
OnlyOne(S) == IF \E t \in Tasks : S = {t} THEN FirstInPlan(S) ELSE NoTask

ProgressStatuses == {"MILESTONE_COMPLETED", "REVIEW_REQUIRED", "RUNNABLE",
                     "BLOCKED", "PREREQUISITE_REQUIRED"}

(* The one-at-a-time milestone cursor. *)
MilestoneAutoProgress(v, ts, gs, m) ==
    LET incomplete == {t \in MilestoneTasks(v, m) : ts[t] # "completed"}
        inReview   == {t \in incomplete : ts[t] = "review"}
        runnable   == AvailableTasks(v, ts, gs) \cap MilestoneTasks(v, m)
        blocked    == {t \in incomplete : ts[t] = "blocked"}
        At(s, S)   == [status |-> s, next |-> FirstInPlan(S)]
    IN IF incomplete = {}
         THEN [status |-> "MILESTONE_COMPLETED", next |-> NoTask]
       ELSE IF inReview # {} THEN At("REVIEW_REQUIRED", inReview)
       ELSE IF runnable # {} THEN At("RUNNABLE", runnable)
       ELSE IF blocked # {}  THEN At("BLOCKED", blocked)
       ELSE [status |-> "PREREQUISITE_REQUIRED", next |-> NoTask]

MilestoneDone(v, ts, m) ==
    /\ MilestoneTasks(v, m) # {}
    /\ \A t \in MilestoneTasks(v, m) : ts[t] = "completed"
=============================================================================
