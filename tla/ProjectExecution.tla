-------------------------- MODULE ProjectExecution --------------------------
(***************************************************************************)
(* ProjectExecutionCoordinator (bdb_vnext/project_execution.py): the       *)
(* execution document of one project (bindings, attempts, task statuses,   *)
(* cursor, milestone run) and the operations that change it.               *)
(*                                                                         *)
(* Every operation reads the current plan (_project) and commits inside    *)
(* memory.execution_transaction, which is atomic under the execution lock  *)
(* (module ExecutionLock).  What it reads before its transaction may be    *)
(* stale when the transaction runs.  The plan pointer only moves forward,  *)
(* so an operation works with any version v \in 1..plan: the one that was  *)
(* current when it was called.  An operation that reads more than the plan *)
(* before its transaction keeps what it read in call[a], a being the       *)
(* process that runs it, and other processes run in between.  A check that *)
(* fails leaves the document alone; Abandon is such a failure, or a crash, *)
(* between two steps.                                                      *)
(*                                                                         *)
(* A binding is its index in the append-only list, the superseded flag is  *)
(* status "SUPERSEDED", and an acceptance result is part of its attempt.   *)
(* The launch outbox, the handoffs and the conversation of a binding are   *)
(* the state of module LaunchDelivery.                                     *)
(***************************************************************************)
EXTENDS ProjectPlan, Acceptance, Sequences, FiniteSets

CONSTANTS
    Actors,         \* processes calling the coordinator
    Results,        \* submissions that may arrive; a result is its own digest
    DocumentLimit,  \* list length _execution_document still accepts (512)
    MaxBindings,    \* model bound on bindings ever appended
    MaxAttempts     \* model bound on attempts ever appended

ASSUME ExecutionAssumption ==
    /\ Results \subseteq ResultShape
    /\ DocumentLimit \in Nat /\ MaxBindings \in Nat /\ MaxAttempts \in Nat

VARIABLES
    plan,           \* version the current-plan pointer names
    gates,          \* gate_statuses, open_question_statuses
    taskStatus,     \* task_statuses; "pending" stands for no entry
    bindings,       \* bindings, in append order
    attempts,       \* attempts with their acceptance results, in append order
    currentTask,    \* current_task_id
    currentBinding, \* current_binding_id, 0 for None
    run,            \* active_milestone_run
    milestonesCompleted,
    call            \* call[a]: what process a has read so far

cursor == <<currentTask, currentBinding, run>>
document == <<gates, taskStatus, bindings, attempts, cursor, milestonesCompleted>>
vars == <<plan, document, call>>

-----------------------------------------------------------------------------
(* Shapes *)

BindingStatuses == {"ACTIVE", "ACCEPTED", "FAILED", "SUPERSEDED"}
Binding == [task : Tasks, plan : PlanVersions, gen : Nat, status : BindingStatuses]

AttemptStatuses == Overalls \cup {"STALE_RESULT"}
Attempt == [binding : Nat, result : Results, status : AttemptStatuses]

RunStatuses == {"running", "review", "blocked", "stopped", "completed"}
LiveRun == {"running", "review", "blocked"}
NoRun == [status |-> "none"]
Run == [status : RunStatuses, milestone : Milestones, task : TaskOrNone]

IdleCall == [step |-> "idle"]
Call == {IdleCall}
    \cup [step : {"start"}, binding : {b \in Binding : b.status = "ACTIVE"}]
    \cup [step : {"begin"}, run : Run, inherited : BOOLEAN]
    \cup [step : {"restore"}, binding : Nat, plan : PlanVersions]
    \cup [step : {"reconcile"}, plan : PlanVersions]
    \cup [step : {"import"}, plan : 1..(MaxPlan - 1)]
    \cup [step : {"pointer"}, task : TaskOrNone]

TypeOK ==
    /\ plan \in PlanVersions
    /\ gates \in [Gates -> GateStatuses]
    /\ taskStatus \in [Tasks -> TaskStatuses]
    /\ bindings \in Seq(Binding)
    /\ attempts \in Seq(Attempt)
    /\ currentTask \in TaskOrNone
    /\ currentBinding \in Nat
    /\ run \in Run \cup {NoRun}
    /\ milestonesCompleted \subseteq Milestones
    /\ call \in [Actors -> Call]

Init ==
    /\ plan = 1
    /\ gates = [g \in Gates |-> "pending"]
    /\ taskStatus = [t \in Tasks |-> "pending"]
    /\ bindings = <<>> /\ attempts = <<>>
    /\ currentTask = NoTask /\ currentBinding = 0
    /\ run = NoRun /\ milestonesCompleted = {}
    /\ call = [a \in Actors |-> IdleCall]

-----------------------------------------------------------------------------
(* Reading the document *)

(* _execution_document refuses a document whose lists outgrew their bound. *)
Readable == Len(bindings) <= DocumentLimit /\ Len(attempts) <= DocumentLimit

Ids == DOMAIN bindings
Active(b) == bindings[b].status = "ACTIVE"
TaskBindings(t, v) == {b \in Ids : bindings[b].task = t /\ bindings[b].plan = v}

HighestGeneration(S) ==
    IF S = {} THEN 0
    ELSE CHOOSE g \in {bindings[b].gen : b \in S} : \A b \in S : bindings[b].gen <= g

Judged(t) == {i \in DOMAIN attempts : /\ attempts[i].status # "STALE_RESULT"
                                      /\ bindings[attempts[i].binding].task = t}

(* The overall acceptance recorded last for a task, "NONE" without one. *)
LastAcceptance(t) ==
    IF Judged(t) = {} THEN "NONE"
    ELSE EvaluateAcceptance(attempts[CHOOSE i \in Judged(t) :
                              \A j \in Judged(t) : j <= i].result)

Progress(v, m) == MilestoneAutoProgress(v, taskStatus, gates, m)
Available(v) == AvailableTasks(v, taskStatus, gates)
Blockers(v, t) == PrerequisiteBlockers(v, taskStatus, gates, t)

Goto(a, c) == call' = [call EXCEPT ![a] = c]
Return(a) == Goto(a, IdleCall)
ThenReconcile(a) == Goto(a, [step |-> "reconcile", plan |-> plan])
Idle(a) == call[a] = IdleCall /\ Readable
At(a, step) == call[a].step = step /\ Readable

-----------------------------------------------------------------------------
(* start() and the binding half of prepare_launch() *)

Selected(arg) ==
    IF arg # NoTask THEN arg
    ELSE IF currentTask # NoTask THEN currentTask
    ELSE IF PlanCurrent[plan] # NoTask THEN PlanCurrent[plan]
    ELSE OnlyOne(Available(plan))

IsCurrentActive(t) ==
    currentBinding \in TaskBindings(t, plan) /\ Active(currentBinding)

(* new_binding: chooses the task and the next generation.  The plan is     *)
(* read again by persist_binding / prepare_launch and must not have moved. *)
(* When the current binding is already the task's active one it is         *)
(* returned, and persisting it changes nothing.                            *)
NewBinding(a, arg) ==
    LET t == Selected(arg)
    IN /\ Idle(a)
       /\ t \in PlanTasks[plan]
       /\ taskStatus[t] # "completed"
       /\ Blockers(plan, t) = {}
       /\ ~ IsCurrentActive(t)
       /\ Goto(a, [step |-> "start", binding |->
               [task |-> t, plan |-> plan, status |-> "ACTIVE",
                gen |-> HighestGeneration(TaskBindings(t, plan)) + 1]])
       /\ UNCHANGED <<plan, document>>

(* Mutants of SupersedeActive: a retry forgets it, or spares no binding. *)
SupersedeNone(S) == bindings
SupersedeAll(S) ==
    [b \in Ids |-> IF b \in S THEN [bindings[b] EXCEPT !.status = "SUPERSEDED"]
                   ELSE bindings[b]]

(* The task's active bindings give way to a new one. *)
SupersedeActive(S) ==
    [b \in Ids |-> IF b \in S /\ Active(b)
                     THEN [bindings[b] EXCEPT !.status = "SUPERSEDED"]
                     ELSE bindings[b]]

(* Mutant: the generation read before the transaction is trusted. *)
ReadGeneration(new, S) == new.gen

EffectiveGeneration(new, S) ==
    IF new.gen > HighestGeneration(S) THEN new.gen ELSE HighestGeneration(S) + 1

PersistBinding(a) ==
    LET new == call[a].binding
        S   == TaskBindings(new.task, new.plan)
    IN /\ At(a, "start")
       /\ Len(bindings) < MaxBindings
       /\ Blockers(new.plan, new.task) = {}
       /\ bindings' = Append(SupersedeActive(S),
                             [new EXCEPT !.gen = EffectiveGeneration(new, S)])
       /\ taskStatus' = IF taskStatus[new.task] = "pending"
                          THEN [taskStatus EXCEPT ![new.task] = "active"]
                          ELSE taskStatus
       /\ currentTask' = new.task
       /\ currentBinding' = Len(bindings) + 1
       /\ Return(a)
       /\ UNCHANGED <<plan, gates, attempts, run, milestonesCompleted>>

-----------------------------------------------------------------------------
(* record_result() *)

(* Mutant: a result of a terminal binding is judged again. *)
StaleIgnoringStatus(v, b, r) ==
    \/ bindings[b].plan # v
    \/ currentBinding \notin {0, b}
    \/ ~ r.match
    \/ bindings[b].task \notin PlanTasks[v]

Stale(v, b, r) ==
    \/ bindings[b].plan # v
    \/ ~ Active(b)
    \/ currentBinding \notin {0, b}
    \/ ~ r.match
    \/ bindings[b].task \notin PlanTasks[v]

Recorded(b, r) == {i \in DOMAIN attempts : attempts[i].binding = b /\ attempts[i].result = r}

AppendAttempt(b, r, status) ==
    /\ Len(attempts) < MaxAttempts
    /\ attempts' = Append(attempts, [binding |-> b, result |-> r, status |-> status])

(* A late or mismatching result is kept as evidence and refused. *)
RecordStaleResult(v, b, r) ==
    /\ Readable /\ Recorded(b, r) = {} /\ Stale(v, b, r)
    /\ AppendAttempt(b, r, "STALE_RESULT")
    /\ UNCHANGED <<plan, gates, taskStatus, bindings, cursor, milestonesCompleted, call>>

(* An exact replay of an accepted result only reconciles. *)
ReplayResult(a, b, r) ==
    /\ Idle(a)
    /\ \E i \in Recorded(b, r) : attempts[i].status # "STALE_RESULT"
    /\ ThenReconcile(a)
    /\ UNCHANGED <<plan, document>>

(* Mutants of RunAfterResult: the progress status is stored as the run's   *)
(* status; a run that finds nothing runnable is called completed.          *)
RunWithProgressStatus(v, t, ts) ==
    LET p == MilestoneAutoProgress(v, ts, gates, run.milestone)
    IN [run EXCEPT !.status = p.status, !.task = p.next]
RunEndsWhenIdle(v, t, ts) ==
    LET p == MilestoneAutoProgress(v, ts, gates, run.milestone)
    IN [run EXCEPT !.status = IF p.status = "RUNNABLE" THEN "running" ELSE "completed",
                   !.task = p.next]

(* The active run once task t has its new status in ts. *)
RunAfterResult(v, t, ts) ==
    LET p == MilestoneAutoProgress(v, ts, gates, run.milestone)
    IN CASE ts[t] = "completed" ->
              [run EXCEPT !.status = IF p.status = "MILESTONE_COMPLETED"
                                       THEN "completed" ELSE "running",
                          !.task = p.next]
         [] ts[t] \in {"review", "blocked"} -> [run EXCEPT !.status = ts[t], !.task = t]
         [] OTHER -> [run EXCEPT !.status = "running", !.task = t]

(* Mutant: under a live run the current binding is left in place. *)
CursorKeepsBinding(v, t, ts) ==
    IF run.status \in LiveRun
      THEN /\ run' = RunAfterResult(v, t, ts)
           /\ currentTask' = run'.task
           /\ UNCHANGED currentBinding
      ELSE /\ currentTask' = OnlyOne(AvailableTasks(v, ts, gates))
           /\ currentBinding' = 0
           /\ UNCHANGED run

CursorAfterResult(v, t, ts) ==
    /\ currentBinding' = 0
    /\ IF run.status \in LiveRun
         THEN /\ run' = RunAfterResult(v, t, ts)
              /\ currentTask' = run'.task
         ELSE /\ currentTask' = OnlyOne(AvailableTasks(v, ts, gates))
              /\ UNCHANGED run

(* Mutant: the task_completed_downgrade check is missing. *)
AnyStatus(t, status) == TRUE

(* A completed task is never downgraded by a result. *)
NoDowngrade(t, status) == taskStatus[t] = "completed" => status = "completed"

RecordVerdict(a, v, b, r) ==
    LET t  == bindings[b].task
        ts == [taskStatus EXCEPT ![t] = StatusAfter(r)]
    IN /\ Idle(a) /\ Recorded(b, r) = {} /\ ~ Stale(v, b, r)
       /\ NoDowngrade(t, ts[t])
       /\ AppendAttempt(b, r, Overall(r))
       /\ bindings' = [bindings EXCEPT ![b].status =
                         IF Overall(r) = "PASS" THEN "ACCEPTED" ELSE "FAILED"]
       /\ taskStatus' = ts
       /\ CursorAfterResult(v, t, ts)
       /\ milestonesCompleted' = milestonesCompleted
                                   \cup {m \in Milestones : MilestoneDone(v, ts, m)}
       /\ ThenReconcile(a)
       /\ UNCHANGED <<plan, gates>>

-----------------------------------------------------------------------------
(* Manual review *)

(* Mutant: any task in review can be approved. *)
InReview(t) == taskStatus[t] = "review"

Reviewable(t) == taskStatus[t] = "review" /\ LastAcceptance(t) = "REVIEW_REQUIRED"

ApproveReview(a, v, t) ==
    LET ts == [taskStatus EXCEPT ![t] = "completed"]
        p  == MilestoneAutoProgress(v, ts, gates, run.milestone)
    IN /\ Idle(a)
       /\ Reviewable(t)
       /\ taskStatus' = ts
       /\ IF run.status \in LiveRun
            THEN /\ run' = [run EXCEPT !.task = p.next, !.status =
                              IF p.status = "MILESTONE_COMPLETED" THEN "completed" ELSE "running"]
                 /\ currentTask' = p.next
            ELSE /\ currentTask' = OnlyOne(AvailableTasks(v, ts, gates))
                 /\ UNCHANGED run
       /\ ThenReconcile(a)
       /\ UNCHANGED <<plan, gates, bindings, attempts, currentBinding, milestonesCompleted>>

(* Mutant: only the cursor of the run moves. *)
RunTaskOnly(t) == IF run = NoRun THEN NoRun ELSE [run EXCEPT !.task = t]

RunAfterChanges(t) ==
    IF run = NoRun THEN NoRun ELSE [run EXCEPT !.status = "running", !.task = t]

RequestChanges(a, t) ==
    /\ Idle(a)
    /\ taskStatus[t] = "review"
    /\ taskStatus' = [taskStatus EXCEPT ![t] = "active"]
    /\ currentTask' = t /\ currentBinding' = 0
    /\ run' = RunAfterChanges(t)
    /\ ThenReconcile(a)
    /\ UNCHANGED <<plan, gates, bindings, attempts, milestonesCompleted>>

(* reconcile: recomputes the cursor from one read of the document, then    *)
(* writes it in a transaction of its own.                                  *)
ReconciledTask(v) ==
    CASE run.status = "running" -> Progress(v, run.milestone).next
      [] run.status \in {"review", "blocked"} /\ run.task # NoTask -> run.task
      [] run = NoRun /\ currentTask = NoTask -> OnlyOne(Available(v))
      [] OTHER -> currentTask

Reconcile(a) ==
    /\ At(a, "reconcile")
    /\ \E v \in call[a].plan..plan :
          IF ReconciledTask(v) = currentTask THEN Return(a)
          ELSE Goto(a, [step |-> "pointer", task |-> ReconciledTask(v)])
    /\ UNCHANGED <<plan, document>>

SetPointer(a) ==
    /\ At(a, "pointer")
    /\ currentTask' = call[a].task
    /\ Return(a)
    /\ UNCHANGED <<plan, gates, taskStatus, bindings, attempts, currentBinding, run,
                   milestonesCompleted>>

-----------------------------------------------------------------------------
(* Milestone AUTO *)

(* begin_milestone_auto reads progress and the run it may resume, ... *)
BeginMilestoneAuto(a, v, m) ==
    LET p == Progress(v, m)
    IN /\ Idle(a)
       /\ p.status \in {"RUNNABLE", "MILESTONE_COMPLETED"}
       /\ Goto(a, [step |-> "begin",
                   run |-> [milestone |-> m, task |-> p.next,
                            status |-> IF p.status = "RUNNABLE" THEN "running" ELSE "completed"],
                   inherited |-> run # NoRun /\ run.milestone = m])
       /\ UNCHANGED <<plan, document>>

(* ... and installs the run it computed from that read. *)
CommitMilestoneAuto(a) ==
    LET new == call[a].run
    IN /\ At(a, "begin")
       /\ run.status \in LiveRun => run.milestone = new.milestone
       /\ run' = new
       /\ currentTask' = new.task
       /\ currentBinding' = IF call[a].inherited THEN currentBinding ELSE 0
       /\ Return(a)
       /\ UNCHANGED <<plan, gates, taskStatus, bindings, attempts, milestonesCompleted>>

StopMilestoneAuto ==
    /\ Readable /\ run # NoRun
    /\ run' = [run EXCEPT !.status = "stopped"]
    /\ UNCHANGED <<plan, gates, taskStatus, bindings, attempts, currentTask,
                   currentBinding, milestonesCompleted, call>>

(* _ensure_auto_next_launch finds the AUTO task's active binding without   *)
(* the cursor pointing at it, ...                                          *)
EnsureAutoNextLaunch(a, b) ==
    LET t == Progress(plan, run.milestone).next
    IN /\ Idle(a) /\ run.status = "running"
       /\ Progress(plan, run.milestone).status = "RUNNABLE"
       /\ currentTask \in {NoTask, t} /\ currentBinding = 0
       /\ Judged(t) = {}
       /\ b \in TaskBindings(t, plan) /\ Active(b)
       /\ Goto(a, [step |-> "restore", binding |-> b, plan |-> plan])
       /\ UNCHANGED <<plan, document>>

(* ... and restore_current_binding makes it current again. *)
RestoreCurrentBinding(a) ==
    LET b == call[a].binding
        t == bindings[b].task
    IN /\ At(a, "restore") /\ b \in Ids
       /\ bindings[b].plan = call[a].plan /\ Active(b)
       /\ currentBinding \in {0, b}
       /\ t \in PlanTasks[call[a].plan] /\ taskStatus[t] # "completed"
       /\ currentTask' = t /\ currentBinding' = b
       /\ Return(a)
       /\ UNCHANGED <<plan, gates, taskStatus, bindings, attempts, run, milestonesCompleted>>

-----------------------------------------------------------------------------
(* The plan and its gates (project_memory.py) *)

SetPrerequisiteStatus(g, status) ==
    /\ gates[g] # status
    /\ gates' = [gates EXCEPT ![g] = status]
    /\ UNCHANGED <<plan, taskStatus, bindings, attempts, cursor, milestonesCompleted, call>>

(* preview_update protects the tasks completed by now, ... *)
PreviewUpdate(a) ==
    /\ call[a] = IdleCall /\ plan < MaxPlan
    /\ {t \in PlanTasks[plan] : taskStatus[t] = "completed"} \subseteq PlanTasks[plan + 1]
    /\ Goto(a, [step |-> "import", plan |-> plan])
    /\ UNCHANGED <<plan, document>>

(* ... and apply_update activates the successor of the plan it previewed.  *)
ApplyUpdate(a) ==
    /\ call[a].step = "import" /\ call[a].plan = plan
    /\ plan' = plan + 1
    /\ Return(a)
    /\ UNCHANGED document

(* An error return or a crash between two steps. *)
Abandon(a) ==
    /\ call[a] # IdleCall
    /\ Return(a)
    /\ UNCHANGED <<plan, document>>

-----------------------------------------------------------------------------
Operation(a) ==
    \/ \E t \in TaskOrNone : NewBinding(a, t)
    \/ PersistBinding(a)
    \/ \E b \in Ids, r \in Results : ReplayResult(a, b, r)
    \/ \E v \in 1..plan, b \in Ids, r \in Results : RecordVerdict(a, v, b, r)
    \/ \E v \in 1..plan, t \in Tasks : ApproveReview(a, v, t)
    \/ \E t \in Tasks : RequestChanges(a, t)
    \/ Reconcile(a) \/ SetPointer(a)
    \/ \E v \in 1..plan, m \in Milestones : BeginMilestoneAuto(a, v, m)
    \/ CommitMilestoneAuto(a)
    \/ \E b \in Ids : EnsureAutoNextLaunch(a, b)
    \/ RestoreCurrentBinding(a)
    \/ PreviewUpdate(a) \/ ApplyUpdate(a)
    \/ Abandon(a)

Next ==
    \/ \E a \in Actors : Operation(a)
    \/ \E v \in 1..plan, b \in Ids, r \in Results : RecordStaleResult(v, b, r)
    \/ StopMilestoneAuto
    \/ \E g \in Gates, s \in GateStatuses : SetPrerequisiteStatus(g, s)

Spec == Init /\ [][Next]_vars

-----------------------------------------------------------------------------
(* Properties *)

(* I1 of the NX-003 contract: whatever processes start, retry and report   *)
(* in whatever order, a task of a plan version has at most one ACTIVE      *)
(* binding.                                                                *)
MaxOneActive ==
    \A t \in Tasks, v \in PlanVersions : \A b, c \in TaskBindings(t, v) :
        Active(b) /\ Active(c) => b = c

(* I2: generations grow in append order, although new_binding computes the *)
(* number before the transaction that appends the binding.                 *)
GenerationsIncrease ==
    \A t \in Tasks, v \in PlanVersions : \A b, c \in TaskBindings(t, v) :
        b < c => bindings[b].gen < bindings[c].gen

(* The document's current binding is one that may still report: results of *)
(* any other binding are refused as long as it is set.                     *)
CurrentBindingActive ==
    currentBinding # 0 => currentBinding \in Ids /\ Active(currentBinding)

(* A binding is judged exactly once: it is ACCEPTED or FAILED if and only  *)
(* if one attempt, and no second one, carries its verdict.                 *)
Verdicts(b) == {i \in DOMAIN attempts : /\ attempts[i].binding = b
                                        /\ attempts[i].status # "STALE_RESULT"}
JudgedOnce ==
    \A b \in Ids :
        /\ \A i, j \in Verdicts(b) : i = j
        /\ bindings[b].status \in {"ACCEPTED", "FAILED"} <=> Verdicts(b) # {}

(* A completed task has an attempt that passed, or one whose acceptance    *)
(* needed only the manual review that approve_review stands for.           *)
CompletedIsJustified ==
    \A t \in Tasks : taskStatus[t] = "completed" =>
        \E i \in Judged(t) : attempts[i].status \in {"PASS", "REVIEW_REQUIRED"}

(* A milestone run that stands in review or blocked stands on a task that  *)
(* really has that status, so Project Center shows the task to act on.     *)
RunPauseIsReal ==
    run.status \in {"review", "blocked"} =>
        run.task \in Tasks /\ taskStatus[run.task] = run.status

(* A milestone run is reported completed only when every task the          *)
(* milestone has in some plan version of this project is completed, also   *)
(* when begin_milestone_auto installs a run from an old read.              *)
RunCompletionIsReal ==
    run.status = "completed" =>
        \E v \in 1..plan : \A t \in MilestoneTasks(v, run.milestone) :
            taskStatus[t] = "completed"

(* Bindings are append-only, their identity never changes and a terminal   *)
(* status is final (LEGAL_TRANSITIONS of binding_lifecycle.py).            *)
BindingStep(b) ==
    /\ b \in DOMAIN bindings'
    /\ bindings'[b].task = bindings[b].task
    /\ bindings'[b].plan = bindings[b].plan
    /\ bindings'[b].gen = bindings[b].gen
    /\ ~ Active(b) => bindings'[b].status = bindings[b].status
LegalTransitions == [][\A b \in Ids : BindingStep(b)]_vars

(* A task enters "completed" only by the PASS of a binding that was ACTIVE *)
(* and not displaced by another current binding, or out of "review", and   *)
(* never leaves it.                                                        *)
CompletionStep(t) ==
    /\ taskStatus[t] = "completed" => taskStatus'[t] = "completed"
    /\ taskStatus[t] \notin {"completed", "review"} /\ taskStatus'[t] = "completed" =>
          \E b \in Ids : /\ bindings[b].task = t /\ Active(b)
                         /\ currentBinding \in {0, b}
                         /\ bindings'[b].status = "ACCEPTED"
CompletionIsOwned == [][\A t \in Tasks : CompletionStep(t)]_vars

(* What the proofs need beyond the properties: an attempt names a binding  *)
(* and carries the verdict of its result, and a task in review owes that   *)
(* to its last verdict.                                                    *)
AttemptsAreVerdicts ==
    \A i \in DOMAIN attempts :
        /\ attempts[i].binding \in Ids
        /\ attempts[i].status \in {"STALE_RESULT", Overall(attempts[i].result)}
ReviewIsEarned ==
    \A t \in Tasks : taskStatus[t] = "review" =>
        \E i \in Judged(t) : /\ \A j \in Judged(t) : j <= i
                             /\ attempts[i].status \in {"REVIEW_REQUIRED", "UNKNOWN"}

(* I4 of the contract: a result that does not match current_binding_id is  *)
(* rejected, so only the current binding is ever judged.                   *)
OnlyCurrentIsJudged ==
    [][\A b \in Ids : bindings[b].status = "ACTIVE"
                      /\ bindings'[b].status \in {"ACCEPTED", "FAILED"}
                      => currentBinding = b]_vars
=============================================================================
