----------------------- MODULE ProjectExecutionProofs -----------------------
(***************************************************************************)
(* Theorems about ProjectExecution, for every plan, every set of processes *)
(* and every set of results.                                               *)
(***************************************************************************)
EXTENDS ProjectExecution, TLAPS, WellFoundedInduction, SequenceTheorems

-----------------------------------------------------------------------------
(* The plan *)

(* The natural numbers are well-ordered. *)
LEMMA LeastNat ==
  ASSUME NEW S, S \subseteq Nat, S # {}
  PROVE  \E x \in S : \A y \in S : x <= y
<1> DEFINE R == {ss \in Nat \X Nat : ss[1] < ss[2]}
<1>1. IsWellFoundedOn(OpToRel(<, Nat), Nat)
  BY NatLessThanWellFounded
<1>2. OpToRel(<, Nat) = R
  BY DEF OpToRel
<1>3. IsWellFoundedOn(R, Nat)
  BY <1>1, <1>2
<1> HIDE DEF R
<1>4. PICK x \in S : \A y \in S : ~ (<<y, x>> \in R)
  BY <1>3, WFMin
<1>5. \A m, n \in Nat : n < m => <<n, m>> \in R
  BY DEF R
<1>6. \A y \in S : ~ (y < x)
  BY <1>4, <1>5
<1> QED
  BY <1>4, <1>6

(* Some task of a non-empty set comes first in the plan document. *)
LEMMA FirstInPlanMember ==
  ASSUME NEW S, S \subseteq Tasks, S # {}
  PROVE  FirstInPlan(S) \in S
<1> DEFINE ranks == {Rank[t] : t \in S}
<1>1. ranks \subseteq Nat /\ ranks # {}
  BY PlanAssumption
<1>2. PICK x \in ranks : \A y \in ranks : x <= y
  <2> HIDE DEF ranks
  <2> QED BY <1>1, LeastNat
<1>3. PICK t \in S : Rank[t] = x
  BY <1>2
<1>4. \A u \in S : Rank[t] <= Rank[u]
  BY <1>2, <1>3
<1> QED
  BY <1>3, <1>4 DEF FirstInPlan

LEMMA OnlyOneType ==
  ASSUME NEW S, S \subseteq Tasks
  PROVE  OnlyOne(S) \in TaskOrNone
  BY FirstInPlanMember DEF OnlyOne, TaskOrNone

LEMMA AvailableType ==
  ASSUME NEW v \in PlanVersions, NEW ts, NEW gs
  PROVE  AvailableTasks(v, ts, gs) \subseteq Tasks
  BY PlanAssumption DEF AvailableTasks

(* The AUTO cursor is a task of the milestone or None. *)
LEMMA ProgressType ==
  ASSUME NEW v \in PlanVersions, NEW ts, NEW gs, NEW m
  PROVE  MilestoneAutoProgress(v, ts, gs, m).next \in TaskOrNone
<1> DEFINE incomplete == {t \in MilestoneTasks(v, m) : ts[t] # "completed"}
           inReview   == {t \in incomplete : ts[t] = "review"}
           runnable   == AvailableTasks(v, ts, gs) \cap MilestoneTasks(v, m)
           blocked    == {t \in incomplete : ts[t] = "blocked"}
<1>1. MilestoneTasks(v, m) \subseteq Tasks
  BY PlanAssumption DEF MilestoneTasks
<1>2. /\ inReview # {} => FirstInPlan(inReview) \in Tasks
      /\ runnable # {} => FirstInPlan(runnable) \in Tasks
      /\ blocked # {} => FirstInPlan(blocked) \in Tasks
  BY <1>1, FirstInPlanMember
<1> QED
  BY <1>2 DEF MilestoneAutoProgress, TaskOrNone

LEMMA VerdictType ==
  ASSUME NEW r
  PROVE  /\ Overall(r) \in Overalls
         /\ StatusAfter(r) \in TaskStatuses
<1>1. Overall(r) \in Overalls
  BY DEF Overall, EvaluateAcceptance, Overalls
<1>2. StatusAfter(r) \in TaskStatuses
  BY DEF StatusAfter, TaskStatuses
<1> QED
  BY <1>1, <1>2

-----------------------------------------------------------------------------
(* The document *)

(* A non-empty set of list positions has a last one. *)
LEMMA LastIndex ==
  ASSUME NEW n \in Nat, NEW S, S \subseteq 1..n, S # {}
  PROVE  \E x \in S : \A y \in S : y <= x
<1> DEFINE back == {n - b : b \in S}
<1>1. back \subseteq Nat /\ back # {}
  <2>1. \A b \in S : n - b \in Nat
    OBVIOUS
  <2>2. PICK b \in S : TRUE
    OBVIOUS
  <2>3. n - b \in back
    BY <2>2
  <2> QED
    BY <2>1, <2>3
<1>2. PICK k \in back : \A y \in back : k <= y
  <2> HIDE DEF back
  <2> QED BY <1>1, LeastNat
<1>3. PICK x \in S : k = n - x
  BY <1>2
<1>4. \A y \in S : n - x <= n - y
  BY <1>2, <1>3
<1> QED
  BY <1>3, <1>4

LEMMA IdsAreIndices ==
  ASSUME TypeOK
  PROVE  /\ Len(bindings) \in Nat /\ Ids = 1..Len(bindings)
         /\ Len(attempts) \in Nat /\ DOMAIN attempts = 1..Len(attempts)
         /\ \A b \in Ids : bindings[b] \in Binding
         /\ \A i \in DOMAIN attempts : attempts[i] \in Attempt
  BY DEF TypeOK, Ids

(* The generation new_binding and persist_binding read is an upper bound,  *)
(* because generations increase along the list.                            *)
LEMMA HighestGenerationBound ==
  ASSUME TypeOK, GenerationsIncrease, NEW t \in Tasks, NEW v \in PlanVersions
  PROVE  LET g == HighestGeneration(TaskBindings(t, v))
         IN g \in Nat /\ \A b \in TaskBindings(t, v) : bindings[b].gen <= g
<1> DEFINE S == TaskBindings(t, v)
           G == {bindings[b].gen : b \in S}
<1>1. CASE S = {}
  BY <1>1 DEF HighestGeneration
<1>2. CASE S # {}
  <2>1. S \subseteq 1..Len(bindings) /\ \A b \in S : bindings[b].gen \in Nat
    BY IdsAreIndices DEF TaskBindings, Binding
  <2>2. PICK x \in S : \A y \in S : y <= x
    BY <1>2, <2>1, LastIndex, IdsAreIndices
  <2>3. \A y \in S : bindings[y].gen <= bindings[x].gen
    BY <2>1, <2>2 DEF GenerationsIncrease
  <2>4. \E g \in G : \A b \in S : bindings[b].gen <= g
    BY <2>2, <2>3
  <2>5. HighestGeneration(S) \in G /\ \A b \in S : bindings[b].gen <= HighestGeneration(S)
    BY <1>2, <2>4 DEF HighestGeneration
  <2> QED
    BY <2>1, <2>5
<1> QED
  BY <1>1, <1>2

(* What a call has read has the shape its step says. *)
LEMMA CallShape ==
  ASSUME NEW c \in Call
  PROVE  /\ c.step = "start" => c.binding \in Binding /\ c.binding.status = "ACTIVE"
         /\ c.step = "begin" => c.run \in Run
         /\ c.step = "pointer" => c.task \in TaskOrNone
         /\ c.step = "import" => c.plan \in 1..(MaxPlan - 1)
  BY DEF Call, IdleCall

LEMMA GotoType ==
  ASSUME NEW a \in Actors, NEW c \in Call, TypeOK, Goto(a, c)
  PROVE  call' \in [Actors -> Call]
  BY DEF TypeOK, Goto

LEMMA ReturnType ==
  ASSUME NEW a \in Actors, TypeOK, Return(a)
  PROVE  call' \in [Actors -> Call]
  BY GotoType DEF Return, Call

LEMMA ThenReconcileType ==
  ASSUME NEW a \in Actors, TypeOK, ThenReconcile(a)
  PROVE  call' \in [Actors -> Call]
<1>1. [step |-> "reconcile", plan |-> plan] \in Call
  BY DEF Call, TypeOK
<1> QED
  BY <1>1, GotoType DEF ThenReconcile

-----------------------------------------------------------------------------
(* Type correctness *)

LEMMA PersistedBinding ==
  ASSUME TypeOK, GenerationsIncrease, NEW new \in Binding
  PROVE  LET S == TaskBindings(new.task, new.plan)
         IN /\ [new EXCEPT !.gen = EffectiveGeneration(new, S)] \in Binding
            /\ \A b \in S : bindings[b].gen < EffectiveGeneration(new, S)
<1> DEFINE S == TaskBindings(new.task, new.plan)
<1>1. new.task \in Tasks /\ new.plan \in PlanVersions /\ new.gen \in Nat
  BY DEF Binding
<1>2. /\ HighestGeneration(S) \in Nat
      /\ \A b \in S : bindings[b].gen \in Nat /\ bindings[b].gen <= HighestGeneration(S)
  BY <1>1, HighestGenerationBound, IdsAreIndices DEF TaskBindings, Binding
<1>3. EffectiveGeneration(new, S) \in Nat
  BY <1>1, <1>2 DEF EffectiveGeneration
<1>4. \A b \in S : bindings[b].gen < EffectiveGeneration(new, S)
  BY <1>1, <1>2 DEF EffectiveGeneration
<1> QED
  BY <1>3, <1>4 DEF Binding

LEMMA SupersedeActiveType ==
  ASSUME TypeOK, NEW S
  PROVE  /\ SupersedeActive(S) \in Seq(Binding)
         /\ Len(SupersedeActive(S)) = Len(bindings)
<1>1. \A b \in Ids : /\ bindings[b] \in Binding
                     /\ [bindings[b] EXCEPT !.status = "SUPERSEDED"] \in Binding
  BY IdsAreIndices DEF Binding, BindingStatuses
<1>2. SupersedeActive(S) \in [1..Len(bindings) -> Binding]
  BY <1>1, IdsAreIndices DEF SupersedeActive
<1> QED
  BY <1>2, IdsAreIndices

LEMMA RunAfterResultType ==
  ASSUME NEW v \in PlanVersions, NEW t \in Tasks, NEW ts, run \in Run
  PROVE  RunAfterResult(v, t, ts) \in Run
<1> DEFINE p == MilestoneAutoProgress(v, ts, gates, run.milestone)
<1>1. p.next \in TaskOrNone /\ t \in TaskOrNone
  BY ProgressType DEF TaskOrNone
<1>2. \A s \in RunStatuses, u \in TaskOrNone : [run EXCEPT !.status = s, !.task = u] \in Run
  BY DEF Run
<1>3. CASE ts[t] = "completed"
  <2>1. RunAfterResult(v, t, ts) =
          [run EXCEPT !.status = IF p.status = "MILESTONE_COMPLETED"
                                   THEN "completed" ELSE "running",
                      !.task = p.next]
    BY <1>3, Zenon DEF RunAfterResult
  <2> QED
    BY <2>1, <1>1, <1>2, ZenonT(40) DEF RunStatuses
<1>4. CASE ts[t] \in {"review", "blocked"}
  <2>1. RunAfterResult(v, t, ts) = [run EXCEPT !.status = ts[t], !.task = t]
    <3>1. ts[t] # "completed"
      BY <1>4
    <3> QED
      BY <3>1, <1>4, Zenon DEF RunAfterResult
  <2>2. ts[t] \in RunStatuses
    BY <1>4 DEF RunStatuses
  <2> QED
    BY <2>1, <2>2, <1>1, <1>2, Zenon
<1>5. CASE ts[t] \notin {"completed", "review", "blocked"}
  <2>1. RunAfterResult(v, t, ts) = [run EXCEPT !.status = "running", !.task = t]
    BY <1>5, Zenon DEF RunAfterResult
  <2> QED
    BY <2>1, <1>1, <1>2 DEF RunStatuses
<1> QED
  BY <1>3, <1>4, <1>5

LEMMA RunShape ==
  ASSUME TypeOK, run.status # "none"
  PROVE  run \in Run
  BY DEF TypeOK, NoRun

LEMMA ReconciledTaskType ==
  ASSUME TypeOK, NEW v \in PlanVersions
  PROVE  ReconciledTask(v) \in TaskOrNone
<1>1. Progress(v, run.milestone).next \in TaskOrNone
  BY ProgressType DEF Progress
<1>2. OnlyOne(Available(v)) \in TaskOrNone
  BY OnlyOneType, AvailableType DEF Available
<1>3. currentTask \in TaskOrNone
  BY DEF TypeOK
<1>4. run.status \in {"review", "blocked"} => run.task \in TaskOrNone
  BY RunShape DEF Run
<1>5. CASE run.status = "running"
  <2>1. run # NoRun /\ run.status \notin {"review", "blocked"}
    BY <1>5 DEF NoRun
  <2> QED
    BY <2>1, <1>5, <1>1, Zenon DEF ReconciledTask
<1>6. CASE run.status \in {"review", "blocked"} /\ run.task # NoTask
  <2>1. run # NoRun /\ run.status # "running"
    BY <1>6 DEF NoRun
  <2> QED
    BY <2>1, <1>4, <1>6, Zenon DEF ReconciledTask
<1>7. CASE /\ run.status # "running"
           /\ ~ (run.status \in {"review", "blocked"} /\ run.task # NoTask)
  BY <1>7, <1>2, <1>3, Zenon DEF ReconciledTask
<1> QED
  BY <1>5, <1>6, <1>7

(* Every operation keeps the types, given that generations increase.       *)
LEMMA TypeStep ==
  ASSUME TypeOK, GenerationsIncrease, [Next]_vars
  PROVE  TypeOK'
<1> USE DEF document, cursor
<1>p. plan \in PlanVersions /\ 1..plan \subseteq PlanVersions
  BY PlanAssumption DEF TypeOK, PlanVersions
<1>r. \A s \in RunStatuses, t \in TaskOrNone :
        run \in Run => [run EXCEPT !.status = s, !.task = t] \in Run
  BY DEF Run
<1>1. ASSUME NEW a \in Actors, NEW t \in TaskOrNone, NewBinding(a, t)
      PROVE  TypeOK'
  <2> DEFINE u == Selected(t)
             new == [task |-> u, plan |-> plan, status |-> "ACTIVE",
                     gen |-> HighestGeneration(TaskBindings(u, plan)) + 1]
  <2>1. u \in Tasks
    BY <1>1, <1>p, PlanAssumption DEF NewBinding
  <2>2. HighestGeneration(TaskBindings(u, plan)) \in Nat
    BY <2>1, <1>p, HighestGenerationBound
  <2>3. new \in Binding /\ new.status = "ACTIVE"
    BY <2>1, <2>2, <1>p DEF Binding, BindingStatuses
  <2>4. [step |-> "start", binding |-> new] \in Call
    BY <2>3 DEF Call
  <2>5. Goto(a, [step |-> "start", binding |-> new])
    BY <1>1 DEF NewBinding
  <2>6. call' \in [Actors -> Call]
    BY <2>4, <2>5, GotoType
  <2> QED
    BY <1>1, <2>6 DEF NewBinding, TypeOK
<1>2. ASSUME NEW a \in Actors, PersistBinding(a)
      PROVE  TypeOK'
  <2> DEFINE new == call[a].binding
             S == TaskBindings(new.task, new.plan)
  <2>1. new \in Binding
    BY <1>2, CallShape DEF PersistBinding, At, TypeOK
  <2>2. bindings' \in Seq(Binding)
    BY <1>2, <2>1, PersistedBinding, SupersedeActiveType DEF PersistBinding
  <2>3. new.task \in Tasks
    BY <2>1 DEF Binding
  <2>4. taskStatus' \in [Tasks -> TaskStatuses]
    BY <1>2, <2>3 DEF PersistBinding, TypeOK, TaskStatuses
  <2>5. call' \in [Actors -> Call]
    BY <1>2, ReturnType DEF PersistBinding
  <2>6. currentTask' \in TaskOrNone /\ currentBinding' \in Nat
    BY <1>2, <2>3, IdsAreIndices DEF PersistBinding, TaskOrNone
  <2> QED
    BY <1>2, <2>2, <2>4, <2>5, <2>6 DEF PersistBinding, TypeOK
<1>3. ASSUME NEW a \in Actors, NEW b \in Ids, NEW r \in Results, ReplayResult(a, b, r)
      PROVE  TypeOK'
  BY <1>3, ThenReconcileType DEF ReplayResult, TypeOK
<1>4. ASSUME NEW a \in Actors, NEW v \in 1..plan, NEW b \in Ids, NEW r \in Results,
             RecordVerdict(a, v, b, r)
      PROVE  TypeOK'
  <2> DEFINE t  == bindings[b].task
             ts == [taskStatus EXCEPT ![t] = StatusAfter(r)]
  <2>1. v \in PlanVersions /\ t \in Tasks
    BY <1>p, IdsAreIndices DEF Binding
  <2>2. taskStatus' \in [Tasks -> TaskStatuses]
    BY <1>4, <2>1, VerdictType DEF RecordVerdict, TypeOK
  <2>3. attempts' \in Seq(Attempt)
    <3>1. [binding |-> b, result |-> r, status |-> Overall(r)] \in Attempt
      BY VerdictType, IdsAreIndices DEF Attempt, AttemptStatuses
    <3> QED
      BY <1>4, <3>1 DEF RecordVerdict, AppendAttempt, TypeOK
  <2>4. bindings' \in Seq(Binding)
    <3>1. \A s \in BindingStatuses : [bindings[b] EXCEPT !.status = s] \in Binding
      BY IdsAreIndices DEF Binding
    <3>2. bindings' = [bindings EXCEPT ![b] =
             [bindings[b] EXCEPT !.status = IF Overall(r) = "PASS" THEN "ACCEPTED" ELSE "FAILED"]]
      BY <1>4 DEF RecordVerdict
    <3>3. [bindings[b] EXCEPT !.status = IF Overall(r) = "PASS" THEN "ACCEPTED" ELSE "FAILED"]
            \in Binding
      BY <3>1 DEF BindingStatuses
    <3> QED
      BY <3>2, <3>3, ExceptSeq DEF TypeOK, Ids
  <2>5. currentTask' \in TaskOrNone /\ currentBinding' \in Nat /\ run' \in Run \cup {NoRun}
    <3>1. CursorAfterResult(v, t, ts)
      BY <1>4 DEF RecordVerdict
    <3>2. CASE run.status \in LiveRun
      <4>1. run \in Run
        BY <3>2, RunShape DEF LiveRun
      <4>2. run' \in Run /\ currentTask' = run'.task
        BY <3>1, <3>2, <4>1, <2>1, RunAfterResultType DEF CursorAfterResult
      <4> QED
        BY <3>1, <4>2 DEF CursorAfterResult, Run
    <3>3. CASE run.status \notin LiveRun
      BY <3>1, <3>3, <2>1, OnlyOneType, AvailableType DEF CursorAfterResult, TypeOK
    <3> QED
      BY <3>2, <3>3
  <2>6. milestonesCompleted' \subseteq Milestones
    BY <1>4 DEF RecordVerdict, TypeOK
  <2>7. call' \in [Actors -> Call]
    BY <1>4, ThenReconcileType DEF RecordVerdict
  <2> QED
    BY <1>4, <2>2, <2>3, <2>4, <2>5, <2>6, <2>7 DEF RecordVerdict, TypeOK
<1>5. ASSUME NEW a \in Actors, NEW v \in 1..plan, NEW t \in Tasks, ApproveReview(a, v, t)
      PROVE  TypeOK'
  <2> DEFINE ts == [taskStatus EXCEPT ![t] = "completed"]
             p  == MilestoneAutoProgress(v, ts, gates, run.milestone)
  <2>1. v \in PlanVersions
    BY <1>p
  <2>2. p.next \in TaskOrNone /\ OnlyOne(AvailableTasks(v, ts, gates)) \in TaskOrNone
    BY <2>1, ProgressType, OnlyOneType, AvailableType
  <2>3. taskStatus' \in [Tasks -> TaskStatuses]
    BY <1>5 DEF ApproveReview, TypeOK, TaskStatuses
  <2>4. currentTask' \in TaskOrNone /\ run' \in Run \cup {NoRun}
    <3> HIDE DEF p
    <3>1. CASE run.status \in LiveRun
      <4>1. run \in Run
        BY <3>1, RunShape DEF LiveRun
      <4>2. /\ currentTask' = p.next
            /\ run' = [run EXCEPT !.task = p.next, !.status =
                          IF p.status = "MILESTONE_COMPLETED" THEN "completed" ELSE "running"]
        BY <1>5, <3>1 DEF ApproveReview, p
      <4> QED
        BY <4>1, <4>2, <2>2 DEF Run, RunStatuses
    <3>2. CASE run.status \notin LiveRun
      BY <1>5, <2>2, <3>2 DEF ApproveReview, TypeOK
    <3> QED
      BY <3>1, <3>2
  <2>5. call' \in [Actors -> Call]
    BY <1>5, ThenReconcileType DEF ApproveReview
  <2> QED
    BY <1>5, <2>3, <2>4, <2>5 DEF ApproveReview, TypeOK
<1>6. ASSUME NEW a \in Actors, NEW t \in Tasks, RequestChanges(a, t)
      PROVE  TypeOK'
  <2>1. run' \in Run \cup {NoRun}
    BY <1>6, <1>r DEF RequestChanges, RunAfterChanges, TypeOK, TaskOrNone, RunStatuses
  <2>2. call' \in [Actors -> Call]
    BY <1>6, ThenReconcileType DEF RequestChanges
  <2> QED
    BY <1>6, <2>1, <2>2 DEF RequestChanges, TypeOK, TaskStatuses, TaskOrNone
<1>7. ASSUME NEW a \in Actors, Reconcile(a)
      PROVE  TypeOK'
  <2>1. PICK v \in call[a].plan..plan :
          IF ReconciledTask(v) = currentTask THEN Return(a)
          ELSE Goto(a, [step |-> "pointer", task |-> ReconciledTask(v)])
    BY <1>7 DEF Reconcile
  <2>2. call[a].plan \in PlanVersions
    BY <1>7 DEF Reconcile, At, TypeOK, Call, IdleCall
  <2>3. v \in PlanVersions
    BY <2>2, <1>p, PlanAssumption DEF PlanVersions
  <2>4. [step |-> "pointer", task |-> ReconciledTask(v)] \in Call
    BY <2>3, ReconciledTaskType DEF Call
  <2>5. call' \in [Actors -> Call]
    BY <2>1, <2>4, ReturnType, GotoType
  <2> QED
    BY <1>7, <2>5 DEF Reconcile, TypeOK
<1>8. ASSUME NEW a \in Actors, SetPointer(a)
      PROVE  TypeOK'
  <2>1. call[a].task \in TaskOrNone
    BY <1>8, CallShape DEF SetPointer, At, TypeOK
  <2>2. call' \in [Actors -> Call]
    BY <1>8, ReturnType DEF SetPointer
  <2> QED
    BY <1>8, <2>1, <2>2 DEF SetPointer, TypeOK
<1>9. ASSUME NEW a \in Actors, NEW v \in 1..plan, NEW m \in Milestones,
             BeginMilestoneAuto(a, v, m)
      PROVE  TypeOK'
  <2> DEFINE p == Progress(v, m)
             new == [milestone |-> m, task |-> p.next,
                     status |-> IF p.status = "RUNNABLE" THEN "running" ELSE "completed"]
             c == [step |-> "begin", run |-> new,
                   inherited |-> run # NoRun /\ run.milestone = m]
  <2>1. p.next \in TaskOrNone
    BY <1>p, ProgressType DEF Progress
  <2>2. new \in Run
    <3> HIDE DEF p
    <3> QED BY <2>1 DEF Run, RunStatuses
  <2>3. c \in Call
    <3> HIDE DEF new
    <3> QED BY <2>2 DEF Call
  <2>4. Goto(a, c)
    BY <1>9 DEF BeginMilestoneAuto
  <2>5. call' \in [Actors -> Call]
    <3> HIDE DEF c
    <3> QED BY <2>3, <2>4, GotoType
  <2> QED
    BY <1>9, <2>5 DEF BeginMilestoneAuto, TypeOK
<1>10. ASSUME NEW a \in Actors, CommitMilestoneAuto(a)
       PROVE  TypeOK'
  <2>1. call[a].run \in Run
    BY <1>10, CallShape DEF CommitMilestoneAuto, At, TypeOK
  <2>2. call' \in [Actors -> Call]
    BY <1>10, ReturnType DEF CommitMilestoneAuto
  <2>3. call[a].run.task \in TaskOrNone
    BY <2>1 DEF Run
  <2> QED
    BY <1>10, <2>1, <2>2, <2>3 DEF CommitMilestoneAuto, TypeOK
<1>11. ASSUME NEW a \in Actors, NEW b \in Ids, EnsureAutoNextLaunch(a, b)
       PROVE  TypeOK'
  <2>1. [step |-> "restore", binding |-> b, plan |-> plan] \in Call
    BY <1>p, IdsAreIndices DEF Call
  <2>2. call' \in [Actors -> Call]
    BY <1>11, <2>1, GotoType DEF EnsureAutoNextLaunch
  <2> QED
    BY <1>11, <2>2 DEF EnsureAutoNextLaunch, TypeOK
<1>12. ASSUME NEW a \in Actors, RestoreCurrentBinding(a)
       PROVE  TypeOK'
  <2>1. call[a].binding \in Ids
    BY <1>12 DEF RestoreCurrentBinding
  <2>2. bindings[call[a].binding].task \in TaskOrNone /\ call[a].binding \in Nat
    BY <2>1, IdsAreIndices DEF Binding, TaskOrNone
  <2>3. call' \in [Actors -> Call]
    BY <1>12, ReturnType DEF RestoreCurrentBinding
  <2> QED
    BY <1>12, <2>2, <2>3 DEF RestoreCurrentBinding, TypeOK
<1>13. ASSUME NEW a \in Actors, PreviewUpdate(a)
       PROVE  TypeOK'
  <2>1. [step |-> "import", plan |-> plan] \in Call
    BY <1>13, <1>p, PlanAssumption DEF Call, PreviewUpdate, PlanVersions
  <2>2. call' \in [Actors -> Call]
    BY <1>13, <2>1, GotoType DEF PreviewUpdate
  <2> QED
    BY <1>13, <2>2 DEF PreviewUpdate, TypeOK
<1>14. ASSUME NEW a \in Actors, ApplyUpdate(a)
       PROVE  TypeOK'
  <2>1. call' \in [Actors -> Call]
    BY <1>14, ReturnType DEF ApplyUpdate
  <2>2. plan' \in PlanVersions
    BY <1>14, CallShape, PlanAssumption DEF ApplyUpdate, TypeOK, PlanVersions
  <2> QED
    BY <1>14, <2>1, <2>2 DEF ApplyUpdate, TypeOK
<1>15. ASSUME NEW a \in Actors, Abandon(a)
       PROVE  TypeOK'
  BY <1>15, ReturnType DEF Abandon, TypeOK
<1>16. ASSUME NEW v \in 1..plan, NEW b \in Ids, NEW r \in Results,
              RecordStaleResult(v, b, r)
       PROVE  TypeOK'
  <2>1. [binding |-> b, result |-> r, status |-> "STALE_RESULT"] \in Attempt
    BY IdsAreIndices DEF Attempt, AttemptStatuses
  <2>2. attempts' \in Seq(Attempt)
    BY <1>16, <2>1 DEF RecordStaleResult, AppendAttempt, TypeOK
  <2> QED
    BY <1>16, <2>2 DEF RecordStaleResult, TypeOK
<1>17. ASSUME StopMilestoneAuto
       PROVE  TypeOK'
  <2>1. [run EXCEPT !.status = "stopped"] \in Run
    BY <1>17 DEF StopMilestoneAuto, TypeOK, Run, RunStatuses
  <2> QED
    BY <1>17, <2>1 DEF StopMilestoneAuto, TypeOK
<1>18. ASSUME NEW g \in Gates, NEW s \in GateStatuses, SetPrerequisiteStatus(g, s)
       PROVE  TypeOK'
  BY <1>18 DEF SetPrerequisiteStatus, TypeOK
<1>19. CASE UNCHANGED vars
  BY <1>19 DEF vars, TypeOK
<1> QED
  BY <1>1, <1>2, <1>3, <1>4, <1>5, <1>6, <1>7, <1>8, <1>9, <1>10, <1>11, <1>12, <1>13,
     <1>14, <1>15, <1>16, <1>17, <1>18, <1>19 DEF Next, Operation

-----------------------------------------------------------------------------
(* What a step does to bindings and attempts *)

(* Only three operations write the two lists. *)
LEMMA ListFrame ==
  ASSUME [Next]_vars
  PROVE  \/ UNCHANGED <<bindings, attempts>>
         \/ \E a \in Actors : PersistBinding(a)
         \/ \E a \in Actors, v \in 1..plan, b \in Ids, r \in Results :
               RecordVerdict(a, v, b, r)
         \/ \E v \in 1..plan, b \in Ids, r \in Results : RecordStaleResult(v, b, r)
<1> USE DEF document, cursor
<1>1. ASSUME NEW a \in Actors, Operation(a)
      PROVE  \/ UNCHANGED <<bindings, attempts>>
             \/ PersistBinding(a)
             \/ \E v \in 1..plan, b \in Ids, r \in Results : RecordVerdict(a, v, b, r)
  BY <1>1 DEF Operation, NewBinding, ReplayResult, ApproveReview, RequestChanges,
     Reconcile, SetPointer, BeginMilestoneAuto, CommitMilestoneAuto,
     EnsureAutoNextLaunch, RestoreCurrentBinding, PreviewUpdate, ApplyUpdate, Abandon
<1>2. StopMilestoneAuto => UNCHANGED <<bindings, attempts>>
  BY DEF StopMilestoneAuto
<1>3. \A g, s : SetPrerequisiteStatus(g, s) => UNCHANGED <<bindings, attempts>>
  BY DEF SetPrerequisiteStatus
<1>4. UNCHANGED vars => UNCHANGED <<bindings, attempts>>
  BY DEF vars
<1> QED
  BY <1>1, <1>2, <1>3, <1>4 DEF Next

LEMMA PersistEffect ==
  ASSUME TypeOK, GenerationsIncrease, NEW a \in Actors, PersistBinding(a)
  PROVE  LET new == call[a].binding
             n   == Len(bindings) + 1
         IN /\ new.task \in Tasks /\ new.plan \in PlanVersions
            /\ Ids' = Ids \cup {n} /\ n \in Nat /\ n \notin Ids
            /\ \A b \in Ids : b < n /\
                 bindings'[b] = IF b \in TaskBindings(new.task, new.plan) /\ Active(b)
                                  THEN [bindings[b] EXCEPT !.status = "SUPERSEDED"]
                                  ELSE bindings[b]
            /\ bindings'[n].task = new.task /\ bindings'[n].plan = new.plan
            /\ bindings'[n].status = "ACTIVE"
            /\ \A b \in TaskBindings(new.task, new.plan) :
                 bindings[b].gen < bindings'[n].gen
<1> DEFINE new == call[a].binding
           n == Len(bindings) + 1
           S == TaskBindings(new.task, new.plan)
           rec == [new EXCEPT !.gen = EffectiveGeneration(new, S)]
<1>1. new \in Binding /\ new.status = "ACTIVE"
  BY CallShape DEF PersistBinding, At, TypeOK
<1>2. new.task \in Tasks /\ new.plan \in PlanVersions
  BY <1>1 DEF Binding
<1>3. rec \in Binding /\ \A b \in S : bindings[b].gen < EffectiveGeneration(new, S)
  BY <1>1, PersistedBinding
<1>4. /\ rec.task = new.task /\ rec.plan = new.plan /\ rec.status = "ACTIVE"
      /\ rec.gen = EffectiveGeneration(new, S)
  BY <1>1 DEF Binding
<1>5. bindings' = Append(SupersedeActive(S), rec)
  BY DEF PersistBinding
<1>6. SupersedeActive(S) \in Seq(Binding) /\ Len(SupersedeActive(S)) = Len(bindings)
  BY SupersedeActiveType
<1>7. /\ Len(bindings') = n /\ bindings' \in Seq(Binding)
      /\ \A b \in 1..Len(bindings) : bindings'[b] = SupersedeActive(S)[b]
      /\ bindings'[n] = rec
  <2> HIDE DEF rec, S
  <2> QED BY <1>3, <1>5, <1>6, AppendProperties
<1>8. Ids = 1..Len(bindings) /\ Len(bindings) \in Nat
  BY IdsAreIndices
<1>9. Ids' = 1..n
  BY <1>7, LenProperties DEF Ids
<1>10. \A b \in Ids : bindings'[b] = IF b \in S /\ Active(b)
                                       THEN [bindings[b] EXCEPT !.status = "SUPERSEDED"]
                                       ELSE bindings[b]
  BY <1>7, <1>8 DEF SupersedeActive
<1>11. Ids' = Ids \cup {n} /\ n \in Nat /\ n \notin Ids /\ \A b \in Ids : b < n
  BY <1>8, <1>9
<1> HIDE DEF n, rec, S, new
<1>12. /\ bindings'[n].task = new.task /\ bindings'[n].plan = new.plan
       /\ bindings'[n].status = "ACTIVE"
       /\ \A b \in S : bindings[b].gen < bindings'[n].gen
  BY <1>3, <1>4, <1>7
<1> QED
  BY <1>2, <1>10, <1>11, <1>12 DEF S, n, new

LEMMA VerdictEffect ==
  ASSUME TypeOK, NEW a \in Actors, NEW v \in 1..plan, NEW b \in Ids, NEW r \in Results,
         RecordVerdict(a, v, b, r)
  PROVE  LET n == Len(attempts) + 1
         IN /\ Active(b) /\ currentBinding \in {0, b}
            /\ Ids' = Ids
            /\ \A c \in Ids \ {b} : bindings'[c] = bindings[c]
            /\ bindings'[b].task = bindings[b].task
            /\ bindings'[b].plan = bindings[b].plan
            /\ bindings'[b].gen = bindings[b].gen
            /\ bindings'[b].status = IF Overall(r) = "PASS" THEN "ACCEPTED" ELSE "FAILED"
            /\ n \in Nat /\ DOMAIN attempts' = DOMAIN attempts \cup {n}
            /\ n \notin DOMAIN attempts
            /\ \A i \in DOMAIN attempts : attempts'[i] = attempts[i] /\ i < n
            /\ attempts'[n] = [binding |-> b, result |-> r, status |-> Overall(r)]
<1> DEFINE n == Len(attempts) + 1
           rec == [binding |-> b, result |-> r, status |-> Overall(r)]
           st == IF Overall(r) = "PASS" THEN "ACCEPTED" ELSE "FAILED"
<1>1. Active(b) /\ currentBinding \in {0, b}
  BY DEF RecordVerdict, Stale
<1>2. bindings' = [bindings EXCEPT ![b].status = st]
  BY DEF RecordVerdict
<1>3. bindings[b] \in Binding
  BY IdsAreIndices
<1>4. /\ Ids' = Ids
      /\ \A c \in Ids \ {b} : bindings'[c] = bindings[c]
      /\ bindings'[b] = [bindings[b] EXCEPT !.status = st]
  <2> HIDE DEF st
  <2> QED BY <1>2 DEF Ids
<1>5. /\ bindings'[b].task = bindings[b].task /\ bindings'[b].plan = bindings[b].plan
      /\ bindings'[b].gen = bindings[b].gen /\ bindings'[b].status = st
  <2> HIDE DEF st
  <2> QED BY <1>3, <1>4 DEF Binding
<1>6. rec \in Attempt
  BY VerdictType, IdsAreIndices DEF Attempt, AttemptStatuses
<1>7. attempts' = Append(attempts, rec) /\ attempts \in Seq(Attempt)
  BY DEF RecordVerdict, AppendAttempt, TypeOK
<1>8. /\ n \in Nat /\ DOMAIN attempts' = DOMAIN attempts \cup {n}
      /\ n \notin DOMAIN attempts
      /\ \A i \in DOMAIN attempts : attempts'[i] = attempts[i] /\ i < n
      /\ attempts'[n] = rec
  <2> HIDE DEF rec
  <2>1. Len(attempts') = n /\ DOMAIN attempts' = 1..n
    BY <1>6, <1>7, AppendProperties, LenProperties
  <2> QED
    BY <1>6, <1>7, <2>1, AppendProperties, IdsAreIndices
<1> HIDE DEF n
<1> QED
  BY <1>1, <1>4, <1>5, <1>8 DEF n

LEMMA StaleEffect ==
  ASSUME TypeOK, NEW v \in 1..plan, NEW b \in Ids, NEW r \in Results,
         RecordStaleResult(v, b, r)
  PROVE  LET n == Len(attempts) + 1
         IN /\ UNCHANGED bindings
            /\ n \in Nat /\ DOMAIN attempts' = DOMAIN attempts \cup {n}
            /\ n \notin DOMAIN attempts
            /\ \A i \in DOMAIN attempts : attempts'[i] = attempts[i] /\ i < n
            /\ attempts'[n] = [binding |-> b, result |-> r, status |-> "STALE_RESULT"]
<1> DEFINE n == Len(attempts) + 1
           rec == [binding |-> b, result |-> r, status |-> "STALE_RESULT"]
<1>1. rec \in Attempt
  BY IdsAreIndices DEF Attempt, AttemptStatuses
<1>2. attempts' = Append(attempts, rec) /\ attempts \in Seq(Attempt)
  BY DEF RecordStaleResult, AppendAttempt, TypeOK
<1> HIDE DEF rec
<1>3. Len(attempts') = n /\ DOMAIN attempts' = 1..n
  BY <1>1, <1>2, AppendProperties, LenProperties
<1>4. UNCHANGED bindings
  BY DEF RecordStaleResult
<1> QED
  BY <1>1, <1>2, <1>3, <1>4, AppendProperties, IdsAreIndices DEF rec

(* No step removes a binding, changes its identity or revives it. *)
LEMMA BindingStepLemma ==
  ASSUME TypeOK, GenerationsIncrease, [Next]_vars
  PROVE  \A b \in Ids : BindingStep(b)
<1>1. CASE UNCHANGED <<bindings, attempts>>
  BY <1>1 DEF BindingStep, Ids
<1>2. ASSUME NEW a \in Actors, PersistBinding(a)
      PROVE  \A b \in Ids : BindingStep(b)
  <2>1. ASSUME NEW b \in Ids
        PROVE  BindingStep(b)
    <3>1. bindings[b] \in Binding
      BY IdsAreIndices
    <3>2. b \in Ids' /\ \/ bindings'[b] = bindings[b]
                        \/ Active(b) /\ bindings'[b] = [bindings[b] EXCEPT !.status = "SUPERSEDED"]
      BY <1>2, PersistEffect
    <3> QED
      BY <3>1, <3>2 DEF BindingStep, Ids, Binding
  <2> QED
    BY <2>1
<1>3. ASSUME NEW a \in Actors, NEW v \in 1..plan, NEW c \in Ids, NEW r \in Results,
             RecordVerdict(a, v, c, r)
      PROVE  \A b \in Ids : BindingStep(b)
  BY <1>3, VerdictEffect DEF BindingStep, Ids
<1>4. ASSUME NEW v \in 1..plan, NEW b \in Ids, NEW r \in Results, RecordStaleResult(v, b, r)
      PROVE  \A c \in Ids : BindingStep(c)
  BY <1>4, StaleEffect DEF BindingStep, Ids
<1> QED
  BY <1>1, <1>2, <1>3, <1>4, ListFrame

-----------------------------------------------------------------------------
(* The binding invariants *)

LEMMA MaxOneActiveStep ==
  ASSUME TypeOK, GenerationsIncrease, MaxOneActive, [Next]_vars
  PROVE  MaxOneActive'
<1>1. CASE UNCHANGED bindings
  BY <1>1 DEF MaxOneActive, TaskBindings, Ids, Active
<1>2. ASSUME NEW a \in Actors, PersistBinding(a)
      PROVE  MaxOneActive'
  <2> DEFINE new == call[a].binding
             n == Len(bindings) + 1
  <2>1. \A b \in Ids : BindingStep(b)
    BY BindingStepLemma
  <2>2. /\ Ids' = Ids \cup {n} /\ n \notin Ids
        /\ bindings'[n].task = new.task /\ bindings'[n].plan = new.plan
        /\ \A b \in Ids : b \in TaskBindings(new.task, new.plan) =>
               bindings'[b].status # "ACTIVE"
    <3>1. \A b \in Ids : [bindings[b] EXCEPT !.status = "SUPERSEDED"].status = "SUPERSEDED"
      BY IdsAreIndices DEF Binding
    <3> QED
      BY <1>2, <3>1, PersistEffect DEF Active
  <2> HIDE DEF n
  <2>3. ASSUME NEW t \in Tasks, NEW v \in PlanVersions,
               NEW b \in TaskBindings(t, v)', NEW c \in TaskBindings(t, v)',
               Active(b)', Active(c)'
        PROVE  b = c
    <3>1. \A x \in {b, c} : x \in Ids => x \in TaskBindings(t, v) /\ Active(x)
      BY <2>1, <2>3 DEF BindingStep, TaskBindings, Active
    <3>2. \A x \in {b, c} : x = n \/ x \in Ids
      BY <2>2, <2>3 DEF TaskBindings
    <3>3. n \in {b, c} => \A x \in {b, c} : x \notin Ids
      BY <2>2, <2>3, <3>1 DEF TaskBindings, Active
    <3> QED
      BY <3>1, <3>2, <3>3 DEF MaxOneActive
  <2> QED
    BY <2>3 DEF MaxOneActive
<1>3. ASSUME NEW a \in Actors, NEW v \in 1..plan, NEW c \in Ids, NEW r \in Results,
             RecordVerdict(a, v, c, r)
      PROVE  MaxOneActive'
  <2>1. Ids' = Ids /\ \A b \in Ids : BindingStep(b)
    BY <1>3, VerdictEffect, BindingStepLemma
  <2>2. \A t \in Tasks, w \in PlanVersions : \A b \in TaskBindings(t, w)' :
          b \in TaskBindings(t, w) /\ (Active(b)' => Active(b))
    BY <2>1 DEF BindingStep, TaskBindings, Active
  <2> QED
    BY <2>2 DEF MaxOneActive
<1>4. ASSUME NEW v \in 1..plan, NEW b \in Ids, NEW r \in Results, RecordStaleResult(v, b, r)
      PROVE  UNCHANGED bindings
  BY <1>4, StaleEffect
<1> QED
  BY <1>1, <1>2, <1>3, <1>4, ListFrame

LEMMA GenerationsStep ==
  ASSUME TypeOK, GenerationsIncrease, [Next]_vars
  PROVE  GenerationsIncrease'
<1>1. CASE UNCHANGED bindings
  BY <1>1 DEF GenerationsIncrease, TaskBindings, Ids
<1>2. \A b \in Ids : BindingStep(b)
  BY BindingStepLemma
<1>3. ASSUME NEW a \in Actors, PersistBinding(a)
      PROVE  GenerationsIncrease'
  <2> DEFINE new == call[a].binding
             n == Len(bindings) + 1
  <2>1. /\ Ids' = Ids \cup {n} /\ n \notin Ids /\ n \in Nat
        /\ \A b \in Ids : b < n /\ b \in Nat
        /\ bindings'[n].task = new.task /\ bindings'[n].plan = new.plan
        /\ \A b \in TaskBindings(new.task, new.plan) : bindings[b].gen < bindings'[n].gen
    BY <1>3, PersistEffect, IdsAreIndices
  <2> HIDE DEF n
  <2>2. ASSUME NEW t \in Tasks, NEW v \in PlanVersions,
               NEW b \in TaskBindings(t, v)', NEW c \in TaskBindings(t, v)', b < c
        PROVE  bindings'[b].gen < bindings'[c].gen
    <3>1. \A x \in {b, c} : x \in Ids => x \in TaskBindings(t, v)
                                         /\ bindings'[x].gen = bindings[x].gen
      BY <1>2, <2>2 DEF BindingStep, TaskBindings
    <3>2. b \in Ids
      BY <2>1, <2>2 DEF TaskBindings
    <3>3. CASE c \in Ids
      BY <2>2, <3>1, <3>2, <3>3 DEF GenerationsIncrease
    <3>4. CASE c = n
      BY <2>1, <2>2, <3>1, <3>2, <3>4 DEF TaskBindings
    <3> QED
      BY <2>1, <2>2, <3>3, <3>4 DEF TaskBindings
  <2> QED
    BY <2>2 DEF GenerationsIncrease
<1>4. ASSUME NEW a \in Actors, NEW v \in 1..plan, NEW c \in Ids, NEW r \in Results,
             RecordVerdict(a, v, c, r)
      PROVE  GenerationsIncrease'
  <2>1. Ids' = Ids
    BY <1>4, VerdictEffect
  <2>2. \A t \in Tasks, w \in PlanVersions : \A b \in TaskBindings(t, w)' :
          b \in TaskBindings(t, w) /\ bindings'[b].gen = bindings[b].gen
    BY <1>2, <2>1 DEF BindingStep, TaskBindings
  <2> QED
    BY <2>2 DEF GenerationsIncrease
<1>5. ASSUME NEW v \in 1..plan, NEW b \in Ids, NEW r \in Results, RecordStaleResult(v, b, r)
      PROVE  UNCHANGED bindings
  BY <1>5, StaleEffect
<1> QED
  BY <1>1, <1>3, <1>4, <1>5, ListFrame

(* Who moves the cursor. *)
LEMMA CursorFrame ==
  ASSUME [Next]_vars
  PROVE  \/ UNCHANGED bindings /\ currentBinding' \in {0, currentBinding}
         \/ \E a \in Actors : PersistBinding(a)
         \/ \E a \in Actors : RestoreCurrentBinding(a)
         \/ \E a \in Actors, v \in 1..plan, b \in Ids, r \in Results :
               RecordVerdict(a, v, b, r)
<1> USE DEF document, cursor
<1>1. ASSUME NEW a \in Actors, Operation(a)
      PROVE  \/ UNCHANGED bindings /\ currentBinding' \in {0, currentBinding}
             \/ PersistBinding(a)
             \/ RestoreCurrentBinding(a)
             \/ \E v \in 1..plan, b \in Ids, r \in Results : RecordVerdict(a, v, b, r)
  BY <1>1 DEF Operation, NewBinding, ReplayResult, ApproveReview, RequestChanges,
     Reconcile, SetPointer, BeginMilestoneAuto, CommitMilestoneAuto,
     EnsureAutoNextLaunch, PreviewUpdate, ApplyUpdate, Abandon
<1>2. StopMilestoneAuto => UNCHANGED <<bindings, currentBinding>>
  BY DEF StopMilestoneAuto
<1>3. \A g, s : SetPrerequisiteStatus(g, s) => UNCHANGED <<bindings, currentBinding>>
  BY DEF SetPrerequisiteStatus
<1>4. UNCHANGED vars => UNCHANGED <<bindings, currentBinding>>
  BY DEF vars
<1>5. \A v, b, r : RecordStaleResult(v, b, r) => UNCHANGED <<bindings, currentBinding>>
  BY DEF RecordStaleResult
<1> QED
  BY <1>1, <1>2, <1>3, <1>4, <1>5 DEF Next

LEMMA CurrentBindingStep ==
  ASSUME TypeOK, GenerationsIncrease, CurrentBindingActive, [Next]_vars
  PROVE  CurrentBindingActive'
<1>1. CASE UNCHANGED bindings /\ currentBinding' \in {0, currentBinding}
  BY <1>1 DEF CurrentBindingActive, Ids, Active
<1>2. ASSUME NEW a \in Actors, PersistBinding(a)
      PROVE  CurrentBindingActive'
  <2>1. currentBinding' = Len(bindings) + 1
    BY <1>2 DEF PersistBinding
  <2> QED
    BY <1>2, <2>1, PersistEffect DEF CurrentBindingActive, Active
<1>3. ASSUME NEW a \in Actors, RestoreCurrentBinding(a)
      PROVE  CurrentBindingActive'
  BY <1>3 DEF RestoreCurrentBinding, CurrentBindingActive, Ids, Active
<1>4. ASSUME NEW a \in Actors, NEW v \in 1..plan, NEW b \in Ids, NEW r \in Results,
             RecordVerdict(a, v, b, r)
      PROVE  CurrentBindingActive'
  BY <1>4 DEF RecordVerdict, CursorAfterResult, CurrentBindingActive
<1> QED
  BY <1>1, <1>2, <1>3, <1>4, CursorFrame

-----------------------------------------------------------------------------
(* Verdicts *)

LEMMA AttemptsStep ==
  ASSUME TypeOK, GenerationsIncrease, AttemptsAreVerdicts, [Next]_vars
  PROVE  AttemptsAreVerdicts'
<1>1. Ids \subseteq Ids'
  BY BindingStepLemma DEF BindingStep, Ids
<1>2. CASE UNCHANGED attempts
  BY <1>1, <1>2 DEF AttemptsAreVerdicts
<1>3. \A a : PersistBinding(a) => UNCHANGED attempts
  BY DEF PersistBinding
<1>4. ASSUME NEW a \in Actors, NEW v \in 1..plan, NEW b \in Ids, NEW r \in Results,
             RecordVerdict(a, v, b, r)
      PROVE  AttemptsAreVerdicts'
  <2> DEFINE n == Len(attempts) + 1
  <2>1. /\ DOMAIN attempts' = DOMAIN attempts \cup {n}
        /\ \A i \in DOMAIN attempts : attempts'[i] = attempts[i]
        /\ attempts'[n] = [binding |-> b, result |-> r, status |-> Overall(r)]
    BY <1>4, VerdictEffect
  <2> HIDE DEF n
  <2> QED
    BY <1>1, <2>1 DEF AttemptsAreVerdicts
<1>5. ASSUME NEW v \in 1..plan, NEW b \in Ids, NEW r \in Results, RecordStaleResult(v, b, r)
      PROVE  AttemptsAreVerdicts'
  <2> DEFINE n == Len(attempts) + 1
  <2>1. /\ DOMAIN attempts' = DOMAIN attempts \cup {n}
        /\ \A i \in DOMAIN attempts : attempts'[i] = attempts[i]
        /\ attempts'[n] = [binding |-> b, result |-> r, status |-> "STALE_RESULT"]
    BY <1>5, StaleEffect
  <2> HIDE DEF n
  <2> QED
    BY <1>1, <2>1 DEF AttemptsAreVerdicts
<1> QED
  BY <1>2, <1>3, <1>4, <1>5, ListFrame

LEMMA JudgedOnceStep ==
  ASSUME TypeOK, GenerationsIncrease, AttemptsAreVerdicts, JudgedOnce, [Next]_vars
  PROVE  JudgedOnce'
<1>1. CASE UNCHANGED <<bindings, attempts>>
  BY <1>1 DEF JudgedOnce, Ids, Verdicts
<1>2. ASSUME NEW a \in Actors, PersistBinding(a)
      PROVE  JudgedOnce'
  <2> DEFINE n == Len(bindings) + 1
  <2>1. UNCHANGED attempts
    BY <1>2 DEF PersistBinding
  <2>2. Ids' = Ids \cup {n} /\ n \notin Ids /\ bindings'[n].status = "ACTIVE"
    BY <1>2, PersistEffect
  <2>3. \A b \in Ids : bindings'[b].status \in {"ACCEPTED", "FAILED"}
                       <=> bindings[b].status \in {"ACCEPTED", "FAILED"}
    <3>1. \A b \in Ids : [bindings[b] EXCEPT !.status = "SUPERSEDED"].status = "SUPERSEDED"
      BY IdsAreIndices DEF Binding
    <3> QED
      BY <1>2, <3>1, PersistEffect DEF Active
  <2> HIDE DEF n
  <2>4. Verdicts(n) = {} /\ \A b : Verdicts(b)' = Verdicts(b)
    BY <2>1, <2>2 DEF AttemptsAreVerdicts, Verdicts
  <2> QED
    BY <2>2, <2>3, <2>4 DEF JudgedOnce
<1>3. ASSUME NEW a \in Actors, NEW v \in 1..plan, NEW b \in Ids, NEW r \in Results,
             RecordVerdict(a, v, b, r)
      PROVE  JudgedOnce'
  <2> DEFINE n == Len(attempts) + 1
  <2>1. /\ DOMAIN attempts' = DOMAIN attempts \cup {n} /\ n \notin DOMAIN attempts
        /\ \A i \in DOMAIN attempts : attempts'[i] = attempts[i]
        /\ attempts'[n] = [binding |-> b, result |-> r, status |-> Overall(r)]
    BY <1>3, VerdictEffect
  <2>2. /\ Ids' = Ids
        /\ \A c \in Ids \ {b} : bindings'[c] = bindings[c]
        /\ bindings'[b].status \in {"ACCEPTED", "FAILED"}
        /\ bindings[b].status = "ACTIVE"
    BY <1>3, VerdictEffect, ZenonT(40) DEF Active
  <2> HIDE DEF n
  <2>3. Overall(r) # "STALE_RESULT"
    BY VerdictType DEF Overalls
  <2>4. Verdicts(b) = {}
    BY <2>2 DEF JudgedOnce
  <2>5. Verdicts(b)' = {n} /\ \A c \in Ids \ {b} : Verdicts(c)' = Verdicts(c)
    BY <2>1, <2>3, <2>4 DEF Verdicts
  <2> QED
    BY <2>2, <2>5 DEF JudgedOnce
<1>4. ASSUME NEW v \in 1..plan, NEW b \in Ids, NEW r \in Results, RecordStaleResult(v, b, r)
      PROVE  JudgedOnce'
  <2> DEFINE n == Len(attempts) + 1
  <2>1. /\ DOMAIN attempts' = DOMAIN attempts \cup {n}
        /\ \A i \in DOMAIN attempts : attempts'[i] = attempts[i]
        /\ attempts'[n] = [binding |-> b, result |-> r, status |-> "STALE_RESULT"]
        /\ UNCHANGED bindings
    BY <1>4, StaleEffect
  <2> HIDE DEF n
  <2>2. Ids' = Ids /\ \A c : Verdicts(c)' = Verdicts(c)
    BY <2>1 DEF Verdicts, Ids
  <2> QED
    BY <2>1, <2>2 DEF JudgedOnce
<1> QED
  BY <1>1, <1>2, <1>3, <1>4, ListFrame

-----------------------------------------------------------------------------
(* Task statuses *)

LEMMA StatusAfterVerdict ==
  ASSUME NEW r
  PROVE  /\ StatusAfter(r) = "completed" => Overall(r) = "PASS"
         /\ StatusAfter(r) = "review" => Overall(r) \in {"REVIEW_REQUIRED", "UNKNOWN"}
<1>1. Overall(r) \in Overalls
  BY VerdictType
<1>2. CASE Overall(r) = "FAIL"
  <2>1. Overall(r) # "PASS" /\ Overall(r) \notin {"REVIEW_REQUIRED", "UNKNOWN"}
    BY <1>2
  <2>2. StatusAfter(r) = "blocked" \/ StatusAfter(r) = "active"
    BY <2>1, <1>2, Zenon DEF StatusAfter
  <2> QED
    BY <2>2
<1>3. CASE Overall(r) = "PASS"
  <2>1. Overall(r) # "FAIL" /\ Overall(r) \notin {"REVIEW_REQUIRED", "UNKNOWN"}
    BY <1>3
  <2>2. StatusAfter(r) = "completed"
    BY <2>1, <1>3, Zenon DEF StatusAfter
  <2> QED
    BY <2>2, <1>3
<1>4. CASE Overall(r) \in {"REVIEW_REQUIRED", "UNKNOWN"}
  <2>1. Overall(r) # "FAIL" /\ Overall(r) # "PASS"
    BY <1>4
  <2>2. StatusAfter(r) = "review"
    BY <2>1, <1>4, Zenon DEF StatusAfter
  <2> QED
    BY <2>2, <1>4
<1> QED
  BY <1>1, <1>2, <1>3, <1>4 DEF Overalls

(* Four operations write task_statuses. *)
LEMMA TaskFrame ==
  ASSUME [Next]_vars
  PROVE  \/ UNCHANGED taskStatus
         \/ \E a \in Actors : PersistBinding(a)
         \/ \E a \in Actors, v \in 1..plan, b \in Ids, r \in Results :
               RecordVerdict(a, v, b, r)
         \/ \E a \in Actors, v \in 1..plan, t \in Tasks : ApproveReview(a, v, t)
         \/ \E a \in Actors, t \in Tasks : RequestChanges(a, t)
<1> USE DEF document, cursor
<1>1. ASSUME NEW a \in Actors, Operation(a)
      PROVE  \/ UNCHANGED taskStatus
             \/ PersistBinding(a)
             \/ \E v \in 1..plan, b \in Ids, r \in Results : RecordVerdict(a, v, b, r)
             \/ \E v \in 1..plan, t \in Tasks : ApproveReview(a, v, t)
             \/ \E t \in Tasks : RequestChanges(a, t)
  BY <1>1 DEF Operation, NewBinding, ReplayResult, RestoreCurrentBinding,
     Reconcile, SetPointer, BeginMilestoneAuto, CommitMilestoneAuto,
     EnsureAutoNextLaunch, PreviewUpdate, ApplyUpdate, Abandon
<1>2. StopMilestoneAuto => UNCHANGED taskStatus
  BY DEF StopMilestoneAuto
<1>3. \A g, s : SetPrerequisiteStatus(g, s) => UNCHANGED taskStatus
  BY DEF SetPrerequisiteStatus
<1>4. UNCHANGED vars => UNCHANGED taskStatus
  BY DEF vars
<1>5. \A v, b, r : RecordStaleResult(v, b, r) => UNCHANGED taskStatus
  BY DEF RecordStaleResult
<1> QED
  BY <1>1, <1>2, <1>3, <1>4, <1>5 DEF Next

(* A completed task stays completed; it gets there by the PASS of an       *)
(* active binding or out of review.                                        *)
LEMMA CompletionStepLemma ==
  ASSUME TypeOK, GenerationsIncrease, [Next]_vars
  PROVE  \A t \in Tasks : CompletionStep(t)
<1>t. taskStatus \in [Tasks -> TaskStatuses]
  BY DEF TypeOK
<1>1. CASE UNCHANGED taskStatus
  BY <1>1 DEF CompletionStep
<1>2. ASSUME NEW a \in Actors, PersistBinding(a)
      PROVE  \A t \in Tasks : CompletionStep(t)
  BY <1>2, <1>t, PersistEffect DEF PersistBinding, CompletionStep
<1>3. ASSUME NEW a \in Actors, NEW v \in 1..plan, NEW b \in Ids, NEW r \in Results,
             RecordVerdict(a, v, b, r)
      PROVE  \A t \in Tasks : CompletionStep(t)
  <2>1. /\ taskStatus' = [taskStatus EXCEPT ![bindings[b].task] = StatusAfter(r)]
        /\ taskStatus[bindings[b].task] = "completed" => StatusAfter(r) = "completed"
    BY <1>3, <1>t, IdsAreIndices DEF RecordVerdict, NoDowngrade, Binding
  <2>2. /\ Active(b) /\ currentBinding \in {0, b}
        /\ StatusAfter(r) = "completed" => bindings'[b].status = "ACCEPTED"
    BY <1>3, VerdictEffect, StatusAfterVerdict
  <2> QED
    BY <1>t, <2>1, <2>2 DEF CompletionStep
<1>4. ASSUME NEW a \in Actors, NEW v \in 1..plan, NEW u \in Tasks, ApproveReview(a, v, u)
      PROVE  \A t \in Tasks : CompletionStep(t)
  BY <1>4, <1>t DEF ApproveReview, Reviewable, CompletionStep
<1>5. ASSUME NEW a \in Actors, NEW u \in Tasks, RequestChanges(a, u)
      PROVE  \A t \in Tasks : CompletionStep(t)
  BY <1>5, <1>t DEF RequestChanges, CompletionStep
<1> QED
  BY <1>1, <1>2, <1>3, <1>4, <1>5, TaskFrame

(* The judged attempts of a task only grow, and only by a verdict. *)
LEMMA JudgedFrame ==
  ASSUME TypeOK, GenerationsIncrease, AttemptsAreVerdicts, [Next]_vars,
         ~ \E a \in Actors, v \in 1..plan, b \in Ids, r \in Results : RecordVerdict(a, v, b, r)
  PROVE  /\ \A t \in Tasks : Judged(t)' = Judged(t)
         /\ \A i \in DOMAIN attempts : attempts'[i] = attempts[i]
<1>1. \A b \in Ids : bindings'[b].task = bindings[b].task
  BY BindingStepLemma DEF BindingStep
<1>2. CASE UNCHANGED attempts
  BY <1>1, <1>2 DEF Judged, AttemptsAreVerdicts
<1>3. \A a : PersistBinding(a) => UNCHANGED attempts
  BY DEF PersistBinding
<1>4. ASSUME NEW v \in 1..plan, NEW b \in Ids, NEW r \in Results, RecordStaleResult(v, b, r)
      PROVE  /\ \A t \in Tasks : Judged(t)' = Judged(t)
             /\ \A i \in DOMAIN attempts : attempts'[i] = attempts[i]
  <2> DEFINE n == Len(attempts) + 1
  <2>1. /\ DOMAIN attempts' = DOMAIN attempts \cup {n}
        /\ \A i \in DOMAIN attempts : attempts'[i] = attempts[i]
        /\ attempts'[n] = [binding |-> b, result |-> r, status |-> "STALE_RESULT"]
    BY <1>4, StaleEffect
  <2> HIDE DEF n
  <2> QED
    BY <1>1, <2>1 DEF Judged, AttemptsAreVerdicts
<1> QED
  BY <1>2, <1>3, <1>4, ListFrame

LEMMA JudgedVerdict ==
  ASSUME TypeOK, GenerationsIncrease, AttemptsAreVerdicts, [Next]_vars,
         NEW a \in Actors, NEW v \in 1..plan, NEW b \in Ids, NEW r \in Results,
         RecordVerdict(a, v, b, r)
  PROVE  LET n == Len(attempts) + 1
         IN /\ \A t \in Tasks : Judged(t)' = IF t = bindings[b].task THEN Judged(t) \cup {n}
                                             ELSE Judged(t)
            /\ n \in Nat /\ \A i \in DOMAIN attempts : attempts'[i] = attempts[i] /\ i < n
            /\ attempts'[n].status = Overall(r)
<1> DEFINE n == Len(attempts) + 1
<1>1. \A c \in Ids : bindings'[c].task = bindings[c].task
  BY BindingStepLemma DEF BindingStep
<1>2. /\ DOMAIN attempts' = DOMAIN attempts \cup {n} /\ n \notin DOMAIN attempts
      /\ \A i \in DOMAIN attempts : attempts'[i] = attempts[i] /\ i < n
      /\ attempts'[n] = [binding |-> b, result |-> r, status |-> Overall(r)]
      /\ n \in Nat
  BY VerdictEffect
<1>3. Overall(r) # "STALE_RESULT"
  BY VerdictType DEF Overalls
<1> HIDE DEF n
<1>4. \A t \in Tasks : Judged(t)' = IF t = bindings[b].task THEN Judged(t) \cup {n}
                                    ELSE Judged(t)
  BY <1>1, <1>2, <1>3 DEF Judged, AttemptsAreVerdicts
<1>5. attempts'[n].status = Overall(r)
  BY <1>2
<1> QED
  BY <1>2, <1>4, <1>5 DEF n

LEMMA ReviewStep ==
  ASSUME TypeOK, GenerationsIncrease, AttemptsAreVerdicts, ReviewIsEarned, [Next]_vars
  PROVE  ReviewIsEarned'
<1>t. taskStatus \in [Tasks -> TaskStatuses]
  BY DEF TypeOK
<1>1. ASSUME NEW a \in Actors, NEW v \in 1..plan, NEW b \in Ids, NEW r \in Results,
             RecordVerdict(a, v, b, r)
      PROVE  ReviewIsEarned'
  <2> DEFINE n == Len(attempts) + 1
             own == bindings[b].task
  <2>1. /\ \A t \in Tasks : Judged(t)' = IF t = own THEN Judged(t) \cup {n} ELSE Judged(t)
        /\ n \in Nat /\ \A i \in DOMAIN attempts : attempts'[i] = attempts[i] /\ i < n
        /\ attempts'[n].status = Overall(r)
    BY <1>1, JudgedVerdict
  <2>2. taskStatus' = [taskStatus EXCEPT ![own] = StatusAfter(r)]
    BY <1>1 DEF RecordVerdict
  <2>3. \A t \in Tasks : \A i \in Judged(t) : i \in DOMAIN attempts
    BY DEF Judged
  <2> HIDE DEF n, own
  <2>4. ASSUME NEW t \in Tasks, taskStatus'[t] = "review", t = own
        PROVE  \E i \in Judged(t)' : /\ \A j \in Judged(t)' : j <= i
                                     /\ attempts'[i].status \in {"REVIEW_REQUIRED", "UNKNOWN"}
    <3>1. Overall(r) \in {"REVIEW_REQUIRED", "UNKNOWN"}
      BY <1>t, <2>2, <2>4, StatusAfterVerdict
    <3>2. n \in Judged(t)' /\ \A j \in Judged(t)' : j <= n
      <4>1. \A i \in DOMAIN attempts : i \in Nat
        BY IdsAreIndices
      <4> QED
        BY <2>1, <2>3, <2>4, <4>1
    <3> QED
      BY <2>1, <3>1, <3>2
  <2>5. ASSUME NEW t \in Tasks, taskStatus'[t] = "review", t # own
        PROVE  \E i \in Judged(t)' : /\ \A j \in Judged(t)' : j <= i
                                     /\ attempts'[i].status \in {"REVIEW_REQUIRED", "UNKNOWN"}
    <3>1. taskStatus[t] = "review" /\ Judged(t)' = Judged(t)
      BY <1>t, <2>1, <2>2, <2>5
    <3> QED
      BY <3>1, <2>1, <2>3 DEF ReviewIsEarned
  <2> QED
    BY <2>4, <2>5 DEF ReviewIsEarned
<1>2. CASE ~ \E a \in Actors, v \in 1..plan, b \in Ids, r \in Results : RecordVerdict(a, v, b, r)
  <2>1. /\ \A t \in Tasks : Judged(t)' = Judged(t)
        /\ \A t \in Tasks : \A i \in Judged(t) : attempts'[i] = attempts[i]
    BY <1>2, JudgedFrame DEF Judged
  <2>2. \A t \in Tasks : taskStatus'[t] = "review" => taskStatus[t] = "review"
    <3>1. \A a \in Actors : PersistBinding(a) =>
              \A t \in Tasks : taskStatus'[t] = "review" => taskStatus[t] = "review"
      BY <1>t, PersistEffect DEF PersistBinding
    <3>2. \A a \in Actors, v \in 1..plan, u \in Tasks : ApproveReview(a, v, u) =>
              \A t \in Tasks : taskStatus'[t] = "review" => taskStatus[t] = "review"
      BY <1>t DEF ApproveReview
    <3>3. \A a \in Actors, u \in Tasks : RequestChanges(a, u) =>
              \A t \in Tasks : taskStatus'[t] = "review" => taskStatus[t] = "review"
      BY <1>t DEF RequestChanges
    <3> QED
      BY <1>2, <3>1, <3>2, <3>3, TaskFrame
  <2> QED
    BY <2>1, <2>2 DEF ReviewIsEarned
<1> QED
  BY <1>1, <1>2

LEMMA CompletedStep ==
  ASSUME TypeOK, GenerationsIncrease, AttemptsAreVerdicts, ReviewIsEarned,
         CompletedIsJustified, [Next]_vars
  PROVE  CompletedIsJustified'
<1>t. taskStatus \in [Tasks -> TaskStatuses]
  BY DEF TypeOK
<1>d. \A t \in Tasks : \A i \in Judged(t) : i \in DOMAIN attempts
  BY DEF Judged
<1>1. ASSUME NEW a \in Actors, NEW v \in 1..plan, NEW b \in Ids, NEW r \in Results,
             RecordVerdict(a, v, b, r)
      PROVE  CompletedIsJustified'
  <2> DEFINE n == Len(attempts) + 1
             own == bindings[b].task
  <2>1. /\ \A t \in Tasks : Judged(t)' = IF t = own THEN Judged(t) \cup {n} ELSE Judged(t)
        /\ \A i \in DOMAIN attempts : attempts'[i] = attempts[i]
        /\ attempts'[n].status = Overall(r)
    BY <1>1, JudgedVerdict
  <2>2. taskStatus' = [taskStatus EXCEPT ![own] = StatusAfter(r)]
    BY <1>1 DEF RecordVerdict
  <2>3. StatusAfter(r) = "completed" => Overall(r) = "PASS"
    BY StatusAfterVerdict
  <2> HIDE DEF n, own
  <2> QED
    BY <1>t, <1>d, <2>1, <2>2, <2>3 DEF CompletedIsJustified
<1>2. ASSUME NEW a \in Actors, NEW v \in 1..plan, NEW u \in Tasks, ApproveReview(a, v, u)
      PROVE  CompletedIsJustified'
  <2>1. UNCHANGED <<attempts, bindings>> /\ taskStatus' = [taskStatus EXCEPT ![u] = "completed"]
    BY <1>2 DEF ApproveReview
  <2>2. taskStatus[u] = "review" /\ LastAcceptance(u) = "REVIEW_REQUIRED"
    BY <1>2 DEF ApproveReview, Reviewable
  <2>3. PICK i \in Judged(u) : /\ \A j \in Judged(u) : j <= i
                               /\ attempts[i].status \in {"REVIEW_REQUIRED", "UNKNOWN"}
    BY <2>2 DEF ReviewIsEarned
  <2>4. \A j \in Judged(u) : j \in Nat
    BY IdsAreIndices DEF Judged
  <2>5. i = CHOOSE k \in Judged(u) : \A j \in Judged(u) : j <= k
    BY <2>3, <2>4
  <2>6. EvaluateAcceptance(attempts[i].result) = "REVIEW_REQUIRED"
    BY <2>2, <2>3, <2>5 DEF LastAcceptance
  <2>7. attempts[i].status = Overall(attempts[i].result)
    BY <2>3 DEF AttemptsAreVerdicts, Judged
  <2>8. attempts[i].status = "REVIEW_REQUIRED"
    BY <2>3, <2>6, <2>7 DEF Overall
  <2>9. \A t \in Tasks : Judged(t)' = Judged(t)
    BY <2>1 DEF Judged
  <2> QED
    BY <1>t, <2>1, <2>3, <2>8, <2>9 DEF CompletedIsJustified
<1>3. CASE /\ ~ \E a \in Actors, v \in 1..plan, b \in Ids, r \in Results :
                   RecordVerdict(a, v, b, r)
           /\ ~ \E a \in Actors, v \in 1..plan, u \in Tasks : ApproveReview(a, v, u)
  <2>1. /\ \A t \in Tasks : Judged(t)' = Judged(t)
        /\ \A t \in Tasks : \A i \in Judged(t) : attempts'[i] = attempts[i]
    BY <1>3, <1>d, JudgedFrame
  <2>2. \A t \in Tasks : taskStatus'[t] = "completed" => taskStatus[t] = "completed"
    <3>1. \A a \in Actors : PersistBinding(a) =>
              \A t \in Tasks : taskStatus'[t] = "completed" => taskStatus[t] = "completed"
      BY <1>t, PersistEffect DEF PersistBinding
    <3>2. \A a \in Actors, u \in Tasks : RequestChanges(a, u) =>
              \A t \in Tasks : taskStatus'[t] = "completed" => taskStatus[t] = "completed"
      BY <1>t DEF RequestChanges
    <3> QED
      BY <1>3, <3>1, <3>2, TaskFrame
  <2> QED
    BY <2>1, <2>2 DEF CompletedIsJustified
<1> QED
  BY <1>1, <1>2, <1>3

-----------------------------------------------------------------------------
(* Where plan, run and the calls of begin_milestone_auto change *)

LEMMA PlanFrame ==
  ASSUME [Next]_vars
  PROVE  plan' \in {plan, plan + 1}
<1> USE DEF document, cursor
<1>1. ASSUME NEW a \in Actors, Operation(a)
      PROVE  plan' \in {plan, plan + 1}
  BY <1>1 DEF Operation, NewBinding, PersistBinding, ReplayResult, RecordVerdict, ApproveReview,
     RequestChanges, RestoreCurrentBinding, Reconcile, SetPointer, BeginMilestoneAuto,
     CommitMilestoneAuto, EnsureAutoNextLaunch, PreviewUpdate, ApplyUpdate, Abandon
<1>2. StopMilestoneAuto => UNCHANGED plan
  BY DEF StopMilestoneAuto
<1>3. \A g, s : SetPrerequisiteStatus(g, s) => UNCHANGED plan
  BY DEF SetPrerequisiteStatus
<1>4. UNCHANGED vars => UNCHANGED plan
  BY DEF vars
<1>5. \A v, b, r : RecordStaleResult(v, b, r) => UNCHANGED plan
  BY DEF RecordStaleResult
<1> QED
  BY <1>1, <1>2, <1>3, <1>4, <1>5 DEF Next

(* Five operations write active_milestone_run. *)
LEMMA RunFrame ==
  ASSUME [Next]_vars
  PROVE  \/ UNCHANGED run
         \/ \E a \in Actors, v \in 1..plan, b \in Ids, r \in Results :
               RecordVerdict(a, v, b, r)
         \/ \E a \in Actors, v \in 1..plan, t \in Tasks : ApproveReview(a, v, t)
         \/ \E a \in Actors, t \in Tasks : RequestChanges(a, t)
         \/ \E a \in Actors : CommitMilestoneAuto(a)
         \/ StopMilestoneAuto
<1> USE DEF document, cursor
<1>1. ASSUME NEW a \in Actors, Operation(a)
      PROVE  \/ UNCHANGED run
             \/ \E v \in 1..plan, b \in Ids, r \in Results : RecordVerdict(a, v, b, r)
             \/ \E v \in 1..plan, t \in Tasks : ApproveReview(a, v, t)
             \/ \E t \in Tasks : RequestChanges(a, t)
             \/ CommitMilestoneAuto(a)
  BY <1>1 DEF Operation, NewBinding, PersistBinding, ReplayResult, RestoreCurrentBinding,
     Reconcile, SetPointer, BeginMilestoneAuto, EnsureAutoNextLaunch, PreviewUpdate,
     ApplyUpdate, Abandon
<1>2. \A g, s : SetPrerequisiteStatus(g, s) => UNCHANGED run
  BY DEF SetPrerequisiteStatus
<1>3. UNCHANGED vars => UNCHANGED run
  BY DEF vars
<1>4. \A v, b, r : RecordStaleResult(v, b, r) => UNCHANGED run
  BY DEF RecordStaleResult
<1> QED
  BY <1>1, <1>2, <1>3, <1>4 DEF Next

(* A call is at "begin" because it was, or because it just read progress.  *)
LEMMA BegunFrame ==
  ASSUME TypeOK, [Next]_vars, NEW c \in Actors, call'[c].step = "begin"
  PROVE  \/ call'[c] = call[c]
         \/ \E v \in 1..plan, m \in Milestones : BeginMilestoneAuto(c, v, m)
<1> USE DEF document, cursor
<1>1. ASSUME NEW a \in Actors, Operation(a)
      PROVE  \/ call'[c] = call[c]
             \/ \E v \in 1..plan, m \in Milestones : BeginMilestoneAuto(c, v, m)
  <2>1. ASSUME NEW d, Goto(a, d), d.step # "begin"
        PROVE  call'[c] = call[c]
    BY <2>1 DEF Goto, TypeOK
  <2>2. ASSUME Return(a) \/ ThenReconcile(a)
        PROVE  call'[c] = call[c]
    BY <2>1, <2>2 DEF Return, ThenReconcile, IdleCall
  <2>3. ASSUME NEW t \in TaskOrNone, NewBinding(a, t)
        PROVE  call'[c] = call[c]
    BY <2>1, <2>3 DEF NewBinding
  <2>4. ASSUME Reconcile(a)
        PROVE  call'[c] = call[c]
    BY <2>1, <2>2, <2>4 DEF Reconcile
  <2>5. ASSUME NEW v \in 1..plan, NEW m \in Milestones, BeginMilestoneAuto(a, v, m)
        PROVE  call'[c] = call[c] \/ BeginMilestoneAuto(c, v, m)
    <3>1. CASE a = c
      BY <2>5, <3>1
    <3>2. CASE a # c
      BY <2>5, <3>2 DEF BeginMilestoneAuto, Goto, TypeOK
    <3> QED
      BY <3>1, <3>2
  <2>6. ASSUME NEW b \in Ids, EnsureAutoNextLaunch(a, b)
        PROVE  call'[c] = call[c]
    BY <2>1, <2>6 DEF EnsureAutoNextLaunch
  <2>7. ASSUME PreviewUpdate(a)
        PROVE  call'[c] = call[c]
    BY <2>1, <2>7 DEF PreviewUpdate
  <2>8. \/ \E t \in TaskOrNone : NewBinding(a, t)
        \/ Reconcile(a)
        \/ \E v \in 1..plan, m \in Milestones : BeginMilestoneAuto(a, v, m)
        \/ \E b \in Ids : EnsureAutoNextLaunch(a, b)
        \/ PreviewUpdate(a)
        \/ Return(a) \/ ThenReconcile(a)
    BY <1>1 DEF Operation, PersistBinding, ReplayResult, RecordVerdict, ApproveReview,
       RequestChanges, SetPointer, CommitMilestoneAuto, RestoreCurrentBinding, ApplyUpdate,
       Abandon
  <2> QED
    BY <2>2, <2>3, <2>4, <2>5, <2>6, <2>7, <2>8
<1>2. StopMilestoneAuto => UNCHANGED call
  BY DEF StopMilestoneAuto
<1>3. \A g, s : SetPrerequisiteStatus(g, s) => UNCHANGED call
  BY DEF SetPrerequisiteStatus
<1>4. UNCHANGED vars => UNCHANGED call
  BY DEF vars
<1>5. \A v, b, r : RecordStaleResult(v, b, r) => UNCHANGED call
  BY DEF RecordStaleResult
<1> QED
  BY <1>1, <1>2, <1>3, <1>4, <1>5 DEF Next

-----------------------------------------------------------------------------
(* The milestone run *)

(* What a call of begin_milestone_auto is about to install: a running run, *)
(* or a completed one whose tasks were completed when it read them.        *)
CompletedUnder(n, ts, m) ==
    \E v \in 1..n : \A t \in MilestoneTasks(v, m) : ts[t] = "completed"
BegunRunIsReal ==
    \A a \in Actors : call[a].step = "begin" =>
        /\ call[a].run.status \in {"running", "completed"}
        /\ call[a].run.status = "completed" =>
             CompletedUnder(plan, taskStatus, call[a].run.milestone)

(* Progress says MILESTONE_COMPLETED only if nothing is left to do. *)
LEMMA ProgressCompleted ==
  ASSUME NEW v, NEW ts, NEW gs, NEW m,
         MilestoneAutoProgress(v, ts, gs, m).status = "MILESTONE_COMPLETED"
  PROVE  \A t \in MilestoneTasks(v, m) : ts[t] = "completed"
<1> DEFINE incomplete == {t \in MilestoneTasks(v, m) : ts[t] # "completed"}
<1>1. incomplete = {}
  BY DEF MilestoneAutoProgress
<1> QED
  BY <1>1

(* What was completed under some version of the plan stays so. *)
LEMMA CompletedStays ==
  ASSUME TypeOK, GenerationsIncrease, [Next]_vars, NEW m, CompletedUnder(plan, taskStatus, m)
  PROVE  CompletedUnder(plan', taskStatus', m)
<1>1. PICK v \in 1..plan : \A t \in MilestoneTasks(v, m) : taskStatus[t] = "completed"
  BY DEF CompletedUnder
<1>2. v \in PlanVersions /\ plan \in Nat
  BY <1>1, PlanAssumption DEF TypeOK, PlanVersions
<1>3. MilestoneTasks(v, m) \subseteq Tasks
  BY <1>2, PlanAssumption DEF MilestoneTasks
<1>4. \A t \in MilestoneTasks(v, m) : taskStatus'[t] = "completed"
  BY <1>1, <1>3, CompletionStepLemma DEF CompletionStep
<1>5. plan' \in {plan, plan + 1}
  BY PlanFrame
<1>6. v \in 1..plan'
  BY <1>1, <1>2, <1>5
<1> QED
  BY <1>4, <1>6 DEF CompletedUnder

LEMMA RunAfterResultIsReal ==
  ASSUME NEW v, NEW t, NEW ts, run \in Run
  PROVE  LET new == RunAfterResult(v, t, ts)
         IN /\ new.milestone = run.milestone
            /\ new.status \in {"review", "blocked"} => new.task = t /\ ts[t] = new.status
            /\ new.status = "completed" =>
                 \A u \in MilestoneTasks(v, run.milestone) : ts[u] = "completed"
<1> DEFINE p == MilestoneAutoProgress(v, ts, gates, run.milestone)
           new == RunAfterResult(v, t, ts)
<1>p. p.status = "MILESTONE_COMPLETED" =>
        \A u \in MilestoneTasks(v, run.milestone) : ts[u] = "completed"
  BY ProgressCompleted
<1>1. CASE ts[t] = "completed"
  <2>1. new = [run EXCEPT !.status = IF p.status = "MILESTONE_COMPLETED"
                                       THEN "completed" ELSE "running",
                          !.task = p.next]
    BY <1>1, Zenon DEF RunAfterResult
  <2> HIDE DEF p, new
  <2>2. /\ new.milestone = run.milestone
        /\ new.status = IF p.status = "MILESTONE_COMPLETED" THEN "completed" ELSE "running"
    BY <2>1 DEF Run
  <2> QED
    BY <1>p, <2>2 DEF new
<1>2. CASE ts[t] \in {"review", "blocked"}
  <2>1. new = [run EXCEPT !.status = ts[t], !.task = t]
    BY <1>2 DEF RunAfterResult
  <2> QED
    BY <1>2, <2>1 DEF Run
<1>3. CASE ts[t] \notin {"completed", "review", "blocked"}
  <2>1. new = [run EXCEPT !.status = "running", !.task = t]
    BY <1>3 DEF RunAfterResult
  <2> QED
    BY <2>1 DEF Run
<1> QED
  BY <1>1, <1>2, <1>3

LEMMA BegunRunStep ==
  ASSUME TypeOK, GenerationsIncrease, BegunRunIsReal, [Next]_vars
  PROVE  BegunRunIsReal'
<1> SUFFICES ASSUME NEW a \in Actors, call'[a].step = "begin"
             PROVE  /\ call'[a].run.status \in {"running", "completed"}
                    /\ call'[a].run.status = "completed" =>
                         CompletedUnder(plan', taskStatus', call'[a].run.milestone)
  BY DEF BegunRunIsReal
<1>1. CASE call'[a] = call[a]
  <2>1. /\ call[a].run.status \in {"running", "completed"}
        /\ call[a].run.status = "completed" =>
             CompletedUnder(plan, taskStatus, call[a].run.milestone)
    BY <1>1 DEF BegunRunIsReal
  <2>2. \A m : CompletedUnder(plan, taskStatus, m) => CompletedUnder(plan', taskStatus', m)
    BY CompletedStays
  <2> QED
    BY <1>1, <2>1, <2>2
<1>2. ASSUME NEW v \in 1..plan, NEW m \in Milestones, BeginMilestoneAuto(a, v, m)
      PROVE  /\ call'[a].run.status \in {"running", "completed"}
             /\ call'[a].run.status = "completed" =>
                  CompletedUnder(plan', taskStatus', call'[a].run.milestone)
  <2> DEFINE p == Progress(v, m)
  <2>1. /\ call'[a].run.milestone = m
        /\ call'[a].run.status = IF p.status = "RUNNABLE" THEN "running" ELSE "completed"
        /\ p.status \in {"RUNNABLE", "MILESTONE_COMPLETED"}
    BY <1>2 DEF BeginMilestoneAuto, Goto, TypeOK
  <2>2. ASSUME p.status = "MILESTONE_COMPLETED"
        PROVE  CompletedUnder(plan', taskStatus', m)
    <3>1. \A t \in MilestoneTasks(v, m) : taskStatus[t] = "completed"
      BY <2>2, ProgressCompleted DEF Progress
    <3> QED
      BY <3>1, CompletedStays DEF CompletedUnder
  <2> HIDE DEF p
  <2> QED
    BY <2>1, <2>2
<1> QED
  BY <1>1, <1>2, BegunFrame

LEMMA RunPauseStep ==
  ASSUME TypeOK, GenerationsIncrease, BegunRunIsReal, RunPauseIsReal, [Next]_vars
  PROVE  RunPauseIsReal'
<1>t. taskStatus \in [Tasks -> TaskStatuses]
  BY DEF TypeOK
<1>1. ASSUME NEW a \in Actors, NEW v \in 1..plan, NEW b \in Ids, NEW r \in Results,
             RecordVerdict(a, v, b, r)
      PROVE  RunPauseIsReal'
  <2> DEFINE t  == bindings[b].task
             ts == [taskStatus EXCEPT ![t] = StatusAfter(r)]
  <2>1. taskStatus' = ts /\ t \in Tasks
    BY <1>1, IdsAreIndices DEF RecordVerdict, Binding
  <2>2. IF run.status \in LiveRun THEN run' = RunAfterResult(v, t, ts) ELSE UNCHANGED run
    BY <1>1 DEF RecordVerdict, CursorAfterResult
  <2> HIDE DEF t, ts
  <2>3. CASE run.status \in LiveRun
    <3>1. run \in Run
      BY <2>3, RunShape DEF LiveRun
    <3> QED
      BY <2>1, <2>2, <2>3, <3>1, RunAfterResultIsReal DEF RunPauseIsReal
  <2>4. CASE run.status \notin LiveRun
    BY <2>2, <2>4 DEF LiveRun, RunPauseIsReal
  <2> QED
    BY <2>3, <2>4
<1>2. ASSUME NEW a \in Actors, NEW v \in 1..plan, NEW t \in Tasks, ApproveReview(a, v, t)
      PROVE  RunPauseIsReal'
  <2>1. CASE run.status \in LiveRun
    <3>1. run \in Run
      BY <2>1, RunShape DEF LiveRun
    <3>2. run'.status \in {"completed", "running"}
      BY <1>2, <2>1, <3>1 DEF ApproveReview, Run
    <3> QED
      BY <3>2 DEF RunPauseIsReal
  <2>2. CASE run.status \notin LiveRun
    BY <1>2, <2>2 DEF ApproveReview, LiveRun, RunPauseIsReal
  <2> QED
    BY <2>1, <2>2
<1>3. ASSUME NEW a \in Actors, NEW t \in Tasks, RequestChanges(a, t)
      PROVE  RunPauseIsReal'
  <2>1. run' = NoRun \/ run'.status = "running"
    BY <1>3 DEF RequestChanges, RunAfterChanges, TypeOK, Run
  <2> QED
    BY <2>1 DEF RunPauseIsReal, NoRun
<1>4. ASSUME NEW a \in Actors, CommitMilestoneAuto(a)
      PROVE  RunPauseIsReal'
  BY <1>4 DEF CommitMilestoneAuto, At, BegunRunIsReal, RunPauseIsReal
<1>5. CASE StopMilestoneAuto
  <2>1. run'.status = "stopped"
    BY <1>5 DEF StopMilestoneAuto, TypeOK, Run
  <2> QED
    BY <2>1 DEF RunPauseIsReal
<1>6. ASSUME NEW a \in Actors, PersistBinding(a)
      PROVE  RunPauseIsReal'
  <2>1. /\ UNCHANGED run
        /\ \A t \in Tasks : taskStatus[t] # "pending" => taskStatus'[t] = taskStatus[t]
    BY <1>6, <1>t DEF PersistBinding
  <2> QED
    BY <2>1 DEF RunPauseIsReal
<1>7. CASE UNCHANGED <<run, taskStatus>>
  BY <1>7 DEF RunPauseIsReal
<1> QED
  BY <1>1, <1>2, <1>3, <1>4, <1>5, <1>6, <1>7, RunFrame, TaskFrame

LEMMA RunCompletionStep ==
  ASSUME TypeOK, GenerationsIncrease, BegunRunIsReal, RunCompletionIsReal, [Next]_vars
  PROVE  RunCompletionIsReal'
<1> SUFFICES ASSUME run'.status = "completed"
             PROVE  CompletedUnder(plan', taskStatus', run'.milestone)
  BY DEF RunCompletionIsReal, CompletedUnder
<1>s. \A m : CompletedUnder(plan, taskStatus, m) => CompletedUnder(plan', taskStatus', m)
  BY CompletedStays
<1>p. plan' \in {plan, plan + 1} /\ plan \in Nat
  BY PlanFrame, PlanAssumption DEF TypeOK, PlanVersions
<1>0. CASE UNCHANGED run
  BY <1>0, <1>s DEF RunCompletionIsReal, CompletedUnder
<1>1. ASSUME NEW v \in 1..plan, NEW ts, taskStatus' = ts, run \in Run,
             run'.milestone = run.milestone,
             \A u \in MilestoneTasks(v, run.milestone) : ts[u] = "completed"
      PROVE  CompletedUnder(plan', taskStatus', run'.milestone)
  <2>1. v \in 1..plan'
    BY <1>p
  <2> QED
    BY <1>1, <2>1 DEF CompletedUnder
<1>2. ASSUME NEW a \in Actors, NEW v \in 1..plan, NEW b \in Ids, NEW r \in Results,
             RecordVerdict(a, v, b, r)
      PROVE  CompletedUnder(plan', taskStatus', run'.milestone)
  <2> DEFINE t  == bindings[b].task
             ts == [taskStatus EXCEPT ![t] = StatusAfter(r)]
  <2>1. taskStatus' = ts
    BY <1>2 DEF RecordVerdict
  <2>2. IF run.status \in LiveRun THEN run' = RunAfterResult(v, t, ts) ELSE UNCHANGED run
    BY <1>2 DEF RecordVerdict, CursorAfterResult
  <2> HIDE DEF t, ts
  <2>3. CASE run.status \in LiveRun
    <3>1. run \in Run
      BY <2>3, RunShape DEF LiveRun
    <3>2. /\ run'.milestone = run.milestone
          /\ \A u \in MilestoneTasks(v, run.milestone) : ts[u] = "completed"
      BY <2>2, <2>3, <3>1, RunAfterResultIsReal
    <3> QED
      BY <1>1, <2>1, <3>1, <3>2
  <2> QED
    BY <1>0, <2>2, <2>3
<1>3. ASSUME NEW a \in Actors, NEW v \in 1..plan, NEW t \in Tasks, ApproveReview(a, v, t)
      PROVE  CompletedUnder(plan', taskStatus', run'.milestone)
  <2> DEFINE ts == [taskStatus EXCEPT ![t] = "completed"]
             p == MilestoneAutoProgress(v, ts, gates, run.milestone)
  <2>1. taskStatus' = ts
    BY <1>3 DEF ApproveReview
  <2>2. CASE run.status \in LiveRun
    <3>1. run \in Run
      BY <2>2, RunShape DEF LiveRun
    <3>2. run' = [run EXCEPT !.task = p.next, !.status =
                    IF p.status = "MILESTONE_COMPLETED" THEN "completed" ELSE "running"]
      BY <1>3, <2>2 DEF ApproveReview
    <3>  HIDE DEF ts
    <3>3. p.status = "MILESTONE_COMPLETED" =>
            \A u \in MilestoneTasks(v, run.milestone) : ts[u] = "completed"
      BY ProgressCompleted
    <3> HIDE DEF p
    <3>4. run'.milestone = run.milestone /\ p.status = "MILESTONE_COMPLETED"
      BY <3>1, <3>2 DEF Run
    <3> QED
      BY <1>1, <2>1, <3>1, <3>3, <3>4
  <2>3. CASE run.status \notin LiveRun
    BY <1>0, <1>3, <2>3 DEF ApproveReview
  <2> QED
    BY <2>2, <2>3
<1>4. ASSUME NEW a \in Actors, NEW t \in Tasks, RequestChanges(a, t)
      PROVE  FALSE
  BY <1>4 DEF RequestChanges, RunAfterChanges, TypeOK, Run, NoRun
<1>5. ASSUME NEW a \in Actors, CommitMilestoneAuto(a)
      PROVE  CompletedUnder(plan', taskStatus', run'.milestone)
  BY <1>5, <1>s DEF CommitMilestoneAuto, At, BegunRunIsReal
<1>6. CASE StopMilestoneAuto
  BY <1>6 DEF StopMilestoneAuto, TypeOK, Run
<1> QED
  BY <1>0, <1>2, <1>3, <1>4, <1>5, <1>6, RunFrame

-----------------------------------------------------------------------------
(* Theorems *)

(* The inductive invariant. *)
IInv ==
    /\ TypeOK /\ GenerationsIncrease /\ MaxOneActive /\ CurrentBindingActive
    /\ AttemptsAreVerdicts /\ JudgedOnce /\ ReviewIsEarned /\ CompletedIsJustified
    /\ BegunRunIsReal /\ RunPauseIsReal /\ RunCompletionIsReal

LEMMA InitIInv == Init => IInv
<1> SUFFICES ASSUME Init PROVE IInv
  OBVIOUS
<1>1. TypeOK
  BY PlanAssumption DEF Init, TypeOK, PlanVersions, GateStatuses, TaskStatuses, TaskOrNone,
     Call
<1>2. Ids = {} /\ DOMAIN attempts = {}
  BY DEF Init, Ids
<1>3. \A t \in Tasks : taskStatus[t] = "pending"
  BY DEF Init
<1>4. GenerationsIncrease /\ MaxOneActive /\ AttemptsAreVerdicts /\ JudgedOnce
  BY <1>2 DEF GenerationsIncrease, MaxOneActive, TaskBindings, AttemptsAreVerdicts, JudgedOnce
<1>5. CurrentBindingActive
  BY DEF Init, CurrentBindingActive
<1>6. ReviewIsEarned /\ CompletedIsJustified
  BY <1>3 DEF ReviewIsEarned, CompletedIsJustified
<1>7. BegunRunIsReal /\ RunPauseIsReal /\ RunCompletionIsReal
  BY DEF Init, BegunRunIsReal, RunPauseIsReal, RunCompletionIsReal, NoRun, IdleCall
<1> QED
  BY <1>1, <1>4, <1>5, <1>6, <1>7 DEF IInv

LEMMA NextIInv == IInv /\ [Next]_vars => IInv'
  BY TypeStep, GenerationsStep, MaxOneActiveStep, CurrentBindingStep, AttemptsStep,
     JudgedOnceStep, ReviewStep, CompletedStep, BegunRunStep, RunPauseStep,
     RunCompletionStep DEF IInv

(* For every plan, every set of processes and every list of results, in    *)
(* every interleaving of their steps, the invariants of the execution      *)
(* document hold.                                                          *)
THEOREM Invariance == Spec => []IInv
<1>1. Init => IInv
  BY InitIInv
<1>2. IInv /\ [Next]_vars => IInv'
  BY NextIInv
<1> QED
  BY <1>1, <1>2, PTL DEF Spec

(* The execution document always has the shape _execution_document checks. *)
THEOREM TypeCorrect == Spec => []TypeOK
<1>1. IInv => TypeOK
  BY DEF IInv
<1> QED
  BY <1>1, Invariance, PTL

(* I1: a task of a plan version never has two ACTIVE bindings, whatever    *)
(* the interleaving of new_binding, persist_binding and record_result.     *)
THEOREM OneActiveBinding == Spec => []MaxOneActive
<1>1. IInv => MaxOneActive
  BY DEF IInv
<1> QED
  BY <1>1, Invariance, PTL

(* I2: the generations of a task's bindings strictly increase, although    *)
(* they are computed outside the transaction that appends the binding.     *)
THEOREM GenerationsGrow == Spec => []GenerationsIncrease
<1>1. IInv => GenerationsIncrease
  BY DEF IInv
<1> QED
  BY <1>1, Invariance, PTL

(* The cursor never points at a binding whose results would be refused.    *)
THEOREM CursorIsLive == Spec => []CurrentBindingActive
<1>1. IInv => CurrentBindingActive
  BY DEF IInv
<1> QED
  BY <1>1, Invariance, PTL

(* record_result judges a binding at most once, and a terminal status      *)
(* always comes with the attempt that explains it.                         *)
THEOREM OneVerdict == Spec => []JudgedOnce
<1>1. IInv => JudgedOnce
  BY DEF IInv
<1> QED
  BY <1>1, Invariance, PTL

(* No task is completed without a passing attempt or one whose only open   *)
(* point was the review that approve_review closes.                        *)
THEOREM CompletionNeedsEvidence == Spec => []CompletedIsJustified
<1>1. IInv => CompletedIsJustified
  BY DEF IInv
<1> QED
  BY <1>1, Invariance, PTL

(* No step removes, renames or revives a binding. *)
THEOREM BindingsOnlyEnd == Spec => LegalTransitions
<1>1. IInv /\ [Next]_vars => [\A b \in Ids : BindingStep(b)]_vars
  BY BindingStepLemma DEF IInv
<1> QED
  BY <1>1, Invariance, PTL DEF Spec, LegalTransitions

(* A task is completed by the PASS of an undisplaced active binding or out *)
(* of review, and stays completed.                                         *)
THEOREM CompletionOwned == Spec => CompletionIsOwned
<1>1. IInv /\ [Next]_vars => [\A t \in Tasks : CompletionStep(t)]_vars
  BY CompletionStepLemma DEF IInv
<1> QED
  BY <1>1, Invariance, PTL DEF Spec, CompletionIsOwned

(* A milestone run in review or blocked stands on a task with that status, *)
(* whatever results, reviews, retries and begin_milestone_auto calls of    *)
(* other processes fall between.                                           *)
THEOREM PausesAreReal == Spec => []RunPauseIsReal
<1>1. IInv => RunPauseIsReal
  BY DEF IInv
<1> QED
  BY <1>1, Invariance, PTL

(* A milestone run is completed only when the milestone is, in a plan      *)
(* version the project has had, also when begin_milestone_auto installs    *)
(* what it computed from an old read.                                      *)
THEOREM CompletionsAreReal == Spec => []RunCompletionIsReal
<1>1. IInv => RunCompletionIsReal
  BY DEF IInv
<1> QED
  BY <1>1, Invariance, PTL
=============================================================================
