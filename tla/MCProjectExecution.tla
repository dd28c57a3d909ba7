------------------------ MODULE MCProjectExecution ------------------------
(* Small instances of ProjectExecution: two tasks of one milestone, the    *)
(* second behind the first and behind a gate, and a second plan version    *)
(* that drops the second task.                                             *)
EXTENDS ProjectExecution, TLC

CONSTANTS t1, t2, g1, m1, a1, a2

MCTasks == {t1, t2}
MCPlanTasks == <<{t1, t2}, {t1}>>
MCPlanCurrent == <<t1, NoTask>>
MCMilestoneOf == [t \in {t1, t2} |-> m1]
MCTaskDeps == (t1 :> {}) @@ (t2 :> {t1})
MCGateDeps == (t1 :> {}) @@ (t2 :> {g1})
MCRank == (t1 :> 1) @@ (t2 :> 2)

Submission(exec, valid, code, match, criteria) ==
    [exec |-> exec, valid |-> valid, code |-> code, match |-> match,
     criteria |-> criteria]
Pass == Submission(TRUE, TRUE, FALSE, TRUE, {<<"DETERMINISTIC", "PASS">>})
NeedsReview == Submission(TRUE, TRUE, FALSE, TRUE, {<<"MANUAL_REVIEW", "ABSENT">>})
Unclear == Submission(TRUE, TRUE, FALSE, TRUE, {<<"UNKNOWN", "ABSENT">>})
Broken == Submission(TRUE, FALSE, TRUE, TRUE, {})
Crashed == Submission(FALSE, TRUE, FALSE, TRUE, {<<"MANUAL_REVIEW", "ABSENT">>})
Foreign == Submission(TRUE, TRUE, FALSE, FALSE, {})

CoreResults == {Pass, NeedsReview, Unclear, Broken}
AllResults == {Pass, NeedsReview, Unclear, Broken, Crashed, Foreign}

Symmetry == Permutations(Actors)
=============================================================================
