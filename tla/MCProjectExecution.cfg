SPECIFICATION Spec
CONSTANTS
    t1 = t1  t2 = t2  g1 = g1  m1 = m1  a1 = a1  a2 = a2
    NoTask = NoTask
    Tasks <- MCTasks
    Milestones = {m1}
    Gates = {g1}
    MaxPlan = 2
    PlanTasks <- MCPlanTasks
    PlanCurrent <- MCPlanCurrent
    MilestoneOf <- MCMilestoneOf
    TaskDeps <- MCTaskDeps
    GateDeps <- MCGateDeps
    Rank <- MCRank
    Actors = {a1, a2}
    Results <- CoreResults
    DocumentLimit = 2
    MaxBindings = 3
    MaxAttempts = 2
SYMMETRY Symmetry
INVARIANTS TypeOK MaxOneActive GenerationsIncrease CurrentBindingActive
    RunPauseIsReal RunCompletionIsReal JudgedOnce CompletedIsJustified
PROPERTIES LegalTransitions CompletionIsOwned
