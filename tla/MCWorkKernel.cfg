\* One worker that may stop beside one that does not; one WorkItem, two resources.
CONSTANTS
    p1 = p1
    p2 = p2
    l1 = l1
    l2 = l2
    l3 = l3
    o1 = o1
    o2 = o2
    Workers = {p1, p2}
    Faulty = {p1}
    Works = {k1}
    Resources = {r1, r2}
    Runs = {x1, x2}
    Waits = {y1}
    LeaseIds = {l1, l2, l3}
    Owners = {o1, o2}
    Owner <- PairOwner
    LeaseIdsOf <- PairLeases
    Outcomes = {"SUCCEEDED"}
    MaxFence = 3
    None = None
SPECIFICATION FairSpec
INVARIANTS
    TypeOK
    RunsMatchDisposition
    ClaimFollowsLease
    FenceNamesOwner
    FactsTellState
PROPERTIES
    LifecycleKept
    RunsFinish
CHECK_DEADLOCK FALSE
