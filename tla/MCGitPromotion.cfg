\* A process that prepares one effect and one that reconciles and applies it; one
\* handoff of the lease, and two revisions of the policy.
CONSTANTS
    w = w
    p1 = p1
    p2 = p2
    l1 = l1
    o1 = o1
    k1 = k1
    r1 = r1
    commit = commit
    Workers = {w}
    Faulty = {}
    Works = {k1}
    Resources = {r1}
    Runs = {x1}
    Waits = {}
    LeaseIds = {l1}
    Owners = {o1}
    Owner <- SoleOwner
    LeaseIdsOf <- SoleLeases
    Outcomes = {}
    MaxFence = 2
    None = None
    Preparers = {p1}
    Callers = {p2}
    Target <- SoleTarget
    Expected <- SoleExpected
    Commit <- SoleCommit
    Foreign = {f1}
    Absent = Absent
    Unseen = Unseen
    MaxRevision = 2
SPECIFICATION PromotionSpec
INVARIANTS
    PromotionTypeOK
    AfterIsReal
    BoundaryUnderLease
    LandedAsBound
CHECK_DEADLOCK FALSE
