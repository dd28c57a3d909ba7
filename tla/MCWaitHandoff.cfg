\* One worker that does not stop, whose lease expires once; one wait.
CONSTANTS
    p1 = p1
    p2 = p2
    l1 = l1
    l2 = l2
    l3 = l3
    o1 = o1
    o2 = o2
    Workers = {p2}
    Faulty = {}
    Works = {k1}
    Resources = {r1}
    Runs = {x1}
    Waits = {y1}
    LeaseIds = {l2}
    Owners = {o2}
    Owner <- SoleOwner
    LeaseIdsOf <- SoleLeases
    Outcomes = {"SUCCEEDED"}
    MaxFence = 2
    None = None
SPECIFICATION FairSpec
PROPERTIES
    EveryRunFinishes
CHECK_DEADLOCK FALSE
