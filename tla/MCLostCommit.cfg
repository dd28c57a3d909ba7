SPECIFICATION Spec
CONSTANTS
    w1 = w1  w2 = w2  w3 = w3
    Writers = {w1, w2, w3}
    Faulty = {w1}
    SlowWriters = {}
    MaxCalls <- TrioCalls
    AnyRevision = AnyRevision
\* Every call has been made and has returned.
CHECK_DEADLOCK FALSE
PROPERTIES AtomicCommits
