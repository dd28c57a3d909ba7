\* Three writers that may crash, meet I/O errors and outlive the lease.
SPECIFICATION KeptSpec
CONSTANTS
    w1 = w1  w2 = w2  w3 = w3
    Writers = {w1, w2, w3}
    Faulty = {w1, w2, w3}
    SlowWriters = {w1, w2, w3}
    MaxCalls <- BusyTrio
    AnyRevision = AnyRevision
\* Every call has been made and has returned.
CHECK_DEADLOCK FALSE
INVARIANTS MutualExclusion
PROPERTIES AtomicCommits ExpectedRevisionKept
