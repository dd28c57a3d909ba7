\* One controller that may die anywhere, and nobody else.
CONSTANTS
    Controllers = {k1}
    Clients = {}
    Packets = {c1}
    EpochOf <- FirstEpoch
    MaxGeneration = 1
    MaxEpoch = 1
    None = None
SPECIFICATION Spec
INVARIANTS ResumeIsPossible
CHECK_DEADLOCK FALSE
