\* Two controllers and a client on one continuation; a lease can be claimed
\* twice and the scope can be stopped and resumed once.
CONSTANTS
    Controllers = {k1, k2}
    Clients = {n1}
    Packets = {c1}
    EpochOf <- FirstEpoch
    MaxGeneration = 2
    MaxEpoch = 2
    None = None
SPECIFICATION Spec
INVARIANTS TypeOK NoBlindResend ConfirmedIsDelivered AckCompletesLease CompletedIsDelivered OneEffect
SYMMETRY Symmetry
CHECK_DEADLOCK FALSE
