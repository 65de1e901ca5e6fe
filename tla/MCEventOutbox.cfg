\* Two workers and two events, one of them without a provider.
SPECIFICATION Spec
CONSTANTS
    e1 = e1
    e2 = e2
    w1 = w1
    w2 = w2
    Events <- TwoEvents
    Workers <- TwoWorkers
    Unserved = {e2}
    MaxAttempts = 2
    BatchSize = 2
    MaxVersion = 3
    MaxFaults = 1
SYMMETRY Symmetry
INVARIANTS TypeOK ExtraCallsHaveCauses
PROPERTIES SettledStays CompletedByHolder
\* Every event is settled or at the bound of its leases.
CHECK_DEADLOCK FALSE
