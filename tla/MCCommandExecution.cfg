SPECIFICATION Spec
CONSTANTS
    a1 = a1
    a2 = a2
    r3 = r3
    Requests = {r1, r2, r3}
    Actions = {a1, a2}
    ActionOf <- MCActionOf
    Unresolved = {a2}
    NoEntry = NoEntry
    MaxRetries = 2
    MaxReaders = 2
    MaxFaults = 1
    MaxCrashes = 1
INVARIANTS TypeOK GrantedIsQueued EffectOnce HollowHaveCauses VerdictsAgree
PROPERTIES EverySettles
CHECK_DEADLOCK FALSE
