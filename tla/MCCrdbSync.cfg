\* Two instances, three keys (k3 cannot be sent), two changes, any two troubles.
SPECIFICATION FairSpec
CONSTANTS
    k1 = k1
    k2 = k2
    k3 = k3
    s1 = s1
    s2 = s2
    Keys <- ThreeKeys
    Unsendable <- OneUnsendable
    Syncers <- TwoSyncers
    BatchLimit = 2
    MaxRows = 2
    MaxTroubles = 2
INVARIANTS TypeOK NewestAccounted NewestReflected DeadLettersHaveCauses
PROPERTY EventuallyDrained
