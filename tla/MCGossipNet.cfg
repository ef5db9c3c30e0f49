SPECIFICATION FairSpec
CONSTANTS
    n1 = n1
    n2 = n2
    n3 = n3
    Event <- MCUpdate
    Author <- MCAuthor
    Node = {n1, n2, n3}
    Link <- MCTriangle
    Up <- MCLine
    FreshnessWindow = 0
    DedupMinRetention = 1
    EventStoreMax = 2
    MaxEventsPerPubkey = 2
    MaxClock = 1
    MaxDial = 1
    MaxDrop = 1
CHECK_DEADLOCK FALSE
INVARIANTS
    LiveAgreement
    NetworkSound
PROPERTY
    EventuallyQuiescent
