SPECIFICATION FairSpec
CONSTANTS
    p1 = p1
    Local = Local
    NoSource = NoSource
    Event <- MCEvent
    LocalEvent <- MCLocalEvent
    Peer = {p1}
    FreshnessWindow = 2
    DedupMinRetention = 1
    EventStoreMax = 2
    MaxEventsPerPubkey = 1
    MaxClockSkew = 1
    MaxClock = 4
INVARIANTS
    TypeOK
    StoreSound
    NoRollback
    PastEventSentOnce
    SourceOfLiveEvent
PROPERTIES
    Collected
    ImplementsRegister
