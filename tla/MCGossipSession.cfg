SPECIFICATION FairSpec
CONSTANTS
    Interval = 3
    Timeout = 6
    TickEvery = 1
    Second = 2
    MaxMsgs = 5
    MaxBytes = 6
    SafeMsgs = 2
    SafeBytes = 3
    Size <- Lengths
    Answer = 2
    Backlog <- BacklogIn
    StoreMax <- StoreIn
    News <- NewsIn
    MaxDelay = 0
    MaxClock = 10
CHECK_DEADLOCK FALSE
INVARIANTS
    HandshakeSound
    KeepaliveSound
    NotBlamed
PROPERTY
    BothEnd
