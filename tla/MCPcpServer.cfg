SPECIFICATION FairSpec
CONSTANTS
    ch1 = ch1
    ch2 = ch2
    s1 = s1
    s2 = s2
    s3 = s3
    Nothing = Nothing
    Channel = {ch1, ch2}
    Session = {s1, s2, s3}
    MaxSessions = 2
    MaxChannelsPerSession = 1
    MaxRate = 2
    QueueMax = 1
    ChunkMax = 2
    MaxAtoms = 4
    MaxClock = 1
CHECK_DEADLOCK FALSE
INVARIANT
    HoldingsSound
PROPERTIES
    InfoKept
    ShutdownEndsAll
    ImplementsRegistry
