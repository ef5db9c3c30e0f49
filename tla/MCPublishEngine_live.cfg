SPECIFICATION FairSpec
CONSTANTS
    pa = pa
    pb = pb
    ch1 = ch1
    s1 = s1
    bridge = bridge
    republish = republish
    NoPersona = NoPersona
    NoChannel = NoChannel
    Nothing = Nothing
    Persona = {pa}
    Usable = {pa}
    Channel = {ch1}
    Session = {s1}
    Bridge = bridge
    Republisher = {republish}
    MaxChannelsPerSession = 1
    QueueMax = 1
    MaxAnnounce = 2
    MaxEnd = 1
    MaxAssign = 1
    MaxClock = 0
    MaxLast = 1
CHECK_DEADLOCK FALSE
INVARIANT
    LockSound
PROPERTIES
    EventuallyPublished
    EventuallyReleased
