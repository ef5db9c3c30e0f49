SPECIFICATION Spec
CONSTANTS
    pa = pa
    pb = pb
    ch1 = ch1
    s1 = s1
    bridge = bridge
    republish = republish
    NoPersona = NoPersona
    NoChannel = NoChannel
    Nothing = Nothing
    Persona = {pa, pb}
    Usable = {pa, pb}
    Channel = {ch1}
    Session = {s1}
    Bridge = bridge
    Republisher = {republish}
    MaxChannelsPerSession = 1
    QueueMax = 2
    MaxAnnounce = 2
    MaxEnd = 2
    MaxAssign = 0
    MaxClock = 1
    MaxLast = 1
SYMMETRY Personas
CONSTRAINT SomeUnraced
CHECK_DEADLOCK FALSE
INVARIANTS
    LockSound
    SignsActive
    NoZombie
PROPERTY
    SignerFixed
