SPECIFICATION FairSpec
CONSTANTS
    peer = peer
    me = me
    caller = caller
    NoRow = NoRow
    Addr = {peer, me}
    SelfAddr = {me}
    Caller = {caller}
    Listen <- MCListen
    PeerLimit = 1
    MaxFail = 1
    OutboundTarget = 1
    InboundMax = 1
    DemoteThreshold = 1
    BackoffInitial = 1
    BackoffFactor = 2
    BackoffCap = 1
    MaxRequest = 1
INVARIANTS
    WithinLimits
    NoDialInBackoff
PROPERTIES
    SelfNotRedialed
    EvictionSparesProven
    VerifiedByDialing
    KeepsTrying
    RecoveryNoticed
