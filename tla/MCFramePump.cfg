SPECIFICATION FairSpec
CONSTANTS
    PayloadLen <- MCPayloadLen
    HeaderLen = 2
    MaxPayload = 3
    MaxInterrupt = 2
CHECK_DEADLOCK FALSE
INVARIANT
    FramesSound
PROPERTY
    AllDelivered

