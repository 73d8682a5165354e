SPECIFICATION FairClientSpec
CONSTANTS
    HandshakeSize = 5
    HeartbeatSize = 0
    MaxHandshakes = 3
    Sizes = {0, 5}
    MaxPayloads = 6
    MaxBytes = 2
    SizeModulus = 16
    Overlap = FALSE
INVARIANTS
    TypeOK
    WireHoldsFrames
    PoppedWasSent
    OffsetBelongsToHead
    NoAssertFailure
    OneTracePerAttempt
PROPERTIES
    HandshakesReachTheWire
CHECK_DEADLOCK FALSE
