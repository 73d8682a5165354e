SPECIFICATION ClientSpec
CONSTANTS
    HandshakeSize = 3
    HeartbeatSize = 1
    MaxHandshakes = 1
    Sizes = {1, 3}
    MaxPayloads = 2
    MaxBytes = 2
    SizeModulus = 16
    Overlap = TRUE
INVARIANTS
    FramesDoNotMix
CHECK_DEADLOCK FALSE
