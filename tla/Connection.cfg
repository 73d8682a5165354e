SPECIFICATION FairConnectionSpec
CONSTANTS
    Sizes = {0, 2, 5}
    MaxBytes = 2
    SizeModulus = 16
    MaxPayloads = 2
    Overlap = FALSE
INVARIANTS
    TracesAccount
PROPERTIES
    SenderIsThePeer
    ImplementsChannel
    PoppedIsDelivered
CHECK_DEADLOCK FALSE
