SPECIFICATION FairServerSpec
CONSTANTS
    Clients = {c1, c2}
    MaxPerClient = 2
    MaxAcceptErrors = 1
    Producers = {"io"}
    MaxPayloads = 4
INVARIANTS
    TypeOK
    InOrder
    LaterPushWillNotify
    
PROPERTIES
    NotifiedQueueDrains
    WaitingClientAccepted
CHECK_DEADLOCK FALSE
