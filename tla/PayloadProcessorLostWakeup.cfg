SPECIFICATION FairSpec
CONSTANTS
    Producers = {io1}
    MaxPayloads = 2
PROPERTIES
    EveryPayloadProcessed
CHECK_DEADLOCK FALSE
