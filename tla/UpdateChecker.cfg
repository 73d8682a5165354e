SPECIFICATION FairSpec
CONSTANTS
    Manifests <- OneDigit
    Endpoints = 2
INVARIANTS
    
    LaunchedOnce
PROPERTIES
    CheckEnds
CHECK_DEADLOCK FALSE
