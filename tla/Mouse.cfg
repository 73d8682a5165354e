SPECIFICATION MouseSpec
CONSTANTS
    MaxHeld = 3
    Sizes <- MCSizes
    ACCELERATION_THRESHOLD_MS = 3
    Delays = {0, 1, 2, 5}
    Vectors = {1, 3}
    MaxMoves = 6
INVARIANTS
    ButtonsLookRight
    GesturesEnd
    BorderFits
    WindowKeepsItsLength
    ReleaseIsOfRecent
