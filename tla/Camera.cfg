SPECIFICATION FairSpec
CONSTANTS
    Axes = {"x"}
    MaxSpeedTime = 2
    FrameTimes = {1, 2}
    Unit = 2
    MaxScale = 4
    Duration = 3
    Vectors <- MCVectors
    MaxInputs = 4
    MapEdge = 8
INVARIANTS
    ScaleInBounds
    DirectionFollowsKeys
    ResetHolds
PROPERTIES
    CameraComesToRest
