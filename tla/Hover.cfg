SPECIFICATION HoverSpec
CONSTANTS
    Way = 256
    Half = 64
    Duration = 4
    FrameTimes = {1, 2}
    MaxHovers = 5
INVARIANTS
    DeepestShows
    WheelFollowsCursor
PROPERTIES
    LooksNeverJump
