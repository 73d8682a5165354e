SPECIFICATION PanelSpec
CONSTANTS
    ContentSize = 5120
    CanvasSize = 2048
    Tick = 1024
    Ratios = {1, 2}
    Thickness = 4
    Duration = 4
    FrameTimes = {1, 2}
    MaxInputs = 5
    Unit = 408
    Widths = {8, 12}
    Heights = {8, 12}
    Sides = {"Left", "Top", "Right", "Bottom"}
    PanelThickness = 204
    ScrollerPx = 1
    PaddingPx = 1
INVARIANTS
    
    PanelEndsWithinAFrame
    SpaceIsDivided
    HoveredWhereDrawn

    
