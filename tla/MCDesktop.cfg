CONSTANTS
    MaxLength = 4
    IntMax = 127
    Unit = 64
    Regions <- MCRegions
    Shapes <- MCShapes
    MaxWindows = 1
    MaxPresses = 4
SPECIFICATION Spec
INVARIANTS
    ClicksArePresses
    DragHeld
    TitleOnScreen
    ResultShown
