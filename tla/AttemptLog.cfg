SPECIFICATION FairSpec
CONSTANTS
    Cap = 5
    Marker = 1
    Sizes <- TwoSizes
    Window = 3
    Captured = 2
    MaxLines = 4
    MaxDrops = 2
INVARIANTS
    TypeOK
    LiveInOrder
    ResumesExactly
    EndIsComplete
PROPERTIES
    StreamEnds
CHECK_DEADLOCK FALSE
