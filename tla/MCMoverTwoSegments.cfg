\* An iovec of two segments: update_iov at a segment boundary.
CONSTANTS
    MaxCalls = 1
    IovShapes <- MCTwoSegments
    Paths <- MCSplicePath
    PipeCap = 2
    MaxXfer = 3
    ShortSplice = FALSE
    SpliceCanFail = FALSE
SPECIFICATION Spec
PROPERTY MoverRefinesCopy
