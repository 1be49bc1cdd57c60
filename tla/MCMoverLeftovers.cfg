\* A splice moves fewer bytes than asked or fails after its vmsplice, and the
\* writer makes its next call through the same mover.
CONSTANTS
    MaxCalls = 2
    IovShapes <- MCOneSegment
    Paths <- MCSplicePath
    PipeCap = 2
    MaxXfer = 3
    ShortSplice = TRUE
    SpliceCanFail = TRUE
SPECIFICATION Spec
PROPERTY MoverRefinesCopy
