\* Four frames through a 2-slot queue, with every allocation, metadata and
\* send failure and every shutdown interleaving.
CONSTANTS
    MaxFrames = 4
    FrameSize = 1
    QCap = 2
    MetaCanFail = TRUE
    None = None
SPECIFICATION Spec
INVARIANT TypeOK
INVARIANT FrameAccounting
PROPERTY ShutdownCompletes
INVARIANT FramesLeaveInOrder
PROPERTY FramesEventuallySent
