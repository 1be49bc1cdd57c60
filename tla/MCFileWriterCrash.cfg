\* The configuration of MCFileWriter.cfg with fsync and ftruncate
\* succeeding, checked for the files a crash leaves.
CONSTANTS
    MaxCalls = 2
    Cap = 8
    Block = 4
    Sizes = {3, 4, 5}
    PipeCap = 2
    MoverShort = FALSE
    FsyncCanFail = FALSE
    FtruncCanFail = FALSE
SPECIFICATION Spec
INVARIANT CrashLeavesCompleteFiles
