\* One do_write call, a buffer of capacity 6 with a 4-byte direct-I/O
\* block: 5 bytes need a pad of 3 and have room for 1, so the call takes
\* the no-room fallback (regular I/O, no pad added).  No syscall fails.
CONSTANTS
    MaxCalls = 1
    Cap = 6
    Block = 4
    Sizes = {5}
    PipeCap = 2
    MoverShort = FALSE
    FsyncCanFail = FALSE
    FtruncCanFail = FALSE
SPECIFICATION Spec
INVARIANT OutcomeMatchesFile
