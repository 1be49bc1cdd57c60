\* Two iterations of the benchmark on every path, buffer sizes 1 to 5 bytes
\* through a 2-byte pipe (up to three vmsplice rounds per call), with every
\* failure the loop tests.  A sendfile moves the whole buffer, as it does
\* for the 1GB size (below the 0x7ffff000 per-call limit).
CONSTANTS
    Iters = 2
    Lens = {1, 2, 3, 4, 5}
    PipeCap = 2
    MaxXfer = 5
    ShortSplice = FALSE
    SpliceCanFail = TRUE
SPECIFICATION Spec
INVARIANT TypeOK
PROPERTY MoverRefinesCopy
