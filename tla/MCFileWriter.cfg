\* Two do_write calls, buffers of capacity 8 (a multiple of the 4-byte
\* direct-I/O block, as the sink's MB-sized buffers are of 512): 3 and 5
\* bytes need a pad that fits, 4 none.  All option combinations, every
\* write outcome, splice failures that leave bytes in a 2-byte pipe,
\* writeback and crash, failing fsync and ftruncate; splice and sendfile
\* move what they are asked to.
CONSTANTS
    MaxCalls = 2
    Cap = 8
    Block = 4
    Sizes = {3, 4, 5}
    PipeCap = 2
    MoverShort = FALSE
    FsyncCanFail = TRUE
    FtruncCanFail = TRUE
SPECIFICATION Spec
INVARIANT TypeOK
 
