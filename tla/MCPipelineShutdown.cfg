CONSTANTS
    Buffers = {b1, b2}
    Conns = {c1, c2}
    Writers <- MCWriters
    Fds = {f1, f2}
    Cap = 16
    Chunks <- MCChunks
    MaxBytes = 16
    QCap = 2
    DirectIOBlock = 4
    DIRECTIO = TRUE
    NoBuffer = NoBuffer
    NoFd = NoFd
    NoConn = NoConn
SPECIFICATION Spec
INVARIANT ShutdownWritesAll
