------------------------------ MODULE MCMover ------------------------------
EXTENDS Mover

\* One segment per call, as file_writer::do_write and iodme-file-write pass
\* (iovcnt = 1); 3 bytes through a 2-byte pipe forces a partial vmsplice.
MCOneSegment == {<<1>>, <<3>>}

\* An iovec of two segments, as the mover's interface allows.
MCTwoSegments == {<<1, 1>>}

MCSplicePath == {"splice"}
=============================================================================
