----------------------------- MODULE FileWriter -----------------------------
(***************************************************************************)
(* file_writer::do_write of src/file-writer.cc as one writer thread makes *)
(* a sequence of calls: the O_DIRECT pad, open, one of the three write    *)
(* paths, fsync, the ftruncate that drops the pad, close, and the unlink  *)
(* of a failed file.  Each call writes a file of its own name.            *)
(*                                                                         *)
(* The file system is seen twice: `live` is what open/write/ftruncate/    *)
(* unlink have made of each file, `durable` is what survives a crash:     *)
(* fsync copies a file's live state into it, and the kernel's own         *)
(* writeback may do so at any moment.  Failures covered: every syscall's  *)
(* error return, short writes, and a machine crash at any point.          *)
(* Contents are abstracted to lengths: the first size bytes of a file are *)
(* the buffer's data, the rest is the zero pad.  The mover the writer     *)
(* thread owns is modelled by its loop over byte counts: its pipe, and    *)
(* what a failed call leaves in it, persist from one call to the next.    *)
(***************************************************************************)
EXTENDS Integers, FiniteSetsExt

CONSTANTS MaxCalls,       \* do_write calls the writer makes
          Cap,            \* buffer capacity (buff_size), in bytes
          Block,          \* directio_block (512 in file-writer.hpp)
          Sizes,          \* b.size of the buffers handed to the writer
          PipeCap,        \* the mover's pipe size (pipe-max-size)
          MoverShort,     \* splice and sendfile may move fewer bytes than asked
          FsyncCanFail,   \* fsync may report an I/O error
          FtruncCanFail   \* ftruncate may fail

ASSUME /\ MaxCalls \in Nat \ {0} /\ Cap \in Nat \ {0} /\ Block \in Nat \ {0}
       /\ Sizes \subseteq 1..Cap /\ PipeCap \in Nat \ {0}
       /\ MoverShort \in BOOLEAN
       /\ FsyncCanFail \in BOOLEAN /\ FtruncCanFail \in BOOLEAN

\* A size whose pad finds no room is at least its pad, so the uint32
\* b.size - pad of the ftruncate does not wrap (true of the sink's sizes).
ASSUME \A s \in Sizes : s % Block # 0 /\ Block - (s % Block) > Cap - s
                          => s >= Block - (s % Block)

VARIABLES opt,      \* the sink's options: [directio, splice, memfd]
          calls,    \* calls started; call `calls` is the current or last one
          pc,       \* "idle", "write", "splice", "sync", "close" or "down"
          size,     \* size[c]: the data bytes of call c's buffer
          b,        \* the buffer of the current call (a Buffer record)
          pad,      \* the pad of the current call (do_write's `pad`)
          w,        \* do_write's `w`
          pend,     \* bytes of the iovec not yet vmspliced (0: iov is NULL)
          n,        \* bytes the last vmsplice put into the pipe
          inpipe,   \* bytes in the mover's pipe
          live,     \* live[c]: [on, len] of call c's output file
          durable,  \* durable[c]: the same file as a crash would leave it
          result    \* result[c]: "none", "ok" or "fail" (do_write's return)

vars == <<opt, calls, pc, size, b, pad, w, pend, n, inpipe, live, durable, result>>

CallIds == 1..MaxCalls

NoFile == [on |-> FALSE, len |-> 0]

B == INSTANCE Buffer WITH NoFd <- -1

(* The buffer the loop pops: allocated at startup with capacity Cap (a     *)
(* memfd under --memfd, whose descriptor is some fd >= 0), filled with s   *)
(* bytes by a NetRx.                                                       *)
Popped(o, s) == [B!Reset EXCEPT !.base = "mapped", !.capacity = Cap, !.size = s,
                                !.fd = IF o.memfd THEN 3 ELSE -1, !.meta = TRUE]

\* The write path: b.fd != -1 (a memfd buffer) gives the mover's sendfile,
\* else the SPLICE flag the mover's vmsplice + splice, otherwise writev.
Path(o, buf) == IF buf.fd # -1 THEN "sendfile"
                ELSE IF o.splice THEN "splice" ELSE "writev"

(* do_write's pad under O_DIRECT: directio_block - size % directio_block,  *)
(* 0 when the size is a multiple.  A mutant that drops the `if (pad)`      *)
(* test comes first.                                                       *)
PadOfNoZeroCheck(o, buf) ==
    IF o.directio THEN Block - (buf.size % Block) ELSE 0

PadOf(o, buf) ==
    IF o.directio /\ buf.size % Block # 0 THEN Block - (buf.size % Block) ELSE 0

(* The bytes memset + put(pad) add: the pad when it fits in room(); when   *)
(* it does not, O_DIRECT is dropped and nothing is added, but `pad` keeps  *)
(* its value.                                                              *)
Padding(o, buf) == IF PadOf(o, buf) > B!Room(buf) THEN 0 ELSE PadOf(o, buf)

Init == /\ opt \in [directio : BOOLEAN, splice : BOOLEAN, memfd : BOOLEAN]
        /\ calls = 0
        /\ pc = "idle"
        /\ size = [c \in CallIds |-> 0]
        /\ b = B!Reset
        /\ pad = 0
        /\ w = TRUE
        /\ pend = 0 /\ n = 0 /\ inpipe = 0
        /\ live = [c \in CallIds |-> NoFile]
        /\ durable = [c \in CallIds |-> NoFile]
        /\ result = [c \in CallIds |-> "none"]

(* The loop popped a buffer of s bytes: pad it, then                        *)
(* open(O_CREAT | O_TRUNC | O_WRONLY [| O_DIRECT]); a failed open returns  *)
(* false at once, with no file made.                                       *)
Start(s) ==
    /\ pc = "idle" /\ calls < MaxCalls
    /\ calls' = calls + 1
    /\ size' = [size EXCEPT ![calls + 1] = s]
    /\ LET b0 == Popped(opt, s)
       IN  /\ pad' = PadOf(opt, b0)
           /\ b' = B!Put(b0, Padding(opt, b0))
           /\ pend' = b0.size + Padding(opt, b0)
    /\ w' = TRUE
    /\ \/ /\ live' = [live EXCEPT ![calls + 1] = [on |-> TRUE, len |-> 0]]
          /\ pc' = "write"
          /\ UNCHANGED result
       \/ /\ result' = [result EXCEPT ![calls + 1] = "fail"]
          /\ pc' = "idle"
          /\ UNCHANGED live
    /\ UNCHANGED <<opt, n, inpipe, durable>>

\* Bytes a write of len bytes may report: all, fewer (ENOSPC, EFBIG, the
\* per-call limit), or -1.
WriteResults(len) == {-1} \cup 1..len

SetLen(k) == live' = [live EXCEPT ![calls].len = k]

Writev ==
    /\ pc = "write" /\ Path(opt, b) = "writev"
    /\ \E r \in WriteResults(b.size) :
          /\ SetLen(IF r = -1 THEN 0 ELSE r)
          /\ w' = (r = b.size)
    /\ pc' = "sync"
    /\ UNCHANGED <<opt, calls, size, b, pad, pend, n, inpipe, durable, result>>

(* mover::do_write(fd, &iov, 1): vmsplice takes as many pending bytes as   *)
(* the pipe has room for (with no room it blocks, and nothing drains this  *)
(* pipe), update_iov advances; a failure returns false.                    *)
Vmsplice ==
    /\ pc = "write" /\ Path(opt, b) = "splice"
    /\ \/ \E m \in 1..Min({pend, PipeCap - inpipe}) :
            /\ n' = m /\ pend' = pend - m /\ inpipe' = inpipe + m
            /\ pc' = "splice"
            /\ UNCHANGED w
       \/ /\ w' = FALSE /\ pc' = "sync"
          /\ UNCHANGED <<pend, n, inpipe>>
    /\ UNCHANGED <<opt, calls, size, b, pad, live, durable, result>>

(* splice(pipe[0], fd, n) moves the pipe's first bytes, n of them or fewer *)
(* under MoverShort; the count is not checked, only r < 0.  The loop ends, *)
(* returning true, once update_iov returned NULL.  A failure returns false *)
(* and leaves the n bytes in the pipe.                                     *)
Splice ==
    /\ pc = "splice"
    /\ \/ \E r \in IF MoverShort THEN 1..n ELSE {n} :
            /\ SetLen(live[calls].len + r)
            /\ inpipe' = inpipe - r
            /\ pc' = IF pend = 0 THEN "sync" ELSE "write"
            /\ UNCHANGED w
       \/ /\ w' = FALSE /\ pc' = "sync"
          /\ UNCHANGED <<live, inpipe>>
    /\ UNCHANGED <<opt, calls, size, b, pad, pend, n, durable, result>>

(* mover::do_write(fd, b.fd, b.size): one sendfile from offset 0; any      *)
(* count >= 0 is success.                                                  *)
Sendfile ==
    /\ pc = "write" /\ Path(opt, b) = "sendfile"
    /\ \/ \E r \in IF MoverShort THEN 0..b.size ELSE {b.size} :
            SetLen(r) /\ UNCHANGED w
       \/ w' = FALSE /\ UNCHANGED live
    /\ pc' = "sync"
    /\ UNCHANGED <<opt, calls, size, b, pad, pend, n, inpipe, durable, result>>

\* fsync(fd), whose result is ignored, then posix_fadvise(DONTNEED).
Sync ==
    /\ pc = "sync"
    /\ \E ok \in IF FsyncCanFail THEN BOOLEAN ELSE {TRUE} :
          durable' = IF ok THEN [durable EXCEPT ![calls] = live[calls]]
                           ELSE durable
    /\ pc' = "close"
    /\ UNCHANGED <<opt, calls, size, b, pad, w, pend, n, inpipe, live, result>>

(* if (pad) ftruncate(fd, b.size - pad), result ignored; close(fd); on a   *)
(* failed write unlink(ofile); return w.                                   *)
Finish ==
    /\ pc = "close"
    /\ \E tok \in IF FtruncCanFail THEN BOOLEAN ELSE {TRUE} :
          LET len == IF pad # 0 /\ tok THEN b.size - pad ELSE live[calls].len
          IN live' = [live EXCEPT ![calls] =
                        IF w THEN [on |-> TRUE, len |-> len] ELSE NoFile]
    /\ result' = [result EXCEPT ![calls] = IF w THEN "ok" ELSE "fail"]
    /\ pc' = "idle"
    /\ UNCHANGED <<opt, calls, size, b, pad, w, pend, n, inpipe, durable>>

\* The kernel commits a file's data and metadata on its own.
Writeback(c) ==
    /\ pc # "down" /\ durable[c] # live[c]
    /\ durable' = [durable EXCEPT ![c] = live[c]]
    /\ UNCHANGED <<opt, calls, pc, size, b, pad, w, pend, n, inpipe, live, result>>

\* Power loss or a kernel crash: only the durable image remains.
Crash ==
    /\ pc # "down"
    /\ live' = durable
    /\ pc' = "down"
    /\ UNCHANGED <<opt, calls, size, b, pad, w, pend, n, inpipe, durable, result>>

\* All calls made, or the machine is down.
Stopped == \/ pc = "idle" /\ calls = MaxCalls
           \/ pc = "down"

Done == Stopped /\ UNCHANGED vars

Next == \/ \E s \in Sizes : Start(s)
        \/ Writev \/ Vmsplice \/ Splice \/ Sendfile \/ Sync \/ Finish
        \/ \E c \in CallIds : Writeback(c)
        \/ Crash
        \/ Done

Spec == Init /\ [][Next]_vars
-----------------------------------------------------------------------------
\* Every variable holds a value of its kind; in particular the pad is less
\* than one block and never takes b.size past the buffer's capacity.
TypeOK ==
    /\ calls \in 0..MaxCalls
    /\ pc \in {"idle", "write", "splice", "sync", "close", "down"}
    /\ size \in [CallIds -> 0..Cap]
    /\ b.size \in 0..Cap /\ pad \in 0..Block - 1
    /\ pend \in 0..Cap /\ n \in 0..PipeCap /\ inpipe \in 0..PipeCap
    /\ live \in [CallIds -> [on : BOOLEAN, len : 0..Cap]]
    /\ durable \in [CallIds -> [on : BOOLEAN, len : 0..Cap]]
    /\ result \in [CallIds -> {"none", "ok", "fail"}]

(* Complete or absent (spec 7, 8.5): while the machine runs, every call    *)
(* that returned true left a file holding all of its buffer's data,        *)
(* followed by no more than a block's zero pad (the pad an ignored         *)
(* ftruncate failure leaves), and every call that returned false left no   *)
(* file, whatever write path, short write, splice failure or pad it took.  *)
OutcomeMatchesFile ==
    pc # "down" =>
      \A c \in CallIds :
        /\ result[c] = "ok" =>
              live[c].on /\ live[c].len - size[c] \in 0..Block - 1
        /\ result[c] = "fail" => ~live[c].on

(* Complete or absent after a crash (spec S4's promise for the files on    *)
(* disk): after the machine comes back, every file of a do_write call that *)
(* had returned, true or false, holds exactly its buffer's data or is not  *)
(* there.  (The file of a call in progress at the crash is not covered:    *)
(* files are written in place, with no temporary name to rename.)          *)
CrashLeavesCompleteFiles ==
    pc = "down" =>
      \A c \in CallIds :
        result[c] # "none" /\ live[c].on => live[c].len = size[c]
=============================================================================
