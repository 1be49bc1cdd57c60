---------------------------- MODULE FileWriteTool ----------------------------
(***************************************************************************)
(* tools/iodme-file-write.cc, the write benchmark: it maps one buffer (a  *)
(* memfd under use_memfd), builds one DataMover and writes the buffer     *)
(* Iters times to the same output file, through the mover's sendfile      *)
(* (use_memfd), its vmsplice + splice (use_splice) or a plain writev, each *)
(* followed by fsync, posix_fadvise and close.  Any failure the loop       *)
(* tests ends the process with exit(1).                                    *)
(*                                                                         *)
(* The mover is the Mover module, instantiated over this module's own     *)
(* variables: the benchmark starts a mover call and then waits for the    *)
(* mover's steps to return, so the two compose by sharing its state.      *)
(***************************************************************************)
EXTENDS Naturals, Sequences

CONSTANTS Iters,          \* loop iterations (20 in the code)
          Lens,           \* buf_size: the buffer sizes the command line selects
          PipeCap, MaxXfer, ShortSplice, SpliceCanFail   \* as in Mover

VARIABLES calls, pc, shape, iov, head, iovcnt, n, pipe, out, result,  \* Mover's
          mode,     \* "memfd" (use_memfd), "splice" (use_splice) or "writev"
          len,      \* buf_size
          tpc,      \* main(): "setup", "open", "mover", "writev", "sync", "exit"
          done,     \* loop iterations completed
          status    \* the exit status once tpc = "exit"

mvars == <<calls, pc, shape, iov, head, iovcnt, n, pipe, out, result>>
vars == <<mvars, mode, len, tpc, done, status>>

M == INSTANCE Mover WITH MaxCalls <- Iters, IovShapes <- {<<l>> : l \in Lens},
                         Paths <- {"splice", "sendfile"}

\* exit(code): the process ends.
Exit(code) == tpc' = "exit" /\ status' = code

(* The arguments: use_memfd, use_splice, and the buffer size.  use_memfd  *)
(* takes the sendfile path whether or not use_splice is also given.  The   *)
(* sizes in Lens are small buffer lengths; the tool's 1GB and 2GB differ   *)
(* in whether sendfile's per-call limit cuts them, which MaxXfer decides.  *)
Init == /\ M!Init
        /\ mode \in {"memfd", "splice", "writev"}
        /\ len \in Lens
        /\ tpc = "setup"
        /\ done = 0
        /\ status = 0

(* memfd_create and ftruncate (use_memfd), mmap, and the mover's           *)
(* constructor (pipe, F_SETPIPE_SZ); a failure of any of them exits.       *)
Setup == /\ tpc = "setup"
         /\ \/ tpc' = "open" /\ UNCHANGED status
            \/ Exit(1)
         /\ UNCHANGED <<mvars, mode, len, done>>

(* One iteration: open(ofile, O_CREAT | O_TRUNC | O_WRONLY [| O_DIRECT])   *)
(* may fail (exit); memset; then s.do_write(fd, buf_fd, buf_size),        *)
(* s.do_write(fd, &iov, 1) with a single segment of buf_size bytes, or     *)
(* writev.                                                                 *)
Open == /\ tpc = "open" /\ done < Iters
        /\ \/ Exit(1) /\ UNCHANGED mvars
           \/ /\ mode = "writev" /\ tpc' = "writev"
              /\ UNCHANGED <<mvars, status>>
           \/ /\ mode # "writev" /\ tpc' = "mover"
              /\ M!Start(<<len>>, IF mode = "memfd" THEN "sendfile" ELSE "splice")
              /\ UNCHANGED status
        /\ UNCHANGED <<mode, len, done>>

\* A step of the mover's do_write, while the benchmark waits in it.
MoverStep == /\ tpc = "mover"
             /\ \/ M!Vmsplice \/ M!VmspliceFail
                \/ M!Splice \/ M!SpliceFail
                \/ M!Sendfile \/ M!SendfileFail
             /\ UNCHANGED <<mode, len, tpc, done, status>>

\* do_write has returned: false exits, true goes on.
MoverReturned == /\ tpc = "mover" /\ pc = "idle"
                 /\ IF result[calls] = "ok"
                       THEN tpc' = "sync" /\ UNCHANGED status
                       ELSE Exit(1)
                 /\ UNCHANGED <<mvars, mode, len, done>>

(* writev(fd, &iov, 1): only r < 0 is a failure; a short count is timed   *)
(* and goes on like a whole one.                                           *)
Writev == /\ tpc = "writev"
          /\ \/ Exit(1)
             \/ tpc' = "sync" /\ UNCHANGED status
          /\ UNCHANGED <<mvars, mode, len, done>>

\* fsync, posix_fadvise(DONTNEED), close: their results are ignored.
Sync == /\ tpc = "sync"
        /\ tpc' = "open"
        /\ done' = done + 1
        /\ UNCHANGED <<mvars, mode, len, status>>

\* After the loop: print the statistics, munmap, close(buf_fd), return 0.
Finish == /\ tpc = "open" /\ done = Iters
          /\ Exit(0)
          /\ UNCHANGED <<mvars, mode, len, done>>

Exited == tpc = "exit" /\ UNCHANGED vars

Next == Setup \/ Open \/ MoverStep \/ MoverReturned \/ Writev \/ Sync
        \/ Finish \/ Exited

Spec == Init /\ [][Next]_vars
-----------------------------------------------------------------------------
\* Every variable holds a value of its kind, the mover's among them (its
\* iov pointer never runs past the iovec array).
TypeOK ==
    /\ M!TypeOK
    /\ mode \in {"memfd", "splice", "writev"} /\ len \in Lens
    /\ tpc \in {"setup", "open", "mover", "writev", "sync", "exit"}
    /\ done \in 0..Iters /\ status \in {0, 1}

(* Under its real caller the mover still implements MoverCopy: every call *)
(* the benchmark makes through the one mover, one after the other, gives  *)
(* its file exactly the buffer's bytes when it returns true.              *)
MoverRefinesCopy == M!MoverRefinesCopy
=============================================================================
