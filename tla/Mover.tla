------------------------------- MODULE Mover -------------------------------
(***************************************************************************)
(* The DataMover of src/mover.cc, as one writer thread drives it: a        *)
(* sequence of do_write calls through the same mover object, so the same   *)
(* pipe pair persists from one call to the next.  A call takes either the  *)
(* vmsplice + splice path (iovec -> pipe -> fd) or the sendfile path       *)
(* (memfd -> fd), as file_writer::do_write chooses by b.fd.                *)
(*                                                                         *)
(* A byte is <<c, i>>: byte i of the buffer handed to call c.  The pipe is *)
(* the sequence of bytes in it; out[c] is what call c's out_fd received.   *)
(* Each syscall may return a short count, as the kernel allows; the        *)
(* constants say which short returns and failures the environment makes.   *)
(***************************************************************************)
EXTENDS Naturals, Sequences, SequencesExt

CONSTANTS MaxCalls,       \* do_write calls through one mover
          IovShapes,      \* iovecs a call may get: sequences of segment lengths
          Paths,          \* subset of {"splice", "sendfile"}
          PipeCap,        \* pipe capacity after F_SETPIPE_SZ, in bytes
          MaxXfer,        \* most bytes one sendfile call moves (0x7ffff000 on Linux)
          ShortSplice,    \* splice may move fewer bytes than asked
          SpliceCanFail   \* splice may fail (EIO, ENOSPC) after vmsplice succeeded

ASSUME /\ MaxCalls \in Nat \ {0}
       /\ PipeCap \in Nat \ {0} /\ MaxXfer \in Nat \ {0}
       /\ \A s \in IovShapes : s # <<>> /\ \A j \in 1..Len(s) : s[j] \in Nat \ {0}
       /\ Paths \subseteq {"splice", "sendfile"} /\ Paths # {}
       /\ ShortSplice \in BOOLEAN /\ SpliceCanFail \in BOOLEAN

VARIABLES calls,   \* calls started; call `calls` is the current or last one
          pc,      \* "idle" (between calls), "vmsplice", "splice" or "sendfile"
          shape,   \* shape[c]: the segment lengths of call c's iovec
          iov,     \* the iovec array: segments [base, len] over 1..Total(shape)
          head,    \* index of the iov pointer into the array; 0 is NULL
          iovcnt,  \* the iovcnt argument, updated by update_iov
          n,       \* bytes the last vmsplice put into the pipe
          pipe,    \* bytes in the mover's pipe
          out,     \* out[c]: bytes delivered to call c's out_fd
          result   \* result[c]: "none", "ok" or "fail" (do_write's return)

vars == <<calls, pc, shape, iov, head, iovcnt, n, pipe, out, result>>

CallIds == 1..MaxCalls

Total(s) == FoldLeft(LAMBDA a, b : a + b, 0, s)

\* The iovec array for a buffer cut into segments of lengths s.
Segments(s) ==
    [j \in 1..Len(s) |-> [base |-> 1 + Total(SubSeq(s, 1, j - 1)), len |-> s[j]]]

\* The positions the iovec still refers to: iovcnt segments from the pointer.
Pending(v, h, cnt) ==
    IF h = 0 THEN <<>>
    ELSE FlattenSeq([j \in 1..cnt |->
                      [i \in 1..v[h + j - 1].len |-> v[h + j - 1].base + i - 1]])

ByteOf(c, p) == <<c, p>>

Init == /\ calls = 0
        /\ pc = "idle"
        /\ shape = [c \in CallIds |-> <<>>]
        /\ iov = <<>>
        /\ head = 0
        /\ iovcnt = 0
        /\ n = 0
        /\ pipe = <<>>
        /\ out = [c \in CallIds |-> <<>>]
        /\ result = [c \in CallIds |-> "none"]

(* A call: the writer builds the iovec and picks the path (b.fd # -1 gives *)
(* sendfile, otherwise the SPLICE flag gives vmsplice + splice).           *)
Start(s, p) ==
    /\ pc = "idle" /\ calls < MaxCalls
    /\ calls' = calls + 1
    /\ shape' = [shape EXCEPT ![calls + 1] = s]
    /\ iov' = Segments(s)
    /\ head' = 1
    /\ iovcnt' = Len(s)
    /\ pc' = IF p = "splice" THEN "vmsplice" ELSE "sendfile"
    /\ UNCHANGED <<n, pipe, out, result>>

(* update_iov: advance the iovec past `used` bytes; returns the new head   *)
(* (0 for NULL) and count.  Mutants of it come first.                      *)
RECURSIVE UpdateIovNoNull(_, _, _, _)
UpdateIovNoNull(used, v, h, cnt) ==
    IF used = 0 \/ cnt = 0 THEN [iov |-> v, head |-> h, cnt |-> cnt]
    ELSE LET u  == IF v[h].len < used THEN v[h].len ELSE used
             v2 == [v EXCEPT ![h] = [base |-> @.base + u, len |-> @.len - u]]
         IN IF v2[h].len # 0 THEN [iov |-> v2, head |-> h, cnt |-> cnt]
            ELSE UpdateIovNoNull(used - u, v2, h + 1, cnt - 1)

RECURSIVE UpdateIovNoAdvance(_, _, _, _)
UpdateIovNoAdvance(used, v, h, cnt) ==
    IF used = 0 \/ cnt = 0 THEN [iov |-> v, head |-> 0, cnt |-> cnt]
    ELSE LET u  == IF v[h].len < used THEN v[h].len ELSE used
             v2 == [v EXCEPT ![h] = [base |-> @.base, len |-> @.len - u]]
         IN IF v2[h].len # 0 THEN [iov |-> v2, head |-> h, cnt |-> cnt]
            ELSE UpdateIovNoAdvance(used - u, v2, h + 1, cnt - 1)

RECURSIVE UpdateIov(_, _, _, _)
UpdateIov(used, v, h, cnt) ==
    IF used = 0 \/ cnt = 0 THEN [iov |-> v, head |-> 0, cnt |-> cnt]
    ELSE LET u  == IF v[h].len < used THEN v[h].len ELSE used
             v2 == [v EXCEPT ![h] = [base |-> @.base + u, len |-> @.len - u]]
         IN IF v2[h].len # 0 THEN [iov |-> v2, head |-> h, cnt |-> cnt]
            ELSE UpdateIov(used - u, v2, h + 1, cnt - 1)

(* vmsplice(pipe[1], iov, iovcnt, 0) takes the first m pending bytes, as   *)
(* many as the pipe has room for (it blocks while the pipe is full: no one *)
(* else drains this pipe, so then the thread hangs), then update_iov.      *)
Vmsplice ==
    /\ pc = "vmsplice"
    /\ \E m \in 1..Min({Len(Pending(iov, head, iovcnt)), PipeCap - Len(pipe)}) :
          LET u == UpdateIov(m, iov, head, iovcnt)
          IN /\ pipe' = pipe \o [i \in 1..m |->
                                   ByteOf(calls, Pending(iov, head, iovcnt)[i])]
             /\ n' = m
             /\ iov' = u.iov /\ head' = u.head /\ iovcnt' = u.cnt
             /\ pc' = "splice"
    /\ UNCHANGED <<calls, shape, out, result>>

\* A failing syscall stores errno and do_write returns false.
ReturnFalse ==
    /\ pc' = "idle"
    /\ result' = [result EXCEPT ![calls] = "fail"]

VmspliceFail ==
    /\ pc = "vmsplice"
    /\ ReturnFalse
    /\ UNCHANGED <<calls, shape, iov, head, iovcnt, n, pipe, out>>

\* Bytes splice(pipe[0], NULL, fd, NULL, n, SPLICE_F_MOVE) may move.
SpliceCounts == IF ShortSplice THEN 1..n ELSE {n}

(* The splice's return value is only tested for < 0; the loop goes on      *)
(* while the iov pointer is not NULL, and returns true when it is.         *)
Splice ==
    /\ pc = "splice"
    /\ \E r \in SpliceCounts :
          /\ out' = [out EXCEPT ![calls] = @ \o SubSeq(pipe, 1, r)]
          /\ pipe' = SubSeq(pipe, r + 1, Len(pipe))
    /\ pc' = IF head = 0 THEN "idle" ELSE "vmsplice"
    /\ result' = IF head = 0 THEN [result EXCEPT ![calls] = "ok"] ELSE result
    /\ UNCHANGED <<calls, shape, iov, head, iovcnt, n>>

SpliceFail ==
    /\ pc = "splice" /\ SpliceCanFail
    /\ ReturnFalse
    /\ UNCHANGED <<calls, shape, iov, head, iovcnt, n, pipe, out>>

(* sendfile(fd, in_fd, &off, len) from offset 0 moves at most MaxXfer      *)
(* bytes; any non-negative return is success.                              *)
Sendfile ==
    /\ pc = "sendfile"
    /\ LET r == Min({Total(shape[calls]), MaxXfer})
       IN out' = [out EXCEPT ![calls] = [i \in 1..r |-> ByteOf(calls, i)]]
    /\ pc' = "idle"
    /\ result' = [result EXCEPT ![calls] = "ok"]
    /\ UNCHANGED <<calls, shape, iov, head, iovcnt, n, pipe>>

SendfileFail ==
    /\ pc = "sendfile"
    /\ ReturnFalse
    /\ UNCHANGED <<calls, shape, iov, head, iovcnt, n, pipe, out>>

\* All the calls of the bound have been made.
Finished == pc = "idle" /\ calls = MaxCalls /\ UNCHANGED vars

Next == \/ \E s \in IovShapes, p \in Paths : Start(s, p)
        \/ Vmsplice \/ VmspliceFail
        \/ Splice \/ SpliceFail
        \/ Sendfile \/ SendfileFail
        \/ Finished

Spec == Init /\ [][Next]_vars
-----------------------------------------------------------------------------
MaxSegs == Max({Len(s) : s \in IovShapes})

\* Every variable holds a value of its kind; in particular update_iov never
\* leaves the iov pointer past the end of the array.
TypeOK ==
    /\ calls \in 0..MaxCalls
    /\ pc \in {"idle", "vmsplice", "splice", "sendfile"}
    /\ iov \in Seq([base : Nat, len : Nat]) /\ Len(iov) <= MaxSegs
    /\ head \in 0..Len(iov)
    /\ iovcnt \in 0..Len(iov)
    /\ n \in 0..PipeCap
    /\ Len(pipe) <= PipeCap
    /\ result \in [CallIds -> {"none", "ok", "fail"}]

(* Refinement: the mover implements MoverCopy.  A call is in progress      *)
(* from Start until do_write returns; a call that returned true has given  *)
(* its out_fd exactly the bytes of its iovec in order (spec 8.7), however  *)
(* vmsplice and splice split them; what a failed call left is unlinked by *)
(* the writer and not part of the promise.                                 *)
Abs == INSTANCE MoverCopy WITH
          k <- calls,
          busy <- pc # "idle",
          len <- [c \in CallIds |-> Total(shape[c])],
          file <- [c \in CallIds |-> IF result[c] = "ok" THEN out[c] ELSE <<>>],
          Lens <- {Total(s) : s \in IovShapes}

MoverRefinesCopy == Abs!Spec
=============================================================================
