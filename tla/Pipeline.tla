------------------------------ MODULE Pipeline ------------------------------
(***************************************************************************)
(* The iodme sink (tools/iodme-sink.cc run()): a pool of pre-allocated     *)
(* buffers circulates between NetRx receiver threads (src/netrx.cc) and    *)
(* FileWriter threads (src/file-writer.cc) through the clean queue cb_q    *)
(* and the dirty queue db_q, under a supervisor that accepts connections,  *)
(* reaps finished receivers and, on a signal, shuts the sink down.         *)
(*                                                                         *)
(* Data is abstracted to byte counts: a buffer holds size[b] bytes of      *)
(* Cap, a recv returns a count, a file is a record of its length.  Ghost   *)
(* variables (src, recvd, emitted, files, lost) record where every byte    *)
(* came from and went, for the properties.                                 *)
(***************************************************************************)
EXTENDS Naturals, Sequences, SequencesExt

CONSTANTS
    Buffers,        \* the buffer pool (buff_count buffers)
    Conns,          \* connections the listening socket may accept
    Writers,        \* FileWriter threads, 1..writer-threads
    Fds,            \* descriptor numbers accept() may return
    Cap,            \* buffer capacity, in units of bytes
    Chunks,         \* how many bytes one recv() may return at most
    MaxBytes,       \* bytes one peer sends before it stops
    QCap,           \* capacity of an iodme::queue
    DirectIOBlock,  \* file_writer::directio_block
    DIRECTIO,       \* --directio
    NoBuffer, NoFd, NoConn

ASSUME /\ Cap \in Nat /\ Cap >= 8 /\ Cap % DirectIOBlock = 0
       /\ Chunks \subseteq 1..Cap /\ MaxBytes \in Nat /\ QCap \in Nat
       /\ Writers \subseteq Nat \ {0} /\ DIRECTIO \in BOOLEAN
       /\ NoBuffer \notin Buffers /\ NoFd \notin Fds /\ NoConn \notin Conns

VARIABLES
    cb_q, db_q,     \* clean and dirty queues: <<producer, buffer>> entries
    size,           \* buffer::size of each buffer
    meta,           \* buffer::meta: [name |-> stream name (its socket fd), seqno]
    freed,          \* buffers released by buffer::free()
    rx,             \* NetRx threads, one per connection
    wr,             \* FileWriter threads
    killed,         \* the sink's signal flag
    spc,            \* where run() is: accept loop, drain, or a destructor
    netrxs,         \* run()'s vector of live NetRx objects, in accept order
    wjoin,          \* index of the FileWriter being destroyed
    src,            \* ghost: connection whose data a buffer holds
    recvd,          \* ghost: bytes each connection's recv() returned
    emitted,        \* ghost: seqnos each NetRx pushed to db_q, in order
    files,          \* ghost: output files that do_write() reported written
    lost            \* ghost: bytes of failed writes (file unlinked)

vars == <<cb_q, db_q, size, meta, freed, rx, wr, killed, spc, netrxs, wjoin,
          src, recvd, emitted, files, lost>>

RxStates == {"idle", "head", "recv", "exited", "gone"}
WrStates == {"init", "head", "write", "exited"}
SupStates == {"accept", "drain", "killW", "joinW", "closeRx", "killRx",
              "joinRx", "done"}
FileData == {"received", "zeros"}

-----------------------------------------------------------------------------
(* iodme::queue as spec 4.2 promises it (Queue.tla).  Every caller of     *)
(* push() in the sink ignores its result, so on a full queue the buffer is *)
(* simply not enqueued.  A thread pushes as its own producer: a NetRx as   *)
(* its connection, a writer as its index, run() as Main.                   *)
Q == INSTANCE Queue

Main == 0

\* The buffers in queue q.
Queued(q) == Q!Items(q)

(* buffer::room() *)
Room(b) == Cap - size[b]

(* The descriptors of sockets still open, so not reusable by accept(). *)
OpenFds == {rx[c].sk : c \in {d \in Conns : rx[d].skOpen}}

-----------------------------------------------------------------------------
(* Start: run() has pre-allocated every buffer (size 0, zeroed metadata)   *)
(* onto cb_q and started the writers; no connection is accepted yet.       *)
Init ==
    /\ cb_q = [i \in 1..Cardinality(Buffers) |-> <<Main, SetToSeq(Buffers)[i]>>]
    /\ db_q = <<>>
    /\ size = [b \in Buffers |-> 0]
    /\ meta = [b \in Buffers |-> [name |-> NoFd, seqno |-> 0]]
    /\ freed = {}
    /\ rx = [c \in Conns |-> [st |-> "idle", cur |-> NoBuffer, seqno |-> 0,
                             sk |-> NoFd, skOpen |-> FALSE, killed |-> FALSE]]
    /\ wr = [w \in Writers |-> [st |-> "init", buf |-> NoBuffer,
                               killed |-> FALSE, dmeFailed |-> FALSE]]
    /\ killed = FALSE
    /\ spc = "accept"
    /\ netrxs = <<>>
    /\ wjoin = 0
    /\ src = [b \in Buffers |-> NoConn]
    /\ recvd = [c \in Conns |-> 0]
    /\ emitted = [c \in Conns |-> <<>>]
    /\ files = {}
    /\ lost = [c \in Conns |-> 0]

-----------------------------------------------------------------------------
(***************************************************************************)
(* NetRx (netrx::loop).  st is "head" at the loop head (the _killed check, *)
(* then the pop of a clean buffer if none is held) and "recv" after a pop, *)
(* where the same iteration goes on to recv() without re-checking _killed. *)
(***************************************************************************)
Running(c) == rx[c].st \in {"head", "recv"}

(* netrx::new_frame(): stamp the stream name and the next seqno. *)
NewFrame(c, b) ==
    /\ meta' = [meta EXCEPT ![b] = [name |-> rx[c].sk, seqno |-> rx[c].seqno]]
    /\ src' = [src EXCEPT ![b] = c]

(* _out_q.push(b), result ignored. *)
EmitDirty(c, b) ==
    /\ db_q' = Q!Push(db_q, c, b)
    /\ emitted' = [emitted EXCEPT ![c] = IF Q!Accepts(db_q)
                                         THEN Append(@, meta[b].seqno) ELSE @]

(* Loop head, no buffer held: _in_q.pop(b) succeeds, new_frame(b, seqno). *)
(* When the pop fails the thread sleeps and retries: no state changes.    *)
RxAcquire(c) ==
    /\ rx[c].st = "head" /\ ~rx[c].killed /\ rx[c].cur = NoBuffer
    /\ \E i \in Q!Poppable(cb_q) :
          /\ cb_q' = Q!Pop(cb_q, i)
          /\ NewFrame(c, Q!Item(cb_q, i))
          /\ rx' = [rx EXCEPT ![c].cur = Q!Item(cb_q, i), ![c].seqno = @ + 1,
                              ![c].st = "recv"]
    /\ UNCHANGED <<db_q, size, freed, wr, killed, spc, netrxs, wjoin, recvd,
                   emitted, files, lost>>

(* The loop is left (killed, recv() = 0 or < 0): the held buffer is pushed *)
(* to db_q only if b.size != 0; an empty one goes out of scope with the    *)
(* local `b`.  thread::entry() then clears _running.                       *)
RxLeave(c) ==
    LET b == rx[c].cur IN
    /\ IF b # NoBuffer /\ size[b] # 0
          THEN EmitDirty(c, b)
          ELSE UNCHANGED <<db_q, emitted>>
    /\ rx' = [rx EXCEPT ![c].cur = NoBuffer, ![c].st = "exited"]

(* Loop head with _killed set. *)
RxExit(c) ==
    /\ rx[c].st = "head" /\ rx[c].killed
    /\ RxLeave(c)
    /\ UNCHANGED <<cb_q, size, meta, freed, wr, killed, spc, netrxs, wjoin,
                   src, recvd, files, lost>>

(* The thread is at recv(): just after a pop, or at the loop head, not     *)
(* killed, still holding a buffer.                                         *)
AtRecv(c) ==
    /\ rx[c].cur # NoBuffer
    /\ \/ rx[c].st = "recv"
       \/ rx[c].st = "head" /\ ~rx[c].killed

(* recv() < 0: a reset connection, or a socket the supervisor closed.     *)
RxRecvError(c) ==
    /\ AtRecv(c)
    /\ RxLeave(c)
    /\ UNCHANGED <<cb_q, size, meta, freed, wr, killed, spc, netrxs, wjoin,
                   src, recvd, files, lost>>

(* recv() = 0: the peer closed the connection. *)
RxPeerClosed(c) ==
    /\ AtRecv(c) /\ rx[c].skOpen
    /\ RxLeave(c)
    /\ UNCHANGED <<cb_q, size, meta, freed, wr, killed, spc, netrxs, wjoin,
                   src, recvd, files, lost>>

(* The byte counts recv(_sk, b.end(), b.room(), 0) may return. *)
RecvCounts(c) ==
    {Min({k, Room(rx[c].cur), MaxBytes - recvd[c]}) : k \in Chunks} \ {0}

(* recv() = r > 0, then b.put(r). *)
RecvInto(c, r) ==
    /\ AtRecv(c) /\ rx[c].skOpen
    /\ size' = [size EXCEPT ![rx[c].cur] = @ + r]
    /\ recvd' = [recvd EXCEPT ![c] = @ + r]

(* Mutant: the full buffer is pushed but not reset, so still held. *)
RxFullNoReset(c, r) ==
    /\ RecvInto(c, r)
    /\ Room(rx[c].cur) = r
    /\ EmitDirty(c, rx[c].cur)
    /\ rx' = [rx EXCEPT ![c].st = "head"]
    /\ UNCHANGED <<cb_q, meta, freed, wr, killed, spc, netrxs, wjoin, src,
                   files, lost>>

(* No room left: push to db_q and b.reset(). *)
RxFull(c, r) ==
    /\ RecvInto(c, r)
    /\ Room(rx[c].cur) = r
    /\ EmitDirty(c, rx[c].cur)
    /\ rx' = [rx EXCEPT ![c].cur = NoBuffer, ![c].st = "head"]
    /\ UNCHANGED <<cb_q, meta, freed, wr, killed, spc, netrxs, wjoin, src,
                   files, lost>>

(* Mutant: the swapped-in buffer is used without new_frame(). *)
RxSwapNoFrame(c, r) ==
    LET b == rx[c].cur IN
    /\ RecvInto(c, r)
    /\ Room(b) - r > 0 /\ Room(b) - r < Cap \div 8
    /\ EmitDirty(c, b)
    /\ \E i \in Q!Poppable(cb_q) :
          /\ cb_q' = Q!Pop(cb_q, i)
          /\ src' = [src EXCEPT ![Q!Item(cb_q, i)] = c]
          /\ rx' = [rx EXCEPT ![c].cur = Q!Item(cb_q, i), ![c].st = "head"]
    /\ UNCHANGED <<meta, freed, wr, killed, spc, netrxs, wjoin, files, lost>>

(* room < capacity/8 and a clean buffer is available: push the partial    *)
(* buffer, continue in the new one after new_frame().                     *)
RxSwap(c, r) ==
    LET b == rx[c].cur IN
    /\ RecvInto(c, r)
    /\ Room(b) - r > 0 /\ Room(b) - r < Cap \div 8
    /\ EmitDirty(c, b)
    /\ \E i \in Q!Poppable(cb_q) :
          /\ cb_q' = Q!Pop(cb_q, i)
          /\ NewFrame(c, Q!Item(cb_q, i))
          /\ rx' = [rx EXCEPT ![c].cur = Q!Item(cb_q, i), ![c].seqno = @ + 1,
                              ![c].st = "head"]
    /\ UNCHANGED <<freed, wr, killed, spc, netrxs, wjoin, files, lost>>

(* Room remains and either it is not below capacity/8 or the opportunistic *)
(* pop found cb_q empty: keep filling the same buffer.                     *)
RxKeep(c, r) ==
    LET b == rx[c].cur IN
    /\ RecvInto(c, r)
    /\ Room(b) - r > 0
    /\ Room(b) - r < Cap \div 8 => cb_q = <<>>
    /\ rx' = [rx EXCEPT ![c].st = "head"]
    /\ UNCHANGED <<cb_q, db_q, meta, freed, wr, killed, spc, netrxs, wjoin,
                   src, emitted, files, lost>>

RxRecv(c) ==
    \/ RxRecvError(c)
    \/ RxPeerClosed(c)
    \/ /\ AtRecv(c)
       /\ \E r \in RecvCounts(c) : RxFull(c, r) \/ RxSwap(c, r) \/ RxKeep(c, r)

-----------------------------------------------------------------------------
(***************************************************************************)
(* FileWriter (file_writer::loop, file_writer::do_write).                  *)
(***************************************************************************)

(* do_write()'s `pad` under O_DIRECT: the bytes up to the next block.    *)
DirectIOPad(b) ==
    IF DIRECTIO /\ size[b] % DirectIOBlock # 0
    THEN DirectIOBlock - (size[b] % DirectIOBlock) ELSE 0

(* The bytes memset + put(pad) add: none when the pad exceeds room()       *)
(* (O_DIRECT is then dropped, and `pad` keeps its value).                  *)
PadPut(b) == IF DirectIOPad(b) > Room(b) THEN 0 ELSE DirectIOPad(b)

(* Mutant: the pad is not truncated away. *)
FileLengthKeepPad(b) == size[b] + PadPut(b)

(* The write of b.size bytes, then, if pad, ftruncate(fd, b.size - pad).   *)
(* (The ftruncate's failure, which the code ignores, is not modelled.)     *)
FileLength(b) == (size[b] + PadPut(b)) - DirectIOPad(b)

(* The loop's mover is constructed: pipe() may fail (loop returns). *)
WriterInit(w) ==
    /\ wr[w].st = "init"
    /\ \E ok \in BOOLEAN :
          wr' = [wr EXCEPT ![w].st = IF ok THEN "head" ELSE "exited",
                           ![w].dmeFailed = ~ok]
    /\ UNCHANGED <<cb_q, db_q, size, meta, freed, rx, killed, spc, netrxs,
                   wjoin, src, recvd, emitted, files, lost>>

(* Loop head, not killed, _in_q.pop(b) succeeds.  A failed pop sleeps. *)
WriterPop(w) ==
    /\ wr[w].st = "head" /\ ~wr[w].killed
    /\ \E i \in Q!Poppable(db_q) :
          /\ db_q' = Q!Pop(db_q, i)
          /\ wr' = [wr EXCEPT ![w].buf = Q!Item(db_q, i), ![w].st = "write"]
    /\ UNCHANGED <<cb_q, size, meta, freed, rx, killed, spc, netrxs, wjoin,
                   src, recvd, emitted, files, lost>>

(* Mutant: the loop returns when db_q is empty instead of sleeping. *)
WriterExitWhenIdle(w) ==
    /\ wr[w].st = "head" /\ (wr[w].killed \/ db_q = <<>>)
    /\ wr' = [wr EXCEPT ![w].st = "exited"]
    /\ UNCHANGED <<cb_q, db_q, size, meta, freed, rx, killed, spc, netrxs,
                   wjoin, src, recvd, emitted, files, lost>>

(* Loop head with _killed set: the thread returns. *)
WriterExit(w) ==
    /\ wr[w].st = "head" /\ wr[w].killed
    /\ wr' = [wr EXCEPT ![w].st = "exited"]
    /\ UNCHANGED <<cb_q, db_q, size, meta, freed, rx, killed, spc, netrxs,
                   wjoin, src, recvd, emitted, files, lost>>

(* do_write() returns, then b.clear() and _out_q.push(b), result ignored. *)
WriterReturn(w) ==
    /\ size' = [size EXCEPT ![wr[w].buf] = 0]
    /\ cb_q' = Q!Push(cb_q, w, wr[w].buf)
    /\ wr' = [wr EXCEPT ![w].buf = NoBuffer, ![w].st = "head"]

(* do_write() succeeds: <odir>/<meta.name>.<meta.seqno> is written. *)
WriteDone(w) ==
    LET b == wr[w].buf IN
    /\ wr[w].st = "write"
    /\ files' = files \cup {[name |-> <<meta[b].name, meta[b].seqno>>,
                             src |-> src[b], seqno |-> meta[b].seqno,
                             len |-> FileLength(b)]}
    /\ WriterReturn(w)
    /\ UNCHANGED <<db_q, meta, freed, rx, killed, spc, netrxs, wjoin, src,
                   recvd, emitted, lost>>

(* do_write() fails (open, write or a partial writev): the file is        *)
(* unlinked and the buffer's data is dropped, as designed.                *)
WriteFailed(w) ==
    LET b == wr[w].buf IN
    /\ wr[w].st = "write"
    /\ lost' = [lost EXCEPT ![src[b]] = @ + size[b]]
    /\ WriterReturn(w)
    /\ UNCHANGED <<db_q, meta, freed, rx, killed, spc, netrxs, wjoin, src,
                   recvd, emitted, files>>

-----------------------------------------------------------------------------
(***************************************************************************)
(* Supervisor: run()'s accept loop and its shutdown.  Leaving the loop it  *)
(* drains cb_q, then returns; the locals are destroyed in reverse order    *)
(* of declaration: first `writers` (each ~thread sets _killed and joins),  *)
(* then `netrxs` (~netrx closes the socket, ~thread sets _killed, joins).  *)
(***************************************************************************)

(* accept() returns a connection on a free descriptor; a NetRx is created *)
(* and started; pthread_create() failing leaves it not running.           *)
Accept(c) ==
    /\ spc = "accept" /\ ~killed
    /\ rx[c].st = "idle"
    /\ \E fd \in Fds \ OpenFds, started \in BOOLEAN :
          rx' = [rx EXCEPT ![c].sk = fd, ![c].skOpen = TRUE,
                           ![c].st = IF started THEN "head" ELSE "exited"]
    /\ netrxs' = Append(netrxs, c)
    /\ UNCHANGED <<cb_q, db_q, size, meta, freed, wr, killed, spc, wjoin, src,
                   recvd, emitted, files, lost>>

(* accept() fails with EAGAIN: erase (destroy) every NetRx not running;  *)
(* ~netrx closes its socket.                                             *)
Reap ==
    /\ spc = "accept" /\ ~killed
    /\ netrxs' = SelectSeq(netrxs, Running)
    /\ rx' = [c \in Conns |->
                IF c \in Range(netrxs) /\ ~Running(c)
                THEN [rx[c] EXCEPT !.st = "gone", !.skOpen = FALSE]
                ELSE rx[c]]
    /\ UNCHANGED <<cb_q, db_q, size, meta, freed, wr, killed, spc, wjoin, src,
                   recvd, emitted, files, lost>>

(* accept() fails otherwise (e.g. ECONNABORTED, EMFILE): run() returns    *)
(* false at once, without the drain.                                      *)
AcceptFailed ==
    /\ spc = "accept" /\ ~killed
    /\ spc' = "killW" /\ wjoin' = Min(Writers)
    /\ UNCHANGED <<cb_q, db_q, size, meta, freed, rx, wr, killed, netrxs, src,
                   recvd, emitted, files, lost>>

(* sig_handler() *)
Signal ==
    /\ ~killed /\ spc # "done"
    /\ killed' = TRUE
    /\ UNCHANGED <<cb_q, db_q, size, meta, freed, rx, wr, spc, netrxs, wjoin,
                   src, recvd, emitted, files, lost>>

StopAccepting ==
    /\ spc = "accept" /\ killed
    /\ spc' = "drain"
    /\ UNCHANGED <<cb_q, db_q, size, meta, freed, rx, wr, killed, netrxs,
                   wjoin, src, recvd, emitted, files, lost>>

(* while (cb_q.pop(b)) b.free(); *)
DrainClean ==
    /\ spc = "drain"
    /\ \E i \in Q!Poppable(cb_q) :
          /\ freed' = freed \cup {Q!Item(cb_q, i)}
          /\ cb_q' = Q!Pop(cb_q, i)
          /\ size' = [size EXCEPT ![Q!Item(cb_q, i)] = 0]
    /\ UNCHANGED <<db_q, meta, rx, wr, killed, spc, netrxs, wjoin, src, recvd,
                   emitted, files, lost>>

DrainDone ==
    /\ spc = "drain" /\ cb_q = <<>>
    /\ spc' = "killW" /\ wjoin' = Min(Writers)
    /\ UNCHANGED <<cb_q, db_q, size, meta, freed, rx, wr, killed, netrxs, src,
                   recvd, emitted, files, lost>>

(* ~thread of writers[wjoin]: _killed = true ... *)
KillWriter ==
    /\ spc = "killW"
    /\ wr' = [wr EXCEPT ![wjoin].killed = TRUE]
    /\ spc' = "joinW"
    /\ UNCHANGED <<cb_q, db_q, size, meta, freed, rx, killed, netrxs, wjoin,
                   src, recvd, emitted, files, lost>>

(* Mutant: the loop bound tests the current index, one past the end. *)
JoinWriterPastEnd ==
    /\ spc = "joinW" /\ wr[wjoin].st = "exited"
    /\ IF wjoin \in Writers
          THEN spc' = "killW" /\ wjoin' = wjoin + 1
          ELSE spc' = "closeRx" /\ UNCHANGED wjoin
    /\ UNCHANGED <<cb_q, db_q, size, meta, freed, rx, wr, killed, netrxs, src,
                   recvd, emitted, files, lost>>

(* ... pthread_join(); then the next writer, then the NetRx vector. *)
JoinWriter ==
    /\ spc = "joinW" /\ wr[wjoin].st = "exited"
    /\ IF wjoin + 1 \in Writers
          THEN spc' = "killW" /\ wjoin' = wjoin + 1
          ELSE spc' = "closeRx" /\ UNCHANGED wjoin
    /\ UNCHANGED <<cb_q, db_q, size, meta, freed, rx, wr, killed, netrxs, src,
                   recvd, emitted, files, lost>>

(* ~netrx of the first NetRx left: close(_sk). *)
CloseRx ==
    /\ spc = "closeRx" /\ netrxs # <<>>
    /\ rx' = [rx EXCEPT ![Head(netrxs)].skOpen = FALSE]
    /\ spc' = "killRx"
    /\ UNCHANGED <<cb_q, db_q, size, meta, freed, wr, killed, netrxs, wjoin,
                   src, recvd, emitted, files, lost>>

(* ~thread: _killed = true *)
KillRx ==
    /\ spc = "killRx"
    /\ rx' = [rx EXCEPT ![Head(netrxs)].killed = TRUE]
    /\ spc' = "joinRx"
    /\ UNCHANGED <<cb_q, db_q, size, meta, freed, wr, killed, netrxs, wjoin,
                   src, recvd, emitted, files, lost>>

(* Mutant: the destructor loop does not advance past the joined NetRx. *)
JoinRxNoAdvance ==
    /\ spc = "joinRx" /\ rx[Head(netrxs)].st = "exited"
    /\ spc' = "closeRx"
    /\ UNCHANGED <<cb_q, db_q, size, meta, freed, rx, wr, killed, netrxs,
                   wjoin, src, recvd, emitted, files, lost>>

(* pthread_join() *)
JoinRx ==
    /\ spc = "joinRx" /\ rx[Head(netrxs)].st = "exited"
    /\ rx' = [rx EXCEPT ![Head(netrxs)].st = "gone"]
    /\ netrxs' = Tail(netrxs)
    /\ spc' = "closeRx"
    /\ UNCHANGED <<cb_q, db_q, size, meta, freed, wr, killed, wjoin, src,
                   recvd, emitted, files, lost>>

(* Every destructor has run: run() has returned. *)
RunReturns ==
    /\ spc = "closeRx" /\ netrxs = <<>>
    /\ spc' = "done"
    /\ UNCHANGED <<cb_q, db_q, size, meta, freed, rx, wr, killed, netrxs,
                   wjoin, src, recvd, emitted, files, lost>>

(* The process has exited. *)
Terminated == spc = "done" /\ UNCHANGED vars

-----------------------------------------------------------------------------
RxNext(c) == RxAcquire(c) \/ RxExit(c) \/ RxRecv(c)

WriterNext(w) ==
    WriterInit(w) \/ WriterPop(w) \/ WriterExit(w) \/ WriteDone(w)
    \/ WriteFailed(w)

SupNext ==
    \/ \E c \in Conns : Accept(c)
    \/ Reap \/ AcceptFailed \/ Signal \/ StopAccepting \/ DrainClean
    \/ DrainDone \/ KillWriter \/ JoinWriter \/ CloseRx \/ KillRx \/ JoinRx
    \/ RunReturns

Next ==
    \/ \E c \in Conns : RxNext(c)
    \/ \E w \in Writers : WriterNext(w)
    \/ SupNext
    \/ Terminated

(* Every thread keeps running while it can: a recv() returns (the peer    *)
(* sends, closes or resets), a writer finishes its write, the supervisor  *)
(* gets through its shutdown.  Accepting, a failing accept and the signal *)
(* are the environment's choice and are not fair.                         *)
Fairness ==
    /\ \A c \in Conns : WF_vars(RxNext(c))
    /\ \A w \in Writers : WF_vars(WriterNext(w))
    /\ WF_vars(StopAccepting \/ DrainClean \/ DrainDone \/ KillWriter
               \/ JoinWriter \/ CloseRx \/ KillRx \/ JoinRx \/ RunReturns)

Spec == Init /\ [][Next]_vars /\ Fairness

-----------------------------------------------------------------------------
(***************************************************************************)
(* Properties.                                                             *)
(***************************************************************************)
TypeOK ==
    /\ cb_q \in Seq(({Main} \cup Writers) \X Buffers)
    /\ db_q \in Seq(Conns \X Buffers)
    /\ size \in [Buffers -> 0..Cap]
    /\ meta \in [Buffers -> [name : Fds \cup {NoFd}, seqno : Nat]]
    /\ freed \subseteq Buffers
    /\ rx \in [Conns -> [st : RxStates, cur : Buffers \cup {NoBuffer},
                         seqno : Nat, sk : Fds \cup {NoFd}, skOpen : BOOLEAN,
                         killed : BOOLEAN]]
    /\ wr \in [Writers -> [st : WrStates, buf : Buffers \cup {NoBuffer},
                           killed : BOOLEAN, dmeFailed : BOOLEAN]]
    /\ killed \in BOOLEAN /\ spc \in SupStates
    /\ netrxs \in Seq(Conns) /\ wjoin \in Writers \cup {0}
    /\ src \in [Buffers -> Conns \cup {NoConn}]
    /\ recvd \in [Conns -> 0..MaxBytes] /\ lost \in [Conns -> Nat]
    /\ emitted \in [Conns -> Seq(Nat)]

(* How many owners buffer b has: queue slots, threads, the freed set. *)
Occurrences(q, b) == Cardinality({i \in DOMAIN q : Q!Item(q, i) = b})
Holders(b) ==
    Occurrences(cb_q, b) + Occurrences(db_q, b)
    + Cardinality({c \in Conns : rx[c].cur = b})
    + Cardinality({w \in Writers : wr[w].buf = b})
    + (IF b \in freed THEN 1 ELSE 0)

(* A buffer is never owned by two parties at once (two queue slots, a     *)
(* queue and a thread, two threads): NetRx's reset after a push, its      *)
(* swap, the writer's return and the drain all hand the buffer over.      *)
ExclusiveOwnership == \A b \in Buffers : Holders(b) <= 1

(* Spec 8.1 and scenario S4: every buffer is always in exactly one place: *)
(* a queue, a thread, or freed.  (NetRx leaving its loop with an empty    *)
(* buffer lets it go out of scope.)                                       *)
BufferConservation == \A b \in Buffers : Holders(b) = 1

(* Spec 8.2: the seqnos a NetRx pushes to db_q are 0, 1, 2, ... in order, *)
(* across full pushes, opportunistic swaps and the final flush.           *)
SeqnoContiguous ==
    \A c \in Conns : \A i \in DOMAIN emitted[c] : emitted[c][i] = i - 1

(* Bytes of connection c written to files, and still on their way. *)
Written(c) == MapThenSumSet(LAMBDA f : f.len, {f \in files : f.src = c})
InFlight(c) ==
    MapThenSumSet(LAMBDA b : size[b],
        {b \in Buffers : src[b] = c /\ (b \in Queued(db_q) \/ rx[c].cur = b
                                       \/ \E w \in Writers : wr[w].buf = b)})

(* No byte is lost or invented: every byte recv() returned is in a file   *)
(* of its stream (at its unpadded length), in a failed write, or in a     *)
(* buffer held by a NetRx, a writer or db_q.                              *)
NoDataLoss ==
    \A c \in Conns : recvd[c] = Written(c) + lost[c] + InFlight(c)

(* Spec 3 lifecycle step 4 and 4.4: by the time run() has returned, the   *)
(* writers have written everything the NetRx threads received (provided   *)
(* some writer's mover was set up at all).                                *)
ShutdownWritesAll ==
    /\ spc = "done"
    /\ \E w \in Writers : ~wr[w].dmeFailed
    => \A c \in Conns : recvd[c] = Written(c) + lost[c]

(* Spec 5: file names <stream>.<seqno> identify a stream's buffer, so two *)
(* written files of the same name come from the same connection.          *)
UniqueOutputNames ==
    \A f, g \in files : f.name = g.name => f.src = g.src

(* Every writer is stopped: killed by run(), or its mover failed. *)
WritersGone == \A w \in Writers : wr[w].killed \/ wr[w].dmeFailed

(* A buffer pushed to db_q is eventually taken and written, unless every  *)
(* writer has been stopped.                                               *)
DirtyDrained ==
    \A b \in Buffers :
        b \in Queued(db_q) ~> (b \notin Queued(db_q) \/ WritersGone)

(* After a signal (or a failed accept) run() eventually returns: every    *)
(* writer and NetRx thread is joined.                                     *)
ShutdownCompletes == (killed \/ spc # "accept") ~> spc = "done"

=============================================================================
