----------------------------- MODULE Generator -----------------------------
(***************************************************************************)
(* The traffic generator: tools/iodme-generator.cc run(), the pump thread *)
(* (src/pump.cc) that allocates a frame per tick and pushes it into a      *)
(* bounded queue, and the nettx thread (src/nettx.cc) that pops, sends and *)
(* frees frames.  A frame is its seqno, which also names its buffer's      *)
(* resources in `kern`: the mappings, memfds and metadata records the      *)
(* Buffer operators (alloc, add_metadata, free) have acquired and not yet  *)
(* released.                                                               *)
(***************************************************************************)
EXTENDS Integers, Sequences, SequencesExt

CONSTANTS MaxFrames,    \* frames the pump makes (bound on its seqno)
          FrameSize,    \* --frame-size: the pump's alloc() size
          QCap,         \* capacity of the frame queue
          MetaCanFail,  \* add_metadata's new(nothrow) may fail
          None

ASSUME MaxFrames \in Nat \ {0} /\ FrameSize \in Nat \ {0} /\ QCap \in Nat \ {0} /\ MetaCanFail \in BOOLEAN

VARIABLES q,       \* the frame queue (pump -> nettx): Queue.tla entries
          seqno,   \* the pump's next seqno
          kern,    \* [maps, fds, metas]: frames whose resources are live
          pump,    \* [st, killed]: st is "new", "failed", "head", "body" or "exited"
          tx,      \* [st, killed, held, failed]: st "new", "failed", "head", "pop", "send", "exited"
          wire,    \* what went out on the socket: <<frame, whole>> per send
          sig,     \* the signal handler's `killed`
          sup,     \* run()'s position
          metaLost, \* frames dropped after a failed add_metadata (never freed)
          pushed    \* frames the pump's _q.push() accepted

vars == <<q, seqno, kern, pump, tx, wire, sig, sup, metaLost, pushed>>

Frames == 0..MaxFrames - 1

B == INSTANCE Buffer WITH NoFd <- -1

(* iodme::queue as spec 4.2 promises it; the pump is its only producer,    *)
(* so its per-producer FIFO is the whole order.                            *)
Q == INSTANCE Queue

\* A frame's buffer once the pump has filled it: memset, size = capacity.
FrameBuf == [B!Reset EXCEPT !.base = "mapped", !.capacity = FrameSize,
                            !.size = FrameSize, !.meta = TRUE]

\* thread::running(): set by start(), cleared when loop() returns.
Running(t) == t.st \in {"head", "body", "pop", "send"}

\* thread::~thread may join only a thread that is not running any more.
Joinable(t) == t.st \in {"new", "failed", "exited"}

Init == /\ q = <<>>
        /\ seqno = 0
        /\ kern = [maps |-> {}, fds |-> {}, metas |-> {}]
        /\ pump = [st |-> "new", killed |-> FALSE]
        /\ tx = [st |-> "new", killed |-> FALSE, held |-> None, failed |-> FALSE]
        /\ wire = <<>>
        /\ sig = FALSE
        /\ sup = "setup"
        /\ metaLost = {}
        /\ pushed = {}

\* ---------------------------------- pump ----------------------------------
\* Loop head: while (!_killed); the seqno bound stands for the pump's sleep.
PumpHead == /\ pump.st = "head"
            /\ \/ pump.killed /\ pump' = [pump EXCEPT !.st = "exited"]
               \/ ~pump.killed /\ seqno < MaxFrames /\ pump' = [pump EXCEPT !.st = "body"]
            /\ UNCHANGED <<q, seqno, kern, tx, wire, sig, sup, metaLost, pushed>>

\* One frame: m.seqno = seqno++, then alloc, add_metadata, push.
PumpFrame(next) == /\ pump.st = "body"
                   /\ seqno' = seqno + 1
                   /\ pump' = [pump EXCEPT !.st = "head"]
                   /\ next
                   /\ UNCHANGED <<tx, wire, sig, sup>>

\* b.alloc(_size) without flags; failed_alloc() has freed what it got.
PumpAllocFail ==
    PumpFrame(/\ \E a \in B!AllocOutcomes(seqno, FrameSize, FALSE, kern) :
                    ~a.ok /\ kern' = a.k
              /\ UNCHANGED <<q, metaLost, pushed>>)

\* The outcomes of b.add_metadata(m) after a successful b.alloc(_size).
Metadata ==
    UNION {B!AddMetadataOutcomes(seqno, a.b, a.k, MetaCanFail) :
             a \in {x \in B!AllocOutcomes(seqno, FrameSize, FALSE, kern) : x.ok}}

\* add_metadata() fails: `continue` drops the frame without b.free().
PumpMetaFail == PumpFrame(/\ \E m \in Metadata : ~m.ok /\ kern' = m.k
                          /\ metaLost' = metaLost \cup {seqno}
                          /\ UNCHANGED <<q, pushed>>)

PumpPushed == /\ Q!Accepts(q)
              /\ PumpFrame(/\ \E m \in Metadata : m.ok /\ kern' = m.k
                           /\ q' = Q!Push(q, "pump", seqno)
                           /\ pushed' = pushed \cup {seqno}
                           /\ UNCHANGED metaLost)

\* _q.push() fails on a full queue: b.free() and drop the frame.
PumpDropped ==
    /\ ~Q!Accepts(q)
    /\ PumpFrame(/\ \E m \in Metadata : m.ok /\ kern' = B!Free(seqno, FrameBuf, m.k)
                 /\ UNCHANGED <<q, metaLost, pushed>>)

PumpNext == PumpHead \/ PumpAllocFail \/ PumpMetaFail \/ PumpPushed \/ PumpDropped

\* ---------------------------------- nettx ----------------------------------
\* Loop head; on exit the trailing b.free() has nothing to free.
TxHead == /\ tx.st = "head"
          /\ tx' = [tx EXCEPT !.st = IF tx.killed THEN "exited" ELSE "pop"]
          /\ UNCHANGED <<q, seqno, kern, pump, wire, sig, sup, metaLost, pushed>>

TxPopLastStays ==
    /\ tx.st = "pop"
    /\ \/ \E i \in Q!Poppable(q) :
          /\ Len(q) > 1
          /\ tx' = [tx EXCEPT !.st = "send", !.held = Q!Item(q, i)]
          /\ q' = Q!Pop(q, i)
       \/ Len(q) <= 1 /\ tx' = [tx EXCEPT !.st = "head"] /\ UNCHANGED q
    /\ UNCHANGED <<seqno, kern, pump, wire, sig, sup, metaLost, pushed>>

\* if (!_q.pop(b)) { usleep(100); continue; }: no condition variable, nettx
\* polls the queue.
TxPop == /\ tx.st = "pop"
         /\ \/ \E i \in Q!Poppable(q) :
                 /\ tx' = [tx EXCEPT !.st = "send", !.held = Q!Item(q, i)]
                 /\ q' = Q!Pop(q, i)
            \/ q = <<>> /\ tx' = [tx EXCEPT !.st = "head"] /\ UNCHANGED q
         /\ UNCHANGED <<seqno, kern, pump, wire, sig, sup, metaLost, pushed>>

TxSentKilledNoFree ==
    /\ tx.st = "send"
    /\ \E whole \in IF sig THEN BOOLEAN ELSE {TRUE} :
          wire' = Append(wire, <<tx.held, whole>>)
    /\ kern' = IF tx.killed THEN kern ELSE B!Free(tx.held, FrameBuf, kern)
    /\ tx' = [tx EXCEPT !.st = IF tx.killed THEN "exited" ELSE "head", !.held = None]
    /\ UNCHANGED <<q, seqno, pump, sig, sup, metaLost, pushed>>

TxSendErrorNoBreak ==
    /\ tx.st = "send"
    /\ kern' = B!Free(tx.held, FrameBuf, kern)
    /\ tx' = [tx EXCEPT !.st = "head", !.held = None, !.failed = ~tx.killed]
    /\ UNCHANGED <<q, seqno, pump, wire, sig, sup, metaLost, pushed>>

TxSendErrorNoReset ==
    /\ tx.st = "send"
    /\ kern' = B!Free(tx.held, FrameBuf, kern)
    /\ tx' = [tx EXCEPT !.st = "exited", !.failed = ~tx.killed]
    /\ UNCHANGED <<q, seqno, pump, wire, sig, sup, metaLost, pushed>>

(* send() returns r >= 0: whole, or short when a signal interrupted it.    *)
(* Then: if (_killed) break (the b.free() after the loop frees it), else   *)
(* warn on a short send, b.free(), loop.                                    *)
TxSent == /\ tx.st = "send"
          /\ \E whole \in IF sig THEN BOOLEAN ELSE {TRUE} :
                wire' = Append(wire, <<tx.held, whole>>)
          /\ kern' = B!Free(tx.held, FrameBuf, kern)
          /\ tx' = [tx EXCEPT !.st = IF tx.killed THEN "exited" ELSE "head",
                              !.held = None]
          /\ UNCHANGED <<q, seqno, pump, sig, sup, metaLost, pushed>>

\* send() < 0 (peer reset, EINTR): _failed unless _killed; break; b.free().
TxSendError == /\ tx.st = "send"
               /\ kern' = B!Free(tx.held, FrameBuf, kern)
               /\ tx' = [tx EXCEPT !.st = "exited", !.held = None,
                                   !.failed = ~tx.killed]
               /\ UNCHANGED <<q, seqno, pump, wire, sig, sup, metaLost, pushed>>

TxNext == TxHead \/ TxPop \/ TxSent \/ TxSendError

\* ---------------------------------- run() ----------------------------------
\* SIGINT, SIGHUP or SIGTERM.
Signal == /\ ~sig /\ sig' = TRUE
          /\ UNCHANGED <<q, seqno, kern, pump, tx, wire, sup, metaLost, pushed>>

(* run() before the threads: setup_rt_sched() and setsockopt(SO_SNDBUFFORCE) *)
(* only warn; socket(), getaddrinfo() or connect() failing returns false  *)
(* before the queue and the threads exist.                                 *)
Setup == /\ sup = "setup"
         /\ sup' \in {"startTx", "done"}
         /\ UNCHANGED <<q, seqno, kern, pump, tx, wire, sig, metaLost, pushed>>

\* d_nettx->start(); pthread_create may fail, and then run() returns.
StartTx == /\ sup = "startTx"
           /\ \/ tx' = [tx EXCEPT !.st = "head"] /\ sup' = "startPump"
              \/ tx' = [tx EXCEPT !.st = "failed"] /\ sup' = "killPump"
           /\ UNCHANGED <<q, seqno, kern, pump, wire, sig, metaLost, pushed>>

StartPump == /\ sup = "startPump"
             /\ \/ pump' = [pump EXCEPT !.st = "head"] /\ sup' = "watch"
                \/ pump' = [pump EXCEPT !.st = "failed"] /\ sup' = "killPump"
             /\ UNCHANGED <<q, seqno, kern, tx, wire, sig, metaLost, pushed>>

\* while (!killed) { if (!nettx.running() || !pump.running()) break; sleep }
Watch == /\ sup = "watch"
         /\ sig \/ ~Running(tx) \/ ~Running(pump)
         /\ sup' = "killPump"
         /\ UNCHANGED <<q, seqno, kern, pump, tx, wire, sig, metaLost, pushed>>

(* run() returns: the unique_ptrs die in reverse order, d_pump then        *)
(* d_nettx; each ~thread sets _killed and joins a created thread.          *)
KillPump == /\ sup = "killPump"
            /\ pump' = [pump EXCEPT !.killed = TRUE]
            /\ sup' = "joinPump"
            /\ UNCHANGED <<q, seqno, kern, tx, wire, sig, metaLost, pushed>>

JoinPump == /\ sup = "joinPump" /\ Joinable(pump)
            /\ sup' = "killTx"
            /\ UNCHANGED <<q, seqno, kern, pump, tx, wire, sig, metaLost, pushed>>

KillTxNoFlag == /\ sup = "killTx"
                /\ sup' = "joinTx"
                /\ UNCHANGED <<q, seqno, kern, pump, tx, wire, sig, metaLost, pushed>>

KillTx == /\ sup = "killTx"
          /\ tx' = [tx EXCEPT !.killed = TRUE]
          /\ sup' = "joinTx"
          /\ UNCHANGED <<q, seqno, kern, pump, wire, sig, metaLost, pushed>>

JoinTx == /\ sup = "joinTx" /\ Joinable(tx)
          /\ sup' = "done"
          /\ UNCHANGED <<q, seqno, kern, pump, tx, wire, sig, metaLost, pushed>>

\* The process has left run().
Terminated == sup = "done" /\ UNCHANGED vars

SupNext == Setup \/ StartTx \/ StartPump \/ Watch \/ KillPump \/ JoinPump \/ KillTx \/ JoinTx

Next == PumpNext \/ TxNext \/ SupNext \/ Signal \/ Terminated

Fairness == WF_vars(PumpNext) /\ WF_vars(TxNext) /\ WF_vars(SupNext)

Spec == Init /\ [][Next]_vars /\ Fairness
-----------------------------------------------------------------------------
\* Every variable holds a value of its kind, and nettx holds a frame exactly
\* while it is sending it (b.free() resets the handle on every path).
TypeOK ==
    /\ q \in Seq({"pump"} \X Frames) /\ Len(q) <= QCap
    /\ seqno \in 0..MaxFrames
    /\ kern \in [maps : SUBSET Frames, fds : SUBSET Frames, metas : SUBSET Frames]
    /\ pump.st \in {"new", "failed", "head", "body", "exited"}
    /\ tx.st \in {"new", "failed", "head", "pop", "send", "exited"}
    /\ tx.held \in Frames \cup {None}
    /\ (tx.held # None) = (tx.st = "send")
    /\ metaLost \subseteq Frames
    /\ pushed \subseteq Frames
    /\ sup \in {"setup", "startTx", "startPump", "watch", "killPump", "joinPump",
               "killTx", "joinTx", "done"}

(* No frame buffer leaks but the one known path: the live mappings are    *)
(* exactly those of the frames in the queue, the frame nettx holds, and    *)
(* the frames the pump dropped after a failed add_metadata (the `continue` *)
(* without b.free()); the live metadata records are those of the first two *)
(* and no memfd is open.  This holds whatever path the pump's allocation   *)
(* failure, its drop on a full queue, nettx's send error or its            *)
(* kill-after-send took.                                                   *)
FrameAccounting ==
    LET live == Q!Items(q) \cup (IF tx.held = None THEN {} ELSE {tx.held})
    IN  /\ kern.maps = live \cup metaLost
        /\ kern.metas = live
        /\ kern.fds = {}

\* The frames on the wire, in the order nettx sent them.
Sent == [i \in DOMAIN wire |-> wire[i][1]]

(* The sink, which gets no framing header and no seqno, sees the frames   *)
(* the pump queued as a gap-free prefix, in seqno order, each once: the    *)
(* frames sent are exactly the pushed frames up to the last one sent.      *)
(* It takes the FIFO queue, nettx's single pop per send, the reset of its  *)
(* handle and the `break` after a failed send (a frame popped and not      *)
(* sent must be the last one taken), across every drop and shutdown.       *)
FramesLeaveInOrder ==
    wire # <<>> => Sent = SetToSortSeq({f \in pushed : f <= Last(Sent)}, <)

\* What ends run(): a signal, or nettx or the pump not running.
StopTrigger == sig \/ tx.st \in {"failed", "exited"} \/ pump.st = "failed"

(* Once a signal arrives or a thread has stopped, run() returns and both   *)
(* threads are joined: the reverse-order destruction sets each _killed and *)
(* each loop sees it.                                                      *)
ShutdownCompletes == StopTrigger ~> (sup = "done")

(* Every frame the pump queues reaches the socket unless run() is stopping: *)
(* nettx has no condition variable and polls the queue (pop, usleep,       *)
(* continue), and still takes every frame, the last one pushed included,   *)
(* until a signal arrives or a thread stops.                               *)
FramesEventuallySent ==
    \A f \in Frames : (f \in pushed) ~> (f \in ToSet(Sent) \/ StopTrigger)
=============================================================================
