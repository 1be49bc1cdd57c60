# TLA+ models of iodme

These modules model the iodme zero-copy data mover. The sink receives TCP streams into a pool of large buffers and writes each buffer out as one file. The models are checked with TLC. `PROJECT.json` lists each component, each run, the mutants, the source lines each definition models (`map`), the findings and the hazards.

## 1. Inventory

### Components and their state

| Component | Source | State | Operations |
|---|---|---|---|
| Buffer | `include/iodme/buffer.hpp`, `src/buffer.cc` | `base`, `capacity`, `size`, `fd` (-1 or memfd), `meta` (name, seqno) | `alloc` (memfd_create, ftruncate, mmap; each may fail), `free`, `add_metadata`, `put`, `clear`, `reset`, `room` |
| Queue | `include/iodme/queue.hpp` (**not in the tree**; modelled from spec 4.2) | a bounded queue of buffer handles, FIFO per producer (spec 4.2) | non-blocking `push` (false when full), `pop` (false when empty) |
| Worker thread base | `src/thread.cc`, `include/iodme/thread.hpp` | `_running`, `_failed`, `_killed`, `_thread_created` | `start` (sets running, pthread_create may fail), `entry` (runs `loop()`, then clears running), `kill`, `~thread` (sets `_killed`, joins) |
| NetRx | `src/netrx.cc`, `include/iodme/netrx.hpp` | socket, the held buffer `b`, the next `seqno`, the stream name `data-stream-<fd>` | its loop: pop a clean buffer and stamp it (`new_frame`); `recv` returns error, 0 or data; push the buffer when it is full; swap to a fresh buffer when `room < capacity/8` and one is free; flush on exit. `~netrx` closes the socket. |
| FileWriter | `src/file-writer.cc`, `include/iodme/file-writer.hpp` | output dir, flags DIRECTIO/SPLICE, a DataMover, the held buffer | its loop: pop a dirty buffer, `do_write`, `clear`, push it to clean. `do_write` pads for O_DIRECT, opens the file, writes through sendfile, vmsplice or writev, then fsyncs, truncates the pad, closes, and unlinks on failure. |
| DataMover | `src/mover.cc` (`mover.hpp` not in the tree) | a pipe pair sized to pipe-max-size, `_failed`, `_errno` | constructor (`pipe` may fail), `do_write(iov)` (vmsplice/splice loop with `update_iov`), `do_write(fd)` (one sendfile) |
| Sink supervisor | `tools/iodme-sink.cc` | `killed` (signal flag), `cb_q`, `db_q`, the `netrxs` and `writers` vectors | pre-allocates the pool, starts the writers, then loops: accept a connection and start a NetRx; on EAGAIN reap finished NetRx; on any other accept error return. On a signal it drains `cb_q` and returns, and the destructors then kill and join the writers and then the NetRx threads. |
| Generator | `src/pump.cc`, `src/nettx.cc`, `tools/iodme-generator.cc` | a queue, pump `seqno` | pump allocates a frame each tick and pushes it (it frees and drops the frame when the queue is full); nettx pops, sends and frees; run() watches both threads |
| File-write benchmark | `tools/iodme-file-write.cc` | one buffer | 20 sequential writes through the DataMover |
| Timesource, logging | `include/iodme/timesource.hpp` | clock id | clock reads only |

### How they interact

- **Shared queues.** NetRx threads pop from `cb_q` and push to `db_q`. Writers pop from `db_q` and push to `cb_q`. The supervisor drains `cb_q` at shutdown.
- **Shared flags.** The supervisor reads each worker's `_running` to reap it, and writes `_killed` from the destructor. A signal sets the sink's `killed`.
- **Descriptors.** The stream name is built from the accepted socket's fd number. That fd is closed when the NetRx is destroyed, and `accept` can then hand it out again.
- **Buffer memory.** A buffer is handed over by value (the `buffer` struct is copied). Ownership is a convention: the sender must `reset()` its copy or stop using it.

### What makes it hard

- **Concurrency.** N NetRx threads and M writers run in parallel. The queues are the only synchronisation, and every queue call is non-blocking, with a sleep-and-retry loop around it.
- **Failure paths.** Any recv can fail or return 0 at any iteration. A write can fail. The DataMover can fail at construction. `pthread_create` can fail. Accept can fail with something other than EAGAIN. These failures interleave with the shutdown sequence.
- **Ordering.** Shutdown has a fixed order: drain `cb_q`, destroy the writers, destroy the NetRx threads. Inside `~netrx` the socket is closed before `_killed` is set.
- **Partial syscalls.** vmsplice, splice, sendfile and writev can each return a short count. The vmsplice path then rewinds the iovec with `update_iov`.
- **Numeric edges.** The O_DIRECT pad must fit in `room()`. `buff_size` is computed in 32 bits. Per-call transfer limits apply to large buffers.

### Properties that make each component correct

- **Buffer pool.** A buffer has exactly one owner at a time: a queue, a thread, or freed (spec 8.1). It is never aliased. A memfd buffer's mapping is the memfd (spec 8.4).
- **NetRx.** The seqnos it pushes are 0, 1, 2, ... (spec 8.2). It never pushes an empty buffer (spec 8.3). Every byte it receives reaches `db_q`.
- **FileWriter.** Every dirty buffer is written or its failure is reported. A written file has the unpadded length (spec 8.5) and holds the received bytes. The buffer always goes back to `cb_q`.
- **DataMover.** It delivers exactly the L bytes of the iovec, in order, whatever partial counts the syscalls return (spec 8.7). It leaves nothing behind in its pipe.
- **Supervisor.** File names are unique per stream and seqno. Shutdown completes, and by then everything received has been written and the pool freed (spec section 3, step 4, and S4).

## 2. Plan

Modules in the order they are built; each composes nothing but its own component unless said.

1. **`Pipeline.tla`** (done) — the whole sink: pool, both queues, NetRx threads, writers and the supervisor with its shutdown; `do_write` abstracted to its outcome. `MCPipeline.tla` and `MCPipeline*.cfg` instantiate it.
2. **`Mover.tla` + `MoverCopy.tla`** (done) — the DataMover driven by one writer through a sequence of calls; `MoverCopy` is the abstract byte copy it refines.
3. **`Generator.tla`** (done) — pump → queue → nettx and the generator's run().
4. **`FileWriter.tla`** (done) — the syscall sequence of `do_write` (pad, open, write path, fsync, ftruncate, close, unlink) against a live and a crash image of the file system; the DataMover's two do_write loops are repeated over byte counts. Still open: showing it implements Pipeline's atomic `WriteDone`/`WriteFailed`. The uint32 `buff_size` arithmetic is beyond TLC's integers (section 10).
5. **`Buffer.tla`** (done) — `reset`/`room`/`put`/`free`/`alloc`/`add_metadata` as operators, with every failure outcome of `alloc` and `add_metadata`, over the kernel resources a buffer holds. It has no run of its own: Generator uses it for every frame (checked by `FrameAccounting`) and FileWriter for the buffer it pads.
6. **`Queue.tla`** (done, spec-modelled) — the queue contract of spec 4.2 (bounded, non-blocking, FIFO per producer only); Pipeline's two queues and Generator's frame queue are Queue values.
7. **`FileWriteTool.tla`** (done) — the write benchmark, composed with `Mover` by `INSTANCE` over shared variables.

## 3. `Pipeline.tla`: how the model corresponds to the code

**Data abstraction.** A buffer holds `size[b]` units of at most `Cap`. A recv returns a count. A file is a record `[name, src, seqno, len]`; `len` is `FileLength(b)`, the buffer's size plus the pad `put` added (`PadPut`) minus do_write's `pad` (`DirectIOPad`), which the ftruncate subtracts whether or not it was added. Ghost variables record where the bytes came from and where they went: `src`, `recvd`, `emitted`, `files` and `lost`.

**State.**

- `cb_q` and `db_q` are Queue.tla values: `<<producer, buffer>>` entries in push order, where a NetRx pushes as its connection, a writer as its index and run()'s pre-allocation as `Main`. A pop takes the oldest entry of any one producer. `size` and `meta` are indexed by buffer.
- `rx[c]` holds NetRx c's loop position, held buffer, next seqno, socket fd, whether the socket is open, and `_killed`.
  - The loop position `st` is one of idle, head, recv, exited or gone.
  - `head` is the loop head.
  - `recv` is right after a pop in the same iteration, where the code goes on to `recv` without re-checking `_killed`.
- `wr[w]` holds the writer's position, held buffer and `_killed`, plus a ghost `dmeFailed` for a failed DataMover.
- `spc` is run()'s position: the accept loop, the drain, or one of the destructors. `netrxs` is the vector of NetRx objects. `wjoin` is the index of the writer being destroyed.

**Actions**, one per branch of the code (`map` in PROJECT.json gives the lines):

- **NetRx.**
  - `RxAcquire`: pop and `new_frame`.
  - `RxExit`: `_killed` seen at the loop head.
  - `RxRecvError`: recv < 0.
  - `RxPeerClosed`: recv = 0.
  - `RxFull`: no room left, so push and `reset`.
  - `RxSwap`: `room < capacity/8` and a clean buffer was popped.
  - `RxKeep`: keep filling the same buffer.
  - The three exits share `RxLeave`, which flushes the buffer only if `b.size != 0`.
- **Writer.**
  - `WriterInit`: the DataMover constructor, which may fail.
  - `WriterPop`, `WriterExit`.
  - `WriteDone`/`WriteFailed`: `do_write`, then `clear` and push.
- **Supervisor.**
  - `Accept`: a free fd, and `pthread_create` may fail.
  - `Reap`: on EAGAIN.
  - `AcceptFailed`: another errno, so return without draining.
  - `Signal`, `StopAccepting`, `DrainClean`/`DrainDone`.
  - `KillWriter`/`JoinWriter`: in index order.
  - `CloseRx`/`KillRx`/`JoinRx`: in vector order.
  - `RunReturns`, then `Terminated`, the stopped process.

**Atomicity.** Each action is one thread's step between two queue operations or flag accesses. The swap step pops from `cb_q` and pushes to `db_q` in one action. Nothing else reads the buffers it touches, and the queues are internally synchronised.

### Runs

| Run | cfg | Expect | What it shows |
|---|---|---|---|
| pipeline_safety | `MCPipeline.cfg` | pass | Buffers are never aliased (`ExclusiveOwnership`). Per-stream seqnos are contiguous (`SeqnoContiguous`). Every received byte is in a file at its unpadded length, in a reported failed write, or in a held or dirty buffer (`NoDataLoss`). |
| pipeline_liveness | `MCPipelineLive.cfg` | pass | A dirty buffer is eventually written unless every writer has stopped (`DirtyDrained`). After a signal or a failed accept, run() returns (`ShutdownCompletes`). |
| pipeline_buffer_leak | `MCPipelineLeak.cfg` | violation | `BufferConservation`: a NetRx that pops a buffer and then sees recv return 0 or -1 drops that buffer from the pool for good. |
| pipeline_shutdown_loses_data | `MCPipelineShutdown.cfg` | violation | `ShutdownWritesAll`: writers are killed at their loop head before they drain `db_q`, so run() returns with received data unwritten. |
| pipeline_stream_name_reuse | `MCPipelineNames.cfg` | violation | `UniqueOutputNames`: the next connection reuses a reaped socket's fd, so its `data-stream-<fd>.000000` overwrites the earlier stream's file. |

### Bounds, and why they are enough

- **Buffers and queues.** Two buffers, `QCap = 2`. The queue can hold the whole pool, as spec 4.2 requires.
- **Connections and fds.** Two connections and two fds. `MCPipelineNames.cfg` uses one fd, so that a reaped connection's fd must be reused.
- **Writers.** Two writers in the safety run. They exercise a writer holding a buffer while another pops, and the index-ordered destruction. The liveness run uses one writer to keep the temporal check small.
- **Buffer size.** `Cap = 16`, the smallest capacity at which the code's `room < capacity/8` test (room 1) differs from `room == 0`.
- **recv counts.** recv returns `Cap - 1` or `Cap` bytes, capped by the room and by what the peer has left. This reaches the full push, the swap and keep-filling branches, and an odd-sized buffer.
- **Peer data.** Each peer sends at most `MaxBytes = 16`. That is enough for a full buffer followed by a swap, or a swap followed by a second buffer.
- **Direct I/O.** `DirectIOBlock = 4` with DIRECTIO on, so that odd sizes are padded and the pad must be truncated away. `Cap` is a multiple of the block, as the sink's MB-sized capacities are of 512, so the pad always fits; the no-room fallback is FileWriter's run `filewriter_pad_truncates`. The ftruncate's own failure is left to FileWriter.
- **Symmetry.** The safety run uses symmetry over buffers, connections and fds, which are interchangeable model values. The liveness run has no symmetry.

### Fairness

Weak fairness applies to each NetRx, each writer, and the supervisor's shutdown steps.

- **Writers and supervisor.** They only sleep and retry, so they keep stepping.
- **NetRx.** Fairness here means that a blocked `recv` eventually returns. The peer sends, closes or resets. A generator sending at its frame rate gives this, and after `~netrx` closes the socket, recv fails.
- **Not fair.** Accepting, the signal and a failing accept are left to the environment.

**Deadlock** is checked. The only stop is `Terminated`, after run() has returned.


## 4. `Mover.tla`: the DataMover

**Scope.** One writer thread owns one mover and calls `do_write` once per buffer, so the model is a sequence of up to `MaxCalls` calls through the same object. The pipe therefore persists from call to call, as it does in `file_writer::loop` and in `iodme-file-write`.

**Data.** A byte is `<<c, i>>`, byte i of the buffer of call c.
- The iovec is an array of `[base, len]` segments, with the pointer `head` (0 for NULL) and `iovcnt`.
- `pipe` is the sequence of bytes in the pipe.
- `out[c]` is what call c's file received.
- `result[c]` is do_write's return value.

**Actions.**
- `Start`: the writer builds the iovec and picks the path. `b.fd != -1` gives sendfile; otherwise the SPLICE flag gives vmsplice.
- `Vmsplice`:
  - Takes the first m pending bytes, 1 ≤ m ≤ the pipe's free room. The count is partial whenever the pipe is smaller than the buffer (spec S6).
  - There is no step for a full pipe, because the call then blocks for good.
  - Then calls `update_iov`, a RECURSIVE operator that transliterates the loop at mover.cc:88-101, including its `return 0` after the loop.
- `Splice`: moves n bytes, or fewer when `ShortSplice` holds. It tests only for < 0 and loops while the pointer is non-NULL.
- `VmspliceFail`, `SpliceFail`: return false, leaving the pipe as it is.
- `Sendfile`: moves min(len, `MaxXfer`) bytes, and any non-negative return counts as success. `SendfileFail` returns false.

**Abstract spec.** `MoverCopy.tla` states what a caller may rely on. A call is Begin followed by either Copy, which puts exactly the buffer's bytes in order into the file and returns true, or Fail. `Mover` instantiates it with this mapping:
- `busy` is `pc # "idle"`.
- `len` is each call's total.
- `file[c]` is `out[c]` once the call has returned true, and empty otherwise: a failed file is unlinked.

`MoverRefinesCopy` is that instance's `Spec` checked as a PROPERTY. A step of `Mover` that completes a call must be a `Copy`, so a short, shifted or foreign file reported as written violates it.

| Run | cfg | Expect | What it shows |
|---|---|---|---|
| filewrite_tool_mover | `MCFileWriteTool.cfg` | pass | The mover under the benchmark of section 9: two calls through one mover on either path, every length from 1 to 5, every failure including a splice failing after its vmsplice (which ends the benchmark). Every call that returned true gave its file exactly the buffer. |
| mover_two_segments | `MCMoverTwoSegments.cfg` | violation | A 2-segment iovec. When vmsplice ends exactly at the segment boundary, `update_iov` steps past the segment, then leaves its loop with `used = 0` and returns NULL, so do_write returns true after the first segment. This contradicts spec 8.7, "for any iovec". Both callers pass one segment, so the bug is latent. |
| mover_pipe_leftovers | `MCMoverLeftovers.cfg` | violation | The splice count is never compared with n, and the pipe is never emptied. A short splice makes a short file reported as written. A splice failing after its vmsplice leaves bytes that the writer's next call writes at the head of the next file. |

**Bounds.** A 2-byte pipe with buffers of up to 5 bytes gives up to three vmsplice rounds per call. The pass run makes two calls, as its caller makes them: a failed call ends the benchmark, and without a short splice a call that returned true leaves the pipe empty; the leftovers run makes two calls, the fewest that show a pipe carried from one call into the next. `MaxXfer` is at least every length in the runs: that is the default configuration, with buffers below 2 GB. With `MaxXfer` below a buffer's length, the sendfile path violates the refinement; this is a hazard in PROJECT.json.

**Deadlock.** Deadlock is checked. `Finished` is the stop after the last call (in the violation runs; the pass run's stop is the benchmark's `Exited`).

## 5. `Generator.tla`: pump, nettx and the generator's run()

**State.**
- `q` is the frame queue (a Queue.tla value with the pump as its only producer, so it is a strict FIFO) and `seqno` is the pump's counter.
- `kern` is the kernel resources of Buffer.tla: `maps`, `fds` and `metas`, the frames whose mapping, memfd and metadata record are live.
- `metaLost` is a ghost: the frames dropped after a failed `add_metadata`.
- `pump` and `tx` are the two threads' positions and `_killed` flags; nettx also has its held frame and `_failed`.
- `wire` records each send and whether it was whole.
- `sig` is the signal flag, and `sup` is run()'s position.
- `pushed` is a ghost: the frames `_q.push()` accepted.

**Actions.**
- **Pump.**
  - `PumpHead`: the `while (!_killed)` test.
  - Then one frame, built from Buffer.tla's outcome sets: `PumpAllocFail` (an `AllocOutcomes` outcome with `ok` false, which has already freed what it took), `PumpMetaFail` (an `AddMetadataOutcomes` failure: the frame is dropped without `b.free()`, its mapping stays in `kern.maps`), `PumpPushed`, or `PumpDropped` (a full queue, so `Free`).
  - nettx's frees are Buffer.tla's `Free` of `FrameBuf`, the buffer the pump filled (capacity = size = `FrameSize`, metadata attached).
- **nettx.**
  - `TxHead`, then `TxPop` (which succeeds or sleeps).
  - `TxSent`: r ≥ 0, short only after a signal has interrupted the send. Then either `_killed` breaks out, with the free after the loop, or the thread frees the frame and loops.
  - `TxSendError`: breaks out and frees.
- **run().**
  - `Setup`: socket, setsockopt (a warning only), getaddrinfo and connect. A failure returns false before the queue and the threads exist.
  - `StartTx`, `StartPump`: pthread_create may fail, and then run() returns.
  - `Watch`: the `while (!killed)` loop, which leaves when either thread stops.
  - Then the destructors in reverse order: `KillPump`/`JoinPump`, then `KillTx`/`JoinTx`.

| Run | cfg | Expect | What it shows |
|---|---|---|---|
| generator_safety | `MCGenerator.cfg` | pass | `FrameAccounting`: every allocated, unfreed frame is in the queue, held by nettx, or one the pump dropped after a failed `add_metadata`. `ShutdownCompletes`: after a signal, or once a thread has stopped, run() returns with both threads joined. `FramesLeaveInOrder`: the frames on the wire are exactly the queued frames up to the last one sent, in seqno order, each once; it depends on nettx's `break` after a failed send (a mutant that carries on skips the frame). All four hold across allocation and metadata failures, drops, send errors, a kill arriving during a send, and every shutdown interleaving. `FramesEventuallySent`: every frame the pump queues reaches the socket unless a signal has arrived or a thread has stopped; nettx polls the queue (pop, `usleep`, retry), and an off-by-one in its pop test strands the last frame. |

`add_metadata` failing makes pump.cc:58-61 `continue` without `b.free()`, a leak. The model records the frames dropped on that path in the ghost set `metaLost`, so `FrameAccounting` states that they are the only frames that leak. The leak is a hazard in PROJECT.json, not a violation run: the generator lies outside the spec's core and the path needs an out-of-memory `new`.

**Bounds.** Four frames and a 2-slot queue, enough for the queue to fill and drop.

**Fairness.** Weak fairness on each thread and on run(). nettx's fairness assumes `send()` returns, which holds while the sink reads. A stalled sink would hang shutdown; this is a hazard in PROJECT.json.

## 6. `Queue.tla`: the queue contract

`include/iodme/queue.hpp` is not in the tree, so the queue is modelled from spec 4.2: a concurrent bounded FIFO whose `push` and `pop` are non-blocking, with no order between producers and FIFO order per producer only. A queue value is the sequence of `<<producer, item>>` entries in push order.
- `Push` and `Accepts`: push appends when there is room and otherwise leaves the queue unchanged (the callers in the sink ignore the false result).
- `Poppable`, `Item`, `Pop`: pop may return the oldest entry of any one producer.
- Push and pop are single steps: the queue is taken to be linearizable.

It has no run of its own. Every Pipeline run and the generator run use it, so their results hold for any queue meeting the spec, not only a strict FIFO: a writer may take one stream's buffer before an older buffer of another stream, and a NetRx may get a buffer a writer returned before one that run() pre-allocated. The lock-free ring itself cannot be modelled without its source.

## 7. `Buffer.tla`: the buffer and its kernel resources

An operator module, not a state machine: each operator takes a buffer record `[base, capacity, size, fd, meta]` and the kernel state `k = [maps, fds, metas]` (sets of buffer ids) and gives the new ones.
- `Reset`, `Room`, `Put`: buffer.hpp's `reset()`, `room()` and `put()`.
- `Free`: delete the metadata, `munmap` when `base` is set (a `MAP_FAILED` base releases nothing), `close(fd)` when `fd != -1`, then reset.
- `AllocOutcomes(id, n, memfd, k)`: the set of `[ok, b, k]` outcomes of `alloc`: `memfd_create` failing, `ftruncate` failing, `mmap` failing (each through `failed_alloc`, which frees), or success.
- `AddMetadataOutcomes`: `new (std::nothrow) metadata` succeeding or, when allowed, failing.

A caller's action picks one outcome with `\E`, so every failure is a disjunct that fires in the caller's run. Generator (section 5) and FileWriter (section 8) instantiate it with `NoFd <- -1`. The `FreeNoMunmap` mutant of `Free` breaks Generator's `FrameAccounting`, so that run checks `free()` too. The memfd path of `AllocOutcomes` has no caller among the runs: the sink pre-allocates its buffers once, and a failure there ends the process, so Pipeline's `Init` starts with the pool allocated.

## 8. `FileWriter.tla`: the syscall sequence of do_write

**Scope.** One writer makes up to `MaxCalls` calls of `file_writer::do_write`, each to a file of its own name (name reuse is Pipeline's `UniqueOutputNames`). The sink's options `--directio`, `--splice` and `--memfd` are chosen in `Init`, so one run covers every combination. `b.fd != -1` (memfd) sends the write through the DataMover's sendfile, else SPLICE through its vmsplice + splice loop, otherwise writev. The writer owns one mover for all its calls (file-writer.cc:145), so the mover's pipe, and the bytes a failed splice leaves in it (`inpipe`), carry over from call to call.

**Data.** The current call's buffer `b` is a Buffer.tla record: `Popped(opt, s)` is a pre-allocated buffer of capacity `Cap` (with a memfd under `--memfd`) filled with `s` bytes, and the pad is `B!Put` after a `B!Room` check. A file is `[on, len]`: its first `size[c]` bytes are the buffer's data and the rest is the zero pad. Two views of each file:
- `live` is the file as open/write/ftruncate/unlink left it.
- `durable` is what a crash would leave. `fsync` copies the live file into it, and so may the kernel's own writeback (`Writeback`) at any moment.

**Actions.**
- `Start(s)`: do_write's `pad` (`PadOf`: `512 - size % 512` under O_DIRECT) and the bytes `put` adds (`Padding`: the pad, or nothing when it exceeds `room()`; O_DIRECT is then dropped but `pad` keeps its value), then `open`, which may fail and return false with no file.
- `Writev`: returns all, fewer or -1, and anything but `b.size` is a failure.
- `Vmsplice`, `Splice`: mover::do_write's loop over the iovec. vmsplice takes as many pending bytes as the pipe has room for, or fails; splice moves the n bytes vmsplice gave it (fewer only with `MoverShort`), tested only for < 0, or fails and leaves them in the pipe. The loop returns true once nothing is pending. `pend` counts update_iov's pending bytes (iovcnt is 1, where section 4 shows update_iov right).
- `Sendfile`: one sendfile of `b.size` bytes (fewer only with `MoverShort`); any count >= 0 is success.
- `Sync`: `fsync` (its result ignored; failing only with `FsyncCanFail`) and `posix_fadvise`.
- `Finish`: `ftruncate(b.size - pad)` if padded (failing only with `FtruncCanFail`), `close`, `unlink` on failure, return.
- `Writeback(c)`, `Crash`: the kernel and the machine. After `Crash` the live view is the durable one, and the model stops.

| Run | cfg | Expect | What it shows |
|---|---|---|---|
| filewriter_outcomes | `MCFileWriter.cfg` | pass | `OutcomeMatchesFile`: while the machine runs, every call that returned true left a file holding all its data, followed by less than a block of zeros (the pad a failed ftruncate keeps), and every call that returned false left none (spec 7, 8.5), across write paths, failed syscalls, bytes left in the mover's pipe and a crash of the other call. |
| filewriter_pad_truncates | `MCFileWriterPad.cfg` | violation | `OutcomeMatchesFile`: a 5-byte buffer of capacity 6 needs a pad of 3 and has room for 1, so do_write falls back to regular I/O with nothing padded, then still ftruncates to `b.size - pad` = 2 and returns true. |
| filewriter_crash | `MCFileWriterCrash.cfg` | violation | `CrashLeavesCompleteFiles`: after a crash, the files of returned calls are exact or absent. Violated, because fsync comes before the ftruncate and the unlink and neither is synced. TLC's trace: a failed write's file comes back (writev -1, fsync of the empty file, unlink, crash); a padded file whose ftruncate was not synced comes back the same way. |

**Bounds.** Capacity 8 (a multiple of the 4-byte block, like the sink's buffers) gives 3 bytes (pad 1), 4 (none) and 5 (pad 3); a 2-byte pipe makes the 4- to 8-byte writes take several vmsplice rounds and lets a failed splice fill the pipe. Two calls show leftovers carried from one call into the next and a crash after one call has returned and during the next. `filewriter_outcomes` lets fsync and ftruncate fail; `filewriter_crash` keeps them succeeding, so its violation is not one of theirs. `MoverShort` is FALSE: a short splice or sendfile is reported as success, which section 4's `mover_pipe_leftovers` already shows. The `ASSUME` that a size with no room for its pad is at least the pad keeps `b.size - pad` from wrapping as uint32, as the sink's sizes do. `filewriter_pad_truncates` takes capacity 6, not a multiple of the block, to reach the no-room fallback.

**Not stated.** No property says a file reported written is durable: fsync's result is ignored (file-writer.cc:123), so once fsync fails nothing else makes the data durable, and do_write still returns true. This is a hazard in PROJECT.json.

**Deadlock.** Deadlock is checked. `Done` is the stop after the last call, or after a crash.

## 9. `FileWriteTool.tla`: the write benchmark

`tools/iodme-file-write.cc` maps one buffer (a memfd under `use_memfd`), builds one DataMover and writes the buffer 20 times to the same file. The module composes with `Mover`: it declares the mover's variables and takes `M == INSTANCE Mover` over them, so an iteration starts a mover call with `M!Start` and `MoverStep` runs the mover's own actions until it returns.

- `Init`: the arguments pick the path (`memfd` beats `splice`; otherwise writev) and the size (`Lens`, small buffer lengths; the tool's 1GB and 2GB differ in whether sendfile's per-call limit `MaxXfer` cuts them, and the run's `MaxXfer` covers every length, the 1GB case).
- `Setup`: memfd_create and ftruncate, mmap, the mover's constructor. Each may fail, and the process exits with 1.
- `Open`: open may fail (exit 1), then the write through the mover or `Writev`. writev is tested only for < 0, so a short count goes on like a whole one.
- `MoverReturned`: do_write returning false exits with 1.
- `Sync`: fsync, fadvise and close, results ignored. `Finish`: after the last iteration, exit 0.

The run `filewrite_tool_mover` (section 4) checks `TypeOK`, the mover's included, and `MoverRefinesCopy` through the instance. Two iterations, not 20: every iteration starts from the same state, because a call that returned true leaves the pipe empty. The short writev is a hazard without a property: the benchmark promises timings only.

## 10. Not modelled (yet), and why

- The sizing arithmetic of `iodme-sink.cc:159`: `buff-size` in MB times 2^20 in 32 bits gives values between 2^31 and 2^32, which TLC's 32-bit signed integers cannot hold. The models take the capacity as a constant; the wrap and the per-call limit are hazards in PROJECT.json.
- The sink's pre-allocation failures: they are fatal and run() just returns, so no state follows them. (In the pump an `alloc` failure drops a frame, and `PumpAllocFail` models that through Buffer.tla.)
- The memfd mapping: `buffer::alloc` maps a memfd buffer `MAP_ANONYMOUS|MAP_PRIVATE` (buffer.cc:93-97), which ignores the fd, so recv() fills anonymous memory and sendfile() writes the memfd's zeros: every `--memfd` output file holds zeros (spec 8.4 says the mapping is the memfd). It is one deterministic call, not a behaviour of interleavings or failures, so no model property is about it.
- `MFD_HUGETLB`: the `memfd_create` wrapper in buffer.cc passes flags 0, so `--hugepages` never reaches a memfd (spec 4.1 says it should). The page size changes no state the models track; this is a hazard in PROJECT.json.
- C++ object lifetime at thread destruction: the derived destructor (file_writer's `_odir`, `~netrx`'s `close`) runs before `~thread` sets `_killed` and joins, while the thread may still run. This is memory safety, not protocol state; it is a hazard in PROJECT.json.
- The sink's socket setup (socket, setsockopt, getaddrinfo, bind, listen) and its pre-allocation: a failure returns before any thread or connection exists, and the spec puts the socket lifecycle before accept out of scope. Pipeline starts after them.
- `do_nanosleep`'s 32-bit truncation of intervals of 2^32 ns or more. Pacing is not modelled state; this is a hazard in PROJECT.json.
- Socket setup, `setup_rt_sched`, option parsing, logging and the timesource have no state the pipeline reads.
- The `netrx::kill()` override: it is private and never called.
- `_failed`: set but never read by the sink.
- The lock-free implementation of `iodme::queue`: its header is not in the tree; section 6 models the contract spec 4.2 gives.
- The hazards PROJECT.json lists without a property, each with a note saying why: nettx's short send after a signal, SIGPIPE from `send()`, `do_nanosleep`'s 32-bit cast, the thread destructor running after the derived one, the dropped `MFD_HUGETLB`, the 32-bit `buff_size`, fsync's ignored result, a `vmsplice` into a full pipe, files written in place under their final name, the benchmark's short writev, and `~mover` closing uninitialised pipe descriptors after a failed `pipe()`. Most are beyond TLC's integers or outside the modelled state. The others would each need a violation run: a property the code breaks, one run per property. The project keeps twelve runs, and its violation runs are the findings that bear on the spec's guarantees.
