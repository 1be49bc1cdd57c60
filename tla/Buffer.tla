------------------------------- MODULE Buffer -------------------------------
(***************************************************************************)
(* iodme::buffer (include/iodme/buffer.hpp, src/buffer.cc) as operators on *)
(* a buffer record and on the kernel resources it holds.  A buffer is      *)
(* [base, capacity, size, fd, meta]: base is "null", "mapped" or "failed"  *)
(* (MAP_FAILED), fd is NoFd (-1) or a memfd, meta whether a metadata       *)
(* record is attached.  The caller names each buffer by an id; the kernel  *)
(* state k is [maps, fds, metas], the ids whose mapping, memfd and         *)
(* metadata are live.  Callers use them in their own actions.             *)
(***************************************************************************)
EXTENDS Naturals

CONSTANT NoFd

\* reset(): forget every field (the constructor does the same).
Reset == [base |-> "null", capacity |-> 0, size |-> 0, fd |-> NoFd, meta |-> FALSE]

Room(b) == b.capacity - b.size

\* put(n): the caller has filled n more bytes.
Put(b, n) == [b EXCEPT !.size = @ + n]

(* free(): delete meta; munmap(base, capacity) when base is not NULL (a    *)
(* munmap of MAP_FAILED fails and releases nothing); close(fd) when fd is  *)
(* not -1; then reset().  Returns the kernel state after it.  A mutant     *)
(* that forgets the munmap comes first.                                    *)
FreeNoMunmap(id, b, k) ==
    [k EXCEPT !.metas = IF b.meta THEN @ \ {id} ELSE @,
              !.fds   = IF b.fd # NoFd THEN @ \ {id} ELSE @]

Free(id, b, k) ==
    [k EXCEPT !.metas = IF b.meta THEN @ \ {id} ELSE @,
              !.maps  = IF b.base = "mapped" THEN @ \ {id} ELSE @,
              !.fds   = IF b.fd # NoFd THEN @ \ {id} ELSE @]

\* failed_alloc(b): b.free(), return false.
FailedAlloc(id, b, k) == [ok |-> FALSE, b |-> Reset, k |-> Free(id, b, k)]

(* alloc(size, flags, name): reset(); with MEMFD and a name, memfd_create  *)
(* (the wrapper passes no flags) and ftruncate(fd, size); then mmap with   *)
(* MAP_ANONYMOUS | MAP_PRIVATE; capacity = size.  Any failing step goes    *)
(* through failed_alloc.  The set of [ok, b, k] outcomes the kernel may    *)
(* choose between.                                                         *)
AllocOutcomes(id, n, memfd, k) ==
    LET withFd == [Reset EXCEPT !.fd = id]
        kFd    == [k EXCEPT !.fds = @ \cup {id}]
        b0     == IF memfd THEN withFd ELSE Reset
        k0     == IF memfd THEN kFd ELSE k
    IN  (IF memfd THEN {FailedAlloc(id, Reset, k),      \* memfd_create fails
                        FailedAlloc(id, withFd, kFd)}   \* ftruncate fails
                  ELSE {})
        \cup {FailedAlloc(id, [b0 EXCEPT !.base = "failed"], k0),   \* mmap fails
              [ok |-> TRUE,
               b  |-> [b0 EXCEPT !.base = "mapped", !.capacity = n],
               k  |-> [k0 EXCEPT !.maps = @ \cup {id}]]}

(* add_metadata(m): new (std::nothrow) metadata(m); false when it fails.   *)
(* The outcomes, as for alloc.                                             *)
AddMetadataOutcomes(id, b, k, canFail) ==
    {[ok |-> TRUE, b |-> [b EXCEPT !.meta = TRUE],
      k |-> [k EXCEPT !.metas = @ \cup {id}]]}
    \cup (IF canFail THEN {[ok |-> FALSE, b |-> b, k |-> k]} ELSE {})
=============================================================================
