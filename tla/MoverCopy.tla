----------------------------- MODULE MoverCopy -----------------------------
(***************************************************************************)
(* What the DataMover promises its callers (spec 4.3 and property 8.7): a *)
(* call do_write(out_fd, iov) either returns true with exactly the bytes   *)
(* of the iovec, in order, in out_fd, or returns false.  Calls of one      *)
(* mover are sequential (the mover is owned by one writer thread).         *)
(***************************************************************************)
EXTENDS Naturals, Sequences

CONSTANTS MaxCalls,   \* calls made through one mover
          Lens        \* the byte counts a call may be asked to move

VARIABLES k,        \* calls started so far; call k is the current or last one
          busy,     \* a call is in progress
          len,      \* len[c]: bytes call c was asked to move
          file,     \* file[c]: what a successful call c left in its out_fd
          result    \* result[c]: "none", "ok" or "fail"

vars == <<k, busy, len, file, result>>

CallIds == 1..MaxCalls

\* Byte i of the data handed to call c.
Data(c, L) == [i \in 1..L |-> <<c, i>>]

Init == /\ k = 0
        /\ busy = FALSE
        /\ len = [c \in CallIds |-> 0]
        /\ file = [c \in CallIds |-> <<>>]
        /\ result = [c \in CallIds |-> "none"]

Begin(L) == /\ ~busy /\ k < MaxCalls
            /\ k' = k + 1
            /\ busy' = TRUE
            /\ len' = [len EXCEPT ![k + 1] = L]
            /\ UNCHANGED <<file, result>>

Copy == /\ busy
        /\ busy' = FALSE
        /\ file' = [file EXCEPT ![k] = Data(k, len[k])]
        /\ result' = [result EXCEPT ![k] = "ok"]
        /\ UNCHANGED <<k, len>>

Fail == /\ busy
        /\ busy' = FALSE
        /\ result' = [result EXCEPT ![k] = "fail"]
        /\ UNCHANGED <<k, len, file>>

Next == (\E L \in Lens : Begin(L)) \/ Copy \/ Fail

Spec == Init /\ [][Next]_vars
=============================================================================
