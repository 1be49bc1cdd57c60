------------------------------- MODULE Queue -------------------------------
(***************************************************************************)
(* iodme::queue, the bounded buffer-handle queue between the sink's        *)
(* threads.  include/iodme/queue.hpp is not in the tree, so this is its    *)
(* contract as spec 4.2 states it: a concurrent bounded FIFO whose push()  *)
(* and pop() are non-blocking; there is no ordering between producers and *)
(* FIFO order is promised per producer only.                               *)
(*                                                                         *)
(* A queue value is the sequence of its entries <<producer, item>> in the  *)
(* order they were pushed; pop() may return the oldest entry of any one    *)
(* producer.  push() and pop() are single steps (the queue is lock-free    *)
(* and its operations linearizable).                                       *)
(***************************************************************************)
EXTENDS Naturals, Sequences, SequencesExt

CONSTANT QCap   \* the capacity given at construction

(* push(): false, and the queue unchanged, when the queue is full. *)
Push(q, p, x) == IF Len(q) < QCap THEN Append(q, <<p, x>>) ELSE q

\* push() would succeed.
Accepts(q) == Len(q) < QCap

(* The entries pop() may return: those with no older entry of the same    *)
(* producer.                                                               *)
Poppable(q) == {i \in DOMAIN q : \A j \in 1..i - 1 : q[j][1] # q[i][1]}

\* The item of entry i, and the queue once pop() has returned it.
Item(q, i) == q[i][2]
Pop(q, i) == RemoveAt(q, i)

\* The items in the queue.
Items(q) == {q[i][2] : i \in DOMAIN q}
=============================================================================
