---------------------------- MODULE BoundedFifo ----------------------------
(***************************************************************************)
(* What the queue of src/src/mpsc.hpp promises its users: a FIFO of at     *)
(* most Capacity items into which a producer appends (or is refused, which *)
(* leaves no trace here) and from which the single consumer takes the      *)
(* oldest item.  `queue' and `out' are what an observer sees; no slot,     *)
(* counter or intermediate step of an operation appears.                   *)
(***************************************************************************)
EXTENDS Naturals, Sequences

CONSTANTS Items,     \* everything that is ever pushed
          Capacity   \* number of slots, a positive natural number

VARIABLES queue,     \* accepted items that were not taken yet, oldest first
          out        \* items the consumer has taken, in the order it took them

vars == <<queue, out>>

Init ==
  /\ queue = <<>>
  /\ out = <<>>

(* An accepted push: the item goes behind everything accepted before it. *)
Enqueue(item) ==
  /\ Len(queue) < Capacity
  /\ queue' = Append(queue, item)
  /\ UNCHANGED out

(* A successful pop: the oldest accepted item, exactly once. *)
Dequeue ==
  /\ queue # <<>>
  /\ out' = Append(out, Head(queue))
  /\ queue' = Tail(queue)

Next ==
  \/ \E item \in Items : Enqueue(item)
  \/ Dequeue

(* A consumer that keeps popping obtains every accepted item. *)
Spec == Init /\ [][Next]_vars /\ WF_vars(Dequeue)

=============================================================================
