---------------------------- MODULE BoundedQueue ----------------------------
(***************************************************************************)
(* What a producer-consumer queue promises (producer-consumer.h, the       *)
(* comments on pcq_enqueue and pcq_dequeue): elements are taken once each, *)
(* in the order they were put, and there are never more than Capacity.     *)
(***************************************************************************)
EXTENDS Sequences, Naturals

CONSTANTS Elems, Consumers, Capacity, NoElem

VARIABLES
  queue,   \* the elements put and not taken, oldest first
  taken    \* the element each consumer took last

Init == queue = <<>> /\ taken = [c \in Consumers |-> NoElem]

Put(e) == /\ Len(queue) < Capacity
          /\ queue' = Append(queue, e) /\ UNCHANGED taken

Take(c) == /\ queue # <<>>
           /\ taken' = [taken EXCEPT ![c] = Head(queue)]
           /\ queue' = Tail(queue)

Next == (\E e \in Elems : Put(e)) \/ (\E c \in Consumers : Take(c))

Spec == Init /\ [][Next]_<<queue, taken>>
=============================================================================
