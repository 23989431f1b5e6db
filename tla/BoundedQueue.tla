---------------------------- MODULE BoundedQueue ----------------------------
(***************************************************************************)
(* What the rings of softsdv_io.h promise: first-in first-out queues of    *)
(* bounded length, whose entries never change while they wait.             *)
(***************************************************************************)
EXTENDS Naturals, Sequences

CONSTANTS
    Ids,        \* the queues
    Capacity,   \* of each: one less than the entries of the ring
    Entry       \* Entry[i]: what may be sent over queue i

VARIABLE queue

Init == queue = [i \in Ids |-> <<>>]

Put(i, e) == /\ Len(queue[i]) < Capacity
             /\ queue' = [queue EXCEPT ![i] = Append(@, e)]

Take(i) == queue[i] # <<>> /\ queue' = [queue EXCEPT ![i] = Tail(@)]

Next == \E i \in Ids : Take(i) \/ \E e \in Entry[i] : Put(i, e)

Spec == Init /\ [][Next]_queue
=============================================================================
