---------------------------- MODULE BoundedFifo ----------------------------
(***************************************************************************)
(* What a window's event queue promises: events come out in the order in   *)
(* which they went in, none twice, at most Capacity at a time; an event    *)
(* that arrives when the queue is full is dropped and the older ones stay. *)
(***************************************************************************)
EXTENDS Naturals, Sequences

CONSTANTS Capacity, Event, Zero

VARIABLES
    queue,    \* the events not yet taken, oldest first
    got       \* the caller's event buffer

Init == queue = << >> /\ got = Zero

Push(e) ==
    /\ Len(queue) < Capacity
    /\ queue' = Append(queue, e)
    /\ UNCHANGED got

Pop ==
    /\ queue # << >>
    /\ got' = Head(queue)
    /\ queue' = Tail(queue)

Next == Pop \/ \E e \in Event : Push(e)

Spec == Init /\ [][Next]_<<queue, got>>
=============================================================================
