---------------------------- MODULE EventQueue ----------------------------
(***************************************************************************)
(* kernel-space/kernel/event.c: the ring buffer of events of one window.   *)
(* Interrupt handlers push (update_focused_window), the program that owns  *)
(* the window pops (get_event); both run with interrupts disabled.         *)
(***************************************************************************)
EXTENDS Naturals, Sequences

CONSTANTS
    QUEUE_SIZE,   \* 64 in event.h
    Event,        \* the events
    Zero          \* a zeroed event_t: memset in wm_create_window

ASSUME EventQueueAssumption == QUEUE_SIZE \in Nat \ {0}

VARIABLES events, head_index, tail_index, size,
          event       \* what the last event_queue_pop copied out

vars == <<events, head_index, tail_index, size, event>>

Slot == 0..(QUEUE_SIZE - 1)

Init ==
    /\ events = [i \in Slot |-> Zero]
    /\ head_index = 0
    /\ tail_index = 0
    /\ size = 0
    /\ event = Zero

\* Mutant: the full check is one too late.
event_queue_push_Late(e) ==
    /\ IF size > QUEUE_SIZE
       THEN UNCHANGED <<events, head_index, size>>
       ELSE /\ events' = [events EXCEPT ![head_index] = e]
            /\ head_index' = (head_index + 1) % QUEUE_SIZE
            /\ size' = size + 1
    /\ UNCHANGED <<tail_index, event>>

event_queue_push(e) ==
    /\ IF size >= QUEUE_SIZE
       THEN UNCHANGED <<events, head_index, size>>
       ELSE /\ events' = [events EXCEPT ![head_index] = e]
            /\ head_index' = (head_index + 1) % QUEUE_SIZE
            /\ size' = size + 1
    /\ UNCHANGED <<tail_index, event>>

event_queue_is_empty == size = 0

\* Mutant: the event is copied after the tail index has moved on.
event_queue_pop_Late ==
    /\ size # 0
    /\ tail_index' = (tail_index + 1) % QUEUE_SIZE
    /\ size' = size - 1
    /\ event' = events[tail_index']
    /\ UNCHANGED <<events, head_index>>

event_queue_pop ==
    /\ size # 0
    /\ tail_index' = (tail_index + 1) % QUEUE_SIZE
    /\ size' = size - 1
    /\ event' = events[tail_index]
    /\ UNCHANGED <<events, head_index>>

\* get_event answers 0 for an empty queue and leaves the buffer alone.
handle_syscall_get_event ==
    IF event_queue_is_empty THEN UNCHANGED vars ELSE event_queue_pop

Next == handle_syscall_get_event \/ \E e \in Event : event_queue_push(e)

Spec == Init /\ [][Next]_vars

\* The indices stay in the ring and head is size slots after tail, so a push
\* never lands on an event that has not been popped.
IndicesAgree ==
    /\ events \in [Slot -> Event \cup {Zero}]
    /\ head_index \in Slot
    /\ tail_index \in Slot
    /\ size \in 0..QUEUE_SIZE
    /\ head_index = (tail_index + size) % QUEUE_SIZE

\* The events in the ring, oldest first.
Contents == [i \in 1..size |-> events[(tail_index + i - 1) % QUEUE_SIZE]]

Fifo == INSTANCE BoundedFifo WITH Capacity <- QUEUE_SIZE, queue <- Contents, got <- event

\* The ring buffer implements the bounded queue: no event is reordered,
\* delivered twice, or lost once it is in.
ImplementsFifo == Fifo!Spec
=============================================================================
