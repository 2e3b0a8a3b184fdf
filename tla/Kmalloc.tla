------------------------------ MODULE Kmalloc ------------------------------
(***************************************************************************)
(* The kernel heap, kernel-space/kernel/kmalloc.c: a list of blocks in     *)
(* address order, first fit, split on allocation, coalesced on release.    *)
(*                                                                         *)
(* Addresses count from HEAP_START and every size is in one unit, of which *)
(* a header takes HEADER.  split_block computes in uint32_t: its           *)
(* subtraction wraps modulo WORD.  A block cut so that the subtraction     *)
(* wraps gets a header on top of its neighbour's; what the list is after   *)
(* that is not defined, and the model stops there (`corrupt').             *)
(***************************************************************************)
EXTENDS Integers, Sequences, SequencesExt

CONSTANTS
    HEAP_SIZE,    \* bytes of the heap, headers included
    HEADER,       \* sizeof(heap_block_header_t)
    WORD,         \* 2^32
    Requests      \* the sizes that the kernel asks for

ASSUME KmallocAssumption ==
    /\ HEADER \in Nat \ {0}
    /\ HEAP_SIZE \in Nat /\ HEAP_SIZE > HEADER
    /\ WORD \in Nat /\ WORD > HEAP_SIZE
    /\ Requests \subseteq 1..HEAP_SIZE

VARIABLES
    heap,       \* the blocks from heap_head_ptr along `next'
    live,       \* the callers' pointers: payload address |-> size asked for
    corrupt     \* a header was written over a neighbouring block

heap_vars == <<heap, live, corrupt>>

\* init_heap
HeapInit ==
    /\ heap = << [addr |-> 0, size |-> HEAP_SIZE - HEADER, is_free |-> TRUE] >>
    /\ live = [p \in {} |-> 0]
    /\ corrupt = FALSE

Payload(b) == b.addr + HEADER

End(b) == Payload(b) + b.size

\* Mutant: a block given away whole keeps is_free.
split_block_StaysFree(b, size) ==
    LET remaining_size == (b.size - size - HEADER) % WORD
    IN  IF remaining_size < 3 * HEADER THEN << [b EXCEPT !.size = size] >>
        ELSE << [b EXCEPT !.size = size, !.is_free = FALSE],
                [addr |-> Payload(b) + size, size |-> remaining_size, is_free |-> TRUE] >>

\* The block, or the two blocks, that b becomes.
split_block(b, size) ==
    LET remaining_size == (b.size - size - HEADER) % WORD
        taken == [b EXCEPT !.size = size, !.is_free = FALSE]
    IN  IF remaining_size < 3 * HEADER THEN << taken >>
        ELSE << taken, [addr |-> Payload(b) + size, size |-> remaining_size, is_free |-> TRUE] >>

\* Mutant: the header of the swallowed block is counted twice.
coalesce_blocks_Grow(bs) ==
    LET done[i \in 0..Len(bs)] ==
            IF i = 0 THEN << >>
            ELSE IF i > 1 /\ Last(done[i - 1]).is_free /\ bs[i].is_free
            THEN [done[i - 1] EXCEPT ![Len(done[i - 1])].size = @ + bs[i].size + 2 * HEADER]
            ELSE Append(done[i - 1], bs[i])
    IN  done[Len(bs)]

\* Mutant: a block that has just been extended is not extended again.
coalesce_blocks_Pairs(bs) ==
    LET first == {i \in 1..(Len(bs) - 1) : bs[i].is_free /\ bs[i + 1].is_free}
        i == CHOOSE k \in first : \A j \in first : k <= j
    IN  IF first = {} THEN bs
        ELSE SubSeq(bs, 1, i - 1)
             \o << [bs[i] EXCEPT !.size = @ + bs[i + 1].size + HEADER] >>
             \o SubSeq(bs, i + 2, Len(bs))

\* The list behind block when the walk has reached the i-th: its last block is
\* prev, which swallows a free block that follows it.
coalesce_blocks(bs) ==
    LET done[i \in 0..Len(bs)] ==
            IF i = 0 THEN << >>
            ELSE IF i > 1 /\ Last(done[i - 1]).is_free /\ bs[i].is_free
            THEN [done[i - 1] EXCEPT ![Len(done[i - 1])].size = @ + bs[i].size + HEADER]
            ELSE Append(done[i - 1], bs[i])
    IN  done[Len(bs)]

Fits(size) == {i \in DOMAIN heap : heap[i].is_free /\ heap[i].size > size}

\* An allocation that finds a block; without one kmalloc returns NULL and
\* changes nothing.
kmalloc(size) ==
    /\ ~corrupt
    /\ Fits(size) # {}
    /\ LET i == CHOOSE k \in Fits(size) : \A j \in Fits(size) : k <= j
           p == Payload(heap[i])
       IN  /\ heap' = SubSeq(heap, 1, i - 1) \o split_block(heap[i], size)
                        \o SubSeq(heap, i + 1, Len(heap))
           /\ live' = [q \in DOMAIN live \cup {p} |-> IF q = p THEN size ELSE live[q]]
           /\ corrupt' = (heap[i].size < size + HEADER)

kfree(ptr) ==
    /\ ~corrupt
    /\ ptr \in DOMAIN live
    /\ heap' = coalesce_blocks([i \in DOMAIN heap |->
                  IF Payload(heap[i]) = ptr THEN [heap[i] EXCEPT !.is_free = TRUE] ELSE heap[i]])
    /\ live' = [q \in DOMAIN live \ {ptr} |-> live[q]]
    /\ UNCHANGED corrupt

HeapNext ==
    \/ \E size \in Requests : kmalloc(size)
    \/ \E ptr \in DOMAIN live : kfree(ptr)

HeapSpec == HeapInit /\ [][HeapNext]_heap_vars

(***************************************************************************)
(* Properties                                                              *)
(***************************************************************************)

\* As long as no subtraction has wrapped, the blocks lie in the heap in
\* address order and none overlaps the next, header included.
BlocksDisjoint ==
    ~corrupt => /\ \A i \in 1..(Len(heap) - 1) : End(heap[i]) <= heap[i + 1].addr
                /\ End(heap[Len(heap)]) <= HEAP_SIZE

\* ... every pointer handed out and not yet freed is the payload of a block
\* in use that is as large as was asked for: no allocation is given away
\* twice, however splits and merges follow each other.
AllocationsIntact ==
    ~corrupt => \A p \in DOMAIN live :
                    \E i \in DOMAIN heap : /\ Payload(heap[i]) = p
                                           /\ ~heap[i].is_free
                                           /\ heap[i].size >= live[p]

\* ... and two free blocks are never neighbours in the list.
FreeBlocksMerged ==
    ~corrupt => \A i \in 1..(Len(heap) - 1) : ~(heap[i].is_free /\ heap[i + 1].is_free)
=============================================================================
