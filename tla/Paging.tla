------------------------------- MODULE Paging -------------------------------
(***************************************************************************)
(* Page frames and address spaces: the frame bitmap, the page directory of *)
(* every process, and the system calls that change them.                   *)
(*                                                                         *)
(*   kernel-space/kernel/frame.c        the bitmap                         *)
(*   kernel-space/kernel/page-table.c   map, copy, clear, load a program   *)
(*   kernel-space/kernel/kernel.c       what start-up takes                *)
(*   kernel-space/cpu/syscall.c         fork, exec, sbrk                   *)
(*   kernel-space/kernel/scheduler.c    what the removal of a process frees *)
(*                                                                         *)
(* A call that allocates runs one step per frame; no other call comes      *)
(* between (create_page_table ends in `sti', after which a timer tick      *)
(* could: what follows such a tick is undefined, README section 7).  The   *)
(* kernel half of a directory, shared by main and its descendants, and the *)
(* directory of idle, which makes no call, never change and are part of    *)
(* the boot frames; the frame buffer is not: it lies above USER_FUNC_VADDR. *)
(***************************************************************************)
EXTENDS Integers

CONSTANTS
    NUM_FRAMES,    \* frames of physical memory
    BootFrames,    \* frames taken before main's directory is built
    MappedFrames,  \* frames the kernel can map for itself: the first 8 MB
    PAGE_SIZE,
    ProgramPages,  \* pages of the largest program
    BssPages,      \* zeroed pages update_page_directory adds
    FbPages,       \* pages of the frame buffer
    HeapPages,     \* bound: pages of the largest heap
    Offsets,       \* what programs pass to sbrk
    MaxPid         \* bound: fork stops at this pid

Main == 2

ASSUME PagingAssumption ==
    /\ BootFrames \in Nat \ {0}
    /\ NUM_FRAMES \in Nat /\ BootFrames + 6 <= NUM_FRAMES
    /\ MappedFrames \in Nat /\ MappedFrames <= NUM_FRAMES
    /\ PAGE_SIZE \in Nat \ {0}
    /\ ProgramPages \in Nat \ {0}
    /\ BssPages \in Nat /\ FbPages \in Nat \ {0} /\ HeapPages \in Nat
    /\ Offsets \subseteq Nat
    /\ MaxPid \in Nat /\ MaxPid >= Main

VARIABLES
    used,        \* the frames whose bit is set in frames_bitmap
    space,       \* what the directory of each process maps
    heap_break,  \* of each process, counted from USER_HEAP_VADDR
    pid_static,  \* the next pid
    job,         \* the call in progress, and the entries it still has to fill
    halted       \* the kernel has faulted

vars == <<used, space, heap_break, pid_static, job, halted>>

(***************************************************************************)
(* Address spaces                                                          *)
(***************************************************************************)
Pids == Main..MaxPid

Code  == 1   \* regions of an address space, by address
Heap  == 2
Stack == 3
Fb    == 4

\* An entry is <<region, i>>: the region's page table for i = 0, its i-th page
\* otherwise.  <<0, 0>> is the frame of the directory itself.
Dir == <<0, 0>>
UserEntries ==
    ({Code} \X (0..(ProgramPages + BssPages)))
        \cup ({Heap} \X (0..HeapPages)) \cup ({Stack} \X {0, 1})

Entries == {Dir} \cup UserEntries \cup ({Fb} \X (0..FbPages))

IsTable(e) == e[2] = 0

None   == -1   \* not present
NoHeap == -1   \* heap_break is NULL: no sbrk yet

Ram == 1..(NUM_FRAMES - 1)    \* the frames allocate_frame hands out

\* The physical page of the frame buffer, beyond the end of RAM.
Device(i) == NUM_FRAMES + i

Frame == 0..(NUM_FRAMES - 1)

Empty == [e \in Entries |-> None]

Live == {p \in Pids : space[p][Dir] # None}

\* The frames that some directory, table or page of a process occupies.
Owned == {space[p][e] : p \in Pids, e \in Entries} \cap Ram

(***************************************************************************)
(* The bitmap                                                              *)
(***************************************************************************)
Free == Ram \ used

\* Mutant: a frame is taken without a look at its bit.
allocate_frame_Blind == CHOOSE f \in Ram : \A g \in Ram : f <= g

\* The lowest free frame, or 0, which no caller checks for.
allocate_frame ==
    IF Free = {} THEN 0 ELSE CHOOSE f \in Free : \A g \in Free : f <= g

\* Mutant: pages are freed, their tables are not.
Cleared_PagesOnly(p) == {space[p][e] : e \in {u \in UserEntries : ~IsTable(u)}} \ {0}

\* The frames clear_page_directory frees: user tables and pages.  free_frame
\* ignores frame 0; the entries of the frame buffer are not user entries.
Cleared(p) == {space[p][e] : e \in UserEntries} \ {0}

clear_page_directory(p) ==
    [e \in Entries |-> IF e \in UserEntries THEN None ELSE space[p][e]]

(***************************************************************************)
(* Start-up: main's directory, frame-buffer table, code and stack pages    *)
(* and their tables, in the order they are allocated.                      *)
(***************************************************************************)
NoJob == [call |-> "none", pid |-> Main, source |-> Main, todo |-> {}, break |-> NoHeap]

create_kernel_page_directory ==
    [e \in Entries |->
        CASE e = Dir         -> BootFrames
          [] e = <<Fb, 0>>   -> BootFrames + 1
          [] e = <<Code, 1>> -> BootFrames + 2
          [] e = <<Stack, 1>> -> BootFrames + 3
          [] e = <<Code, 0>> -> BootFrames + 4
          [] e = <<Stack, 0>> -> BootFrames + 5
          [] e \in {<<Fb, i>> : i \in 1..FbPages} -> Device(e[2])
          [] OTHER -> None]

Init ==
    /\ used = 0..(BootFrames + 5)
    /\ space = [p \in Pids |-> IF p = Main THEN create_kernel_page_directory ELSE Empty]
    /\ heap_break = [p \in Pids |-> NoHeap]
    /\ pid_static = Main + 1
    /\ job = NoJob
    /\ halted = FALSE

(***************************************************************************)
(* System calls                                                            *)
(***************************************************************************)
Calling(p) == ~halted /\ job = NoJob /\ p \in Live

\* Mutant: the loop over the directory ends at the heap.
copy_page_directory_Short(p) == {e \in Entries : space[p][e] # None /\ e[1] < Stack}

\* What copy_page_directory copies: every entry that is present.
copy_page_directory(p) == {e \in Entries : space[p][e] # None}

\* fork: a directory for the child, then a copy of every table and page of
\* the parent above USER_FUNC_VADDR, the frame buffer included.
handle_syscall_fork(p) ==
    /\ Calling(p)
    /\ pid_static <= MaxPid
    /\ job' = [call |-> "fork", pid |-> pid_static, source |-> p, break |-> NoHeap,
               todo |-> copy_page_directory(p)]
    /\ pid_static' = pid_static + 1
    /\ UNCHANGED <<used, space, heap_break, halted>>

\* The entries that loading a program of n pages fills: code, bss and stack.
update_page_directory(n) ==
    ({Code} \X (0..(n + BssPages))) \cup ({Stack} \X {0, 1})

\* exec of a program of n pages that is on the disk: the old program is
\* cleared, then the new one is loaded.  heap_break stays.
handle_syscall_exec(p, n) ==
    /\ Calling(p)
    /\ used' = used \ Cleared(p)
    /\ space' = [space EXCEPT ![p] = clear_page_directory(p)]
    /\ job' = [call |-> "exec", pid |-> p, source |-> p, break |-> heap_break[p],
               todo |-> update_page_directory(n)]
    /\ UNCHANGED <<heap_break, pid_static, halted>>

\* The number of pages below an offset from USER_HEAP_VADDR.
PagesBelow(offset) == (offset + PAGE_SIZE - 1) \div PAGE_SIZE

handle_syscall_sbrk(p, offset) ==
    LET old   == IF heap_break[p] = NoHeap THEN 0 ELSE heap_break[p]
        pages == (PagesBelow(old) + 1)..PagesBelow(old + offset)
        table == IF pages # {} /\ space[p][<<Heap, 0>>] = None THEN {<<Heap, 0>>} ELSE {}
        todo  == {<<Heap, i>> : i \in pages} \cup table
    IN  /\ Calling(p)
        /\ PagesBelow(old + offset) <= HeapPages
        /\ IF todo = {}
           THEN heap_break' = [heap_break EXCEPT ![p] = old + offset] /\ UNCHANGED job
           ELSE /\ job' = [call |-> "sbrk", pid |-> p, source |-> p,
                           todo |-> todo, break |-> old + offset]
                /\ UNCHANGED heap_break
        /\ UNCHANGED <<used, space, pid_static, halted>>

\* exit, kill or Ctrl+C: the removal of a process other than main frees its
\* user pages and tables.  Its directory and its frame-buffer entries are
\* forgotten with the PCB.
scheduler_remove(p) ==
    /\ Calling(p)
    /\ p # Main
    /\ used' = used \ Cleared(p)
    /\ space' = [space EXCEPT ![p] = Empty]
    /\ heap_break' = [heap_break EXCEPT ![p] = NoHeap]
    /\ UNCHANGED <<pid_static, job, halted>>

(***************************************************************************)
(* One turn of the allocating loops                                        *)
(***************************************************************************)
\* fork takes the frame of a table before those of its pages, map_page the
\* frame of the first page before that of the table.
Turn(e) == IF job.call = "fork" \/ e[2] > 1 THEN e[2] ELSE 1 - e[2]

Earlier(d, e) == d[1] < e[1] \/ (d[1] = e[1] /\ Turn(d) <= Turn(e))

\* The kernel writes to tables, and in fork to every new and old frame,
\* through its own mapping of them, which exists for the first 8 MB.  A page
\* table in frame 0 is overwritten by the next user of that frame.
Faults(e, f) ==
    \/ f >= MappedFrames /\ (IsTable(e) \/ job.call = "fork")
    \/ f = 0 /\ IsTable(e)
    \/ job.call = "fork" /\ space[job.source][e] \in MappedFrames..(NUM_FRAMES - 1)

\* The entry gets a frame; what it held before (the copied heap of a forked
\* child, mapped over by its first sbrk) is forgotten.
Fill(e, f) ==
    LET left == job.todo \ {e}
    IN  /\ space' = [space EXCEPT ![job.pid][e] = f]
        /\ job' = IF left = {} THEN NoJob ELSE [job EXCEPT !.todo = left]
        /\ heap_break' = IF left = {} THEN [heap_break EXCEPT ![job.pid] = job.break]
                         ELSE heap_break
        /\ UNCHANGED halted

Fault ==
    /\ halted' = TRUE
    /\ UNCHANGED <<space, job, heap_break>>

map_page ==
    /\ ~halted
    /\ \E e \in job.todo :
          LET f == allocate_frame
          IN  /\ \A d \in job.todo : Earlier(e, d)
              /\ used' = used \cup {f}
              /\ \/ ~Faults(e, f) /\ Fill(e, f)
                 \/ Faults(e, f) /\ Fault
    /\ UNCHANGED pid_static

Next ==
    \/ \E p \in Pids : handle_syscall_fork(p)
    \/ \E p \in Pids, n \in 1..ProgramPages : handle_syscall_exec(p, n)
    \/ \E p \in Pids, offset \in Offsets : handle_syscall_sbrk(p, offset)
    \/ \E p \in Pids : scheduler_remove(p)
    \/ map_page

Spec == Init /\ [][Next]_vars

(***************************************************************************)
(* Properties                                                              *)
(***************************************************************************)

\* Types of the state; only descendants of main that were forked have
\* entries, and a call fills entries of one process.
TypeOK ==
    /\ used \subseteq Frame
    /\ space \in [Pids -> [Entries -> -1..(NUM_FRAMES + FbPages)]]
    /\ heap_break \in [Pids -> Nat \cup {NoHeap}]
    /\ pid_static \in (Main + 1)..(MaxPid + 1)
    /\ job \in [call: {"none", "fork", "exec", "sbrk"}, pid: Pids, source: Pids,
                todo: SUBSET Entries, break: Nat \cup {NoHeap}]
    /\ halted \in BOOLEAN

\* A frame that holds a directory, a table or a page of a process is marked in
\* the bitmap, so that allocate_frame does not hand it out again.
OwnedMarked == 0 \in used /\ Owned \subseteq used

\* It belongs to one process and one entry: the address spaces of two
\* processes share no memory, whatever forks, execs and removals there were.
\* (Frame 0, which every process gets once memory has run out, they do share.)
OneOwner ==
    \A p, q \in Pids : \A d, e \in Entries :
        space[p][d] = space[q][e] /\ space[p][d] \in Ram => p = q /\ d = e

FramesOwned == OwnedMarked /\ OneOwner

\* The frames that are marked and that nothing refers to any more.
Leaked == (used \ 0..(BootFrames - 1)) \ Owned

\* What a step loses for good: the directory and the copy of the frame buffer
\* of a process that is removed, and the page of a copied heap that the
\* child's sbrk maps over.
Forgotten ==
    {space[p][e] : p \in {q \in Pids : space'[q][Dir] = None}, e \in Entries \ UserEntries}

MappedOver ==
    IF job.call # "sbrk" THEN {}
    ELSE {space[job.pid][e] : e \in {d \in UserEntries : d[1] = Heap /\ ~IsTable(d)
                                        /\ space'[job.pid][d] # space[job.pid][d]}}

\* A fork, an exec, and a removal beyond that, lose nothing.
LeaksOnlyThere ==
    [][~halted' => Leaked' = Leaked \cup ((Forgotten \cup MappedOver) \cap Ram)]_vars

\* A fork that ends has copied everything: the child has an entry where its
\* parent has one, in another frame (but for frame 0), and nothing else.
ForkCopiesAll ==
    [][job.call = "fork" /\ job' = NoJob =>
          \A e \in Entries :
              LET theirs == space'[job.source][e]
                  ours   == space'[job.pid][e]
              IN  /\ ours = None <=> theirs = None
                  /\ ours # None => ours \in Frame /\ (ours # theirs \/ ours = 0)]_vars
=============================================================================
