---------------------------- MODULE MemoryProofs ----------------------------
(***************************************************************************)
(* Memory, proved for every amount of it.  First Paging: page frames and   *)
(* address spaces, for every program, heap and frame-buffer size.  Then    *)
(* Kmalloc, the kernel heap, for every size of heap and header and every   *)
(* set of request sizes.                                                   *)
(***************************************************************************)
EXTENDS Paging, Kmalloc, TLAPS, SequenceTheorems, WellFoundedInduction

\* Ownership needs no more than the types: a frame is taken only when its bit
\* is clear, and given back only by its one owner.
IInv == TypeOK /\ FramesOwned

(***************************************************************************)
(* Lemmas about the operators                                              *)
(***************************************************************************)

\* A non-empty set of naturals has a least element.
LEMMA LeastExists ==
    ASSUME NEW T \in SUBSET Nat, T # {}
    PROVE  \E x \in T : \A y \in T : x <= y
<1> DEFINE R == {ss \in Nat \X Nat : ss[1] < ss[2]}
<1>1. IsWellFoundedOn(R, Nat)
  BY NatLessThanWellFounded, Zenon DEF OpToRel
<1>2. PICK x \in T : \A y \in T : ~(<<y, x>> \in R)
  <2> HIDE DEF R
  <2> QED
    BY <1>1, WFMin
<1>3. ASSUME NEW y \in T PROVE x <= y
  <2>1. x \in Nat /\ y \in Nat /\ <<y, x>> \in Nat \X Nat
    OBVIOUS
  <2>2. <<y, x>>[1] = y /\ <<y, x>>[2] = x
    OBVIOUS
  <2>3. ~(y < x)
    BY <1>2, <2>1, <2>2, Zenon
  <2> QED
    BY <2>1, <2>3
<1> QED
  BY <1>3

\* allocate_frame answers a frame of RAM whose bit is clear, or 0.
LEMMA AllocateOK ==
    ASSUME used \subseteq Frame
    PROVE  /\ allocate_frame \in Frame
           /\ allocate_frame # 0 => allocate_frame \in Ram /\ allocate_frame \notin used
<1> USE PagingAssumption
<1>1. CASE Free = {}
  BY <1>1 DEF allocate_frame, Frame
<1>2. CASE Free # {}
  <2>1. Free \in SUBSET Nat
    BY DEF Free, Ram
  <2>2. \E f \in Free : \A g \in Free : f <= g
    BY <1>2, <2>1, LeastExists
  <2>3. allocate_frame \in Free
    BY <1>2, <2>2 DEF allocate_frame
  <2> QED
    BY <2>3 DEF Free, Ram, Frame
<1> QED
  BY <1>1, <1>2

\* How entries relate; the other proofs use no more of them.
LEMMA EntryFacts ==
    /\ UserEntries \subseteq Entries /\ Dir \in Entries /\ Dir \notin UserEntries
    /\ \A n \in 1..ProgramPages : update_page_directory(n) \subseteq UserEntries
    /\ \A i \in 0..HeapPages : <<Heap, i>> \in UserEntries
    /\ \A e \in Entries : e[1] \in Nat /\ e[2] \in Nat
<1> USE PagingAssumption
<1>1. UserEntries \subseteq Entries /\ Dir \in Entries
  BY DEF Entries, UserEntries
<1>2. Dir \notin UserEntries
  BY DEF UserEntries, Dir, Code, Heap, Stack
<1>3. ASSUME NEW n \in 1..ProgramPages PROVE update_page_directory(n) \subseteq UserEntries
  BY DEF UserEntries, update_page_directory
<1>4. ASSUME NEW i \in 0..HeapPages PROVE <<Heap, i>> \in UserEntries
  BY DEF UserEntries
<1>5. ASSUME NEW e \in Entries PROVE e[1] \in Nat /\ e[2] \in Nat
  BY DEF Entries, UserEntries, Dir, Code, Heap, Stack, Fb
<1> QED
  BY <1>1, <1>2, <1>3, <1>4, <1>5

\* The pages below an offset are counted by a natural number.
LEMMA PagesBelowOK ==
    ASSUME NEW offset \in Nat
    PROVE  PagesBelow(offset) \in Nat
<1>1. PAGE_SIZE \in Nat /\ PAGE_SIZE > 0
  BY PagingAssumption
<1>2. offset + PAGE_SIZE - 1 \in Nat
  BY <1>1
<1>3. \A a, b \in Nat : b > 0 => a \div b \in Nat
  OBVIOUS
<1> QED
  BY <1>1, <1>2, <1>3 DEF PagesBelow

(***************************************************************************)
(* Start-up                                                                *)
(***************************************************************************)

\* The six frames of main's directory, and no other of its entries in RAM.
LEMMA BootDirectory ==
    ASSUME NEW e \in Entries
    PROVE  LET f == create_kernel_page_directory[e]
           IN  /\ f \in -1..(NUM_FRAMES + FbPages)
               /\ e = Dir => f = BootFrames
               /\ f \in Ram =>
                     \/ f = BootFrames     /\ e = Dir
                     \/ f = BootFrames + 1 /\ e = <<Fb, 0>>
                     \/ f = BootFrames + 2 /\ e = <<Code, 1>>
                     \/ f = BootFrames + 3 /\ e = <<Stack, 1>>
                     \/ f = BootFrames + 4 /\ e = <<Code, 0>>
                     \/ f = BootFrames + 5 /\ e = <<Stack, 0>>
<1> DEFINE device == {<<Fb, i>> : i \in 1..FbPages}
           f == create_kernel_page_directory[e]
<1> USE PagingAssumption
<1>1. CASE e \in {Dir, <<Fb, 0>>, <<Code, 1>>, <<Stack, 1>>, <<Code, 0>>, <<Stack, 0>>}
  <2>1. e \notin device
    BY <1>1 DEF Dir, Code, Stack, Fb
  <2> HIDE DEF device
  <2>2. f = CASE e = Dir -> BootFrames
              [] e = <<Fb, 0>> -> BootFrames + 1
              [] e = <<Code, 1>> -> BootFrames + 2
              [] e = <<Stack, 1>> -> BootFrames + 3
              [] e = <<Code, 0>> -> BootFrames + 4
              [] e = <<Stack, 0>> -> BootFrames + 5
              [] e \in device -> Device(e[2])
              [] OTHER -> None
    BY DEF create_kernel_page_directory, device
  <2> QED
    BY <1>1, <2>1, <2>2 DEF Dir, Code, Stack, Fb
<1>2. CASE e \in device
  <2>1. e[2] \in 1..FbPages /\ e \notin {Dir, <<Fb, 0>>, <<Code, 1>>, <<Stack, 1>>, <<Code, 0>>, <<Stack, 0>>}
    BY <1>2 DEF Dir, Code, Stack, Fb
  <2>2. f = Device(e[2])
    BY <1>2, <2>1 DEF create_kernel_page_directory
  <2> QED
    BY <2>1, <2>2 DEF Device, Ram
<1>3. CASE e \notin device /\ e \notin {Dir, <<Fb, 0>>, <<Code, 1>>, <<Stack, 1>>, <<Code, 0>>, <<Stack, 0>>}
  <2>1. f = None
    BY <1>3 DEF create_kernel_page_directory
  <2> QED
    BY <1>3, <2>1 DEF None, Ram
<1> QED
  BY <1>1, <1>2, <1>3

LEMMA InitOK == Init => IInv
<1> SUFFICES ASSUME Init PROVE IInv
  OBVIOUS
<1> USE PagingAssumption
<1>1. Main \in Pids /\ \A p \in Pids : p \in Nat
  BY DEF Main, Pids
<1>2. \A p \in Pids, e \in Entries :
         space[p][e] = IF p = Main THEN create_kernel_page_directory[e] ELSE -1
  BY DEF Init, Empty, None
<1>3. TypeOK
  <2>1. space \in [Pids -> [Entries -> -1..(NUM_FRAMES + FbPages)]]
    <3>1. create_kernel_page_directory = [e \in Entries |-> create_kernel_page_directory[e]]
      BY DEF create_kernel_page_directory
    <3>2. create_kernel_page_directory \in [Entries -> -1..(NUM_FRAMES + FbPages)]
      BY <3>1, BootDirectory, Zenon
    <3>3. Empty \in [Entries -> -1..(NUM_FRAMES + FbPages)]
      BY DEF Empty, None
    <3> QED
      BY <3>2, <3>3 DEF Init
  <2>2. used \subseteq Frame
    BY DEF Init, Frame
  <2>3. pid_static \in (Main + 1)..(MaxPid + 1)
    BY DEF Init, Main
  <2> QED
    BY <2>1, <2>2, <2>3, <1>1 DEF TypeOK, Init, NoJob, NoHeap
<1>4. OwnedMarked
  <2>1. ASSUME NEW f \in Owned PROVE f \in used
    <3>1. PICK p \in Pids, e \in Entries : f = space[p][e] /\ f \in Ram
      BY DEF Owned
    <3>2. f = create_kernel_page_directory[e]
      BY <3>1, <1>2 DEF Ram
    <3> HIDE DEF Init
    <3>3. f \in BootFrames..(BootFrames + 5)
      BY <3>1, <3>2, BootDirectory
    <3>4. used = 0..(BootFrames + 5)
      BY DEF Init
    <3> QED
      BY <3>3, <3>4
  <2> QED
    BY <2>1 DEF OwnedMarked, Init
<1>5. OneOwner
  <2> SUFFICES ASSUME NEW p \in Pids, NEW q \in Pids, NEW d \in Entries, NEW e \in Entries,
                      space[p][d] = space[q][e], space[p][d] \in Ram
               PROVE  p = q /\ d = e
    BY DEF OneOwner
  <2>1. p = Main /\ q = Main
    BY <1>2 DEF Ram
  <2>2. /\ space[p][d] = create_kernel_page_directory[d]
        /\ space[p][d] = create_kernel_page_directory[e]
    BY <1>2, <2>1
  <2> DEFINE First(f, g) ==
               \/ f = BootFrames     /\ g = Dir
               \/ f = BootFrames + 1 /\ g = <<Fb, 0>>
               \/ f = BootFrames + 2 /\ g = <<Code, 1>>
               \/ f = BootFrames + 3 /\ g = <<Stack, 1>>
               \/ f = BootFrames + 4 /\ g = <<Code, 0>>
               \/ f = BootFrames + 5 /\ g = <<Stack, 0>>
  <2>3. First(space[p][d], d) /\ First(space[p][d], e)
    BY <2>2, BootDirectory
  <2>4. d = e
    BY <2>3
  <2> QED
    BY <2>1, <2>4
<1> QED
  BY <1>3, <1>4, <1>5 DEF IInv, FramesOwned

(***************************************************************************)
(* What the actions do to the address spaces                               *)
(***************************************************************************)
Spaces == [Pids -> [Entries -> -1..(NUM_FRAMES + FbPages)]]

\* A call that touches neither bitmap nor directories keeps ownership.
LEMMA Untouched ==
    ASSUME FramesOwned, UNCHANGED <<used, space>>
    PROVE  FramesOwned'
BY DEF FramesOwned, OwnedMarked, OneOwner, Owned

\* A directory with nothing but what p keeps when it is cleared.
Keeps(p, s) == \A e \in Entries : s[e] \in Ram => e \notin UserEntries /\ s[e] = space[p][e]

\* clear_page_directory, whatever becomes of the entries that it leaves: the
\* frames given back belonged to nobody else.
LEMMA ReleaseOK ==
    ASSUME TypeOK, FramesOwned, NEW p \in Pids,
           NEW s \in [Entries -> -1..(NUM_FRAMES + FbPages)],
           Keeps(p, s),
           space' = [space EXCEPT ![p] = s],
           used' = used \ Cleared(p)
    PROVE  used' \subseteq Frame /\ space' \in Spaces /\ FramesOwned'
<1>1. used' \subseteq Frame /\ space \in Spaces
  BY DEF TypeOK, Spaces
<1>2. space' \in Spaces
  BY <1>1 DEF Spaces
<1>3. \A q \in Pids, e \in Entries :
         space'[q][e] \in Ram => space'[q][e] = space[q][e] /\ (q = p => e \notin UserEntries)
  BY <1>1 DEF Spaces, Keeps
<1>4. OneOwner'
  BY <1>3 DEF FramesOwned, OneOwner
<1>5. OwnedMarked'
  <2>1. ASSUME NEW f \in Owned' PROVE f \in used'
    <3>1. PICK q \in Pids, e \in Entries : f = space'[q][e] /\ f \in Ram
      BY <2>1 DEF Owned
    <3>2. f = space[q][e] /\ (q = p => e \notin UserEntries)
      BY <1>3, <3>1
    <3>3. f \in used
      BY <3>1, <3>2 DEF FramesOwned, OwnedMarked, Owned
    <3>4. f \notin Cleared(p)
      BY <3>1, <3>2, EntryFacts DEF FramesOwned, OneOwner, Cleared
    <3> QED
      BY <3>3, <3>4
  <2>2. 0 \in used'
    BY DEF FramesOwned, OwnedMarked, Cleared
  <2> QED
    BY <2>1, <2>2 DEF OwnedMarked
<1> QED
  BY <1>1, <1>2, <1>4, <1>5 DEF FramesOwned

\* One turn of an allocating loop: a frame that is free has no owner yet.
LEMMA FillOK ==
    ASSUME TypeOK, FramesOwned, NEW p \in Pids, NEW d \in Entries,
           space' = [space EXCEPT ![p][d] = allocate_frame],
           used' = used \cup {allocate_frame}
    PROVE  used' \subseteq Frame /\ space' \in Spaces /\ FramesOwned'
<1> DEFINE f == allocate_frame
<1>1. f \in Frame /\ (f # 0 => f \in Ram /\ f \notin used) /\ used \subseteq Frame /\ space \in Spaces
  BY AllocateOK DEF TypeOK, Spaces
<1>2. f \in -1..(NUM_FRAMES + FbPages) /\ 0 \notin Ram
  BY <1>1, PagingAssumption DEF Frame, Ram
<1> HIDE DEF f
<1>3. space' \in Spaces
  BY <1>1, <1>2 DEF Spaces, f
<1>4. \A q \in Pids, e \in Entries :
         space'[q][e] = IF q = p /\ e = d THEN f ELSE space[q][e]
  BY <1>1 DEF Spaces, f
<1>5. f \in Ram => \A q \in Pids, e \in Entries : space[q][e] # f
  BY <1>1, <1>2 DEF FramesOwned, OwnedMarked, Owned
<1>6. OneOwner'
  <2> SUFFICES ASSUME NEW q \in Pids, NEW r \in Pids, NEW a \in Entries, NEW e \in Entries,
                      space'[q][a] = space'[r][e], space'[q][a] \in Ram
               PROVE  q = r /\ a = e
    BY DEF OneOwner
  <2>1. CASE space'[q][a] = f
    BY <1>4, <1>5, <2>1
  <2>2. CASE space'[q][a] # f
    BY <1>4, <2>2 DEF FramesOwned, OneOwner
  <2> QED
    BY <2>1, <2>2
<1>7. OwnedMarked'
  BY <1>4 DEF FramesOwned, OwnedMarked, Owned, f
<1> QED
  BY <1>1, <1>3, <1>6, <1>7 DEF FramesOwned, f

(***************************************************************************)
(* The actions                                                             *)
(***************************************************************************)
LEMMA ForkOK ==
    ASSUME IInv, NEW p \in Pids, handle_syscall_fork(p)
    PROVE  IInv'
<1>1. FramesOwned'
  BY Untouched DEF IInv, handle_syscall_fork
<1>2. pid_static \in Pids /\ pid_static' \in (Main + 1)..(MaxPid + 1)
  BY PagingAssumption DEF IInv, TypeOK, handle_syscall_fork, Pids, Main
<1>3. copy_page_directory(p) \in SUBSET Entries
  BY DEF copy_page_directory
<1>4. TypeOK'
  BY <1>2, <1>3 DEF IInv, TypeOK, handle_syscall_fork, NoHeap
<1> QED
  BY <1>1, <1>4 DEF IInv

LEMMA ExecOK ==
    ASSUME IInv, NEW p \in Pids, NEW n \in 1..ProgramPages, handle_syscall_exec(p, n)
    PROVE  IInv'
<1>1. clear_page_directory(p) \in [Entries -> -1..(NUM_FRAMES + FbPages)]
  BY PagingAssumption DEF IInv, TypeOK, clear_page_directory, None
<1>2. Keeps(p, clear_page_directory(p))
  BY DEF clear_page_directory, None, Ram, Keeps
<1>3. /\ space' = [space EXCEPT ![p] = clear_page_directory(p)]
      /\ used' = used \ Cleared(p)
  BY DEF handle_syscall_exec
<1>4. used' \subseteq Frame /\ space' \in Spaces /\ FramesOwned'
  BY <1>1, <1>2, <1>3, ReleaseOK DEF IInv
<1>5. update_page_directory(n) \in SUBSET Entries
  BY EntryFacts
<1>6. heap_break[p] \in Nat \cup {NoHeap}
  BY DEF IInv, TypeOK
<1>7. TypeOK'
  BY <1>4, <1>5, <1>6 DEF IInv, TypeOK, handle_syscall_exec, Spaces
<1> QED
  BY <1>4, <1>7 DEF IInv

LEMMA SbrkOK ==
    ASSUME IInv, NEW p \in Pids, NEW offset \in Offsets, handle_syscall_sbrk(p, offset)
    PROVE  IInv'
<1> DEFINE old   == IF heap_break[p] = NoHeap THEN 0 ELSE heap_break[p]
           pages == (PagesBelow(old) + 1)..PagesBelow(old + offset)
           table == IF pages # {} /\ space[p][<<Heap, 0>>] = None THEN {<<Heap, 0>>} ELSE {}
           todo  == {<<Heap, i>> : i \in pages} \cup table
<1>1. FramesOwned'
  BY Untouched DEF IInv, handle_syscall_sbrk
<1>2. old \in Nat /\ old + offset \in Nat
  BY PagingAssumption DEF IInv, TypeOK
<1>3. todo \in SUBSET Entries
  <2>1. PagesBelow(old) \in Nat /\ PagesBelow(old + offset) \in Nat
    BY <1>2, PagesBelowOK
  <2>2. PagesBelow(old + offset) <= HeapPages
    BY DEF handle_syscall_sbrk
  <2>3. pages \subseteq 0..HeapPages /\ 0 \in 0..HeapPages
    BY <2>1, <2>2, PagingAssumption
  <2> HIDE DEF pages
  <2> QED
    BY <2>3, EntryFacts
<1>4. \/ heap_break' = [heap_break EXCEPT ![p] = old + offset] /\ job' = job
      \/ /\ job' = [call |-> "sbrk", pid |-> p, source |-> p, todo |-> todo, break |-> old + offset]
         /\ heap_break' = heap_break
  BY DEF handle_syscall_sbrk
<1>5. UNCHANGED <<used, space, pid_static, halted>>
  BY DEF handle_syscall_sbrk
<1> HIDE DEF old, todo
<1>6. TypeOK'
  BY <1>2, <1>3, <1>4, <1>5 DEF IInv, TypeOK
<1> QED
  BY <1>1, <1>6 DEF IInv

LEMMA RemoveOK ==
    ASSUME IInv, NEW p \in Pids, scheduler_remove(p)
    PROVE  IInv'
<1>1. Empty \in [Entries -> -1..(NUM_FRAMES + FbPages)]
  BY PagingAssumption DEF Empty, None
<1>2. Keeps(p, Empty)
  BY DEF Keeps, Empty, None, Ram
<1>3. used' \subseteq Frame /\ space' \in Spaces /\ FramesOwned'
  BY <1>1, <1>2, ReleaseOK DEF IInv, scheduler_remove
<1>4. TypeOK'
  BY <1>3 DEF IInv, TypeOK, scheduler_remove, Spaces
<1> QED
  BY <1>3, <1>4 DEF IInv

LEMMA MapOK ==
    ASSUME IInv, map_page
    PROVE  IInv'
<1>1. PICK e \in job.todo :
         /\ used' = used \cup {allocate_frame}
         /\ Fill(e, allocate_frame) \/ Fault
  BY DEF map_page
<1>2. job.pid \in Pids /\ e \in Entries
  BY <1>1 DEF IInv, TypeOK
<1>3. CASE Fill(e, allocate_frame)
  <2>1. used' \subseteq Frame /\ space' \in Spaces /\ FramesOwned'
    BY <1>1, <1>2, <1>3, FillOK DEF IInv, Fill
  <2>2. job' \in [call: {"none", "fork", "exec", "sbrk"}, pid: Pids, source: Pids,
                  todo: SUBSET Entries, break: Nat \cup {NoHeap}]
    <3>1. Main \in Pids
      BY PagingAssumption DEF Pids, Main
    <3> QED
      BY <1>3, <3>1 DEF IInv, TypeOK, Fill, NoJob
  <2>3. heap_break' \in [Pids -> Nat \cup {NoHeap}]
    BY <1>2, <1>3 DEF IInv, TypeOK, Fill
  <2> QED
    BY <1>3, <2>1, <2>2, <2>3 DEF IInv, TypeOK, Fill, map_page, Spaces
<1>4. CASE Fault
  <2>1. allocate_frame \in Frame
    BY AllocateOK DEF IInv, TypeOK
  <2>2. TypeOK'
    BY <1>1, <1>4, <2>1 DEF IInv, TypeOK, Fault, map_page
  <2>3. FramesOwned'
    BY <1>1, <1>4 DEF IInv, FramesOwned, OwnedMarked, OneOwner, Owned, Fault
  <2> QED
    BY <2>2, <2>3 DEF IInv
<1> QED
  BY <1>1, <1>3, <1>4

LEMMA StepOK == IInv /\ [Next]_vars => IInv'
<1> SUFFICES ASSUME IInv, [Next]_vars PROVE IInv'
  OBVIOUS
<1>1. CASE UNCHANGED vars
  <2>1. FramesOwned'
    BY <1>1, Untouched DEF IInv, vars
  <2>2. TypeOK'
    BY <1>1 DEF IInv, TypeOK, vars
  <2> QED
    BY <2>1, <2>2 DEF IInv
<1>2. CASE \E p \in Pids : handle_syscall_fork(p)
  BY <1>2, ForkOK
<1>3. CASE \E p \in Pids, n \in 1..ProgramPages : handle_syscall_exec(p, n)
  BY <1>3, ExecOK
<1>4. CASE \E p \in Pids, offset \in Offsets : handle_syscall_sbrk(p, offset)
  BY <1>4, SbrkOK
<1>5. CASE \E p \in Pids : scheduler_remove(p)
  BY <1>5, RemoveOK
<1>6. CASE map_page
  BY <1>6, MapOK
<1> QED
  BY <1>1, <1>2, <1>3, <1>4, <1>5, <1>6 DEF Next

(***************************************************************************)
(* The theorems                                                            *)
(***************************************************************************)
LEMMA Invariance == Spec => []IInv
BY InitOK, StepOK, PTL DEF Spec

\* Bitmap, directories, breaks and the call in progress stay in their types,
\* for every amount of memory: no call fills an entry outside the regions.
THEOREM TypeCorrect == Spec => []TypeOK
<1>1. IInv => TypeOK
  BY DEF IInv
<1> QED
  BY <1>1, Invariance, PTL

\* A frame in use is marked and has one owner, for every sequence of fork, exec,
\* sbrk and removal, and when memory has run out: allocate_frame never hands
\* out a frame of a process, clear_page_directory never frees one of another.
THEOREM FramesHaveOneOwner == Spec => []FramesOwned
<1>1. IInv => FramesOwned
  BY DEF IInv
<1> QED
  BY <1>1, Invariance, PTL

(***************************************************************************)
(* What is lost for good                                                   *)
(***************************************************************************)
Boot == 0..(BootFrames - 1)

\* A process without a directory maps nothing, and a pid that was not handed
\* out has none.
NothingWithoutDirectory ==
    \A p \in Pids :
        /\ space[p][Dir] = None => \A e \in Entries : space[p][e] = None
        /\ p >= pid_static => space[p][Dir] = None

\* What start-up took stays marked and is never given to a process.
BootKept == Boot \subseteq used /\ Owned \cap Boot = {}

HeapPage(e) == e \in UserEntries /\ e[1] = Heap /\ ~IsTable(e)

\* The entries a call still has to fill are empty, but for the heap pages of
\* an sbrk; who makes the call has a directory, or is a child that gets one.
JobOK ==
    /\ job.pid < pid_static
    /\ \A e \in job.todo : space[job.pid][e] = None \/ (job.call = "sbrk" /\ HeapPage(e))
    /\ job.todo # {} => space[job.pid][Dir] # None \/ Dir \in job.todo

LInv == IInv /\ NothingWithoutDirectory /\ BootKept /\ JobOK

Lost == (Forgotten \cup MappedOver) \cap Ram

LEMMA LInitOK == Init => LInv
<1> SUFFICES ASSUME Init PROVE LInv
  OBVIOUS
<1> USE PagingAssumption
<1>1. IInv
  BY InitOK
<1>2. \A p \in Pids, e \in Entries :
         space[p][e] = IF p = Main THEN create_kernel_page_directory[e] ELSE -1
  BY DEF Init, Empty, None
<1>3. create_kernel_page_directory[Dir] = BootFrames
  BY EntryFacts, BootDirectory
<1>4. NothingWithoutDirectory
  <2>1. BootFrames # None
    BY DEF None
  <2>2. ASSUME NEW p \in Pids, p # Main PROVE \A e \in Entries : space[p][e] = None
    BY <1>2, <2>2 DEF None
  <2>3. Main \in Pids => space[Main][Dir] # None
    BY <1>2, <1>3, <2>1, EntryFacts
  <2>4. pid_static = Main + 1 /\ Main \in Nat
    BY DEF Init, Main
  <2>5. ASSUME NEW p \in Pids, p >= pid_static PROVE p # Main
    BY <2>4, <2>5
  <2> QED
    BY <2>2, <2>3, <2>5, EntryFacts DEF NothingWithoutDirectory
<1>5. BootKept
  <2>1. ASSUME NEW f \in Owned PROVE f \notin Boot
    <3>1. PICK p \in Pids, e \in Entries : f = space[p][e] /\ f \in Ram
      BY DEF Owned
    <3>2. f = create_kernel_page_directory[e]
      BY <3>1, <1>2 DEF Ram
    <3> QED
      BY <3>1, <3>2, BootDirectory DEF Boot
  <2> QED
    BY <2>1 DEF BootKept, Boot, Init
<1>6. JobOK
  BY DEF JobOK, Init, NoJob, Main
<1> QED
  BY <1>1, <1>4, <1>5, <1>6 DEF LInv

\* A process that is not there has nothing to lose.
LEMMA NothingToLose ==
    ASSUME LInv, NEW p \in Pids, space[p][Dir] = None, NEW e \in Entries
    PROVE  space[p][e] \notin Ram
BY DEF LInv, NothingWithoutDirectory, None, Ram

\* A call that only starts loses nothing.
LEMMA StartLoses ==
    ASSUME LInv, job = NoJob, UNCHANGED <<used, space>>
    PROVE  Leaked' = Leaked \cup Lost
<1>1. Leaked' = Leaked
  BY DEF Leaked, Owned
<1>2. MappedOver = {}
  BY DEF MappedOver, NoJob
<1>3. Forgotten \cap Ram = {}
  BY NothingToLose DEF Forgotten
<1> QED
  BY <1>1, <1>2, <1>3 DEF Lost

LEMMA StartKeeps ==
    ASSUME LInv, UNCHANGED <<used, space>>, pid_static' >= pid_static, pid_static' \in Nat
    PROVE  NothingWithoutDirectory' /\ BootKept'
<1>1. pid_static \in Nat /\ \A p \in Pids : p \in Nat
  BY PagingAssumption DEF LInv, IInv, TypeOK, Pids, Main
<1> QED
  BY <1>1 DEF LInv, NothingWithoutDirectory, BootKept, Owned, Boot

LEMMA ForkLoses ==
    ASSUME LInv, NEW p \in Pids, handle_syscall_fork(p)
    PROVE  LInv' /\ Leaked' = Leaked \cup Lost
<1>1. IInv'
  BY ForkOK DEF LInv
<1>2. job = NoJob /\ UNCHANGED <<used, space>> /\ pid_static' = pid_static + 1
  BY DEF handle_syscall_fork, Calling
<1>3. pid_static \in Nat /\ pid_static \in Pids
  BY PagingAssumption DEF LInv, IInv, TypeOK, handle_syscall_fork, Pids, Main
<1>4. NothingWithoutDirectory' /\ BootKept'
  BY <1>2, <1>3, StartKeeps
<1>5. JobOK'
  <2>1. /\ job'.pid = pid_static
        /\ job'.todo = copy_page_directory(p)
    BY DEF handle_syscall_fork
  <2>2. Dir \in copy_page_directory(p)
    BY EntryFacts DEF handle_syscall_fork, Calling, Live, copy_page_directory
  <2>3. \A e \in copy_page_directory(p) : space[pid_static][e] = None
    BY <1>3 DEF LInv, NothingWithoutDirectory, copy_page_directory
  <2> QED
    BY <1>2, <1>3, <2>1, <2>2, <2>3 DEF JobOK
<1> QED
  BY <1>1, <1>2, <1>4, <1>5, StartLoses DEF LInv

LEMMA SbrkLoses ==
    ASSUME LInv, NEW p \in Pids, NEW offset \in Offsets, handle_syscall_sbrk(p, offset)
    PROVE  LInv' /\ Leaked' = Leaked \cup Lost
<1> DEFINE old   == IF heap_break[p] = NoHeap THEN 0 ELSE heap_break[p]
           pages == (PagesBelow(old) + 1)..PagesBelow(old + offset)
           table == IF pages # {} /\ space[p][<<Heap, 0>>] = None THEN {<<Heap, 0>>} ELSE {}
           todo  == {<<Heap, i>> : i \in pages} \cup table
<1>1. IInv'
  BY SbrkOK DEF LInv
<1>2. job = NoJob /\ UNCHANGED <<used, space, pid_static>> /\ p \in Live
  BY DEF handle_syscall_sbrk, Calling
<1>3. pid_static \in Nat
  BY PagingAssumption DEF LInv, IInv, TypeOK, Main
<1>4. NothingWithoutDirectory' /\ BootKept'
  BY <1>2, <1>3, StartKeeps
<1>5. p < pid_static /\ space[p][Dir] # None
  BY <1>2, <1>3 DEF LInv, NothingWithoutDirectory, Live, Pids, Main
<1>6. \A e \in todo : space[p][e] = None \/ HeapPage(e)
  <2>1. old \in Nat /\ old + offset \in Nat
    BY PagingAssumption DEF LInv, IInv, TypeOK
  <2>2. PagesBelow(old) \in Nat /\ PagesBelow(old + offset) \in Nat
    BY <2>1, PagesBelowOK
  <2>3. PagesBelow(old + offset) <= HeapPages
    BY DEF handle_syscall_sbrk
  <2>4. ASSUME NEW i \in pages PROVE i \in 0..HeapPages /\ i # 0
    BY <2>2, <2>3, PagingAssumption
  <2>5. ASSUME NEW i \in pages PROVE HeapPage(<<Heap, i>>)
    BY <2>4, EntryFacts DEF HeapPage, IsTable
  <2>6. \A e \in table : space[p][e] = None
    OBVIOUS
  <2> QED
    BY <2>5, <2>6
<1>7. \/ job' = job
      \/ job' = [call |-> "sbrk", pid |-> p, source |-> p, todo |-> todo, break |-> old + offset]
  BY DEF handle_syscall_sbrk
<1> HIDE DEF old, todo
<1>8. JobOK'
  BY <1>2, <1>5, <1>6, <1>7 DEF LInv, JobOK
<1> QED
  BY <1>1, <1>2, <1>4, <1>8, StartLoses DEF LInv

LEMMA ExecLoses ==
    ASSUME LInv, NEW p \in Pids, NEW n \in 1..ProgramPages, handle_syscall_exec(p, n)
    PROVE  LInv' /\ Leaked' = Leaked \cup Lost
<1>1. IInv'
  BY ExecOK DEF LInv
<1>2. job = NoJob /\ p \in Live /\ used' = used \ Cleared(p) /\ pid_static' = pid_static
  BY DEF handle_syscall_exec, Calling
<1>3. \A q \in Pids, e \in Entries :
         space'[q][e] = IF q = p /\ e \in UserEntries THEN None ELSE space[q][e]
  BY DEF LInv, IInv, TypeOK, handle_syscall_exec, clear_page_directory
<1>4. used \subseteq Frame /\ Owned \subseteq used /\ 0 \notin Owned
  BY DEF LInv, IInv, TypeOK, FramesOwned, OwnedMarked, Owned, Ram
<1>5. ASSUME NEW f \in Cleared(p) PROVE f \in Owned \/ f \notin Frame
  BY PagingAssumption, EntryFacts DEF Cleared, Owned, Ram, Frame
<1>6. Owned' = Owned \ Cleared(p)
  <2>1. ASSUME NEW f \in Owned' PROVE f \in Owned /\ f \notin Cleared(p)
    <3>1. PICK q \in Pids, e \in Entries : f = space'[q][e] /\ f \in Ram
      BY DEF Owned
    <3>2. f = space[q][e] /\ (q = p => e \notin UserEntries)
      BY <1>3, <3>1 DEF None, Ram
    <3> QED
      BY <3>1, <3>2, EntryFacts DEF LInv, IInv, FramesOwned, OneOwner, Cleared, Owned
  <2>2. ASSUME NEW f \in Owned, f \notin Cleared(p) PROVE f \in Owned'
    <3>1. PICK q \in Pids, e \in Entries : f = space[q][e] /\ f \in Ram
      BY DEF Owned
    <3>2. f = space'[q][e]
      BY <1>3, <2>2, <3>1 DEF Cleared, Ram
    <3> QED
      BY <3>1, <3>2 DEF Owned
  <2> QED
    BY <2>1, <2>2
<1>7. NothingWithoutDirectory'
  BY <1>2, <1>3, EntryFacts DEF LInv, NothingWithoutDirectory
<1>8. BootKept'
  <2>1. Boot \subseteq Frame
    BY PagingAssumption DEF Boot, Frame
  <2> QED
    BY <1>2, <1>5, <1>6, <2>1 DEF LInv, BootKept
<1>9. JobOK'
  <2>1. job'.pid = p /\ job'.todo = update_page_directory(n) /\ job'.todo \subseteq UserEntries
    BY EntryFacts DEF handle_syscall_exec
  <2>2. \A e \in job'.todo : space'[p][e] = None
    BY <1>3, <2>1, EntryFacts
  <2>3. space'[p][Dir] # None /\ p < pid_static
    BY <1>2, <1>3, EntryFacts, PagingAssumption
    DEF Live, LInv, IInv, TypeOK, NothingWithoutDirectory, Pids, Main
  <2> QED
    BY <1>2, <2>1, <2>2, <2>3 DEF JobOK
<1>10. Leaked' = Leaked
  BY <1>2, <1>4, <1>5, <1>6 DEF Leaked
<1>11. Lost = {}
  <2>1. MappedOver = {}
    BY <1>2 DEF MappedOver, NoJob
  <2>2. \A q \in Pids : space'[q][Dir] = space[q][Dir]
    BY <1>3, EntryFacts
  <2> QED
    BY <2>1, <2>2, NothingToLose DEF Lost, Forgotten
<1> QED
  BY <1>1, <1>7, <1>8, <1>9, <1>10, <1>11 DEF LInv

LEMMA RemoveLoses ==
    ASSUME LInv, NEW p \in Pids, scheduler_remove(p)
    PROVE  LInv' /\ Leaked' = Leaked \cup Lost
<1>1. IInv'
  BY RemoveOK DEF LInv
<1>2. job = NoJob /\ used' = used \ Cleared(p) /\ pid_static' = pid_static /\ job' = job
  BY DEF scheduler_remove, Calling
<1>3. \A q \in Pids, e \in Entries : space'[q][e] = IF q = p THEN None ELSE space[q][e]
  BY DEF LInv, IInv, TypeOK, scheduler_remove, Empty
<1>4. used \subseteq Frame /\ Owned \subseteq used /\ 0 \notin Owned /\ Owned \cap Boot = {}
  BY DEF LInv, IInv, TypeOK, FramesOwned, OwnedMarked, Owned, Ram, BootKept
<1>5. ASSUME NEW f \in Cleared(p) PROVE f \in Owned \/ f \notin Frame
  BY PagingAssumption, EntryFacts DEF Cleared, Owned, Ram, Frame
<1> DEFINE rest == {space[p][e] : e \in Entries \ UserEntries} \cap Ram
<1>6. Owned' = (Owned \ Cleared(p)) \ rest
  <2>1. ASSUME NEW f \in Owned' PROVE f \in Owned /\ f \notin Cleared(p) /\ f \notin rest
    <3>1. PICK q \in Pids, e \in Entries : f = space'[q][e] /\ f \in Ram
      BY DEF Owned
    <3>2. f = space[q][e] /\ q # p
      BY <1>3, <3>1 DEF None, Ram
    <3> QED
      BY <3>1, <3>2, EntryFacts DEF LInv, IInv, FramesOwned, OneOwner, Cleared, Owned
  <2>2. ASSUME NEW f \in Owned, f \notin Cleared(p), f \notin rest PROVE f \in Owned'
    <3>1. PICK q \in Pids, e \in Entries : f = space[q][e] /\ f \in Ram
      BY DEF Owned
    <3>2. q # p
      BY <2>2, <3>1 DEF Cleared, Ram
    <3> QED
      BY <1>3, <3>1, <3>2 DEF Owned
  <2> QED
    BY <2>1, <2>2
<1>7. rest \subseteq Owned /\ rest \cap Cleared(p) = {}
  BY EntryFacts DEF LInv, IInv, FramesOwned, OneOwner, Cleared, Owned
<1>8. NothingWithoutDirectory'
  BY <1>2, <1>3, EntryFacts DEF LInv, NothingWithoutDirectory
<1>9. BootKept'
  <2>1. Boot \subseteq Frame
    BY PagingAssumption DEF Boot, Frame
  <2> HIDE DEF rest
  <2> QED
    BY <1>2, <1>5, <1>6, <2>1 DEF LInv, BootKept
<1>10. JobOK'
  BY <1>2 DEF LInv, JobOK, NoJob
<1>11. Lost = rest
  <2>1. MappedOver = {}
    BY <1>2 DEF MappedOver, NoJob
  <2>2. \A q \in Pids : space'[q][Dir] = IF q = p THEN None ELSE space[q][Dir]
    BY <1>3, EntryFacts
  <2>3. Forgotten \cap Ram \subseteq rest
    BY <2>2, NothingToLose DEF Forgotten
  <2>4. rest \subseteq Forgotten \cap Ram
    BY <2>2 DEF Forgotten
  <2> QED
    BY <2>1, <2>3, <2>4 DEF Lost
<1>12. Leaked' = Leaked \cup rest
  <2> HIDE DEF rest
  <2> QED
    BY <1>2, <1>4, <1>5, <1>6, <1>7 DEF Leaked, Boot
<1> QED
  BY <1>1, <1>8, <1>9, <1>10, <1>11, <1>12 DEF LInv

\* The directory of a child is the first entry that is filled.
LEMMA DirectoryFirst ==
    ASSUME NEW e \in Entries, Earlier(e, Dir)
    PROVE  e = Dir
<1>1. \A d \in Entries : d # Dir => d[1] > 0
  BY DEF Entries, UserEntries, Dir, Code, Heap, Stack, Fb
<1>2. Dir[1] = 0
  BY DEF Dir
<1> QED
  BY <1>1, <1>2, EntryFacts DEF Earlier

LEMMA MapLoses ==
    ASSUME LInv, map_page, ~halted'
    PROVE  LInv' /\ Leaked' = Leaked \cup Lost
<1> DEFINE f == allocate_frame
           p == job.pid
<1>1. PICK e \in job.todo :
         /\ \A d \in job.todo : Earlier(e, d)
         /\ used' = used \cup {f}
         /\ Fill(e, f)
  BY DEF map_page, Fault
<1>2. p \in Pids /\ e \in Entries /\ p < pid_static /\ pid_static' = pid_static
  BY <1>1 DEF LInv, IInv, TypeOK, JobOK, map_page
<1>3. \A q \in Pids, d \in Entries :
         space'[q][d] = IF q = p /\ d = e THEN f ELSE space[q][d]
  BY <1>1, <1>2 DEF LInv, IInv, TypeOK, Fill
<1>4. f \in Frame /\ (f # 0 => f \in Ram /\ f \notin used) /\ f # None
  BY AllocateOK DEF LInv, IInv, TypeOK, Frame, None
<1>5. IInv'
  BY MapOK DEF LInv
<1>6. used \subseteq Frame /\ Owned \subseteq used /\ 0 \notin Owned /\ Owned \cap Boot = {}
      /\ 0 \in Boot /\ Boot \subseteq used
  BY PagingAssumption
  DEF LInv, IInv, TypeOK, FramesOwned, OwnedMarked, Owned, Ram, BootKept, Boot
<1>7. space[p][Dir] # None \/ e = Dir
  BY <1>1, <1>2, DirectoryFirst DEF LInv, JobOK
<1> DEFINE g == space[p][e]
           old == {g} \cap Ram
<1>8. job' = NoJob \/ job' = [job EXCEPT !.todo = job.todo \ {e}]
  BY <1>1 DEF Fill
<1> HIDE DEF f, p
<1>9. Owned' = (Owned \ old) \cup ({f} \cap Ram)
  <2>1. ASSUME NEW h \in Owned' PROVE h \in Owned \ old \/ h \in {f} \cap Ram
    <3>1. PICK q \in Pids, d \in Entries : h = space'[q][d] /\ h \in Ram
      BY DEF Owned
    <3>2. CASE q = p /\ d = e
      BY <1>2, <1>3, <3>1, <3>2
    <3>3. CASE ~(q = p /\ d = e)
      <4>1. h = space[q][d]
        BY <1>3, <3>1, <3>3
      <4>2. h # g
        BY <1>2, <3>1, <3>3, <4>1 DEF LInv, IInv, FramesOwned, OneOwner
      <4> QED
        BY <3>1, <4>1, <4>2 DEF Owned
    <3> QED
      BY <3>2, <3>3
  <2>2. ASSUME NEW h \in Owned, h # g PROVE h \in Owned'
    <3>1. PICK q \in Pids, d \in Entries : h = space[q][d] /\ h \in Ram
      BY DEF Owned
    <3> QED
      BY <1>3, <2>2, <3>1 DEF Owned
  <2>3. f \in Ram => f \in Owned'
    BY <1>2, <1>3 DEF Owned
  <2> QED
    BY <2>1, <2>2, <2>3 DEF Owned
<1>10. old \subseteq Owned
  BY <1>2 DEF Owned
<1>11. NothingWithoutDirectory'
  <2> HIDE DEF old, g
  <2>1. space'[p][Dir] # None
    BY <1>2, <1>3, <1>4, <1>7, EntryFacts
  <2>2. ASSUME NEW q \in Pids, q # p PROVE \A d \in Entries : space'[q][d] = space[q][d]
    BY <1>3, <2>2
  <2>3. ASSUME NEW q \in Pids, space'[q][Dir] = None \/ q >= pid_static'
        PROVE  \A d \in Entries : space'[q][d] = None
    <3>1. p \in Int /\ pid_static \in Int
      BY <1>2, PagingAssumption DEF Pids, Main, LInv, IInv, TypeOK
    <3>2. q # p
      BY <1>2, <2>1, <2>3, <3>1
    <3> QED
      BY <1>2, <2>2, <2>3, <3>2, EntryFacts DEF LInv, NothingWithoutDirectory
  <2> QED
    BY <2>3, EntryFacts DEF NothingWithoutDirectory
<1>12. BootKept'
  <2>1. used' = used \cup {f}
    BY <1>1 DEF f
  <2>2. f \in Ram => f \notin Boot
    BY <1>4, <1>6, PagingAssumption DEF Ram
  <2> HIDE DEF old
  <2> QED
    BY <1>6, <1>9, <2>1, <2>2 DEF BootKept, Boot
<1>13. JobOK'
  <2>1. CASE job' = NoJob
    BY <1>2, <2>1, PagingAssumption DEF JobOK, NoJob, LInv, IInv, TypeOK, Main
  <2>2. CASE job' = [job EXCEPT !.todo = job.todo \ {e}]
    <3>1. job'.pid = p /\ job'.todo = job.todo \ {e} /\ job'.call = job.call
      BY <2>2 DEF LInv, IInv, TypeOK, p
    <3>2. space'[p][Dir] # None
      BY <1>2, <1>3, <1>4, <1>7, EntryFacts
    <3>3. \A d \in job.todo \ {e} : space'[p][d] = space[p][d]
      BY <1>2, <1>3 DEF LInv, IInv, TypeOK
    <3> QED
      BY <1>2, <3>1, <3>2, <3>3 DEF LInv, JobOK, p
  <2> QED
    BY <1>8, <2>1, <2>2
<1>14. Lost = old
  <2>1. Forgotten \cap Ram = {}
    <3>1. \A q \in Pids : space'[q][Dir] = None => space[q][Dir] = None /\ q # p
      BY <1>2, <1>3, <1>4, <1>7, EntryFacts
    <3> QED
      BY <3>1, NothingToLose DEF Forgotten
  <2>2. MappedOver \subseteq {g}
    BY <1>2, <1>3, EntryFacts DEF MappedOver, p
  <2>3. ASSUME g \in Ram PROVE g \in MappedOver
    <3>1. job.call = "sbrk" /\ HeapPage(e)
      BY <1>1, <2>3 DEF LInv, JobOK, None, Ram, p
    <3>2. g \in Owned
      BY <1>2, <2>3 DEF Owned
    <3>3. space'[p][e] # g
      BY <1>2, <1>3, <1>4, <1>6, <3>2
    <3> QED
      BY <3>1, <3>3 DEF MappedOver, HeapPage, p
  <2> QED
    BY <2>1, <2>2, <2>3 DEF Lost
<1>15. Leaked' = Leaked \cup old
  <2> HIDE DEF old
  <2>1. used' = used \cup {f} /\ \A h \in Frame : h # 0 => h \in Ram
    BY <1>1, PagingAssumption DEF Frame, Ram, f
  <2> QED
    BY <1>4, <1>6, <1>9, <1>10, <2>1 DEF Leaked, Boot
<1> QED
  BY <1>5, <1>11, <1>12, <1>13, <1>14, <1>15 DEF LInv

\* Once the kernel has faulted nothing moves any more: until then LInv holds,
\* and every step, taken or not, loses what Lost says.
LeakInv == ~halted => LInv

LeakStep == ~halted' => Leaked' = Leaked \cup Lost

LEMMA LStepOK == LeakInv /\ [Next]_vars => LeakInv' /\ [LeakStep]_vars
<1> SUFFICES ASSUME LeakInv, [Next]_vars PROVE LeakInv' /\ [LeakStep]_vars
  OBVIOUS
<1>1. CASE UNCHANGED vars
  <2>1. LeakInv'
    BY <1>1 DEF LeakInv, vars, LInv, IInv, TypeOK, FramesOwned, OwnedMarked, OneOwner,
                Owned, NothingWithoutDirectory, BootKept, JobOK
  <2> QED
    BY <1>1, <2>1
<1>2. CASE \E p \in Pids : handle_syscall_fork(p)
  BY <1>2, ForkLoses DEF handle_syscall_fork, Calling, LeakInv, LeakStep
<1>3. CASE \E p \in Pids, n \in 1..ProgramPages : handle_syscall_exec(p, n)
  BY <1>3, ExecLoses DEF handle_syscall_exec, Calling, LeakInv, LeakStep
<1>4. CASE \E p \in Pids, offset \in Offsets : handle_syscall_sbrk(p, offset)
  BY <1>4, SbrkLoses DEF handle_syscall_sbrk, Calling, LeakInv, LeakStep
<1>5. CASE \E p \in Pids : scheduler_remove(p)
  BY <1>5, RemoveLoses DEF scheduler_remove, Calling, LeakInv, LeakStep
<1>6. CASE map_page
  BY <1>6, MapLoses DEF map_page, LeakInv, LeakStep
<1> QED
  BY <1>1, <1>2, <1>3, <1>4, <1>5, <1>6 DEF Next

\* A frame is lost for good in two places only, the removal of a process (its
\* directory and its copy of the frame buffer) and the first sbrk of a forked
\* child; fork, exec, sbrk and removal give back or keep everything else, for
\* every amount of memory.
THEOREM LeaksAreThese == Spec => LeaksOnlyThere
<1>1. Init => LeakInv
  BY LInitOK DEF LeakInv
<1>2. LeakInv /\ [Next]_vars => LeakInv' /\ [LeakStep]_vars
  BY LStepOK
<1> QED
  BY <1>1, <1>2, PTL DEF Spec, LeaksOnlyThere, LeakStep, Lost

(***************************************************************************)
(* What fork copies                                                        *)
(***************************************************************************)
Copied(theirs, ours) ==
    /\ ours = None <=> theirs = None
    /\ ours # None => ours \in Frame /\ (ours # theirs \/ ours = 0)

\* A fork fills the child from the entries its parent had when it was called:
\* the parent does not run meanwhile, and is not the child.
Copying ==
    job.call = "fork" =>
        /\ job.source # job.pid
        /\ \A e \in job.todo : space[job.source][e] # None
        /\ \A e \in Entries \ job.todo : Copied(space[job.source][e], space[job.pid][e])

CopyInv == LeakInv /\ (~halted => Copying)

CopyStep ==
    job.call = "fork" /\ job' = NoJob =>
        \A e \in Entries : Copied(space'[job.source][e], space'[job.pid][e])

LEMMA ForkCopies ==
    ASSUME LInv, NEW p \in Pids, handle_syscall_fork(p)
    PROVE  Copying'
<1>1. /\ job'.source = p /\ job'.pid = pid_static /\ job'.todo = copy_page_directory(p)
      /\ UNCHANGED space /\ space[p][Dir] # None
  BY DEF handle_syscall_fork, Calling, Live
<1>2. pid_static \in Pids
  BY PagingAssumption DEF LInv, IInv, TypeOK, handle_syscall_fork, Pids, Main
<1>3. \A e \in Entries : space[pid_static][e] = None
  BY <1>2 DEF LInv, IInv, TypeOK, NothingWithoutDirectory
<1>4. p # pid_static
  BY <1>1, <1>3, EntryFacts
<1>5. \A e \in copy_page_directory(p) : space[p][e] # None
  BY DEF copy_page_directory
<1>6. \A e \in Entries \ copy_page_directory(p) : space[p][e] = None
  BY DEF copy_page_directory
<1> QED
  BY <1>1, <1>3, <1>4, <1>5, <1>6 DEF Copying, Copied

\* One turn of copy_page_directory: the frame is nobody's yet, so it is not the
\* one that is copied.
LEMMA MapCopies ==
    ASSUME LInv, Copying, map_page, ~halted'
    PROVE  Copying' /\ CopyStep
<1> DEFINE f == allocate_frame
           p == job.pid
           q == job.source
<1>1. PICK e \in job.todo : Fill(e, f)
  BY DEF map_page, Fault
<1>2. /\ p \in Pids /\ q \in Pids /\ e \in Entries
      /\ f \in Frame /\ (f # 0 => f \in Ram /\ f \notin used)
      /\ space \in Spaces
  BY <1>1, AllocateOK DEF LInv, IInv, TypeOK, Spaces
<1>3. f # None
  BY <1>2, PagingAssumption DEF Frame, None
<1> HIDE DEF f
<1>4. /\ space' = [space EXCEPT ![p][e] = f]
      /\ job' = IF job.todo \ {e} = {} THEN NoJob ELSE [job EXCEPT !.todo = job.todo \ {e}]
  BY <1>1 DEF Fill
<1>5. \A r \in Pids, d \in Entries :
         space'[r][d] = IF r = p /\ d = e THEN f ELSE space[r][d]
  BY <1>2, <1>4 DEF Spaces
<1>6. CASE job.call # "fork"
  BY <1>4, <1>6 DEF Copying, CopyStep, NoJob, LInv, IInv, TypeOK
<1>7. CASE job.call = "fork"
  <2>1. q # p /\ space[q][e] # None
    BY <1>1, <1>7 DEF Copying
  <2>2. f # space[q][e] \/ f = 0
    <3> SUFFICES ASSUME f # 0, f = space[q][e] PROVE FALSE
      OBVIOUS
    <3>1. f \in Owned
      BY <1>2 DEF Owned
    <3> QED
      BY <1>2, <3>1 DEF LInv, IInv, FramesOwned, OwnedMarked
  <2>3. Copied(space'[q][e], space'[p][e])
    BY <1>2, <1>3, <1>5, <2>1, <2>2 DEF Copied
  <2>4. \A d \in Entries \ job.todo : Copied(space'[q][d], space'[p][d])
    BY <1>1, <1>2, <1>5, <1>7, <2>1 DEF Copying
  <2>5. \A d \in Entries \ (job.todo \ {e}) : Copied(space'[q][d], space'[p][d])
    BY <2>3, <2>4
  <2>6. \A d \in job.todo \ {e} : space'[q][d] # None
    BY <1>2, <1>5, <1>7, <2>1 DEF Copying, LInv, IInv, TypeOK
  <2>7. CASE job.todo \ {e} = {}
    <3>1. Copying'
      BY <1>4, <2>7 DEF Copying, NoJob
    <3> QED
      BY <2>5, <2>7, <3>1 DEF CopyStep
  <2>8. CASE job.todo \ {e} # {}
    <3>1. /\ job'.todo = job.todo \ {e} /\ job'.source = q /\ job'.pid = p
          /\ job'.call = "fork"
      BY <1>4, <1>7, <2>8 DEF LInv, IInv, TypeOK
    <3>2. Copying'
      BY <2>1, <2>5, <2>6, <3>1 DEF Copying
    <3>3. job' # NoJob
      BY <3>1 DEF NoJob
    <3> QED
      BY <3>2, <3>3 DEF CopyStep
  <2> QED
    BY <2>7, <2>8
<1> QED
  BY <1>6, <1>7

LEMMA CopyStepOK == CopyInv /\ [Next]_vars => CopyInv' /\ [CopyStep]_vars
<1> SUFFICES ASSUME CopyInv, [Next]_vars PROVE CopyInv' /\ [CopyStep]_vars
  OBVIOUS
<1>1. LeakInv'
  BY LStepOK DEF CopyInv
<1>2. CASE UNCHANGED vars
  BY <1>1, <1>2 DEF CopyInv, vars, Copying
<1>3. CASE \E p \in Pids : handle_syscall_fork(p)
  <2>1. ~halted /\ job = NoJob
    BY <1>3 DEF handle_syscall_fork, Calling
  <2>2. Copying'
    BY <1>3, <2>1, ForkCopies DEF CopyInv, LeakInv
  <2> QED
    BY <1>1, <2>1, <2>2 DEF CopyInv, CopyStep, NoJob
<1>4. CASE \/ \E p \in Pids, n \in 1..ProgramPages : handle_syscall_exec(p, n)
           \/ \E p \in Pids, offset \in Offsets : handle_syscall_sbrk(p, offset)
           \/ \E p \in Pids : scheduler_remove(p)
  <2>1. job.call = "none" /\ (job' = job \/ job'.call # "fork")
    BY <1>4 DEF handle_syscall_exec, handle_syscall_sbrk, scheduler_remove, Calling, NoJob
  <2> QED
    BY <1>1, <2>1 DEF CopyInv, CopyStep, Copying
<1>5. CASE map_page
  <2>1. CASE ~halted'
    <3>1. LInv /\ Copying
      BY <1>5 DEF map_page, CopyInv, LeakInv
    <3> QED
      BY <1>1, <1>5, <2>1, <3>1, MapCopies DEF CopyInv
  <2>2. CASE halted'
    <3>1. ~halted /\ LInv
      BY <1>5 DEF map_page, CopyInv, LeakInv
    <3>2. job' = job
      BY <1>5, <2>2, <3>1 DEF map_page, Fill, Fault
    <3>3. CopyInv'
      BY <1>1, <2>2 DEF CopyInv
    <3>4. CopyStep
      BY <3>2 DEF CopyStep, NoJob
    <3> QED
      BY <3>3, <3>4
  <2> QED
    BY <2>1, <2>2
<1> QED
  BY <1>2, <1>3, <1>4, <1>5 DEF Next

\* A fork that ends has copied everything: the child has an entry where its
\* parent has one, in another frame unless memory had run out, and nothing else.
THEOREM ForkIsComplete == Spec => ForkCopiesAll
<1>1. Init => CopyInv
  BY LInitOK DEF CopyInv, LeakInv, Init, Copying, NoJob
<1>2. CopyInv /\ [Next]_vars => [job.call = "fork" /\ job' = NoJob =>
          \A e \in Entries :
              LET theirs == space'[job.source][e]
                  ours   == space'[job.pid][e]
              IN  /\ ours = None <=> theirs = None
                  /\ ours # None => ours \in Frame /\ (ours # theirs \/ ours = 0)]_vars
  BY CopyStepOK DEF CopyStep, Copied
<1> QED
  BY <1>1, <1>2, CopyStepOK, PTL DEF Spec, ForkCopiesAll

(***************************************************************************)
(* The kernel heap: as long as no subtraction has wrapped, the blocks      *)
(* stay disjoint, the allocations stay whole and free neighbours merge.    *)
(***************************************************************************)
Block == [addr : Nat, size : Nat, is_free : BOOLEAN]

\* What is true of the list: each block ends where a later one begins or
\* before, all end within the heap, and two neighbours are not both free.
InOrder(bs) ==
    \A i, j \in 1..Len(bs) : i < j => End(bs[i]) <= bs[j].addr

InHeap(bs) == \A i \in 1..Len(bs) : End(bs[i]) <= HEAP_SIZE

Merged(bs) == \A i \in 1..(Len(bs) - 1) : ~(bs[i].is_free /\ bs[i + 1].is_free)

\* p was handed out for n bytes, and the list still has its block.
Held(bs, p, n) ==
    \E i \in 1..Len(bs) : Payload(bs[i]) = p /\ ~bs[i].is_free /\ bs[i].size >= n

HeapInv ==
    ~corrupt =>
        /\ heap \in Seq(Block) /\ Len(heap) >= 1
        /\ InOrder(heap)
        /\ InHeap(heap)
        /\ Merged(heap)
        /\ \A p \in DOMAIN live : Held(heap, p, live[p])

LEMMA Numbers ==
    /\ HEADER \in Nat /\ HEADER >= 1 /\ HEAP_SIZE \in Nat /\ HEAP_SIZE > HEADER
    /\ WORD \in Nat /\ WORD > HEAP_SIZE
    /\ \A size \in Requests : size \in Nat /\ size >= 1
BY KmallocAssumption

LEMMA BlockShape ==
    ASSUME NEW b \in Block
    PROVE  /\ b.addr \in Nat /\ b.size \in Nat /\ b.is_free \in BOOLEAN
           /\ Payload(b) = b.addr + HEADER /\ End(b) = b.addr + HEADER + b.size
           /\ Payload(b) \in Nat /\ End(b) \in Nat
BY Numbers DEF Block, Payload, End

(***************************************************************************)
(* Numbers and lists                                                       *)
(***************************************************************************)
\* Induction over 0..n, stated of a set.
LEMMA Interval ==
    ASSUME NEW n \in Nat, NEW S, 0 \in S, \A i \in 0..(n - 1) : i \in S => i + 1 \in S
    PROVE  0..n \subseteq S
<1> DEFINE Missing == {i \in 0..n : i \notin S}
<1> SUFFICES ASSUME Missing # {} PROVE FALSE
  OBVIOUS
<1>1. Missing \in SUBSET Nat
  OBVIOUS
<1>2. PICK m \in Missing : \A i \in Missing : m <= i
  <2> HIDE DEF Missing
  <2> QED
    BY <1>1, LeastExists
<1>3. m \in 0..n /\ m # 0 /\ m \notin S
  OBVIOUS
<1>4. m - 1 \in 0..(n - 1) /\ m - 1 + 1 = m
  BY <1>3
<1>5. m - 1 \in S
  BY <1>2, <1>3, <1>4
<1> QED
  BY <1>3, <1>4, <1>5

\* A difference that has not wrapped is what it is in a word.
LEMMA NoWrap ==
    ASSUME NEW w \in Nat, NEW x \in Nat, x < w
    PROVE  x % w = x
<1> DEFINE q == x \div w
           r == x % w
<1>1. /\ q \in Int /\ r \in Int
      /\ 0 <= r /\ r < w
      /\ x = w * q + r
  BY Z3
<1> HIDE DEF q, r
<1>2. q >= 0
  <2> SUFFICES ASSUME q <= -1 PROVE FALSE
    BY <1>1
  <2>1. w * q <= w * (-1)
    BY <1>1
  <2> QED
    BY <1>1, <2>1
<1>3. q < 1
  <2> SUFFICES ASSUME q >= 1 PROVE FALSE
    BY <1>1
  <2>1. w * q >= w * 1
    BY <1>1
  <2> QED
    BY <1>1, <2>1
<1>4. q = 0
  BY <1>1, <1>2, <1>3
<1> QED
  BY <1>1, <1>4 DEF r

\* t is s with the i-th element replaced by the elements of r.
Spliced(t, s, i, r) == t = SubSeq(s, 1, i - 1) \o r \o SubSeq(s, i + 1, Len(s))

LEMMA Splice ==
    ASSUME NEW S, NEW s \in Seq(S), NEW i \in 1..Len(s), NEW r \in Seq(S),
           NEW t, Spliced(t, s, i, r)
    PROVE  /\ t \in Seq(S)
           /\ Len(t) = Len(s) - 1 + Len(r)
           /\ \A j \in 1..Len(t) :
                t[j] = IF j < i THEN s[j]
                       ELSE IF j < i + Len(r) THEN r[j - i + 1] ELSE s[j - Len(r) + 1]
<1> DEFINE n == Len(s)
           a == SubSeq(s, 1, i - 1)
           z == SubSeq(s, i + 1, n)
           ar == a \o r
<1>1. n \in Nat /\ i \in 1..n /\ Len(r) \in Nat /\ \A k \in 1..n : s[k] \in S
  BY LenProperties, ElementOfSeq
<1>2. /\ a \in Seq(S) /\ Len(a) = i - 1
      /\ \A k \in 1..(i - 1) : a[k] = s[k]
  <2>1. \A k \in 1..(i - 1) : s[k] \in S
    BY <1>1
  <2>2. 1 \in Int /\ i - 1 \in Int
    BY <1>1
  <2>3. /\ a \in Seq(S) /\ Len(a) = IF 1 <= i - 1 THEN i - 1 - 1 + 1 ELSE 0
        /\ \A k \in 1..(i - 1 - 1 + 1) : a[k] = s[1 + k - 1]
    BY <2>1, <2>2, SubSeqProperties
  <2> HIDE DEF a
  <2> QED
    BY <1>1, <2>3
<1>3. /\ z \in Seq(S) /\ Len(z) = n - i
      /\ \A k \in 1..(n - i) : z[k] = s[i + k]
  <2>1. \A k \in (i + 1)..n : s[k] \in S
    BY <1>1
  <2>2. i + 1 \in Int /\ n \in Int
    BY <1>1
  <2> HIDE DEF n
  <2>3. /\ z \in Seq(S) /\ Len(z) = IF i + 1 <= n THEN n - (i + 1) + 1 ELSE 0
        /\ \A k \in 1..(n - (i + 1) + 1) : z[k] = s[i + 1 + k - 1]
    BY <2>1, <2>2, SubSeqProperties
  <2> HIDE DEF z
  <2> QED
    BY <1>1, <2>3
<1>4. t = ar \o z
  BY DEF Spliced
<1> HIDE DEF n, a, z
<1>5. /\ ar \in Seq(S) /\ Len(ar) = i - 1 + Len(r)
      /\ \A k \in 1..(i - 1 + Len(r)) : ar[k] = IF k <= i - 1 THEN a[k] ELSE r[k - (i - 1)]
  <2>1. /\ ar \in Seq(S) /\ Len(ar) = Len(a) + Len(r)
        /\ \A k \in 1..(Len(a) + Len(r)) : ar[k] = IF k <= Len(a) THEN a[k] ELSE r[k - Len(a)]
    BY <1>2, ConcatProperties
  <2> HIDE DEF ar
  <2> QED
    BY <1>2, <2>1
<1> HIDE DEF ar
<1>6. /\ t \in Seq(S) /\ Len(t) = i - 1 + Len(r) + (n - i)
      /\ \A k \in 1..(i - 1 + Len(r) + (n - i)) :
            t[k] = IF k <= i - 1 + Len(r) THEN ar[k] ELSE z[k - (i - 1 + Len(r))]
  <2>1. /\ t \in Seq(S) /\ Len(t) = Len(ar) + Len(z)
        /\ \A k \in 1..(Len(ar) + Len(z)) : t[k] = IF k <= Len(ar) THEN ar[k] ELSE z[k - Len(ar)]
    <3>1. ar \in Seq(S) /\ z \in Seq(S)
      BY <1>3, <1>5
    <3>2. /\ ar \o z \in Seq(S) /\ Len(ar \o z) = Len(ar) + Len(z)
          /\ \A k \in 1..(Len(ar) + Len(z)) :
                (ar \o z)[k] = IF k <= Len(ar) THEN ar[k] ELSE z[k - Len(ar)]
      BY <3>1, ConcatProperties
    <3> QED
      BY <1>4, <3>2
  <2> QED
    BY <1>3, <1>5, <2>1
<1>7. Len(t) = n - 1 + Len(r)
  BY <1>1, <1>6
<1>8. ASSUME NEW j \in 1..Len(t)
      PROVE  t[j] = IF j < i THEN s[j]
                    ELSE IF j < i + Len(r) THEN r[j - i + 1] ELSE s[j - Len(r) + 1]
  <2>1. t[j] = IF j <= i - 1 + Len(r) THEN ar[j] ELSE z[j - (i - 1 + Len(r))]
    BY <1>6
  <2>5. j \in Nat /\ 1 <= j /\ j <= n - 1 + Len(r)
    <3>1. Len(r) \in Nat /\ n \in Nat
      BY <1>1
    <3>2. j \in 1..(n - 1 + Len(r))
      BY <1>7
    <3> QED
      BY <3>1, <3>2
  <2>2. CASE j < i
    <3>1. j \in 1..(i - 1) /\ j <= i - 1 + Len(r) /\ j <= i - 1 /\ j \in 1..(i - 1 + Len(r))
      BY <1>1, <2>2, <2>5
    <3> QED
      BY <1>2, <1>5, <2>1, <2>2, <3>1
  <2>3. CASE ~(j < i) /\ j < i + Len(r)
    <3>1. /\ j \in 1..(i - 1 + Len(r)) /\ j <= i - 1 + Len(r) /\ ~(j <= i - 1)
          /\ j - (i - 1) = j - i + 1
      BY <1>1, <2>3, <2>5
    <3> QED
      BY <1>5, <2>1, <2>3, <3>1
  <2>4. CASE ~(j < i) /\ ~(j < i + Len(r))
    <3>1. j - (i - 1 + Len(r)) \in 1..(n - i)
      BY <1>1, <2>4, <2>5
    <3>2. i + (j - (i - 1 + Len(r))) = j - Len(r) + 1
      BY <1>1, <2>5
    <3>3. t[j] = s[j - Len(r) + 1]
      <4>1. ~(j <= i - 1 + Len(r))
        BY <1>1, <2>4, <2>5
      <4> QED
        BY <1>3, <2>1, <3>1, <3>2, <4>1
    <3>4. ~(j < i)
      BY <2>4
    <3> QED
      BY <2>4, <3>3
  <2> QED
    BY <2>2, <2>3, <2>4
<1> QED
  BY <1>6, <1>7, <1>8 DEF n

\* A block of another size.
LEMMA Resized ==
    ASSUME NEW p \in Block, NEW v \in Nat, NEW q, q = [p EXCEPT !.size = v]
    PROVE  /\ q \in Block
           /\ q.addr = p.addr /\ q.size = v /\ q.is_free = p.is_free
           /\ Payload(q) = Payload(p) /\ End(q) = Payload(p) + v
<1>1. q = [addr |-> p.addr, size |-> v, is_free |-> p.is_free]
  BY DEF Block
<1>2. q \in Block /\ q.addr = p.addr /\ q.size = v /\ q.is_free = p.is_free
  BY <1>1 DEF Block
<1> QED
  BY <1>2 DEF Payload, End

LEMMA Marked ==
    ASSUME NEW p \in Block, NEW f \in BOOLEAN
    PROVE  [p EXCEPT !.is_free = f] = [addr |-> p.addr, size |-> p.size, is_free |-> f]
BY DEF Block

LEMMA Taken ==
    ASSUME NEW p \in Block, NEW v \in Nat
    PROVE  [p EXCEPT !.size = v, !.is_free = FALSE]
             = [addr |-> p.addr, size |-> v, is_free |-> FALSE]
<1> DEFINE c == [p EXCEPT !.size = v]
<1>1. [p EXCEPT !.size = v, !.is_free = FALSE] = [c EXCEPT !.is_free = FALSE]
  OBVIOUS
<1>2. c \in Block /\ c.addr = p.addr /\ c.size = v
  BY Resized
<1> HIDE DEF c
<1>3. [c EXCEPT !.is_free = FALSE] = [addr |-> c.addr, size |-> c.size, is_free |-> FALSE]
  BY <1>2, Marked, Zenon
<1> QED
  BY <1>1, <1>2, <1>3, Zenon

(***************************************************************************)
(* Coalescing                                                              *)
(***************************************************************************)
\* d is what the walk over bs has made of its first k blocks.
Walk(bs, k, d) ==
    /\ d \in Seq(Block)
    /\ k > 0 => Len(d) >= 1
    /\ k = 0 => Len(d) = 0
    /\ InOrder(d)
    /\ InHeap(d)
    /\ Merged(d)
    /\ \A i \in 1..Len(d) : \A j \in (k + 1)..Len(bs) : End(d[i]) <= bs[j].addr
    /\ \A i \in 1..k : ~bs[i].is_free => \E m \in 1..Len(d) : d[m] = bs[i]

\* The next block stays a block of its own ...
LEMMA WalkKeeps ==
    ASSUME NEW bs \in Seq(Block), InOrder(bs), InHeap(bs),
           NEW k \in 0..(Len(bs) - 1), NEW d, Walk(bs, k, d),
           ~(k > 0 /\ d[Len(d)].is_free /\ bs[k + 1].is_free)
    PROVE  Walk(bs, k + 1, Append(d, bs[k + 1]))
<1> DEFINE b == bs[k + 1]
           e == Append(d, b)
           n == Len(d)
<1>1. Len(bs) \in Nat /\ k \in Nat /\ k + 1 \in 1..Len(bs) /\ b \in Block
  BY ElementOfSeq, LenProperties
<1>2. d \in Seq(Block) /\ n \in Nat /\ \A i \in 1..n : d[i] \in Block
  BY ElementOfSeq, LenProperties DEF Walk
<1> HIDE DEF b
<1>3. /\ e \in Seq(Block) /\ Len(e) = n + 1
      /\ e[n + 1] = b
      /\ \A i \in 1..n : e[i] = d[i]
  BY <1>1, <1>2, AppendProperties
<1> HIDE DEF e, n
<1>4. /\ \A i \in 1..n : \A j \in (k + 1)..Len(bs) : End(d[i]) <= bs[j].addr
      /\ \A i, j \in 1..n : i < j => End(d[i]) <= d[j].addr
      /\ \A i \in 1..n : End(d[i]) <= HEAP_SIZE
      /\ \A i \in 1..(n - 1) : ~(d[i].is_free /\ d[i + 1].is_free)
      /\ \A i \in 1..k : ~bs[i].is_free => \E m \in 1..n : d[m] = bs[i]
      /\ k > 0 => n >= 1
      /\ k = 0 => n = 0
  BY DEF Walk, InOrder, InHeap, Merged, n
<1>5. InOrder(e)
  <2> SUFFICES ASSUME NEW i \in 1..(n + 1), NEW j \in 1..(n + 1), i < j
               PROVE  End(e[i]) <= e[j].addr
    BY <1>3 DEF InOrder
  <2>1. i \in 1..n
    BY <1>2
  <2>2. CASE j = n + 1
    <3>1. End(d[i]) <= b.addr
      BY <1>1, <1>4, <2>1 DEF b
    <3> QED
      BY <1>3, <2>1, <2>2, <3>1
  <2>3. CASE j # n + 1
    <3>1. j \in 1..n
      BY <1>2, <2>3
    <3> QED
      BY <1>3, <1>4, <2>1, <3>1
  <2> QED
    BY <2>2, <2>3
<1>6. InHeap(e)
  <2> SUFFICES ASSUME NEW i \in 1..(n + 1) PROVE End(e[i]) <= HEAP_SIZE
    BY <1>3 DEF InHeap
  <2>1. End(b) <= HEAP_SIZE
    BY <1>1 DEF InHeap, b
  <2>2. i = n + 1 \/ i \in 1..n
    BY <1>2
  <2> QED
    BY <1>3, <1>4, <2>1, <2>2
<1>7. Merged(e)
  <2> SUFFICES ASSUME NEW i \in 1..n PROVE ~(e[i].is_free /\ e[i + 1].is_free)
    BY <1>2, <1>3 DEF Merged
  <2>1. CASE i = n
    <3>1. k > 0
      BY <1>1, <1>2, <1>4
    <3>2. ~(d[n].is_free /\ b.is_free)
      BY <3>1 DEF b, n
    <3> QED
      BY <1>3, <2>1, <3>2
  <2>2. CASE i # n
    <3>1. i \in 1..(n - 1) /\ i + 1 \in 1..n
      BY <1>2, <2>2
    <3> QED
      BY <1>3, <1>4, <3>1
  <2> QED
    BY <2>1, <2>2
<1>8. ASSUME NEW i \in 1..Len(e), NEW j \in (k + 1 + 1)..Len(bs)
      PROVE  End(e[i]) <= bs[j].addr
  <2>1. j \in (k + 1)..Len(bs) /\ k + 1 < j /\ j \in 1..Len(bs)
    BY <1>1
  <2>2. i = n + 1 \/ i \in 1..n
    BY <1>2, <1>3
  <2>3. End(b) <= bs[j].addr
    BY <1>1, <2>1 DEF InOrder, b
  <2> QED
    BY <1>3, <1>4, <2>1, <2>2, <2>3
<1>9. ASSUME NEW i \in 1..(k + 1), ~bs[i].is_free
      PROVE  \E m \in 1..Len(e) : e[m] = bs[i]
  <2>1. CASE i = k + 1
    <3>1. n + 1 \in 1..Len(e) /\ e[n + 1] = bs[i]
      BY <1>2, <1>3, <2>1 DEF b
    <3> QED
      BY <3>1
  <2>2. CASE i # k + 1
    <3>1. i \in 1..k
      BY <1>1, <2>2
    <3>2. PICK m \in 1..n : d[m] = bs[i]
      BY <1>4, <1>9, <3>1
    <3>3. m \in 1..Len(e)
      BY <1>2, <1>3
    <3> QED
      BY <1>3, <3>2, <3>3
  <2> QED
    BY <2>1, <2>2
<1>10. Len(e) >= 1 /\ k + 1 # 0
  BY <1>1, <1>2, <1>3
<1>11. Walk(bs, k + 1, e)
  BY <1>3, <1>5, <1>6, <1>7, <1>8, <1>9, <1>10 DEF Walk
<1> QED
  BY <1>11 DEF e, b

\* ... or is swallowed by the free block before it.
LEMMA WalkSwallows ==
    ASSUME NEW bs \in Seq(Block), InOrder(bs), InHeap(bs),
           NEW k \in 1..(Len(bs) - 1), NEW d, Walk(bs, k, d),
           d[Len(d)].is_free, bs[k + 1].is_free
    PROVE  Walk(bs, k + 1, [d EXCEPT ![Len(d)].size = @ + bs[k + 1].size + HEADER])
<1> DEFINE b == bs[k + 1]
           n == Len(d)
           p == d[n]
           v == p.size + b.size + HEADER
           q == [p EXCEPT !.size = v]
           e == [d EXCEPT ![n] = q]
<1>1. Len(bs) \in Nat /\ k \in Nat /\ k + 1 \in 1..Len(bs) /\ b \in Block
  BY ElementOfSeq, LenProperties
<1>2. d \in Seq(Block) /\ n \in Nat /\ n >= 1 /\ \A i \in 1..n : d[i] \in Block
  BY ElementOfSeq, LenProperties DEF Walk
<1>3. n \in 1..n /\ p \in Block /\ p.is_free
  BY <1>2
<1>4. [d EXCEPT ![Len(d)].size = @ + bs[k + 1].size + HEADER] = e
  OBVIOUS
<1> HIDE DEF b, q, p
<1>5. q \in Block /\ q.addr = p.addr /\ q.is_free /\ End(q) = End(p) + HEADER + b.size
  <2>1. /\ p.size \in Nat /\ b.size \in Nat /\ HEADER \in Nat /\ v \in Nat
        /\ Payload(p) \in Nat /\ End(p) = Payload(p) + p.size
    <3>1. p.size \in Nat /\ Payload(p) \in Nat /\ End(p) = Payload(p) + p.size
      BY <1>3, BlockShape, Zenon DEF End
    <3>2. b.size \in Nat
      BY <1>1, BlockShape
    <3> QED
      BY <3>1, <3>2, Numbers
  <2> HIDE DEF v
  <2>2. /\ q \in Block /\ q.addr = p.addr /\ q.is_free = p.is_free
        /\ End(q) = Payload(p) + v
    <3>1. q = [p EXCEPT !.size = v]
      BY DEF q
    <3> QED
      <4>1. p \in Block /\ v \in Nat
        BY <1>3, <2>1
      <4>2. /\ q \in Block /\ q.addr = p.addr /\ q.is_free = p.is_free
            /\ End(q) = Payload(p) + v
        BY <3>1, <4>1, Resized
      <4> QED
        BY <4>2
  <2>3. Payload(p) + v = End(p) + HEADER + b.size
    BY <2>1 DEF v
  <2> QED
    BY <1>3, <2>2, <2>3
<1> HIDE DEF b, q
<1>6. /\ e \in Seq(Block) /\ Len(e) = n
      /\ \A i \in 1..n : e[i] = IF i = n THEN q ELSE d[i]
  BY <1>2, <1>3, <1>5, ExceptSeq
<1> HIDE DEF e, n, p
<1>7. /\ \A i \in 1..n : \A j \in (k + 1)..Len(bs) : End(d[i]) <= bs[j].addr
      /\ \A i, j \in 1..n : i < j => End(d[i]) <= d[j].addr
      /\ \A i \in 1..n : End(d[i]) <= HEAP_SIZE
      /\ \A i \in 1..(n - 1) : ~(d[i].is_free /\ d[i + 1].is_free)
      /\ \A i \in 1..k : ~bs[i].is_free => \E m \in 1..n : d[m] = bs[i]
      /\ d[n].is_free /\ b.is_free
  BY DEF Walk, InOrder, InHeap, Merged, n, b
<1>8. End(q) <= End(b)
  <2>1. End(p) <= b.addr
    BY <1>1, <1>3, <1>7 DEF p, b
  <2>2. End(b) = b.addr + HEADER + b.size /\ b.addr \in Nat /\ b.size \in Nat
    BY <1>1, BlockShape
  <2>3. End(p) \in Nat
    BY <1>3, BlockShape
  <2> QED
    BY <1>5, <2>1, <2>2, <2>3, Numbers
<1>9. InOrder(e)
  <2> SUFFICES ASSUME NEW i \in 1..n, NEW j \in 1..n, i < j PROVE End(e[i]) <= e[j].addr
    BY <1>6 DEF InOrder
  <2>1. i # n
    BY <1>2
  <2>2. e[i] = d[i] /\ e[j].addr = d[j].addr
    BY <1>5, <1>6, <2>1 DEF p
  <2> QED
    BY <1>7, <2>2
<1>10. InHeap(e)
  <2> SUFFICES ASSUME NEW i \in 1..n PROVE End(e[i]) <= HEAP_SIZE
    BY <1>6 DEF InHeap
  <2>1. End(b) <= HEAP_SIZE
    BY <1>1 DEF InHeap, b
  <2>2. End(q) \in Nat /\ End(b) \in Nat /\ HEAP_SIZE \in Nat
    BY <1>1, <1>5, BlockShape, Numbers
  <2>3. End(q) <= HEAP_SIZE
    BY <1>8, <2>1, <2>2
  <2> QED
    BY <1>6, <1>7, <2>3
<1>11. Merged(e)
  <2> SUFFICES ASSUME NEW i \in 1..(n - 1) PROVE ~(e[i].is_free /\ e[i + 1].is_free)
    BY <1>6 DEF Merged
  <2>1. i \in 1..n /\ i + 1 \in 1..n /\ i # n
    BY <1>2
  <2>2. e[i] = d[i] /\ ~(d[i].is_free /\ d[i + 1].is_free)
    BY <1>6, <1>7, <2>1
  <2>3. CASE i + 1 = n
    BY <1>7, <2>2, <2>3
  <2>4. CASE i + 1 # n
    <3>1. e[i + 1] = d[i + 1]
      BY <1>6, <2>1, <2>4
    <3> QED
      BY <2>2, <3>1
  <2> QED
    BY <2>3, <2>4
<1>12. ASSUME NEW i \in 1..Len(e), NEW j \in (k + 1 + 1)..Len(bs)
       PROVE  End(e[i]) <= bs[j].addr
  <2>1. j \in (k + 1)..Len(bs) /\ k + 1 < j /\ j \in 1..Len(bs)
    BY <1>1
  <2>2. End(b) <= bs[j].addr
    BY <1>1, <2>1 DEF InOrder, b
  <2>3. bs[j] \in Block
    BY <2>1, ElementOfSeq
  <2>4. End(q) \in Nat /\ End(b) \in Nat /\ bs[j].addr \in Nat
    BY <1>1, <1>5, <2>3, BlockShape
  <2>5. End(q) <= bs[j].addr
    BY <1>8, <2>2, <2>4
  <2> QED
    BY <1>6, <1>7, <2>1, <2>5
<1>13. ASSUME NEW i \in 1..(k + 1), ~bs[i].is_free
       PROVE  \E m \in 1..Len(e) : e[m] = bs[i]
  <2>1. i # k + 1
    BY <1>7, <1>13 DEF b
  <2>2. i \in 1..k
    BY <1>1, <2>1
  <2>3. PICK m \in 1..n : d[m] = bs[i]
    BY <1>7, <1>13, <2>2
  <2>4. m # n
    BY <1>7, <1>13, <2>3
  <2> QED
    BY <1>6, <2>3, <2>4
<1>14. Len(e) >= 1 /\ k + 1 # 0
  BY <1>1, <1>2, <1>6
<1>15. Walk(bs, k + 1, e)
  BY <1>6, <1>9, <1>10, <1>11, <1>12, <1>13, <1>14 DEF Walk
<1> QED
  BY <1>4, <1>15

Swallowed(d, b) == [d EXCEPT ![Len(d)].size = @ + b.size + HEADER]

\* The turn of the walk that reaches block i, over what it has after each turn.
WalkStep(bs, g, i) ==
    IF i = 0 THEN << >>
    ELSE IF i > 1 /\ Last(g[i - 1]).is_free /\ bs[i].is_free
    THEN Swallowed(g[i - 1], bs[i])
    ELSE Append(g[i - 1], bs[i])

LEMMA TurnAt ==
    ASSUME NEW bs, NEW g, NEW k \in Nat, NEW d, d = g[k]
    PROVE  /\ k > 0 /\ Last(d).is_free /\ bs[k + 1].is_free =>
                 WalkStep(bs, g, k + 1) = Swallowed(d, bs[k + 1])
           /\ ~(k > 0 /\ Last(d).is_free /\ bs[k + 1].is_free) =>
                 WalkStep(bs, g, k + 1) = Append(d, bs[k + 1])
<1>1. k + 1 - 1 = k /\ k + 1 # 0 /\ (k + 1 > 1 <=> k > 0)
  OBVIOUS
<1> QED
  BY <1>1 DEF WalkStep

LEMMA WalkRuns ==
    ASSUME NEW bs, Len(bs) \in Nat
    PROVE  \E g : g = [i \in 0..Len(bs) |-> WalkStep(bs, g, i)]
<1> DEFINE n == Len(bs)
           S == {k \in 0..n : \E g : g = [i \in 0..k |-> WalkStep(bs, g, i)]}
<1>1. n \in Nat
  OBVIOUS
<1> HIDE DEF n
<1>2. 0 \in S
  <2> DEFINE g == [i \in 0..0 |-> << >>]
  <2>1. g = [i \in 0..0 |-> WalkStep(bs, g, i)]
    BY DEF WalkStep
  <2> QED
    BY <1>1, <2>1
<1>3. ASSUME NEW k \in 0..(n - 1), k \in S PROVE k + 1 \in S
  <2>1. PICK g : g = [i \in 0..k |-> WalkStep(bs, g, i)]
    BY <1>3
  <2> DEFINE h == [i \in 0..(k + 1) |-> IF i <= k THEN g[i] ELSE WalkStep(bs, g, k + 1)]
  <2>2. ASSUME NEW i \in 0..(k + 1) PROVE h[i] = WalkStep(bs, h, i)
    <3>1. i # 0 => i - 1 \in 0..(k + 1) /\ i - 1 <= k
      BY <1>1
    <3>2. i # 0 => h[i - 1] = g[i - 1]
      BY <3>1
    <3>3. WalkStep(bs, h, i) = WalkStep(bs, g, i)
      <4> HIDE DEF h
      <4>1. CASE i = 0
        BY <4>1 DEF WalkStep
      <4>2. CASE i # 0
        BY <3>2, <4>2, Zenon DEF WalkStep
      <4> QED
        BY <4>1, <4>2
    <3>4. CASE i <= k
      <4>1. i \in 0..k /\ h[i] = g[i]
        BY <1>1, <3>4
      <4>2. g[i] = WalkStep(bs, g, i)
        BY <2>1, <4>1
      <4> QED
        BY <3>3, <4>1, <4>2
    <3>5. CASE ~(i <= k)
      <4>1. i = k + 1
        BY <1>1, <3>5
      <4>2. h[i] = WalkStep(bs, g, k + 1)
        BY <3>5
      <4> QED
        BY <3>3, <4>1, <4>2
    <3> QED
      BY <3>4, <3>5
  <2>3. h = [i \in 0..(k + 1) |-> h[i]]
    OBVIOUS
  <2> HIDE DEF h
  <2>4. h = [i \in 0..(k + 1) |-> WalkStep(bs, h, i)]
    BY <2>2, <2>3
  <2>5. k + 1 \in 0..n
    BY <1>1
  <2> QED
    BY <2>4, <2>5
<1>4. 0..n \subseteq S
  <2> HIDE DEF S
  <2> QED
    BY <1>1, <1>2, <1>3, Interval
<1>5. n \in S
  BY <1>1, <1>4
<1> QED
  BY <1>5 DEF n

\* The whole walk.
LEMMA Coalesced ==
    ASSUME NEW bs \in Seq(Block), Len(bs) >= 1, InOrder(bs), InHeap(bs)
    PROVE  Walk(bs, Len(bs), coalesce_blocks(bs))
<1> DEFINE n == Len(bs)
           G == CHOOSE g : g = [i \in 0..n |-> WalkStep(bs, g, i)]
           S == {k \in 0..n : Walk(bs, k, G[k])}
<1>1. n \in Nat
  BY LenProperties
<1>2. coalesce_blocks(bs) = G[n]
  BY DEF coalesce_blocks, WalkStep, Swallowed
<1>3. G = [i \in 0..n |-> WalkStep(bs, G, i)]
  BY <1>1, WalkRuns
<1> HIDE DEF n, G
<1>4. 0 \in S
  <2>1. G[0] = << >>
    BY <1>1, <1>3 DEF WalkStep
  <2>2. << >> \in Seq(Block) /\ Len(<< >>) = 0
    BY EmptySeq
  <2>3. Walk(bs, 0, << >>)
    BY <2>2 DEF Walk, InOrder, InHeap, Merged
  <2> QED
    BY <1>1, <2>1, <2>3
<1>5. ASSUME NEW k \in 0..(n - 1), k \in S PROVE k + 1 \in S
  <2>1. k + 1 \in 0..n /\ k + 1 # 0 /\ k + 1 - 1 = k /\ (k + 1 > 1 <=> k > 0)
    BY <1>1
  <2>2. G[k + 1] = WalkStep(bs, G, k + 1)
    BY <1>3, <2>1
  <2> DEFINE d == G[k]
             e == G[k + 1]
  <2>6. /\ G[k + 1 - 1] = d
        /\ k > 0 /\ Last(d).is_free /\ bs[k + 1].is_free =>
              e = Swallowed(d, bs[k + 1])
        /\ ~(k > 0 /\ Last(d).is_free /\ bs[k + 1].is_free) => e = Append(d, bs[k + 1])
    <3>1. k \in Nat /\ G[k + 1 - 1] = d
      BY <1>1, <2>1
    <3> QED
      BY <2>2, <3>1, TurnAt
  <2>3. Walk(bs, k, d)
    BY <1>5
  <2>4. CASE k > 0 /\ d[Len(d)].is_free /\ bs[k + 1].is_free
    <3>1. e = [d EXCEPT ![Len(d)].size = @ + bs[k + 1].size + HEADER]
      BY <2>4, <2>6 DEF Last, Swallowed
    <3>2. k \in 1..(Len(bs) - 1)
      BY <1>1, <2>4 DEF n
    <3> HIDE DEF d, e
    <3>3. Walk(bs, k + 1, e)
      BY <2>3, <2>4, <3>1, <3>2, WalkSwallows
    <3> QED
      BY <2>1, <3>3 DEF e
  <2>5. CASE ~(k > 0 /\ d[Len(d)].is_free /\ bs[k + 1].is_free)
    <3>1. e = Append(d, bs[k + 1])
      BY <2>5, <2>6 DEF Last
    <3>2. k \in 0..(Len(bs) - 1)
      BY <1>1 DEF n
    <3> HIDE DEF d, e
    <3>3. Walk(bs, k + 1, e)
      BY <2>3, <2>5, <3>1, <3>2, WalkKeeps
    <3> QED
      BY <2>1, <3>3 DEF e
  <2> QED
    BY <2>4, <2>5
<1>6. 0..n \subseteq S
  <2> HIDE DEF S
  <2> QED
    BY <1>1, <1>4, <1>5, Interval
<1>7. Walk(bs, n, G[n])
  BY <1>1, <1>6
<1> QED
  BY <1>2, <1>7 DEF n

(***************************************************************************)
(* Allocation                                                              *)
(***************************************************************************)
\* A block large enough for the request and a header becomes a used block of
\* the size asked for and perhaps a free one up to its end.
LEMMA BlockSplit ==
    ASSUME NEW b \in Block, NEW size \in Nat, b.size >= size + HEADER, End(b) <= HEAP_SIZE,
           NEW r, r = split_block(b, size)
    PROVE  /\ r \in Seq(Block) /\ (Len(r) = 1 \/ Len(r) = 2)
           /\ r[1] \in Block /\ ~r[1].is_free /\ r[1].addr = b.addr /\ r[1].size = size
           /\ End(r[1]) <= End(b)
           /\ Len(r) = 2 => r[2] \in Block /\ r[2].addr = End(r[1]) /\ End(r[2]) = End(b)
<1> DEFINE w == b.size - size - HEADER
           u == [b EXCEPT !.size = size, !.is_free = FALSE]
           z == [addr |-> Payload(b) + size, size |-> w, is_free |-> TRUE]
<1>1. /\ b.addr \in Nat /\ b.size \in Nat
      /\ Payload(b) = b.addr + HEADER /\ End(b) = b.addr + HEADER + b.size
      /\ HEADER \in Nat /\ WORD \in Nat /\ HEAP_SIZE \in Nat /\ WORD > HEAP_SIZE
  BY BlockShape, Numbers
<1>2. w \in Nat /\ w < WORD
  BY <1>1
<1>3. w % WORD = w
  <2> HIDE DEF w
  <2> QED
    BY <1>1, <1>2, NoWrap
<1>4. /\ u \in Block /\ u.addr = b.addr /\ u.size = size /\ ~u.is_free
      /\ End(u) = b.addr + HEADER + size
  <2>1. u = [addr |-> b.addr, size |-> size, is_free |-> FALSE]
    BY Taken
  <2>2. u \in Block /\ u.addr = b.addr /\ u.size = size /\ u.is_free = FALSE
    BY <2>1 DEF Block
  <2> HIDE DEF u
  <2> QED
    BY <2>2, BlockShape
<1>5. z \in Block /\ z.addr = End(u) /\ End(z) = End(b)
  <2> HIDE DEF w, u
  <2>1. z \in Block /\ z.addr = Payload(b) + size /\ z.size = w
    BY <1>1, <1>2 DEF Block
  <2> HIDE DEF z
  <2>2. End(z) = z.addr + HEADER + z.size
    BY <2>1, BlockShape
  <2> QED
    BY <1>1, <1>4, <2>1, <2>2 DEF w
<1>6. r = << u >> \/ r = << u, z >>
  BY <1>3 DEF split_block
<1> HIDE DEF u, z, w
<1>7. End(u) <= End(b)
  BY <1>1, <1>4
<1>8. CASE r = << u >>
  BY <1>4, <1>7, <1>8
<1>9. CASE r = << u, z >>
  BY <1>4, <1>5, <1>7, <1>9
<1> QED
  BY <1>6, <1>8, <1>9

\* Where a neighbour comes from when block i of n has become l blocks.
LEMMA Neighbours ==
    ASSUME NEW n \in Nat, NEW l \in Nat, l = 1 \/ l = 2,
           NEW i \in 1..n, NEW j \in 1..(n - 1 + l - 1)
    PROVE  /\ j \in 1..(n - 1 + l) /\ j + 1 \in 1..(n - 1 + l)
           /\ \/ (j + 1 < i /\ j < i /\ j \in 1..(n - 1))
              \/ j = i
              \/ j + 1 = i
              \/ (/\ j > i /\ j + 1 = i + l /\ i \in 1..(n - 1) /\ (j + 1) - l + 1 = i + 1
                  /\ ~(j + 1 < i) /\ ~(j + 1 < i + l))
              \/ (/\ j - l + 1 \in 1..(n - 1) /\ (j + 1) - l + 1 = j - l + 1 + 1
                  /\ ~(j < i) /\ ~(j < i + l) /\ ~(j + 1 < i) /\ ~(j + 1 < i + l))
<1>1. CASE l = 1
  BY <1>1
<1>2. CASE l = 2
  BY <1>2
<1> QED
  BY <1>1, <1>2

LEMMA Allocated ==
    ASSUME NEW h \in Seq(Block), InOrder(h), InHeap(h), Merged(h),
           NEW i \in 1..Len(h), h[i].is_free,
           NEW size \in Nat, h[i].size >= size + HEADER,
           NEW t, Spliced(t, h, i, split_block(h[i], size))
    PROVE  /\ t \in Seq(Block) /\ Len(t) >= 1
           /\ InOrder(t) /\ InHeap(t) /\ Merged(t)
           /\ \E m \in 1..Len(t) : /\ Payload(t[m]) = Payload(h[i])
                                   /\ ~t[m].is_free /\ t[m].size = size
           /\ \A j \in 1..Len(h) : j # i => \E m \in 1..Len(t) : t[m] = h[j]
<1> DEFINE n == Len(h)
           b == h[i]
           r == split_block(b, size)
           l == Len(r)
           Home(j) == IF j < i THEN j ELSE IF j < i + l THEN i ELSE j - l + 1
<1>1. n \in Nat /\ i \in 1..n /\ \A k \in 1..n : h[k] \in Block
  BY ElementOfSeq, LenProperties
<1>2. End(b) <= HEAP_SIZE /\ b \in Block /\ b.size >= size + HEADER
  BY <1>1 DEF InHeap
<1> HIDE DEF b
<1>3. /\ r \in Seq(Block) /\ (l = 1 \/ l = 2)
      /\ r[1] \in Block /\ ~r[1].is_free /\ r[1].addr = b.addr /\ r[1].size = size
      /\ End(r[1]) <= End(b)
      /\ l = 2 => r[2] \in Block /\ r[2].addr = End(r[1]) /\ End(r[2]) = End(b)
  BY <1>2, BlockSplit
<1>4. Spliced(t, h, i, r)
  BY DEF b
<1> HIDE DEF r
<1>5. /\ t \in Seq(Block) /\ Len(t) = n - 1 + l
      /\ \A j \in 1..Len(t) :
            /\ j < i => t[j] = h[j]
            /\ ~(j < i) /\ j < i + l => t[j] = r[j - i + 1]
            /\ ~(j < i) /\ ~(j < i + l) => t[j] = h[j - l + 1]
  <2>1. r \in Seq(Block)
    BY <1>3
  <2>2. /\ t \in Seq(Block) /\ Len(t) = n - 1 + l
        /\ \A j \in 1..Len(t) :
            t[j] = IF j < i THEN h[j] ELSE IF j < i + l THEN r[j - i + 1] ELSE h[j - l + 1]
    BY <1>4, <2>1, Splice
  <2> QED
    BY <2>2
<1>6. /\ \A j, k \in 1..n : j < k => End(h[j]) <= h[k].addr
      /\ \A j \in 1..n : End(h[j]) <= HEAP_SIZE
      /\ \A j \in 1..(n - 1) : ~(h[j].is_free /\ h[j + 1].is_free)
      /\ h[i].is_free
  BY DEF InOrder, InHeap, Merged
<1> HIDE DEF n, l
<1>7. /\ l \in Nat /\ (l = 1 \/ l = 2) /\ n \in Nat /\ i \in Nat /\ 1 <= i /\ i <= n
      /\ Len(t) = n - 1 + l
  <2>1. l = 1 \/ l = 2
    BY <1>3
  <2>2. n \in Nat /\ i \in 1..n
    BY <1>1
  <2>3. Len(t) = n - 1 + l
    BY <1>5
  <2> QED
    BY <2>1, <2>2, <2>3
<1>8. ASSUME NEW j \in 1..(n - 1 + l)
      PROVE  /\ Home(j) \in 1..n /\ t[j] \in Block
             /\ h[Home(j)].addr <= t[j].addr /\ End(t[j]) <= End(h[Home(j)])
  <2>1. /\ j < i => t[j] = h[j]
        /\ ~(j < i) /\ j < i + l => t[j] = r[j - i + 1]
        /\ ~(j < i) /\ ~(j < i + l) => t[j] = h[j - l + 1]
    BY <1>5
  <2>2. CASE j < i
    <3>1. Home(j) = j /\ t[j] = h[j] /\ j \in 1..n
      BY <1>7, <2>1, <2>2
    <3>2. h[j] \in Block
      BY <1>1, <3>1
    <3> HIDE DEF Home
    <3> QED
      BY <3>1, <3>2, BlockShape
  <2>3. CASE j >= i + l
    <3>1. Home(j) = j - l + 1 /\ t[j] = h[j - l + 1] /\ j - l + 1 \in 1..n
      <4>1. j \in Int /\ ~(j < i) /\ ~(j < i + l) /\ j - l + 1 \in 1..n
        BY <1>7, <2>3
      <4>2. Home(j) = j - l + 1
        BY <4>1
      <4>3. t[j] = h[j - l + 1]
        BY <2>1, <4>1, Zenon
      <4> QED
        BY <4>1, <4>2, <4>3, Zenon
    <3>2. h[j - l + 1] \in Block
      BY <1>1, <3>1
    <3> HIDE DEF Home
    <3> QED
      BY <3>1, <3>2, BlockShape
  <2>4. CASE i <= j /\ j < i + l
    <3>1. Home(j) = i /\ t[j] = r[j - i + 1] /\ (j - i + 1 = 1 \/ (j - i + 1 = 2 /\ l = 2))
      <4>1. /\ ~(j < i) /\ Home(j) = i
            /\ j - i + 1 = 1 \/ (j - i + 1 = 2 /\ l = 2)
        BY <1>7, <2>4
      <4> QED
        BY <2>1, <2>4, <4>1
    <3>2. h[i] = b
      BY DEF b
    <3>3. b.addr \in Nat /\ End(b) \in Nat /\ End(r[1]) = b.addr + HEADER + size
      BY <1>2, <1>3, BlockShape
    <3> HIDE DEF Home
    <3>4. CASE j - i + 1 = 1
      <4>1. t[j] = r[1]
        BY <3>1, <3>4
      <4>2. r[1] \in Block /\ r[1].addr = b.addr /\ End(r[1]) <= End(b)
        BY <1>3
      <4> QED
        BY <1>1, <3>1, <3>2, <3>3, <4>1, <4>2
    <3>5. CASE j - i + 1 = 2 /\ l = 2
      <4>1. t[j] = r[2]
        BY <3>1, <3>5
      <4>2. /\ r[2] \in Block /\ r[2].addr = b.addr + HEADER + size
            /\ End(r[2]) = End(b)
        BY <1>3, <3>3, <3>5
      <4>3. b.addr <= b.addr + HEADER + size
        BY <3>3, Numbers
      <4> QED
        BY <1>1, <3>1, <3>2, <3>3, <4>1, <4>2, <4>3
    <3> QED
      BY <3>1, <3>4, <3>5
  <2> QED
    BY <1>7, <2>2, <2>3, <2>4
<1>9. InOrder(t)
  <2> SUFFICES ASSUME NEW j \in 1..(n - 1 + l), NEW k \in 1..(n - 1 + l), j < k
               PROVE  End(t[j]) <= t[k].addr
    BY <1>7 DEF InOrder
  <2>1. /\ t[j] \in Block /\ t[k] \in Block /\ Home(j) \in 1..n /\ Home(k) \in 1..n
        /\ End(t[j]) <= End(h[Home(j)]) /\ h[Home(k)].addr <= t[k].addr
    BY <1>8
  <2>2. h[Home(j)] \in Block /\ h[Home(k)] \in Block
    BY <1>1, <2>1
  <2>3. CASE Home(j) < Home(k)
    <3> HIDE DEF Home
    <3>1. End(h[Home(j)]) <= h[Home(k)].addr
      BY <1>6, <2>1, <2>3
    <3>2. /\ End(t[j]) \in Nat /\ End(h[Home(j)]) \in Nat
          /\ h[Home(k)].addr \in Nat /\ t[k].addr \in Nat
      BY <2>1, <2>2, BlockShape
    <3> QED
      BY <2>1, <3>1, <3>2
  <2>4. CASE ~(Home(j) < Home(k))
    <3>1. j = i /\ k = i + 1 /\ l = 2
      BY <1>7, <2>4
    <3>2. t[j] = r[1] /\ t[k] = r[2]
      <4>1. j - i + 1 = 1 /\ k - i + 1 = 2 /\ ~(j < i) /\ ~(k < i) /\ j < i + l /\ k < i + l
        BY <1>7, <3>1
      <4>2. j \in 1..Len(t) /\ k \in 1..Len(t)
        BY <1>7
      <4> QED
        BY <1>5, <4>1, <4>2
    <3>3. t[k].addr = End(t[j]) /\ End(t[j]) \in Nat
      BY <1>3, <2>1, <3>1, <3>2, BlockShape
    <3> QED
      BY <3>3
  <2> QED
    BY <2>3, <2>4
<1>10. InHeap(t)
  <2> SUFFICES ASSUME NEW j \in 1..(n - 1 + l) PROVE End(t[j]) <= HEAP_SIZE
    BY <1>7 DEF InHeap
  <2>1. Home(j) \in 1..n /\ t[j] \in Block /\ End(t[j]) <= End(h[Home(j)])
    BY <1>8
  <2> HIDE DEF Home
  <2>2. h[Home(j)] \in Block /\ End(h[Home(j)]) <= HEAP_SIZE
    BY <1>1, <1>6, <2>1
  <2>3. End(t[j]) \in Nat /\ End(h[Home(j)]) \in Nat /\ HEAP_SIZE \in Nat
    BY <2>1, <2>2, BlockShape, Numbers
  <2> QED
    BY <2>1, <2>2, <2>3
<1>11. Merged(t)
  <2> SUFFICES ASSUME NEW j \in 1..(n - 1 + l - 1) PROVE ~(t[j].is_free /\ t[j + 1].is_free)
    BY <1>7 DEF Merged
  <2>1. j \in 1..Len(t) /\ j + 1 \in 1..Len(t) /\ j \in Nat
    BY <1>7, Neighbours
  <2>7. /\ ~(j < i) /\ ~(j < i + l) => t[j] = h[j - l + 1]
        /\ ~(j + 1 < i) /\ ~(j + 1 < i + l) => t[j + 1] = h[(j + 1) - l + 1]
    BY <1>5, <2>1
  <2>2. CASE j + 1 < i /\ j < i /\ j \in 1..(n - 1)
    <3>1. t[j] = h[j] /\ t[j + 1] = h[j + 1]
      BY <1>5, <2>1, <2>2
    <3> QED
      BY <1>6, <2>2, <3>1
  <2>3. CASE j = i
    <3>1. j - i + 1 = 1 /\ ~(j < i) /\ j < i + l
      BY <1>7, <2>3
    <3>2. t[j] = r[1]
      BY <1>5, <2>1, <3>1
    <3> QED
      BY <1>3, <3>2
  <2>4. CASE j + 1 = i
    <3>1. (j + 1) - i + 1 = 1 /\ ~(j + 1 < i) /\ j + 1 < i + l
      BY <1>7, <2>1, <2>4
    <3>2. t[j + 1] = r[1]
      BY <1>5, <2>1, <3>1
    <3> QED
      BY <1>3, <3>2
  <2>5. CASE /\ i \in 1..(n - 1) /\ (j + 1) - l + 1 = i + 1
             /\ ~(j + 1 < i) /\ ~(j + 1 < i + l)
    <3>1. t[j + 1] = h[i + 1]
      <4>1. t[j + 1] = h[(j + 1) - l + 1]
        BY <2>5, <2>7, Zenon
      <4> QED
        BY <2>5, <4>1, Zenon
    <3>2. ~h[i + 1].is_free
      BY <1>6, <2>5
    <3> QED
      BY <3>1, <3>2
  <2>6. CASE /\ j - l + 1 \in 1..(n - 1) /\ (j + 1) - l + 1 = j - l + 1 + 1
             /\ ~(j < i) /\ ~(j < i + l) /\ ~(j + 1 < i) /\ ~(j + 1 < i + l)
    <3>1. t[j] = h[j - l + 1] /\ t[j + 1] = h[j - l + 1 + 1]
      <4>1. t[j] = h[j - l + 1] /\ t[j + 1] = h[(j + 1) - l + 1]
        BY <2>6, <2>7, Zenon
      <4> QED
        BY <2>6, <4>1, Zenon
    <3> QED
      BY <1>6, <2>6, <3>1
  <2> QED
    BY <1>7, <2>2, <2>3, <2>4, <2>5, <2>6, Neighbours
<1>12. \E m \in 1..Len(t) : Payload(t[m]) = Payload(h[i]) /\ ~t[m].is_free /\ t[m].size = size
  <2>1. i \in 1..Len(t) /\ i - i + 1 = 1 /\ ~(i < i) /\ i < i + l
    BY <1>7
  <2>2. t[i] = r[1]
    BY <1>5, <2>1
  <2>3. Payload(t[i]) = Payload(h[i]) /\ ~t[i].is_free /\ t[i].size = size
    BY <1>3, <2>2 DEF Payload, b
  <2> QED
    BY <2>1, <2>3
<1>13. ASSUME NEW j \in 1..n, j # i PROVE \E m \in 1..Len(t) : t[m] = h[j]
  <2>1. CASE j < i
    <3>1. j \in 1..Len(t)
      BY <1>7, <2>1
    <3>2. t[j] = h[j]
      BY <1>5, <2>1, <3>1
    <3> QED
      BY <3>1, <3>2
  <2>2. CASE ~(j < i)
    <3> DEFINE m == j + l - 1
    <3>1. /\ m \in 1..Len(t) /\ ~(m < i) /\ ~(m < i + l) /\ m - l + 1 = j
      BY <1>7, <1>13, <2>2
    <3> HIDE DEF m
    <3>2. t[m] = h[j]
      BY <1>5, <3>1
    <3> QED
      BY <3>1, <3>2
  <2> QED
    BY <2>1, <2>2
<1>14. Len(t) >= 1
  BY <1>7
<1> QED
  BY <1>5, <1>9, <1>10, <1>11, <1>12, <1>13, <1>14 DEF n

LEMMA KmallocStep ==
    ASSUME HeapInv, NEW size \in Requests, kmalloc(size)
    PROVE  HeapInv'
<1> DEFINE i == CHOOSE k \in Fits(size) : \A j \in Fits(size) : k <= j
           p == Payload(heap[i])
<1>1. /\ heap \in Seq(Block) /\ Len(heap) \in Nat /\ Len(heap) >= 1
      /\ InOrder(heap) /\ InHeap(heap) /\ Merged(heap)
      /\ \A q \in DOMAIN live : Held(heap, q, live[q])
  BY LenProperties DEF HeapInv, kmalloc
<1>2. i \in Fits(size)
  <2>1. Fits(size) \in SUBSET Nat /\ Fits(size) # {}
    <3>1. Fits(size) # {}
      BY DEF kmalloc
    <3>2. DOMAIN heap = 1..Len(heap)
      BY <1>1, LenProperties
    <3>3. Fits(size) \in SUBSET Nat
      BY <1>1, <3>2 DEF Fits
    <3> QED
      BY <3>1, <3>3
  <2>2. \E k \in Fits(size) : \A j \in Fits(size) : k <= j
    BY <2>1, LeastExists
  <2> QED
    BY <2>2, Zenon
<1>3. i \in 1..Len(heap) /\ heap[i].is_free /\ heap[i] \in Block
  BY <1>1, <1>2, LenProperties, ElementOfSeq DEF Fits
<1>4. /\ Spliced(heap', heap, i, split_block(heap[i], size))
      /\ live' = [q \in DOMAIN live \cup {p} |-> IF q = p THEN size ELSE live[q]]
      /\ corrupt' = (heap[i].size < size + HEADER)
  BY DEF kmalloc, Spliced
<1> HIDE DEF i
<1>5. size \in Nat /\ HEADER \in Nat
  BY Numbers
<1> SUFFICES ASSUME ~corrupt' PROVE HeapInv'
  BY DEF HeapInv
<1>6. heap[i].size >= size + HEADER
  <2>1. ~(heap[i].size < size + HEADER)
    BY <1>4
  <2>2. heap[i].size \in Nat
    BY <1>3, BlockShape
  <2> QED
    BY <1>5, <2>1, <2>2
<1>7. /\ heap' \in Seq(Block) /\ Len(heap') >= 1
      /\ InOrder(heap') /\ InHeap(heap') /\ Merged(heap')
      /\ \E m \in 1..Len(heap') : /\ Payload(heap'[m]) = Payload(heap[i])
                                  /\ ~heap'[m].is_free /\ heap'[m].size = size
      /\ \A j \in 1..Len(heap) : j # i => \E m \in 1..Len(heap') : heap'[m] = heap[j]
  BY <1>1, <1>3, <1>4, <1>5, <1>6, Allocated
<1>8. ASSUME NEW q \in DOMAIN live' PROVE Held(heap', q, live'[q])
  <2>1. q \in DOMAIN live \cup {p} /\ live'[q] = IF q = p THEN size ELSE live[q]
    BY <1>4
  <2>2. CASE q = p
    BY <1>5, <1>7, <2>1, <2>2 DEF Held
  <2>3. CASE q # p
    <3>1. PICK j \in 1..Len(heap) : /\ Payload(heap[j]) = q
                                    /\ ~heap[j].is_free /\ heap[j].size >= live[q]
      BY <1>1, <2>1, <2>3 DEF Held
    <3>2. j # i
      BY <2>3, <3>1
    <3>3. PICK m \in 1..Len(heap') : heap'[m] = heap[j]
      BY <1>7, <3>2
    <3> QED
      BY <2>1, <2>3, <3>1, <3>3 DEF Held
  <2> QED
    BY <2>2, <2>3
<1> QED
  BY <1>7, <1>8 DEF HeapInv, InOrder, InHeap, Merged, Held

(***************************************************************************)
(* Release                                                                 *)
(***************************************************************************)
\* u is h with the block of ptr marked free.
Released(u, h, ptr) ==
    u = [i \in DOMAIN h |-> IF Payload(h[i]) = ptr THEN [h[i] EXCEPT !.is_free = TRUE] ELSE h[i]]

LEMMA Release ==
    ASSUME NEW h \in Seq(Block), InOrder(h), InHeap(h), NEW ptr, NEW u, Released(u, h, ptr)
    PROVE  /\ u \in Seq(Block) /\ Len(u) = Len(h)
           /\ InOrder(u) /\ InHeap(u)
           /\ \A i \in 1..Len(h) : Payload(h[i]) # ptr => u[i] = h[i]
<1> DEFINE n == Len(h)
           freed(i) == [h[i] EXCEPT !.is_free = TRUE]
           new(i) == IF Payload(h[i]) = ptr THEN freed(i) ELSE h[i]
<1>1. n \in Nat /\ DOMAIN h = 1..n /\ \A i \in 1..n : h[i] \in Block
  BY ElementOfSeq, LenProperties
<1>2. u = [i \in 1..n |-> new(i)]
  BY <1>1 DEF Released
<1>3. ASSUME NEW i \in 1..n
      PROVE  /\ new(i) \in Block /\ new(i).addr = h[i].addr /\ End(new(i)) = End(h[i])
             /\ Payload(h[i]) # ptr => new(i) = h[i]
  <2>1. h[i] \in Block
    BY <1>1
  <2>2. freed(i) = [addr |-> h[i].addr, size |-> h[i].size, is_free |-> TRUE]
    BY <2>1, Marked, Zenon
  <2> HIDE DEF freed
  <2>3. freed(i) \in Block /\ freed(i).addr = h[i].addr /\ freed(i).size = h[i].size
    BY <2>1, <2>2, BlockShape DEF Block
  <2> QED
    BY <2>1, <2>3 DEF End, Payload
<1> HIDE DEF new, n
<1>4. u \in Seq(Block) /\ Len(u) = n /\ \A i \in 1..n : u[i] = new(i)
  BY <1>1, <1>2, <1>3
<1>5. InOrder(u)
  BY <1>3, <1>4 DEF InOrder, n
<1>6. InHeap(u)
  BY <1>3, <1>4 DEF InHeap, n
<1> QED
  BY <1>3, <1>4, <1>5, <1>6 DEF n

LEMMA KfreeStep ==
    ASSUME HeapInv, NEW ptr \in DOMAIN live, kfree(ptr)
    PROVE  HeapInv'
<1> DEFINE u == [i \in DOMAIN heap |->
                   IF Payload(heap[i]) = ptr THEN [heap[i] EXCEPT !.is_free = TRUE] ELSE heap[i]]
<1>1. /\ heap \in Seq(Block) /\ Len(heap) \in Nat /\ Len(heap) >= 1
      /\ InOrder(heap) /\ InHeap(heap)
      /\ \A q \in DOMAIN live : Held(heap, q, live[q])
  BY LenProperties DEF HeapInv, kfree
<1>2. heap' = coalesce_blocks(u) /\ live' = [q \in DOMAIN live \ {ptr} |-> live[q]]
  BY DEF kfree
<1>3. Released(u, heap, ptr)
  BY DEF Released
<1> HIDE DEF u
<1>4. /\ u \in Seq(Block) /\ Len(u) = Len(heap) /\ InOrder(u) /\ InHeap(u)
      /\ \A i \in 1..Len(heap) : Payload(heap[i]) # ptr => u[i] = heap[i]
  BY <1>1, <1>3, Release
<1>5. Walk(u, Len(u), heap')
  BY <1>1, <1>2, <1>4, Coalesced
<1>6. ASSUME NEW q \in DOMAIN live' PROVE Held(heap', q, live'[q])
  <2>1. q \in DOMAIN live /\ q # ptr /\ live'[q] = live[q]
    BY <1>2
  <2>2. PICK j \in 1..Len(heap) : /\ Payload(heap[j]) = q
                                  /\ ~heap[j].is_free /\ heap[j].size >= live[q]
    BY <1>1, <2>1 DEF Held
  <2>3. u[j] = heap[j] /\ j \in 1..Len(u)
    BY <1>4, <2>1, <2>2
  <2>4. PICK m \in 1..Len(heap') : heap'[m] = u[j]
    BY <1>5, <2>2, <2>3 DEF Walk
  <2> QED
    BY <2>1, <2>2, <2>3, <2>4 DEF Held
<1>7. /\ heap' \in Seq(Block) /\ Len(heap') >= 1
      /\ InOrder(heap') /\ InHeap(heap') /\ Merged(heap')
  BY <1>1, <1>4, <1>5 DEF Walk
<1> QED
  BY <1>6, <1>7 DEF HeapInv, InOrder, InHeap, Merged, Held

(***************************************************************************)
(* The theorems                                                            *)
(***************************************************************************)
LEMMA HeapInitOK == HeapInit => HeapInv
<1> SUFFICES ASSUME HeapInit PROVE HeapInv
  OBVIOUS
<1> DEFINE b == [addr |-> 0, size |-> HEAP_SIZE - HEADER, is_free |-> TRUE]
<1>1. b \in Block /\ End(b) = HEAP_SIZE
  BY Numbers DEF Block, End, Payload
<1>2. heap = << b >> /\ DOMAIN live = {}
  BY DEF HeapInit
<1> HIDE DEF b
<1>3. heap \in Seq(Block) /\ Len(heap) = 1 /\ heap[1] = b
  BY <1>1, <1>2
<1>4. \A i \in 1..Len(heap) : i = 1
  BY <1>3
<1>5. InOrder(heap) /\ InHeap(heap) /\ Merged(heap)
  BY <1>1, <1>3, <1>4, Numbers DEF InOrder, InHeap, Merged
<1> QED
  BY <1>2, <1>3, <1>5 DEF HeapInv

\* The list is in order and every allocation on it, through every call.
THEOREM HeapInvInductive == HeapInv /\ [HeapNext]_heap_vars => HeapInv'
<1> SUFFICES ASSUME HeapInv, [HeapNext]_heap_vars PROVE HeapInv'
  OBVIOUS
<1>1. ASSUME NEW size \in Requests, kmalloc(size) PROVE HeapInv'
  BY <1>1, KmallocStep
<1>2. ASSUME NEW ptr \in DOMAIN live, kfree(ptr) PROVE HeapInv'
  BY <1>2, KfreeStep
<1>3. CASE UNCHANGED heap_vars
  BY <1>3 DEF HeapInv, heap_vars, InOrder, InHeap, Merged, Held, Payload, End
<1> QED
  BY <1>1, <1>2, <1>3 DEF HeapNext

\* No block ever overlaps another, header included, or the end of the heap.
THEOREM HeapDisjoint == HeapSpec => []BlocksDisjoint
<1>1. HeapInv => BlocksDisjoint
  <2> SUFFICES ASSUME HeapInv, ~corrupt PROVE BlocksDisjoint
    BY DEF BlocksDisjoint
  <2>1. Len(heap) \in Nat /\ Len(heap) >= 1 /\ InOrder(heap) /\ InHeap(heap)
    BY LenProperties DEF HeapInv
  <2>2. ASSUME NEW i \in 1..(Len(heap) - 1) PROVE End(heap[i]) <= heap[i + 1].addr
    <3>1. i \in 1..Len(heap) /\ i + 1 \in 1..Len(heap) /\ i < i + 1
      BY <2>1
    <3> QED
      BY <2>1, <3>1 DEF InOrder
  <2> QED
    BY <2>1, <2>2 DEF BlocksDisjoint, InHeap
<1> QED
  BY <1>1, HeapInitOK, HeapInvInductive, PTL DEF HeapSpec

\* No allocation is given away twice or shrunk, however splits and merges
\* follow each other.
THEOREM AllocationsKept == HeapSpec => []AllocationsIntact
<1>1. HeapInv => AllocationsIntact
  <2> SUFFICES ASSUME HeapInv, ~corrupt, NEW p \in DOMAIN live
               PROVE  \E i \in DOMAIN heap : /\ Payload(heap[i]) = p
                                             /\ ~heap[i].is_free
                                             /\ heap[i].size >= live[p]
    BY DEF AllocationsIntact
  <2>1. Held(heap, p, live[p]) /\ DOMAIN heap = 1..Len(heap)
    BY LenProperties DEF HeapInv
  <2> QED
    BY <2>1 DEF Held
<1> QED
  BY <1>1, HeapInitOK, HeapInvInductive, PTL DEF HeapSpec

\* kfree leaves no two free neighbours, and kmalloc makes none.
THEOREM NeighboursMerged == HeapSpec => []FreeBlocksMerged
<1>1. HeapInv => FreeBlocksMerged
  BY DEF HeapInv, FreeBlocksMerged, Merged
<1> QED
  BY <1>1, HeapInitOK, HeapInvInductive, PTL DEF HeapSpec
=============================================================================
