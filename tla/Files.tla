------------------------------- MODULE Files -------------------------------
(***************************************************************************)
(* File descriptors: open, read, write and close of cpu/syscall.c, and the *)
(* release of a process's descriptors in scheduler_remove, on top of the   *)
(* file system.                                                            *)
(*                                                                         *)
(* open reads the whole file into a buffer of the kernel heap; read copies *)
(* from that buffer; write copies into it and rewrites the file's first    *)
(* cluster.  Descriptors 0 and 1 are stdin and stdout and are left out.    *)
(* Of the heap the model keeps which blocks are allocated by open.         *)
(***************************************************************************)
EXTENDS Fat16

CONSTANTS
    MAX_FDS,
    Procs,      \* the processes
    ReadLens,   \* lengths passed to read, in sectors
    Block       \* addresses the heap has for the blocks of open files

ASSUME FilesAssumption ==
    /\ MAX_FDS \in Nat /\ MAX_FDS > 2
    /\ ReadLens \subseteq Nat
    /\ Block \subseteq Nat \ {0}

VARIABLES
    fds,        \* process |-> descriptor |-> its fields
    heap        \* the blocks that are allocated

fvars == <<fat, dir, data, op, answer, given, cut, fds, heap>>

Fd == 2..(MAX_FDS - 1)

NULL == 0

\* fat_fd and buf are the addresses of the fat16_fd_t and of its data.
Closed == [is_open |-> FALSE, fat_fd |-> NULL, buf |-> NULL, start_cluster |-> 0,
           data |-> << >>, offset |-> 0]

Open(p) == {fd \in Fd : fds[p][fd].is_open}

\* The blocks of a descriptor.
BlocksOf(f) == {f.fat_fd, f.buf}

kmalloc(h) == IF Block \ h = {} THEN NULL ELSE Least(Block \ h)

\* A read of a sector beyond the end of the disk waits for data for ever.
Hung == [step |-> "hung"]

FInit ==
    /\ Init
    /\ fds = [p \in Procs |-> [fd \in Fd |-> Closed]]
    /\ heap = {}

\* Mutant: the data is not released when no descriptor is free.
Descriptor_Leak(p, fat_fd, buf, start) ==
    IF Fd \ Open(p) = {}
    THEN UNCHANGED fds /\ heap' = (heap \cup {fat_fd, buf}) \ {fat_fd}
    ELSE /\ fds' = [fds EXCEPT ![p][Least(Fd \ Open(p))] =
                      [is_open |-> TRUE, fat_fd |-> fat_fd, buf |-> buf, start_cluster |-> start,
                       data |-> fat16_read_file([start_cluster |-> start]), offset |-> 0]]
         /\ heap' = heap \cup {fat_fd, buf}

\* A free descriptor gets the new blocks; without one they are released.
Descriptor(p, fat_fd, buf, start) ==
    IF Fd \ Open(p) = {}
    THEN UNCHANGED fds /\ heap' = (heap \cup {fat_fd, buf}) \ {buf, fat_fd}
    ELSE /\ fds' = [fds EXCEPT ![p][Least(Fd \ Open(p))] =
                      [is_open |-> TRUE, fat_fd |-> fat_fd, buf |-> buf, start_cluster |-> start,
                       data |-> fat16_read_file([start_cluster |-> start]), offset |-> 0]]
         /\ heap' = heap \cup {fat_fd, buf}

\* open of a file that exists: two blocks, then the whole file.  That there is
\* room for the blocks is a bound of this model.
handle_syscall_open(p, input) ==
    /\ op = NoOp
    /\ fat16_find_file(input) # 0
    /\ LET start  == dir[fat16_find_file(input)].start_cluster
           fat_fd == kmalloc(heap)
           buf    == kmalloc(heap \cup {fat_fd})
       IN  /\ fat_fd # NULL /\ buf # NULL
           /\ \/ /\ ToSet(Chain(start)) \subseteq OnDisk \cup {FREE}
                 /\ Descriptor(p, fat_fd, buf, start)
                 /\ UNCHANGED op
              \/ /\ ~(ToSet(Chain(start)) \subseteq OnDisk \cup {FREE})
                 /\ op' = Hung
                 /\ heap' = heap \cup {fat_fd, buf}
                 /\ UNCHANGED fds
    /\ UNCHANGED <<fat, dir, data, answer, given, cut>>

\* read copies from the buffer, at the offset and not beyond its end.
handle_syscall_read(p, fd, len) ==
    /\ op = NoOp
    /\ fd \in Open(p)
    /\ LET f == fds[p][fd]
           size == IF len < Len(f.data) - f.offset THEN len ELSE Len(f.data) - f.offset
       IN  fds' = [fds EXCEPT ![p][fd].offset = @ + size]
    /\ UNCHANGED <<fat, dir, data, op, answer, given, cut, heap>>

\* write: the buffer first, from its start whatever the offset is ...
handle_syscall_write(p, fd, bytes) ==
    /\ op = NoOp
    /\ fd \in Open(p)
    /\ LET f == fds[p][fd]
           to_write == IF Len(bytes) < Len(f.data) THEN Len(bytes) ELSE Len(f.data)
       IN  /\ fds' = [fds EXCEPT ![p][fd].data =
                        [n \in DOMAIN f.data |-> IF n <= to_write THEN bytes[n] ELSE f.data[n]]]
           /\ op' = [step |-> "write", by |-> <<p, fd>>, bytes |-> SubSeq(bytes, 1, to_write),
                     cluster |-> f.start_cluster, i |-> 1]
           /\ given' = [i \in Slot |->
                          IF dir[i].start_cluster = f.start_cluster THEN << >> ELSE given[i]]
    /\ UNCHANGED <<fat, dir, data, answer, cut, heap>>

\* Mutant: the cluster is located one too high.
write_file_High ==
    /\ op.step = "write"
    /\ op.i <= SectorsPerCluster
    /\ data' = ata_write_sector(op.cluster + 1, op.i, SectorOf(op.bytes, op.i))
    /\ op' = [op EXCEPT !.i = @ + 1]
    /\ UNCHANGED <<fat, dir, answer, given, cut, fds, heap>>

\* ... then the sectors of the first cluster, zeroed beyond the new data ...
write_file ==
    /\ op.step = "write"
    /\ op.i <= SectorsPerCluster
    /\ data' = ata_write_sector(op.cluster, op.i, SectorOf(op.bytes, op.i))
    /\ op' = [op EXCEPT !.i = @ + 1]
    /\ UNCHANGED <<fat, dir, answer, given, cut, fds, heap>>

\* ... and the call returns.
write_returns ==
    /\ op.step = "write"
    /\ op.i > SectorsPerCluster
    /\ op' = NoOp
    /\ UNCHANGED <<fat, dir, data, answer, given, cut, fds, heap>>

handle_syscall_close(p, fd) ==
    /\ op = NoOp
    /\ fd \in Open(p)
    /\ fds' = [fds EXCEPT ![p][fd] = Closed]
    /\ heap' = heap \ BlocksOf(fds[p][fd])
    /\ UNCHANGED <<fat, dir, data, op, answer, given, cut>>

\* A process is removed with its descriptors.
scheduler_remove(p) ==
    /\ op = NoOp
    /\ Open(p) # {}
    /\ fds' = [fds EXCEPT ![p] = [fd \in Fd |-> Closed]]
    /\ heap' = heap \ UNION {BlocksOf(fds[p][fd]) : fd \in Open(p)}
    /\ UNCHANGED <<fat, dir, data, op, answer, given, cut>>

\* After a crash only the disk is left.
FCrash ==
    /\ Crashes
    /\ cut' = IF op.step = "create" THEN cut + 1 ELSE cut
    /\ op' = NoOp
    /\ fds' = [p \in Procs |-> [fd \in Fd |-> Closed]]
    /\ heap' = {}
    /\ answer' = "none"
    /\ UNCHANGED <<fat, dir, data, given>>

FNext ==
    \/ Create /\ UNCHANGED <<fds, heap>>
    \/ \E p \in Procs, input \in Inputs : handle_syscall_open(p, input)
    \/ \E p \in Procs, fd \in Fd, len \in ReadLens : handle_syscall_read(p, fd, len)
    \/ \E p \in Procs, fd \in Fd, bytes \in FileData : handle_syscall_write(p, fd, bytes)
    \/ write_file
    \/ write_returns
    \/ \E p \in Procs, fd \in Fd : handle_syscall_close(p, fd)
    \/ \E p \in Procs : scheduler_remove(p)
    \/ FCrash

FSpec == FInit /\ [][FNext]_fvars

\* The processes are interchangeable.
Symmetry == Permutations(Procs)

(***************************************************************************)
(* Properties                                                              *)
(***************************************************************************)

OpenFds == {pf \in Procs \X Fd : pf[2] \in Open(pf[1])}

FdOf(pf) == fds[pf[1]][pf[2]]

\* Every block open allocates has one owner, an open descriptor, and no
\* descriptor has one that is not allocated: open at the limit of descriptors,
\* close and the end of a process leak none and free none twice.
BuffersOwned ==
    op # Hung =>
        /\ heap = UNION {BlocksOf(FdOf(pf)) : pf \in OpenFds}
        /\ \A pf \in OpenFds : FdOf(pf).fat_fd # FdOf(pf).buf
        /\ \A pf, qg \in OpenFds : pf # qg => BlocksOf(FdOf(pf)) \cap BlocksOf(FdOf(qg)) = {}

\* A write through a descriptor, cut short or not, changes the sectors of one
\* cluster only, the first one of the file that was opened, and neither the
\* FAT nor the directory; every other file in the directory keeps its sectors.
WritesOwnFile ==
    [][op.step = "write" =>
          LET start == FdOf(op.by).start_cluster
          IN  /\ UNCHANGED <<fat, dir>>
              /\ \A c \in Cluster : data'[c] # data[c] => c = start
              /\ \A i \in Listed : dir[i].start_cluster # start =>
                    \A c \in Clusters(i) : data'[c] = data[c]]_fvars
=============================================================================
