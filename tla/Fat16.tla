------------------------------- MODULE Fat16 -------------------------------
(***************************************************************************)
(* kernel-space/lib/fat16.c: the FAT, the root directory and the data      *)
(* clusters on disk, finding and reading a file, and the creation of one.  *)
(*                                                                         *)
(* Sizes count sectors: what the code does with the bytes of a sector is   *)
(* copy them.  ata_write_sector writes one sector and flushes it, and the  *)
(* system call keeps interrupts disabled, so a creation is a sequence of   *)
(* steps with one disk write each, between which only a crash can come.    *)
(* The root directory is the only one files are created in.                *)
(***************************************************************************)
EXTENDS Integers, Sequences, FiniteSets, SequencesExt

CONSTANTS
    LastCluster,          \* the last cluster the FAT has an entry for
    LastOnDisk,           \* the last cluster the disk has sectors for
    SectorsPerCluster,
    RootEntries,          \* slots of the root directory
    Inputs,               \* names as programs pass them: the parts strtok cuts them
                          \* into at the dots, each a sequence of <<letter, case>>
    NAME_LENGTH,          \* 8, and
    EXT_LENGTH,           \* 3: the letters a directory entry has room for
    Bytes,                \* contents of a sector
    Lengths,              \* bound: sectors of the contents created and written
    Crashes               \* whether the machine may crash

Cluster == 2..LastCluster
Slot == 1..RootEntries

FREE == 0            \* 0x0000
EOC == 1             \* 0xFFF8: no cluster has the number 1
Blank == "zeros"     \* a sector filled by memset
Outside == "outside" \* a sector before the data clusters

OnDisk == 2..LastOnDisk

\* The first n letters of part k of an input, in upper case; nothing without
\* such a part.  The blanks a field is padded with are left out.
Field(input, k, n) ==
    IF k > Len(input) THEN << >>
    ELSE [i \in 1..(IF Len(input[k]) < n THEN Len(input[k]) ELSE n) |-> input[k][i][1]]

\* The stored name.  Names that differ in case, beyond the letters there is
\* room for, or after a second dot are stored alike.  (A longer part runs over
\* the arrays on the stack, too; what that destroys is not modelled.)
fat16_format_name(input) == <<Field(input, 1, NAME_LENGTH), Field(input, 2, EXT_LENGTH)>>

Names == {fat16_format_name(input) : input \in Inputs}

\* The first letter marks a slot without an entry.
Marked(byte) == << <<byte>>, << >> >>

ASSUME Fat16Assumption ==
    /\ LastCluster \in Nat /\ LastOnDisk \in 3..LastCluster /\ LastCluster >= 4
    /\ SectorsPerCluster \in Nat \ {0}
    /\ RootEntries \in Nat \ {0, 1}
    /\ NAME_LENGTH \in Nat /\ EXT_LENGTH \in Nat
    /\ Lengths \subseteq Nat
    /\ Blank \notin Bytes
    /\ Names \cap {Marked("0x00"), Marked("0xE5")} = {}
    /\ Crashes \in BOOLEAN

FileData == UNION {[1..n -> Bytes] : n \in Lengths}

VARIABLES
    fat,       \* cluster |-> FREE, EOC or the next cluster
    dir,       \* slot |-> END, DEL or an entry
    data,      \* cluster |-> its sectors
    op,        \* the creation under way
    answer,    \* what the last creation returned
    given,     \* history: slot |-> the contents its file was created with, << >> once rewritten
    cut        \* history: creations that ended without an entry

vars == <<fat, dir, data, op, answer, given, cut>>

Entry(name, cluster, size) == [name |-> name, start_cluster |-> cluster, file_size |-> size]

END == Entry(Marked("0x00"), 0, 0)    \* a slot never used
DEL == Entry(Marked("0xE5"), 0, 0)    \* a deleted entry

IsEntry(slot) == slot.name \in Names

NoOp == [step |-> "idle"]

\* An image with one file of two clusters, made by mkfs.fat and mcopy; an
\* entry after it may have been deleted with the host's tools.
Init ==
    \E name \in Names, b \in Bytes, second \in {END, DEL} :
        /\ fat = [c \in Cluster |-> CASE c = 2 -> 3 [] c = 3 -> EOC [] OTHER -> FREE]
        /\ dir = [i \in Slot |-> CASE i = 1 -> Entry(name, 2, 2 * SectorsPerCluster)
                                   [] i = 2 -> second
                                   [] OTHER -> END]
        /\ data = [c \in Cluster |-> [i \in 1..SectorsPerCluster |-> IF c < 4 THEN b ELSE Blank]]
        /\ op = NoOp
        /\ answer = "none"
        /\ given = [i \in Slot |-> IF i = 1 THEN [k \in 1..(2 * SectorsPerCluster) |-> b] ELSE << >>]
        /\ cut = 0

(***************************************************************************)
(* Reading                                                                 *)
(***************************************************************************)
Least(S) == CHOOSE i \in S : \A j \in S : i <= j

\* The slots with an entry before the first slot never used.
Listed == {i \in Slot : IsEntry(dir[i]) /\ \A j \in 1..i : dir[j] # END}

\* The entries in the order of their slots: what the loop has after i slots.
fat16_read_folder ==
    LET folder[i \in 0..RootEntries] ==
            IF i = 0 THEN << >>
            ELSE IF i \in Listed THEN Append(folder[i - 1], dir[i]) ELSE folder[i - 1]
    IN  folder[RootEntries]

\* The slot of the first entry with this name; 0 is NULL.
fat16_find_file(input) ==
    LET found == {i \in Listed : dir[i].name = fat16_format_name(input)}
    IN  IF found = {} THEN 0 ELSE Least(found)

\* What the FAT has for a cluster.  Its entry 0 is the media mark, which reads
\* as an end mark.
next_cluster(c) == IF c = FREE THEN EOC ELSE fat[c]

\* The clusters fat16_read_file visits from c: only an end mark stops it, an
\* entry that says free leads to cluster 0.  (In LastCluster steps at most,
\* should the chain have no end.)
Chain(c) ==
    LET walk[k \in 0..LastCluster] ==
            IF k = 0 THEN << c >>
            ELSE LET seen == walk[k - 1]
                     next == next_cluster(seen[Len(seen)])
                 IN  IF next # EOC THEN Append(seen, next) ELSE seen
    IN  walk[LastCluster]

ata_read_sector(c, i) == IF c = FREE THEN Outside ELSE data[c][i]

\* Their sectors, one after the other.
fat16_read_file(entry) ==
    LET chain == Chain(entry.start_cluster)
    IN  [n \in 1..(Len(chain) * SectorsPerCluster) |->
            ata_read_sector(chain[((n - 1) \div SectorsPerCluster) + 1],
                            ((n - 1) % SectorsPerCluster) + 1)]

(***************************************************************************)
(* Creating                                                                *)
(***************************************************************************)
\* Mutant: the FAT entry of the cluster is not written.
fat16_alloc_cluster_NoMark ==
    LET free == {c \in Cluster : fat[c] = FREE}
    IN  IF free = {} THEN [cluster |-> 0, fat |-> fat]
        ELSE [cluster |-> Least(free), fat |-> fat]

\* The loop covers every entry of the FAT, those of clusters beyond the end of
\* the disk included.
fat16_alloc_cluster ==
    LET free == {c \in Cluster : fat[c] = FREE}
    IN  IF free = {} THEN [cluster |-> 0, fat |-> fat]
        ELSE [cluster |-> Least(free), fat |-> [fat EXCEPT ![Least(free)] = EOC]]

\* create(name, bytes): the first disk write marks a cluster as used.  Of the
\* name only what will be stored matters.
fat16_write_file(input, bytes) ==
    /\ op = NoOp
    /\ fat' = fat16_alloc_cluster.fat
    /\ IF fat16_alloc_cluster.cluster = 0
       THEN op' = NoOp /\ answer' = "-1"
       ELSE /\ op' = [step |-> "create", name |-> fat16_format_name(input), bytes |-> bytes,
                      cluster |-> fat16_alloc_cluster.cluster, i |-> 1]
            /\ answer' = "none"
    /\ UNCHANGED <<dir, data, given, cut>>

\* The drive takes no sector beyond the end of the disk, and the driver does
\* not look at its error.
ata_write_sector(c, i, sector) ==
    IF c \in OnDisk THEN [data EXCEPT ![c][i] = sector] ELSE data

SectorOf(bytes, i) == IF i <= Len(bytes) THEN bytes[i] ELSE Blank

\* Mutant: the last sector of the cluster is not written.
write_sector_Short ==
    /\ op.step = "create"
    /\ op.i < SectorsPerCluster
    /\ data' = ata_write_sector(op.cluster, op.i, SectorOf(op.bytes, op.i))
    /\ op' = IF op.i + 1 < SectorsPerCluster THEN [op EXCEPT !.i = @ + 1]
             ELSE [op EXCEPT !.i = SectorsPerCluster + 1]
    /\ UNCHANGED <<fat, dir, answer, given, cut>>

\* Then the sectors of that cluster, zeroed beyond the end of the data.
write_sector ==
    /\ op.step = "create"
    /\ op.i <= SectorsPerCluster
    /\ data' = ata_write_sector(op.cluster, op.i, SectorOf(op.bytes, op.i))
    /\ op' = [op EXCEPT !.i = @ + 1]
    /\ UNCHANGED <<fat, dir, answer, given, cut>>

\* Mutant: a slot is looked for from the end of the directory.
FreeSlot_Last ==
    LET free == {i \in Slot : ~IsEntry(dir[i])}
    IN  IF free = {} THEN 0 ELSE CHOOSE i \in free : \A j \in free : j <= i

FreeSlot ==
    LET free == {i \in Slot : ~IsEntry(dir[i])} IN IF free = {} THEN 0 ELSE Least(free)

\* Last, the directory entry, in the first slot that is free; without one
\* nothing is written, and the call succeeds all the same.
fat16_create_dir_entry ==
    /\ op.step = "create"
    /\ op.i > SectorsPerCluster
    /\ dir' = IF FreeSlot = 0 THEN dir
              ELSE [dir EXCEPT ![FreeSlot] =
                      Entry(op.name, op.cluster, Len(op.bytes))]
    /\ given' = IF FreeSlot = 0 THEN given ELSE [given EXCEPT ![FreeSlot] = op.bytes]
    /\ cut' = IF FreeSlot = 0 THEN cut + 1 ELSE cut
    /\ answer' = "0"
    /\ op' = NoOp
    /\ UNCHANGED <<fat, data>>

\* Power off and boot: the disk stays as the last write left it.
Crash ==
    /\ Crashes
    /\ op # NoOp
    /\ op' = NoOp
    /\ answer' = "none"
    /\ UNCHANGED <<fat, dir, data, given>>
    /\ cut' = cut + 1

Create ==
    \/ \E input \in Inputs, bytes \in FileData : fat16_write_file(input, bytes)
    \/ write_sector
    \/ fat16_create_dir_entry

Next == Create \/ Crash

Spec == Init /\ [][Next]_vars

(***************************************************************************)
(* Properties                                                              *)
(***************************************************************************)
Clusters(i) == ToSet(Chain(dir[i].start_cluster))

\* Whatever step a crash interrupts, no two files share a cluster, no file
\* uses a cluster that the FAT calls free, and every chain ends.
NoCrossLinks ==
    /\ \A i, j \in Listed : i # j => Clusters(i) \cap Clusters(j) = {}
    /\ \A i \in Listed : /\ \A c \in Clusters(i) : c \in Cluster /\ fat[c] # FREE
                         /\ \E c \in Clusters(i) : fat[c] = EOC

Prefix(s, n) == SubSeq(s, 1, IF n < Len(s) THEN n ELSE Len(s))

\* A file whose entry is in the directory is complete: its first cluster
\* holds what it was created with, however often creations were cut short, if
\* that is a cluster the disk has.
EntriesComplete ==
    \A i \in Slot : IsEntry(dir[i]) /\ dir[i].start_cluster \in OnDisk =>
        IsPrefix(Prefix(given[i], SectorsPerCluster), fat16_read_file(dir[i]))

\* An entry never lies behind the end mark: the listing and the search see
\* every entry that was written, and agree; a search may find an earlier file
\* whose name is stored alike.
EntriesListed ==
    /\ Len(fat16_read_folder) = Cardinality({i \in Slot : IsEntry(dir[i])})
    /\ \A i \in Slot, input \in Inputs :
          IsEntry(dir[i]) /\ fat16_format_name(input) = dir[i].name => fat16_find_file(input) \in 1..i

\* Clusters in use that neither a file nor the creation under way owns.
Lost ==
    {c \in Cluster : /\ fat[c] # FREE
                     /\ \A i \in Listed : c \notin Clusters(i)
                     /\ op.step = "create" => op.cluster # c}

\* A creation that ends without its entry (a crash, or no slot left) costs
\* exactly the cluster it was filling, and nothing else loses one.
LosesOnePerCut == Cardinality(Lost) = cut
=============================================================================
