---------------------------- MODULE FilesProofs ----------------------------
(***************************************************************************)
(* The disk and the descriptors, proved for every number of clusters,      *)
(* sectors, slots, names, processes, descriptors and blocks of the heap,   *)
(* with a crash between any two disk writes.                               *)
(***************************************************************************)
EXTENDS Files, TLAPS, FiniteSetTheorems, SequenceTheorems, WellFoundedInduction

Start(i) == dir[i].start_cluster

\* The image's file has the clusters 2 and 3; every file created later has
\* one cluster.
FatShape ==
    /\ DOMAIN fat = Cluster
    /\ fat[2] = 3 /\ fat[3] = EOC
    /\ \A c \in Cluster \ {2, 3} : fat[c] \in {FREE, EOC}

\* An entry owns its first cluster, and no end mark lies before it.
DirShape ==
    /\ DOMAIN dir = Slot
    /\ IsEntry(dir[1]) /\ Start(1) = 2
    /\ \A i \in Slot : IsEntry(dir[i]) => Start(i) \in Cluster \ {3} /\ fat[Start(i)] # FREE
    /\ \A i, j \in Slot : IsEntry(dir[i]) /\ IsEntry(dir[j]) /\ Start(i) = Start(j) => i = j
    /\ \A i, j \in Slot : IsEntry(dir[i]) /\ j < i => dir[j] # END

DataShape ==
    /\ DOMAIN data = Cluster
    /\ \A c \in Cluster : DOMAIN data[c] = 1..SectorsPerCluster

\* The creation under way owns its cluster, and has written it up to op.i if
\* the disk has it.
Creating ==
    \E name \in Names, b \in FileData, c \in Cluster \ {2, 3}, k \in 1..(SectorsPerCluster + 1) :
        /\ op = [step |-> "create", name |-> name, bytes |-> b, cluster |-> c, i |-> k]
        /\ fat[c] = EOC
        /\ \A i \in Slot : IsEntry(dir[i]) => Start(i) # c
        /\ c \in OnDisk => \A n \in 1..(k - 1) : data[c][n] = SectorOf(b, n)

\* The write under way fills the first cluster of a file whose contents are
\* no longer those it was created with.
Writing ==
    \E c \in Cluster, k \in 1..(SectorsPerCluster + 1), i \in Slot :
        /\ op = [step |-> "write", by |-> op.by, bytes |-> op.bytes, cluster |-> c, i |-> k]
        /\ IsEntry(dir[i]) /\ Start(i) = c /\ given[i] = << >>

OpShape == op = NoOp \/ op = Hung \/ Creating \/ Writing

\* The first cluster of a file, if the disk has it, holds what it was created
\* with.
GivenHeld ==
    /\ DOMAIN given = Slot
    /\ \A i \in Slot : IsEntry(dir[i]) =>
          /\ given[i] \in Seq(Bytes)
          /\ \A n \in 1..SectorsPerCluster :
                Start(i) \in OnDisk /\ n <= Len(given[i]) => data[Start(i)][n] = given[i][n]

Shape == FatShape /\ DirShape /\ DataShape /\ OpShape /\ GivenHeld

FdRecord(f) ==
    /\ f = [is_open |-> f.is_open, fat_fd |-> f.fat_fd, buf |-> f.buf,
            start_cluster |-> f.start_cluster, data |-> f.data, offset |-> f.offset]
    /\ f.is_open \in BOOLEAN

\* An open descriptor is one of a file that exists.
FdShape ==
    /\ DOMAIN fds = Procs
    /\ \A p \in Procs : DOMAIN fds[p] = Fd
    /\ \A p \in Procs, fd \in Fd : FdRecord(fds[p][fd])
    /\ \A p \in Procs, fd \in Fd : fds[p][fd].is_open =>
          \E i \in Slot : IsEntry(dir[i]) /\ fds[p][fd].start_cluster = Start(i)

\* Every block has one owner.
Owning ==
    /\ heap = UNION {BlocksOf(FdOf(pf)) : pf \in OpenFds}
    /\ \A pf \in OpenFds : FdOf(pf).fat_fd # FdOf(pf).buf
    /\ \A pf, qg \in OpenFds : pf # qg => BlocksOf(FdOf(pf)) \cap BlocksOf(FdOf(qg)) = {}

\* A write under way is for the descriptor it names.
Writer ==
    op.step = "write" => /\ op.by \in Procs \X Fd
                         /\ FdOf(op.by).start_cluster = op.cluster

(***************************************************************************)
(* Least elements, and induction over an interval                          *)
(***************************************************************************)
\* A non-empty set of naturals has a least element, and Least picks it.
LEMMA LeastInSet ==
    ASSUME NEW S \in SUBSET Nat, S # {}
    PROVE  Least(S) \in S /\ \A j \in S : Least(S) <= j
<1> DEFINE R == {ss \in Nat \X Nat : ss[1] < ss[2]}
<1>1. IsWellFoundedOn(R, Nat)
  BY NatLessThanWellFounded, Zenon DEF OpToRel
<1>2. PICK x \in S : \A y \in S : ~(<<y, x>> \in R)
  <2> HIDE DEF R
  <2> QED
    BY <1>1, WFMin
<1>3. ASSUME NEW y \in S PROVE x <= y
  <2>1. x \in Nat /\ y \in Nat /\ <<y, x>> \in Nat \X Nat
    OBVIOUS
  <2>2. <<y, x>>[1] = y /\ <<y, x>>[2] = x
    OBVIOUS
  <2>3. ~(y < x)
    BY <1>2, <2>1, <2>2, Zenon
  <2> QED
    BY <2>1, <2>3
<1> QED
  BY <1>3 DEF Least

\* Induction over 0..n, stated of a set.
LEMMA Interval ==
    ASSUME NEW n \in Nat, NEW S, 0 \in S, \A i \in 0..(n - 1) : i \in S => i + 1 \in S
    PROVE  0..n \subseteq S
<1> DEFINE Missing == {i \in 0..n : i \notin S}
<1> SUFFICES ASSUME Missing # {} PROVE FALSE
  OBVIOUS
<1>1. Missing \in SUBSET Nat
  OBVIOUS
<1>2. PICK m \in Missing : \A i \in Missing : m <= i
  <2> HIDE DEF Missing
  <2> QED
    BY <1>1, LeastInSet
<1>3. m \in 0..n /\ m # 0 /\ m \notin S
  OBVIOUS
<1>4. m - 1 \in 0..(n - 1) /\ m - 1 + 1 = m
  BY <1>3
<1>5. m - 1 \in S
  BY <1>2, <1>3, <1>4
<1> QED
  BY <1>3, <1>4, <1>5

(***************************************************************************)
(* The clusters of a chain                                                 *)
(***************************************************************************)
\* One turn of the loop of fat16_read_file, and what it has reached after k.
Body(c, g, k) ==
    IF k = 0 THEN << c >>
    ELSE LET seen == g[k - 1]
             next == next_cluster(seen[Len(seen)])
         IN  IF next # EOC THEN Append(seen, next) ELSE seen

Reached(c, k) == IF k = 0 \/ c # 2 THEN << c >> ELSE << 2, 3 >>

LEMMA BodyIs ==
    ASSUME FatShape, NEW c \in Cluster, fat[c] # FREE, NEW k \in 0..LastCluster, NEW g,
           k # 0 => g[k - 1] = Reached(c, k - 1)
    PROVE  Body(c, g, k) = Reached(c, k)
<1>0. LastCluster \in Nat /\ LastCluster >= 4
  BY Fat16Assumption
<1>1. /\ next_cluster(2) = 3 /\ next_cluster(3) = EOC /\ 3 # EOC
      /\ c # 2 => next_cluster(c) = EOC
  BY <1>0 DEF FatShape, Cluster, FREE, EOC, next_cluster
<1>2. CASE k = 0
  BY <1>2 DEF Body, Reached
<1>3. CASE k # 0 /\ c # 2
  <2>1. g[k - 1] = << c >>
    BY <1>3 DEF Reached
  <2>2. Len(<< c >>) = 1 /\ << c >>[1] = c
    OBVIOUS
  <2> QED
    BY <1>1, <1>3, <2>1, <2>2 DEF Body, Reached
<1>4. CASE k = 1 /\ c = 2
  <2>1. g[k - 1] = << 2 >>
    BY <1>4 DEF Reached
  <2>2. Len(<< 2 >>) = 1 /\ << 2 >>[1] = 2 /\ Append(<< 2 >>, 3) = << 2, 3 >>
    <3>1. << 2 >> \in Seq(Nat) /\ << 2, 3 >> \in Seq(Nat) /\ Len(<< 2, 3 >>) = 2
      OBVIOUS
    <3> DEFINE a == Append(<< 2 >>, 3)
    <3>2. a \in Seq(Nat) /\ Len(a) = 2 /\ a[1] = 2 /\ a[2] = 3
      BY AppendProperties
    <3>3. \A j \in 1..2 : a[j] = << 2, 3 >>[j]
      BY <3>2
    <3> HIDE DEF a
    <3>4. a = << 2, 3 >>
      BY <3>1, <3>2, <3>3, SeqEqual
    <3> QED
      BY <3>4 DEF a
  <2> QED
    BY <1>1, <1>4, <2>1, <2>2 DEF Body, Reached
<1>5. CASE k > 1 /\ c = 2
  <2>1. k - 1 # 0 /\ k # 0
    BY <1>5
  <2>2. g[k - 1] = << 2, 3 >>
    BY <1>5, <2>1 DEF Reached
  <2>3. Len(<< 2, 3 >>) = 2 /\ << 2, 3 >>[2] = 3
    OBVIOUS
  <2> QED
    BY <1>1, <1>5, <2>1, <2>2, <2>3 DEF Body, Reached
<1> QED
  BY <1>2, <1>3, <1>4, <1>5, <1>0

\* The recursive function of Chain, solved.
LEMMA ChainIs ==
    ASSUME FatShape, NEW c \in Cluster, fat[c] # FREE
    PROVE  Chain(c) = IF c = 2 THEN << 2, 3 >> ELSE << c >>
<1> DEFINE n == LastCluster
           G == CHOOSE g : g = [k \in 0..n |-> Body(c, g, k)]
           T == [k \in 0..n |-> Reached(c, k)]
<1>1. n \in Nat /\ n # 0
  BY Fat16Assumption
<1>2. Chain(c) = G[n]
  BY DEF Chain, Body
<1> HIDE DEF n
<1>3. T = [k \in 0..n |-> Body(c, T, k)]
  <2>1. ASSUME NEW k \in 0..n PROVE Reached(c, k) = Body(c, T, k)
    <3>1. k # 0 => k - 1 \in 0..n
      BY <1>1
    <3>2. k # 0 => T[k - 1] = Reached(c, k - 1)
      BY <3>1
    <3> HIDE DEF T
    <3> QED
      BY <3>2, BodyIs DEF n
  <2> QED
    BY <2>1
<1>4. G = [k \in 0..n |-> Body(c, G, k)]
  <2> HIDE DEF T
  <2> QED
    BY <1>3
<1> HIDE DEF G, T
<1> DEFINE S == {k \in 0..n : G[k] = Reached(c, k)}
<1>5. 0 \in S
  <2>1. Body(c, G, 0) = Reached(c, 0)
    BY DEF Body, Reached
  <2> QED
    BY <1>1, <1>4, <2>1
<1>6. ASSUME NEW i \in 0..(n - 1), i \in S PROVE i + 1 \in S
  <2>1. i + 1 \in 0..n /\ i + 1 - 1 = i
    BY <1>1
  <2>2. Body(c, G, i + 1) = Reached(c, i + 1)
    BY <1>6, <2>1, BodyIs DEF n
  <2> QED
    BY <1>4, <2>1, <2>2
<1>7. 0..n \subseteq S
  <2> HIDE DEF S
  <2> QED
    BY <1>1, <1>5, <1>6, Interval
<1>8. G[n] = Reached(c, n)
  BY <1>1, <1>7
<1> QED
  BY <1>1, <1>2, <1>8 DEF Reached

(***************************************************************************)
(* The disk                                                                *)
(***************************************************************************)
LEMMA Numbers ==
    /\ LastCluster \in Nat /\ LastCluster >= 4
    /\ OnDisk \subseteq Cluster /\ 2 \in OnDisk /\ 3 \in OnDisk
    /\ SectorsPerCluster \in Nat /\ SectorsPerCluster >= 1
    /\ RootEntries \in Nat /\ RootEntries >= 2
    /\ 2 \in Cluster /\ 3 \in Cluster /\ 1 \in Slot
    /\ Cluster \subseteq Nat /\ Slot \subseteq Nat
    /\ EOC \notin Cluster /\ FREE \notin Cluster /\ FREE # EOC
BY Fat16Assumption DEF Cluster, OnDisk, Slot, FREE, EOC

\* No stored name marks the end of the directory.
LEMMA EntryIsNotEnd == ASSUME NEW e, IsEntry(e) PROVE e # END
BY Fat16Assumption DEF IsEntry, END, Entry, Marked

\* The first write of a creation: a free cluster becomes the end of a chain.
LEMMA AllocShape ==
    ASSUME Shape, NEW input \in Inputs, NEW bytes \in FileData, fat16_write_file(input, bytes)
    PROVE  Shape'
<1> DEFINE free == {c \in Cluster : fat[c] = FREE}
<1>1. UNCHANGED <<dir, data, given>>
  BY DEF fat16_write_file
<1>2. CASE free = {}
  <2>1. fat' = fat /\ op' = NoOp
    BY <1>2 DEF fat16_write_file, fat16_alloc_cluster
  <2>2. FatShape' /\ DirShape' /\ DataShape' /\ GivenHeld'
    BY <1>1, <2>1 DEF Shape, FatShape, DirShape, DataShape, GivenHeld, Start
  <2> QED
    BY <2>1, <2>2 DEF Shape, OpShape
<1>3. CASE free # {}
  <2> DEFINE c == Least(free)
  <2>1. free \in SUBSET Nat
    BY Numbers
  <2>2. c \in free
    BY <1>3, <2>1, LeastInSet
  <2>3. fat16_alloc_cluster = [cluster |-> c, fat |-> [fat EXCEPT ![c] = EOC]]
    BY <1>3 DEF fat16_alloc_cluster
  <2>4. c \in Cluster \ {2, 3} /\ fat[c] = FREE
    BY <2>2 DEF Shape, FatShape, FREE, EOC
  <2> HIDE DEF c, free
  <2>5. /\ fat' = [fat EXCEPT ![c] = EOC]
        /\ op' = [step |-> "create", name |-> fat16_format_name(input), bytes |-> bytes,
                  cluster |-> c, i |-> 1]
    BY <2>3, <2>4, Numbers DEF fat16_write_file, Cluster
  <2>6. DOMAIN fat = Cluster /\ \A d \in Cluster : fat'[d] = IF d = c THEN EOC ELSE fat[d]
    BY <2>5 DEF Shape, FatShape
  <2>7. FatShape'
    BY <2>4, <2>5, <2>6, Numbers DEF Shape, FatShape
  <2>8. DirShape'
    BY <1>1, <2>6, Numbers DEF Shape, DirShape, Start
  <2>9. DataShape' /\ GivenHeld'
    BY <1>1 DEF Shape, DataShape, GivenHeld, Start
  <2>10. Creating'
    <3>1. \A i \in Slot : IsEntry(dir[i]) => Start(i) # c
      BY <2>4 DEF Shape, DirShape
    <3>2. \A i \in Slot : IsEntry(dir'[i]) => Start(i)' # c
      BY <1>1, <3>1 DEF Start
    <3>3. 1 \in 1..(SectorsPerCluster + 1) /\ 1..(1 - 1) = {}
      BY Numbers
    <3>4. fat'[c] = EOC
      BY <2>4, <2>6
    <3>5. fat16_format_name(input) \in Names
      BY DEF Names
    <3> QED
      BY <2>4, <2>5, <3>2, <3>3, <3>4, <3>5 DEF Creating
  <2> QED
    BY <2>7, <2>8, <2>9, <2>10 DEF Shape, OpShape
<1> QED
  BY <1>2, <1>3

\* Writing one sector of a cluster, which only a disk that has it keeps.
LEMMA SectorWritten ==
    ASSUME DataShape, NEW c \in Cluster, NEW k \in 1..SectorsPerCluster, NEW v,
           data' = ata_write_sector(c, k, v)
    PROVE  /\ DataShape'
           /\ c \in OnDisk => data'[c][k] = v
           /\ \A n \in 1..SectorsPerCluster : n # k => data'[c][n] = data[c][n]
           /\ \A d \in Cluster : d # c => data'[d] = data[d]
BY DEF DataShape, ata_write_sector

\* The next sector of a creation.
LEMMA SectorShape == ASSUME Shape, write_sector PROVE Shape'
<1>1. Creating
  BY DEF Shape, OpShape, Writing, NoOp, Hung, write_sector
<1>2. PICK name \in Names, b \in FileData, c \in Cluster \ {2, 3},
           k \in 1..(SectorsPerCluster + 1) :
        /\ op = [step |-> "create", name |-> name, bytes |-> b, cluster |-> c, i |-> k]
        /\ fat[c] = EOC
        /\ \A i \in Slot : IsEntry(dir[i]) => Start(i) # c
        /\ c \in OnDisk => \A n \in 1..(k - 1) : data[c][n] = SectorOf(b, n)
  BY <1>1 DEF Creating
<1>3. op.i = k /\ op.cluster = c /\ op.bytes = b
  BY <1>2
<1>4. k \in 1..SectorsPerCluster /\ data' = ata_write_sector(c, k, SectorOf(b, k))
  BY <1>3, Numbers DEF write_sector
<1>5. op' = [step |-> "create", name |-> name, bytes |-> b, cluster |-> c, i |-> k + 1]
  BY <1>2, <1>3 DEF write_sector
<1>6. UNCHANGED <<fat, dir, given>>
  BY DEF write_sector
<1>7. /\ DataShape'
      /\ c \in OnDisk => data'[c][k] = SectorOf(b, k)
      /\ \A n \in 1..SectorsPerCluster : n # k => data'[c][n] = data[c][n]
      /\ \A d \in Cluster : d # c => data'[d] = data[d]
  BY <1>4, SectorWritten DEF Shape
<1>8. FatShape' /\ DirShape'
  BY <1>6 DEF Shape, FatShape, DirShape, Start
<1>9. GivenHeld'
  <2>1. \A i \in Slot : IsEntry(dir[i]) => data'[Start(i)] = data[Start(i)]
    BY <1>2, <1>7 DEF Shape, DirShape
  <2> QED
    BY <1>6, <2>1 DEF Shape, GivenHeld, Start
<1>10. Creating'
  <2>1. k + 1 \in 1..(SectorsPerCluster + 1)
    BY <1>4, Numbers
  <2>2. c \in OnDisk => \A n \in 1..(k + 1 - 1) : data'[c][n] = SectorOf(b, n)
    BY <1>2, <1>4, <1>7, Numbers
  <2>3. \A i \in Slot : IsEntry(dir'[i]) => Start(i)' # c
    BY <1>2, <1>6 DEF Start
  <2> QED
    BY <1>2, <1>5, <1>6, <2>1, <2>2, <2>3 DEF Creating
<1> QED
  BY <1>7, <1>8, <1>9, <1>10 DEF Shape, OpShape

\* What the last write of a creation does to the directory.
NewEntry(slot, name, c, b) ==
    /\ slot \in Slot /\ ~IsEntry(dir[slot])
    /\ \A j \in Slot : j < slot => IsEntry(dir[j])
    /\ dir' = [dir EXCEPT ![slot] = Entry(name, c, Len(b))]
    /\ given' = [given EXCEPT ![slot] = b]
    /\ cut' = cut

LEMMA EntryWritten ==
    ASSUME Shape, fat16_create_dir_entry
    PROVE  \E name \in Names, b \in FileData, c \in Cluster \ {2, 3} :
              /\ op.step = "create" /\ op.cluster = c
              /\ fat[c] = EOC
              /\ \A i \in Slot : IsEntry(dir[i]) => Start(i) # c
              /\ c \in OnDisk => \A n \in 1..SectorsPerCluster : data[c][n] = SectorOf(b, n)
              /\ \/ UNCHANGED <<dir, given>> /\ cut' = cut + 1
                 \/ \E slot \in Slot : NewEntry(slot, name, c, b)
<1>1. Creating
  BY DEF Shape, OpShape, Writing, NoOp, Hung, fat16_create_dir_entry
<1>2. PICK name \in Names, b \in FileData, c \in Cluster \ {2, 3},
           k \in 1..(SectorsPerCluster + 1) :
        /\ op = [step |-> "create", name |-> name, bytes |-> b, cluster |-> c, i |-> k]
        /\ fat[c] = EOC
        /\ \A i \in Slot : IsEntry(dir[i]) => Start(i) # c
        /\ c \in OnDisk => \A n \in 1..(k - 1) : data[c][n] = SectorOf(b, n)
  BY <1>1 DEF Creating
<1>3. op.i = k /\ op.cluster = c /\ op.bytes = b /\ op.name = name /\ op.step = "create"
  BY <1>2
<1>4. k - 1 = SectorsPerCluster
  BY <1>3, Numbers DEF fat16_create_dir_entry
<1> DEFINE free == {i \in Slot : ~IsEntry(dir[i])}
<1>7. CASE free = {}
  <2>1. FreeSlot = 0
    BY <1>7 DEF FreeSlot
  <2>2. UNCHANGED <<dir, given>> /\ cut' = cut + 1
    BY <2>1 DEF fat16_create_dir_entry
  <2> QED
    BY <1>2, <1>3, <1>4, <2>2
<1>8. CASE free # {}
  <2> DEFINE slot == Least(free)
  <2>1. free \in SUBSET Nat
    BY Numbers
  <2>2. slot \in free /\ \A j \in free : slot <= j
    BY <1>8, <2>1, LeastInSet
  <2>3. FreeSlot = slot
    BY <1>8 DEF FreeSlot
  <2>4. slot \in Slot /\ ~IsEntry(dir[slot])
    BY <2>2
  <2>5. \A j \in Slot : j < slot => IsEntry(dir[j])
    <3>1. \A j \in Slot : ~IsEntry(dir[j]) => slot <= j
      BY <2>2
    <3> HIDE DEF slot, free
    <3> QED
      BY <2>4, <3>1, Numbers
  <2>6. slot # 0
    BY <2>4 DEF Slot
  <2> HIDE DEF slot, free
  <2>7. NewEntry(slot, name, c, b)
    BY <1>3, <2>3, <2>4, <2>5, <2>6 DEF fat16_create_dir_entry, NewEntry
  <2> QED
    BY <1>2, <1>3, <1>4, <2>4, <2>7
<1> QED
  BY <1>7, <1>8

\* The entries that were there stay, and the new one starts at c.
LEMMA EntriesAfter ==
    ASSUME DirShape, NEW slot \in Slot, NEW name \in Names, NEW c, NEW b,
           NewEntry(slot, name, c, b)
    PROVE  /\ DOMAIN dir' = Slot
           /\ \A i \in Slot : i # slot => dir'[i] = dir[i]
           /\ dir'[slot] = Entry(name, c, Len(b))
           /\ IsEntry(dir'[slot]) /\ dir'[slot].start_cluster = c
           /\ \A i \in Slot : IsEntry(dir'[i]) <=> i = slot \/ IsEntry(dir[i])
BY DEF DirShape, NewEntry, IsEntry, Entry

\* The directory entry: the new file owns the cluster the creation filled.
LEMMA EntryShape == ASSUME Shape, fat16_create_dir_entry PROVE Shape'
<1>1. PICK name \in Names, b \in FileData, c \in Cluster \ {2, 3} :
              /\ op.step = "create" /\ op.cluster = c
              /\ fat[c] = EOC
              /\ \A i \in Slot : IsEntry(dir[i]) => Start(i) # c
              /\ c \in OnDisk => \A n \in 1..SectorsPerCluster : data[c][n] = SectorOf(b, n)
              /\ \/ UNCHANGED <<dir, given>> /\ cut' = cut + 1
                 \/ \E slot \in Slot : NewEntry(slot, name, c, b)
  BY EntryWritten
<1>2. UNCHANGED <<fat, data>> /\ op' = NoOp
  BY DEF fat16_create_dir_entry
<1>3. FatShape' /\ DataShape' /\ OpShape'
  BY <1>2 DEF Shape, FatShape, DataShape, OpShape
<1>4. CASE UNCHANGED <<dir, given>>
  <2>1. DirShape' /\ GivenHeld'
    BY <1>2, <1>4 DEF Shape, DirShape, GivenHeld, Start
  <2> QED
    BY <1>3, <2>1 DEF Shape
<1>5. ASSUME NEW slot \in Slot, NewEntry(slot, name, c, b) PROVE DirShape' /\ GivenHeld'
  <2>1. /\ DOMAIN dir' = Slot
        /\ \A i \in Slot : i # slot => dir'[i] = dir[i]
        /\ dir'[slot] = Entry(name, c, Len(b))
        /\ IsEntry(dir'[slot]) /\ dir'[slot].start_cluster = c
        /\ \A i \in Slot : IsEntry(dir'[i]) <=> i = slot \/ IsEntry(dir[i])
    BY <1>5, EntriesAfter DEF Shape
  <2>2. \A i \in Slot : Start(i)' = IF i = slot THEN c ELSE Start(i)
    BY <2>1 DEF Start
  <2>3. slot # 1 /\ IsEntry(dir'[1]) /\ Start(1)' = 2
    BY <1>5, <2>1, <2>2, Numbers DEF Shape, DirShape, NewEntry
  <2>4. \A i \in Slot : IsEntry(dir'[i]) =>
           Start(i)' \in Cluster \ {3} /\ fat'[Start(i)'] # FREE
    BY <1>1, <1>2, <2>1, <2>2, Numbers DEF Shape, DirShape
  <2>5. \A i, j \in Slot :
           IsEntry(dir'[i]) /\ IsEntry(dir'[j]) /\ Start(i)' = Start(j)' => i = j
    BY <1>1, <2>1, <2>2 DEF Shape, DirShape
  <2>6. \A i, j \in Slot : IsEntry(dir'[i]) /\ j < i => dir'[j] # END
    <3> SUFFICES ASSUME NEW i \in Slot, NEW j \in Slot, IsEntry(dir'[i]), j < i
                 PROVE  dir'[j] # END
      OBVIOUS
    <3>1. CASE i = slot
      <4>1. IsEntry(dir'[j])
        BY <1>5, <2>1, <3>1 DEF NewEntry
      <4> QED
        BY <4>1, EntryIsNotEnd
    <3>2. CASE j = slot
      BY <2>1, <3>2, EntryIsNotEnd
    <3>3. CASE i # slot /\ j # slot
      BY <2>1, <3>3 DEF Shape, DirShape
    <3> QED
      BY <3>1, <3>2, <3>3
  <2>7. DirShape'
    BY <2>1, <2>3, <2>4, <2>5, <2>6 DEF DirShape
  <2>8. b \in Seq(Bytes)
    BY Fat16Assumption DEF FileData
  <2>9. /\ DOMAIN given' = Slot
        /\ \A i \in Slot : given'[i] = IF i = slot THEN b ELSE given[i]
    BY <1>5 DEF Shape, GivenHeld, NewEntry
  <2>10. GivenHeld'
    <3>1. \A n \in 1..SectorsPerCluster : c \in OnDisk /\ n <= Len(b) => data[c][n] = b[n]
      BY <1>1 DEF SectorOf
    <3> QED
      BY <1>2, <2>1, <2>2, <2>8, <2>9, <3>1 DEF Shape, GivenHeld
  <2> QED
    BY <2>7, <2>10
<1> QED
  BY <1>1, <1>3, <1>4, <1>5 DEF Shape

\* The steps that leave the disk, the entries and the operation alone.
LEMMA SameShape ==
    ASSUME Shape, UNCHANGED <<fat, dir, data, given>>, op' \in {op, NoOp, Hung}
    PROVE  Shape'
<1>1. FatShape' /\ DirShape' /\ DataShape' /\ GivenHeld'
  BY DEF Shape, FatShape, DirShape, DataShape, GivenHeld, Start
<1>2. CASE op' \in {NoOp, Hung}
  BY <1>1, <1>2 DEF Shape, OpShape
<1>3. CASE op' = op
  <2>1. Creating => Creating'
    BY <1>3 DEF Creating, Start
  <2>2. Writing => Writing'
    BY <1>3 DEF Writing, Start
  <2>3. op \in {NoOp, Hung} => op' \in {NoOp, Hung}
    BY <1>3
  <2> QED
    BY <1>1, <1>2, <2>1, <2>2, <2>3 DEF Shape, OpShape
<1> QED
  BY <1>2, <1>3

\* A write begins: the file it is for no longer has its first contents.
LEMMA WriteShape ==
    ASSUME Shape, FdShape, NEW p \in Procs, NEW fd \in Fd, NEW bytes \in FileData,
           handle_syscall_write(p, fd, bytes)
    PROVE  Shape'
<1> DEFINE f == fds[p][fd]
           c == f.start_cluster
<1>1. f.is_open
  BY DEF handle_syscall_write, Open
<1>2. PICK i \in Slot : IsEntry(dir[i]) /\ c = Start(i)
  BY <1>1 DEF FdShape
<1>3. UNCHANGED <<fat, dir, data>>
  BY DEF handle_syscall_write
<1>4. given' = [j \in Slot |-> IF dir[j].start_cluster = c THEN << >> ELSE given[j]]
  BY DEF handle_syscall_write
<1> DEFINE b == SubSeq(bytes, 1, IF Len(bytes) < Len(f.data) THEN Len(bytes) ELSE Len(f.data))
<1>5. op' = [step |-> "write", by |-> <<p, fd>>, bytes |-> b, cluster |-> c, i |-> 1]
  BY DEF handle_syscall_write
<1> HIDE DEF b, c, f
<1>6. FatShape' /\ DirShape' /\ DataShape'
  BY <1>3 DEF Shape, FatShape, DirShape, DataShape, Start
<1>7. GivenHeld'
  <2>1. << >> \in Seq(Bytes) /\ Len(<< >>) = 0
    OBVIOUS
  <2> QED
    BY <1>3, <1>4, <2>1 DEF Shape, GivenHeld, Start
<1>8. Writing'
  <2>1. c \in Cluster /\ 1 \in 1..(SectorsPerCluster + 1)
    BY <1>2, Numbers DEF Shape, DirShape
  <2>2. given'[i] = << >> /\ IsEntry(dir'[i]) /\ Start(i)' = c
    BY <1>2, <1>3, <1>4 DEF Start
  <2>3. op' = [step |-> "write", by |-> op'.by, bytes |-> op'.bytes, cluster |-> c, i |-> 1]
    BY <1>5
  <2> QED
    BY <2>1, <2>2, <2>3 DEF Writing
<1> QED
  BY <1>6, <1>7, <1>8 DEF Shape, OpShape

LEMMA WriteOp ==
    ASSUME Shape, op.step = "write"
    PROVE  Writing
BY DEF Shape, OpShape, Creating, NoOp, Hung

\* The next sector of a write.
LEMMA WrittenShape == ASSUME Shape, write_file PROVE Shape'
<1>1. Writing
  BY WriteOp DEF write_file
<1>2. PICK c \in Cluster, k \in 1..(SectorsPerCluster + 1), i \in Slot :
        /\ op = [step |-> "write", by |-> op.by, bytes |-> op.bytes, cluster |-> c, i |-> k]
        /\ IsEntry(dir[i]) /\ Start(i) = c /\ given[i] = << >>
  BY <1>1 DEF Writing
<1> DEFINE v == SectorOf(op.bytes, k)
           b == op.bytes
           w == op.by
<1>3. op.i = k /\ op.cluster = c
  BY <1>2
<1>4. k \in 1..SectorsPerCluster /\ data' = ata_write_sector(c, k, v)
  BY <1>3, Numbers DEF write_file
<1>5. op' = [step |-> "write", by |-> w, bytes |-> b, cluster |-> c, i |-> k + 1]
  <2>1. op = [step |-> "write", by |-> w, bytes |-> b, cluster |-> c, i |-> k]
    BY <1>2
  <2>2. op' = [op EXCEPT !.i = k + 1]
    BY <1>3 DEF write_file
  <2> HIDE DEF b, w
  <2> QED
    BY <2>1, <2>2
<1>6. UNCHANGED <<fat, dir, given>>
  BY DEF write_file
<1> HIDE DEF v, b, w
<1>7. /\ DataShape'
      /\ \A d \in Cluster : d # c => data'[d] = data[d]
  BY <1>4, SectorWritten DEF Shape
<1>8. FatShape' /\ DirShape'
  BY <1>6 DEF Shape, FatShape, DirShape, Start
<1>9. GivenHeld'
  <2>1. \A j \in Slot : IsEntry(dir[j]) /\ j # i => data'[Start(j)] = data[Start(j)]
    BY <1>2, <1>7 DEF Shape, DirShape
  <2>2. Len(<< >>) = 0
    OBVIOUS
  <2> QED
    BY <1>2, <1>6, <2>1, <2>2 DEF Shape, GivenHeld, Start
<1>10. Writing'
  <2>1. k + 1 \in 1..(SectorsPerCluster + 1)
    BY <1>4, Numbers
  <2>2. op' = [step |-> "write", by |-> op'.by, bytes |-> op'.bytes, cluster |-> c, i |-> k + 1]
    BY <1>5
  <2> QED
    BY <1>2, <1>6, <2>1, <2>2 DEF Writing, Start
<1> QED
  BY <1>7, <1>8, <1>9, <1>10 DEF Shape, OpShape

(***************************************************************************)
(* The descriptors                                                         *)
(***************************************************************************)
\* No step takes an entry out of the directory or moves its start.
Kept == \A i \in Slot : IsEntry(dir[i]) => IsEntry(dir'[i]) /\ Start(i)' = Start(i)

LEMMA EntryKept == ASSUME Shape, fat16_create_dir_entry PROVE Kept
<1>1. PICK name \in Names, b \in FileData, c \in Cluster \ {2, 3} :
              \/ UNCHANGED <<dir, given>>
              \/ \E slot \in Slot : NewEntry(slot, name, c, b)
  BY EntryWritten
<1>2. ASSUME NEW slot \in Slot, NewEntry(slot, name, c, b) PROVE Kept
  BY <1>2, EntriesAfter DEF Shape, Kept, NewEntry, Start
<1> QED
  BY <1>1, <1>2 DEF Kept, Start

LEMMA FdsKept == ASSUME FdShape, Kept, UNCHANGED fds PROVE FdShape'
<1>1. \A p \in Procs, fd \in Fd : fds[p][fd].is_open =>
         \E i \in Slot : IsEntry(dir'[i]) /\ fds[p][fd].start_cluster = Start(i)'
  BY DEF FdShape, Kept
<1> QED
  BY <1>1 DEF FdShape

\* The other descriptors stay as they are.
OthersSame(p, fd) ==
    \A q \in Procs, fe \in Fd : ~(q = p /\ fe = fd) => fds'[q][fe] = fds[q][fe]

\* One descriptor changes.
LEMMA FdSet ==
    ASSUME FdShape, Kept, NEW p \in Procs, NEW fd \in Fd, NEW r,
           fds' = [fds EXCEPT ![p] = [fds[p] EXCEPT ![fd] = r]],
           FdRecord(r),
           r.is_open => \E i \in Slot : IsEntry(dir[i]) /\ r.start_cluster = Start(i)
    PROVE  FdShape' /\ fds'[p][fd] = r /\ OthersSame(p, fd)
<1>1. /\ DOMAIN fds' = Procs
      /\ \A q \in Procs : DOMAIN fds'[q] = Fd
      /\ fds'[p][fd] = r
      /\ \A q \in Procs, fe \in Fd : ~(q = p /\ fe = fd) => fds'[q][fe] = fds[q][fe]
  BY DEF FdShape
<1>2. \A q \in Procs, fe \in Fd : FdRecord(fds'[q][fe])
  <2> SUFFICES ASSUME NEW q \in Procs, NEW fe \in Fd PROVE FdRecord(fds'[q][fe])
    OBVIOUS
  <2>1. fds'[q][fe] = r \/ fds'[q][fe] = fds[q][fe]
    BY <1>1
  <2> QED
    BY <2>1 DEF FdShape
<1>3. ASSUME NEW q \in Procs, NEW fe \in Fd, fds'[q][fe].is_open
      PROVE  \E i \in Slot : IsEntry(dir'[i]) /\ fds'[q][fe].start_cluster = Start(i)'
  <2>1. fds'[q][fe] = r \/ fds'[q][fe] = fds[q][fe]
    BY <1>1
  <2>2. \E i \in Slot : IsEntry(dir[i]) /\ fds'[q][fe].start_cluster = Start(i)
    BY <1>3, <2>1 DEF FdShape
  <2> QED
    BY <2>2 DEF Kept
<1>4. FdShape'
  BY <1>1, <1>2, <1>3 DEF FdShape
<1> QED
  BY <1>1, <1>4 DEF OthersSame

\* An open descriptor, as a pair.
LEMMA InOpened ==
    ASSUME NEW pf
    PROVE  pf \in OpenFds <=>
              \E p \in Procs, fd \in Fd : pf = <<p, fd>> /\ fds[p][fd].is_open
BY DEF OpenFds, Open

LEMMA OpenedSet ==
    ASSUME NEW p \in Procs, NEW fd \in Fd, fds'[p][fd].is_open \in BOOLEAN,
           OthersSame(p, fd)
    PROVE  /\ OpenFds' = IF fds'[p][fd].is_open THEN OpenFds \cup {<<p, fd>>}
                         ELSE OpenFds \ {<<p, fd>>}
           /\ \A pf \in OpenFds : pf # <<p, fd>> => FdOf(pf)' = FdOf(pf)
<1>1. ASSUME NEW pf
      PROVE  pf \in OpenFds' <=>
                \E q \in Procs, fe \in Fd : pf = <<q, fe>> /\ fds'[q][fe].is_open
  BY DEF OpenFds, Open
<1>2. ASSUME NEW pf
      PROVE  pf \in OpenFds' <=> IF pf = <<p, fd>> THEN fds'[p][fd].is_open ELSE pf \in OpenFds
  <2>1. CASE pf = <<p, fd>>
    <3>1. \A q, fe : pf = <<q, fe>> => q = p /\ fe = fd
      BY <2>1
    <3> QED
      BY <1>1, <2>1, <3>1
  <2>2. CASE pf # <<p, fd>>
    <3>1. \A q \in Procs, fe \in Fd : pf = <<q, fe>> => fds'[q][fe] = fds[q][fe]
      BY <2>2 DEF OthersSame
    <3>2. pf \in OpenFds' <=> \E q \in Procs, fe \in Fd : pf = <<q, fe>> /\ fds[q][fe].is_open
      BY <1>1, <3>1
    <3> QED
      BY <2>2, <3>2, InOpened
  <2> QED
    BY <2>1, <2>2
<1>3. OpenFds' = IF fds'[p][fd].is_open THEN OpenFds \cup {<<p, fd>>} ELSE OpenFds \ {<<p, fd>>}
  <2>1. CASE fds'[p][fd].is_open
    <3>1. \A pf : pf \in OpenFds' <=> pf \in OpenFds \cup {<<p, fd>>}
      BY <1>2, <2>1
    <3> QED
      BY <2>1, <3>1
  <2>2. CASE ~fds'[p][fd].is_open
    <3>1. \A pf : pf \in OpenFds' <=> pf \in OpenFds \ {<<p, fd>>}
      BY <1>2, <2>2
    <3> QED
      BY <2>2, <3>1
  <2> QED
    BY <2>1, <2>2
<1>4. ASSUME NEW pf \in OpenFds, pf # <<p, fd>> PROVE FdOf(pf)' = FdOf(pf)
  <2>1. PICK q \in Procs, fe \in Fd : pf = <<q, fe>>
    BY InOpened
  <2>2. fds'[q][fe] = fds[q][fe] /\ pf[1] = q /\ pf[2] = fe
    BY <1>4, <2>1 DEF OthersSame
  <2> QED
    BY <2>2 DEF FdOf
<1> QED
  BY <1>3, <1>4

\* The part of the invariant about the descriptors.
FdInv == FdShape /\ BuffersOwned

LEMMA HasOwners == (FdInv /\ op # Hung => Owning) /\ (FdShape /\ Owning => FdInv)
BY DEF FdInv, BuffersOwned, Owning

LEMMA HasOwnersNext == ASSUME FdShape', op' = Hung \/ Owning' PROVE FdInv'
BY DEF FdInv, BuffersOwned, Owning

\* The steps that leave descriptors and heap alone.
LEMMA FdsSame ==
    ASSUME FdInv, Kept, UNCHANGED <<fds, heap>>, op # Hung \/ op' = Hung
    PROVE  FdInv'
<1>1. FdShape'
  BY FdsKept DEF FdInv
<1>2. Owning => Owning'
  BY DEF Owning, OpenFds, Open, FdOf
<1>3. op' = Hung \/ Owning
  BY HasOwners
<1> QED
  BY <1>1, <1>2, <1>3, HasOwnersNext

(***************************************************************************)
(* The blocks of the heap                                                  *)
(***************************************************************************)
LEMMA Allocated == ASSUME NEW h, kmalloc(h) # NULL PROVE kmalloc(h) \in Block \ h
<1>1. Block \ h # {} /\ kmalloc(h) = Least(Block \ h)
  BY DEF kmalloc
<1>2. Block \ h \in SUBSET Nat
  BY FilesAssumption
<1> QED
  BY <1>1, <1>2, LeastInSet

\* A new descriptor with blocks that nobody had.
LEMMA OwnerAdded ==
    ASSUME Owning, NEW pf, pf \notin OpenFds, OpenFds' = OpenFds \cup {pf},
           \A qg \in OpenFds : qg # pf => FdOf(qg)' = FdOf(qg),
           NEW x, NEW y, x \notin heap, y \notin heap, x # y,
           FdOf(pf)'.fat_fd = x, FdOf(pf)'.buf = y, heap' = heap \cup {x, y}
    PROVE  Owning'
<1> DEFINE B(qg) == BlocksOf(FdOf(qg))
<1>1. \A qg \in OpenFds : BlocksOf(FdOf(qg)') = B(qg) /\ B(qg) \subseteq heap
                          /\ FdOf(qg)' = FdOf(qg)
  BY DEF Owning
<1>2. BlocksOf(FdOf(pf)') = {x, y}
  BY DEF BlocksOf
<1>3. heap' = UNION {BlocksOf(FdOf(qg)') : qg \in OpenFds'}
  <2>1. heap = UNION {B(qg) : qg \in OpenFds}
    BY DEF Owning
  <2>2. \A z : z \in heap <=> \E qg \in OpenFds : z \in B(qg)
    BY <2>1
  <2>3. \A z : z \in heap' <=> \E qg \in OpenFds' : z \in BlocksOf(FdOf(qg)')
    BY <1>1, <1>2, <2>2
  <2> QED
    BY <2>3
<1>4. \A qg \in OpenFds' : FdOf(qg)'.fat_fd # FdOf(qg)'.buf
  BY <1>1 DEF Owning
<1>5. ASSUME NEW qg \in OpenFds', NEW rh \in OpenFds', qg # rh
      PROVE  BlocksOf(FdOf(qg)') \cap BlocksOf(FdOf(rh)') = {}
  <2>1. CASE qg \in OpenFds /\ rh \in OpenFds
    BY <1>1, <1>5, <2>1 DEF Owning
  <2>2. CASE qg = pf
    BY <1>1, <1>2, <1>5, <2>2
  <2>3. CASE rh = pf
    BY <1>1, <1>2, <1>5, <2>3
  <2> QED
    BY <2>1, <2>2, <2>3
<1> QED
  BY <1>3, <1>4, <1>5 DEF Owning, BlocksOf

\* Descriptors that are closed with their blocks.
LEMMA OwnersRemoved ==
    ASSUME Owning, NEW gone, OpenFds' = OpenFds \ gone,
           \A qg \in OpenFds' : FdOf(qg)' = FdOf(qg),
           heap' = heap \ UNION {BlocksOf(FdOf(qg)) : qg \in OpenFds \cap gone}
    PROVE  Owning'
<1> DEFINE B(qg) == BlocksOf(FdOf(qg))
<1>1. \A qg \in OpenFds' : qg \in OpenFds /\ BlocksOf(FdOf(qg)') = B(qg)
  OBVIOUS
<1>2. heap' = UNION {BlocksOf(FdOf(qg)') : qg \in OpenFds'}
  <2>1. heap = UNION {B(qg) : qg \in OpenFds}
    BY DEF Owning
  <2>2. \A z : z \in heap <=> \E qg \in OpenFds : z \in B(qg)
    BY <2>1
  <2>3. \A z : z \in heap' <=> z \in heap /\ ~ \E qg \in OpenFds \cap gone : z \in B(qg)
    OBVIOUS
  <2>4. \A qg, rh \in OpenFds : qg # rh => B(qg) \cap B(rh) = {}
    BY DEF Owning
  <2> HIDE DEF B
  <2>5. \A z : z \in heap' <=> \E qg \in OpenFds' : z \in B(qg)
    <3> SUFFICES ASSUME NEW z PROVE z \in heap' <=> \E qg \in OpenFds' : z \in B(qg)
      OBVIOUS
    <3>1. ASSUME z \in heap' PROVE \E qg \in OpenFds' : z \in B(qg)
      BY <2>2, <2>3, <3>1
    <3>2. ASSUME NEW qg \in OpenFds', z \in B(qg) PROVE z \in heap'
      BY <1>1, <2>2, <2>3, <2>4, <3>2
    <3> QED
      BY <3>1, <3>2
  <2>6. \A z : z \in heap' <=> \E qg \in OpenFds' : z \in BlocksOf(FdOf(qg)')
    BY <1>1, <2>5
  <2> QED
    BY <2>6
<1>3. /\ \A qg \in OpenFds' : FdOf(qg)'.fat_fd # FdOf(qg)'.buf
      /\ \A qg, rh \in OpenFds' : qg # rh => BlocksOf(FdOf(qg)') \cap BlocksOf(FdOf(rh)') = {}
  BY <1>1 DEF Owning
<1> QED
  BY <1>2, <1>3 DEF Owning, BlocksOf

(***************************************************************************)
(* The system calls on descriptors                                         *)
(***************************************************************************)
\* open takes two blocks, and a free descriptor to own them or releases them.
LEMMA OpenFdsOK ==
    ASSUME Shape, FdInv, NEW p \in Procs, NEW input \in Inputs, handle_syscall_open(p, input)
    PROVE  FdInv'
<1> DEFINE i == fat16_find_file(input)
           start == dir[i].start_cluster
           x == kmalloc(heap)
           y == kmalloc(heap \cup {x})
           reads == fat16_read_file([start_cluster |-> start])
<1>1. x \in Block \ heap /\ y \in Block \ heap /\ x # y
  <2>1. x # NULL /\ y # NULL
    BY DEF handle_syscall_open
  <2>2. x \in Block \ heap /\ y \in Block \ (heap \cup {x})
    BY <2>1, Allocated
  <2> QED
    BY <2>2
<1>2. i \in Slot /\ IsEntry(dir[i])
  <2> DEFINE found == {j \in Listed : dir[j].name = fat16_format_name(input)}
  <2>1. found # {}
    BY DEF handle_syscall_open, fat16_find_file
  <2>2. found \in SUBSET Nat
    BY Numbers DEF Listed
  <2>3. Least(found) \in found
    BY <2>1, <2>2, LeastInSet
  <2>4. i = Least(found)
    BY <2>1 DEF fat16_find_file
  <2>5. i \in Listed
    BY <2>3, <2>4
  <2> QED
    BY <2>5 DEF Listed
<1>3. Kept /\ op = NoOp
  BY DEF handle_syscall_open, Kept, Start
<1>4. Owning
  BY <1>3 DEF FdInv, BuffersOwned, Owning, NoOp, Hung
<1>5. \/ Descriptor(p, x, y, start) /\ op' = op
      \/ op' = Hung /\ UNCHANGED fds
  BY DEF handle_syscall_open
<1>6. CASE op' = Hung /\ UNCHANGED fds
  BY <1>3, <1>6, FdsKept DEF FdInv, BuffersOwned
<1>7. CASE Descriptor(p, x, y, start) /\ op' = op /\ Fd \ Open(p) = {}
  <2>1. UNCHANGED fds /\ heap' = (heap \cup {x, y}) \ {y, x}
    BY <1>7 DEF Descriptor
  <2>2. heap' = heap
    BY <1>1, <2>1
  <2> QED
    BY <1>3, <1>7, <2>1, <2>2, FdsSame
<1>8. CASE Descriptor(p, x, y, start) /\ Fd \ Open(p) # {}
  <2>1. Least(Fd \ Open(p)) \in Fd \ Open(p)
    <3>1. Fd \ Open(p) \in SUBSET Nat
      BY FilesAssumption DEF Fd
    <3> QED
      BY <1>8, <3>1, LeastInSet
  <2>11. PICK r : r = [is_open |-> TRUE, fat_fd |-> x, buf |-> y, start_cluster |-> start,
                      data |-> reads, offset |-> 0]
    OBVIOUS
  <2>2. PICK fd \in Fd \ Open(p), b \in Block, c \in Block :
           /\ b = x /\ c = y
           /\ fds' = [fds EXCEPT ![p] = [fds[p] EXCEPT ![fd] = r]]
           /\ heap' = heap \cup {b, c}
    <3>1. /\ fds' = [fds EXCEPT ![p] = [fds[p] EXCEPT ![Least(Fd \ Open(p))] =
                       [is_open |-> TRUE, fat_fd |-> x, buf |-> y, start_cluster |-> start,
                        data |-> reads, offset |-> 0]]]
          /\ heap' = heap \cup {x, y}
      BY <1>8 DEF Descriptor
    <3> HIDE DEF x, y, start, reads
    <3>2. fds' = [fds EXCEPT ![p] = [fds[p] EXCEPT ![Least(Fd \ Open(p))] = r]]
      BY <2>11, <3>1
    <3> QED
      BY <1>1, <2>1, <3>1, <3>2
  <2>3. /\ FdRecord(r) /\ r.is_open = TRUE /\ r.start_cluster = Start(i)
        /\ r.fat_fd = b /\ r.buf = c
    <3> HIDE DEF reads, i, x, y
    <3> QED
      BY <2>2, <2>11 DEF FdRecord, Start
  <2>9. b \notin heap /\ c \notin heap /\ b # c
    BY <1>1, <2>2
  <2> HIDE DEF x, y, reads, i, start
  <2>10. \E j \in Slot : IsEntry(dir[j]) /\ r.start_cluster = Start(j)
    BY <1>2, <2>3
  <2>4. FdShape' /\ fds'[p][fd] = r /\ OthersSame(p, fd)
    <3>1. FdShape /\ fd \in Fd /\ fds' = [fds EXCEPT ![p] = [fds[p] EXCEPT ![fd] = r]]
      BY <2>2 DEF FdInv
    <3>2. FdRecord(r)
      BY <2>3
    <3> QED
      BY ONLY <1>3, <2>10, <3>1, <3>2, p \in Procs, FdSet
  <2> DEFINE pf == <<p, fd>>
  <2>5. /\ OpenFds' = OpenFds \cup {pf}
        /\ \A qg \in OpenFds : qg # pf => FdOf(qg)' = FdOf(qg)
    BY <2>2, <2>3, <2>4, OpenedSet
  <2>6. pf \notin OpenFds
    BY <2>2 DEF OpenFds
  <2>7. FdOf(pf)'.fat_fd = b /\ FdOf(pf)'.buf = c
    BY <2>3, <2>4 DEF FdOf
  <2>8. Owning'
    <3> HIDE DEF pf
    <3> QED
      BY <1>4, <2>2, <2>5, <2>6, <2>7, <2>9, OwnerAdded
  <2> QED
    BY <2>4, <2>8, HasOwnersNext
<1> QED
  BY <1>5, <1>6, <1>7, <1>8

\* read and write change what an open descriptor holds, not its blocks.
LEMMA StillOpen ==
    ASSUME FdInv, Kept, NEW p \in Procs, NEW fd \in Open(p), fd \in Fd, NEW r,
           fds' = [fds EXCEPT ![p] = [fds[p] EXCEPT ![fd] = r]], UNCHANGED heap, op = NoOp,
           FdRecord(r), r.is_open, r.start_cluster = fds[p][fd].start_cluster,
           r.fat_fd = fds[p][fd].fat_fd, r.buf = fds[p][fd].buf
    PROVE  FdInv'
<1>1. fds[p][fd].is_open
  BY DEF Open
<1>2. \E i \in Slot : IsEntry(dir[i]) /\ r.start_cluster = Start(i)
  BY <1>1 DEF FdInv, FdShape
<1>3. FdShape' /\ fds'[p][fd] = r /\ OthersSame(p, fd)
  BY <1>2, FdSet DEF FdInv
<1>4. r.is_open = TRUE
  BY DEF FdRecord
<1>5. /\ OpenFds' = OpenFds \cup {<<p, fd>>}
      /\ \A pf \in OpenFds : pf # <<p, fd>> => FdOf(pf)' = FdOf(pf)
  BY <1>3, <1>4, OpenedSet
<1>6. <<p, fd>> \in OpenFds
  BY <1>1, InOpened
<1>7. OpenFds' = OpenFds
  BY <1>5, <1>6
<1>8. \A pf \in OpenFds : /\ FdOf(pf)'.fat_fd = FdOf(pf).fat_fd /\ FdOf(pf)'.buf = FdOf(pf).buf
                          /\ BlocksOf(FdOf(pf)') = BlocksOf(FdOf(pf))
  BY <1>3, <1>5 DEF FdOf, BlocksOf
<1>9. Owning
  BY DEF FdInv, BuffersOwned, Owning, NoOp, Hung
<1>10. Owning'
  <2>1. heap' = UNION {BlocksOf(FdOf(pf)') : pf \in OpenFds'}
    <3>1. heap = UNION {BlocksOf(FdOf(pf)) : pf \in OpenFds}
      BY <1>9 DEF Owning
    <3>2. {BlocksOf(FdOf(pf)') : pf \in OpenFds'} = {BlocksOf(FdOf(pf)) : pf \in OpenFds}
      BY <1>7, <1>8
    <3> QED
      BY <3>1, <3>2
  <2>2. /\ \A pf \in OpenFds' : FdOf(pf)'.fat_fd # FdOf(pf)'.buf
        /\ \A pf, qg \in OpenFds' :
              pf # qg => BlocksOf(FdOf(pf)') \cap BlocksOf(FdOf(qg)') = {}
    BY <1>7, <1>8, <1>9 DEF Owning
  <2> QED
    BY <2>1, <2>2 DEF Owning, BlocksOf
<1> QED
  BY <1>3, <1>10 DEF FdInv, BuffersOwned, Owning

LEMMA ReadFds ==
    ASSUME FdInv, NEW p \in Procs, NEW fd \in Fd, NEW len \in ReadLens,
           handle_syscall_read(p, fd, len)
    PROVE  FdInv'
<1> DEFINE f == fds[p][fd]
           size == IF len < Len(f.data) - f.offset THEN len ELSE Len(f.data) - f.offset
           r == [f EXCEPT !.offset = f.offset + size]
<1>1. fds' = [fds EXCEPT ![p] = [fds[p] EXCEPT ![fd] = r]] /\ UNCHANGED heap
  BY DEF handle_syscall_read
<1>2. /\ FdRecord(r) /\ r.is_open = f.is_open /\ r.start_cluster = f.start_cluster
      /\ r.fat_fd = f.fat_fd /\ r.buf = f.buf
  <2> DEFINE o == f.offset + size
  <2>1. FdRecord(f)
    BY DEF FdInv, FdShape
  <2>2. r = [f EXCEPT !.offset = o]
    OBVIOUS
  <2> HIDE DEF f, o, r
  <2>3. r = [is_open |-> f.is_open, fat_fd |-> f.fat_fd, buf |-> f.buf,
             start_cluster |-> f.start_cluster, data |-> f.data, offset |-> o]
    BY <2>1, <2>2 DEF FdRecord
  <2> QED
    BY <2>1, <2>3 DEF FdRecord
<1>3. fd \in Open(p) /\ f.is_open /\ Kept /\ op = NoOp
  BY DEF handle_syscall_read, Open, Kept, Start
<1> HIDE DEF r
<1> QED
  BY <1>1, <1>2, <1>3, StillOpen

LEMMA WriteFds ==
    ASSUME FdInv, NEW p \in Procs, NEW fd \in Fd, NEW bytes \in FileData,
           handle_syscall_write(p, fd, bytes)
    PROVE  FdInv'
<1> DEFINE f == fds[p][fd]
           to_write == IF Len(bytes) < Len(f.data) THEN Len(bytes) ELSE Len(f.data)
           d == [n \in DOMAIN f.data |-> IF n <= to_write THEN bytes[n] ELSE f.data[n]]
           r == [f EXCEPT !.data = d]
<1>1. fds' = [fds EXCEPT ![p] = [fds[p] EXCEPT ![fd] = r]] /\ UNCHANGED heap
  BY DEF handle_syscall_write
<1>2. /\ FdRecord(r) /\ r.is_open = f.is_open /\ r.start_cluster = f.start_cluster
      /\ r.fat_fd = f.fat_fd /\ r.buf = f.buf
  <2>1. FdRecord(f)
    BY DEF FdInv, FdShape
  <2>2. r = [f EXCEPT !.data = d]
    OBVIOUS
  <2> HIDE DEF f, d, r
  <2>3. r = [is_open |-> f.is_open, fat_fd |-> f.fat_fd, buf |-> f.buf,
             start_cluster |-> f.start_cluster, data |-> d, offset |-> f.offset]
    BY <2>1, <2>2 DEF FdRecord
  <2> QED
    BY <2>1, <2>3 DEF FdRecord
<1>3. fd \in Open(p) /\ f.is_open /\ Kept /\ op = NoOp
  BY DEF handle_syscall_write, Open, Kept, Start
<1> HIDE DEF r
<1> QED
  BY <1>1, <1>2, <1>3, StillOpen

LEMMA ClosedRecord == FdRecord(Closed) /\ ~Closed.is_open
BY DEF FdRecord, Closed

\* close releases the blocks of a descriptor that was open.
LEMMA CloseFds ==
    ASSUME FdInv, NEW p \in Procs, NEW fd \in Fd, handle_syscall_close(p, fd)
    PROVE  FdInv'
<1>1. /\ fds' = [fds EXCEPT ![p] = [fds[p] EXCEPT ![fd] = Closed]]
      /\ heap' = heap \ BlocksOf(fds[p][fd])
  BY DEF handle_syscall_close
<1>2. fds[p][fd].is_open /\ Kept /\ op = NoOp
  BY DEF handle_syscall_close, Open, Kept, Start
<1>3. FdShape' /\ fds'[p][fd] = Closed /\ OthersSame(p, fd)
  BY <1>1, <1>2, ClosedRecord, FdSet DEF FdInv
<1>4. /\ OpenFds' = OpenFds \ {<<p, fd>>}
      /\ \A pf \in OpenFds : pf # <<p, fd>> => FdOf(pf)' = FdOf(pf)
  <2>1. fds'[p][fd].is_open = FALSE
    BY <1>3 DEF Closed
  <2> QED
    BY <1>3, <2>1, OpenedSet
<1>5. OpenFds \cap {<<p, fd>>} = {<<p, fd>>}
  <2>1. <<p, fd>> \in OpenFds
    BY <1>2, InOpened
  <2> QED
    BY <2>1
<1>6. Owning
  BY <1>2 DEF FdInv, BuffersOwned, Owning, NoOp, Hung
<1>7. heap' = heap \ UNION {BlocksOf(FdOf(qg)) : qg \in OpenFds \cap {<<p, fd>>}}
  <2>1. FdOf(<<p, fd>>) = fds[p][fd]
    BY DEF FdOf
  <2>2. UNION {BlocksOf(FdOf(qg)) : qg \in {<<p, fd>>}} = BlocksOf(fds[p][fd])
    BY <2>1
  <2> QED
    BY <1>1, <1>5, <2>2
<1>8. \A qg \in OpenFds' : FdOf(qg)' = FdOf(qg)
  BY <1>4
<1>9. Owning'
  <2> DEFINE gone == {<<p, fd>>}
  <2>1. OpenFds' = OpenFds \ gone
    BY <1>4
  <2>2. heap' = heap \ UNION {BlocksOf(FdOf(qg)) : qg \in OpenFds \cap gone}
    BY <1>7
  <2> HIDE DEF gone
  <2> QED
    BY <1>6, <1>8, <2>1, <2>2, OwnersRemoved
<1> QED
  BY <1>3, <1>9 DEF FdInv, BuffersOwned, Owning

\* The end of a process releases the blocks of all its descriptors.
LEMMA RemoveFds ==
    ASSUME FdInv, NEW p \in Procs, scheduler_remove(p)
    PROVE  FdInv'
<1> DEFINE gone == {p} \X Fd
<1>1. /\ fds' = [fds EXCEPT ![p] = [fd \in Fd |-> Closed]]
      /\ heap' = heap \ UNION {BlocksOf(fds[p][fd]) : fd \in Open(p)}
      /\ UNCHANGED dir /\ op = NoOp
  BY DEF scheduler_remove
<1>2. /\ DOMAIN fds' = Procs
      /\ \A q \in Procs : DOMAIN fds'[q] = Fd
      /\ \A fd \in Fd : fds'[p][fd] = Closed
      /\ \A q \in Procs, fd \in Fd : q # p => fds'[q][fd] = fds[q][fd]
  BY <1>1 DEF FdInv, FdShape
<1>3. FdShape'
  <2>1. \A q \in Procs, fd \in Fd : FdRecord(fds'[q][fd])
    <3> SUFFICES ASSUME NEW q \in Procs, NEW fd \in Fd PROVE FdRecord(fds'[q][fd])
      OBVIOUS
    <3>1. fds'[q][fd] = Closed \/ fds'[q][fd] = fds[q][fd]
      BY <1>2
    <3> QED
      BY <3>1, ClosedRecord DEF FdInv, FdShape
  <2>2. ASSUME NEW q \in Procs, NEW fd \in Fd, fds'[q][fd].is_open
        PROVE  \E i \in Slot : IsEntry(dir'[i]) /\ fds'[q][fd].start_cluster = Start(i)'
    <3>1. fds'[q][fd] = fds[q][fd]
      BY <1>2, <2>2, ClosedRecord
    <3> QED
      BY <1>1, <2>2, <3>1 DEF FdInv, FdShape, Start
  <2> QED
    BY <1>2, <2>1, <2>2 DEF FdShape
<1>4. OpenFds' = OpenFds \ gone
  <2>1. ASSUME NEW pf
        PROVE  pf \in OpenFds' <=>
                  \E q \in Procs, fd \in Fd : pf = <<q, fd>> /\ fds'[q][fd].is_open
    BY DEF OpenFds, Open
  <2>2. ASSUME NEW pf PROVE pf \in OpenFds' <=> pf \in OpenFds \ gone
    <3>1. \A q \in Procs, fd \in Fd :
             fds'[q][fd].is_open <=> q # p /\ fds[q][fd].is_open
      BY <1>2, ClosedRecord
    <3>2. pf \in OpenFds' <=>
             \E q \in Procs, fd \in Fd : pf = <<q, fd>> /\ q # p /\ fds[q][fd].is_open
      BY <2>1, <3>1
    <3> QED
      BY <3>2, InOpened
  <2> QED
    BY <2>2
<1>5. \A pf \in OpenFds' : FdOf(pf)' = FdOf(pf)
  <2> SUFFICES ASSUME NEW pf \in OpenFds' PROVE FdOf(pf)' = FdOf(pf)
    OBVIOUS
  <2>1. PICK q \in Procs, fd \in Fd : pf = <<q, fd>>
    BY <1>4, InOpened
  <2>2. q # p /\ pf[1] = q /\ pf[2] = fd
    BY <1>4, <2>1
  <2> QED
    BY <1>2, <2>2 DEF FdOf
<1>6. {BlocksOf(fds[p][fd]) : fd \in Open(p)} = {BlocksOf(FdOf(qg)) : qg \in OpenFds \cap gone}
  <2>1. ASSUME NEW fd \in Open(p)
        PROVE  <<p, fd>> \in OpenFds \cap gone /\ FdOf(<<p, fd>>) = fds[p][fd]
    BY DEF OpenFds, Open, FdOf
  <2>2. ASSUME NEW qg \in OpenFds \cap gone
        PROVE  qg[2] \in Open(p) /\ FdOf(qg) = fds[p][qg[2]]
    BY DEF OpenFds, FdOf
  <2>3. {BlocksOf(fds[p][fd]) : fd \in Open(p)} \subseteq {BlocksOf(FdOf(qg)) : qg \in OpenFds \cap gone}
    <3> SUFFICES ASSUME NEW fd \in Open(p)
                 PROVE  \E qg \in OpenFds \cap gone : BlocksOf(fds[p][fd]) = BlocksOf(FdOf(qg))
      OBVIOUS
    <3> HIDE DEF gone
    <3> QED
      BY <2>1
  <2>4. {BlocksOf(FdOf(qg)) : qg \in OpenFds \cap gone} \subseteq {BlocksOf(fds[p][fd]) : fd \in Open(p)}
    <3> SUFFICES ASSUME NEW qg \in OpenFds \cap gone
                 PROVE  \E fd \in Open(p) : BlocksOf(FdOf(qg)) = BlocksOf(fds[p][fd])
      OBVIOUS
    <3> HIDE DEF gone
    <3> QED
      BY <2>2
  <2> HIDE DEF gone
  <2> QED
    BY <2>3, <2>4
<1>7. heap' = heap \ UNION {BlocksOf(FdOf(qg)) : qg \in OpenFds \cap gone}
  BY <1>1, <1>6
<1>8. Owning
  BY <1>1 DEF FdInv, BuffersOwned, Owning, NoOp, Hung
<1> HIDE DEF gone
<1>9. Owning'
  BY <1>4, <1>5, <1>7, <1>8, OwnersRemoved
<1> QED
  BY <1>3, <1>9 DEF FdInv, BuffersOwned, Owning

\* With every descriptor closed no block is owned.
AllClosed == fds = [p \in Procs |-> [fd \in Fd |-> Closed]] /\ heap = {}

LEMMA NoFds == AllClosed => FdInv
<1> SUFFICES ASSUME AllClosed PROVE FdInv
  OBVIOUS
<1>1. FdShape
  BY ClosedRecord DEF AllClosed, FdShape
<1>2. OpenFds = {}
  BY ClosedRecord DEF AllClosed, OpenFds, Open
<1>3. Owning
  BY <1>2 DEF Owning, AllClosed
<1> QED
  BY <1>1, <1>3 DEF FdInv, BuffersOwned, Owning

(***************************************************************************)
(* Clusters lost                                                           *)
(***************************************************************************)
\* Every entry is listed, and its clusters are known from where it starts.
LEMMA ListedIs == ASSUME DirShape PROVE Listed = {i \in Slot : IsEntry(dir[i])}
<1>1. ASSUME NEW i \in Slot, IsEntry(dir[i]), NEW j \in 1..i PROVE dir[j] # END
  <2>1. j \in Slot
    BY Numbers DEF Slot
  <2>2. CASE j = i
    BY <1>1, <2>2, EntryIsNotEnd
  <2>3. CASE j # i
    <3>1. j < i
      BY <2>1, <2>3, Numbers
    <3> QED
      BY <1>1, <2>1, <3>1 DEF DirShape
  <2> QED
    BY <2>2, <2>3
<1> QED
  BY <1>1 DEF Listed

LEMMA ClustersIs ==
    ASSUME FatShape, DirShape, NEW i \in Slot, IsEntry(dir[i])
    PROVE  Clusters(i) = IF Start(i) = 2 THEN {2, 3} ELSE {Start(i)}
<1> DEFINE c == Start(i)
<1>1. c \in Cluster
  BY DEF DirShape
<1>2. Clusters(i) = ToSet(Chain(c))
  BY DEF Clusters, Start
<1> HIDE DEF c
<1>3. Chain(c) = IF c = 2 THEN << 2, 3 >> ELSE << c >>
  <2>1. fat[c] # FREE
    BY DEF DirShape, c
  <2> QED
    BY <1>1, <2>1, ChainIs
<1>4. ToSet(<< 2, 3 >>) = {2, 3}
  <2>1. DOMAIN << 2, 3 >> = {1, 2} /\ << 2, 3 >>[1] = 2 /\ << 2, 3 >>[2] = 3
    OBVIOUS
  <2> QED
    BY <2>1 DEF ToSet
<1>5. ToSet(<< c >>) = {c}
  <2>1. DOMAIN << c >> = {1} /\ << c >>[1] = c
    OBVIOUS
  <2> QED
    BY <2>1 DEF ToSet
<1> QED
  BY <1>2, <1>3, <1>4, <1>5 DEF c

Owned(c) == c = 3 \/ \E i \in Slot : IsEntry(dir[i]) /\ Start(i) = c

Busy(c) == op.step = "create" /\ op.cluster = c

Stray == {c \in Cluster : fat[c] # FREE /\ ~Owned(c) /\ ~Busy(c)}

LEMMA LostIs == Shape => Lost = Stray
<1> SUFFICES ASSUME Shape PROVE Lost = Stray
  OBVIOUS
<1>1. FatShape /\ DirShape
  BY DEF Shape
<1>2. ASSUME NEW c \in Cluster
      PROVE  (\A i \in Listed : c \notin Clusters(i)) <=> ~Owned(c)
  <2>1. \A i \in Slot : IsEntry(dir[i]) =>
           Clusters(i) = IF Start(i) = 2 THEN {2, 3} ELSE {Start(i)}
    BY <1>1, ClustersIs
  <2>2. Listed = {i \in Slot : IsEntry(dir[i])}
    BY <1>1, ListedIs
  <2>3. 1 \in Slot /\ IsEntry(dir[1]) /\ Start(1) = 2
    BY <1>1, Numbers DEF DirShape
  <2>4. ASSUME NEW i \in Slot, IsEntry(dir[i])
        PROVE  c \in Clusters(i) <=> Start(i) = c \/ (Start(i) = 2 /\ c = 3)
    BY <2>1, <2>4
  <2>5. ASSUME Owned(c) PROVE \E i \in Listed : c \in Clusters(i)
    BY <2>2, <2>3, <2>4, <2>5 DEF Owned
  <2>6. ASSUME NEW i \in Listed, c \in Clusters(i) PROVE Owned(c)
    BY <2>2, <2>4, <2>6 DEF Owned
  <2> QED
    BY <2>5, <2>6
<1> QED
  BY <1>2 DEF Lost, Stray, Busy

LEMMA StrayFinite == IsFiniteSet(Stray)
<1>1. IsFiniteSet(Cluster)
  BY Numbers, FS_Interval DEF Cluster
<1>2. Stray \in SUBSET Cluster
  BY DEF Stray
<1> QED
  BY <1>1, <1>2, FS_Subset

\* The count of the clusters lost, and how a step may change it.
LostInv == cut \in Nat /\ cut = Cardinality(Stray)

LEMMA LostStep ==
    ASSUME LostInv,
           \/ Stray' = Stray /\ cut' = cut
           \/ \E c : c \notin Stray /\ Stray' = Stray \cup {c} /\ cut' = cut + 1
    PROVE  LostInv'
<1>1. CASE Stray' = Stray /\ cut' = cut
  BY <1>1 DEF LostInv
<1>2. ASSUME NEW c, c \notin Stray, Stray' = Stray \cup {c}, cut' = cut + 1 PROVE LostInv'
  <2>1. Cardinality(Stray \cup {c}) = Cardinality(Stray) + 1
    BY <1>2, StrayFinite, FS_AddElement
  <2> QED
    BY <1>2, <2>1 DEF LostInv
<1> QED
  BY <1>1, <1>2

\* Nothing is lost by a step that keeps the FAT and the owners, and the
\* cluster of a creation under way.
LEMMA LostSame ==
    ASSUME LostInv, UNCHANGED <<fat, cut>>, \A c \in Cluster : Owned(c)' <=> Owned(c),
           \A c \in Cluster : Busy(c)' <=> Busy(c)
    PROVE  LostInv'
<1>1. Stray' = Stray
  BY DEF Stray
<1> QED
  BY <1>1, LostStep

LEMMA AllocLost ==
    ASSUME Shape, LostInv, NEW input \in Inputs, NEW bytes \in FileData,
           fat16_write_file(input, bytes)
    PROVE  LostInv'
<1> DEFINE free == {c \in Cluster : fat[c] = FREE}
<1>1. UNCHANGED <<dir, cut>> /\ op = NoOp
  BY DEF fat16_write_file
<1>2. \A c \in Cluster : Owned(c)' <=> Owned(c)
  BY <1>1 DEF Owned, Start
<1>3. CASE free = {}
  <2>1. fat' = fat /\ op' = op
    BY <1>1, <1>3 DEF fat16_write_file, fat16_alloc_cluster
  <2> QED
    BY <1>1, <1>2, <2>1, LostSame DEF Busy
<1>4. CASE free # {}
  <2> DEFINE c == Least(free)
  <2>1. c \in free
    BY <1>4, Numbers, LeastInSet
  <2>2. fat16_alloc_cluster = [cluster |-> c, fat |-> [fat EXCEPT ![c] = EOC]]
    BY <1>4 DEF fat16_alloc_cluster
  <2>3. c \in Cluster /\ fat[c] = FREE
    BY <2>1
  <2> HIDE DEF c, free
  <2>4. /\ fat' = [fat EXCEPT ![c] = EOC]
        /\ op' = [step |-> "create", name |-> fat16_format_name(input), bytes |-> bytes,
                  cluster |-> c, i |-> 1]
    BY <2>2, <2>3, Numbers DEF fat16_write_file, Cluster
  <2>5. /\ \A d : Busy(d)' <=> d = c
        /\ \A d : ~Busy(d)
    BY <1>1, <2>4 DEF Busy, NoOp
  <2>6. \A d \in Cluster : d # c => fat'[d] = fat[d]
    BY <2>4 DEF Shape, FatShape
  <2>7. \A d \in Cluster : d \in Stray' <=> d \in Stray
    <3> SUFFICES ASSUME NEW d \in Cluster PROVE d \in Stray' <=> d \in Stray
      OBVIOUS
    <3>1. CASE d = c
      BY <2>3, <2>5, <3>1 DEF Stray
    <3>2. CASE d # c
      BY <1>1, <1>2, <2>5, <2>6, <3>2 DEF Stray
    <3> QED
      BY <3>1, <3>2
  <2>8. Stray' = Stray
    BY <2>7 DEF Stray
  <2> QED
    BY <1>1, <2>8, LostStep
<1> QED
  BY <1>3, <1>4

\* A step of an operation keeps its cluster.
LEMMA SectorLost ==
    ASSUME Shape, LostInv, write_sector \/ write_file
    PROVE  LostInv'
<1>1. UNCHANGED <<fat, dir, cut>> /\ op' = [op EXCEPT !.i = @ + 1]
  BY DEF write_sector, write_file
<1>2. \A c \in Cluster : Busy(c)' <=> Busy(c)
  <2>1. CASE Creating
    <3>1. PICK name, b, c, k :
             op = [step |-> "create", name |-> name, bytes |-> b, cluster |-> c, i |-> k]
      BY <2>1 DEF Creating
    <3>2. op'.cluster = op.cluster /\ op'.step = op.step
      BY <1>1, <3>1
    <3> QED
      BY <3>2 DEF Busy
  <2>2. CASE Writing
    <3>1. PICK c, k :
             op = [step |-> "write", by |-> op.by, bytes |-> op.bytes, cluster |-> c, i |-> k]
      BY <2>2 DEF Writing
    <3>2. op'.step = "write" /\ op.step = "write"
      BY <1>1, <3>1
    <3> QED
      BY <3>2 DEF Busy
  <2> QED
    BY <2>1, <2>2 DEF Shape, OpShape, NoOp, Hung, write_sector, write_file
<1>3. \A c \in Cluster : Owned(c)' <=> Owned(c)
  BY <1>1 DEF Owned, Start
<1> QED
  BY <1>1, <1>2, <1>3, LostSame

\* A creation that ends without an entry loses its cluster.
LEMMA EndsLost ==
    ASSUME LostInv, NEW c \in Cluster, Busy(c), fat[c] = EOC, ~Owned(c),
           op' = NoOp, UNCHANGED <<fat, dir>>, cut' = cut + 1
    PROVE  LostInv'
<1>1. \A d \in Cluster : Owned(d)' <=> Owned(d)
  BY DEF Owned, Start
<1>4. \A d : ~Busy(d)' /\ (Busy(d) => d = c)
  BY DEF Busy, NoOp
<1>2. Stray' = Stray \cup {c}
  BY <1>1, <1>4, Numbers DEF Stray
<1>3. c \notin Stray
  BY DEF Stray
<1> QED
  BY <1>2, <1>3, LostStep

LEMMA EntryLost ==
    ASSUME Shape, LostInv, fat16_create_dir_entry
    PROVE  LostInv'
<1>1. PICK name \in Names, b \in FileData, c \in Cluster \ {2, 3} :
              /\ op.step = "create" /\ op.cluster = c
              /\ fat[c] = EOC
              /\ \A i \in Slot : IsEntry(dir[i]) => Start(i) # c
              /\ c \in OnDisk => \A n \in 1..SectorsPerCluster : data[c][n] = SectorOf(b, n)
              /\ \/ UNCHANGED <<dir, given>> /\ cut' = cut + 1
                 \/ \E slot \in Slot : NewEntry(slot, name, c, b)
  BY EntryWritten
<1>2. UNCHANGED fat /\ op' = NoOp
  BY DEF fat16_create_dir_entry
<1>3. ~Owned(c) /\ Busy(c) /\ (\A d : Busy(d) => d = c) /\ (\A d : ~Busy(d)')
  BY <1>1, <1>2 DEF Owned, Busy, NoOp
<1>4. CASE UNCHANGED dir /\ cut' = cut + 1
  BY <1>1, <1>2, <1>3, <1>4, EndsLost
<1>5. ASSUME NEW slot \in Slot, NewEntry(slot, name, c, b) PROVE LostInv'
  <2>1. /\ \A i \in Slot : i # slot => dir'[i] = dir[i]
        /\ IsEntry(dir'[slot]) /\ dir'[slot].start_cluster = c
        /\ \A i \in Slot : IsEntry(dir'[i]) <=> i = slot \/ IsEntry(dir[i])
    BY <1>5, EntriesAfter DEF Shape
  <2>2. ~IsEntry(dir[slot]) /\ cut' = cut
    BY <1>5 DEF NewEntry
  <2>3. \A d : Owned(d)' <=> Owned(d) \/ d = c
    <3> SUFFICES ASSUME NEW d PROVE Owned(d)' <=> Owned(d) \/ d = c
      OBVIOUS
    <3>1. ASSUME NEW i \in Slot, IsEntry(dir'[i]), dir'[i].start_cluster = d
          PROVE  Owned(d) \/ d = c
      BY <2>1, <3>1 DEF Owned, Start
    <3>2. ASSUME NEW i \in Slot, IsEntry(dir[i]), Start(i) = d PROVE Owned(d)'
      BY <2>1, <2>2, <3>2 DEF Owned, Start
    <3>3. Owned(c)'
      BY <2>1 DEF Owned, Start
    <3> QED
      BY <3>1, <3>2, <3>3 DEF Owned, Start
  <2>4. Stray' = Stray
    BY <1>1, <1>2, <1>3, <2>3 DEF Stray
  <2> QED
    BY <2>2, <2>4, LostStep
<1> QED
  BY <1>1, <1>4, <1>5

\* A crash, or the end of a write.
LEMMA CrashLost == ASSUME Shape, LostInv, FCrash \/ write_returns PROVE LostInv'
<1>1. UNCHANGED <<fat, dir>> /\ op' = NoOp
  BY DEF FCrash, write_returns
<1>2. \A d \in Cluster : Owned(d)' <=> Owned(d)
  BY <1>1 DEF Owned, Start
<1>3. CASE op.step # "create"
  <2>1. cut' = cut
    BY <1>3 DEF FCrash, write_returns
  <2>2. \A d \in Cluster : ~Busy(d) /\ ~Busy(d)'
    BY <1>1, <1>3 DEF Busy, NoOp
  <2> QED
    BY <1>1, <1>2, <2>1, <2>2, LostSame
<1>4. CASE op.step = "create"
  <2>1. cut' = cut + 1
    BY <1>4 DEF FCrash, write_returns
  <2>2. Creating
    BY <1>4 DEF Shape, OpShape, Writing, NoOp, Hung
  <2>3. PICK c \in Cluster \ {2, 3} :
           op.cluster = c /\ fat[c] = EOC /\ \A i \in Slot : IsEntry(dir[i]) => Start(i) # c
    BY <2>2 DEF Creating
  <2>4. ~Owned(c) /\ Busy(c)
    BY <1>4, <2>3 DEF Owned, Busy
  <2> QED
    BY <1>1, <1>4, <2>1, <2>3, <2>4, EndsLost
<1> QED
  BY <1>3, <1>4

(***************************************************************************)
(* The invariant                                                           *)
(***************************************************************************)
IInv == Shape /\ FdInv /\ LostInv /\ Writer

LEMMA InitOK == ASSUME FInit PROVE IInv
<1>1. PICK name \in Names, b \in Bytes, second \in {END, DEL} :
        /\ fat = [c \in Cluster |-> CASE c = 2 -> 3 [] c = 3 -> EOC [] OTHER -> FREE]
        /\ dir = [i \in Slot |-> CASE i = 1 -> Entry(name, 2, 2 * SectorsPerCluster)
                                   [] i = 2 -> second
                                   [] OTHER -> END]
        /\ data = [c \in Cluster |-> [i \in 1..SectorsPerCluster |-> IF c < 4 THEN b ELSE Blank]]
        /\ op = NoOp
        /\ answer = "none"
        /\ given = [i \in Slot |-> IF i = 1 THEN [k \in 1..(2 * SectorsPerCluster) |-> b] ELSE << >>]
        /\ cut = 0
  BY Zenon DEF FInit, Init
<1>2. FatShape
  BY <1>1, Numbers DEF FatShape
<1>3. /\ DOMAIN dir = Slot
      /\ dir[1] = Entry(name, 2, 2 * SectorsPerCluster)
      /\ \A i \in Slot : i # 1 => dir[i] \in {END, DEL}
  BY <1>1, Numbers
<1>4. ~IsEntry(END) /\ ~IsEntry(DEL)
  BY Fat16Assumption DEF IsEntry, END, DEL, Entry, Marked
<1>5. IsEntry(dir[1]) /\ Start(1) = 2 /\ \A i \in Slot : i # 1 => ~IsEntry(dir[i])
  BY <1>3, <1>4 DEF IsEntry, Entry, Start
<1>6. DirShape
  <2>1. fat[2] # FREE /\ 2 \in Cluster \ {3}
    BY <1>2, Numbers DEF FatShape, FREE
  <2>2. \A j \in Slot : ~(j < 1)
    BY Numbers DEF Slot
  <2> QED
    BY <1>3, <1>5, <2>1, <2>2, Numbers DEF DirShape
<1>7. DataShape
  BY <1>1 DEF DataShape
<1>8. GivenHeld
  <2>1. DOMAIN given = Slot /\ given[1] = [k \in 1..(2 * SectorsPerCluster) |-> b]
    BY <1>1, Numbers
  <2>2. given[1] \in Seq(Bytes) /\ \A n \in 1..SectorsPerCluster : given[1][n] = b
    BY <2>1, Numbers
  <2>3. \A n \in 1..SectorsPerCluster : data[2][n] = b
    BY <1>1, Numbers
  <2> QED
    BY <1>5, <2>1, <2>2, <2>3 DEF GivenHeld
<1>9. Shape
  BY <1>1, <1>2, <1>6, <1>7, <1>8 DEF Shape, OpShape
<1>10. FdInv
  BY NoFds DEF FInit, AllClosed
<1>11. LostInv
  <2>1. \A c \in Cluster : fat[c] # FREE => Owned(c)
    <3>1. \A c \in Cluster : fat[c] # FREE => c = 2 \/ c = 3
      BY <1>1
    <3> QED
      BY <1>5, <3>1, Numbers DEF Owned
  <2>2. Stray = {}
    BY <2>1 DEF Stray
  <2> QED
    BY <1>1, <2>2, FS_EmptySet DEF LostInv
<1>12. Writer
  BY <1>1 DEF Writer, NoOp
<1> QED
  BY <1>9, <1>10, <1>11, <1>12 DEF IInv

\* A step without a write at its end needs no writer.
LEMMA NoWriter == ASSUME op' \in {NoOp, Hung} \/ op'.step = "create" PROVE Writer'
BY DEF Writer, NoOp, Hung

\* The three steps of a creation, with the descriptors left alone.
LEMMA CreateOK == ASSUME IInv, Create, UNCHANGED <<fds, heap>> PROVE IInv'
<1>1. Shape /\ FdInv /\ LostInv
  BY DEF IInv
<1>4. ASSUME NEW input \in Inputs, NEW bytes \in FileData, fat16_write_file(input, bytes)
      PROVE  IInv'
  <2>1. Kept
    BY <1>4 DEF fat16_write_file, Kept, Start
  <2>2. (op' = NoOp \/ op'.step = "create") /\ op # Hung
    BY <1>4 DEF fat16_write_file, NoOp, Hung
  <2>3. FdInv'
    BY <1>1, <2>1, <2>2, FdsSame
  <2> QED
    BY <1>1, <1>4, <2>2, <2>3, AllocShape, AllocLost, NoWriter DEF IInv
<1>5. CASE write_sector
  <2>1. Kept
    BY <1>5 DEF write_sector, Kept, Start
  <2>2. op'.step = "create"
    <3>1. op.step = "create" /\ op' = [op EXCEPT !.i = @ + 1]
      BY <1>5 DEF write_sector
    <3>2. Creating
      BY <1>1, <3>1 DEF Shape, OpShape, Writing, NoOp, Hung
    <3>3. PICK name, b, c, k :
             op = [step |-> "create", name |-> name, bytes |-> b, cluster |-> c, i |-> k]
      BY <3>2 DEF Creating
    <3> QED
      BY <3>1, <3>3
  <2>3. FdInv'
    <3>1. op # Hung
      BY <1>5 DEF write_sector, Hung
    <3> QED
      BY <1>1, <2>1, <3>1, FdsSame
  <2> QED
    BY <1>1, <1>5, <2>2, <2>3, SectorShape, SectorLost, NoWriter DEF IInv
<1>6. CASE fat16_create_dir_entry
  <2>1. op' = NoOp
    BY <1>6 DEF fat16_create_dir_entry
  <2>2. FdInv'
    <3>1. op # Hung /\ Kept
      BY <1>1, <1>6, EntryKept DEF fat16_create_dir_entry, Hung
    <3> QED
      BY <1>1, <3>1, FdsSame
  <2> QED
    BY <1>1, <1>6, <2>1, <2>2, EntryShape, EntryLost, NoWriter DEF IInv
<1> QED
  BY <1>4, <1>5, <1>6 DEF Create

\* The steps that leave the disk alone, and begin no operation.
LEMMA DiskSame ==
    ASSUME IInv, UNCHANGED <<fat, dir, data, given, cut>>, op = NoOp, op' \in {NoOp, Hung}
    PROVE  Shape' /\ LostInv' /\ Writer'
<1>1. Shape /\ LostInv
  BY DEF IInv
<1>2. \A c \in Cluster : Owned(c)' <=> Owned(c)
  BY DEF Owned, Start
<1>3. \A c \in Cluster : ~Busy(c)' /\ ~Busy(c)
  BY DEF Busy, NoOp, Hung
<1>4. LostInv'
  BY <1>1, <1>2, <1>3, LostSame
<1> QED
  BY <1>1, <1>4, SameShape, NoWriter

\* A write begins, with its descriptor as its writer.
LEMMA WriteOK ==
    ASSUME IInv, NEW p \in Procs, NEW fd \in Fd, NEW bytes \in FileData,
           handle_syscall_write(p, fd, bytes)
    PROVE  IInv'
<1>1. Shape /\ FdInv /\ FdShape /\ LostInv
  BY DEF IInv, FdInv
<1> DEFINE f == fds[p][fd]
           b == SubSeq(bytes, 1, IF Len(bytes) < Len(f.data) THEN Len(bytes) ELSE Len(f.data))
           d == [n \in DOMAIN f.data |->
                   IF n <= (IF Len(bytes) < Len(f.data) THEN Len(bytes) ELSE Len(f.data))
                   THEN bytes[n] ELSE f.data[n]]
<1>2. /\ op = NoOp /\ UNCHANGED <<fat, dir, cut>>
      /\ op' = [step |-> "write", by |-> <<p, fd>>, bytes |-> b,
                cluster |-> f.start_cluster, i |-> 1]
      /\ fds' = [fds EXCEPT ![p][fd].data = d]
  BY DEF handle_syscall_write
<1> HIDE DEF b, d
<1>3. LostInv'
  <2>1. \A c \in Cluster : Owned(c)' <=> Owned(c)
    BY <1>2 DEF Owned, Start
  <2>2. \A c \in Cluster : ~Busy(c)' /\ ~Busy(c)
    BY <1>2 DEF Busy, NoOp
  <2> QED
    BY <1>1, <1>2, <2>1, <2>2, LostSame
<1>4. Writer'
  <2>1. fds'[p][fd].start_cluster = f.start_cluster
    <3>1. fds' = [fds EXCEPT ![p] = [fds[p] EXCEPT ![fd] = [f EXCEPT !.data = d]]]
      BY <1>2
    <3>2. fds'[p][fd] = [f EXCEPT !.data = d] /\ FdRecord(f)
      BY <1>1, <3>1 DEF FdShape
    <3> HIDE DEF f
    <3> QED
      BY <3>2 DEF FdRecord
  <2>2. FdOf(<<p, fd>>)' = fds'[p][fd]
    BY DEF FdOf
  <2>3. op'.by = <<p, fd>> /\ op'.cluster = f.start_cluster
    BY <1>2
  <2> QED
    BY <2>1, <2>2, <2>3 DEF Writer, FdOf
<1> QED
  BY <1>1, <1>3, <1>4, WriteShape, WriteFds DEF IInv

\* The rest of a write leaves the descriptors alone.
LEMMA WritingOK == ASSUME IInv, write_file \/ write_returns PROVE IInv'
<1>1. Shape /\ FdInv /\ LostInv /\ Writer
  BY DEF IInv
<1>2. UNCHANGED <<fds, heap, dir>> /\ Kept /\ op # Hung
  BY DEF write_file, write_returns, Kept, Start, Hung
<1>3. CASE write_file
  <2>1. op.step = "write" /\ op' = [op EXCEPT !.i = @ + 1]
    BY <1>3 DEF write_file
  <2>2. PICK c, k :
           op = [step |-> "write", by |-> op.by, bytes |-> op.bytes, cluster |-> c, i |-> k]
    BY <1>1, <2>1, WriteOp DEF Writing
  <2>3. op'.step = "write" /\ op'.by = op.by /\ op'.cluster = op.cluster
    BY <2>1, <2>2
  <2>4. FdInv'
    BY <1>1, <1>2, FdsSame
  <2>5. Writer'
    BY <1>1, <1>2, <2>1, <2>3 DEF Writer, FdOf
  <2> QED
    BY <1>1, <1>3, <2>4, <2>5, WrittenShape, SectorLost DEF IInv
<1>4. CASE write_returns
  <2>1. op' = NoOp
    BY <1>4 DEF write_returns
  <2>2. Shape'
    BY <1>1, <1>4, SameShape DEF write_returns
  <2>3. FdInv'
    BY <1>1, <1>2, FdsSame
  <2> QED
    BY <1>1, <1>4, <2>1, <2>2, <2>3, CrashLost, NoWriter DEF IInv
<1> QED
  BY <1>3, <1>4

LEMMA CrashOK == ASSUME IInv, FCrash PROVE IInv'
<1>1. Shape /\ LostInv /\ op' = NoOp
  BY DEF IInv, FCrash
<1>2. Shape'
  BY <1>1, SameShape DEF FCrash
<1>3. AllClosed'
  BY DEF FCrash, AllClosed
<1>4. FdInv'
  BY <1>3, NoFds, PTL
<1> QED
  BY <1>1, <1>2, <1>4, CrashLost, NoWriter DEF IInv

\* IInv is inductive: one case per disk write, system call and crash.
THEOREM IInvInductive == IInv /\ [FNext]_fvars => IInv'
<1> SUFFICES ASSUME IInv, [FNext]_fvars PROVE IInv'
  OBVIOUS
<1>1. Shape /\ FdInv /\ LostInv
  BY DEF IInv
<1>2. CASE Create /\ UNCHANGED <<fds, heap>>
  BY <1>2, CreateOK
<1>3. ASSUME NEW p \in Procs, NEW input \in Inputs, handle_syscall_open(p, input) PROVE IInv'
  <2>1. UNCHANGED <<fat, dir, data, given, cut>> /\ op = NoOp /\ op' \in {NoOp, Hung}
    BY <1>3 DEF handle_syscall_open
  <2> QED
    BY <1>1, <1>3, <2>1, OpenFdsOK, DiskSame DEF IInv
<1>4. ASSUME NEW p \in Procs, NEW fd \in Fd, NEW len \in ReadLens, handle_syscall_read(p, fd, len)
      PROVE  IInv'
  <2>1. UNCHANGED <<fat, dir, data, given, cut>> /\ op = NoOp /\ op' = NoOp
    BY <1>4 DEF handle_syscall_read
  <2> QED
    BY <1>1, <1>4, <2>1, ReadFds, DiskSame DEF IInv
<1>5. ASSUME NEW p \in Procs, NEW fd \in Fd, NEW bytes \in FileData,
             handle_syscall_write(p, fd, bytes)
      PROVE  IInv'
  BY <1>5, WriteOK
<1>6. CASE write_file \/ write_returns
  BY <1>6, WritingOK
<1>7. ASSUME NEW p \in Procs, NEW fd \in Fd, handle_syscall_close(p, fd) PROVE IInv'
  <2>1. UNCHANGED <<fat, dir, data, given, cut>> /\ op = NoOp /\ op' = NoOp
    BY <1>7 DEF handle_syscall_close
  <2> QED
    BY <1>1, <1>7, <2>1, CloseFds, DiskSame DEF IInv
<1>8. ASSUME NEW p \in Procs, scheduler_remove(p) PROVE IInv'
  <2>1. UNCHANGED <<fat, dir, data, given, cut>> /\ op = NoOp /\ op' = NoOp
    BY <1>8 DEF scheduler_remove
  <2> QED
    BY <1>1, <1>8, <2>1, RemoveFds, DiskSame DEF IInv
<1>9. CASE FCrash
  BY <1>9, CrashOK
<1>10. CASE UNCHANGED fvars
  <2>1. UNCHANGED <<fat, dir, data, op, given, cut, fds, heap>>
    BY <1>10 DEF fvars
  <2>2. FdInv'
    <3>1. Kept
      BY <2>1 DEF Kept, Start
    <3> QED
      BY <1>1, <2>1, <3>1, FdsSame
  <2>3. LostInv'
    <3>1. \A c \in Cluster : (Owned(c)' <=> Owned(c)) /\ (Busy(c)' <=> Busy(c))
      BY <2>1 DEF Owned, Start, Busy
    <3> QED
      BY <1>1, <2>1, <3>1, LostSame
  <2>4. Writer'
    BY <2>1 DEF IInv, Writer, FdOf
  <2> QED
    BY <1>1, <2>1, <2>2, <2>3, <2>4, SameShape DEF IInv
<1> QED
  BY <1>2, <1>3, <1>4, <1>5, <1>6, <1>7, <1>8, <1>9, <1>10 DEF FNext

(***************************************************************************)
(* The properties                                                          *)
(***************************************************************************)
LEMMA ApartOK == IInv => NoCrossLinks
<1> SUFFICES ASSUME IInv PROVE NoCrossLinks
  OBVIOUS
<1>1. FatShape /\ DirShape
  BY DEF IInv, Shape
<1>2. /\ Listed = {i \in Slot : IsEntry(dir[i])}
      /\ \A i \in Slot : IsEntry(dir[i]) =>
            Clusters(i) = IF Start(i) = 2 THEN {2, 3} ELSE {Start(i)}
  BY <1>1, ListedIs, ClustersIs
<1>3. \A i \in Listed : Start(i) # 3 /\ Start(i) \in Cluster /\ fat[Start(i)] # FREE
  BY <1>1, <1>2 DEF DirShape
<1>4. ASSUME NEW i \in Listed, NEW j \in Listed, i # j PROVE Clusters(i) \cap Clusters(j) = {}
  <2>1. Start(i) # Start(j)
    BY <1>1, <1>2, <1>4 DEF DirShape
  <2> QED
    BY <1>2, <1>3, <2>1
<1>5. fat[2] = 3 /\ fat[3] = EOC /\ 3 # FREE /\ EOC # FREE
  BY <1>1, Numbers DEF FatShape, FREE
<1>6. ASSUME NEW i \in Listed
      PROVE  /\ \A c \in Clusters(i) : c \in Cluster /\ fat[c] # FREE
             /\ \E c \in Clusters(i) : fat[c] = EOC
  <2>1. CASE Start(i) = 2
    BY <1>2, <1>5, <2>1, Numbers
  <2>2. CASE Start(i) # 2
    <3>1. fat[Start(i)] = EOC
      BY <1>1, <1>3, <2>2 DEF FatShape
    <3> QED
      BY <1>2, <1>3, <2>2, <3>1
  <2> QED
    BY <2>1, <2>2
<1> QED
  BY <1>4, <1>6 DEF NoCrossLinks

\* The first sectors that fat16_read_file returns are those of the first
\* cluster.
LEMMA ReadStart ==
    ASSUME FatShape, NEW e, e.start_cluster \in Cluster, fat[e.start_cluster] # FREE
    PROVE  LET r == fat16_read_file(e)
           IN  /\ r = [n \in 1..Len(r) |-> r[n]]
               /\ Len(r) \in Nat /\ Len(r) >= SectorsPerCluster
               /\ \A n \in 1..SectorsPerCluster : r[n] = data[e.start_cluster][n]
<1> DEFINE c == e.start_cluster
           chain == Chain(c)
           m == Len(chain) * SectorsPerCluster
           at(n) == ata_read_sector(chain[((n - 1) \div SectorsPerCluster) + 1],
                                    ((n - 1) % SectorsPerCluster) + 1)
           r == fat16_read_file(e)
<1>1. r = [n \in 1..m |-> at(n)]
  BY DEF fat16_read_file
<1>2. chain = IF c = 2 THEN << 2, 3 >> ELSE << c >>
  BY ChainIs
<1>3. chain[1] = c /\ Len(chain) \in {1, 2}
  <2>1. << 2, 3 >>[1] = 2 /\ Len(<< 2, 3 >>) = 2 /\ << c >>[1] = c /\ Len(<< c >>) = 1
    OBVIOUS
  <2> QED
    BY <1>2, <2>1
<1>4. m \in Nat /\ m >= SectorsPerCluster
  <2>1. 1 * SectorsPerCluster = SectorsPerCluster
        /\ 2 * SectorsPerCluster = SectorsPerCluster + SectorsPerCluster
    BY Numbers
  <2>2. m \in {1 * SectorsPerCluster, 2 * SectorsPerCluster}
    BY <1>3
  <2> HIDE DEF m
  <2> QED
    BY <2>1, <2>2, Numbers
<1>5. ASSUME NEW n \in 1..SectorsPerCluster PROVE at(n) = data[c][n]
  <2>1. (n - 1) \div SectorsPerCluster = 0 /\ (n - 1) % SectorsPerCluster = n - 1
    <3>1. ASSUME NEW x \in Nat, NEW y \in Nat \ {0}, x < y PROVE x \div y = 0 /\ x % y = x
      BY <3>1
    <3>2. n - 1 \in Nat /\ n - 1 < SectorsPerCluster /\ SectorsPerCluster \in Nat \ {0}
      BY Numbers
    <3> QED
      BY <3>1, <3>2
  <2>2. 0 + 1 = 1 /\ (n - 1) + 1 = n
    BY Numbers
  <2>3. at(n) = ata_read_sector(c, n)
    BY <1>3, <2>1, <2>2
  <2> QED
    BY <2>3, Numbers DEF ata_read_sector
<1> HIDE DEF m, at, r
<1>6. Len(r) = m
  BY <1>1, <1>4
<1>7. \A n \in 1..SectorsPerCluster : r[n] = data[c][n]
  BY <1>1, <1>4, <1>5, Numbers
<1>8. r = [n \in 1..Len(r) |-> r[n]]
  BY <1>1, <1>6
<1> QED
  BY <1>4, <1>6, <1>7, <1>8 DEF r

\* The first m elements of a sequence.
SubsStart(q, m, S) ==
    /\ SubSeq(q, 1, m) \in Seq(S)
    /\ Len(SubSeq(q, 1, m)) = m
    /\ \A n \in 1..m : SubSeq(q, 1, m)[n] = q[n]

LEMMA StartOfSeq ==
    ASSUME NEW q, NEW m \in Nat, NEW S, \A n \in 1..m : q[n] \in S
    PROVE  SubsStart(q, m, S)
<1>1. /\ SubSeq(q, 1, m) \in Seq(S)
      /\ Len(SubSeq(q, 1, m)) = IF 1 <= m THEN m - 1 + 1 ELSE 0
      /\ \A n \in 1..(m - 1 + 1) : SubSeq(q, 1, m)[n] = q[1 + n - 1]
  BY SubSeqProperties
<1>2. m - 1 + 1 = m /\ (m = 0 \/ 1 <= m) /\ \A n \in 1..m : 1 + n - 1 = n
  OBVIOUS
<1> QED
  BY <1>1, <1>2 DEF SubsStart

LEMMA CompleteOK == IInv => EntriesComplete
<1> SUFFICES ASSUME IInv, NEW i \in Slot, IsEntry(dir[i]), dir[i].start_cluster \in OnDisk
             PROVE  IsPrefix(Prefix(given[i], SectorsPerCluster), fat16_read_file(dir[i]))
  BY DEF EntriesComplete
<1> DEFINE g == given[i]
           s == SectorsPerCluster
           r == fat16_read_file(dir[i])
           m == IF s < Len(g) THEN s ELSE Len(g)
           f == SubSeq(g, 1, m)
<1>1. FatShape /\ Start(i) \in Cluster /\ fat[Start(i)] # FREE
  BY DEF IInv, Shape, DirShape
<1>2. /\ g \in Seq(Bytes)
      /\ \A n \in 1..s : n <= Len(g) => data[Start(i)][n] = g[n]
  BY DEF IInv, Shape, GivenHeld, Start
<1>3. /\ Len(r) \in Nat /\ Len(r) >= s
      /\ \A n \in 1..s : r[n] = data[Start(i)][n]
  <2>1. dir[i].start_cluster \in Cluster /\ fat[dir[i].start_cluster] # FREE
    BY <1>1 DEF Start
  <2>2. /\ Len(r) \in Nat /\ Len(r) >= s
        /\ \A n \in 1..s : r[n] = data[dir[i].start_cluster][n]
    BY <1>1, <2>1, ReadStart
  <2> QED
    BY <2>2 DEF Start
<1>4. s \in Nat
  BY Numbers
<1> HIDE DEF g, s, r
<1>5. Len(g) \in Nat /\ m \in Nat /\ m <= s /\ m <= Len(g)
  BY <1>2, <1>4
<1> HIDE DEF m
<1>6. f \in Seq(Bytes) /\ Len(f) = m /\ \A n \in 1..m : f[n] = g[n]
  <2>1. \A n \in 1..m : g[n] \in Bytes
    BY <1>2, <1>5
  <2>2. SubsStart(g, m, Bytes)
    BY <1>5, <2>1, StartOfSeq
  <2> QED
    BY <2>2 DEF SubsStart
<1>7. ASSUME NEW n \in 1..m PROVE f[n] = r[n]
  <2>1. n \in 1..s /\ n <= Len(g)
    BY <1>4, <1>5
  <2>2. g[n] = data[Start(i)][n] /\ r[n] = data[Start(i)][n]
    BY <1>2, <1>3, <2>1
  <2> QED
    BY <1>6, <2>2
<1>8. IsPrefix(f, r)
  <2> HIDE DEF f
  <2>1. Len(f) <= Len(r)
    BY <1>3, <1>4, <1>5, <1>6
  <2>2. \A n \in 1..m : f[n] \in Bytes /\ r[n] \in Bytes
    BY <1>6, <1>7
  <2>3. SubsStart(f, m, Bytes) /\ SubsStart(r, m, Bytes)
    BY <1>5, <2>2, StartOfSeq
  <2>4. SubSeq(f, 1, m) = SubSeq(r, 1, m)
    <3> DEFINE a == SubSeq(f, 1, m)
               b == SubSeq(r, 1, m)
    <3>1. /\ a \in Seq(Bytes) /\ Len(a) = m /\ b \in Seq(Bytes) /\ Len(b) = m
          /\ \A n \in 1..m : a[n] = b[n]
      BY <1>7, <2>3 DEF SubsStart
    <3> HIDE DEF a, b
    <3>2. a = b
      BY <3>1, SeqEqual
    <3> QED
      BY <3>2 DEF a, b
  <2> QED
    BY <1>6, <2>1, <2>4 DEF IsPrefix
<1> QED
  BY <1>8 DEF Prefix, g, s, r, m

LEMMA CountsOK == IInv => BuffersOwned /\ LosesOnePerCut
<1> SUFFICES ASSUME IInv PROVE BuffersOwned /\ LosesOnePerCut
  OBVIOUS
<1>1. BuffersOwned
  BY DEF IInv, FdInv
<1>2. LosesOnePerCut
  BY LostIs DEF IInv, LostInv, LosesOnePerCut
<1> QED
  BY <1>1, <1>2

\* What a step of a write changes.
OwnFileStep ==
    op.step = "write" =>
        LET start == FdOf(op.by).start_cluster
        IN  /\ UNCHANGED <<fat, dir>>
            /\ \A c \in Cluster : data'[c] # data[c] => c = start
            /\ \A i \in Listed : dir[i].start_cluster # start =>
                  \A c \in Clusters(i) : data'[c] = data[c]

LEMMA OwnFileOK == ASSUME IInv, [FNext]_fvars PROVE [OwnFileStep]_fvars
<1> SUFFICES ASSUME op.step = "write", FNext PROVE OwnFileStep
  BY DEF OwnFileStep
<1>1. FatShape /\ DirShape /\ DataShape /\ Shape
  BY DEF IInv, Shape
<1>2. PICK d \in Cluster, k \in 1..(SectorsPerCluster + 1), j \in Slot :
        /\ op = [step |-> "write", by |-> op.by, bytes |-> op.bytes, cluster |-> d, i |-> k]
        /\ IsEntry(dir[j]) /\ Start(j) = d
  BY <1>1, WriteOp DEF Writing
<1>3. op.cluster = d /\ FdOf(op.by).start_cluster = d
  <2>1. op.cluster = d
    BY <1>2
  <2> QED
    BY <2>1 DEF IInv, Writer
<1>4. op # NoOp /\ op.step # "create"
  BY DEF NoOp
<1>5. UNCHANGED <<fat, dir>>
  BY <1>4 DEF FNext, Create, fat16_write_file, write_sector, fat16_create_dir_entry,
     handle_syscall_open, handle_syscall_read, handle_syscall_write, write_file,
     write_returns, handle_syscall_close, scheduler_remove, FCrash
<1>6. data' = data \/ \E v : data' = ata_write_sector(d, op.i, v)
  BY <1>3, <1>4 DEF FNext, Create, fat16_write_file, write_sector, fat16_create_dir_entry,
     handle_syscall_open, handle_syscall_read, handle_syscall_write, write_file,
     write_returns, handle_syscall_close, scheduler_remove, FCrash
<1>7. \A c \in Cluster : c # d => data'[c] = data[c]
  <2>1. ASSUME NEW v, data' = ata_write_sector(d, op.i, v), NEW c \in Cluster, c # d
        PROVE  data'[c] = data[c]
    BY <1>1, <2>1 DEF DataShape, ata_write_sector
  <2> QED
    BY <1>6, <2>1
<1>8. ASSUME NEW i \in Listed, dir[i].start_cluster # d, NEW c \in Clusters(i)
      PROVE  data'[c] = data[c]
  <2>1. i \in Slot /\ IsEntry(dir[i])
    BY <1>1, ListedIs
  <2>2. Clusters(i) = IF Start(i) = 2 THEN {2, 3} ELSE {Start(i)}
    BY <1>1, <2>1, ClustersIs
  <2>3. Start(i) # d /\ d # 3
    BY <1>1, <1>2, <1>8 DEF Start, DirShape
  <2>4. Start(i) \in Cluster
    BY <1>1, <2>1 DEF DirShape
  <2>5. c # d /\ c \in Cluster
    BY <2>2, <2>3, <2>4, Numbers
  <2> QED
    BY <1>7, <2>5
<1> QED
  BY <1>3, <1>5, <1>7, <1>8 DEF OwnFileStep

\* Whatever disk write a crash comes after, no two files share a cluster, no
\* file uses a free one and every chain ends.
THEOREM ChainsApart == FSpec => []NoCrossLinks
<1>1. FInit => IInv
  BY InitOK
<1> QED
  BY <1>1, IInvInductive, ApartOK, PTL DEF FSpec

\* An entry in the directory is never one of a file that was written in part.
THEOREM FilesComplete == FSpec => []EntriesComplete
<1>1. FInit => IInv
  BY InitOK
<1> QED
  BY <1>1, IInvInductive, CompleteOK, PTL DEF FSpec

\* The clusters in use that nobody owns are as many as the creations that
\* ended without an entry.
THEOREM NothingElseLost == FSpec => []LosesOnePerCut
<1>1. FInit => IInv
  BY InitOK
<1>2. IInv => LosesOnePerCut
  BY CountsOK
<1> QED
  BY <1>1, <1>2, IInvInductive, PTL DEF FSpec

\* Every block open allocates is owned by one open descriptor: open at the
\* limit of descriptors, close and the end of a process leak none and release
\* none twice.
THEOREM NoBufferLeaks == FSpec => []BuffersOwned
<1>1. FInit => IInv
  BY InitOK
<1>2. IInv => BuffersOwned
  BY CountsOK
<1> QED
  BY <1>1, <1>2, IInvInductive, PTL DEF FSpec

\* A write through a descriptor changes sectors of the first cluster of the
\* file it was opened for and nothing else on the disk.
THEOREM WritesStayInFile == FSpec => WritesOwnFile
<1>1. FInit => IInv
  BY InitOK
<1>2. IInv /\ [FNext]_fvars => [OwnFileStep]_fvars
  BY OwnFileOK
<1> QED
  BY <1>1, <1>2, IInvInductive, PTL DEF FSpec, WritesOwnFile, OwnFileStep

(***************************************************************************)
(* The listing                                                             *)
(***************************************************************************)
\* One turn of the loop of fat16_read_folder.
FolderBody(g, i) ==
    IF i = 0 THEN << >>
    ELSE IF i \in Listed THEN Append(g[i - 1], dir[i]) ELSE g[i - 1]

\* The loop can be run over any number of slots ...
LEMMA FolderRuns == \E g : g = [i \in 0..RootEntries |-> FolderBody(g, i)]
<1> DEFINE n == RootEntries
           S == {k \in 0..n : \E g : g = [i \in 0..k |-> FolderBody(g, i)]}
<1>1. n \in Nat
  BY Numbers
<1> HIDE DEF n
<1>2. 0 \in S
  <2> DEFINE g == [i \in 0..0 |-> << >>]
  <2>1. g = [i \in 0..0 |-> FolderBody(g, i)]
    BY DEF FolderBody
  <2> QED
    BY <1>1, <2>1
<1>3. ASSUME NEW k \in 0..(n - 1), k \in S PROVE k + 1 \in S
  <2>1. PICK g : g = [i \in 0..k |-> FolderBody(g, i)]
    BY <1>3
  <2> DEFINE h == [i \in 0..(k + 1) |-> IF i <= k THEN g[i] ELSE FolderBody(g, k + 1)]
  <2>2. ASSUME NEW i \in 0..(k + 1) PROVE h[i] = FolderBody(h, i)
    <3>1. i # 0 => i - 1 \in 0..(k + 1) /\ i - 1 <= k
      BY <1>1
    <3>2. i # 0 => h[i - 1] = g[i - 1]
      BY <3>1
    <3>3. FolderBody(h, i) = FolderBody(g, i)
      <4> HIDE DEF h
      <4> QED
        BY <3>2 DEF FolderBody
    <3>4. CASE i <= k
      <4>1. i \in 0..k /\ h[i] = g[i]
        BY <1>1, <3>4
      <4>2. g[i] = FolderBody(g, i)
        BY <2>1, <4>1
      <4> QED
        BY <3>3, <4>1, <4>2
    <3>5. CASE ~(i <= k)
      <4>1. i = k + 1
        BY <1>1, <3>5
      <4>2. h[i] = FolderBody(g, k + 1)
        BY <3>5
      <4> QED
        BY <3>3, <4>1, <4>2
    <3> QED
      BY <3>4, <3>5
  <2>3. h = [i \in 0..(k + 1) |-> h[i]]
    OBVIOUS
  <2> HIDE DEF h
  <2>4. h = [i \in 0..(k + 1) |-> FolderBody(h, i)]
    BY <2>2, <2>3
  <2>5. k + 1 \in 0..n
    BY <1>1
  <2> QED
    BY <2>4, <2>5
<1>4. 0..n \subseteq S
  <2> HIDE DEF S
  <2> QED
    BY <1>1, <1>2, <1>3, Interval
<1>5. n \in S
  BY <1>1, <1>4
<1> QED
  BY <1>5 DEF n

\* ... and after k slots has one entry for each that is listed.
LEMMA FolderLength == Len(fat16_read_folder) = Cardinality(Listed)
<1> DEFINE n == RootEntries
           G == CHOOSE g : g = [i \in 0..n |-> FolderBody(g, i)]
           E == {dir[i] : i \in Slot}
           Upto(k) == {i \in Listed : i <= k}
           S == {k \in 0..n : /\ G[k] \in Seq(E) /\ IsFiniteSet(Upto(k))
                              /\ Len(G[k]) = Cardinality(Upto(k))}
<1>1. n \in Nat /\ Slot = 1..n /\ Listed \subseteq Slot
  BY Numbers DEF Slot, Listed
<1>8. \A i \in Listed : i \in Nat /\ 1 <= i /\ i <= n
  <2> HIDE DEF n
  <2> QED
    BY <1>1
<1>2. fat16_read_folder = G[n]
  BY DEF fat16_read_folder, FolderBody
<1>3. G = [i \in 0..n |-> FolderBody(G, i)]
  BY FolderRuns
<1> HIDE DEF n, G
<1>4. 0 \in S
  <2>1. Upto(0) = {}
    BY <1>8
  <2>2. G[0] = << >>
    BY <1>1, <1>3 DEF FolderBody
  <2>3. 0 \in 0..n /\ << >> \in Seq(E) /\ Len(<< >>) = 0
    BY <1>1
  <2>4. IsFiniteSet({}) /\ Cardinality({}) = 0
    BY FS_EmptySet
  <2> HIDE DEF Upto, E
  <2> QED
    BY <2>1, <2>2, <2>3, <2>4
<1>5. ASSUME NEW k \in 0..(n - 1), k \in S PROVE k + 1 \in S
  <2>1. k + 1 \in 1..n /\ k + 1 \in 0..n /\ k + 1 # 0 /\ k + 1 - 1 = k
    BY <1>1
  <2>2. G[k + 1] = IF k + 1 \in Listed THEN Append(G[k], dir[k + 1]) ELSE G[k]
    <3>1. G[k + 1] = FolderBody(G, k + 1)
      BY <1>3, <2>1
    <3> QED
      BY <2>1, <3>1 DEF FolderBody
  <2>3. G[k] \in Seq(E) /\ IsFiniteSet(Upto(k)) /\ Len(G[k]) = Cardinality(Upto(k))
    BY <1>5
  <2>4. CASE k + 1 \in Listed
    <3>1. Upto(k + 1) = Upto(k) \cup {k + 1} /\ k + 1 \notin Upto(k)
      <4>1. \A i \in Nat : i <= k + 1 <=> i <= k \/ i = k + 1
        BY <1>1
      <4>2. ~(k + 1 <= k)
        BY <1>1
      <4> QED
        BY <1>8, <2>4, <4>1, <4>2
    <3>2. IsFiniteSet(Upto(k + 1)) /\ Cardinality(Upto(k + 1)) = Cardinality(Upto(k)) + 1
      <4> DEFINE U == Upto(k)
      <4> HIDE DEF Upto, U
      <4>1. IsFiniteSet(U \cup {k + 1}) /\ Cardinality(U \cup {k + 1}) = Cardinality(U) + 1
        BY <2>3, <3>1, FS_AddElement DEF U
      <4> QED
        BY <3>1, <4>1 DEF U
    <3>3. dir[k + 1] \in E
      BY <1>1, <2>1
    <3> HIDE DEF E, Upto
    <3>4. /\ Append(G[k], dir[k + 1]) \in Seq(E)
          /\ Len(Append(G[k], dir[k + 1])) = Len(G[k]) + 1
      BY <2>3, <3>3, AppendProperties
    <3> QED
      BY <2>1, <2>2, <2>3, <2>4, <3>2, <3>4
  <2>5. CASE k + 1 \notin Listed
    <3>1. Upto(k + 1) = Upto(k)
      <4>1. \A i \in Nat : i <= k + 1 <=> i <= k \/ i = k + 1
        BY <1>1
      <4> QED
        BY <1>8, <2>5, <4>1
    <3> QED
      BY <2>1, <2>2, <2>3, <2>5, <3>1
  <2> QED
    BY <2>4, <2>5
<1>6. 0..n \subseteq S
  <2> HIDE DEF S
  <2> QED
    BY <1>1, <1>4, <1>5, Interval
<1>7. n \in S /\ Upto(n) = Listed
  <2>1. n \in S
    <3> HIDE DEF S
    <3> QED
      BY <1>1, <1>6
  <2>2. Upto(n) = Listed
    BY <1>8
  <2> QED
    BY <2>1, <2>2
<1> QED
  BY <1>2, <1>7

LEMMA ListingOK == IInv => EntriesListed
<1> SUFFICES ASSUME IInv PROVE EntriesListed
  OBVIOUS
<1>1. Listed = {i \in Slot : IsEntry(dir[i])}
  BY ListedIs DEF IInv, Shape
<1>2. ASSUME NEW i \in Slot, NEW input \in Inputs, IsEntry(dir[i]),
             fat16_format_name(input) = dir[i].name
      PROVE  fat16_find_file(input) \in 1..i
  <2> DEFINE found == {j \in Listed : dir[j].name = fat16_format_name(input)}
  <2>2. i \in found
    BY <1>1, <1>2
  <2>3. found \in SUBSET Nat /\ found \subseteq Slot
    BY <1>1, Numbers
  <2>4. fat16_find_file(input) = Least(found)
    BY <2>2 DEF fat16_find_file
  <2> HIDE DEF found
  <2>5. Least(found) \in found /\ Least(found) <= i
    BY <2>2, <2>3, LeastInSet
  <2>6. Least(found) \in 1..i
    <3> DEFINE m == Least(found)
    <3>1. m \in Slot /\ m <= i
      BY <2>3, <2>5
    <3> HIDE DEF m
    <3>2. m \in 1..i
      BY <3>1, Numbers DEF Slot
    <3> QED
      BY <3>2 DEF m
  <2> QED
    BY <2>4, <2>6
<1> QED
  BY <1>1, <1>2, FolderLength DEF EntriesListed

\* The listing and the search see every entry that was written.
THEOREM NothingHidden == FSpec => []EntriesListed
<1>1. FInit => IInv
  BY InitOK
<1> QED
  BY <1>1, IInvInductive, ListingOK, PTL DEF FSpec
=============================================================================
