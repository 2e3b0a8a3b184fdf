--------------------------- MODULE DesktopProofs ---------------------------
(***************************************************************************)
(* What programs get from the desktop, and what they show on it.  First    *)
(* EventQueue: the ring of a window implements a bounded queue, for every  *)
(* size.  Then Graphics: the picture, for every size of screen and         *)
(* windows, any number of windows at any place and every drawing call.     *)
(***************************************************************************)
EXTENDS EventQueue, Graphics, TLAPS, WellFoundedInduction

\* One wrap of an index below twice the size of the ring.
LEMMA Wrap ==
    ASSUME NEW n \in Nat \ {0}, NEW x \in 0..(2 * n - 1)
    PROVE  x % n = IF x < n THEN x ELSE x - n
<1> DEFINE q == x \div n
           r == x % n
<1>1. q \in Int /\ r \in 0..(n - 1) /\ x = n * q + r
  OBVIOUS
<1> HIDE DEF q, r
<1>2. n * q <= 2 * n - 1 /\ n * q > -n
  BY <1>1
<1>3. q = 0 \/ q = 1
  <2>1. q < 2
    <3> SUFFICES ASSUME q >= 2 PROVE FALSE
      BY <1>1
    <3> QED
      BY <1>1, <1>2
  <2>2. q > -1
    BY <1>1, <1>2
  <2> QED
    BY <1>1, <2>1, <2>2
<1>4. CASE q = 0
  BY <1>1, <1>4 DEF r
<1>5. CASE q = 1
  BY <1>1, <1>5 DEF r
<1> QED
  BY <1>3, <1>4, <1>5

LEMMA WrapSlot ==
    ASSUME NEW t \in Slot, NEW k \in 0..QUEUE_SIZE
    PROVE  /\ (t + k) % QUEUE_SIZE = IF t + k < QUEUE_SIZE THEN t + k ELSE t + k - QUEUE_SIZE
           /\ (t + k) % QUEUE_SIZE \in Slot
<1>1. QUEUE_SIZE \in Nat \ {0} /\ t \in Nat /\ k \in Nat /\ t + k \in 0..(2 * QUEUE_SIZE - 1)
  BY EventQueueAssumption DEF Slot
<1>2. (t + k) % QUEUE_SIZE = IF t + k < QUEUE_SIZE THEN t + k ELSE t + k - QUEUE_SIZE
  <2>1. PICK x \in 0..(2 * QUEUE_SIZE - 1) : x = t + k
    BY <1>1
  <2>2. x % QUEUE_SIZE = IF x < QUEUE_SIZE THEN x ELSE x - QUEUE_SIZE
    BY <1>1, Wrap
  <2> QED
    BY <1>1, <2>1, <2>2
<1> QED
  BY <1>1, <1>2 DEF Slot

LEMMA InitIndices == ASSUME Init PROVE IndicesAgree
<1>1. 0 \in Slot
  BY EventQueueAssumption DEF Slot
<1>2. (0 + 0) % QUEUE_SIZE = 0
  BY <1>1, WrapSlot, EventQueueAssumption
<1> QED
  BY <1>1, <1>2, EventQueueAssumption DEF Init, IndicesAgree

\* A push into a queue that has room.
LEMMA PushIndices ==
    ASSUME IndicesAgree, NEW e \in Event, event_queue_push(e), size < QUEUE_SIZE
    PROVE  /\ IndicesAgree'
           /\ events' = [events EXCEPT ![head_index] = e]
           /\ size' = size + 1
           /\ UNCHANGED <<tail_index, event>>
<1>1. /\ events' = [events EXCEPT ![head_index] = e]
      /\ head_index' = (head_index + 1) % QUEUE_SIZE
      /\ size' = size + 1
      /\ UNCHANGED <<tail_index, event>>
  BY EventQueueAssumption DEF event_queue_push, IndicesAgree
<1>2. QUEUE_SIZE \in Nat \ {0} /\ tail_index \in Slot /\ head_index \in Slot
      /\ size \in 0..QUEUE_SIZE /\ size + 1 \in 0..QUEUE_SIZE /\ 1 \in 0..QUEUE_SIZE
  BY EventQueueAssumption DEF IndicesAgree
<1>3. (head_index + 1) % QUEUE_SIZE = (tail_index + (size + 1)) % QUEUE_SIZE
  <2>1. head_index = IF tail_index + size < QUEUE_SIZE THEN tail_index + size
                     ELSE tail_index + size - QUEUE_SIZE
    BY <1>2, WrapSlot DEF IndicesAgree
  <2>2. (head_index + 1) % QUEUE_SIZE = IF head_index + 1 < QUEUE_SIZE THEN head_index + 1
                                        ELSE head_index + 1 - QUEUE_SIZE
    BY <1>2, WrapSlot
  <2>3. (tail_index + (size + 1)) % QUEUE_SIZE =
           IF tail_index + (size + 1) < QUEUE_SIZE THEN tail_index + (size + 1)
           ELSE tail_index + (size + 1) - QUEUE_SIZE
    BY <1>2, WrapSlot
  <2> QED
    BY <1>2, <2>1, <2>2, <2>3 DEF Slot
<1>4. (head_index + 1) % QUEUE_SIZE \in Slot
  BY <1>2, WrapSlot
<1>5. events' \in [Slot -> Event \cup {Zero}]
  BY <1>1, <1>2 DEF IndicesAgree
<1> QED
  BY <1>1, <1>2, <1>3, <1>4, <1>5 DEF IndicesAgree

LEMMA PopIndices ==
    ASSUME IndicesAgree, event_queue_pop
    PROVE  IndicesAgree'
<1>1. /\ tail_index' = (tail_index + 1) % QUEUE_SIZE
      /\ size' = size - 1
      /\ UNCHANGED <<events, head_index>>
  BY DEF event_queue_pop
<1>2. QUEUE_SIZE \in Nat \ {0} /\ tail_index \in Slot /\ head_index \in Slot
      /\ size \in 0..QUEUE_SIZE /\ size - 1 \in 0..QUEUE_SIZE /\ 1 \in 0..QUEUE_SIZE
  BY EventQueueAssumption DEF IndicesAgree, event_queue_pop
<1>3. tail_index' \in Slot
  BY <1>1, <1>2, WrapSlot
<1>4. head_index' = (tail_index' + size') % QUEUE_SIZE
  <2>1. head_index = IF tail_index + size < QUEUE_SIZE THEN tail_index + size
                     ELSE tail_index + size - QUEUE_SIZE
    BY <1>2, WrapSlot DEF IndicesAgree
  <2>2. tail_index' = IF tail_index + 1 < QUEUE_SIZE THEN tail_index + 1
                      ELSE tail_index + 1 - QUEUE_SIZE
    BY <1>1, <1>2, WrapSlot
  <2>3. (tail_index' + (size - 1)) % QUEUE_SIZE =
           IF tail_index' + (size - 1) < QUEUE_SIZE THEN tail_index' + (size - 1)
           ELSE tail_index' + (size - 1) - QUEUE_SIZE
    BY <1>2, <1>3, WrapSlot
  <2> QED
    BY <1>1, <1>2, <1>3, <2>1, <2>2, <2>3 DEF Slot
<1> QED
  BY <1>1, <1>2, <1>3, <1>4 DEF IndicesAgree

LEMMA IndicesInductive == ASSUME IndicesAgree, [Next]_vars PROVE IndicesAgree'
<1>1. CASE UNCHANGED vars
  BY <1>1 DEF vars, IndicesAgree
<1>2. CASE handle_syscall_get_event
  BY <1>1, <1>2, PopIndices DEF handle_syscall_get_event
<1>3. ASSUME NEW e \in Event, event_queue_push(e) PROVE IndicesAgree'
  <2>1. CASE size < QUEUE_SIZE
    BY <1>3, <2>1, PushIndices
  <2>2. CASE ~(size < QUEUE_SIZE)
    BY <1>1, <1>3, <2>2, EventQueueAssumption DEF event_queue_push, IndicesAgree, vars
  <2> QED
    BY <2>1, <2>2
<1> QED
  BY <1>1, <1>2, <1>3 DEF Next

\* The head index is always size slots after the tail index.
THEOREM IndicesCorrect == Spec => []IndicesAgree
<1>1. Init => IndicesAgree
  BY InitIndices
<1>2. IndicesAgree /\ [Next]_vars => IndicesAgree'
  BY IndicesInductive
<1> QED
  BY <1>1, <1>2, PTL DEF Spec

(***************************************************************************)
(* Refinement                                                              *)
(***************************************************************************)
\* What Contents is, as a sequence.
ContentsView ==
    /\ Contents \in Seq(Event \cup {Zero})
    /\ Len(Contents) = size
    /\ \A i \in 1..size : Contents[i] = events[(tail_index + (i - 1)) % QUEUE_SIZE]

LEMMA ContentsSeq == IndicesAgree => ContentsView
<1> SUFFICES ASSUME IndicesAgree PROVE ContentsView
  OBVIOUS
<1>1. /\ size \in Nat /\ size <= QUEUE_SIZE /\ tail_index \in Slot /\ tail_index \in Nat
      /\ events \in [Slot -> Event \cup {Zero}] /\ QUEUE_SIZE \in Nat
  BY EventQueueAssumption DEF IndicesAgree, Slot
<1>2. ASSUME NEW i \in 1..size
      PROVE  /\ tail_index + i - 1 = tail_index + (i - 1)
             /\ events[(tail_index + (i - 1)) % QUEUE_SIZE] \in Event \cup {Zero}
  <2>1. i - 1 \in 0..QUEUE_SIZE /\ tail_index + i - 1 = tail_index + (i - 1)
    BY <1>1
  <2>2. (tail_index + (i - 1)) % QUEUE_SIZE \in Slot
    BY <1>1, <2>1, WrapSlot
  <2> QED
    BY <1>1, <2>1, <2>2
<1> DEFINE c(i) == events[(tail_index + i - 1) % QUEUE_SIZE]
<1>3. \A i \in 1..size : /\ c(i) = events[(tail_index + (i - 1)) % QUEUE_SIZE]
                         /\ c(i) \in Event \cup {Zero}
  BY <1>2
<1>4. Contents = [i \in 1..size |-> c(i)]
  BY DEF Contents
<1> HIDE DEF c
<1> QED
  BY <1>1, <1>3, <1>4 DEF ContentsView

LEMMA PushRefines ==
    ASSUME IndicesAgree, NEW e \in Event, event_queue_push(e), size < QUEUE_SIZE
    PROVE  Fifo!Push(e)
<1>1. /\ IndicesAgree'
      /\ events' = [events EXCEPT ![head_index] = e]
      /\ size' = size + 1
      /\ UNCHANGED <<tail_index, event>>
  BY PushIndices
<1>2. /\ Contents \in Seq(Event \cup {Zero}) /\ Len(Contents) = size
      /\ \A i \in 1..size : Contents[i] = events[(tail_index + (i - 1)) % QUEUE_SIZE]
  BY ContentsSeq DEF ContentsView
<1>3. /\ Contents' \in Seq(Event \cup {Zero}) /\ Len(Contents') = size + 1
      /\ \A i \in 1..(size + 1) : Contents'[i] = events'[(tail_index + (i - 1)) % QUEUE_SIZE]
  <2>1. ContentsView'
    BY <1>1, ContentsSeq, PTL
  <2> QED
    BY <1>1, <2>1 DEF ContentsView
<1>4. /\ size \in Nat /\ size < QUEUE_SIZE /\ tail_index \in Slot /\ head_index \in Slot
      /\ head_index = (tail_index + size) % QUEUE_SIZE
      /\ QUEUE_SIZE \in Nat \ {0} /\ events \in [Slot -> Event \cup {Zero}]
  BY EventQueueAssumption DEF IndicesAgree
<1>5. Contents' = Append(Contents, e)
  <2>1. Len(Append(Contents, e)) = size + 1 /\ Append(Contents, e) \in Seq(Event \cup {Zero})
    BY <1>2
  <2>2. ASSUME NEW i \in 1..(size + 1) PROVE Contents'[i] = Append(Contents, e)[i]
    <3>1. CASE i = size + 1
      <4>1. i - 1 = size
        BY <1>4, <3>1
      <4>2. Contents'[i] = events'[head_index]
        BY <1>3, <1>4, <4>1
      <4>3. Append(Contents, e)[i] = e
        BY <1>2, <3>1
      <4> QED
        BY <1>1, <1>4, <4>2, <4>3
    <3>2. CASE i \in 1..size
      <4>1. (tail_index + (i - 1)) % QUEUE_SIZE # head_index /\ (tail_index + (i - 1)) % QUEUE_SIZE \in Slot
        <5>1. i - 1 \in 0..QUEUE_SIZE /\ size \in 0..QUEUE_SIZE
          BY <1>4, <3>2
        <5>2. /\ (tail_index + (i - 1)) % QUEUE_SIZE =
                   IF tail_index + (i - 1) < QUEUE_SIZE THEN tail_index + (i - 1)
                   ELSE tail_index + (i - 1) - QUEUE_SIZE
              /\ (tail_index + (i - 1)) % QUEUE_SIZE \in Slot
          BY <1>4, <5>1, WrapSlot
        <5>3. head_index = IF tail_index + size < QUEUE_SIZE THEN tail_index + size
                           ELSE tail_index + size - QUEUE_SIZE
          BY <1>4, <5>1, WrapSlot
        <5> QED
          BY <1>4, <3>2, <5>2, <5>3 DEF Slot
      <4>2. Contents'[i] = Contents[i]
        BY <1>1, <1>2, <1>3, <1>4, <3>2, <4>1
      <4> QED
        BY <1>2, <3>2, <4>2
    <3>3. i = size + 1 \/ i \in 1..size
      BY <1>4
    <3> QED
      BY <3>1, <3>2, <3>3
  <2> QED
    BY <1>3, <1>4, <2>1, <2>2
<1> QED
  BY <1>1, <1>2, <1>4, <1>5 DEF Fifo!Push

LEMMA PopRefines ==
    ASSUME IndicesAgree, event_queue_pop
    PROVE  Fifo!Pop
<1>1. /\ IndicesAgree'
      /\ tail_index' = (tail_index + 1) % QUEUE_SIZE
      /\ size' = size - 1 /\ event' = events[tail_index]
      /\ UNCHANGED events
  BY PopIndices DEF event_queue_pop
<1>2. /\ Contents \in Seq(Event \cup {Zero}) /\ Len(Contents) = size
      /\ \A i \in 1..size : Contents[i] = events[(tail_index + (i - 1)) % QUEUE_SIZE]
  BY ContentsSeq DEF ContentsView
<1>3. /\ Contents' \in Seq(Event \cup {Zero}) /\ Len(Contents') = size - 1
      /\ \A i \in 1..(size - 1) : Contents'[i] = events[(tail_index' + (i - 1)) % QUEUE_SIZE]
  <2>1. ContentsView'
    BY <1>1, ContentsSeq, PTL
  <2> QED
    BY <1>1, <2>1 DEF ContentsView
<1>4. /\ size \in Nat \ {0} /\ size <= QUEUE_SIZE /\ tail_index \in Slot /\ tail_index' \in Slot
      /\ QUEUE_SIZE \in Nat \ {0}
  BY <1>1, EventQueueAssumption DEF IndicesAgree, event_queue_pop
<1>5. Contents # << >> /\ Head(Contents) = Contents[1]
  BY <1>2, <1>4
<1>6. Contents[1] = events[tail_index]
  <2>1. 0 \in 0..QUEUE_SIZE /\ tail_index + 0 = tail_index /\ 1 - 1 = 0
    BY <1>4 DEF Slot
  <2>2. (tail_index + 0) % QUEUE_SIZE = tail_index
    <3>1. (tail_index + 0) % QUEUE_SIZE =
             IF tail_index + 0 < QUEUE_SIZE THEN tail_index + 0 ELSE tail_index + 0 - QUEUE_SIZE
      BY <1>4, <2>1, WrapSlot
    <3> QED
      BY <1>4, <3>1 DEF Slot
  <2> QED
    BY <1>2, <1>4, <2>1, <2>2
<1>7. Contents' = Tail(Contents)
  <2>1. Tail(Contents) \in Seq(Event \cup {Zero}) /\ Len(Tail(Contents)) = size - 1
    BY <1>2, <1>4
  <2>2. ASSUME NEW i \in 1..(size - 1) PROVE Contents'[i] = Tail(Contents)[i]
    <3>1. (tail_index' + (i - 1)) % QUEUE_SIZE = (tail_index + i) % QUEUE_SIZE
      <4>1. i \in 0..QUEUE_SIZE /\ i - 1 \in 0..QUEUE_SIZE /\ 1 \in 0..QUEUE_SIZE
        BY <1>4
      <4>2. tail_index' = IF tail_index + 1 < QUEUE_SIZE THEN tail_index + 1
                          ELSE tail_index + 1 - QUEUE_SIZE
        BY <1>1, <1>4, <4>1, WrapSlot
      <4>3. (tail_index' + (i - 1)) % QUEUE_SIZE =
               IF tail_index' + (i - 1) < QUEUE_SIZE THEN tail_index' + (i - 1)
               ELSE tail_index' + (i - 1) - QUEUE_SIZE
        BY <1>4, <4>1, WrapSlot
      <4>4. (tail_index + i) % QUEUE_SIZE =
               IF tail_index + i < QUEUE_SIZE THEN tail_index + i ELSE tail_index + i - QUEUE_SIZE
        BY <1>4, <4>1, WrapSlot
      <4> QED
        BY <1>4, <4>1, <4>2, <4>3, <4>4 DEF Slot
    <3>2. Contents[i + 1] = events[(tail_index + i) % QUEUE_SIZE]
      <4>1. i + 1 \in 1..size /\ (i + 1) - 1 = i
        BY <1>4
      <4> QED
        BY <1>2, <4>1
    <3>3. Tail(Contents)[i] = Contents[i + 1]
      BY <1>2, <1>4
    <3> QED
      BY <1>3, <3>1, <3>2, <3>3
  <2> QED
    BY <1>3, <1>4, <2>1, <2>2
<1> QED
  BY <1>1, <1>5, <1>6, <1>7 DEF Fifo!Pop

LEMMA StepRefines ==
    ASSUME IndicesAgree, [Next]_vars
    PROVE  [Fifo!Next]_<<Contents, event>>
<1>1. CASE UNCHANGED vars
  BY <1>1 DEF vars, Contents
<1>2. CASE handle_syscall_get_event
  BY <1>1, <1>2, PopRefines DEF handle_syscall_get_event, Fifo!Next
<1>3. ASSUME NEW e \in Event, event_queue_push(e) PROVE [Fifo!Next]_<<Contents, event>>
  <2>1. CASE size < QUEUE_SIZE
    BY <1>3, <2>1, PushRefines DEF Fifo!Next
  <2>2. CASE ~(size < QUEUE_SIZE)
    BY <1>1, <1>3, <2>2, EventQueueAssumption DEF event_queue_push, IndicesAgree, vars
  <2> QED
    BY <2>1, <2>2
<1> QED
  BY <1>1, <1>2, <1>3 DEF Next

\* The ring buffer with its three counters implements the bounded queue.
THEOREM RingImplementsFifo == Spec => ImplementsFifo
<1>1. Init => Fifo!Init
  <2> SUFFICES ASSUME Init PROVE Fifo!Init
    OBVIOUS
  <2>1. IndicesAgree /\ size = 0
    BY InitIndices DEF Init
  <2>2. Contents \in Seq(Event \cup {Zero}) /\ Len(Contents) = 0
    BY <2>1, ContentsSeq DEF ContentsView
  <2>3. Contents = << >>
    BY <2>2
  <2> QED
    BY <2>3 DEF Init, Fifo!Init
<1>2. IndicesAgree /\ [Next]_vars => [Fifo!Next]_<<Contents, event>>
  BY StepRefines
<1> QED
  BY <1>1, <1>2, IndicesCorrect, PTL DEF Spec, ImplementsFifo, Fifo!Spec

(***************************************************************************)
(* The picture                                                             *)
(***************************************************************************)
Count == Len(order)

Row == 0..(screen_height - 1)

(***************************************************************************)
(* Numbers                                                                 *)
(***************************************************************************)
LEMMA Sizes ==
    /\ screen_width \in Nat /\ screen_width >= 1
    /\ screen_height \in Nat /\ screen_height >= 1
    /\ HEADER_OFFSET \in Nat /\ HEADER_OFFSET >= 2
    /\ STATUS_BAR_HEIGHT \in Nat /\ STATUS_BAR_HEIGHT >= 2
    /\ Width \in Nat /\ Width >= 2 /\ Height \in Nat /\ Height >= 1
    /\ WORD \in Nat /\ screen_height < WORD
BY GraphicsAssumption

\* A number below a word is what it is in a word.
LEMMA InWord ==
    ASSUME NEW w \in Nat, NEW x \in Nat, x < w
    PROVE  x % w = x
<1> DEFINE q == x \div w
           r == x % w
<1>1. /\ q \in Int /\ r \in Int
      /\ 0 <= r /\ r < w
      /\ x = w * q + r
  BY Z3
<1> HIDE DEF q, r
<1>2. q >= 0
  <2> SUFFICES ASSUME q <= -1 PROVE FALSE
    BY <1>1
  <2>1. w * q <= w * (-1)
    BY <1>1
  <2> QED
    BY <1>1, <2>1
<1>3. q < 1
  <2> SUFFICES ASSUME q >= 1 PROVE FALSE
    BY <1>1
  <2>1. w * q >= w * 1
    BY <1>1
  <2> QED
    BY <1>1, <2>1
<1>4. q = 0
  BY <1>1, <1>2, <1>3
<1> QED
  BY <1>1, <1>4 DEF r

\* Cells of different rows, or columns, of a buffer are different cells.
LEMMA CellsDiffer ==
    ASSUME NEW n \in Nat, NEW a \in 0..(n - 1), NEW b \in 0..(n - 1),
           NEW i \in Int, NEW j \in Int, i * n + a = j * n + b
    PROVE  i = j /\ a = b
<1>1. ASSUME NEW k \in Int, NEW l \in Int, NEW c \in 0..(n - 1), NEW d \in 0..(n - 1), k < l
      PROVE  k * n + c < l * n + d
  <2>1. (k + 1) * n <= l * n
    BY <1>1
  <2>2. (k + 1) * n = k * n + n /\ k * n \in Int /\ l * n \in Int
    BY <1>1
  <2> QED
    BY <2>1, <2>2
<1>2. ~(i < j)
  BY <1>1
<1>3. ~(j < i)
  BY <1>1
<1>4. i = j
  BY <1>2, <1>3
<1>5. i * n = j * n /\ i * n \in Int
  BY <1>4
<1> QED
  BY <1>4, <1>5

LEMMA CellInside ==
    ASSUME NEW n \in Nat, NEW t \in Nat, NEW r \in Nat, r + 1 <= t, NEW c \in 0..(n - 1)
    PROVE  r * n + c \in 0..(n * t - 1)
<1>1. PICK e \in Nat : t = r + 1 + e
  <2>1. t - (r + 1) \in Nat /\ t = r + 1 + (t - (r + 1))
    OBVIOUS
  <2> QED
    BY <2>1
<1>2. n * t = r * n + n + n * e
  BY <1>1
<1>3. r * n \in Nat /\ n * e \in Nat
  BY <1>1
<1> QED
  BY <1>2, <1>3

LEMMA LeastInSet ==
    ASSUME NEW S \in SUBSET Nat, S # {}
    PROVE  \E x \in S : \A j \in S : x <= j
<1> DEFINE R == {ss \in Nat \X Nat : ss[1] < ss[2]}
<1>1. IsWellFoundedOn(R, Nat)
  BY NatLessThanWellFounded, Zenon DEF OpToRel
<1>2. PICK x \in S : \A y \in S : ~(<<y, x>> \in R)
  <2> HIDE DEF R
  <2> QED
    BY <1>1, WFMin
<1>3. ASSUME NEW y \in S PROVE x <= y
  <2>1. x \in Nat /\ y \in Nat /\ <<y, x>> \in Nat \X Nat
    OBVIOUS
  <2>2. <<y, x>>[1] = y /\ <<y, x>>[2] = x
    OBVIOUS
  <2>3. ~(y < x)
    BY <1>2, <2>1, <2>2, Zenon
  <2> QED
    BY <2>1, <2>3
<1> QED
  BY <1>3

\* Induction over 0..n, stated of a set.
LEMMA Interval ==
    ASSUME NEW n \in Nat, NEW S, 0 \in S, \A i \in 0..(n - 1) : i \in S => i + 1 \in S
    PROVE  0..n \subseteq S
<1> DEFINE Missing == {i \in 0..n : i \notin S}
<1> SUFFICES ASSUME Missing # {} PROVE FALSE
  OBVIOUS
<1>1. Missing \in SUBSET Nat
  OBVIOUS
<1>2. PICK m \in Missing : \A i \in Missing : m <= i
  <2> HIDE DEF Missing
  <2> QED
    BY <1>1, LeastInSet
<1>3. m \in 0..n /\ m # 0 /\ m \notin S
  OBVIOUS
<1>4. m - 1 \in 0..(n - 1) /\ m - 1 + 1 = m
  BY <1>3
<1>5. m - 1 \in S
  BY <1>2, <1>3, <1>4
<1> QED
  BY <1>3, <1>4, <1>5

(***************************************************************************)
(* The back buffer                                                         *)
(***************************************************************************)
\* A back buffer all of which the flip will copy.
Whole(fb) ==
    /\ DOMAIN fb = {"pixels", "dirty_y_min", "dirty_y_max"}
    /\ DOMAIN fb.pixels = Pixel
    /\ fb.dirty_y_min = 0
    /\ fb.dirty_y_max = screen_height - 1

\* The marks of a row on the screen, or below it, do not exceed the screen.
LEMMA RowMarks ==
    ASSUME NEW y \in Int
    PROVE  /\ FirstRow(y) \in Nat
           /\ y >= 0 => LastRow(y) \in Row
<1>1. FirstRow(y) \in Nat
  BY DEF FirstRow, max
<1>2. ASSUME y >= 0 PROVE LastRow(y) \in Row
  <2> DEFINE b == min(y, screen_height - 1)
  <2>1. b \in Nat /\ b < WORD /\ b \in Row
    BY <1>2, Sizes DEF min, Row
  <2> HIDE DEF b
  <2>2. b % WORD = b
    BY <2>1, Sizes, InWord
  <2> QED
    BY <2>1, <2>2 DEF b, LastRow
<1> QED
  BY <1>1, <1>2

LEMMA MarkWhole ==
    ASSUME NEW fb, Whole(fb), NEW y_top \in Int, NEW y_bottom \in Nat
    PROVE  Whole(mark_dirty(fb, y_top, y_bottom))
           /\ mark_dirty(fb, y_top, y_bottom).pixels = fb.pixels
<1> DEFINE f == FirstRow(y_top)
           l == LastRow(y_bottom)
<1>1. f \in Nat /\ l \in Row
  BY RowMarks
<1> HIDE DEF f, l
<1>2. min(0, f) = 0 /\ max(screen_height - 1, l) = screen_height - 1
  BY <1>1, Sizes DEF min, max, Row
<1>3. mark_dirty(fb, y_top, y_bottom) =
        [fb EXCEPT !.dirty_y_min = min(@, f), !.dirty_y_max = max(@, l)]
  BY DEF mark_dirty, f, l
<1> QED
  BY <1>2, <1>3 DEF Whole

LEMMA ClearWhole ==
    ASSUME NEW color
    PROVE  /\ Whole(vga_clear_screen(color))
           /\ \A p \in Pixel : vga_clear_screen(color).pixels[p] = color
BY DEF Whole, vga_clear_screen

\* The greatest of numbers that one of them bounds, and the least.
LEMMA MaxIs ==
    ASSUME NEW S \in SUBSET Int, NEW m \in S, \A x \in S : x <= m
    PROVE  Max(S) = m
<1>1. \A x \in S : m >= x
  OBVIOUS
<1>2. ASSUME NEW n \in S, \A x \in S : n >= x PROVE n = m
  BY <1>2
<1> QED
  BY <1>1, <1>2 DEF Max

LEMMA MinIs ==
    ASSUME NEW S \in SUBSET Int, NEW m \in S, \A x \in S : m <= x
    PROVE  Min(S) = m
<1>1. ASSUME NEW n \in S, \A x \in S : n <= x PROVE n = m
  BY <1>1
<1> QED
  BY <1>1 DEF Min

LEMMA PutWhole ==
    ASSUME NEW fb, Whole(fb), NEW points, NEW color,
           \A p \in points : p[2] \in Nat
    PROVE  /\ Whole(vga_put_pixel(fb, points, color))
           /\ \A p \in Pixel : vga_put_pixel(fb, points, color).pixels[p] =
                                  IF p \in points THEN color ELSE fb.pixels[p]
<1> DEFINE rows == {p[2] : p \in points}
           tops == {FirstRow(y) : y \in rows}
           bottoms == {LastRow(y) : y \in rows}
           put == [p \in Pixel |-> IF p \in points THEN color ELSE fb.pixels[p]]
<1>1. \A y \in rows : y \in Int /\ y >= 0
  OBVIOUS
<1>2. tops \subseteq Nat /\ bottoms \subseteq Row
  <2> HIDE DEF rows
  <2> QED
    BY <1>1, RowMarks
<1>3. vga_put_pixel(fb, points, color) =
        [fb EXCEPT !.pixels = put, !.dirty_y_min = Min({@} \cup tops),
                   !.dirty_y_max = Max({@} \cup bottoms)]
  BY DEF vga_put_pixel, Whole
<1> HIDE DEF tops, bottoms
<1>4. Min({0} \cup tops) = 0
  BY <1>2, MinIs
<1>5. Max({screen_height - 1} \cup bottoms) = screen_height - 1
  <2>1. {screen_height - 1} \cup bottoms \in SUBSET Int
    BY <1>2, Sizes DEF Row
  <2>2. \A x \in {screen_height - 1} \cup bottoms : x <= screen_height - 1
    BY <1>2, Sizes DEF Row
  <2> QED
    BY <2>1, <2>2, MaxIs
<1> HIDE DEF put
<1>6. /\ Whole(vga_put_pixel(fb, points, color)) <=> DOMAIN put = Pixel
      /\ vga_put_pixel(fb, points, color).pixels = put
  BY <1>3, <1>4, <1>5 DEF Whole
<1> QED
  BY <1>6 DEF put

\* p lies in the rectangle at (x, y); its index in a buffer of rows of w pixels.
Within(p, x, y, w, h) == p[1] - x \in 0..(w - 1) /\ p[2] - y \in 0..(h - 1)

Source(p, x, y, w) == (p[2] - y) * w + (p[1] - x)

\* g is fb with a rectangle painted, with a buffer copied to it.
Painted(g, fb, x, y, w, h, color) ==
    /\ Whole(g)
    /\ \A p \in Pixel : g.pixels[p] = IF Within(p, x, y, w, h) THEN color ELSE fb.pixels[p]

Copied(g, fb, x, y, w, h, buffer) ==
    /\ Whole(g)
    /\ \A p \in Pixel : g.pixels[p] =
          IF Within(p, x, y, w, h) THEN buffer[Source(p, x, y, w)] ELSE fb.pixels[p]

\* What vga_draw_rect, vga_draw_string and vga_blit leave of a whole buffer.
LEMMA RectWhole ==
    ASSUME NEW fb, Whole(fb), NEW x \in Int, NEW y \in Nat, NEW w \in Nat, NEW h \in Nat,
           h # 0, NEW color
    PROVE  Painted(vga_draw_rect(fb, x, y, w, h, color), fb, x, y, w, h, color)
<1> DEFINE m == mark_dirty(fb, y, y + h - 1)
           points == (x..(x + w - 1)) \X (y..(y + h - 1))
           g == vga_put_pixel(m, points, color)
<1>1. Whole(m) /\ m.pixels = fb.pixels
  <2>1. y + h - 1 \in Nat
    OBVIOUS
  <2> QED
    BY <2>1, MarkWhole
<1>2. \A p \in points : p[2] \in Nat
  OBVIOUS
<1> HIDE DEF m, points
<1>3. Whole(g) /\ \A p \in Pixel : g.pixels[p] = IF p \in points THEN color ELSE m.pixels[p]
  BY <1>1, <1>2, PutWhole
<1> HIDE DEF g
<1>4. ASSUME NEW p \in Pixel
      PROVE  p \in points <=> Within(p, x, y, w, h)
  BY DEF Pixel, points, Within
<1>5. vga_draw_rect(fb, x, y, w, h, color) = g
  BY DEF vga_draw_rect, g, m, points
<1> QED
  BY <1>1, <1>3, <1>4, <1>5 DEF Painted

LEMMA StringWhole ==
    ASSUME NEW fb, Whole(fb), NEW x \in Int, NEW y \in Nat, NEW color
    PROVE  LET g == vga_draw_string(fb, x, y, color)
           IN  /\ Whole(g)
               /\ \A p \in Pixel : g.pixels[p] =
                     IF <<p[1] - x, p[2] - y>> \in glyph THEN color ELSE fb.pixels[p]
<1> DEFINE m == mark_dirty(fb, y, y + font_row)
           points == {<<x + c[1], y + c[2]>> : c \in glyph}
           g == vga_put_pixel(m, points, color)
<1>1. Whole(m) /\ m.pixels = fb.pixels
  <2>1. y + font_row \in Nat
    BY DEF font_row
  <2> QED
    BY <2>1, MarkWhole
<1>2. points = {<<x, y>>, <<x + 1, y + 1>>}
  BY DEF glyph
<1> HIDE DEF m, points
<1>3. \A p \in points : p[2] \in Nat
  BY <1>2
<1>4. Whole(g) /\ \A p \in Pixel : g.pixels[p] = IF p \in points THEN color ELSE m.pixels[p]
  BY <1>1, <1>3, PutWhole
<1> HIDE DEF g
<1>5. ASSUME NEW p \in Pixel
      PROVE  p \in points <=> <<p[1] - x, p[2] - y>> \in glyph
  <2>1. p = <<p[1], p[2]>> /\ p[1] \in Int /\ p[2] \in Int
    BY Sizes DEF Pixel
  <2>2. p \in points <=> (p[1] = x /\ p[2] = y) \/ (p[1] = x + 1 /\ p[2] = y + 1)
    BY <1>2, <2>1
  <2>3. <<p[1] - x, p[2] - y>> \in glyph <=>
           (p[1] - x = 0 /\ p[2] - y = 0) \/ (p[1] - x = 1 /\ p[2] - y = 1)
    BY DEF glyph
  <2> QED
    BY <2>1, <2>2, <2>3
<1>6. vga_draw_string(fb, x, y, color) = g
  BY DEF vga_draw_string, g, m, points
<1> QED
  BY <1>1, <1>4, <1>5, <1>6

LEMMA BlitWhole ==
    ASSUME NEW fb, Whole(fb), NEW x \in Int, NEW y \in Nat, NEW w \in Nat, NEW h \in Nat,
           w # 0, h # 0, NEW buffer
    PROVE  Copied(vga_blit(fb, x, y, w, h, buffer), fb, x, y, w, h, buffer)
<1> DEFINE m == mark_dirty(fb, y, y + h - 1)
           src_x == IF x < 0 THEN -x ELSE 0
           dst_x == IF x < 0 THEN 0 ELSE x
           copy == min(dst_x + w - src_x, screen_width) - dst_x
           Inside(p) == p[1] \in dst_x..(dst_x + copy - 1) /\ p[2] \in y..(y + h - 1)
           At(p) == (p[2] - y) * w + src_x + p[1] - dst_x
           g == [m EXCEPT !.pixels = [p \in Pixel |-> IF Inside(p) THEN buffer[At(p)] ELSE m.pixels[p]]]
<1>1. Whole(m) /\ m.pixels = fb.pixels
  <2>1. y + h - 1 \in Nat
    OBVIOUS
  <2> QED
    BY <2>1, MarkWhole
<1> HIDE DEF m
<1>2. Whole(g) /\ \A p \in Pixel : g.pixels[p] = IF Inside(p) THEN buffer[At(p)] ELSE m.pixels[p]
  <2> HIDE DEF Inside, At
  <2> QED
    BY <1>1 DEF Whole
<1>3. ASSUME NEW p \in Pixel
      PROVE  /\ Inside(p) <=> Within(p, x, y, w, h)
             /\ At(p) = Source(p, x, y, w)
  <2>1. p[1] \in 0..(screen_width - 1) /\ p[2] \in 0..(screen_height - 1)
    BY DEF Pixel
  <2>2. p[2] \in y..(y + h - 1) <=> p[2] - y \in 0..(h - 1)
    BY <2>1, Sizes
  <2>3. CASE x < 0
    <3>1. src_x = -x /\ dst_x = 0
      BY <2>3
    <3>4. copy = min(w + x, screen_width) /\ copy \in Int
      <4>1. 0 + w - -x = w + x
        BY <2>3
      <4>2. min(w + x, screen_width) \in Int
        BY Sizes DEF min
      <4> QED
        BY <3>1, <4>1, <4>2
    <3> HIDE DEF copy
    <3>2. p[1] \in 0..(copy - 1) <=> p[1] - x \in 0..(w - 1)
      BY <2>1, <2>3, <3>4, Sizes DEF min
    <3>3. (p[2] - y) * w \in Int
      BY <2>1, Sizes
    <3>5. At(p) = (p[2] - y) * w + (p[1] - x)
      <4>1. PICK r \in Int : r = (p[2] - y) * w
        BY <3>3
      <4>2. r + src_x + p[1] - dst_x = r + (p[1] - x)
        BY <2>1, <3>1, <4>1, Sizes
      <4> QED
        BY <4>1, <4>2
    <3>6. Inside(p) <=> p[1] - x \in 0..(w - 1) /\ p[2] - y \in 0..(h - 1)
      BY <2>2, <3>1, <3>2, <3>4
    <3> QED
      BY <3>5, <3>6 DEF Within, Source
  <2>4. CASE x >= 0
    <3>1. src_x = 0 /\ dst_x = x
      BY <2>4
    <3>4. copy = min(x + w, screen_width) - x
      <4>1. x + w - 0 = x + w
        BY <2>4
      <4> QED
        BY <3>1, <4>1
    <3> HIDE DEF copy
    <3>2. p[1] \in x..(x + copy - 1) <=> p[1] - x \in 0..(w - 1)
      BY <2>1, <2>4, <3>4, Sizes DEF min
    <3>3. (p[2] - y) * w \in Int
      BY <2>1, Sizes
    <3>5. At(p) = (p[2] - y) * w + (p[1] - x)
      <4>1. PICK r \in Int : r = (p[2] - y) * w
        BY <3>3
      <4>2. r + src_x + p[1] - dst_x = r + (p[1] - x)
        BY <2>1, <3>1, <4>1, Sizes
      <4> QED
        BY <4>1, <4>2
    <3>6. Inside(p) <=> p[1] - x \in 0..(w - 1) /\ p[2] - y \in 0..(h - 1)
      BY <2>2, <3>1, <3>2
    <3> QED
      BY <3>5, <3>6 DEF Within, Source
  <2> QED
    BY <2>3, <2>4
<1>4. vga_blit(fb, x, y, w, h, buffer) = g
  BY <1>1 DEF vga_blit, m, Whole
<1> HIDE DEF g, Inside, At
<1> QED
  BY <1>1, <1>2, <1>3, <1>4 DEF Copied

(***************************************************************************)
(* A window                                                                *)
(***************************************************************************)
Typed ==
    /\ place \in [Wins -> Int \X Int]
    /\ order \in Seq(Wins)
    /\ focused \in Wins => \E i \in 1..Count : order[i] = focused
    /\ mouse \in Spots

LEMMA Stack ==
    ASSUME Typed
    PROVE  /\ Count \in Nat /\ DOMAIN order = 1..Count
           /\ \A i \in 1..Count : order[i] \in Wins
           /\ SticksOut <=> \E i \in 1..Count : place[order[i]][2] < 0
           /\ \A w : w \in ToSet(order) <=> \E i \in 1..Count : order[i] = w
BY DEF Typed, Count, SticksOut, ToSet

\* The pixel buffers hold what the programs have drawn.
Buffered ==
    \A w \in Wins, p \in Content : pixel_buffer[w][Index(p[1], p[2])] = drawn[w][p]

\* What window w shows at a pixel that it covers.
Face(w, p) ==
    LET q   == <<p[1] - place[w][1], p[2] - place[w][2] - HEADER_OFFSET>>
        bar == <<q[1], q[2] + HEADER_OFFSET>>
    IN  IF q[2] >= 0 THEN drawn[w][q]
        ELSE IF bar = <<Width - 1, 0>> THEN CloseButton
        ELSE IF bar \in glyph THEN Title
        ELSE IF w = focused THEN FocusedBorder ELSE Border

LEMMA WindowWhole ==
    ASSUME Typed, Buffered, NEW fb, Whole(fb), NEW w \in Wins, place[w][2] >= 0
    PROVE  /\ Whole(draw_window(fb, w))
           /\ \A p \in Pixel : draw_window(fb, w).pixels[p] =
                                  IF Covers(w, p) THEN Face(w, p) ELSE fb.pixels[p]
<1> DEFINE x == place[w][1]
           y == place[w][2]
           total == Height + HEADER_OFFSET
           border == IF w = focused THEN FocusedBorder ELSE Border
           buffer == pixel_buffer[w]
           blit == vga_blit(fb, x, y, Width, total, buffer)
           bar == vga_draw_rect(blit, x, y, Width, HEADER_OFFSET, border)
           title == vga_draw_string(bar, x, y, Title)
           close == vga_draw_rect(title, x + Width - 1, y, 1, 1, CloseButton)
<1>1. x \in Int /\ y \in Nat
  BY DEF Typed
<1>2. /\ Width \in Nat /\ Width # 0 /\ total \in Nat /\ total # 0
      /\ HEADER_OFFSET \in Nat /\ HEADER_OFFSET # 0
  BY Sizes
<1>3. draw_window(fb, w) = close
  BY DEF draw_window
<1> HIDE DEF x, y, total, border, buffer
<1>4. Copied(blit, fb, x, y, Width, total, buffer)
  BY <1>1, <1>2, BlitWhole
<1> HIDE DEF blit
<1>5. Painted(bar, blit, x, y, Width, HEADER_OFFSET, border)
  BY <1>1, <1>2, <1>4, RectWhole DEF Copied
<1> HIDE DEF bar
<1>6. /\ Whole(title)
      /\ \A p \in Pixel : title.pixels[p] =
            IF <<p[1] - x, p[2] - y>> \in glyph THEN Title ELSE bar.pixels[p]
  BY <1>1, <1>5, StringWhole DEF Painted
<1> HIDE DEF title
<1>7. Painted(close, title, x + Width - 1, y, 1, 1, CloseButton)
  <2>1. x + Width - 1 \in Int /\ 1 \in Nat /\ 1 # 0
    BY <1>1, Sizes
  <2> QED
    BY <1>1, <1>6, <2>1, RectWhole
<1> HIDE DEF close
<1>8. ASSUME NEW p \in Pixel
      PROVE  close.pixels[p] = IF Covers(w, p) THEN Face(w, p) ELSE fb.pixels[p]
  <2> DEFINE a == p[1] - x
             b == p[2] - y
             In == a \in 0..(Width - 1) /\ b \in 0..(total - 1)
  <2>1. a \in Int /\ b \in Int /\ p[1] \in Int /\ p[2] \in Int
    BY <1>1, Sizes DEF Pixel
  <2>2. Within(p, x + Width - 1, y, 1, 1) <=> a = Width - 1 /\ b = 0
    <3>1. p[1] - (x + Width - 1) \in 0..(1 - 1) <=> a = Width - 1
      BY <1>1, <2>1, Sizes
    <3>2. p[2] - y \in 0..(1 - 1) <=> b = 0
      BY <2>1
    <3> QED
      BY <3>1, <3>2 DEF Within
  <2>3. /\ Within(p, x, y, Width, HEADER_OFFSET) <=>
              a \in 0..(Width - 1) /\ b \in 0..(HEADER_OFFSET - 1)
        /\ Within(p, x, y, Width, total) <=> In
        /\ Source(p, x, y, Width) = b * Width + a
    BY DEF Within, Source
  <2>4. Covers(w, p) <=> In
    <3>1. HEADER_OFFSET + Height - 1 = total - 1
      BY Sizes DEF total
    <3> QED
      BY <3>1 DEF Covers, x, y
  <2>5. <<a, b>> \in glyph <=> (a = 0 /\ b = 0) \/ (a = 1 /\ b = 1)
    BY DEF glyph
  <2>6. Face(w, p) =
          IF b - HEADER_OFFSET >= 0 THEN drawn[w][<<a, b - HEADER_OFFSET>>]
          ELSE IF <<a, b - HEADER_OFFSET + HEADER_OFFSET>> = <<Width - 1, 0>> THEN CloseButton
          ELSE IF <<a, b - HEADER_OFFSET + HEADER_OFFSET>> \in glyph THEN Title
          ELSE border
    BY DEF Face, x, y, border
  <2>7. b - HEADER_OFFSET + HEADER_OFFSET = b
    BY <2>1, Sizes
  <2>8. close.pixels[p] =
          IF a = Width - 1 /\ b = 0 THEN CloseButton
          ELSE IF <<a, b>> \in glyph THEN Title
          ELSE IF a \in 0..(Width - 1) /\ b \in 0..(HEADER_OFFSET - 1) THEN border
          ELSE IF In THEN buffer[b * Width + a] ELSE fb.pixels[p]
    BY <1>4, <1>5, <1>6, <1>7, <2>2, <2>3 DEF Painted, Copied
  <2>9. total = Height + HEADER_OFFSET
    BY DEF total
  <2> HIDE DEF a, b
  <2>10. CASE ~In
    <3>1. ~(a = Width - 1 /\ b = 0) /\ <<a, b>> \notin glyph
          /\ ~(a \in 0..(Width - 1) /\ b \in 0..(HEADER_OFFSET - 1))
      BY <2>1, <2>5, <2>9, <2>10, Sizes
    <3> QED
      BY <2>4, <2>8, <2>10, <3>1
  <2>11. CASE In /\ b >= HEADER_OFFSET
    <3>1. ~(a = Width - 1 /\ b = 0) /\ <<a, b>> \notin glyph /\ ~(b \in 0..(HEADER_OFFSET - 1))
      BY <2>1, <2>5, <2>11, Sizes
    <3>2. close.pixels[p] = pixel_buffer[w][b * Width + a]
      BY <2>8, <2>11, <3>1 DEF buffer
    <3>3. <<a, b - HEADER_OFFSET>> \in Content /\ b - HEADER_OFFSET >= 0
      BY <2>1, <2>9, <2>11, Sizes DEF Content
    <3>4. Index(a, b - HEADER_OFFSET) = b * Width + a
      BY <2>7 DEF Index
    <3>5. pixel_buffer[w][Index(a, b - HEADER_OFFSET)] = drawn[w][<<a, b - HEADER_OFFSET>>]
      BY <3>3 DEF Buffered
    <3> QED
      BY <2>4, <2>6, <2>11, <3>2, <3>3, <3>4, <3>5
  <2>12. CASE In /\ ~(b >= HEADER_OFFSET)
    <3>1. b \in 0..(HEADER_OFFSET - 1) /\ ~(b - HEADER_OFFSET >= 0)
      BY <2>1, <2>12, Sizes
    <3>2. <<a, b>> = <<Width - 1, 0>> <=> a = Width - 1 /\ b = 0
      OBVIOUS
    <3> QED
      BY <2>4, <2>6, <2>7, <2>8, <2>12, <3>1, <3>2
  <2> QED
    BY <2>10, <2>11, <2>12
<1> QED
  BY <1>3, <1>7, <1>8 DEF Painted

(***************************************************************************)
(* The windows one over the other                                          *)
(***************************************************************************)
\* Window i of the stack, when it is not the focused one, covers p.
Visible(i, p) == order[i] # focused /\ Covers(order[i], p)

\* c is the colour of p after the first k windows: that of the last of them
\* that covers p.
Seen(k, p, c) ==
    IF \A i \in 1..k : ~Visible(i, p) THEN c = Desktop
    ELSE \E i \in 1..k : /\ Visible(i, p)
                         /\ \A j \in 1..k : Visible(j, p) => j <= i
                         /\ c = Face(order[i], p)

Composed(k, fb) == Whole(fb) /\ \A p \in Pixel : Seen(k, p, fb.pixels[p])

LEMMA SeenHidden ==
    ASSUME NEW k \in Nat, NEW p, NEW c, Seen(k, p, c), ~Visible(k + 1, p)
    PROVE  Seen(k + 1, p, c)
<1>1. 1..(k + 1) = (1..k) \cup {k + 1} /\ \A i \in 1..k : i \in 1..(k + 1)
  OBVIOUS
<1>2. CASE \A i \in 1..k : ~Visible(i, p)
  BY <1>1, <1>2 DEF Seen
<1>3. CASE ~(\A i \in 1..k : ~Visible(i, p))
  <2>1. PICK i \in 1..k : /\ Visible(i, p) /\ c = Face(order[i], p)
                          /\ \A j \in 1..k : Visible(j, p) => j <= i
    BY <1>3 DEF Seen
  <2>2. \A j \in 1..(k + 1) : Visible(j, p) => j <= i
    BY <1>1, <2>1
  <2> QED
    BY <1>1, <2>1, <2>2 DEF Seen
<1> QED
  BY <1>2, <1>3

LEMMA SeenNext ==
    ASSUME NEW k \in Nat, NEW p, Visible(k + 1, p)
    PROVE  Seen(k + 1, p, Face(order[k + 1], p))
<1>1. k + 1 \in 1..(k + 1) /\ \A j \in 1..(k + 1) : j <= k + 1
  OBVIOUS
<1> QED
  BY <1>1 DEF Seen

LEMMA ComposedNext ==
    ASSUME Typed, Buffered, ~SticksOut, NEW k \in 0..(Count - 1), NEW fb, Composed(k, fb)
    PROVE  Composed(k + 1, IF order[k + 1] = focused THEN fb ELSE draw_window(fb, order[k + 1]))
<1>1. k \in Nat /\ k + 1 \in 1..Count
  BY Stack
<1>2. order[k + 1] \in Wins
  BY <1>1, Stack
<1>3. CASE order[k + 1] = focused
  <2>1. \A p : ~Visible(k + 1, p)
    BY <1>3 DEF Visible
  <2> QED
    BY <1>1, <1>3, <2>1, SeenHidden DEF Composed
<1>4. CASE order[k + 1] # focused
  <2> DEFINE w == order[k + 1]
             g == draw_window(fb, w)
  <2>1. place[w][1] \in Int /\ place[w][2] \in Int /\ ~(place[w][2] < 0)
    BY <1>1, <1>2, Stack DEF Typed
  <2>2. /\ Whole(g)
        /\ \A p \in Pixel : g.pixels[p] = IF Covers(w, p) THEN Face(w, p) ELSE fb.pixels[p]
    <3>1. Whole(fb) /\ place[w][2] >= 0
      BY <2>1 DEF Composed
    <3> QED
      BY <1>2, <3>1, WindowWhole
  <2> HIDE DEF g
  <2>3. ASSUME NEW p \in Pixel PROVE Seen(k + 1, p, g.pixels[p])
    <3>1. CASE Covers(w, p)
      <4>1. Visible(k + 1, p)
        BY <1>4, <3>1 DEF Visible
      <4> QED
        BY <1>1, <2>2, <3>1, <4>1, SeenNext
    <3>2. CASE ~Covers(w, p)
      <4>1. ~Visible(k + 1, p) /\ Seen(k, p, fb.pixels[p])
        BY <3>2 DEF Visible, Composed
      <4>2. g.pixels[p] = fb.pixels[p]
        BY <2>2, <3>2
      <4> QED
        BY <1>1, <4>1, <4>2, SeenHidden
    <3> QED
      BY <3>1, <3>2
  <2> QED
    BY <1>4, <2>2, <2>3 DEF Composed, g
<1> QED
  BY <1>3, <1>4

\* One turn of the loop of draw_windows, from what g has after each turn.
Drawing(fb, g, k) ==
    IF k = 0 THEN fb
    ELSE IF order[k] = focused THEN g[k - 1]
    ELSE draw_window(g[k - 1], order[k])

LEMMA DrawingAt ==
    ASSUME NEW fb, NEW g, NEW k \in Nat
    PROVE  Drawing(fb, g, k + 1) =
             IF order[k + 1] = focused THEN g[k] ELSE draw_window(g[k], order[k + 1])
<1>1. k + 1 - 1 = k /\ k + 1 # 0
  OBVIOUS
<1> QED
  BY <1>1 DEF Drawing

LEMMA DrawingRuns ==
    ASSUME NEW n \in Nat, NEW fb
    PROVE  \E g : g = [i \in 0..n |-> Drawing(fb, g, i)]
<1> DEFINE S == {k \in 0..n : \E g : g = [i \in 0..k |-> Drawing(fb, g, i)]}
<1>2. 0 \in S
  <2> DEFINE g == [i \in 0..0 |-> fb]
  <2>1. g = [i \in 0..0 |-> Drawing(fb, g, i)]
    BY DEF Drawing
  <2> QED
    BY <2>1
<1>3. ASSUME NEW k \in 0..(n - 1), k \in S PROVE k + 1 \in S
  <2>1. PICK g : g = [i \in 0..k |-> Drawing(fb, g, i)]
    BY <1>3
  <2> DEFINE h == [i \in 0..(k + 1) |-> IF i <= k THEN g[i] ELSE Drawing(fb, g, k + 1)]
  <2>2. ASSUME NEW i \in 0..(k + 1) PROVE h[i] = Drawing(fb, h, i)
    <3>1. i # 0 => i - 1 \in 0..(k + 1) /\ i - 1 <= k
      OBVIOUS
    <3>2. i # 0 => h[i - 1] = g[i - 1]
      BY <3>1
    <3>3. Drawing(fb, h, i) = Drawing(fb, g, i)
      <4> HIDE DEF h
      <4>1. CASE i = 0
        BY <4>1 DEF Drawing
      <4>2. CASE i # 0
        BY <3>2, <4>2, Zenon DEF Drawing
      <4> QED
        BY <4>1, <4>2
    <3>4. CASE i <= k
      <4>1. i \in 0..k /\ h[i] = g[i]
        BY <3>4
      <4>2. g[i] = Drawing(fb, g, i)
        BY <2>1, <4>1
      <4> QED
        BY <3>3, <4>1, <4>2
    <3>5. CASE ~(i <= k)
      <4>1. i = k + 1
        BY <3>5
      <4>2. h[i] = Drawing(fb, g, k + 1)
        BY <3>5
      <4> QED
        BY <3>3, <4>1, <4>2
    <3> QED
      BY <3>4, <3>5
  <2>3. h = [i \in 0..(k + 1) |-> h[i]]
    OBVIOUS
  <2> HIDE DEF h
  <2>4. h = [i \in 0..(k + 1) |-> Drawing(fb, h, i)]
    BY <2>2, <2>3
  <2>5. k + 1 \in 0..n
    OBVIOUS
  <2> QED
    BY <2>4, <2>5
<1>4. 0..n \subseteq S
  <2> HIDE DEF S
  <2> QED
    BY <1>2, <1>3, Interval
<1>5. n \in S
  BY <1>4
<1> QED
  BY <1>5

\* What draw_windows leaves over a desktop.
Top(p) ==
    LET over == {i \in 1..Count : Covers(order[i], p)}
    IN  IF focused \in Wins /\ Covers(focused, p) THEN focused
        ELSE order[CHOOSE i \in over : \A j \in over : j <= i]

Stacked(p) == IF \A i \in 1..Count : ~Covers(order[i], p) THEN Desktop ELSE Face(Top(p), p)

LEMMA OthersDrawn ==
    ASSUME Typed, Buffered, ~SticksOut, NEW fb, Whole(fb),
           \A p \in Pixel : fb.pixels[p] = Desktop
    PROVE  \E g : /\ Composed(Count, g)
                  /\ draw_windows(fb, order) =
                        IF focused \in Wins THEN draw_window(g, focused) ELSE g
<1> DEFINE n == Count
           G == CHOOSE g : g = [i \in 0..n |-> Drawing(fb, g, i)]
           S == {k \in 0..n : Composed(k, G[k])}
<1>1. n \in Nat
  BY Stack
<1>2. draw_windows(fb, order) = IF focused \in Wins THEN draw_window(G[n], focused) ELSE G[n]
  BY DEF draw_windows, Drawing, Count
<1>3. G = [i \in 0..n |-> Drawing(fb, G, i)]
  BY <1>1, DrawingRuns
<1> HIDE DEF G
<1>4. 0 \in S
  <2>1. G[0] = fb
    BY <1>1, <1>3 DEF Drawing
  <2>2. \A p \in Pixel : Seen(0, p, fb.pixels[p])
    BY DEF Seen
  <2> QED
    BY <1>1, <2>1, <2>2 DEF Composed
<1>5. ASSUME NEW k \in 0..(n - 1), k \in S PROVE k + 1 \in S
  <2>1. k + 1 \in 0..n /\ k + 1 # 0 /\ k + 1 - 1 = k
    BY <1>1
  <2>2. G[k + 1] = Drawing(fb, G, k + 1)
    BY <1>3, <2>1
  <2>3. G[k + 1] = IF order[k + 1] = focused THEN G[k] ELSE draw_window(G[k], order[k + 1])
    BY <2>1, <2>2, DrawingAt
  <2>4. Composed(k, G[k])
    BY <1>5
  <2>5. Composed(k + 1, G[k + 1])
    BY <2>3, <2>4, ComposedNext
  <2> QED
    BY <2>1, <2>5
<1>6. 0..n \subseteq S
  <2> HIDE DEF S
  <2> QED
    BY <1>1, <1>4, <1>5, Interval
<1>7. Composed(n, G[n])
  BY <1>1, <1>6
<1> QED
  BY <1>2, <1>7

LEMMA WindowsDrawn ==
    ASSUME Typed, Buffered, ~SticksOut, NEW fb, Whole(fb),
           \A p \in Pixel : fb.pixels[p] = Desktop
    PROVE  /\ Whole(draw_windows(fb, order))
           /\ \A p \in Pixel : draw_windows(fb, order).pixels[p] = Stacked(p)
<1>1. PICK g : /\ Composed(Count, g)
               /\ draw_windows(fb, order) =
                     IF focused \in Wins THEN draw_window(g, focused) ELSE g
  BY OthersDrawn
<1>2. ASSUME focused \in Wins
      PROVE  /\ Whole(draw_window(g, focused))
             /\ \A p \in Pixel : draw_window(g, focused).pixels[p] =
                   IF Covers(focused, p) THEN Face(focused, p) ELSE g.pixels[p]
  <2>1. place[focused][2] >= 0
    <3>1. PICK i \in 1..Count : order[i] = focused
      BY <1>2 DEF Typed
    <3>2. ~(place[focused][2] < 0) /\ place[focused][2] \in Int
      BY <1>2, <3>1, Stack DEF Typed
    <3> QED
      BY <3>2
  <2>2. Whole(g)
    BY <1>1 DEF Composed
  <2> QED
    BY <1>2, <2>1, <2>2, WindowWhole
<1>3. Whole(draw_windows(fb, order))
  BY <1>1, <1>2 DEF Composed
<1>4. ASSUME NEW p \in Pixel PROVE draw_windows(fb, order).pixels[p] = Stacked(p)
  <2> DEFINE over == {i \in 1..Count : Covers(order[i], p)}
  <2>1. CASE focused \in Wins /\ Covers(focused, p)
    <3>1. draw_windows(fb, order).pixels[p] = Face(focused, p)
      BY <1>1, <1>2, <2>1
    <3>2. Top(p) = focused
      BY <2>1 DEF Top
    <3>3. \E i \in 1..Count : Covers(order[i], p)
      BY <2>1 DEF Typed
    <3> QED
      BY <3>1, <3>2, <3>3 DEF Stacked
  <2>2. CASE ~(focused \in Wins /\ Covers(focused, p))
    <3>1. draw_windows(fb, order).pixels[p] = g.pixels[p] /\ Seen(Count, p, g.pixels[p])
      BY <1>1, <1>2, <2>2 DEF Composed
    <3>2. \A i \in 1..Count : order[i] \in Wins
      BY Stack
    <3>3. \A i \in 1..Count : Visible(i, p) <=> Covers(order[i], p)
      BY <2>2, <3>2 DEF Visible
    <3>4. CASE \A i \in 1..Count : ~Covers(order[i], p)
      <4>1. \A i \in 1..Count : ~Visible(i, p)
        BY <3>3, <3>4
      <4> QED
        BY <3>1, <3>4, <4>1 DEF Seen, Stacked
    <3>5. CASE ~(\A i \in 1..Count : ~Covers(order[i], p))
      <4>1. ~(\A i \in 1..Count : ~Visible(i, p))
        BY <3>3, <3>5
      <4>2. PICK i \in 1..Count : /\ Visible(i, p)
                                  /\ \A j \in 1..Count : Visible(j, p) => j <= i
                                  /\ g.pixels[p] = Face(order[i], p)
        BY <3>1, <4>1 DEF Seen
      <4>3. i \in over /\ \A j \in over : j <= i
        BY <3>3, <4>2
      <4>4. \A k \in over : (\A j \in over : j <= k) => k = i
        BY <4>3
      <4>5. (CHOOSE k \in over : \A j \in over : j <= k) = i
        <5> HIDE DEF over
        <5> QED
          BY <4>3, <4>4
      <4>6. Top(p) = order[i]
        BY <2>2, <4>5 DEF Top
      <4> QED
        BY <3>1, <3>5, <4>2, <4>6 DEF Stacked
    <3> QED
      BY <3>4, <3>5
  <2> QED
    BY <2>1, <2>2
<1> QED
  BY <1>3, <1>4

(***************************************************************************)
(* The screen                                                              *)
(***************************************************************************)
\* What the picture shows over the windows.
LEMMA PictureIs ==
    ASSUME Typed, NEW p \in Pixel
    PROVE  Picture(p) = IF p[1] = mouse[1] /\ p[2] \in {mouse[2], mouse[2] + 1} THEN Cursor
                        ELSE IF p[2] < STATUS_BAR_HEIGHT
                             THEN IF p \in glyph THEN StatusText ELSE StatusBar
                        ELSE Stacked(p)
<1> DEFINE over == {i \in 1..Count : Covers(order[i], p)}
<1>1. over = {} <=> \A i \in 1..Count : ~Covers(order[i], p)
  OBVIOUS
<1>2. Top(p) = IF focused \in Wins /\ Covers(focused, p) THEN focused
               ELSE order[CHOOSE i \in over : \A j \in over : j <= i]
  BY DEF Top
<1>3. Picture(p) = IF p[1] = mouse[1] /\ p[2] \in {mouse[2], mouse[2] + 1} THEN Cursor
                   ELSE IF p[2] < STATUS_BAR_HEIGHT
                        THEN IF p \in glyph THEN StatusText ELSE StatusBar
                   ELSE IF over = {} THEN Desktop ELSE Face(Top(p), p)
  BY DEF Picture, Face, Top, Count
<1> QED
  BY <1>1, <1>3 DEF Stacked

LEMMA CompositeShows ==
    ASSUME Typed, Buffered, ~SticksOut
    PROVE  /\ Whole(wm_composite)
           /\ \A p \in Pixel : wm_composite.pixels[p] = Picture(p)
<1> DEFINE windows == draw_windows(vga_clear_screen(Desktop), order)
           bar == vga_draw_rect(windows, 0, 0, screen_width, STATUS_BAR_HEIGHT, StatusBar)
           text == vga_draw_string(bar, 0, 0, StatusText)
           mx == mouse[1]
           my == mouse[2]
           all == vga_draw_rect(text, mx, my, 1, 2, Cursor)
<1>1. Whole(windows) /\ \A p \in Pixel : windows.pixels[p] = Stacked(p)
  BY ClearWhole, WindowsDrawn
<1>2. wm_composite = all
  BY DEF wm_composite, draw_status_bar, vga_draw_cursor
<1> HIDE DEF windows
<1>3. Painted(bar, windows, 0, 0, screen_width, STATUS_BAR_HEIGHT, StatusBar)
  <2>1. 0 \in Int /\ 0 \in Nat /\ STATUS_BAR_HEIGHT # 0
    BY Sizes
  <2> QED
    BY <1>1, <2>1, Sizes, RectWhole
<1> HIDE DEF bar
<1>4. /\ Whole(text)
      /\ \A p \in Pixel : text.pixels[p] =
            IF <<p[1] - 0, p[2] - 0>> \in glyph THEN StatusText ELSE bar.pixels[p]
  BY <1>3, StringWhole DEF Painted
<1> HIDE DEF text
<1>5. mx \in Int /\ my \in Nat
  BY GraphicsAssumption DEF Typed
<1> HIDE DEF mx, my
<1>6. Painted(all, text, mx, my, 1, 2, Cursor)
  <2>1. 1 \in Nat /\ 2 \in Nat /\ 2 # 0
    OBVIOUS
  <2> QED
    BY <1>4, <1>5, <2>1, RectWhole
<1> HIDE DEF all
<1>7. ASSUME NEW p \in Pixel PROVE all.pixels[p] = Picture(p)
  <2>1. p = <<p[1], p[2]>> /\ p[1] \in 0..(screen_width - 1) /\ p[2] \in 0..(screen_height - 1)
    BY DEF Pixel
  <2>2. p[1] - mx \in 0..(1 - 1) <=> p[1] = mx
    BY <1>5, <2>1, Sizes
  <2>3. p[2] - my \in 0..(2 - 1) <=> p[2] \in {my, my + 1}
    BY <1>5, <2>1, Sizes
  <2>8. Within(p, mx, my, 1, 2) <=> p[1] = mx /\ p[2] \in {my, my + 1}
    BY <2>2, <2>3 DEF Within
  <2>4. p[1] - 0 = p[1] /\ p[2] - 0 = p[2]
    BY <2>1, Sizes
  <2>5. Within(p, 0, 0, screen_width, STATUS_BAR_HEIGHT) <=> p[2] < STATUS_BAR_HEIGHT
    <3>1. p[2] \in 0..(STATUS_BAR_HEIGHT - 1) <=> p[2] < STATUS_BAR_HEIGHT
      BY <2>1, Sizes
    <3> QED
      BY <2>1, <2>4, <3>1 DEF Within
  <2>6. p \in glyph => p[2] < STATUS_BAR_HEIGHT
    BY <2>1, Sizes DEF glyph
  <2>7. text.pixels[p] = IF p[2] < STATUS_BAR_HEIGHT
                         THEN IF p \in glyph THEN StatusText ELSE StatusBar
                         ELSE Stacked(p)
    BY <1>1, <1>3, <1>4, <2>1, <2>4, <2>5, <2>6 DEF Painted
  <2> QED
    BY <1>6, <2>7, <2>8, PictureIs DEF Painted, mx, my
<1> QED
  BY <1>2, <1>6, <1>7 DEF Painted

\* The flip of a whole buffer copies every row.
LEMMA FlipShows ==
    ASSUME NEW fb, Whole(fb), NEW p \in Pixel
    PROVE  vga_flip(fb)[p] = fb.pixels[p]
<1>1. (screen_height - 1 - 0 + 1) % WORD = screen_height
  <2>1. screen_height - 1 - 0 + 1 = screen_height
    BY Sizes
  <2>2. screen_height % WORD = screen_height
    BY Sizes, InWord
  <2> QED
    BY <2>1, <2>2
<1>2. p[2] \in 0..(0 + screen_height - 1)
  BY Sizes DEF Pixel
<1>3. fb.dirty_y_min = 0 /\ fb.dirty_y_max = screen_height - 1
  BY DEF Whole
<1> QED
  BY <1>1, <1>2, <1>3 DEF vga_flip

(***************************************************************************)
(* Drawing calls                                                           *)
(***************************************************************************)
Cells == 0..(Width * (Height + HEADER_OFFSET) - 1)

Shaped ==
    /\ pixel_buffer \in [Wins -> [Cells -> {Black} \cup Colors]]
    /\ drawn \in [Wins -> [Content -> {Black} \cup Colors]]

\* The cells of the contents lie in the buffer, and no two are one.
LEMMA IndexOK ==
    ASSUME NEW p \in Content
    PROVE  /\ Index(p[1], p[2]) \in Cells
           /\ \A q \in Content : Index(q[1], q[2]) = Index(p[1], p[2]) => q = p
<1>1. /\ p = <<p[1], p[2]>> /\ p[1] \in 0..(Width - 1) /\ p[2] \in 0..(Height - 1)
      /\ p[1] \in Int /\ p[2] \in Int
  BY Sizes DEF Content
<1>2. Index(p[1], p[2]) \in Cells
  <2> DEFINE r == p[2] + HEADER_OFFSET
             t == Height + HEADER_OFFSET
  <2>1. r \in Nat /\ t \in Nat /\ r + 1 <= t
    BY <1>1, Sizes
  <2> HIDE DEF r, t
  <2>4. r * Width + p[1] \in 0..(Width * t - 1)
    BY <1>1, <2>1, Sizes, CellInside
  <2> QED
    BY <2>4 DEF Index, Cells, r, t
<1>3. ASSUME NEW q \in Content, Index(q[1], q[2]) = Index(p[1], p[2]) PROVE q = p
  <2>1. /\ q = <<q[1], q[2]>> /\ q[1] \in 0..(Width - 1) /\ q[2] \in 0..(Height - 1)
        /\ q[1] \in Int /\ q[2] \in Int
    BY Sizes DEF Content
  <2> DEFINE i == q[2] + HEADER_OFFSET
             j == p[2] + HEADER_OFFSET
  <2>2. i \in Int /\ j \in Int /\ Width \in Nat
    BY <1>1, <2>1, Sizes
  <2>3. i * Width + q[1] = j * Width + p[1]
    BY <1>3 DEF Index
  <2> HIDE DEF i, j
  <2>4. i = j /\ q[1] = p[1]
    BY <1>1, <2>1, <2>2, <2>3, CellsDiffer
  <2>5. q[2] = p[2]
    BY <1>1, <2>1, <2>4, Sizes DEF i, j
  <2> QED
    BY <1>1, <2>1, <2>4, <2>5
<1> QED
  BY <1>2, <1>3

\* A call that paints the cells of the pixels it draws keeps buffer and
\* contents alike.
LEMMA PaintKeeps ==
    ASSUME Shaped, Buffered, NEW w \in Wins, NEW color \in Colors, NEW points,
           NEW hit, Paint(w, points, color),
           pixel_buffer' = [pixel_buffer EXCEPT ![w] =
                              [i \in DOMAIN @ |-> IF i \in hit THEN color ELSE @[i]]],
           \A p \in Content : Index(p[1], p[2]) \in hit <=> p \in points
    PROVE  Shaped' /\ Buffered'
<1> DEFINE buffer == [i \in Cells |-> IF i \in hit THEN color ELSE pixel_buffer[w][i]]
           contents == [p \in Content |-> IF p \in points THEN color ELSE drawn[w][p]]
<1>1. pixel_buffer' = [pixel_buffer EXCEPT ![w] = buffer]
  BY DEF Shaped
<1>2. drawn' = [drawn EXCEPT ![w] = contents]
  BY DEF Paint, Shaped
<1>3. buffer \in [Cells -> {Black} \cup Colors] /\ contents \in [Content -> {Black} \cup Colors]
  BY DEF Shaped
<1>4. ASSUME NEW p \in Content PROVE buffer[Index(p[1], p[2])] = contents[p]
  <2>1. Index(p[1], p[2]) \in Cells
    BY IndexOK
  <2>2. pixel_buffer[w][Index(p[1], p[2])] = drawn[w][p]
    BY DEF Buffered
  <2> QED
    BY <2>1, <2>2
<1> HIDE DEF buffer, contents
<1>5. Shaped'
  BY <1>1, <1>2, <1>3 DEF Shaped
<1>6. ASSUME NEW v \in Wins, NEW p \in Content
      PROVE  pixel_buffer'[v][Index(p[1], p[2])] = drawn'[v][p]
  <2>1. CASE v = w
    <3>1. pixel_buffer'[v] = buffer /\ drawn'[v] = contents
      BY <1>1, <1>2, <2>1 DEF Shaped
    <3> QED
      BY <1>4, <3>1
  <2>2. CASE v # w
    <3>1. pixel_buffer'[v] = pixel_buffer[v] /\ drawn'[v] = drawn[v]
      BY <1>1, <1>2, <2>2 DEF Shaped
    <3> QED
      BY <3>1 DEF Buffered
  <2> QED
    BY <2>1, <2>2
<1>7. Buffered'
  BY <1>6 DEF Buffered, Index
<1> QED
  BY <1>5, <1>7

LEMMA PutKeeps ==
    ASSUME Shaped, Buffered, NEW w \in Wins, NEW points, NEW color \in Colors,
           window_put_pixel(w, points, color)
    PROVE  Shaped' /\ Buffered'
<1> DEFINE hit == {Index(p[1], p[2]) : p \in points \cap Content}
<1>1. pixel_buffer' = [pixel_buffer EXCEPT ![w] =
                          [i \in DOMAIN @ |-> IF i \in hit THEN color ELSE @[i]]]
      /\ Paint(w, points, color)
  BY DEF window_put_pixel
<1>2. ASSUME NEW p \in Content PROVE Index(p[1], p[2]) \in hit <=> p \in points
  <2>1. p \in points => Index(p[1], p[2]) \in hit
    OBVIOUS
  <2>2. ASSUME Index(p[1], p[2]) \in hit PROVE p \in points
    <3>1. PICK q \in points \cap Content : Index(p[1], p[2]) = Index(q[1], q[2])
      BY <2>2
    <3>2. q = p
      BY <3>1, IndexOK
    <3> QED
      BY <3>2
  <2> QED
    BY <2>1, <2>2
<1> HIDE DEF hit
<1> QED
  BY <1>1, <1>2, PaintKeeps

LEMMA RectKeeps ==
    ASSUME Shaped, Buffered, NEW w \in Wins, NEW x \in Int, NEW y \in Int, NEW wd \in Nat,
           NEW ht \in Nat, NEW color \in Colors, window_draw_rect(w, x, y, wd, ht, color)
    PROVE  Shaped' /\ Buffered'
<1> DEFINE x0 == max(x, 0)
           y0 == max(y, 0)
           x1 == min(x + wd, Width)
           y1 == min(y + ht, Height)
           Cut(row) == Index(x0, row)..(Index(x0, row) + x1 - x0 - 1)
           offsets == UNION {Cut(row) : row \in y0..(y1 - 1)}
           hit == {i \in offsets : x1 > x0}
           points == (x..(x + wd - 1)) \X (y..(y + ht - 1))
<1>1. Paint(w, points, color)
  BY DEF window_draw_rect
<1>2. pixel_buffer' = [pixel_buffer EXCEPT ![w] =
                          [i \in DOMAIN @ |-> IF i \in hit THEN color ELSE @[i]]]
  <2>1. pixel_buffer' = [pixel_buffer EXCEPT ![w] =
           [i \in DOMAIN @ |-> IF x1 > x0 /\ i \in offsets THEN color ELSE @[i]]]
    BY DEF window_draw_rect
  <2>2. \A i : i \in hit <=> x1 > x0 /\ i \in offsets
    OBVIOUS
  <2> HIDE DEF hit, offsets, x0, x1
  <2> QED
    BY <2>1, <2>2
<1>3. /\ Width \in Nat /\ Height \in Nat /\ HEADER_OFFSET \in Nat
      /\ x0 \in Nat /\ y0 \in Nat /\ x1 \in Int /\ y1 \in Int
      /\ x1 <= Width /\ y1 <= Height
      /\ \A c \in Nat : c < Width => (c \in x0..(x1 - 1) <=> c \in x..(x + wd - 1))
      /\ \A c \in Nat : c < Height => (c \in y0..(y1 - 1) <=> c \in y..(y + ht - 1))
  BY Sizes DEF max, min
<1>4. \A i : i \in hit <=> x1 > x0 /\ \E row \in y0..(y1 - 1) : i \in Cut(row)
  OBVIOUS
<1> HIDE DEF x0, y0, x1, y1, hit, offsets
<1>5. ASSUME NEW p \in Content PROVE Index(p[1], p[2]) \in hit <=> p \in points
  <2>1. /\ p = <<p[1], p[2]>> /\ p[1] \in 0..(Width - 1) /\ p[2] \in 0..(Height - 1)
        /\ p[1] \in Nat /\ p[2] \in Nat /\ p[1] < Width /\ p[2] < Height
    BY <1>3 DEF Content
  <2>2. p \in points <=> p[1] \in x0..(x1 - 1) /\ p[2] \in y0..(y1 - 1)
    <3>1. p \in points <=> p[1] \in x..(x + wd - 1) /\ p[2] \in y..(y + ht - 1)
      BY <2>1
    <3> QED
      BY <1>3, <2>1, <3>1
  <2>3. ASSUME Index(p[1], p[2]) \in hit PROVE p \in points
    <3>1. PICK row \in y0..(y1 - 1) : Index(p[1], p[2]) \in Cut(row)
      BY <1>4, <2>3
    <3>2. /\ row \in Int /\ Index(x0, row) \in Int /\ Index(p[1], p[2]) \in Int
      BY <1>3, <2>1 DEF Index
    <3>3. PICK d \in 0..(x1 - x0 - 1) : Index(p[1], p[2]) = Index(x0, row) + d
      <4>1. Index(p[1], p[2]) - Index(x0, row) \in 0..(x1 - x0 - 1)
        BY <1>3, <3>1, <3>2
      <4>2. Index(p[1], p[2]) = Index(x0, row) + (Index(p[1], p[2]) - Index(x0, row))
        BY <3>2
      <4> QED
        BY <4>1, <4>2
    <3> DEFINE i == p[2] + HEADER_OFFSET
               j == row + HEADER_OFFSET
    <3>4. i \in Int /\ j \in Int /\ x0 + d \in 0..(Width - 1)
      BY <1>3, <2>1, <3>2, <3>3
    <3>5. i * Width + p[1] = j * Width + (x0 + d)
      <4>1. PICK u \in Int, v \in Int : u = i * Width /\ v = j * Width
        BY <1>3, <3>4
      <4>2. u + p[1] = v + x0 + d
        BY <3>3, <4>1 DEF Index
      <4> QED
        BY <1>3, <2>1, <3>3, <4>1, <4>2
    <3> HIDE DEF i, j
    <3>6. i = j /\ p[1] = x0 + d
      BY <1>3, <2>1, <3>4, <3>5, CellsDiffer
    <3>7. p[2] = row
      BY <1>3, <2>1, <3>2, <3>6 DEF i, j
    <3>8. p[1] \in x0..(x1 - 1)
      BY <1>3, <3>3, <3>6
    <3> QED
      BY <2>2, <3>7, <3>8
  <2>4. ASSUME p \in points PROVE Index(p[1], p[2]) \in hit
    <3>1. p[1] \in x0..(x1 - 1) /\ p[2] \in y0..(y1 - 1) /\ x1 > x0
      BY <1>3, <2>1, <2>2, <2>4
    <3> DEFINE u == (p[2] + HEADER_OFFSET) * Width
    <3>2. u \in Int
      BY <1>3, <2>1
    <3>3. Index(p[1], p[2]) = u + p[1] /\ Index(x0, p[2]) = u + x0
      BY DEF Index
    <3> HIDE DEF u
    <3>4. Index(p[1], p[2]) \in Cut(p[2])
      BY <1>3, <2>1, <3>1, <3>2, <3>3
    <3> QED
      BY <1>4, <3>1, <3>4
  <2> QED
    BY <2>3, <2>4
<1> QED
  BY <1>1, <1>2, <1>5, PaintKeeps

(***************************************************************************)
(* The steps                                                               *)
(***************************************************************************)
ScreenInv == Typed /\ Shaped /\ Buffered /\ (current => ~SticksOut /\ ScreenShows)

\* The picture depends on no other variable.
LEMMA PictureStays ==
    ASSUME UNCHANGED <<place, drawn, order, focused, mouse>>
    PROVE  /\ \A p \in Pixel : Picture(p)' = Picture(p)
           /\ SticksOut' <=> SticksOut
BY DEF Picture, Covers, SticksOut, ToSet

\* A step after which the screen may be out of date, or that changes nothing
\* the picture depends on.
LEMMA StepKeeps ==
    ASSUME ScreenInv, Typed', Shaped', Buffered',
           current' => /\ current
                       /\ UNCHANGED <<place, drawn, order, focused, mouse, screen>>
    PROVE  ScreenInv'
<1>1. ASSUME current' PROVE ~SticksOut' /\ ScreenShows'
  <2>1. current /\ UNCHANGED <<place, drawn, order, focused, mouse, screen>>
    BY <1>1
  <2>2. (\A p \in Pixel : Picture(p)' = Picture(p)) /\ (SticksOut' <=> SticksOut)
    BY <2>1, PictureStays
  <2>3. ~SticksOut /\ \A p \in Pixel : screen[p] = Picture(p)
    BY <2>1 DEF ScreenInv, ScreenShows
  <2>4. \A p \in Pixel : screen'[p] = Picture(p)'
    BY <2>1, <2>2, <2>3
  <2> QED
    BY <2>2, <2>3, <2>4 DEF ScreenShows
<1> QED
  BY <1>1 DEF ScreenInv

LEMMA PaintingKeeps ==
    ASSUME ScreenInv, Shaped' /\ Buffered', NEW w, NEW points, NEW color, Paint(w, points, color)
    PROVE  ScreenInv'
<1>1. current' = FALSE /\ UNCHANGED <<place, order, focused, mouse>>
  BY DEF Paint
<1>2. Typed'
  BY <1>1 DEF ScreenInv, Typed, Count
<1> QED
  BY <1>1, <1>2, StepKeeps

\* The stack without a window: the others are still there.
LEMMA WithoutIs ==
    ASSUME Typed, NEW w \in ToSet(order)
    PROVE  /\ w \in Wins
           /\ Without(w) \in Seq(Wins)
           /\ \A i \in 1..Count : order[i] # w =>
                 \E j \in 1..Len(Without(w)) : Without(w)[j] = order[i]
<1> DEFINE at == CHOOSE i \in 1..Count : order[i] = w
           rest == [i \in 1..(Count - 1) |-> IF i < at THEN order[i] ELSE order[i + 1]]
<1>1. at \in 1..Count /\ order[at] = w
  BY Stack
<1>2. Count \in Nat /\ \A i \in 1..Count : order[i] \in Wins
  BY Stack
<1>3. Without(w) = rest
  BY DEF Without, Count
<1> HIDE DEF at
<1>4. rest \in Seq(Wins) /\ Len(rest) = Count - 1
  <2>1. Count - 1 \in Nat
    BY <1>1, <1>2
  <2>2. ASSUME NEW i \in 1..(Count - 1) PROVE rest[i] \in Wins
    <3>1. i \in 1..Count /\ i + 1 \in 1..Count
      BY <1>2
    <3>2. order[i] \in Wins /\ order[i + 1] \in Wins
      BY <1>2, <3>1
    <3> QED
      BY <3>2
  <2> DEFINE n == Count - 1
  <2>3. rest \in [1..n -> Wins]
    BY <2>2
  <2>4. DOMAIN rest = 1..n
    OBVIOUS
  <2> HIDE DEF rest, n
  <2>5. n \in Nat
    BY <2>1 DEF n
  <2>6. rest \in Seq(Wins) /\ Len(rest) = n
    BY <2>3, <2>4, <2>5
  <2> QED
    BY <2>6 DEF n
<1>5. ASSUME NEW i \in 1..Count, order[i] # w
      PROVE  \E j \in 1..(Count - 1) : rest[j] = order[i]
  <2>1. CASE i < at
    <3>1. i \in 1..(Count - 1)
      BY <1>1, <1>2, <2>1
    <3>2. rest[i] = order[i]
      BY <2>1, <3>1
    <3> QED
      BY <3>1, <3>2
  <2>2. CASE i > at
    <3>1. i - 1 \in 1..(Count - 1) /\ ~(i - 1 < at) /\ i - 1 + 1 = i
      BY <1>1, <1>2, <2>2
    <3>2. rest[i - 1] = order[i - 1 + 1]
      BY <3>1
    <3> QED
      BY <3>1, <3>2
  <2>3. i # at
    BY <1>1, <1>5
  <2> QED
    BY <1>1, <1>2, <2>1, <2>2, <2>3
<1> HIDE DEF rest
<1>6. w \in Wins
  BY <1>1, <1>2
<1> QED
  BY <1>3, <1>4, <1>5, <1>6

\* Without a window, and with another focus, or none.
LEMMA WithoutKeeps ==
    ASSUME Typed, NEW w \in ToSet(order), order' = Without(w), focused' \in {focused, "none"},
           focused' # w, place' \in [Wins -> Int \X Int], mouse' = mouse
    PROVE  Typed'
<1>1. ASSUME focused' \in Wins PROVE \E i \in 1..Len(order') : order'[i] = focused'
  <2>1. focused' = focused
    BY <1>1, GraphicsAssumption
  <2>2. PICK i \in 1..Count : order[i] = focused
    BY <1>1, <2>1 DEF Typed
  <2> QED
    BY <2>1, <2>2, WithoutIs
<1> QED
  BY <1>1, WithoutIs DEF Typed, Count

\* On top of a stack that holds the focused window already, or is focused.
LEMMA AppendKeeps ==
    ASSUME mouse \in Spots, NEW s \in Seq(Wins), NEW w \in Wins, order' = Append(s, w),
           focused' = w \/ (focused' \in Wins => \E i \in 1..Len(s) : s[i] = focused'),
           place' \in [Wins -> Int \X Int], mouse' = mouse
    PROVE  Typed'
<1>1. Append(s, w) \in Seq(Wins) /\ Len(Append(s, w)) = Len(s) + 1 /\ Len(s) \in Nat
  OBVIOUS
<1>2. \A i \in 1..Len(s) : Append(s, w)[i] = s[i] /\ i \in 1..(Len(s) + 1)
  OBVIOUS
<1>3. Append(s, w)[Len(s) + 1] = w /\ Len(s) + 1 \in 1..(Len(s) + 1)
  BY <1>1
<1>4. ASSUME focused' \in Wins
      PROVE  \E i \in 1..(Len(s) + 1) : Append(s, w)[i] = focused'
  BY <1>2, <1>3, <1>4
<1> QED
  BY <1>1, <1>4 DEF Typed, Count

LEMMA CreateKeeps ==
    ASSUME ScreenInv, NEW w \in Wins, NEW p \in Places, wm_create_window(w, p)
    PROVE  ScreenInv'
<1>1. /\ place' = [place EXCEPT ![w] = p]
      /\ pixel_buffer' = [pixel_buffer EXCEPT ![w] = BlankBuffer]
      /\ drawn' = [drawn EXCEPT ![w] = BlankContent]
      /\ order' = Append(order, w) /\ current' = FALSE
      /\ UNCHANGED <<focused, mouse>>
  BY DEF wm_create_window
<1>2. Typed'
  <2>1. p \in Int \X Int
    BY GraphicsAssumption
  <2>2. place' \in [Wins -> Int \X Int]
    BY <1>1, <2>1 DEF ScreenInv, Typed
  <2>3. order \in Seq(Wins) /\ mouse \in Spots
    BY DEF ScreenInv, Typed
  <2>4. focused' \in Wins => \E i \in 1..Len(order) : order[i] = focused'
    BY <1>1 DEF ScreenInv, Typed, Count
  <2> QED
    BY <1>1, <2>2, <2>3, <2>4, AppendKeeps
<1>3. BlankBuffer = [i \in Cells |-> Black] /\ BlankContent = [q \in Content |-> Black]
  BY DEF BlankBuffer, BlankContent, Cells
<1>4. Shaped'
  BY <1>1, <1>3 DEF ScreenInv, Shaped
<1>5. ASSUME NEW v \in Wins, NEW q \in Content
      PROVE  pixel_buffer'[v][Index(q[1], q[2])] = drawn'[v][q]
  <2>1. CASE v = w
    <3>1. pixel_buffer'[v] = BlankBuffer /\ drawn'[v] = BlankContent
      BY <1>1, <2>1 DEF ScreenInv, Shaped
    <3>2. Index(q[1], q[2]) \in Cells
      BY IndexOK
    <3> QED
      BY <1>3, <3>1, <3>2
  <2>2. CASE v # w
    <3>1. pixel_buffer'[v] = pixel_buffer[v] /\ drawn'[v] = drawn[v]
      BY <1>1, <2>2 DEF ScreenInv, Shaped
    <3> QED
      BY <3>1 DEF ScreenInv, Buffered
  <2> QED
    BY <2>1, <2>2
<1>6. Buffered'
  BY <1>5 DEF Buffered, Index
<1> QED
  BY <1>1, <1>2, <1>4, <1>6, StepKeeps

LEMMA RemoveKeeps ==
    ASSUME ScreenInv, NEW w, remove_window(w)
    PROVE  ScreenInv'
<1>1. /\ w \in ToSet(order) /\ order' = Without(w) /\ current' = FALSE
      /\ focused' = IF focused = w THEN "none" ELSE focused
      /\ UNCHANGED <<place, pixel_buffer, drawn, mouse>>
  BY DEF remove_window
<1>2. Typed'
  <2>1. w \in Wins
    BY <1>1, WithoutIs DEF ScreenInv
  <2>2. focused' # w /\ focused' \in {focused, "none"}
    BY <1>1, <2>1, GraphicsAssumption
  <2> QED
    BY <1>1, <2>2, WithoutKeeps DEF ScreenInv, Typed
<1>3. Shaped' /\ Buffered'
  BY <1>1 DEF ScreenInv, Shaped, Buffered, Index
<1> QED
  BY <1>1, <1>2, <1>3, StepKeeps

\* The drag and the press of a timer interrupt.
LEMMA UpdateKeeps ==
    ASSUME ScreenInv, NEW held, NEW to \in Places, update_window(held, to)
    PROVE  ScreenInv'
<1>1. /\ place' = [w \in Wins |-> IF w \in Followers(held) THEN to ELSE place[w]]
      /\ UNCHANGED <<pixel_buffer, drawn, mouse, screen>>
      /\ UNCHANGED <<order, focused>> \/ \E w \in ToSet(order) : update_window_click(w)
  BY DEF update_window, update_window_drag
<1>2. current' => current /\ place' = place /\ order' = order /\ focused' = focused
  BY Zenon DEF update_window
<1>3. place' \in [Wins -> Int \X Int]
  <2>1. to \in Int \X Int
    BY GraphicsAssumption
  <2> QED
    BY <1>1, <2>1 DEF ScreenInv, Typed
<1>4. Typed'
  <2>1. CASE UNCHANGED <<order, focused>>
    BY <1>1, <1>3, <2>1 DEF ScreenInv, Typed, Count
  <2>2. ASSUME NEW w \in ToSet(order), update_window_click(w) PROVE Typed'
    <3>1. w \in Wins /\ Without(w) \in Seq(Wins)
      BY WithoutIs DEF ScreenInv
    <3>2. CASE order' = Without(w) /\ focused' = "none"
      <4>1. focused' # w
        BY <3>1, <3>2, GraphicsAssumption
      <4> QED
        BY <1>1, <1>3, <3>2, <4>1, WithoutKeeps DEF ScreenInv
    <3>3. CASE order' = Append(Without(w), w) /\ focused' = w
      BY <1>1, <1>3, <3>1, <3>3, AppendKeeps DEF ScreenInv, Typed
    <3> QED
      BY <2>2, <3>2, <3>3 DEF update_window_click
  <2> QED
    BY <1>1, <2>1, <2>2
<1>5. Shaped' /\ Buffered'
  BY <1>1 DEF ScreenInv, Shaped, Buffered, Index
<1> QED
  BY <1>1, <1>2, <1>4, <1>5, StepKeeps

LEMMA TickKeeps ==
    ASSUME ScreenInv, NEW device \in BOOLEAN, timer_handler_main(device)
    PROVE  ScreenInv'
<1>1. /\ screen' = IF device THEN vga_flip(wm_composite) ELSE screen
      /\ current' = (current \/ (device /\ ~SticksOut))
      /\ UNCHANGED <<place, pixel_buffer, drawn, order, focused, mouse>>
  BY DEF timer_handler_main
<1>2. Typed' /\ Shaped' /\ Buffered'
  BY <1>1 DEF ScreenInv, Typed, Count, Shaped, Buffered, Index
<1>3. ASSUME current' PROVE ~SticksOut' /\ ScreenShows'
  <2>1. ~SticksOut
    BY <1>1, <1>3 DEF ScreenInv
  <2>2. ASSUME NEW p \in Pixel PROVE screen'[p] = Picture(p)
    <3>1. CASE device
      <4>1. Whole(wm_composite) /\ wm_composite.pixels[p] = Picture(p)
        BY <2>1, CompositeShows DEF ScreenInv
      <4>2. screen'[p] = vga_flip(wm_composite)[p]
        BY <1>1, <3>1
      <4> QED
        BY <4>1, <4>2, FlipShows
    <3>2. CASE ~device
      BY <1>1, <1>3, <3>2 DEF ScreenInv, ScreenShows
    <3> QED
      BY <3>1, <3>2
  <2>3. (\A p \in Pixel : Picture(p)' = Picture(p)) /\ (SticksOut' <=> SticksOut)
    BY <1>1, PictureStays
  <2>4. \A p \in Pixel : screen'[p] = Picture(p)'
    BY <2>2, <2>3
  <2> QED
    BY <2>1, <2>3, <2>4 DEF ScreenShows
<1> QED
  BY <1>2, <1>3 DEF ScreenInv

LEMMA InitKept == ScreenInit => ScreenInv
<1> SUFFICES ASSUME ScreenInit PROVE ScreenInv
  OBVIOUS
<1>1. Typed
  <2>1. place \in [Wins -> Int \X Int]
    BY GraphicsAssumption DEF ScreenInit
  <2>2. order \in Seq(Wins)
    <3>1. PICK w \in Wins : order = <<w>>
      BY DEF ScreenInit
    <3> QED
      BY <3>1
  <2>3. focused \notin Wins
    BY GraphicsAssumption DEF ScreenInit
  <2> QED
    BY <2>1, <2>2, <2>3 DEF Typed, ScreenInit
<1>2. Shaped
  BY DEF Shaped, ScreenInit, Cells, BlankBuffer, BlankContent
<1>3. Buffered
  <2> SUFFICES ASSUME NEW w \in Wins, NEW p \in Content
               PROVE  pixel_buffer[w][Index(p[1], p[2])] = drawn[w][p]
    BY DEF Buffered
  <2>1. Index(p[1], p[2]) \in Cells
    BY IndexOK
  <2>2. pixel_buffer[w] = [i \in Cells |-> Black] /\ drawn[w] = [q \in Content |-> Black]
    BY DEF ScreenInit, Cells, BlankBuffer, BlankContent
  <2> QED
    BY <2>1, <2>2
<1>4. current = FALSE
  BY DEF ScreenInit
<1> QED
  BY <1>1, <1>2, <1>3, <1>4 DEF ScreenInv

\* What the drawing calls, the pointer and the timer keep
\* (syscall.c, window.c, vga-graphics.c).
THEOREM ScreenInvInductive == ScreenInv /\ [ScreenNext]_screen_vars => ScreenInv'
<1> SUFFICES ASSUME ScreenInv, [ScreenNext]_screen_vars PROVE ScreenInv'
  OBVIOUS
<1>1. ASSUME NEW device \in BOOLEAN, timer_handler_main(device) PROVE ScreenInv'
  BY <1>1, TickKeeps
<1>2. ASSUME NEW w \in Wins, NEW x \in Reach, NEW y \in Reach, NEW wd \in 1..2, NEW ht \in 1..2,
             NEW color \in Colors, window_draw_rect(w, x, y, wd, ht, color)
      PROVE  ScreenInv'
  <2>1. x \in Int /\ y \in Int /\ wd \in Nat /\ ht \in Nat
    BY GraphicsAssumption
  <2>2. Shaped' /\ Buffered'
    BY <1>2, <2>1, RectKeeps DEF ScreenInv
  <2> QED
    BY <1>2, <2>2, PaintingKeeps DEF window_draw_rect
<1>3. ASSUME NEW w \in Wins, NEW points, NEW color \in Colors, window_put_pixel(w, points, color)
      PROVE  ScreenInv'
  <2>1. Shaped' /\ Buffered'
    BY <1>3, PutKeeps DEF ScreenInv
  <2> QED
    BY <1>3, <2>1, PaintingKeeps DEF window_put_pixel
<1>4. ASSUME NEW w \in Wins, NEW x0 \in Reach, NEW y0 \in Reach, NEW x1 \in Reach,
             NEW y1 \in Reach, NEW color \in Colors, window_draw_line(w, x0, y0, x1, y1, color)
      PROVE  ScreenInv'
  BY <1>3, <1>4 DEF window_draw_line
<1>5. ASSUME NEW w \in Wins, NEW x \in Reach, NEW y \in Reach, NEW color \in Colors,
             window_draw_string(w, x, y, color)
      PROVE  ScreenInv'
  BY <1>3, <1>5 DEF window_draw_string
<1>6. ASSUME NEW w \in Wins, NEW p \in Places, wm_create_window(w, p) PROVE ScreenInv'
  BY <1>6, CreateKeeps
<1>7. ASSUME NEW w \in Wins, remove_window(w) PROVE ScreenInv'
  BY <1>7, RemoveKeeps
<1>8. ASSUME NEW held \in BOOLEAN, NEW to \in Places, update_window(held, to) PROVE ScreenInv'
  BY <1>8, UpdateKeeps
<1>9. ASSUME NEW p \in Spots, mouse_handler_main(p) PROVE ScreenInv'
  <2>1. /\ mouse' = p /\ current' = FALSE
        /\ UNCHANGED <<place, pixel_buffer, drawn, order, focused>>
    BY <1>9 DEF mouse_handler_main
  <2>2. Typed' /\ Shaped' /\ Buffered'
    BY <2>1 DEF ScreenInv, Typed, Count, Shaped, Buffered, Index
  <2> QED
    BY <2>1, <2>2, StepKeeps
<1>10. CASE UNCHANGED screen_vars
  <2>1. /\ UNCHANGED <<place, pixel_buffer, drawn, order, focused, mouse, screen>>
        /\ current' = current
    BY <1>10 DEF screen_vars
  <2>2. Typed' /\ Shaped' /\ Buffered'
    BY <2>1 DEF ScreenInv, Typed, Count, Shaped, Buffered, Index
  <2> QED
    BY <2>1, <2>2, StepKeeps
<1> QED
  BY <1>1, <1>2, <1>4, <1>5, <1>6, <1>7, <1>8, <1>9, <1>10 DEF ScreenNext

\* However the windows lie over each other and over the edges of the screen,
\* a tick that reaches the device brings every pixel up to date (wm_composite,
\* vga_flip), unless a window sticks out at the top.
THEOREM ScreenIsPicture == ScreenSpec => []ScreenShows
<1>1. ScreenInit => ScreenInv
  BY InitKept
<1>2. ScreenInv /\ [ScreenNext]_screen_vars => ScreenInv'
  BY ScreenInvInductive
<1>3. ScreenInv => ScreenShows
  BY DEF ScreenInv, ScreenShows
<1> QED
  BY <1>1, <1>2, <1>3, PTL DEF ScreenSpec
=============================================================================
