---------------------------- MODULE StdinProofs ----------------------------
(***************************************************************************)
(* The ring of stdin.c holds the line typed and a waiting reader lacks     *)
(* characters, for every size of the ring, every alphabet and every set of *)
(* read lengths.                                                           *)
(***************************************************************************)
EXTENDS Stdin, SequenceTheorems, TLAPS

Ch == Char \cup {NL, BS, SP, NUL}

Ring == [buffer : [Slot -> Ch], read_index : Slot, write_index : Slot, count : Nat]

\* Ring s holds exactly the characters of l.
Holds(s, l) ==
    /\ s.count \in 0..Size
    /\ s.write_index = (s.read_index + s.count) % Size
    /\ Len(l) = s.count
    /\ \A i \in 1..s.count : l[i] = s.buffer[(s.read_index + (i - 1)) % Size]

IInv ==
    /\ stdin \in Ring
    /\ line \in Seq(Ch)
    /\ requested_len \in {-1} \cup (Nat \ {0})
    /\ ~skewed => Holds(stdin, line)
    /\ ReaderNeedsMore

(***************************************************************************)
(* Indices                                                                 *)
(***************************************************************************)
LEMMA Remainder == ASSUME NEW x \in Int PROVE x % Size \in Slot
<1>1. Size \in Nat \ {0}
  BY StdinAssumption DEF Size
<1> QED
  BY <1>1 DEF Slot

\* One wrap of an index below twice the size of the ring.
LEMMA Wrap ==
    ASSUME NEW n \in Nat \ {0}, NEW x \in 0..(2 * n - 1)
    PROVE  x % n = IF x < n THEN x ELSE x - n
<1> DEFINE q == x \div n
           r == x % n
<1>1. q \in Int /\ r \in 0..(n - 1) /\ x = n * q + r
  OBVIOUS
<1> HIDE DEF q, r
<1>2. q < 2
  <2> SUFFICES ASSUME q >= 2 PROVE FALSE
    BY <1>1
  <2> QED
    BY <1>1
<1>3. q > -1
  <2> SUFFICES ASSUME q <= -1 PROVE FALSE
    BY <1>1
  <2> QED
    BY <1>1
<1>4. CASE q = 0
  BY <1>1, <1>4 DEF r
<1>5. CASE q = 1
  BY <1>1, <1>5 DEF r
<1> QED
  BY <1>1, <1>2, <1>3, <1>4, <1>5

LEMMA WrapSlot ==
    ASSUME NEW t \in Slot, NEW k \in 0..Size
    PROVE  /\ (t + k) % Size = IF t + k < Size THEN t + k ELSE t + k - Size
           /\ (t + k) % Size \in Slot
<1>1. Size \in Nat \ {0} /\ t \in Nat /\ k \in Nat /\ t + k \in 0..(2 * Size - 1)
  BY StdinAssumption DEF Slot, Size
<1> HIDE DEF Size
<1>2. PICK x \in 0..(2 * Size - 1) : x = t + k
  BY <1>1
<1>3. x % Size = IF x < Size THEN x ELSE x - Size
  BY <1>1, Wrap
<1> QED
  BY <1>1, <1>2, <1>3 DEF Slot

\* Different distances below the size of the ring reach different slots.
LEMMA SlotsDiffer ==
    ASSUME NEW t \in Slot, NEW j \in Nat, NEW k \in Nat, j < k, k < Size
    PROVE  (t + j) % Size # (t + k) % Size
<1>1. Size \in Nat \ {0} /\ j \in 0..Size /\ k \in 0..Size
  BY StdinAssumption DEF Size
<1>2. /\ (t + j) % Size = IF t + j < Size THEN t + j ELSE t + j - Size
      /\ (t + k) % Size = IF t + k < Size THEN t + k ELSE t + k - Size
  BY <1>1, WrapSlot
<1> QED
  BY <1>1, <1>2 DEF Slot

\* Going on from a slot that has been reached from another one.
LEMMA WrapTwice ==
    ASSUME NEW t \in Slot, NEW j \in Nat, NEW k \in Nat, j + k <= Size
    PROVE  (((t + j) % Size) + k) % Size = (t + (j + k)) % Size
<1>1. Size \in Nat \ {0} /\ j \in 0..Size /\ k \in 0..Size /\ j + k \in 0..Size
  BY StdinAssumption DEF Size
<1>2. /\ (t + j) % Size = IF t + j < Size THEN t + j ELSE t + j - Size
      /\ (t + j) % Size \in Slot
      /\ (t + (j + k)) % Size = IF t + (j + k) < Size THEN t + (j + k) ELSE t + (j + k) - Size
  BY <1>1, WrapSlot
<1> DEFINE u == (t + j) % Size
<1>3. (u + k) % Size = IF u + k < Size THEN u + k ELSE u + k - Size
  BY <1>1, <1>2, WrapSlot
<1> HIDE DEF u
<1>4. (u + k) % Size = (t + (j + k)) % Size
  BY <1>1, <1>2, <1>3 DEF Slot, u
<1> QED
  BY <1>4 DEF u

(***************************************************************************)
(* The ring and the line                                                   *)
(***************************************************************************)
LEMMA SizeOK == Size \in Nat \ {0} /\ Slot = 0..(Size - 1)
BY StdinAssumption DEF Size, Slot

\* The three fields a write or a read may change, one at a time.
LEMMA WriteType ==
    ASSUME NEW s \in Ring, NEW c \in Ch
    PROVE  stdin_write(s, c) \in Ring
<1>1. /\ s.buffer \in [Slot -> Ch] /\ s.read_index \in Slot /\ s.write_index \in Slot
      /\ s.count \in Nat
  BY DEF Ring
<1>2. CASE c = BS /\ s.read_index # s.write_index
  <2> DEFINE w == max(0, s.write_index - 1)
             k == max(0, s.count - 1)
             b == [s.buffer EXCEPT ![w] = SP]
  <2>1. w \in Slot /\ k \in Nat
    BY <1>1, SizeOK DEF max
  <2>2. b \in [Slot -> Ch]
    BY <1>1, <2>1 DEF Ch
  <2>3. stdin_write(s, c) = [s EXCEPT !.buffer = b, !.write_index = w, !.count = k]
    BY <1>2 DEF stdin_write
  <2> HIDE DEF w, k, b
  <2> QED
    BY <2>1, <2>2, <2>3 DEF Ring
<1>3. CASE c = BS /\ s.read_index = s.write_index
  BY <1>3 DEF stdin_write
<1>4. CASE c # BS
  <2> DEFINE w == (s.write_index + 1) % Size
             k == s.count + 1
             b == [s.buffer EXCEPT ![s.write_index] = c]
  <2>1. s.write_index + 1 \in Int /\ k \in Nat
    BY <1>1, SizeOK
  <2>2. w \in Slot
    BY <2>1, Remainder
  <2>3. b \in [Slot -> Ch]
    BY <1>1
  <2>4. stdin_write(s, c) = [s EXCEPT !.buffer = b, !.write_index = w, !.count = k]
    BY <1>4 DEF stdin_write
  <2> HIDE DEF w, k, b
  <2> QED
    BY <2>1, <2>2, <2>3, <2>4 DEF Ring
<1> QED
  BY <1>2, <1>3, <1>4

LEMMA ReadType ==
    ASSUME NEW s \in Ring, NEW n \in 0..s.count
    PROVE  stdin_read(s, n) \in Ring
<1>1. /\ s.read_index \in Slot /\ s.count \in Nat /\ n \in Nat
      /\ s.count - n \in Nat /\ s.read_index + n \in Int
  BY SizeOK DEF Ring
<1> DEFINE r == (s.read_index + n) % Size
           k == s.count - n
<1>2. r \in Slot /\ k \in Nat
  BY <1>1, Remainder
<1>3. stdin_read(s, n) = [s EXCEPT !.read_index = r, !.count = k]
  BY DEF stdin_read
<1> HIDE DEF r, k
<1> QED
  BY <1>2, <1>3 DEF Ring

\* A read of n characters takes the first n of the line.
LEMMA ReadHolds ==
    ASSUME NEW s \in Ring, NEW l \in Seq(Ch), Holds(s, l), NEW n \in 0..s.count
    PROVE  Rest(l, n) \in Seq(Ch) /\ Holds(stdin_read(s, n), Rest(l, n))
<1> DEFINE r == stdin_read(s, n)
           m == Rest(l, n)
<1>1. /\ s.read_index \in Slot /\ s.count \in Nat /\ s.count \in 0..Size /\ Len(l) = s.count
      /\ n \in Nat /\ n <= s.count /\ Size \in Nat
  BY SizeOK DEF Ring, Holds
<1>2. /\ r.buffer = s.buffer /\ r.write_index = s.write_index /\ r.count = s.count - n
      /\ r.read_index = (s.read_index + n) % Size
  BY DEF stdin_read, Ring
<1>3. m = SubSeq(l, 1 + n, Len(l))
  BY <1>1 DEF Rest, min
<1>4. \A i \in (1 + n)..Len(l) : l[i] \in Ch
  BY <1>1, ElementOfSeq
<1>5. /\ m \in Seq(Ch) /\ Len(m) = s.count - n
      /\ \A i \in 1..(s.count - n) : m[i] = l[n + i]
  <2>1. 1 + n \in Int /\ Len(l) \in Int
    BY <1>1
  <2>2. /\ SubSeq(l, 1 + n, Len(l)) \in Seq(Ch)
        /\ Len(SubSeq(l, 1 + n, Len(l))) = IF 1 + n <= Len(l) THEN Len(l) - (1 + n) + 1 ELSE 0
        /\ \A i \in 1..(Len(l) - (1 + n) + 1) : SubSeq(l, 1 + n, Len(l))[i] = l[(1 + n) + i - 1]
    BY <1>4, <2>1, SubSeqProperties
  <2>3. \A i \in 1..(s.count - n) : i \in 1..(Len(l) - (1 + n) + 1) /\ (1 + n) + i - 1 = n + i
    BY <1>1
  <2> QED
    BY <1>1, <1>3, <2>2, <2>3
<1> HIDE DEF r, m
<1>6. r.write_index = (r.read_index + r.count) % Size
  <2>1. (((s.read_index + n) % Size) + (s.count - n)) % Size
           = (s.read_index + (n + (s.count - n))) % Size
    BY <1>1, WrapTwice
  <2>2. n + (s.count - n) = s.count
    BY <1>1
  <2> QED
    BY <1>2, <2>1, <2>2 DEF Holds
<1>7. ASSUME NEW i \in 1..r.count PROVE m[i] = r.buffer[(r.read_index + (i - 1)) % Size]
  <2>1. i - 1 \in Nat /\ n + (i - 1) <= Size /\ n + i \in 1..s.count /\ (n + i) - 1 = n + (i - 1)
    BY <1>1, <1>2
  <2>2. (r.read_index + (i - 1)) % Size = (s.read_index + (n + (i - 1))) % Size
    BY <1>1, <1>2, <2>1, WrapTwice
  <2>3. l[n + i] = s.buffer[(s.read_index + (n + (i - 1))) % Size]
    BY <2>1 DEF Holds
  <2> QED
    BY <1>1, <1>2, <1>5, <2>1, <2>2, <2>3
<1> QED
  BY <1>1, <1>2, <1>5, <1>6, <1>7 DEF Holds, r, m

\* What Edited does to the line.
LEMMA EditedType ==
    ASSUME line \in Seq(Ch), NEW c \in Ch
    PROVE  /\ Edited(c) \in Seq(Ch)
           /\ c # BS => /\ Len(Edited(c)) = Len(line) + 1
                        /\ \A i \in 1..Len(line) : Edited(c)[i] = line[i]
                        /\ Edited(c)[Len(line) + 1] = c
           /\ c = BS /\ Len(line) # 0 =>
                 /\ Len(Edited(c)) = Len(line) - 1
                 /\ \A i \in 1..(Len(line) - 1) : Edited(c)[i] = line[i]
           /\ c = BS /\ Len(line) = 0 => Edited(c) = << >>
<1>1. CASE c # BS
  BY <1>1, AppendProperties DEF Edited
<1>2. CASE c = BS /\ line = << >>
  BY <1>2, EmptySeq DEF Edited
<1>3. CASE c = BS /\ line # << >>
  <2>1. Edited(c) = SubSeq(line, 1, Len(line) - 1)
    BY <1>3 DEF Edited, Front
  <2>2. Len(line) \in Nat /\ Len(line) # 0
    BY <1>3
  <2>3. \A i \in 1..(Len(line) - 1) : line[i] \in Ch
    BY <2>2, ElementOfSeq
  <2>4. /\ SubSeq(line, 1, Len(line) - 1) \in Seq(Ch)
        /\ Len(SubSeq(line, 1, Len(line) - 1)) =
              IF 1 <= Len(line) - 1 THEN Len(line) - 1 - 1 + 1 ELSE 0
        /\ \A i \in 1..(Len(line) - 1 - 1 + 1) : SubSeq(line, 1, Len(line) - 1)[i] = line[1 + i - 1]
    BY <2>2, <2>3, SubSeqProperties
  <2>5. ASSUME NEW k \in Nat \ {0}
        PROVE  /\ (IF 1 <= k - 1 THEN k - 1 - 1 + 1 ELSE 0) = k - 1
               /\ \A i \in 1..(k - 1) : i \in 1..(k - 1 - 1 + 1) /\ 1 + i - 1 = i
    OBVIOUS
  <2>6. /\ Len(Edited(c)) = Len(line) - 1 /\ Edited(c) \in Seq(Ch)
        /\ \A i \in 1..(Len(line) - 1) : Edited(c)[i] = line[i]
    BY <2>1, <2>2, <2>4, <2>5
  <2> QED
    BY <1>3, <2>2, <2>6
<1> QED
  BY <1>1, <1>2, <1>3

\* A write that does not skew the ring edits the line.
LEMMA WriteHolds ==
    ASSUME stdin \in Ring, line \in Seq(Ch), Holds(stdin, line), NEW c \in Ch, ~Skews(stdin, c)
    PROVE  Holds(stdin_write(stdin, c), Edited(c))
<1>1. /\ stdin.buffer \in [Slot -> Ch] /\ stdin.read_index \in Slot /\ stdin.write_index \in Slot
      /\ stdin.count \in Nat /\ stdin.count \in 0..Size /\ Len(line) = stdin.count
      /\ stdin.write_index = (stdin.read_index + stdin.count) % Size
      /\ \A i \in 1..stdin.count : line[i] = stdin.buffer[(stdin.read_index + (i - 1)) % Size]
      /\ Size \in Nat \ {0}
  BY SizeOK DEF Ring, Holds
<1> DEFINE t == stdin.read_index
           n == stdin.count
           r == stdin_write(stdin, c)
<1>2. CASE c # BS
  <2> DEFINE w == (stdin.write_index + 1) % Size
             b == [stdin.buffer EXCEPT ![stdin.write_index] = c]
  <2>1. n < Size
    BY <1>1, <1>2 DEF Skews
  <2>2. r.buffer = b /\ r.read_index = t /\ r.write_index = w /\ r.count = n + 1
    BY <1>2 DEF stdin_write, Ring
  <2>3. w = (t + (n + 1)) % Size
    BY <1>1, <2>1, WrapTwice
  <2>4. /\ Len(Edited(c)) = n + 1 /\ \A i \in 1..n : Edited(c)[i] = line[i]
        /\ Edited(c)[n + 1] = c
    BY <1>1, <1>2, EditedType
  <2>5. ASSUME NEW i \in 1..(n + 1) PROVE Edited(c)[i] = b[(t + (i - 1)) % Size]
    <3>1. CASE i = n + 1
      <4>1. i - 1 = n
        BY <1>1, <3>1
      <4> QED
        BY <1>1, <2>4, <3>1, <4>1
    <3>2. CASE i \in 1..n
      <4>1. i - 1 \in Nat /\ i - 1 < n /\ i - 1 \in 0..Size
        BY <1>1, <3>2
      <4>2. (t + (i - 1)) % Size # stdin.write_index
        BY <1>1, <2>1, <4>1, SlotsDiffer
      <4>3. (t + (i - 1)) % Size \in Slot
        BY <1>1, <4>1, WrapSlot
      <4>4. b[(t + (i - 1)) % Size] = stdin.buffer[(t + (i - 1)) % Size]
        BY <1>1, <4>2, <4>3
      <4> QED
        BY <1>1, <2>4, <3>2, <4>4
    <3> QED
      BY <1>1, <3>1, <3>2
  <2>6. n + 1 \in 0..Size
    BY <1>1, <2>1
  <2> HIDE DEF w, b, r
  <2> QED
    BY <2>2, <2>3, <2>4, <2>5, <2>6 DEF Holds, r
<1>3. CASE c = BS /\ n = 0
  <2>1. stdin.read_index = stdin.write_index
    <3>1. 0 \in 0..Size
      BY <1>1
    <3>2. (t + 0) % Size = IF t + 0 < Size THEN t + 0 ELSE t + 0 - Size
      BY <1>1, <3>1, WrapSlot
    <3> QED
      BY <1>1, <1>3, <3>2, SizeOK
  <2>2. r = stdin
    BY <1>3, <2>1 DEF stdin_write
  <2>3. Edited(c) = << >> /\ line = << >>
    BY <1>1, <1>3, EditedType
  <2> QED
    BY <2>2, <2>3
<1>4. CASE c = BS /\ n # 0
  <2>1. stdin.write_index # 0 /\ stdin.write_index # t
    BY <1>1, <1>4 DEF Skews
  <2> DEFINE w == stdin.write_index - 1
             b == [stdin.buffer EXCEPT ![w] = SP]
  <2>2. w \in Slot /\ w = max(0, stdin.write_index - 1) /\ n - 1 = max(0, n - 1) /\ n - 1 \in Nat
    BY <1>1, <1>4, <2>1, SizeOK DEF max
  <2>3. r.buffer = b /\ r.read_index = t /\ r.write_index = w /\ r.count = n - 1
    BY <1>4, <2>1, <2>2 DEF stdin_write, Ring
  <2>4. w = (t + (n - 1)) % Size
    <3>1. n \in 0..Size /\ n - 1 \in 0..Size
      BY <1>1, <2>2
    <3>2. /\ (t + n) % Size = IF t + n < Size THEN t + n ELSE t + n - Size
          /\ (t + (n - 1)) % Size = IF t + (n - 1) < Size THEN t + (n - 1) ELSE t + (n - 1) - Size
      BY <1>1, <3>1, WrapSlot
    <3>3. stdin.write_index = IF t + n < Size THEN t + n ELSE t + n - Size
      BY <1>1, <3>2
    <3>4. t \in 0..(Size - 1) /\ n \in Nat \ {0} /\ stdin.write_index # 0
          /\ Size \in Nat
      BY <1>1, <1>4, <2>1, SizeOK
    <3>5. stdin.write_index - 1 = IF t + (n - 1) < Size THEN t + (n - 1) ELSE t + (n - 1) - Size
      <4>1. CASE t + n < Size
        BY <1>1, <3>3, <3>4, <4>1
      <4>2. CASE t + n = Size
        BY <1>1, <3>3, <3>4, <4>2
      <4>3. CASE t + n > Size
        BY <1>1, <3>3, <3>4, <4>3
      <4>4. t + n < Size \/ t + n = Size \/ t + n > Size
        BY <3>4
      <4> QED
        BY <4>1, <4>2, <4>3, <4>4
    <3> QED
      BY <3>2, <3>5
  <2>5. /\ Len(Edited(c)) = n - 1 /\ \A i \in 1..(n - 1) : Edited(c)[i] = line[i]
    BY <1>1, <1>4, EditedType
  <2>6. ASSUME NEW i \in 1..(n - 1) PROVE Edited(c)[i] = b[(t + (i - 1)) % Size]
    <3>1. i - 1 \in Nat /\ i - 1 < n - 1 /\ i - 1 \in 0..Size /\ n - 1 < Size /\ i \in 1..n
      BY <1>1, <2>2
    <3>2. (t + (i - 1)) % Size # w
      BY <1>1, <2>2, <2>4, <3>1, SlotsDiffer
    <3>3. (t + (i - 1)) % Size \in Slot
      BY <1>1, <3>1, WrapSlot
    <3>4. b[(t + (i - 1)) % Size] = stdin.buffer[(t + (i - 1)) % Size]
      BY <1>1, <3>2, <3>3
    <3> QED
      BY <1>1, <2>5, <3>1, <3>4
  <2>7. n - 1 \in 0..Size
    BY <1>1, <2>2
  <2> HIDE DEF w, b, r
  <2> QED
    BY <2>3, <2>4, <2>5, <2>6, <2>7 DEF Holds, r
<1> QED
  BY <1>2, <1>3, <1>4

(***************************************************************************)
(* The handlers                                                            *)
(***************************************************************************)
LEMMA InitOK == ASSUME Init PROVE IInv
<1>1. Size \in Nat \ {0} /\ 0 \in Slot /\ NUL \in Ch
  BY SizeOK DEF Ch
<1>2. stdin \in Ring
  BY <1>1 DEF Init, Ring
<1>3. line \in Seq(Ch) /\ Len(line) = 0
  BY EmptySeq DEF Init
<1>4. Holds(stdin, line)
  <2>1. 0 \in 0..Size /\ (0 + 0) % Size = 0
    BY <1>1, WrapSlot
  <2> QED
    BY <1>3, <2>1 DEF Init, Holds
<1> QED
  BY <1>2, <1>3, <1>4 DEF Init, IInv, ReaderNeedsMore

\* A character written that leaves the reader, if any, waiting.
LEMMA WriteOK ==
    ASSUME IInv, NEW c \in Ch, stdin' = stdin_write(stdin, c), line' = Edited(c),
           skewed' = (skewed \/ Skews(stdin, c))
    PROVE  stdin' \in Ring /\ line' \in Seq(Ch) /\ (~skewed' => Holds(stdin', line'))
<1>1. stdin' \in Ring
  BY WriteType DEF IInv
<1>2. line' \in Seq(Ch)
  BY EditedType DEF IInv
<1>3. ASSUME ~skewed' PROVE Holds(stdin', line')
  BY <1>3, WriteHolds DEF IInv
<1> QED
  BY <1>1, <1>2, <1>3

LEMMA KeyOK ==
    ASSUME IInv, NEW c \in Ch, NEW is_terminal \in BOOLEAN, NEW zombie \in BOOLEAN,
           keyboard_handler_main(c, is_terminal, zombie)
    PROVE  IInv'
<1> DEFINE s == IF Stored(c, is_terminal) THEN stdin_write(stdin, c) ELSE stdin
           l == IF Stored(c, is_terminal) THEN Edited(c) ELSE line
           n == min(s.count, requested_len)
<1>1. s \in Ring /\ l \in Seq(Ch)
  BY WriteType, EditedType DEF IInv
<1>2. skewed' = (skewed \/ (Stored(c, is_terminal) /\ Skews(stdin, c)))
  BY DEF keyboard_handler_main
<1>3. ASSUME ~skewed' PROVE Holds(s, l)
  BY <1>2, <1>3, WriteHolds DEF IInv
<1>6. \/ /\ Wakes(s, c) /\ ~zombie
         /\ stdin' = stdin_read(s, n)
         /\ line' = Rest(l, n)
         /\ requested_len' = -1
      \/ /\ ~Wakes(s, c) \/ zombie
         /\ stdin' = s
         /\ line' = l
         /\ bypassed' = (bypassed \/ (requested_len # -1 /\ zombie))
         /\ UNCHANGED requested_len
  BY DEF keyboard_handler_main
<1> HIDE DEF s, l
<1>4. ASSUME Wakes(s, c), stdin' = stdin_read(s, n), line' = Rest(l, n),
             requested_len' = -1
      PROVE  IInv'
  <2>1. n \in 0..s.count
    BY <1>1, <1>4 DEF IInv, Wakes, Ring, min
  <2>2. stdin' \in Ring
    BY <1>1, <1>4, <2>1, ReadType
  <2>3. line' \in Seq(Ch)
    <3>1. n \in Nat /\ Len(l) \in Nat
      BY <1>1, <2>1, LenProperties DEF Ring
    <3>2. 1 + min(n, Len(l)) \in Nat \ {0}
      BY <3>1 DEF min
    <3> HIDE DEF n
    <3> QED
      BY <1>1, <1>4, <3>1, <3>2, SubSeqProperties, ElementOfSeq DEF Rest
  <2>4. ASSUME ~skewed' PROVE Holds(stdin', line')
    BY <1>1, <1>3, <1>4, <2>1, <2>4, ReadHolds
  <2> QED
    BY <1>4, <2>2, <2>3, <2>4 DEF IInv, ReaderNeedsMore
<1>5. ASSUME ~Wakes(s, c) \/ zombie, stdin' = s, line' = l,
             bypassed' = (bypassed \/ (requested_len # -1 /\ zombie)), UNCHANGED requested_len
      PROVE  IInv'
  <2>1. ReaderNeedsMore'
    <3> SUFFICES ASSUME requested_len # -1, ~zombie, ~Wakes(s, c) PROVE s.count < requested_len
      BY <1>5 DEF ReaderNeedsMore
    <3> QED
      BY <1>1 DEF Wakes, Ring, IInv
  <2> QED
    BY <1>1, <1>3, <1>5, <2>1 DEF IInv
<1> QED
  BY <1>4, <1>5, <1>6

LEMMA UncheckedOK == ASSUME IInv, NEW c \in Ch, Unchecked(c) PROVE IInv'
<1>1. stdin' \in Ring /\ line' \in Seq(Ch) /\ (~skewed' => Holds(stdin', line'))
  BY WriteOK DEF Unchecked
<1> QED
  BY <1>1 DEF Unchecked, IInv, ReaderNeedsMore

LEMMA SigintOK == ASSUME IInv, NEW reads \in BOOLEAN, sigint_foreground(reads) PROVE IInv'
<1>1. /\ stdin' \in Ring /\ stdin'.count = 0 /\ stdin'.read_index = stdin.write_index
      /\ stdin'.write_index = stdin.write_index /\ stdin.write_index \in Slot
  BY DEF sigint_foreground, IInv, Ring
<1>2. line' = << >>
  BY DEF sigint_foreground
<1>3. 0 \in 0..Size /\ (stdin.write_index + 0) % Size = stdin.write_index
  <2>1. 0 \in 0..Size
    BY SizeOK
  <2>2. (stdin.write_index + 0) % Size =
           IF stdin.write_index + 0 < Size THEN stdin.write_index + 0 ELSE stdin.write_index + 0 - Size
    BY <1>1, <2>1, WrapSlot
  <2> QED
    BY <1>1, <2>1, <2>2, SizeOK
<1>4. Holds(stdin', line')
  <2>1. Len(line') = 0
    BY <1>2
  <2> QED
    BY <1>1, <1>3, <2>1 DEF Holds
<1>5. line' \in Seq(Ch)
  BY <1>2, EmptySeq
<1> QED
  BY <1>1, <1>4, <1>5 DEF sigint_foreground, IInv, ReaderNeedsMore

LEMMA ReadOK == ASSUME IInv, NEW len \in ReadLens, handle_syscall_read(len) PROVE IInv'
<1>1. len \in Nat \ {0}
  BY StdinAssumption
<1>2. CASE /\ stdin.count >= len
           /\ stdin' = stdin_read(stdin, len)
           /\ line' = Rest(line, len)
           /\ UNCHANGED <<requested_len, skewed, bypassed>>
  <2>1. len \in 0..stdin.count /\ stdin.count \in Nat
    BY <1>1, <1>2 DEF IInv, Ring
  <2>2. stdin' \in Ring /\ stdin'.count = stdin.count - len
    BY <1>2, <2>1, ReadType DEF IInv, stdin_read, Ring
  <2>3. line' \in Seq(Ch)
    <3>1. line \in Seq(Ch) /\ Len(line) \in Nat
      BY LenProperties DEF IInv
    <3>2. 1 + min(len, Len(line)) \in Nat \ {0}
      BY <1>1, <3>1 DEF min
    <3> QED
      BY <1>2, <3>1, <3>2, SubSeqProperties, ElementOfSeq DEF Rest
  <2>4. ASSUME ~skewed' PROVE Holds(stdin', line')
    BY <1>2, <2>1, <2>4, ReadHolds DEF IInv
  <2>5. ReaderNeedsMore'
    BY <1>1, <1>2, <2>1, <2>2 DEF ReaderNeedsMore, IInv
  <2> QED
    BY <1>2, <2>2, <2>3, <2>4, <2>5 DEF IInv
<1>3. CASE stdin.count < len /\ requested_len' = len /\ UNCHANGED <<stdin, line, skewed>>
  BY <1>1, <1>3 DEF IInv, ReaderNeedsMore
<1> QED
  BY <1>2, <1>3 DEF handle_syscall_read

LEMMA StepOK == IInv /\ [Next]_vars => IInv'
<1> SUFFICES ASSUME IInv, [Next]_vars PROVE IInv'
  OBVIOUS
<1>1. CASE UNCHANGED vars
  BY <1>1 DEF vars, IInv, ReaderNeedsMore
<1>2. ASSUME NEW c \in KeyChars, NEW is_terminal \in BOOLEAN, NEW zombie \in Zombies,
             keyboard_handler_main(c, is_terminal, zombie)
      PROVE  IInv'
  <2>1. c \in Ch /\ zombie \in BOOLEAN
    BY StdinAssumption DEF KeyChars, Ch
  <2> QED
    BY <1>2, <2>1, KeyOK
<1>3. CASE handle_chords
  BY <1>3, UncheckedOK DEF handle_chords, Ch
<1>4. ASSUME NEW c \in Char \cup {NL, BS}, handle_syscall_write(c) PROVE IInv'
  BY <1>4, UncheckedOK DEF handle_syscall_write, Ch
<1>5. ASSUME NEW reads \in BOOLEAN, sigint_foreground(reads) PROVE IInv'
  BY <1>5, SigintOK
<1>6. ASSUME NEW len \in ReadLens, handle_syscall_read(len) PROVE IInv'
  BY <1>6, ReadOK
<1> QED
  BY <1>1, <1>2, <1>3, <1>4, <1>5, <1>6 DEF Next

LEMMA Inductive == Spec => []IInv
<1>1. Init => IInv
  BY InitOK
<1> QED
  BY <1>1, StepOK, PTL DEF Spec

\* Until a write skews it, the ring holds exactly the characters typed, not
\* erased and not yet read, in their order, across every wrap of stdin.c's
\* indices.
THEOREM RingHoldsLine == Spec => []RingIsLine
<1>1. IInv => RingIsLine
  <2> SUFFICES ASSUME IInv, ~skewed
               PROVE  /\ stdin.count \in 0..Size
                      /\ stdin.write_index = (stdin.read_index + stdin.count) % Size
                      /\ Contents = line
    BY DEF RingIsLine
  <2>1. /\ Holds(stdin, line) /\ line \in Seq(Ch) /\ stdin.read_index \in Slot
        /\ stdin.count \in Nat
    BY DEF IInv, Ring
  <2>2. line \in [1..stdin.count -> Ch]
    BY <2>1, LenProperties DEF Holds
  <2>3. ASSUME NEW i \in 1..stdin.count
        PROVE  line[i] = stdin.buffer[(stdin.read_index + i - 1) % Size]
    <3>1. stdin.read_index + i - 1 = stdin.read_index + (i - 1)
      BY <2>1, SizeOK
    <3> QED
      BY <2>1, <3>1 DEF Holds
  <2>4. Contents = line
    BY <2>2, <2>3 DEF Contents
  <2> QED
    BY <2>1, <2>4 DEF Holds
<1> QED
  BY <1>1, Inductive, PTL

\* A reader that no write has passed by waits only with fewer characters in the
\* ring than it asked for: keyboard_handler_main serves it in the very handler
\* that stores the last one.
THEOREM NoLateReader == Spec => []ReaderNeedsMore
<1>1. IInv => ReaderNeedsMore
  BY DEF IInv
<1> QED
  BY <1>1, Inductive, PTL
=============================================================================
