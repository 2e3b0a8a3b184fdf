--------------------------- MODULE TerminalProofs ---------------------------
(***************************************************************************)
(* The terminal, proved for every size of screen and tab, every set of     *)
(* characters and every length of line and output: what the user sees      *)
(* before the cursor is the line that the program will read.               *)
(***************************************************************************)
EXTENDS Terminal, TLAPS, SequenceTheorems, WellFoundedInduction

Sym == Char \cup {SP, NUL, FOREIGN}

Typed == Char \cup {NL, SP}

Term == [buffer : [Reach -> Sym], cursor : Reach, cursor_floor : Reach]

\* Memory behind the buffer gets spaces at most, and is seen at the start of
\* a row at most.
Inside(B) ==
    /\ \A i \in Reach \ Cell : B[i] \in {FOREIGN, SP}
    /\ \A i \in Cell : B[i] = FOREIGN => i % TERMINAL_COLS = 0

Good(t) == t \in Term /\ Inside(t.buffer)

\* The window shows the buffer; rows that are never blanked may show more.
\* It does so as soon as a character was drawn.
Shows(t, cells) ==
    \A i \in Cell : /\ Glyphs(t, i) \subseteq cells[i]
                    /\ i \in Blanked => cells[i] = Glyphs(t, i)

\* The cell of the m-th of n characters.
Place(t, n, m) == t.cursor - n + m - 1

\* Each of the n characters typed that is on the row of the cursor stands in
\* its cell.
Echoes(t, l, n) ==
    /\ t.cursor >= t.cursor_floor
    /\ \A m \in 1..n : (\A j \in m..n : l[j] # NL) =>
          /\ Place(t, n, m) \in Cell
          /\ Place(t, n, m) >= t.cursor_floor
          /\ t.buffer[Place(t, n, m)] = l[m]

Echoed(t, l) == Echoes(t, l, Len(l))

IInv ==
    /\ Good(terminal)
    /\ line # << >> => Shows(terminal, shown)
    /\ line \in Seq(Typed)
    /\ ~apart => Echoed(terminal, line)

(***************************************************************************)
(* Numbers                                                                 *)
(***************************************************************************)
LEMMA Product ==
    ASSUME NEW n \in Nat \ {0}, NEW a \in Nat, NEW b \in Nat
    PROVE  /\ n * a \in Nat
           /\ a < b => n * a + n <= n * b
<1>1. n * a \in Nat
  OBVIOUS
<1>2. ASSUME a < b PROVE n * a + n <= n * b
  <2>1. a + 1 <= b
    BY <1>2
  <2>2. n * (a + 1) <= n * b
    BY <2>1
  <2>3. n * (a + 1) = n * a + n
    OBVIOUS
  <2> QED
    BY <2>2, <2>3
<1> QED
  BY <1>1, <1>2

\* The remainder is the only one.
LEMMA Remainder ==
    ASSUME NEW n \in Nat \ {0}, NEW a \in Nat, NEW r \in 0..(n - 1), NEW x, x = n * a + r
    PROVE  x % n = r /\ x \div n = a
<1> DEFINE q == x \div n
           s == x % n
<1>1. x \in Nat
  BY Product
<1>2. q \in Int /\ s \in Int /\ 0 <= s /\ s < n /\ x = n * q + s
  BY <1>1, Z3
<1> HIDE DEF q, s
<1>3. q \in Nat
  <2> SUFFICES ASSUME q <= -1 PROVE FALSE
    BY <1>2
  <2>1. n * q <= n * (-1)
    BY <1>2
  <2> QED
    BY <1>1, <1>2, <2>1
<1>4. ~(q < a)
  <2> SUFFICES ASSUME q < a PROVE FALSE
    OBVIOUS
  <2>1. n * q + n <= n * a
    BY <1>3, Product
  <2>2. n * q \in Nat /\ n * a \in Nat
    BY <1>3, Product
  <2> QED
    BY <1>2, <2>1, <2>2
<1>5. ~(a < q)
  <2> SUFFICES ASSUME a < q PROVE FALSE
    OBVIOUS
  <2>1. n * a + n <= n * q
    BY <1>3, Product
  <2>2. n * q \in Nat /\ n * a \in Nat
    BY <1>3, Product
  <2> QED
    BY <1>2, <2>1, <2>2
<1>6. q = a
  BY <1>3, <1>4, <1>5
<1>7. s = r
  BY <1>2, <1>6
<1> QED
  BY <1>6, <1>7 DEF q, s

\* A number is a row and a column.
LEMMA Division ==
    ASSUME NEW n \in Nat \ {0}, NEW x \in Nat
    PROVE  \E a \in Nat : \E r \in 0..(n - 1) : x = n * a + r
<1> DEFINE q == x \div n
           s == x % n
<1>1. q \in Int /\ s \in Int /\ 0 <= s /\ s < n /\ x = n * q + s
  BY Z3
<1> HIDE DEF q, s
<1>2. q \in Nat
  <2> SUFFICES ASSUME q <= -1 PROVE FALSE
    BY <1>1
  <2>1. n * q <= n * (-1)
    BY <1>1
  <2> QED
    BY <1>1, <2>1
<1>3. s \in 0..(n - 1)
  BY <1>1
<1> QED
  BY <1>1, <1>2, <1>3

\* A row below is the same column.
LEMMA RowBelow ==
    ASSUME NEW n \in Nat \ {0}, NEW x \in Nat
    PROVE  (x + n) % n = x % n
<1>1. PICK a \in Nat : \E r \in 0..(n - 1) : x = n * a + r
  BY Division
<1>2. PICK r \in 0..(n - 1) : x = n * a + r
  BY <1>1
<1>3. x % n = r
  BY <1>2, Remainder
<1>4. n * (a + 1) = n * a + n /\ n * a \in Nat
  BY Product
<1>5. x + n = n * (a + 1) + r /\ a + 1 \in Nat
  BY <1>2, <1>4
<1>6. (x + n) % n = r
  <2> DEFINE y == x + n
             b == a + 1
  <2>1. y = n * b + r /\ b \in Nat
    BY <1>5
  <2> HIDE DEF y, b
  <2>2. y % n = r
    BY <2>1, Remainder
  <2> QED
    BY <2>2 DEF y
<1> QED
  BY <1>3, <1>6

\* A row starts in column 0.
LEMMA RowStart ==
    ASSUME NEW n \in Nat \ {0}, NEW a \in Nat
    PROVE  (n * a) % n = 0
<1>1. n * a = n * a + 0 /\ 0 \in 0..(n - 1)
  BY Product
<1> QED
  BY <1>1, Remainder

\* The next row starts behind the cursor and within the rows there are.
LEMMA RowAbove ==
    ASSUME NEW n \in Nat \ {0}, NEW rows \in Nat, NEW x \in Nat, x < n * rows
    PROVE  /\ (x \div n + 1) * n \in Nat
           /\ (x \div n + 1) * n > x /\ (x \div n + 1) * n <= n * rows
<1>1. PICK a \in Nat : \E r \in 0..(n - 1) : x = n * a + r
  BY Division
<1>2. PICK r \in 0..(n - 1) : x = n * a + r
  BY <1>1
<1>3. x \div n = a
  BY <1>2, Remainder
<1>4. (a + 1) * n = n * a + n /\ n * a \in Nat /\ n * rows \in Nat
  BY Product
<1>5. a < rows
  <2> SUFFICES ASSUME rows <= a PROVE FALSE
    OBVIOUS
  <2>1. rows = a \/ rows < a
    OBVIOUS
  <2>2. rows < a => n * rows + n <= n * a
    BY Product
  <2>3. n * rows <= n * a
    BY <1>4, <2>1, <2>2
  <2> QED
    BY <1>2, <1>4, <2>3
<1>6. n * a + n <= n * rows
  BY <1>5, Product
<1> QED
  BY <1>2, <1>3, <1>4, <1>6

LEMMA LeastInSet ==
    ASSUME NEW S \in SUBSET Nat, S # {}
    PROVE  \E x \in S : \A j \in S : x <= j
<1> DEFINE R == {ss \in Nat \X Nat : ss[1] < ss[2]}
<1>1. IsWellFoundedOn(R, Nat)
  BY NatLessThanWellFounded, Zenon DEF OpToRel
<1>2. PICK x \in S : \A y \in S : ~(<<y, x>> \in R)
  <2> HIDE DEF R
  <2> QED
    BY <1>1, WFMin
<1>3. ASSUME NEW y \in S PROVE x <= y
  <2>1. x \in Nat /\ y \in Nat /\ <<y, x>> \in Nat \X Nat
    OBVIOUS
  <2>2. <<y, x>>[1] = y /\ <<y, x>>[2] = x
    OBVIOUS
  <2>3. ~(y < x)
    BY <1>2, <2>1, <2>2, Zenon
  <2> QED
    BY <2>1, <2>3
<1> QED
  BY <1>3

\* Induction over 0..n, stated of a set.
LEMMA Interval ==
    ASSUME NEW n \in Nat, NEW S, 0 \in S, \A i \in 0..(n - 1) : i \in S => i + 1 \in S
    PROVE  0..n \subseteq S
<1> DEFINE Missing == {i \in 0..n : i \notin S}
<1> SUFFICES ASSUME Missing # {} PROVE FALSE
  OBVIOUS
<1>1. Missing \in SUBSET Nat
  OBVIOUS
<1>2. PICK m \in Missing : \A i \in Missing : m <= i
  <2> HIDE DEF Missing
  <2> QED
    BY <1>1, LeastInSet
<1>3. m \in 0..n /\ m # 0 /\ m \notin S
  OBVIOUS
<1>4. m - 1 \in 0..(n - 1) /\ m - 1 + 1 = m
  BY <1>3
<1>5. m - 1 \in S
  BY <1>2, <1>3, <1>4
<1> QED
  BY <1>3, <1>4, <1>5


LEMMA Numbers ==
    /\ TERMINAL_COLS \in Nat \ {0} /\ TERMINAL_ROWS \in Nat /\ TERMINAL_ROWS >= 2
    /\ TAB_SIZE \in Nat \ {0}
    /\ TERMINAL_SIZE \in Nat /\ TERMINAL_SIZE >= TERMINAL_COLS + TERMINAL_COLS
    /\ Cell \subseteq Reach /\ Cell \subseteq Nat /\ Reach \subseteq Nat
    /\ (TERMINAL_SIZE - TERMINAL_COLS) % TERMINAL_COLS = 0
<1>1. /\ TERMINAL_COLS \in Nat \ {0} /\ TERMINAL_ROWS \in Nat /\ TERMINAL_ROWS >= 2
      /\ TAB_SIZE \in Nat \ {0}
  BY TerminalAssumption
<1>2. TERMINAL_SIZE \in Nat
  BY <1>1, Product DEF TERMINAL_SIZE
<1>3. TERMINAL_SIZE >= TERMINAL_COLS + TERMINAL_COLS
  <2>1. TERMINAL_COLS * 1 = TERMINAL_COLS
    BY <1>1
  <2>2. TERMINAL_COLS * 1 + TERMINAL_COLS <= TERMINAL_COLS * TERMINAL_ROWS
    BY <1>1, Product
  <2> QED
    BY <1>1, <1>2, <2>1, <2>2 DEF TERMINAL_SIZE
<1>4. Cell \subseteq Reach /\ Cell \subseteq Nat /\ Reach \subseteq Nat
  BY <1>1, <1>2 DEF Cell, Reach
<1>5. (TERMINAL_SIZE - TERMINAL_COLS) % TERMINAL_COLS = 0
  <2> DEFINE a == TERMINAL_ROWS - 1
  <2>1. a \in Nat
    BY <1>1
  <2>2. TERMINAL_SIZE - TERMINAL_COLS = TERMINAL_COLS * a
    BY <1>1 DEF TERMINAL_SIZE
  <2> HIDE DEF a
  <2>3. (TERMINAL_COLS * a) % TERMINAL_COLS = 0
    BY <1>1, <2>1, RowStart
  <2> QED
    BY <2>2, <2>3
<1> QED
  BY <1>1, <1>2, <1>3, <1>4, <1>5

LEMMA Names ==
    /\ SP \notin Char /\ NL \notin Char /\ BS \notin Char /\ TAB \notin Char
    /\ NUL \notin Char /\ FOREIGN \notin Char
    /\ SP # NL /\ SP # BS /\ SP # TAB /\ SP # FOREIGN /\ SP # NUL /\ NL # BS /\ NL # TAB
    /\ BS # TAB /\ NUL # FOREIGN
BY TerminalAssumption DEF SP, NL, BS, TAB, NUL, FOREIGN

(***************************************************************************)
(* What a character does                                                   *)
(***************************************************************************)
LEMMA TermShape ==
    ASSUME NEW t \in Term
    PROVE  /\ t.buffer \in [Reach -> Sym]
           /\ t.cursor \in Reach /\ t.cursor \in Nat
           /\ t.cursor_floor \in Reach /\ t.cursor_floor \in Nat
BY Numbers DEF Term

LEMMA CursorAt ==
    ASSUME NEW t \in Term, NEW c \in Reach, NEW u, u = [t EXCEPT !.cursor = c]
    PROVE  /\ u \in Term /\ u.buffer = t.buffer /\ u.cursor = c
           /\ u.cursor_floor = t.cursor_floor
<1>1. u = [buffer |-> t.buffer, cursor |-> c, cursor_floor |-> t.cursor_floor]
  BY DEF Term
<1> QED
  BY <1>1, TermShape DEF Term

LEMMA FloorAt ==
    ASSUME NEW t \in Term, NEW u, u = Floor(t)
    PROVE  /\ u \in Term /\ u.buffer = t.buffer /\ u.cursor = t.cursor
           /\ u.cursor_floor = t.cursor
<1>1. t.cursor \in Reach
  BY TermShape
<1>2. u = [buffer |-> t.buffer, cursor |-> t.cursor, cursor_floor |-> t.cursor]
  BY <1>1 DEF Term, Floor
<1> QED
  BY <1>2, TermShape DEF Term

LEMMA BufferAt ==
    ASSUME NEW t \in Term, NEW B \in [Reach -> Sym], NEW u, u = [t EXCEPT !.buffer = B]
    PROVE  /\ u \in Term /\ u.buffer = B /\ u.cursor = t.cursor
           /\ u.cursor_floor = t.cursor_floor
<1>1. u = [buffer |-> B, cursor |-> t.cursor, cursor_floor |-> t.cursor_floor]
  BY DEF Term
<1> QED
  BY <1>1, TermShape DEF Term

\* Both, one after the other.
Both(t, c, B) == [[t EXCEPT !.cursor = c] EXCEPT !.buffer = B]

LEMMA BothAt ==
    ASSUME NEW t \in Term, NEW c \in Reach, NEW B \in [Reach -> Sym], NEW u, u = Both(t, c, B)
    PROVE  /\ u \in Term /\ u.buffer = B /\ u.cursor = c
           /\ u.cursor_floor = t.cursor_floor
<1> DEFINE s == [t EXCEPT !.cursor = c]
<1>1. s \in Term /\ s.cursor = c /\ s.cursor_floor = t.cursor_floor
  BY CursorAt
<1>2. u = [s EXCEPT !.buffer = B]
  BY DEF Both
<1> HIDE DEF s
<1>3. /\ u \in Term /\ u.buffer = B /\ u.cursor = s.cursor
      /\ u.cursor_floor = s.cursor_floor
  BY <1>1, <1>2, BufferAt
<1> QED
  BY <1>1, <1>3

LEMMA ScrollAt ==
    ASSUME NEW t, Good(t), NEW u, u = Scroll(t)
    PROVE  Good(u) /\ u.cursor = TERMINAL_SIZE - TERMINAL_COLS /\ u.cursor \in Cell
<1> DEFINE last == TERMINAL_SIZE - TERMINAL_COLS
           B == [i \in Reach |->
                   CASE i \in Cell /\ i > last -> SP
                     [] i <= last -> t.buffer[i + TERMINAL_COLS]
                     [] OTHER -> t.buffer[i]]
           s == [t EXCEPT !.buffer = B]
<1>1. t \in Term /\ Inside(t.buffer) /\ t.buffer \in [Reach -> Sym]
  BY TermShape DEF Good
<1>2. last \in Nat /\ last \in Cell /\ last \in Reach /\ last + TERMINAL_COLS = TERMINAL_SIZE
  BY Numbers DEF Cell, Reach
<1>3. ASSUME NEW i \in Reach, i <= last
      PROVE  /\ i + TERMINAL_COLS \in Reach
             /\ i \in Cell
             /\ i + TERMINAL_COLS \in Cell \/ i = last
             /\ (i + TERMINAL_COLS) % TERMINAL_COLS = i % TERMINAL_COLS
  <2>1. i \in Nat /\ i <= TERMINAL_SIZE - TERMINAL_COLS
    BY <1>3, Numbers
  <2>2. (i + TERMINAL_COLS) % TERMINAL_COLS = i % TERMINAL_COLS
    BY <2>1, Numbers, RowBelow
  <2> QED
    BY <2>1, <2>2, Numbers DEF Cell, Reach
<1>4. ASSUME NEW i \in Reach
      PROVE  /\ B[i] \in Sym
             /\ i \notin Cell => B[i] \in {FOREIGN, SP}
             /\ i \in Cell /\ B[i] = FOREIGN => i % TERMINAL_COLS = 0
  <2>1. i \in Nat
    BY Numbers
  <2>2. CASE i <= last
    <3>1. B[i] = t.buffer[i + TERMINAL_COLS]
      BY <1>2, <2>1, <2>2
    <3>2. i + TERMINAL_COLS \in Reach /\ i \in Cell
      BY <1>3, <2>2
    <3> HIDE DEF B
    <3>3. CASE i = last
      <4>1. i % TERMINAL_COLS = 0
        BY <3>3, Numbers
      <4> QED
        BY <1>1, <3>1, <3>2, <4>1
    <3>4. CASE i # last
      <4>1. i + TERMINAL_COLS \in Cell /\ (i + TERMINAL_COLS) % TERMINAL_COLS = i % TERMINAL_COLS
        BY <1>3, <2>2, <3>4
      <4> QED
        BY <1>1, <3>1, <3>2, <4>1 DEF Inside
    <3> QED
      BY <3>3, <3>4
  <2>3. CASE ~(i <= last) /\ i \in Cell
    <3>1. i > last
      BY <1>2, <2>1, <2>3
    <3>2. B[i] = SP
      BY <2>3, <3>1
    <3> QED
      BY <2>3, <3>2, Names DEF Sym
  <2>4. CASE ~(i <= last) /\ i \notin Cell
    <3>1. B[i] = t.buffer[i]
      BY <2>4
    <3> HIDE DEF B
    <3> QED
      BY <1>1, <2>4, <3>1 DEF Inside
  <2> QED
    BY <2>2, <2>3, <2>4
<1>5. u = [s EXCEPT !.cursor = last]
  BY DEF Scroll
<1>6. DOMAIN B = Reach /\ B = [i \in Reach |-> B[i]]
  OBVIOUS
<1> HIDE DEF B, last
<1>7. B \in [Reach -> Sym] /\ Inside(B)
  BY <1>4, <1>6, Numbers DEF Inside
<1>8. s \in Term /\ s.buffer = B
  BY <1>1, <1>7, BufferAt
<1> HIDE DEF s
<1>9. u \in Term /\ u.buffer = B /\ u.cursor = last
  BY <1>2, <1>5, <1>8, CursorAt
<1> QED
  BY <1>2, <1>7, <1>9 DEF Good, last

\* A cell on the screen gets a character or a space.
LEMMA CellSet ==
    ASSUME NEW B \in [Reach -> Sym], Inside(B), NEW x \in Cell, NEW c \in Char \cup {SP},
           NEW D, D = [B EXCEPT ![x] = c]
    PROVE  /\ D \in [Reach -> Sym] /\ Inside(D)
           /\ D[x] = c /\ \A i \in Reach : i # x => D[i] = B[i]
<1>1. x \in Reach /\ c \in Sym /\ c # FOREIGN
  BY Numbers, Names DEF Sym
<1>2. D \in [Reach -> Sym] /\ D[x] = c /\ \A i \in Reach : i # x => D[i] = B[i]
  BY <1>1
<1>3. Inside(D)
  BY <1>1, <1>2, Numbers DEF Inside
<1> QED
  BY <1>2, <1>3

LEMMA TabAt ==
    ASSUME NEW x \in Cell
    PROVE  Tab(x) \in 1..TAB_SIZE /\ x + Tab(x) \in Reach
<1>1. x \in Nat /\ x <= TERMINAL_SIZE - 1
  BY Numbers DEF Cell
<1>2. PICK a \in Nat : \E r \in 0..(TAB_SIZE - 1) : x = TAB_SIZE * a + r
  BY <1>1, Numbers, Division
<1>3. PICK r \in 0..(TAB_SIZE - 1) : x = TAB_SIZE * a + r
  BY <1>2
<1>4. x % TAB_SIZE = r
  <2>1. TAB_SIZE \in Nat \ {0}
    BY Numbers
  <2> QED
    BY <1>3, <2>1, Remainder
<1>5. Tab(x) = TAB_SIZE - r
  BY <1>4 DEF Tab
<1> QED
  BY <1>1, <1>5, Numbers DEF Reach

\* The cursor is on the screen.  c is put there ...
LEMMA PutChar ==
    ASSUME NEW t, Good(t), t.cursor \in Cell, NEW c \in Char \cup {SP}, NEW u, u = Put(t, c)
    PROVE  /\ Good(u) /\ u.cursor = t.cursor + 1 /\ u.cursor_floor = t.cursor_floor
           /\ u.buffer[t.cursor] = c
           /\ \A i \in Reach : i # t.cursor => u.buffer[i] = t.buffer[i]
<1> DEFINE x == t.cursor
           D == [t.buffer EXCEPT ![x] = c]
<1>1. /\ t \in Term /\ Inside(t.buffer) /\ t.buffer \in [Reach -> Sym]
      /\ x \in Cell /\ x \in Nat
  BY TermShape DEF Good
<1>2. x + 1 \in Reach
  BY <1>1, Numbers DEF Cell, Reach
<1>3. c # NL /\ c # BS /\ c # TAB
  BY Names
<1>4. u = Both(t, x + 1, D)
  <2>1. u = [t EXCEPT !.cursor = @ + 1, !.buffer[t.cursor] = c]
    BY <1>3 DEF Put
  <2> QED
    BY <2>1 DEF Both
<1>5. /\ D \in [Reach -> Sym] /\ Inside(D)
      /\ D[x] = c /\ \A i \in Reach : i # x => D[i] = t.buffer[i]
  BY <1>1, CellSet
<1> HIDE DEF D
<1>6. /\ u \in Term /\ u.buffer = D /\ u.cursor = x + 1
      /\ u.cursor_floor = t.cursor_floor
  BY <1>1, <1>2, <1>4, <1>5, BothAt
<1> QED
  BY <1>5, <1>6 DEF Good

\* ... or the cursor goes to the next row ...
LEMMA NewlinePut ==
    ASSUME NEW t
    PROVE  Put(t, NL) = [t EXCEPT !.cursor = NextRow(t.cursor)]
<1>1. Put(t, NL) = [t EXCEPT !.cursor = NextRow(@)]
  BY Names, Zenon DEF Put
<1> QED
  BY <1>1

LEMMA PutNewline ==
    ASSUME NEW t, Good(t), t.cursor \in Cell, NEW u, u = Put(t, NL)
    PROVE  Good(u) /\ u.cursor > t.cursor /\ u.cursor_floor = t.cursor_floor
<1> DEFINE x == t.cursor
           y == NextRow(x)
<1>1. /\ t \in Term /\ Inside(t.buffer) /\ x \in Nat /\ x < TERMINAL_SIZE
  BY TermShape, Numbers DEF Good, Cell
<1>2. y \in Nat /\ y > x /\ y <= TERMINAL_SIZE
  BY <1>1, Numbers, RowAbove DEF TERMINAL_SIZE, NextRow
<1>3. u = [t EXCEPT !.cursor = y]
  BY NewlinePut
<1> HIDE DEF y
<1>4. y \in Reach
  BY <1>2, Numbers DEF Reach
<1>5. u \in Term /\ u.buffer = t.buffer /\ u.cursor = y /\ u.cursor_floor = t.cursor_floor
  BY <1>1, <1>3, <1>4, CursorAt
<1> QED
  BY <1>1, <1>2, <1>5 DEF Good

\* ... or back, unless it stands at its floor ...
LEMMA PutErase ==
    ASSUME NEW t, Good(t), t.cursor \in Cell \/ t.cursor = TERMINAL_SIZE, NEW u, u = Put(t, BS)
    PROVE  /\ Good(u) /\ u.cursor_floor = t.cursor_floor
           /\ t.cursor > t.cursor_floor =>
                 /\ u.cursor = t.cursor - 1
                 /\ \A i \in Reach : i # t.cursor - 1 => u.buffer[i] = t.buffer[i]
<1> DEFINE x == t.cursor
           z == t.cursor - 1
           D == [t.buffer EXCEPT ![z] = SP]
<1>1. /\ t \in Term /\ Inside(t.buffer) /\ t.buffer \in [Reach -> Sym]
      /\ x \in Nat /\ x <= TERMINAL_SIZE /\ t.cursor_floor \in Nat
  BY TermShape, Numbers DEF Good, Cell
<1>2. u = Erased(t)
  BY Names DEF Put
<1>3. CASE x > 0 /\ x > t.cursor_floor
  <2>1. z \in Cell /\ z \in Reach
    BY <1>1, <1>3, Numbers DEF Cell, Reach
  <2>2. u = Both(t, z, D)
    <3>1. u = [t EXCEPT !.cursor = @ - 1, !.buffer[t.cursor - 1] = SP]
      BY <1>2, <1>3 DEF Erased
    <3> QED
      BY <3>1 DEF Both
  <2>3. /\ D \in [Reach -> Sym] /\ Inside(D)
        /\ \A i \in Reach : i # z => D[i] = t.buffer[i]
    <3> HIDE DEF z
    <3> QED
      BY <1>1, <2>1, CellSet
  <2> HIDE DEF D
  <2>4. /\ u \in Term /\ u.buffer = D /\ u.cursor = z
        /\ u.cursor_floor = t.cursor_floor
    BY <1>1, <2>1, <2>2, <2>3, BothAt
  <2> QED
    BY <2>3, <2>4 DEF Good
<1>4. CASE ~(x > 0 /\ x > t.cursor_floor)
  <2>1. u = t
    BY <1>2, <1>4 DEF Erased
  <2>2. ~(x > t.cursor_floor)
    BY <1>1, <1>4
  <2> QED
    BY <2>1, <2>2
<1> QED
  BY <1>3, <1>4

\* ... or to the next tab stop.
LEMMA PutTab ==
    ASSUME NEW t, Good(t), t.cursor \in Cell, NEW u, u = Put(t, TAB)
    PROVE  Good(u)
<1> DEFINE x == t.cursor
           y == x + Tab(x)
           D == [i \in Reach |-> IF i \in x..(x + Tab(x) - 1) THEN SP ELSE t.buffer[i]]
<1>1. t \in Term /\ Inside(t.buffer) /\ t.buffer \in [Reach -> Sym] /\ x \in Cell
  BY TermShape DEF Good
<1>2. y \in Reach
  BY <1>1, TabAt
<1>3. u = Both(t, y, D)
  <2>1. u = [t EXCEPT !.cursor = @ + Tab(@),
                      !.buffer = [i \in Reach |->
                         IF i \in t.cursor..(t.cursor + Tab(t.cursor) - 1) THEN SP ELSE @[i]]]
    BY Names DEF Put
  <2> QED
    BY <2>1 DEF Both
<1>4. D \in [Reach -> Sym] /\ Inside(D)
  <2>1. \A i \in Reach : D[i] = SP \/ D[i] = t.buffer[i]
    OBVIOUS
  <2>2. D = [i \in Reach |-> D[i]]
    OBVIOUS
  <2> HIDE DEF D
  <2>3. SP \in Sym /\ SP # FOREIGN
    BY Names DEF Sym
  <2>4. D \in [Reach -> Sym]
    BY <1>1, <2>1, <2>2, <2>3
  <2>5. Inside(D)
    BY <1>1, <2>1, <2>3, Numbers DEF Inside
  <2> QED
    BY <2>4, <2>5
<1> HIDE DEF D, y
<1>5. u \in Term /\ u.buffer = D
  BY <1>1, <1>2, <1>3, <1>4, BothAt
<1> QED
  BY <1>4, <1>5 DEF Good

\* Only where there is room.
LEMMA RoomFor ==
    ASSUME NEW t, Good(t),
           NEW v, v = IF t.cursor >= TERMINAL_SIZE THEN Scroll(t) ELSE t
    PROVE  Good(v) /\ v.cursor \in Cell /\ (t.cursor < TERMINAL_SIZE => v = t)
<1>1. t.cursor \in Nat
  BY TermShape DEF Good
<1>2. CASE t.cursor >= TERMINAL_SIZE
  <2>1. v = Scroll(t)
    BY <1>2
  <2>2. Good(v) /\ v.cursor \in Cell
    BY <2>1, ScrollAt
  <2> QED
    BY <1>1, <1>2, <2>2, Numbers
<1>3. CASE ~(t.cursor >= TERMINAL_SIZE)
  <2>1. v = t
    BY <1>3
  <2>2. t.cursor \in Cell
    BY <1>1, <1>3, Numbers DEF Cell
  <2> QED
    BY <2>1, <2>2
<1> QED
  BY <1>2, <1>3

\* While the cursor is on the screen, nothing scrolls.
LEMMA PrintIsPut ==
    ASSUME NEW t, Good(t), t.cursor < TERMINAL_SIZE, NEW c
    PROVE  terminal_print_char(t, c) = Put(t, c) /\ t.cursor \in Cell
<1> DEFINE v == IF t.cursor >= TERMINAL_SIZE THEN Scroll(t) ELSE t
<1>1. v.cursor \in Cell /\ v = t
  <2> HIDE DEF v
  <2> QED
    BY RoomFor DEF v
<1>2. terminal_print_char(t, c) = Put(v, c)
  BY DEF terminal_print_char
<1> HIDE DEF v
<1> QED
  BY <1>1, <1>2

LEMMA PrintChar ==
    ASSUME NEW t, Good(t), NEW c \in Char \cup {NL, BS, SP, TAB}
    PROVE  Good(terminal_print_char(t, c))
<1> DEFINE v == IF t.cursor >= TERMINAL_SIZE THEN Scroll(t) ELSE t
           u == Put(v, c)
<1>1. terminal_print_char(t, c) = u
  BY DEF terminal_print_char
<1>2. Good(v) /\ v.cursor \in Cell
  <2> HIDE DEF v
  <2> QED
    BY RoomFor DEF v
<1> HIDE DEF v
<1>3. CASE c \in Char \cup {SP}
  BY <1>1, <1>2, <1>3, PutChar
<1>4. CASE c = NL
  BY <1>1, <1>2, <1>4, PutNewline
<1>5. CASE c = BS
  BY <1>1, <1>2, <1>5, PutErase
<1>6. CASE c = TAB
  BY <1>1, <1>2, <1>6, PutTab
<1> QED
  BY <1>3, <1>4, <1>5, <1>6

\* The k-th step of terminal_print, and the whole of it.
Step(s, str, g, k) == IF k = 0 THEN s ELSE Drawn(g[k - 1], str[k])

LEMMA PrintRuns ==
    ASSUME NEW s, NEW str, NEW n \in Nat
    PROVE  \E g : g = [i \in 0..n |-> Step(s, str, g, i)]
<1> DEFINE S == {k \in 0..n : \E g : g = [i \in 0..k |-> Step(s, str, g, i)]}
<1>1. 0 \in S
  <2> DEFINE g == [i \in 0..0 |-> s]
  <2>1. g = [i \in 0..0 |-> Step(s, str, g, i)]
    BY DEF Step
  <2> QED
    BY <2>1
<1>2. ASSUME NEW k \in 0..(n - 1), k \in S PROVE k + 1 \in S
  <2>1. PICK g : g = [i \in 0..k |-> Step(s, str, g, i)]
    BY <1>2
  <2> DEFINE h == [i \in 0..(k + 1) |-> IF i <= k THEN g[i] ELSE Step(s, str, g, k + 1)]
  <2>2. ASSUME NEW i \in 0..(k + 1) PROVE h[i] = Step(s, str, h, i)
    <3>1. i # 0 => i - 1 \in 0..(k + 1) /\ i - 1 <= k
      OBVIOUS
    <3>2. i # 0 => h[i - 1] = g[i - 1]
      BY <3>1
    <3>3. Step(s, str, h, i) = Step(s, str, g, i)
      <4> HIDE DEF h
      <4>1. CASE i = 0
        BY <4>1 DEF Step
      <4>2. CASE i # 0
        BY <3>2, <4>2, Zenon DEF Step
      <4> QED
        BY <4>1, <4>2
    <3>4. CASE i <= k
      <4>1. i \in 0..k /\ h[i] = g[i]
        BY <3>4
      <4>2. g[i] = Step(s, str, g, i)
        BY <2>1, <4>1
      <4> QED
        BY <3>3, <4>1, <4>2
    <3>5. CASE ~(i <= k)
      <4>1. i = k + 1
        BY <3>5
      <4>2. h[i] = Step(s, str, g, k + 1)
        BY <3>5
      <4> QED
        BY <3>3, <4>1, <4>2
    <3> QED
      BY <3>4, <3>5
  <2>3. h = [i \in 0..(k + 1) |-> h[i]]
    OBVIOUS
  <2> HIDE DEF h
  <2>4. h = [i \in 0..(k + 1) |-> Step(s, str, h, i)]
    BY <2>2, <2>3
  <2>5. k + 1 \in 0..n
    OBVIOUS
  <2> QED
    BY <2>4, <2>5
<1>3. 0..n \subseteq S
  <2> HIDE DEF S
  <2> QED
    BY <1>1, <1>2, Interval
<1>4. n \in S
  BY <1>3
<1> QED
  BY <1>4

LEMMA PrintSteps ==
    ASSUME NEW n \in Nat, NEW str, Len(str) = n
    PROVE  \E g : /\ g[0] = Screen /\ g[n] = terminal_print(str)
                  /\ \A k \in 1..n : g[k] = Drawn(g[k - 1], str[k])
<1> DEFINE G == CHOOSE g : g = [i \in 0..n |-> Step(Screen, str, g, i)]
<1>1. terminal_print(str) = G[n]
  BY DEF terminal_print, Step
<1>2. G = [i \in 0..n |-> Step(Screen, str, G, i)]
  BY PrintRuns, Zenon
<1> HIDE DEF G
<1>3. G[0] = Screen
  BY <1>2 DEF Step
<1>4. ASSUME NEW k \in 1..n PROVE G[k] = Drawn(G[k - 1], str[k])
  <2>1. k \in 0..n /\ k # 0
    OBVIOUS
  <2>2. G[k] = Step(Screen, str, G, k)
    BY <1>2, <2>1
  <2> QED
    BY <2>1, <2>2, Zenon DEF Step
<1> QED
  BY <1>1, <1>3, <1>4

\* What one more character makes of the terminal and of its window.
LEMMA DrawnAt ==
    ASSUME NEW s, NEW c
    PROVE  /\ Drawn(s, c).terminal = terminal_print_char(s.terminal, c)
           /\ Shows(Drawn(s, c).terminal, Drawn(s, c).shown)
<1> DEFINE t == terminal_print_char(s.terminal, c)
           cells == render_terminal(t, s.shown)
<1>1. Drawn(s, c) = [terminal |-> t, shown |-> cells]
  BY DEF Drawn
<1>2. Shows(t, cells)
  BY DEF render_terminal, Shows
<1> HIDE DEF t, cells
<1>3. Drawn(s, c).terminal = t /\ Drawn(s, c).shown = cells
  BY <1>1
<1> QED
  BY <1>2, <1>3 DEF t

LEMMA Printed ==
    ASSUME Good(terminal), NEW n \in Nat, NEW str \in [1..n -> Char \cup {NL, BS, SP, TAB}],
           NEW s, s = terminal_print(str)
    PROVE  /\ Good(s.terminal)
           /\ n = 0 => s = Screen
           /\ n > 0 => Shows(s.terminal, s.shown)
<1>1. Len(str) = n
  BY LenProperties
<1>2. PICK G : /\ G[0] = Screen /\ G[n] = s
               /\ \A k \in 1..n : G[k] = Drawn(G[k - 1], str[k])
  BY <1>1, PrintSteps
<1> DEFINE S == {k \in 0..n : Good(G[k].terminal)}
<1>3. Screen.terminal = terminal /\ Screen.shown = shown
  BY DEF Screen
<1>4. 0 \in S
  BY <1>2, <1>3
<1>5. ASSUME NEW k \in 0..(n - 1), k \in S PROVE k + 1 \in S
  <2>1. k + 1 \in 0..n /\ k + 1 \in 1..n /\ k + 1 - 1 = k
    OBVIOUS
  <2>2. G[k + 1] = Drawn(G[k], str[k + 1])
    BY <1>2, <2>1
  <2>3. G[k + 1].terminal = terminal_print_char(G[k].terminal, str[k + 1])
    BY <2>2, DrawnAt
  <2>4. Good(terminal_print_char(G[k].terminal, str[k + 1]))
    <3>1. str[k + 1] \in Char \cup {NL, BS, SP, TAB}
      BY <2>1
    <3> QED
      BY <1>5, <3>1, PrintChar
  <2> QED
    BY <2>1, <2>3, <2>4
<1>6. n \in S
  <2> HIDE DEF S
  <2>1. 0..n \subseteq S
    BY <1>4, <1>5, Interval
  <2> QED
    BY <2>1
<1>7. ASSUME n > 0 PROVE Shows(s.terminal, s.shown)
  <2>1. n \in 1..n
    BY <1>7
  <2>2. s = Drawn(G[n - 1], str[n])
    BY <1>2, <2>1
  <2> QED
    BY <2>2, DrawnAt
<1> QED
  BY <1>2, <1>3, <1>6, <1>7

\* "^C" and a newline, where there is room for them.
LEMMA InterruptPrinted ==
    ASSUME Good(terminal), NEW a \in Char, NEW b \in Char,
           terminal.cursor + 2 < TERMINAL_SIZE, terminal.cursor >= terminal.cursor_floor,
           NEW s, s = terminal_print(<<a, b, NL>>)
    PROVE  s.terminal.cursor >= s.terminal.cursor_floor
<1> DEFINE str == <<a, b, NL>>
<1>1. Len(str) = 3 /\ str[1] = a /\ str[2] = b /\ str[3] = NL
  OBVIOUS
<1>2. s = terminal_print(str)
  OBVIOUS
<1> HIDE DEF str
<1> DEFINE three == 3
<1>three. three \in Nat /\ Len(str) = three
  BY <1>1
<1> HIDE DEF three
<1>steps. PICK G : /\ G[0] = Screen /\ G[three] = terminal_print(str)
                /\ \A k \in 1..three : G[k] = Drawn(G[k - 1], str[k])
  BY <1>three, PrintSteps, Zenon
<1>3. G[1] = Drawn(Screen, a) /\ G[2] = Drawn(G[1], b) /\ s = Drawn(G[2], NL)
  <2>1. 1 \in 1..3 /\ 2 \in 1..3 /\ 3 \in 1..3 /\ 1 - 1 = 0 /\ 2 - 1 = 1 /\ 3 - 1 = 2
    OBVIOUS
  <2> QED
    BY <1>1, <1>2, <1>steps, <2>1 DEF three
<1> DEFINE t == terminal
           u == G[1].terminal
           v == G[2].terminal
           w == s.terminal
<1>4. /\ u = terminal_print_char(t, a) /\ v = terminal_print_char(u, b)
      /\ w = terminal_print_char(v, NL)
  <2>1. Screen.terminal = t
    BY DEF Screen
  <2> QED
    BY <1>3, <2>1, DrawnAt
<1> HIDE DEF t, u, v, w
<1>5. /\ Good(t) /\ t.cursor \in Nat /\ t.cursor_floor \in Nat
      /\ t.cursor + 2 < TERMINAL_SIZE /\ t.cursor >= t.cursor_floor
  BY TermShape DEF Good, t
<1>6. TERMINAL_SIZE \in Nat
  BY Numbers
<1>7. t.cursor < TERMINAL_SIZE
  BY <1>5, <1>6
<1>8. Good(u) /\ u.cursor = t.cursor + 1 /\ u.cursor_floor = t.cursor_floor
  <2>1. u = Put(t, a) /\ t.cursor \in Cell
    BY <1>4, <1>5, <1>7, PrintIsPut
  <2> QED
    BY <1>5, <2>1, PutChar
<1>9. u.cursor < TERMINAL_SIZE
  BY <1>5, <1>6, <1>8
<1>10. Good(v) /\ v.cursor = u.cursor + 1 /\ v.cursor_floor = u.cursor_floor
  <2>1. v = Put(u, b) /\ u.cursor \in Cell
    BY <1>4, <1>8, <1>9, PrintIsPut
  <2> QED
    BY <1>8, <2>1, PutChar
<1>11. v.cursor < TERMINAL_SIZE
  BY <1>5, <1>6, <1>8, <1>10
<1>12. Good(w) /\ w.cursor > v.cursor /\ w.cursor_floor = v.cursor_floor
  <2>1. w = Put(v, NL) /\ v.cursor \in Cell
    BY <1>4, <1>10, <1>11, PrintIsPut
  <2> QED
    BY <1>10, <2>1, PutNewline
<1>13. w.cursor \in Nat
  BY <1>12, TermShape DEF Good
<1>14. w.cursor >= w.cursor_floor
  BY <1>5, <1>8, <1>10, <1>12, <1>13
<1> QED
  BY <1>14 DEF w

(***************************************************************************)
(* The line and its echo                                                   *)
(***************************************************************************)
\* The cursor moves on, or back, with the length of the line.
LEMMA PlaceKept ==
    ASSUME NEW t, NEW u, t.cursor \in Nat, NEW n \in Nat, NEW m \in Int,
           u.cursor = t.cursor + 1
    PROVE  Place(u, n + 1, m) = Place(t, n, m)
BY DEF Place

LEMMA PlaceLast ==
    ASSUME NEW t, NEW u, t.cursor \in Nat, NEW n \in Nat, u.cursor = t.cursor + 1
    PROVE  Place(u, n + 1, n + 1) = t.cursor
BY DEF Place

LEMMA EchoTyped ==
    ASSUME NEW t, Good(t), t.cursor \in Cell, NEW c \in Char \cup {SP}, NEW u, u = Put(t, c),
           NEW l \in Seq(Typed), Echoed(t, l), NEW k, k = Append(l, c)
    PROVE  k \in Seq(Typed) /\ Echoed(u, k)
<1> DEFINE n == Len(l)
<1>1. n \in Nat
  BY LenProperties
<1>2. t.cursor \in Nat /\ t.cursor_floor \in Nat
  BY TermShape DEF Good
<1>3. /\ u.cursor = t.cursor + 1 /\ u.cursor_floor = t.cursor_floor
      /\ u.buffer[t.cursor] = c
      /\ \A i \in Reach : i # t.cursor => u.buffer[i] = t.buffer[i]
  BY PutChar
<1>4. c \in Typed /\ c # NL
  BY Names DEF Typed
<1>5. /\ k \in Seq(Typed) /\ Len(k) = n + 1
      /\ \A i \in 1..n : k[i] = l[i]
      /\ k[n + 1] = c
  BY <1>4, AppendProperties
<1>6. Echoes(t, l, n)
  BY DEF Echoed
<1> HIDE DEF n
<1>7. u.cursor >= u.cursor_floor
  BY <1>2, <1>3, <1>6 DEF Echoes
<1>8. ASSUME NEW m \in 1..(n + 1), \A j \in m..(n + 1) : k[j] # NL
      PROVE  /\ Place(u, n + 1, m) \in Cell
             /\ Place(u, n + 1, m) >= u.cursor_floor
             /\ u.buffer[Place(u, n + 1, m)] = k[m]
  <2>1. CASE m = n + 1
    <3>1. Place(u, n + 1, n + 1) = t.cursor
      BY <1>1, <1>2, <1>3, PlaceLast
    <3>2. t.cursor >= t.cursor_floor
      BY <1>6 DEF Echoes
    <3> QED
      BY <1>3, <1>5, <2>1, <3>1, <3>2
  <2>2. CASE m # n + 1
    <3>1. m \in 1..n
      BY <1>1, <2>2
    <3>2. \A j \in m..n : l[j] # NL
      <4> TAKE j \in m..n
      <4>1. j \in 1..n /\ j \in m..(n + 1)
        BY <1>1, <3>1
      <4> QED
        BY <1>5, <1>8, <4>1
    <3>3. Place(u, n + 1, m) = Place(t, n, m) /\ Place(t, n, m) # t.cursor
      <4>1. Place(u, n + 1, m) = Place(t, n, m)
        BY <1>1, <1>2, <1>3, <3>1, PlaceKept
      <4>2. Place(t, n, m) # t.cursor
        BY <1>1, <1>2, <3>1 DEF Place
      <4> QED
        BY <4>1, <4>2
    <3>4. /\ Place(t, n, m) \in Cell
          /\ Place(t, n, m) >= t.cursor_floor
          /\ t.buffer[Place(t, n, m)] = l[m]
      BY <1>6, <3>1, <3>2 DEF Echoes
    <3>5. u.buffer[Place(t, n, m)] = t.buffer[Place(t, n, m)]
      BY <1>3, <3>3, <3>4, Numbers
    <3> QED
      BY <1>3, <1>5, <3>1, <3>3, <3>4, <3>5
  <2> QED
    BY <2>1, <2>2
<1>9. Echoed(u, k)
  BY <1>5, <1>7, <1>8 DEF Echoed, Echoes
<1> QED
  BY <1>5, <1>9

LEMMA EchoNewline ==
    ASSUME NEW t, Good(t), t.cursor \in Cell, NEW u, u = Put(t, NL),
           NEW l \in Seq(Typed), Echoed(t, l), NEW k, k = Append(l, NL)
    PROVE  k \in Seq(Typed) /\ Echoed(u, k)
<1> DEFINE n == Len(l)
<1>1. n \in Nat
  BY LenProperties
<1>2. t.cursor \in Nat /\ t.cursor_floor \in Nat
  BY TermShape DEF Good
<1>3. Good(u) /\ u.cursor > t.cursor /\ u.cursor_floor = t.cursor_floor
  BY PutNewline
<1>4. u.cursor \in Nat
  BY <1>3, TermShape DEF Good
<1>5. t.cursor >= t.cursor_floor
  BY DEF Echoed, Echoes
<1>6. k \in Seq(Typed) /\ Len(k) = n + 1 /\ k[n + 1] = NL
  <2>1. NL \in Typed
    BY DEF Typed
  <2> QED
    BY <2>1, AppendProperties
<1> HIDE DEF n
<1>7. u.cursor >= u.cursor_floor
  BY <1>2, <1>3, <1>4, <1>5
<1>8. \A m \in 1..(n + 1) : ~(\A j \in m..(n + 1) : k[j] # NL)
  BY <1>1, <1>6
<1>9. Echoed(u, k)
  BY <1>6, <1>7, <1>8 DEF Echoed, Echoes
<1> QED
  BY <1>6, <1>9

LEMMA EchoErased ==
    ASSUME NEW t, Good(t), t.cursor \in Cell, NEW u, u = Put(t, BS),
           NEW l \in Seq(Typed), l # << >>, Last(l) # NL, Echoed(t, l), NEW k, k = Front(l)
    PROVE  k \in Seq(Typed) /\ Echoed(u, k)
<1> DEFINE n == Len(l)
           b == n - 1
<1>1. n \in Nat /\ n >= 1
  BY LenProperties, EmptySeq
<1>2. t.cursor \in Nat /\ t.cursor_floor \in Nat
  BY TermShape DEF Good
<1>3. /\ k \in Seq(Typed) /\ Len(k) = b
      /\ \A i \in 1..b : k[i] = l[i]
  <2>1. \A i \in 1..b : l[i] \in Typed
    BY <1>1, ElementOfSeq
  <2>2. k = SubSeq(l, 1, b)
    BY DEF Front
  <2>3. /\ SubSeq(l, 1, b) \in Seq(Typed)
        /\ Len(SubSeq(l, 1, b)) = IF 1 <= b THEN b - 1 + 1 ELSE 0
        /\ \A i \in 1..(b - 1 + 1) : SubSeq(l, 1, b)[i] = l[1 + i - 1]
    <3>1. 1 \in Int /\ b \in Int
      BY <1>1
    <3> HIDE DEF b
    <3> QED
      BY <2>1, <3>1, SubSeqProperties
  <2>4. b \in Nat
    BY <1>1
  <2> HIDE DEF b
  <2> QED
    BY <2>2, <2>3, <2>4
<1>4. Echoes(t, l, n)
  BY DEF Echoed
<1>5. l[n] # NL
  BY DEF Last
<1>6. t.cursor > t.cursor_floor
  <2>1. \A j \in n..n : l[j] # NL
    BY <1>1, <1>5
  <2>2. Place(t, n, n) >= t.cursor_floor
    BY <1>1, <1>4, <2>1 DEF Echoes
  <2>3. Place(t, n, n) = t.cursor - 1
    BY <1>1, <1>2 DEF Place
  <2> QED
    BY <1>2, <1>4, <2>2, <2>3 DEF Echoes
<1>7. /\ u.cursor = t.cursor - 1 /\ u.cursor_floor = t.cursor_floor
      /\ \A i \in Reach : i # t.cursor - 1 => u.buffer[i] = t.buffer[i]
  BY <1>6, PutErase
<1>8. b \in Nat /\ n = b + 1
  BY <1>1
<1> HIDE DEF n, b
<1>9. u.cursor >= u.cursor_floor
  BY <1>2, <1>6, <1>7
<1>10. ASSUME NEW m \in 1..b, \A j \in m..b : k[j] # NL
       PROVE  /\ Place(u, b, m) \in Cell
              /\ Place(u, b, m) >= u.cursor_floor
              /\ u.buffer[Place(u, b, m)] = k[m]
  <2>1. m \in 1..n
    BY <1>8
  <2>2. \A j \in m..n : l[j] # NL
    <3> TAKE j \in m..n
    <3>1. CASE j = n
      BY <1>5, <3>1
    <3>2. CASE j # n
      <4>1. j \in 1..b /\ j \in m..b
        BY <1>8, <3>2
      <4> QED
        BY <1>3, <1>10, <4>1
    <3> QED
      BY <3>1, <3>2
  <2>3. Place(u, b, m) = Place(t, n, m) /\ Place(t, n, m) # t.cursor - 1
    <3>1. u.cursor \in Nat /\ t.cursor = u.cursor + 1
      BY <1>2, <1>6, <1>7
    <3>2. Place(t, b + 1, m) = Place(u, b, m)
      BY <1>8, <3>1, PlaceKept
    <3>3. Place(t, n, m) # t.cursor - 1
      BY <1>2, <1>8 DEF Place
    <3> QED
      BY <1>8, <3>2, <3>3
  <2>4. /\ Place(t, n, m) \in Cell
        /\ Place(t, n, m) >= t.cursor_floor
        /\ t.buffer[Place(t, n, m)] = l[m]
    BY <1>4, <2>1, <2>2 DEF Echoes
  <2>5. u.buffer[Place(t, n, m)] = t.buffer[Place(t, n, m)]
    BY <1>7, <2>3, <2>4, Numbers
  <2> QED
    BY <1>3, <1>7, <2>3, <2>4, <2>5
<1>11. Echoed(u, k)
  BY <1>3, <1>9, <1>10 DEF Echoed, Echoes
<1> QED
  BY <1>3, <1>11

\* The rest of a line, from one character on.
LEMMA Rest ==
    ASSUME NEW l \in Seq(Typed), NEW r \in 0..Len(l), NEW k, k = SubSeq(l, r + 1, Len(l))
    PROVE  /\ k \in Seq(Typed) /\ Len(k) = Len(l) - r /\ Len(k) \in Nat /\ Len(l) \in Nat
           /\ \A i \in 1..Len(k) : k[i] = l[r + i]
<1> DEFINE n == Len(l)
           a == r + 1
<1>1. n \in Nat /\ r \in Nat /\ r <= n
  BY LenProperties
<1>2. \A i \in a..n : l[i] \in Typed
  BY <1>1, ElementOfSeq
<1>3. a \in Int /\ n \in Int
  BY <1>1
<1>4. k = SubSeq(l, a, n)
  OBVIOUS
<1> HIDE DEF a, n
<1>5. /\ SubSeq(l, a, n) \in Seq(Typed)
      /\ Len(SubSeq(l, a, n)) = IF a <= n THEN n - a + 1 ELSE 0
      /\ \A i \in 1..(n - a + 1) : SubSeq(l, a, n)[i] = l[a + i - 1]
  BY <1>2, <1>3, SubSeqProperties
<1>6. k \in Seq(Typed) /\ Len(k) = n - r
  BY <1>1, <1>4, <1>5 DEF a
<1>7. ASSUME NEW i \in 1..(n - r) PROVE k[i] = l[r + i]
  <2>1. i \in 1..(n - a + 1) /\ a + i - 1 = r + i
    BY <1>1 DEF a
  <2>2. k[i] = l[a + i - 1]
    BY <1>4, <1>5, <2>1
  <2> QED
    BY <2>1, <2>2
<1> QED
  BY <1>1, <1>6, <1>7 DEF n

LEMMA EchoRead ==
    ASSUME NEW t, Good(t), NEW l \in Seq(Typed), Echoed(t, l), NEW r \in 1..Len(l),
           NEW k, k = SubSeq(l, r + 1, Len(l))
    PROVE  k \in Seq(Typed) /\ Echoed(t, k)
<1> DEFINE n == Len(l)
           b == Len(k)
<1>1. n \in Nat
  BY LenProperties
<1>2. r \in Nat /\ r <= n /\ r \in 0..n
  BY <1>1
<1>3. /\ k \in Seq(Typed) /\ b = n - r /\ b \in Nat
      /\ \A i \in 1..b : k[i] = l[r + i]
  BY <1>2, Rest
<1>4. t.cursor \in Nat /\ t.cursor_floor \in Nat
  BY TermShape DEF Good
<1>5. Echoes(t, l, n)
  BY DEF Echoed
<1> HIDE DEF n, b
<1>6. ASSUME NEW m \in 1..b, \A j \in m..b : k[j] # NL
      PROVE  /\ Place(t, b, m) \in Cell
             /\ Place(t, b, m) >= t.cursor_floor
             /\ t.buffer[Place(t, b, m)] = k[m]
  <2>1. r + m \in 1..n
    BY <1>1, <1>2, <1>3
  <2>2. \A j \in (r + m)..n : l[j] # NL
    <3> TAKE j \in (r + m)..n
    <3>1. j - r \in m..b /\ j - r \in 1..b /\ r + (j - r) = j
      BY <1>1, <1>2, <1>3
    <3> QED
      BY <1>3, <1>6, <3>1
  <2>3. Place(t, b, m) = Place(t, n, r + m)
    BY <1>1, <1>2, <1>3, <1>4 DEF Place
  <2> QED
    BY <1>3, <1>5, <2>1, <2>2, <2>3 DEF Echoes
<1>7. Echoes(t, k, b)
  BY <1>5, <1>6 DEF Echoes
<1> QED
  BY <1>3, <1>7 DEF Echoed, b

\* The row of the cursor is the end of the line, back to a newline.
LEMMA RowIs ==
    ASSUME NEW l \in Seq(Typed)
    PROVE  \E r \in 0..Len(l) : /\ RowOf(l) = SubSeq(l, r + 1, Len(l))
                                /\ \A j \in (r + 1)..Len(l) : l[j] # NL
<1> DEFINE n == Len(l)
           after == {i \in 0..n : \A j \in (i + 1)..n : l[j] # NL}
           r == CHOOSE i \in after : \A j \in after : i <= j
<1>1. n \in Nat
  BY LenProperties
<1>2. after \in SUBSET Nat /\ after # {}
  <2>1. n \in after
    BY <1>1
  <2> QED
    BY <1>1, <2>1
<1>3. RowOf(l) = SubSeq(l, 1 + r, n)
  BY DEF RowOf
<1>4. r \in after
  <2> HIDE DEF after
  <2>1. \E i \in after : \A j \in after : i <= j
    BY <1>2, LeastInSet
  <2> QED
    BY <2>1, Zenon
<1> HIDE DEF r
<1>5. r \in 0..n /\ \A j \in (r + 1)..n : l[j] # NL
  BY <1>4
<1>6. 1 + r = r + 1
  BY <1>1, <1>5
<1> QED
  BY <1>3, <1>5, <1>6

LEMMA EchoHolds == IInv => EchoIsLine
<1> SUFFICES ASSUME IInv, ~apart PROVE EchoIsLine
  BY DEF EchoIsLine
<1> DEFINE n == Len(line)
           typed == RowOf(line)
           first == terminal.cursor - Len(typed)
<1>1. /\ Good(terminal) /\ line \in Seq(Typed) /\ Echoes(terminal, line, n)
      /\ line # << >> => Shows(terminal, shown)
  BY DEF IInv, Echoed
<1>2. PICK r \in 0..n : typed = SubSeq(line, r + 1, n) /\ \A j \in (r + 1)..n : line[j] # NL
  BY <1>1, RowIs
<1> HIDE DEF typed
<1>3. /\ typed \in Seq(Typed) /\ Len(typed) = n - r /\ Len(typed) \in Nat /\ n \in Nat
      /\ \A i \in 1..Len(typed) : typed[i] = line[r + i]
  BY <1>1, <1>2, Rest
<1>4. r \in Nat /\ terminal.cursor \in Nat /\ terminal.cursor_floor \in Nat
  BY <1>1, <1>2, TermShape DEF Good
<1> HIDE DEF n
<1>5. ASSUME NEW i \in 1..Len(typed)
      PROVE  /\ first + i - 1 \in Cell
             /\ first + i - 1 >= terminal.cursor_floor
             /\ terminal.buffer[first + i - 1] = typed[i]
             /\ typed[i] \in Typed /\ typed[i] # NL
  <2>1. r + i \in 1..n /\ r + i \in (r + 1)..n
    BY <1>3, <1>4
  <2>2. \A j \in (r + i)..n : line[j] # NL
    BY <1>2, <1>3, <1>4
  <2>3. Place(terminal, n, r + i) = first + i - 1
    BY <1>3, <1>4 DEF Place
  <2>4. typed[i] = line[r + i]
    BY <1>3
  <2>5. typed[i] \in Typed
    BY <1>3, ElementOfSeq
  <2> HIDE DEF first
  <2> QED
    BY <1>1, <1>2, <2>1, <2>2, <2>3, <2>4, <2>5 DEF Echoes
<1>6. first >= terminal.cursor_floor
  <2>1. CASE Len(typed) = 0
    BY <1>1, <1>4, <2>1 DEF Echoes
  <2>2. CASE Len(typed) # 0
    <3>1. 1 \in 1..Len(typed) /\ first + 1 - 1 = first
      BY <1>3, <1>4, <2>2
    <3> HIDE DEF first
    <3> QED
      BY <1>5, <3>1
  <2> QED
    BY <2>1, <2>2
<1>7. ASSUME NEW i \in 1..Len(typed), NEW cell, cell = first + i - 1
      PROVE  /\ terminal.buffer[cell] = typed[i]
             /\ typed[i] # SP => typed[i] \in shown[cell]
             /\ cell \in Blanked => shown[cell] \subseteq {typed[i]}
  <2>1. /\ cell \in Cell /\ terminal.buffer[cell] = typed[i]
        /\ typed[i] \in Typed /\ typed[i] # NL
    BY <1>5, <1>7
  <2>2. typed[i] # SP => typed[i] \in Char
    BY <2>1 DEF Typed
  <2>3. Glyphs(terminal, cell) = IF typed[i] \in Char THEN {typed[i]} ELSE {}
    BY <2>1 DEF Glyphs
  <2>4. /\ Glyphs(terminal, cell) \subseteq shown[cell]
        /\ cell \in Blanked => shown[cell] = Glyphs(terminal, cell)
    <3>1. n >= 1
      BY <1>3, <1>4
    <3>2. line # << >>
      BY <1>1, <3>1, EmptySeq DEF n
    <3> QED
      BY <1>1, <2>1, <3>2 DEF Shows
  <2> QED
    BY <2>1, <2>2, <2>3, <2>4
<1> QED
  BY <1>6, <1>7 DEF EchoIsLine, typed

(***************************************************************************)
(* The handlers                                                            *)
(***************************************************************************)
\* A character of the line.
LEMMA WriteKept ==
    ASSUME IInv, NEW c \in Char \cup {NL, BS, SP}, stdin_write(c)
    PROVE  IInv'
<1>1. Good(terminal) /\ line \in Seq(Typed) /\ (line # << >> => Shows(terminal, shown))
  BY DEF IInv
<1>2. ~apart => Echoed(terminal, line)
  BY DEF IInv
<1>3. CASE c = BS /\ line = << >>
  <2>1. UNCHANGED <<terminal, shown, line>> /\ apart' = (apart \/ Unfaithful(c))
    BY <1>3 DEF stdin_write
  <2>2. Good(terminal)' /\ (line \in Seq(Typed))' /\ line' = << >>
    BY <1>1, <1>3, <2>1
  <2>3. ASSUME ~apart' PROVE Echoed(terminal, line)'
    <3>1. Echoed(terminal, line)
      BY <1>2, <2>1, <2>3
    <3> QED
      BY <2>1, <3>1
  <2> QED
    BY <2>2, <2>3 DEF IInv
<1>4. CASE ~(c = BS /\ line = << >>)
  <2> DEFINE u == terminal_print_char(terminal, c)
             k == IF c = BS THEN Front(line) ELSE Append(line, c)
  <2>1. /\ terminal' = u /\ shown' = Drawn(Screen, c).shown /\ line' = k
        /\ apart' = (apart \/ Unfaithful(c))
    <3>1. Drawn(Screen, c).terminal = u
      <4>1. Screen.terminal = terminal
        BY DEF Screen
      <4> QED
        BY <4>1, DrawnAt
    <3> HIDE DEF u
    <3> QED
      BY <1>4, <3>1 DEF stdin_write
  <2>2. Good(u)
    BY <1>1, PrintChar
  <2>3. Shows(terminal', shown')
    <3>1. terminal' = Drawn(Screen, c).terminal
      BY <1>4 DEF stdin_write
    <3> QED
      BY <2>1, <3>1, DrawnAt
  <2>4. k \in Seq(Typed)
    <3>1. CASE c = BS
      <4>1. line # << >> /\ Len(line) \in Nat /\ Len(line) >= 1 /\ Len(line) - 1 <= Len(line)
        BY <1>1, <1>4, <3>1, LenProperties, EmptySeq
      <4>2. \A i \in 1..(Len(line) - 1) : line[i] \in Typed
        BY <1>1, <4>1, ElementOfSeq
      <4> DEFINE b == Len(line) - 1
      <4>3. b \in Int /\ 1 \in Int
        BY <4>1
      <4> HIDE DEF b
      <4>4. SubSeq(line, 1, b) \in Seq(Typed)
        BY <4>2, <4>3, SubSeqProperties DEF b
      <4> QED
        BY <3>1, <4>4 DEF Front, b
    <3>2. CASE c # BS
      <4>1. c \in Typed
        BY <3>2 DEF Typed
      <4>2. Append(line, c) \in Seq(Typed)
        BY <1>1, <4>1, AppendProperties
      <4> QED
        BY <3>2, <4>2
    <3> QED
      BY <3>1, <3>2
  <2>5. ASSUME ~apart' PROVE Echoed(u, k)
    <3>1. Echoed(terminal, line) /\ ~Unfaithful(c)
      BY <1>2, <2>1, <2>5
    <3>2. terminal.cursor < TERMINAL_SIZE
      <4>1. ~(terminal.cursor >= TERMINAL_SIZE)
        BY <1>4, <3>1 DEF Unfaithful
      <4>2. terminal.cursor \in Nat
        BY <1>1, TermShape DEF Good
      <4> QED
        BY <4>1, <4>2, Numbers
    <3>3. u = Put(terminal, c) /\ terminal.cursor \in Cell
      BY <1>1, <3>2, PrintIsPut
    <3> HIDE DEF u
    <3>4. CASE c \in Char \cup {SP}
      <4>1. k = Append(line, c)
        BY <3>4, Names
      <4> HIDE DEF k
      <4> QED
        BY <1>1, <3>1, <3>3, <3>4, <4>1, EchoTyped
    <3>5. CASE c = NL
      <4>1. k = Append(line, NL) /\ u = Put(terminal, NL)
        BY <3>3, <3>5, Names
      <4> HIDE DEF k
      <4> QED
        BY <1>1, <3>1, <3>3, <4>1, EchoNewline
    <3>6. CASE c = BS
      <4>1. k = Front(line) /\ u = Put(terminal, BS) /\ line # << >>
        BY <1>4, <3>3, <3>6
      <4>2. Last(line) # NL
        BY <3>1, <3>6, <4>1 DEF Unfaithful
      <4> HIDE DEF k
      <4> QED
        BY <1>1, <3>1, <3>3, <4>1, <4>2, EchoErased
    <3> QED
      BY <3>4, <3>5, <3>6
  <2> HIDE DEF u, k
  <2>6. Good(terminal)' /\ Shows(terminal, shown)' /\ (line \in Seq(Typed))'
    BY <2>1, <2>2, <2>3, <2>4
  <2>7. (~apart => Echoed(terminal, line))'
    BY <2>1, <2>5
  <2> QED
    BY <2>6, <2>7 DEF IInv
<1> QED
  BY <1>3, <1>4

LEMMA ReadKept ==
    ASSUME IInv, NEW n, stdin_read(n)
    PROVE  IInv'
<1>1. Good(terminal) /\ line \in Seq(Typed) /\ (line # << >> => Shows(terminal, shown))
  BY DEF IInv
<1>2. /\ n \in 1..Len(line) /\ line' = SubSeq(line, n + 1, Len(line))
      /\ UNCHANGED <<terminal, shown, apart>>
  BY DEF stdin_read
<1>3. line' \in Seq(Typed)
  <2>1. n \in 0..Len(line)
    BY <1>2
  <2> QED
    BY <1>1, <1>2, <2>1, Rest
<1>4. ASSUME ~apart' PROVE Echoed(terminal, line')
  <2>1. Echoed(terminal, line)
    BY <1>2, <1>4 DEF IInv
  <2> QED
    BY <1>1, <1>2, <2>1, EchoRead
<1>5. Good(terminal)' /\ (line # << >> => Shows(terminal, shown))' /\ (line \in Seq(Typed))'
  <2>1. line # << >>
    BY <1>1, <1>2, EmptySeq
  <2> QED
    BY <1>1, <1>2, <1>3, <2>1
<1>6. (~apart => Echoed(terminal, line))'
  BY <1>2, <1>4
<1> QED
  BY <1>5, <1>6 DEF IInv

\* With nothing typed, nothing has to stand anywhere.
LEMMA NothingTyped ==
    ASSUME NEW t, t.cursor >= t.cursor_floor
    PROVE  Echoed(t, << >>)
<1>1. Len(<< >>) = 0
  BY EmptySeq
<1>2. Echoes(t, << >>, 0)
  BY DEF Echoes
<1> QED
  BY <1>1, <1>2 DEF Echoed

\* Ctrl+C.
LEMMA InterruptKept ==
    ASSUME IInv, NEW a \in Char, NEW b \in Char, sigint_foreground(a, b)
    PROVE  IInv'
<1> DEFINE s == terminal_print(<<a, b, NL>>)
<1>1. Good(terminal) /\ (~apart => Echoed(terminal, line))
  BY DEF IInv
<1>2. /\ terminal' = s.terminal /\ line' = << >>
      /\ apart' = (apart \/ terminal.cursor + 2 >= TERMINAL_SIZE)
  BY DEF sigint_foreground
<1>3. Good(s.terminal)
  <2> DEFINE three == 3
             str == <<a, b, NL>>
  <2>1. str \in [1..three -> Char \cup {NL, BS, SP, TAB}] /\ three \in Nat
    OBVIOUS
  <2>2. s = terminal_print(str)
    OBVIOUS
  <2> HIDE DEF three, str, s
  <2> QED
    BY <1>1, <2>1, <2>2, Printed
<1>4. ASSUME ~apart' PROVE Echoed(s.terminal, << >>)
  <2>1. terminal.cursor >= terminal.cursor_floor
    BY <1>1, <1>2, <1>4 DEF Echoed, Echoes
  <2>2. terminal.cursor + 2 < TERMINAL_SIZE
    <3>1. terminal.cursor \in Nat
      BY <1>1, TermShape DEF Good
    <3>2. ~(terminal.cursor + 2 >= TERMINAL_SIZE)
      BY <1>2, <1>4, Zenon
    <3> QED
      BY <3>1, <3>2, Numbers
  <2>3. s.terminal.cursor >= s.terminal.cursor_floor
    BY <1>1, <2>1, <2>2, InterruptPrinted
  <2> HIDE DEF s
  <2> QED
    BY <2>3, NothingTyped
<1> HIDE DEF s
<1>5. Good(terminal)' /\ (line # << >> => Shows(terminal, shown))' /\ (line \in Seq(Typed))'
  BY <1>2, <1>3, EmptySeq
<1>6. (~apart => Echoed(terminal, line))'
  BY <1>2, <1>4
<1> QED
  BY <1>5, <1>6 DEF IInv

LEMMA OutputKept ==
    ASSUME IInv, NEW str \in Outputs, handle_syscall_write(str)
    PROVE  IInv'
<1>1. Good(terminal) /\ line \in Seq(Typed) /\ (line # << >> => Shows(terminal, shown))
  BY DEF IInv
<1> DEFINE s == terminal_print(str)
<1>2. /\ terminal' = Floor(s.terminal) /\ shown' = s.shown
      /\ apart' = (line # << >>) /\ line' = line
  BY DEF handle_syscall_write
<1>3. PICK n \in 0..MaxOutput : str \in [1..n -> Char \cup {NL, BS, SP, TAB}]
  BY DEF Outputs
<1>4. /\ Good(s.terminal)
      /\ n = 0 => s = Screen
      /\ n > 0 => Shows(s.terminal, s.shown)
  <2>1. n \in Nat
    BY <1>3, TerminalAssumption
  <2>2. str \in [1..n -> Char \cup {NL, BS, SP, TAB}]
    BY <1>3
  <2> QED
    BY <1>1, <2>1, <2>2, Printed
<1> HIDE DEF s
<1> DEFINE p == s.terminal
<1>5. /\ Good(terminal') /\ terminal'.cursor = terminal'.cursor_floor
      /\ terminal'.cursor \in Nat /\ terminal'.buffer = p.buffer
  <2>1. /\ Floor(p) \in Term /\ Floor(p).buffer = p.buffer
        /\ Floor(p).cursor = p.cursor /\ Floor(p).cursor_floor = p.cursor
    BY <1>4, FloorAt DEF Good
  <2>2. p.cursor \in Nat
    BY <1>4, TermShape DEF Good
  <2> QED
    BY <1>2, <1>4, <2>1, <2>2 DEF Good
<1>6. ASSUME line # << >> PROVE Shows(terminal', shown')
  <2>1. Shows(p, s.shown)
    <3>1. CASE n = 0
      <4>1. p = terminal /\ s.shown = shown
        BY <1>4, <3>1 DEF Screen
      <4> QED
        BY <1>1, <1>6, <4>1
    <3>2. CASE n > 0
      BY <1>4, <3>2
    <3> QED
      BY <1>3, <3>1, <3>2, TerminalAssumption
  <2>2. \A i \in Cell : Glyphs(terminal', i) = Glyphs(p, i)
    BY <1>5 DEF Glyphs
  <2> HIDE DEF p
  <2> QED
    BY <1>2, <2>1, <2>2 DEF Shows
<1> HIDE DEF p
<1>7. ASSUME ~apart' PROVE Echoed(terminal', line')
  <2>1. line' = << >>
    BY <1>2, <1>7
  <2>2. Echoed(terminal', << >>)
    BY <1>5, NothingTyped
  <2> QED
    BY <2>1, <2>2
<1>8. Good(terminal)' /\ (line # << >> => Shows(terminal, shown))' /\ (line \in Seq(Typed))'
  BY <1>1, <1>2, <1>5, <1>6
<1>9. (~apart => Echoed(terminal, line))'
  BY <1>7
<1> QED
  BY <1>8, <1>9 DEF IInv

\* An empty buffer.
LEMMA Cleared ==
    ASSUME NEW C \in [Reach -> Sym], Inside(C), NEW B, NEW t,
           B = [i \in Reach |-> IF i \in Cell THEN NUL ELSE C[i]],
           t = [buffer |-> B, cursor |-> 0, cursor_floor |-> 0]
    PROVE  /\ Good(t) /\ Echoed(t, << >>)
           /\ \A i \in Cell : Glyphs(t, i) = {}
<1>1. \A i \in Reach : /\ B[i] \in Sym
                       /\ i \in Cell => B[i] = NUL
                       /\ i \notin Cell => B[i] = C[i]
  BY DEF Sym
<1>2. B \in [Reach -> Sym]
  BY <1>1
<1>3. Inside(B)
  BY <1>1, Names, Numbers DEF Inside
<1>4. 0 \in Reach
  BY Numbers DEF Reach
<1>5. t \in Term /\ t.buffer = B /\ t.cursor = 0 /\ t.cursor_floor = 0
  BY <1>2, <1>4 DEF Term
<1>6. Echoed(t, << >>)
  BY <1>5, NothingTyped
<1>7. \A i \in Cell : Glyphs(t, i) = {}
  BY <1>1, <1>5, Names, Numbers DEF Glyphs
<1> QED
  BY <1>3, <1>5, <1>6, <1>7 DEF Good

LEMMA ClearKept ==
    ASSUME IInv, parse_ansi_escape
    PROVE  IInv'
<1> DEFINE B == [i \in Reach |-> IF i \in Cell THEN NUL ELSE terminal.buffer[i]]
<1>1. Good(terminal) /\ line \in Seq(Typed) /\ terminal.buffer \in [Reach -> Sym] /\ Inside(terminal.buffer)
  BY TermShape DEF IInv, Good
<1>2. /\ terminal' = [buffer |-> B, cursor |-> 0, cursor_floor |-> 0]
      /\ shown' = [i \in Cell |-> IF i \in Blanked THEN {} ELSE shown[i]]
      /\ apart' = (line # << >>) /\ line' = line
  BY DEF parse_ansi_escape, clear_terminal
<1>3. /\ Good(terminal') /\ Echoed(terminal', << >>)
      /\ \A i \in Cell : Glyphs(terminal', i) = {}
  <2> DEFINE t == [buffer |-> B, cursor |-> 0, cursor_floor |-> 0]
  <2>1. Good(t) /\ Echoed(t, << >>) /\ \A i \in Cell : Glyphs(t, i) = {}
    BY <1>1, Cleared
  <2>2. terminal' = t
    BY <1>2
  <2> HIDE DEF t
  <2> QED
    BY <2>1, <2>2
<1> HIDE DEF B
<1>4. Shows(terminal', shown')
  BY <1>2, <1>3 DEF Shows
<1>5. ASSUME ~apart' PROVE Echoed(terminal', line')
  BY <1>2, <1>3, <1>5
<1>6. Good(terminal)' /\ (line # << >> => Shows(terminal, shown))' /\ (line \in Seq(Typed))'
  BY <1>1, <1>2, <1>3, <1>4
<1>7. (~apart => Echoed(terminal, line))'
  BY <1>5
<1> QED
  BY <1>6, <1>7 DEF IInv

\* The screen, the window and the line together, whatever is typed, read,
\* printed and cleared (terminal.c, stdin.c and the write system call).
THEOREM IInvInductive == Spec => []IInv
<1>1. Init => IInv
  <2> SUFFICES ASSUME Init PROVE IInv
    OBVIOUS
  <2>1. PICK held \in [Cell -> Char \cup {NUL}] :
          terminal = [buffer |-> [i \in Reach |-> IF i \in Cell THEN held[i] ELSE FOREIGN],
                      cursor |-> 0, cursor_floor |-> 0]
    BY DEF Init
  <2> DEFINE B == [i \in Reach |-> IF i \in Cell THEN held[i] ELSE FOREIGN]
  <2>2. \A i \in Reach : /\ B[i] \in Sym
                         /\ i \in Cell => B[i] \in Char \cup {NUL}
                         /\ i \notin Cell => B[i] = FOREIGN
    BY DEF Sym
  <2>3. B \in [Reach -> Sym]
    BY <2>2
  <2>4. Inside(B)
    <3> HIDE DEF B
    <3> QED
      BY <2>2, Names, Numbers DEF Inside
  <2>5. 0 \in Reach
    BY Numbers DEF Reach
  <2>6. terminal \in Term /\ terminal.buffer = B /\ terminal.cursor = 0 /\ terminal.cursor_floor = 0
    BY <2>1, <2>3, <2>5 DEF Term
  <2> HIDE DEF B
  <2>7. Good(terminal) /\ Echoed(terminal, << >>)
    BY <2>4, <2>6, NothingTyped DEF Good
  <2>8. line = << >> /\ line \in Seq(Typed)
    BY EmptySeq DEF Init
  <2> QED
    BY <2>7, <2>8 DEF IInv
<1>2. IInv /\ [Next]_vars => IInv'
  <2> SUFFICES ASSUME IInv, [Next]_vars PROVE IInv'
    OBVIOUS
  <2>1. CASE \E c \in Char \cup {NL, BS, SP} : stdin_write(c)
    BY <2>1, WriteKept
  <2>2. CASE \E n \in 1..MaxLine : stdin_read(n)
    BY <2>2, ReadKept
  <2>6. CASE \E a, b \in Char : sigint_foreground(a, b)
    BY <2>6, InterruptKept
  <2>3. CASE \E str \in Outputs : handle_syscall_write(str)
    BY <2>3, OutputKept
  <2>4. CASE parse_ansi_escape
    BY <2>4, ClearKept
  <2>5. CASE UNCHANGED vars
    BY <2>5 DEF vars, IInv
  <2> QED
    BY <2>1, <2>2, <2>3, <2>4, <2>5, <2>6 DEF Next
<1> QED
  BY <1>1, <1>2, PTL DEF Spec

\* What the user sees before the cursor is what the program will read, unless
\* a scroll by a character or by Ctrl+C, output over a typed line or the erase
\* of a newline took them apart (stdin_write, sigint_foreground and
\* terminal_print_char).
THEOREM ScreenIsLine == Spec => []EchoIsLine
<1>1. IInv => EchoIsLine
  BY EchoHolds
<1> QED
  BY <1>1, IInvInductive, PTL

\* Nothing but the space of a tab gets behind the buffer, and what lies there
\* comes into sight only as the first cell of a row (terminal_print_char).
THEOREM StaysInBuffer == Spec => []WritesInside
<1>1. IInv => WritesInside
  BY DEF IInv, Good, Inside, WritesInside
<1> QED
  BY <1>1, IInvInductive, PTL
=============================================================================
