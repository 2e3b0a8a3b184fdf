---------------------------- MODULE TetrisProofs ----------------------------
(***************************************************************************)
(* The game, proved for every size of board, every level of speed and any  *)
(* choice of the seven pieces.                                             *)
(***************************************************************************)
EXTENDS Tetris, TLAPS, SequenceTheorems, WellFoundedInduction

Col == 0..(BW - 1)

Row == [Col -> 0..7]

Board == [1..BH -> Row]

\* No full row.
Open(rows) == \A i \in 1..BH : ~Full(rows[i])

\* What the program believes it has drawn is what the window shows ...
Shown ==
    /\ DOMAIN display = Places /\ window = Written(display, game_over)
    /\ numbers = sidebar

\* ... and what the game is, unless something is dirty.
Drawn ==
    /\ Shown
    /\ ~dirty => display = wanted /\ sidebar = Numbers

\* The game without its loop.
Sound ==
    /\ board \in Board /\ Open(board)
    /\ cp \in Pieces /\ np \in Pieces
    /\ cr \in 0..3 /\ cx \in -3..(BW - 1) /\ cy \in -1..(BH - 1)
    /\ score \in Nat /\ total_lines \in Nat
    /\ game_over \in BOOLEAN
    /\ PieceFits

IInv ==
    /\ Sound
    /\ tick \in Nat /\ dirty \in BOOLEAN /\ running \in BOOLEAN
    /\ Drawn

(***************************************************************************)
(* Pieces                                                                  *)
(***************************************************************************)
\* Every rotation of every piece has a cell.
LEMMA SomeCell ==
    ASSUME NEW p \in 0..6, NEW r \in 0..3
    PROVE  \E gx \in 0..3, gy \in 0..3 : pcell(p, r, gx, gy)
<1>1. /\ pcell(0, 0, 0, 1) /\ pcell(0, 1, 2, 0)
      /\ pcell(0, 2, 0, 2) /\ pcell(0, 3, 1, 0)
  BY DEF pcell, pieces
<1>2. /\ pcell(1, 0, 1, 0) /\ pcell(1, 1, 1, 0)
      /\ pcell(1, 2, 1, 0) /\ pcell(1, 3, 1, 0)
  BY DEF pcell, pieces
<1>3. /\ pcell(2, 0, 0, 1) /\ pcell(2, 1, 1, 0)
      /\ pcell(2, 2, 1, 0) /\ pcell(2, 3, 1, 0)
  BY DEF pcell, pieces
<1>4. /\ pcell(3, 0, 1, 1) /\ pcell(3, 1, 0, 0)
      /\ pcell(3, 2, 1, 0) /\ pcell(3, 3, 1, 0)
  BY DEF pcell, pieces
<1>5. /\ pcell(4, 0, 0, 1) /\ pcell(4, 1, 1, 0)
      /\ pcell(4, 2, 0, 0) /\ pcell(4, 3, 2, 0)
  BY DEF pcell, pieces
<1>6. /\ pcell(5, 0, 0, 1) /\ pcell(5, 1, 0, 0)
      /\ pcell(5, 2, 2, 0) /\ pcell(5, 3, 1, 0)
  BY DEF pcell, pieces
<1>7. /\ pcell(6, 0, 0, 1) /\ pcell(6, 1, 1, 0)
      /\ pcell(6, 2, 0, 0) /\ pcell(6, 3, 0, 0)
  BY DEF pcell, pieces
<1>8. \A q \in 0..6, s \in 0..3 : \E gx \in 0..3, gy \in 0..3 : pcell(q, s, gx, gy)
  <2> SUFFICES ASSUME NEW q \in 0..6, NEW s \in 0..3
               PROVE  \E gx \in 0..3, gy \in 0..3 : pcell(q, s, gx, gy)
    OBVIOUS
  <2>1. s = 0 \/ s = 1 \/ s = 2 \/ s = 3
    OBVIOUS
  <2>2. CASE q = 0
    BY <1>1, <2>1, <2>2
  <2>3. CASE q = 1
    BY <1>2, <2>1, <2>3
  <2>4. CASE q = 2
    BY <1>3, <2>1, <2>4
  <2>5. CASE q = 3
    BY <1>4, <2>1, <2>5
  <2>6. CASE q = 4
    BY <1>5, <2>1, <2>6
  <2>7. CASE q = 5
    BY <1>6, <2>1, <2>7
  <2>8. CASE q = 6
    BY <1>7, <2>1, <2>8
  <2> QED
    BY <2>2, <2>3, <2>4, <2>5, <2>6, <2>7, <2>8
<1> QED
  BY <1>8

LEMMA ShapeIs ==
    ASSUME NEW p \in Pieces, NEW r \in 0..3
    PROVE  /\ Shape[p][r] \subseteq (0..3) \X (0..3)
           /\ \E gx \in 0..3, gy \in 0..3 : <<gx, gy>> \in Shape[p][r]
<1>1. p \in 0..6
  BY TetrisAssumption
<1>2. Shape[p][r] = {g \in (0..3) \X (0..3) : pcell(p, r, g[1], g[2])}
  BY DEF Shape
<1>3. PICK gx \in 0..3, gy \in 0..3 : pcell(p, r, gx, gy)
  BY <1>1, SomeCell
<1>4. <<gx, gy>> \in (0..3) \X (0..3) /\ <<gx, gy>>[1] = gx /\ <<gx, gy>>[2] = gy
  OBVIOUS
<1>5. <<gx, gy>> \in Shape[p][r]
  BY <1>2, <1>3, <1>4
<1> QED
  BY <1>2, <1>5

\* A cell of a piece lies within four rows and columns of its place.
LEMMA CellsNear ==
    ASSUME NEW p \in Pieces, NEW r \in 0..3, NEW px \in Int, NEW py \in Int,
           NEW c \in Cells(p, r, px, py)
    PROVE  \E gx \in 0..3, gy \in 0..3 : c = <<px + gx, py + gy>>
<1>1. PICK g \in Shape[p][r] : c = <<px + g[1], py + g[2]>>
  BY DEF Cells
<1>2. g \in (0..3) \X (0..3)
  BY ShapeIs
<1>3. g[1] \in 0..3 /\ g[2] \in 0..3
  BY <1>2
<1> QED
  BY <1>1, <1>3

LEMMA CellsSome ==
    ASSUME NEW p \in Pieces, NEW r \in 0..3, NEW px \in Int, NEW py \in Int
    PROVE  \E gx \in 0..3, gy \in 0..3 : <<px + gx, py + gy>> \in Cells(p, r, px, py)
<1>1. PICK gx \in 0..3, gy \in 0..3 : <<gx, gy>> \in Shape[p][r]
  BY ShapeIs
<1>2. <<gx, gy>>[1] = gx /\ <<gx, gy>>[2] = gy
  OBVIOUS
<1>3. <<px + gx, py + gy>> \in Cells(p, r, px, py)
  BY <1>1, <1>2 DEF Cells
<1> QED
  BY <1>3

\* Where a piece fits, it has a place on the board ...
LEMMA FitsInside ==
    ASSUME NEW p \in Pieces, NEW r \in 0..3, NEW px \in Int, NEW py \in Int,
           ~collides(p, r, px, py)
    PROVE  px \in -3..(BW - 1) /\ py <= BH - 1
<1>1. PICK gx \in 0..3, gy \in 0..3 : <<px + gx, py + gy>> \in Cells(p, r, px, py)
  BY CellsSome
<1>2. <<px + gx, py + gy>>[1] = px + gx /\ <<px + gx, py + gy>>[2] = py + gy
  OBVIOUS
<1>3. ~(px + gx < 0) /\ ~(px + gx >= BW) /\ ~(py + gy >= BH)
  BY <1>1, <1>2 DEF collides
<1> QED
  BY <1>3, TetrisAssumption

\* ... and no piece lies below it.
LEMMA FloorCollides ==
    ASSUME NEW p \in Pieces, NEW r \in 0..3, NEW px \in Int
    PROVE  collides(p, r, px, BH)
<1> SUFFICES ASSUME ~collides(p, r, px, BH) PROVE FALSE
  OBVIOUS
<1>1. BH \in Int
  BY TetrisAssumption
<1>2. BH <= BH - 1
  BY <1>1, FitsInside
<1> QED
  BY <1>1, <1>2

LEMMA LeastInSet ==
    ASSUME NEW S \in SUBSET Nat, S # {}
    PROVE  \E x \in S : \A j \in S : x <= j
<1> DEFINE R == {ss \in Nat \X Nat : ss[1] < ss[2]}
<1>1. IsWellFoundedOn(R, Nat)
  BY NatLessThanWellFounded, Zenon DEF OpToRel
<1>2. PICK x \in S : \A y \in S : ~(<<y, x>> \in R)
  <2> HIDE DEF R
  <2> QED
    BY <1>1, WFMin
<1>3. ASSUME NEW y \in S PROVE x <= y
  <2>1. x \in Nat /\ y \in Nat /\ <<y, x>> \in Nat \X Nat
    OBVIOUS
  <2>2. <<y, x>>[1] = y /\ <<y, x>>[2] = x
    OBVIOUS
  <2>3. ~(y < x)
    BY <1>2, <2>1, <2>2, Zenon
  <2> QED
    BY <2>1, <2>3
<1> QED
  BY <1>3

\* Induction over 0..n, stated of a set.
LEMMA Interval ==
    ASSUME NEW n \in Nat, NEW S, 0 \in S, \A i \in 0..(n - 1) : i \in S => i + 1 \in S
    PROVE  0..n \subseteq S
<1> DEFINE Missing == {i \in 0..n : i \notin S}
<1> SUFFICES ASSUME Missing # {} PROVE FALSE
  OBVIOUS
<1>1. Missing \in SUBSET Nat
  OBVIOUS
<1>2. PICK m \in Missing : \A i \in Missing : m <= i
  <2> HIDE DEF Missing
  <2> QED
    BY <1>1, LeastInSet
<1>3. m \in 0..n /\ m # 0 /\ m \notin S
  OBVIOUS
<1>4. m - 1 \in 0..(n - 1) /\ m - 1 + 1 = m
  BY <1>3
<1>5. m - 1 \in S
  BY <1>2, <1>3, <1>4
<1> QED
  BY <1>3, <1>4, <1>5

\* Where a fall ends: the piece lies on something there, and on nothing above.
Lands(p, r, px, py, y) ==
    /\ y \in py..(BH - 1)
    /\ collides(p, r, px, y + 1)
    /\ \A z \in py..(y - 1) : ~collides(p, r, px, z + 1)

LEMMA LowestIs ==
    ASSUME NEW p \in Pieces, NEW r \in 0..3, NEW px \in Int, NEW py \in -1..(BH - 1)
    PROVE  /\ Lands(p, r, px, py, Lowest(p, r, px, py))
           /\ \A y : Lands(p, r, px, py, y) => y = Lowest(p, r, px, py)
<1>0. BH \in Nat /\ BH >= 1 /\ py \in Int
  BY TetrisAssumption
<1> DEFINE n == BH - 1 - py
           S == {k \in 0..n : collides(p, r, px, py + k + 1)}
<1>1. n \in Nat /\ py + n + 1 = BH
  BY <1>0
<1>2. n \in S
  BY <1>1, FloorCollides
<1>3. S \in SUBSET Nat /\ S # {}
  BY <1>2
<1>4. PICK k \in S : \A j \in S : k <= j
  <2> HIDE DEF S
  <2> QED
    BY <1>3, LeastInSet
<1>5. k \in 0..n /\ collides(p, r, px, py + k + 1)
  OBVIOUS
<1>6. ASSUME NEW z \in py..(py + k - 1) PROVE ~collides(p, r, px, z + 1)
  <2> DEFINE j == z - py
  <2>1. j \in 0..n /\ py + j + 1 = z + 1 /\ ~(k <= j)
    BY <1>0, <1>1, <1>5
  <2> QED
    BY <1>4, <2>1
<1> DEFINE y == py + k
<1>7. y \in py..(BH - 1)
  BY <1>0, <1>5
<1>8. Lands(p, r, px, py, y)
  BY <1>5, <1>6, <1>7 DEF Lands
<1> HIDE DEF y, S, n
<1>9. Lands(p, r, px, py, Lowest(p, r, px, py))
  BY <1>8, Zenon DEF Lands, Lowest
<1>10. ASSUME NEW a, NEW b, Lands(p, r, px, py, a), Lands(p, r, px, py, b) PROVE ~(a < b)
  <2> SUFFICES ASSUME a < b PROVE FALSE
    OBVIOUS
  <2>1. a \in py..(b - 1)
    BY <1>0, <1>10 DEF Lands
  <2> QED
    BY <1>10, <2>1 DEF Lands
<1>11. ASSUME NEW a, Lands(p, r, px, py, a) PROVE a = Lowest(p, r, px, py)
  <2> DEFINE b == Lowest(p, r, px, py)
  <2>1. ~(a < b) /\ ~(b < a)
    BY <1>9, <1>10, <1>11
  <2>2. a \in Int /\ b \in Int
    BY <1>0, <1>9, <1>11 DEF Lands
  <2> HIDE DEF b
  <2>3. a = b
    BY <2>1, <2>2
  <2> QED
    BY <2>3 DEF b
<1> QED
  BY <1>9, <1>11

(***************************************************************************)
(* Rows                                                                    *)
(***************************************************************************)
LEMMA EmptyRowIs == EmptyRow \in Row /\ ~Full(EmptyRow)
<1>1. 0 \in Col
  BY TetrisAssumption DEF Col
<1>2. EmptyRow = [x \in Col |-> 0]
  BY DEF EmptyRow, Col
<1>3. EmptyRow \in Row /\ EmptyRow[0] = 0
  BY <1>1, <1>2 DEF Row
<1> QED
  BY <1>1, <1>3 DEF Full, Col

\* The i-th step of the scan of the rows.
Scan(rows, g, i) ==
    IF i = 0 THEN << >>
    ELSE IF Full(rows[i]) THEN g[i - 1] ELSE Append(g[i - 1], rows[i])

LEMMA ScanRuns ==
    ASSUME NEW rows, NEW n \in Nat
    PROVE  \E g : g = [i \in 0..n |-> Scan(rows, g, i)]
<1> DEFINE S == {k \in 0..n : \E g : g = [i \in 0..k |-> Scan(rows, g, i)]}
<1>1. 0 \in S
  <2> DEFINE g == [i \in 0..0 |-> << >>]
  <2>1. g = [i \in 0..0 |-> Scan(rows, g, i)]
    BY DEF Scan
  <2> QED
    BY <2>1
<1>2. ASSUME NEW k \in 0..(n - 1), k \in S PROVE k + 1 \in S
  <2>1. PICK g : g = [i \in 0..k |-> Scan(rows, g, i)]
    BY <1>2
  <2> DEFINE h == [i \in 0..(k + 1) |-> IF i <= k THEN g[i] ELSE Scan(rows, g, k + 1)]
  <2>2. ASSUME NEW i \in 0..(k + 1) PROVE h[i] = Scan(rows, h, i)
    <3>1. i # 0 => i - 1 \in 0..(k + 1) /\ i - 1 <= k
      OBVIOUS
    <3>2. i # 0 => h[i - 1] = g[i - 1]
      BY <3>1
    <3>3. Scan(rows, h, i) = Scan(rows, g, i)
      <4> HIDE DEF h
      <4>1. CASE i = 0
        BY <4>1 DEF Scan
      <4>2. CASE i # 0
        BY <3>2, <4>2, Zenon DEF Scan
      <4> QED
        BY <4>1, <4>2
    <3>4. CASE i <= k
      <4>1. i \in 0..k /\ h[i] = g[i]
        BY <3>4
      <4>2. g[i] = Scan(rows, g, i)
        BY <2>1, <4>1
      <4> QED
        BY <3>3, <4>1, <4>2
    <3>5. CASE ~(i <= k)
      <4>1. i = k + 1
        BY <3>5
      <4>2. h[i] = Scan(rows, g, k + 1)
        BY <3>5
      <4> QED
        BY <3>3, <4>1, <4>2
    <3> QED
      BY <3>4, <3>5
  <2>3. h = [i \in 0..(k + 1) |-> h[i]]
    OBVIOUS
  <2> HIDE DEF h
  <2>4. h = [i \in 0..(k + 1) |-> Scan(rows, h, i)]
    BY <2>2, <2>3
  <2>5. k + 1 \in 0..n
    OBVIOUS
  <2> QED
    BY <2>4, <2>5
<1>3. 0..n \subseteq S
  <2> HIDE DEF S
  <2> QED
    BY <1>1, <1>2, Interval
<1>4. n \in S
  BY <1>3
<1> QED
  BY <1>4

LEMMA ScanAt ==
    ASSUME NEW rows, NEW g, NEW k \in Nat
    PROVE  /\ Full(rows[k + 1]) => Scan(rows, g, k + 1) = g[k]
           /\ ~Full(rows[k + 1]) => Scan(rows, g, k + 1) = Append(g[k], rows[k + 1])
<1>1. k + 1 - 1 = k /\ k + 1 # 0
  OBVIOUS
<1> QED
  BY <1>1 DEF Scan

\* Of the rows after b, the four that a piece in them can fill.
Band(b, i) == IF i <= b THEN 0 ELSE IF i >= b + 4 THEN 4 ELSE i - b

LEMMA BandGrows ==
    ASSUME NEW b \in Int, NEW i \in Int
    PROVE  /\ Band(b, i) \in 0..4 /\ Band(b, i) \in Int /\ Band(b, i + 1) \in Int
           /\ Band(b, i) <= Band(b, i + 1)
           /\ i \in b..(b + 3) => Band(b, i + 1) = Band(b, i) + 1
BY DEF Band

\* After i rows: none that is kept is full, and at most those of the band are
\* gone.
Scanned(d, b, i) ==
    /\ d \in Seq(Row)
    /\ Len(d) \in 0..i
    /\ Len(d) + Band(b, i) >= i
    /\ \A j \in 1..Len(d) : ~Full(d[j])

LEMMA ScanKeeps ==
    ASSUME NEW rows \in Board, NEW b \in Int, b >= -1, NEW k \in 0..(BH - 1), NEW d,
           Scanned(d, b, k), Full(rows[k + 1]) => k \in b..(b + 3), NEW e,
           Full(rows[k + 1]) => e = d, ~Full(rows[k + 1]) => e = Append(d, rows[k + 1])
    PROVE  Scanned(e, b, k + 1)
<1>1. BH \in Nat /\ k \in Nat /\ k \in Int /\ k + 1 \in 1..BH
  BY TetrisAssumption
<1>2. /\ d \in Seq(Row) /\ Len(d) \in Nat /\ Len(d) <= k /\ Len(d) + Band(b, k) >= k
      /\ \A j \in 1..Len(d) : ~Full(d[j])
  BY DEF Scanned
<1>3. /\ Band(b, k) \in Int /\ Band(b, k + 1) \in Int
      /\ Band(b, k) <= Band(b, k + 1)
      /\ k \in b..(b + 3) => Band(b, k + 1) = Band(b, k) + 1
  BY <1>1, BandGrows
<1>4. CASE Full(rows[k + 1])
  <2>1. e = d
    BY <1>4
  <2>2. Len(d) + Band(b, k + 1) >= k + 1
    BY <1>1, <1>2, <1>3, <1>4
  <2>3. Len(d) \in 0..(k + 1)
    BY <1>1, <1>2
  <2> QED
    BY <1>2, <2>1, <2>2, <2>3 DEF Scanned
<1>5. CASE ~Full(rows[k + 1])
  <2>1. e = Append(d, rows[k + 1]) /\ rows[k + 1] \in Row
    BY <1>1, <1>5 DEF Board
  <2>2. /\ e \in Seq(Row) /\ Len(e) = Len(d) + 1
        /\ \A i \in 1..Len(d) : e[i] = d[i]
        /\ e[Len(d) + 1] = rows[k + 1]
    BY <1>2, <2>1, AppendProperties
  <2>3. \A j \in 1..Len(e) : ~Full(e[j])
    <3> TAKE j \in 1..Len(e)
    <3>1. j \in 1..Len(d) \/ j = Len(d) + 1
      BY <1>2, <2>2
    <3> QED
      BY <1>2, <1>5, <2>2, <3>1
  <2>4. Len(e) \in 0..(k + 1) /\ Len(e) + Band(b, k + 1) >= k + 1
    BY <1>1, <1>2, <1>3, <2>2
  <2> QED
    BY <2>2, <2>3, <2>4 DEF Scanned
<1> QED
  BY <1>4, <1>5

\* Full rows lie in the four rows from b on: then at most four go.
LEMMA KeptIs ==
    ASSUME NEW rows \in Board, NEW b \in Int, b >= -1,
           \A i \in 1..BH : Full(rows[i]) => i - 1 \in b..(b + 3)
    PROVE  /\ Kept(rows) \in Seq(Row) /\ Len(Kept(rows)) \in 0..BH
           /\ \A j \in 1..Len(Kept(rows)) : ~Full(Kept(rows)[j])
           /\ Cleared(rows) \in 0..4 /\ Cleared(rows) + Len(Kept(rows)) = BH
<1> DEFINE G == CHOOSE g : g = [i \in 0..BH |-> Scan(rows, g, i)]
           S == {k \in 0..BH : Scanned(G[k], b, k)}
<1>1. BH \in Nat
  BY TetrisAssumption
<1>2. Kept(rows) = G[BH]
  BY DEF Kept, Scan
<1>3. G = [i \in 0..BH |-> Scan(rows, G, i)]
  BY <1>1, ScanRuns, Zenon
<1> HIDE DEF G
<1>4. 0 \in S
  <2>1. G[0] = Scan(rows, G, 0)
    BY <1>1, <1>3
  <2>2. G[0] = << >>
    BY <2>1 DEF Scan
  <2>3. << >> \in Seq(Row) /\ Len(<< >>) = 0
    BY EmptySeq
  <2>4. Band(b, 0) \in 0..4
    <3>1. 0 \in Int
      OBVIOUS
    <3> QED
      BY <3>1, BandGrows
  <2>5. Scanned(<< >>, b, 0)
    BY <2>3, <2>4 DEF Scanned
  <2> QED
    BY <1>1, <2>2, <2>5
<1>5. ASSUME NEW k \in 0..(BH - 1), k \in S PROVE k + 1 \in S
  <2>1. k + 1 \in 0..BH /\ k + 1 \in 1..BH /\ k \in Nat /\ k + 1 - 1 = k
    BY <1>1
  <2>2. G[k + 1] = Scan(rows, G, k + 1)
    BY <1>3, <2>1
  <2>3. /\ Full(rows[k + 1]) => G[k + 1] = G[k]
        /\ ~Full(rows[k + 1]) => G[k + 1] = Append(G[k], rows[k + 1])
    BY <2>1, <2>2, ScanAt
  <2>4. Full(rows[k + 1]) => k \in b..(b + 3)
    BY <2>1
  <2>5. Scanned(G[k], b, k)
    BY <1>5
  <2>6. Scanned(G[k + 1], b, k + 1)
    BY <2>3, <2>4, <2>5, ScanKeeps
  <2> QED
    BY <2>1, <2>6
<1>6. 0..BH \subseteq S
  <2> HIDE DEF S
  <2> QED
    BY <1>1, <1>4, <1>5, Interval
<1>7. Scanned(Kept(rows), b, BH)
  BY <1>1, <1>2, <1>6
<1>8. /\ Kept(rows) \in Seq(Row) /\ Len(Kept(rows)) \in 0..BH
      /\ Len(Kept(rows)) + Band(b, BH) >= BH
      /\ \A j \in 1..Len(Kept(rows)) : ~Full(Kept(rows)[j])
  BY <1>7 DEF Scanned
<1>9. Band(b, BH) \in 0..4
  BY <1>1, BandGrows
<1>10. Cleared(rows) \in 0..4 /\ Cleared(rows) + Len(Kept(rows)) = BH
  <2> DEFINE n == Len(Kept(rows))
             m == Band(b, BH)
  <2>1. n \in 0..BH /\ n + m >= BH /\ m \in 0..4 /\ Cleared(rows) = BH - n
    BY <1>8, <1>9 DEF Cleared
  <2> HIDE DEF n, m
  <2>2. Cleared(rows) \in 0..4 /\ Cleared(rows) + n = BH
    BY <1>1, <2>1
  <2> QED
    BY <2>2 DEF n
<1> QED
  BY <1>8, <1>10

\* The rows that are left come down on empty ones.
LEMMA RowsComeDown ==
    ASSUME NEW rows \in Board, NEW b \in Int, b >= -1,
           \A i \in 1..BH : Full(rows[i]) => i - 1 \in b..(b + 3)
    PROVE  clear_rows(rows) \in Board /\ Open(clear_rows(rows))
<1> DEFINE n == Cleared(rows)
           top == [i \in 1..n |-> EmptyRow]
           low == Kept(rows)
           new == top \o low
<1>1. /\ low \in Seq(Row) /\ Len(low) \in 0..BH
      /\ \A j \in 1..Len(low) : ~Full(low[j])
      /\ n \in 0..4 /\ n + Len(low) = BH
  BY KeptIs
<1>2. BH \in Nat
  BY TetrisAssumption
<1>3. clear_rows(rows) = new
  BY DEF clear_rows
<1> HIDE DEF n, low
<1>4. top \in Seq(Row) /\ Len(top) = n /\ \A i \in 1..n : top[i] = EmptyRow
  <2>1. n \in Nat
    BY <1>1
  <2>2. top \in [1..n -> Row] /\ DOMAIN top = 1..n
    BY EmptyRowIs
  <2>3. \A i \in 1..n : top[i] = EmptyRow
    OBVIOUS
  <2> HIDE DEF top
  <2>4. top \in Seq(Row)
    BY <2>1, <2>2
  <2>5. Len(top) = n
    BY <2>1, <2>2, <2>4, LenProperties
  <2> QED
    BY <2>3, <2>4, <2>5
<1> HIDE DEF top
<1>5. /\ new \in Seq(Row) /\ Len(new) = Len(top) + Len(low)
      /\ \A i \in 1..(Len(top) + Len(low)) :
            new[i] = IF i <= Len(top) THEN top[i] ELSE low[i - Len(top)]
  BY <1>1, <1>4, ConcatProperties
<1> HIDE DEF new
<1>6. Len(new) = BH
  BY <1>1, <1>4, <1>5
<1>7. \A i \in 1..BH : ~Full(new[i])
  <2> TAKE i \in 1..BH
  <2>1. CASE i <= n
    <3>1. new[i] = EmptyRow
      BY <1>1, <1>4, <1>5, <2>1
    <3> QED
      BY <3>1, EmptyRowIs
  <2>2. CASE ~(i <= n)
    <3>1. i - n \in 1..Len(low)
      BY <1>1, <1>2, <2>2
    <3>2. new[i] = low[i - n]
      BY <1>1, <1>4, <1>5, <2>2
    <3> QED
      BY <1>1, <3>1, <3>2
  <2> QED
    BY <2>1, <2>2
<1>8. new \in Board
  BY <1>5, <1>6, LenProperties DEF Board
<1> QED
  BY <1>3, <1>7, <1>8 DEF Open

(***************************************************************************)
(* The picture as a function of the game                                   *)
(***************************************************************************)
Hits(b, p, r, px, py) ==
    \E c \in Cells(p, r, px, py) :
        \/ c[1] < 0 \/ c[1] >= BW \/ c[2] >= BH
        \/ c[2] >= 0 /\ b[c[2] + 1][c[1]] # 0

View(b, p, r, px, py) ==
    LET low   == CHOOSE y \in py..(BH - 1) :
                    /\ Hits(b, p, r, px, y + 1)
                    /\ \A z \in py..(y - 1) : ~Hits(b, p, r, px, z + 1)
        piece == Cells(p, r, px, py)
        ghost == {c \in Cells(p, r, px, low) \ piece : OnBoard(c) /\ b[c[2] + 1][c[1]] = 0}
    IN  [c \in Places |->
            IF c \in piece THEN p + 1 ELSE IF c \in ghost THEN Ghost ELSE b[c[2] + 1][c[1]]]

LEMMA CollidesIs ==
    /\ \A p, r, x, y : collides(p, r, x, y) <=> Hits(board, p, r, x, y)
    /\ collides(cp, cr, cx, cy)' <=> Hits(board', cp', cr', cx', cy')
<1>1. ASSUME NEW p, NEW r, NEW x, NEW y
      PROVE  collides(p, r, x, y) <=> Hits(board, p, r, x, y)
  BY DEF collides, Hits, At
<1>2. collides(cp, cr, cx, cy)' <=> Hits(board', cp', cr', cx', cy')
  BY DEF collides, Hits, At, Cells
<1> QED
  BY <1>1, <1>2

LEMMA WantedIs ==
    /\ wanted = View(board, cp, cr, cx, cy)
    /\ wanted' = View(board', cp', cr', cx', cy')
<1>1. wanted = View(board, cp, cr, cx, cy)
  BY DEF wanted, View, Lowest, collides, Hits, At
<1>2. wanted' = View(board', cp', cr', cx', cy')
  BY DEF wanted, View, Lowest, collides, Hits, At, Cells
<1> QED
  BY <1>1, <1>2

(***************************************************************************)
(* What the player sees and the table of points                            *)
(***************************************************************************)
LEMMA LockIs ==
    ASSUME Sound, NEW rows, rows = lock_piece
    PROVE  rows \in Board /\ \A i \in 1..BH : Full(rows[i]) => i - 1 \in cy..(cy + 3)
<1>1. /\ board \in Board /\ Open(board) /\ cp \in Pieces /\ cr \in 0..3
      /\ cx \in Int /\ cy \in Int
  BY DEF Sound
<1>2. cp + 1 \in 0..7 /\ BH \in Nat
  BY <1>1, TetrisAssumption
<1> DEFINE piece == Cells(cp, cr, cx, cy)
<1>3. rows = [i \in 1..BH |-> [x \in Col |-> IF <<x, i - 1>> \in piece THEN cp + 1 ELSE board[i][x]]]
  BY DEF lock_piece, Col
<1> HIDE DEF piece
<1>4. ASSUME NEW i \in 1..BH
      PROVE  /\ rows[i] \in Row
             /\ Full(rows[i]) => i - 1 \in cy..(cy + 3)
  <2>1. rows[i] = [x \in Col |-> IF <<x, i - 1>> \in piece THEN cp + 1 ELSE board[i][x]]
    BY <1>3
  <2>2. board[i] \in Row /\ ~Full(board[i])
    BY <1>1 DEF Board, Open
  <2>3. rows[i] \in Row
    BY <1>2, <2>1, <2>2 DEF Row
  <2>4. ASSUME Full(rows[i]) PROVE i - 1 \in cy..(cy + 3)
    <3>1. PICK x \in Col : board[i][x] = 0
      BY <2>2 DEF Full, Col
    <3>2. rows[i][x] # 0
      BY <2>4 DEF Full, Col
    <3>3. <<x, i - 1>> \in piece
      BY <2>1, <3>1, <3>2
    <3>4. PICK gx \in 0..3, gy \in 0..3 : <<x, i - 1>> = <<cx + gx, cy + gy>>
      BY <1>1, <3>3, CellsNear DEF piece
    <3>5. i - 1 = cy + gy
      BY <3>4
    <3> QED
      BY <1>1, <3>5
  <2> QED
    BY <2>3, <2>4
<1>5. DOMAIN rows = 1..BH /\ rows = [i \in 1..BH |-> rows[i]]
  BY <1>3
<1>6. rows \in Board
  BY <1>4, <1>5 DEF Board
<1> QED
  BY <1>4, <1>6

LEMMA RowsHold == IInv => RowsCleared
<1> SUFFICES ASSUME IInv PROVE RowsCleared
  OBVIOUS
<1>1. Sound /\ Open(board) /\ cy \in Int /\ cy >= -1
  BY DEF IInv, Sound
<1>2. /\ lock_piece \in Board
      /\ \A i \in 1..BH : Full(lock_piece[i]) => i - 1 \in cy..(cy + 3)
  BY <1>1, LockIs
<1>3. Cleared(lock_piece) \in 0..4
  BY <1>1, <1>2, KeptIs
<1>4. DOMAIN points = 1..5
  BY DEF points
<1>5. Cleared(lock_piece) + 1 \in 1..5
  BY <1>3
<1> QED
  BY <1>1, <1>4, <1>5 DEF RowsCleared, Open

LEMMA PictureHolds == IInv => PictureTrue
<1> SUFFICES ASSUME IInv, ~dirty PROVE PictureTrue
  BY DEF PictureTrue
<1> DEFINE piece  == Cells(cp, cr, cx, cy)
           low    == Lowest(cp, cr, cx, cy)
           lowest == {y \in cy..(BH - 1) : \A z \in (cy + 1)..y : ~collides(cp, cr, cx, z)}
           slam   == UNION {Cells(cp, cr, cx, y) : y \in {z \in lowest : collides(cp, cr, cx, z + 1)}}
           ghost  == {c \in Cells(cp, cr, cx, low) \ piece : OnBoard(c) /\ At(c) = 0}
<1>1. /\ cp \in Pieces /\ cr \in 0..3 /\ cx \in Int /\ cy \in -1..(BH - 1) /\ cy \in Int
      /\ display = wanted /\ sidebar = Numbers /\ numbers = sidebar
      /\ window = Written(display, game_over)
  BY DEF IInv, Sound, Drawn, Shown
<1>2. BH \in Nat
  BY TetrisAssumption
<1>3. /\ Lands(cp, cr, cx, cy, low)
      /\ \A y : Lands(cp, cr, cx, cy, y) => y = low
  BY <1>1, LowestIs
<1>4. \A y \in cy..(BH - 1) :
         (\A z \in (cy + 1)..y : ~collides(cp, cr, cx, z))
            <=> \A z \in cy..(y - 1) : ~collides(cp, cr, cx, z + 1)
  <2> TAKE y \in cy..(BH - 1)
  <2>1. y \in Int
    BY <1>1, <1>2
  <2>2. ASSUME \A z \in (cy + 1)..y : ~collides(cp, cr, cx, z), NEW z \in cy..(y - 1)
        PROVE  ~collides(cp, cr, cx, z + 1)
    <3>1. z + 1 \in (cy + 1)..y
      BY <1>1, <2>1
    <3> QED
      BY <2>2, <3>1
  <2>3. ASSUME \A z \in cy..(y - 1) : ~collides(cp, cr, cx, z + 1), NEW z \in (cy + 1)..y
        PROVE  ~collides(cp, cr, cx, z)
    <3>1. z - 1 \in cy..(y - 1) /\ z - 1 + 1 = z
      BY <1>1, <2>1
    <3> QED
      BY <2>3, <3>1
  <2> QED
    BY <2>2, <2>3
<1>5. \A y : (y \in lowest /\ collides(cp, cr, cx, y + 1)) <=> y = low
  <2> HIDE DEF low
  <2>1. \A y : (y \in lowest /\ collides(cp, cr, cx, y + 1)) <=> Lands(cp, cr, cx, cy, y)
    BY <1>4 DEF Lands
  <2> QED
    BY <1>3, <2>1
<1> HIDE DEF lowest, low
<1>6. slam = Cells(cp, cr, cx, low)
  BY <1>5
<1>7. display = [c \in Places |->
                   IF c \in piece THEN cp + 1 ELSE IF c \in ghost THEN Ghost ELSE At(c)]
  BY <1>1 DEF wanted, low
<1> HIDE DEF slam, piece
<1> DEFINE text == IF game_over THEN Across ELSE {}
<1>8. ASSUME NEW c \in Places
      PROVE  window[c] = IF c \in text THEN GameOver ELSE display[c]
  <2>1. c \in DOMAIN display
    BY <1>7
  <2> QED
    BY <1>1, <2>1 DEF Written
<1> HIDE DEF text
<1>9. ASSUME NEW c \in Places \ text
      PROVE  /\ c \in piece => window[c] = cp + 1
             /\ c \notin piece /\ At(c) # 0 => window[c] = At(c)
             /\ c \notin piece /\ At(c) = 0 => window[c] = IF c \in slam THEN Ghost ELSE 0
  <2>1. c \in (0..(BW - 1)) \X (0..(BH - 1))
    BY DEF Places
  <2>2. OnBoard(c)
    BY <2>1 DEF OnBoard
  <2>3. c \in ghost <=> (c \in slam /\ c \notin piece /\ At(c) = 0)
    BY <1>6, <2>2
  <2>4. display[c] = IF c \in piece THEN cp + 1 ELSE IF c \in ghost THEN Ghost ELSE At(c)
    BY <1>7
  <2>5. window[c] = display[c]
    BY <1>8
  <2> HIDE DEF ghost
  <2> QED
    BY <2>3, <2>4, <2>5
<1>10. \A c \in Places \ text :
         CASE c \in piece -> window[c] = cp + 1
           [] c \notin piece /\ At(c) # 0 -> window[c] = At(c)
           [] c \notin piece /\ At(c) = 0 -> window[c] = IF c \in slam THEN Ghost ELSE 0
  <2> TAKE c \in Places \ text
  <2>1. CASE c \in piece
    BY <1>9, <2>1
  <2>2. CASE c \notin piece /\ At(c) # 0
    BY <1>9, <2>2
  <2>3. CASE c \notin piece /\ At(c) = 0
    BY <1>9, <2>3
  <2> QED
    BY <2>1, <2>2, <2>3
<1>11. \A c \in Places \cap text : window[c] = GameOver
  BY <1>8
<1> QED
  BY <1>1, <1>10, <1>11 DEF PictureTrue, slam, lowest, piece, text

(***************************************************************************)
(* Drawing by differences                                                  *)
(***************************************************************************)
\* Cells that are drawn where they differ from what the window shows, and
\* cells left alone where they do not, make the whole picture.
LEMMA RedrawnIs ==
    ASSUME NEW shadow, NEW want, DOMAIN shadow = Places, want = [c \in Places |-> want[c]],
           NEW over, NEW overNext, over => overNext
    PROVE  Written(Redrawn(Written(shadow, over), shadow, want), overNext)
              = Written(want, overNext)
<1> DEFINE was == Written(shadow, over)
           drawn == Redrawn(was, shadow, want)
<1>1. DOMAIN drawn = Places /\ DOMAIN want = Places
  BY DEF Redrawn
<1>2. ASSUME NEW c \in Places
      PROVE  (IF overNext /\ c \in Across THEN GameOver ELSE drawn[c])
                = (IF overNext /\ c \in Across THEN GameOver ELSE want[c])
  <2>1. CASE overNext /\ c \in Across
    BY <2>1
  <2>2. CASE ~(overNext /\ c \in Across)
    <3>1. was[c] = shadow[c]
      BY <2>2 DEF Written
    <3>2. drawn[c] = IF want[c] # shadow[c] THEN want[c] ELSE was[c]
      BY <1>1 DEF Redrawn
    <3> HIDE DEF was, drawn
    <3>3. drawn[c] = want[c]
      BY <3>1, <3>2
    <3> QED
      BY <3>3
  <2> QED
    BY <2>1, <2>2
<1> HIDE DEF drawn
<1>3. Written(drawn, overNext) = [c \in Places |-> IF overNext /\ c \in Across THEN GameOver ELSE drawn[c]]
  BY <1>1 DEF Written
<1>4. Written(want, overNext) = [c \in Places |-> IF overNext /\ c \in Across THEN GameOver ELSE want[c]]
  BY <1>1 DEF Written
<1>5. Written(drawn, overNext) = Written(want, overNext)
  BY <1>2, <1>3, <1>4
<1> QED
  BY <1>5 DEF drawn, was

LEMMA NumbersRedrawn ==
    ASSUME NEW was, NEW a, NEW b, NEW c, NEW d
    PROVE  Redrawn(was, was, <<a, b, c, d>>) = <<a, b, c, d>>
<1> DEFINE want == <<a, b, c, d>>
<1>1. want = [i \in DOMAIN want |-> want[i]]
  OBVIOUS
<1> HIDE DEF want
<1>2. Redrawn(was, was, want) = [i \in DOMAIN want |-> want[i]]
  BY DEF Redrawn
<1>3. Redrawn(was, was, want) = want
  BY <1>1, <1>2
<1> QED
  BY <1>3 DEF want

LEMMA WantedShape ==
    /\ wanted = [c \in Places |-> wanted[c]]
    /\ wanted' = [c \in Places |-> wanted'[c]]
<1>1. /\ View(board, cp, cr, cx, cy) = [c \in Places |-> View(board, cp, cr, cx, cy)[c]]
      /\ View(board', cp', cr', cx', cy') = [c \in Places |-> View(board', cp', cr', cx', cy')[c]]
  BY DEF View
<1> QED
  BY <1>1, WantedIs

LEMMA Rendered ==
    ASSUME Shown, render, game_over => game_over'
    PROVE  Drawn'
<1>1. /\ DOMAIN display = Places /\ window = Written(display, game_over)
      /\ numbers = sidebar
  BY DEF Shown
<1>2. /\ window' = Written(Redrawn(window, display, wanted'), game_over')
      /\ display' = wanted' /\ sidebar' = Numbers'
      /\ numbers' = Redrawn(numbers, sidebar, Numbers')
  BY DEF render
<1>3. wanted' = [c \in Places |-> wanted'[c]]
  BY WantedShape
<1> DEFINE w == wanted'
           now == game_over'
<1> HIDE DEF w, now
<1>4. window' = Written(display', now)
  <2>1. w = [c \in Places |-> w[c]] /\ (game_over => now)
    BY <1>3 DEF w, now
  <2>2. Written(Redrawn(Written(display, game_over), display, w), now) = Written(w, now)
    BY <1>1, <2>1, RedrawnIs
  <2> QED
    BY <1>1, <1>2, <2>2 DEF w, now
<1>5. DOMAIN display' = Places
  BY <1>2, <1>3
<1>6. numbers' = sidebar'
  <2>1. Numbers' = <<score', total_lines', level', np'>>
    BY DEF Numbers
  <2> QED
    BY <1>1, <1>2, <2>1, NumbersRedrawn
<1>7. Shown'
  BY <1>4, <1>5, <1>6 DEF Shown, now
<1> QED
  BY <1>2, <1>7 DEF Drawn

(***************************************************************************)
(* The game moves on                                                       *)
(***************************************************************************)
LEMMA SoundPlace ==
    ASSUME Sound
    PROVE  /\ cr \in 0..3 /\ cx \in Int /\ cy \in Int /\ cy >= -1
           /\ cx - 1 \in Int /\ cx + 1 \in Int /\ cy + 1 \in Int /\ cy + 1 >= -1
<1>1. cr \in 0..3 /\ cx \in Int /\ cy \in Int /\ cy >= -1
  BY DEF Sound
<1> QED
  BY <1>1

LEMMA Idle ==
    ASSUME Sound, UNCHANGED game
    PROVE  Sound'
<1>1. /\ board' = board /\ cp' = cp /\ cr' = cr /\ cx' = cx /\ cy' = cy /\ np' = np
      /\ score' = score /\ total_lines' = total_lines /\ game_over' = game_over
  BY DEF game
<1>2. PieceFits'
  BY <1>1, CollidesIs DEF Sound, PieceFits
<1>3. Open(board')
  BY <1>1 DEF Sound
<1> QED
  BY <1>1, <1>2, <1>3 DEF Sound

\* To a place where it fits.
LEMMA MoveFits ==
    ASSUME Sound, NEW r \in 0..3, NEW x \in Int, NEW y \in Int, y >= -1,
           ~collides(cp, r, x, y), Move(r, x, y)
    PROVE  Sound'
<1>1. /\ cr' = r /\ cx' = x /\ cy' = y
      /\ board' = board /\ cp' = cp /\ np' = np
      /\ score' = score /\ total_lines' = total_lines /\ game_over' = game_over
  BY DEF Move
<1>2. x \in -3..(BW - 1) /\ y <= BH - 1
  BY FitsInside DEF Sound
<1>3. y \in -1..(BH - 1)
  BY <1>2, TetrisAssumption
<1>4. ~Hits(board', cp', cr', cx', cy')
  BY <1>1, CollidesIs
<1>5. PieceFits'
  BY <1>4, CollidesIs DEF PieceFits
<1>6. Open(board')
  BY <1>1 DEF Sound
<1> QED
  BY <1>1, <1>2, <1>3, <1>5, <1>6 DEF Sound

LEMMA TryFits ==
    ASSUME Sound, NEW r \in 0..3, NEW x \in Int, NEW y \in Int, y >= -1, Try(r, x, y)
    PROVE  Sound'
<1>1. CASE collides(cp, r, x, y)
  BY <1>1, Idle DEF Try
<1>2. CASE ~collides(cp, r, x, y)
  BY <1>2, MoveFits DEF Try
<1> QED
  BY <1>1, <1>2

\* The choice among the kicks.
Kicked(nr, kicks) ==
    CASE 0 \in kicks  -> Move(nr, cx, cy)
      [] 0 \notin kicks /\ -1 \in kicks -> Move(nr, cx - 1, cy)
      [] kicks = {1}  -> Move(nr, cx + 1, cy)
      [] kicks = {}   -> UNCHANGED game

LEMMA KickedIs ==
    ASSUME NEW nr, NEW kicks, Kicked(nr, kicks)
    PROVE  /\ 0 \in kicks => Move(nr, cx, cy)
           /\ 0 \notin kicks /\ -1 \in kicks => Move(nr, cx - 1, cy)
           /\ kicks = {1} => Move(nr, cx + 1, cy)
           /\ kicks = {} => UNCHANGED game
<1>1. 0 # 1 /\ -1 # 1
  OBVIOUS
<1>2. CASE 0 \in kicks
  <2>1. kicks # {1} /\ kicks # {}
    BY <1>1, <1>2
  <2> QED
    BY <1>2, <2>1 DEF Kicked
<1>3. CASE 0 \notin kicks /\ -1 \in kicks
  <2>1. kicks # {1} /\ kicks # {}
    BY <1>1, <1>3
  <2> QED
    BY <1>3, <2>1 DEF Kicked
<1>4. CASE 0 \notin kicks /\ -1 \notin kicks
  <2>1. {1} # {}
    OBVIOUS
  <2> QED
    BY <1>4, <2>1 DEF Kicked
<1> QED
  BY <1>2, <1>3, <1>4

LEMMA RotateFits ==
    ASSUME Sound, Rotate
    PROVE  Sound'
<1> DEFINE nr    == (cr + 1) % 4
           kicks == {k \in {0, -1, 1} : ~collides(cp, nr, cx + k, cy)}
<1>1. cr \in 0..3 /\ cx \in Int /\ cy \in Int /\ cy >= -1
  BY DEF Sound
<1>2. nr \in 0..3
  BY <1>1
<1>3. /\ 0 \in kicks => Move(nr, cx, cy)
      /\ 0 \notin kicks /\ -1 \in kicks => Move(nr, cx - 1, cy)
      /\ kicks = {1} => Move(nr, cx + 1, cy)
      /\ kicks = {} => UNCHANGED game
  <2>1. Kicked(nr, kicks)
    BY DEF Rotate, Kicked
  <2> HIDE DEF nr, kicks
  <2> QED
    BY <2>1, KickedIs
<1> HIDE DEF nr
<1>4. CASE 0 \in kicks
  <2>1. ~collides(cp, nr, cx, cy)
    BY <1>1, <1>4
  <2> QED
    BY <1>1, <1>2, <1>3, <1>4, <2>1, MoveFits
<1>5. CASE 0 \notin kicks /\ -1 \in kicks
  <2>1. ~collides(cp, nr, cx - 1, cy) /\ cx - 1 \in Int
    BY <1>1, <1>5
  <2> QED
    BY <1>1, <1>2, <1>3, <1>5, <2>1, MoveFits
<1>6. CASE kicks = {1}
  <2>1. 1 \in kicks
    BY <1>6
  <2>2. ~collides(cp, nr, cx + 1, cy) /\ cx + 1 \in Int
    BY <1>1, <2>1
  <2> QED
    BY <1>1, <1>2, <1>3, <1>6, <2>2, MoveFits
<1>7. CASE kicks = {}
  BY <1>3, <1>7, Idle
<1>8. 0 \in kicks \/ (0 \notin kicks /\ -1 \in kicks) \/ kicks = {1} \/ kicks = {}
  OBVIOUS
<1> HIDE DEF kicks
<1> QED
  BY <1>4, <1>5, <1>6, <1>7, <1>8

\* The slam ends where the piece still fits.
LEMMA SlamFits ==
    ASSUME Sound, ~game_over, Move(cr, cx, Lowest(cp, cr, cx, cy))
    PROVE  Sound'
<1> DEFINE low == Lowest(cp, cr, cx, cy)
<1>1. /\ cp \in Pieces /\ cr \in 0..3 /\ cx \in Int /\ cy \in -1..(BH - 1) /\ cy \in Int
      /\ ~collides(cp, cr, cx, cy)
  BY DEF Sound, PieceFits
<1>2. Lands(cp, cr, cx, cy, low)
  BY <1>1, LowestIs
<1>3. Move(cr, cx, low)
  OBVIOUS
<1> HIDE DEF low
<1>4. low \in Int /\ low >= cy
  BY <1>1, <1>2, TetrisAssumption DEF Lands
<1>5. ~collides(cp, cr, cx, low)
  <2>1. CASE low = cy
    BY <1>1, <2>1
  <2>2. CASE low # cy
    <3>1. low - 1 \in cy..(low - 1) /\ low - 1 + 1 = low
      BY <1>1, <1>4, <2>2
    <3>2. ~collides(cp, cr, cx, low - 1 + 1)
      BY <1>2, <3>1 DEF Lands
    <3> QED
      BY <3>1, <3>2
  <2> QED
    BY <2>1, <2>2
<1> QED
  BY <1>1, <1>3, <1>4, <1>5, MoveFits

LEMMA InputFits ==
    ASSUME Sound, NEW c \in {"a", "d", "w", "s", " ", "other"}, handle_input(c)
    PROVE  Sound'
<1>1. /\ cr \in 0..3 /\ cx \in Int /\ cy \in Int /\ cy >= -1
      /\ cx - 1 \in Int /\ cx + 1 \in Int /\ cy + 1 \in Int /\ cy + 1 >= -1
  BY SoundPlace, Zenon
<1>2. CASE game_over
  BY <1>2, Idle DEF handle_input
<1>3. CASE ~game_over
  <2>1. CASE c = "a"
    <3>1. Try(cr, cx - 1, cy)
      BY <1>3, <2>1 DEF handle_input
    <3> QED
      BY <1>1, <3>1, TryFits
  <2>2. CASE c = "d"
    <3>1. Try(cr, cx + 1, cy)
      BY <1>3, <2>2 DEF handle_input
    <3> QED
      BY <1>1, <3>1, TryFits
  <2>3. CASE c = "w"
    <3>1. Rotate
      BY <1>3, <2>3 DEF handle_input
    <3> QED
      BY <3>1, RotateFits
  <2>4. CASE c = "s"
    <3>1. Try(cr, cx, cy + 1)
      BY <1>3, <2>4 DEF handle_input
    <3> QED
      BY <1>1, <3>1, TryFits
  <2>5. CASE c = " "
    <3>1. Move(cr, cx, Lowest(cp, cr, cx, cy))
      BY <1>3, <2>5 DEF handle_input
    <3> QED
      BY <1>3, <3>1, SlamFits
  <2>6. CASE c = "other"
    <3>1. UNCHANGED game
      BY <1>3, <2>6 DEF handle_input
    <3> QED
      BY <3>1, Idle
  <2> QED
    BY <2>1, <2>2, <2>3, <2>4, <2>5, <2>6
<1> QED
  BY <1>2, <1>3

\* Rows that come down never reach the piece that comes next, or the game is
\* over.
LEMMA LandFits ==
    ASSUME Sound, Land
    PROVE  Sound'
<1> DEFINE rows == lock_piece
<1>1. /\ board' = clear_rows(rows) /\ award_lines(Cleared(rows)) /\ spawn
  BY DEF Land
<1>2. cy \in Int /\ cy >= -1 /\ np \in Pieces /\ score \in Nat /\ total_lines \in Nat /\ game_over \in BOOLEAN
  BY DEF Sound
<1>3. rows \in Board /\ \A i \in 1..BH : Full(rows[i]) => i - 1 \in cy..(cy + 3)
  BY LockIs
<1> HIDE DEF rows
<1>4. board' \in Board /\ Open(board')
  BY <1>1, <1>2, <1>3, RowsComeDown
<1>5. Cleared(rows) \in 0..4
  BY <1>2, <1>3, KeptIs
<1>6. score' \in Nat /\ total_lines' \in Nat
  <2> DEFINE n == Cleared(rows)
  <2>1. points[n + 1] \in Nat
    BY <1>5 DEF points
  <2>2. level \in Nat
    <3>1. LevelLines \in Nat \ {0}
      BY TetrisAssumption
    <3>2. total_lines \div LevelLines \in Nat
      BY <1>2, <3>1
    <3> QED
      BY <3>2 DEF level
  <2>3. score' = score + points[n + 1] * (level + 1) /\ total_lines' = total_lines + n
    BY <1>1 DEF award_lines
  <2>4. points[n + 1] * (level + 1) \in Nat
    BY <2>1, <2>2
  <2> HIDE DEF n
  <2> QED
    BY <1>2, <1>5, <2>3, <2>4 DEF n
<1>7. /\ cp' = np /\ np' \in Pieces /\ cr' = 0 /\ cx' = SpawnX /\ cy' = -1
      /\ game_over' = (game_over \/ collides(cp, cr, cx, cy)')
  BY <1>1 DEF spawn, rand7
<1>8. PieceFits'
  BY <1>7 DEF PieceFits
<1>9. /\ cr' \in 0..3 /\ cx' \in -3..(BW - 1) /\ cy' \in -1..(BH - 1)
  BY <1>7, TetrisAssumption
<1>10. game_over' \in BOOLEAN
  BY <1>2, <1>7
<1> QED
  BY <1>2, <1>4, <1>6, <1>7, <1>8, <1>9, <1>10 DEF Sound

LEMMA FallFits ==
    ASSUME Sound, Fall
    PROVE  Sound'
<1>1. cr \in 0..3 /\ cx \in Int /\ cy + 1 \in Int /\ cy + 1 >= -1
  BY SoundPlace, Zenon
<1>2. CASE collides(cp, cr, cx, cy + 1)
  BY <1>2, LandFits DEF Fall
<1>3. CASE ~collides(cp, cr, cx, cy + 1)
  <2>1. Move(cr, cx, cy + 1)
    BY <1>3 DEF Fall
  <2> QED
    BY <1>1, <1>3, <2>1, MoveFits
<1> QED
  BY <1>2, <1>3

(***************************************************************************)
(* The loop of the game                                                    *)
(***************************************************************************)
LEMMA InitSound == Init => IInv
<1> SUFFICES ASSUME Init PROVE IInv
  OBVIOUS
<1>1. /\ board = Blank /\ cp \in Pieces /\ np \in Pieces
      /\ cr = 0 /\ cx = SpawnX /\ cy = -1 /\ score = 0 /\ total_lines = 0 /\ tick = 0
      /\ game_over = collides(cp, cr, cx, cy)
      /\ display = wanted /\ sidebar = Numbers /\ dirty = FALSE /\ running = TRUE
      /\ window = Written(Redrawn(Background, Background, wanted), game_over)
      /\ numbers = Redrawn(Unknown, Unknown, Numbers)
  BY DEF Init, rand7, render_initial
<1>2. board = [i \in 1..BH |-> EmptyRow]
  BY <1>1 DEF Blank
<1>3. board \in Board /\ Open(board)
  BY <1>2, EmptyRowIs DEF Board, Open
<1>4. cr \in 0..3 /\ cx \in -3..(BW - 1) /\ cy \in -1..(BH - 1)
  BY <1>1, TetrisAssumption
<1>5. game_over \in BOOLEAN
  BY <1>1, Zenon DEF collides
<1>6. PieceFits
  BY <1>1 DEF PieceFits
<1>7. score \in Nat /\ total_lines \in Nat /\ tick \in Nat
  BY <1>1
<1>8. Sound
  BY <1>1, <1>3, <1>4, <1>5, <1>6, <1>7 DEF Sound
<1>9. window = Written(display, game_over) /\ DOMAIN display = Places
  <2>1. wanted = [c \in Places |-> wanted[c]]
    BY WantedShape
  <2> DEFINE w == wanted
  <2>2. w = [c \in Places |-> w[c]]
    BY <2>1
  <2> HIDE DEF w
  <2>3. DOMAIN w = Places
    BY <2>2
  <2>4. Redrawn(Background, Background, w) = w
    <3>1. DOMAIN Background = Places
      BY DEF Background
    <3> QED
      BY <2>2, <2>3, <3>1 DEF Redrawn
  <2> QED
    BY <1>1, <2>3, <2>4 DEF w
<1>10. numbers = sidebar
  BY <1>1, NumbersRedrawn DEF Numbers
<1> QED
  BY <1>1, <1>7, <1>8, <1>9, <1>10 DEF IInv, Drawn, Shown

\* As long as the game stands still, so does its picture.
LEMMA PictureStays ==
    ASSUME UNCHANGED game
    PROVE  wanted' = wanted /\ Numbers' = Numbers
<1>1. /\ board' = board /\ cp' = cp /\ cr' = cr /\ cx' = cx /\ cy' = cy /\ np' = np
      /\ score' = score /\ total_lines' = total_lines
  BY DEF game
<1>2. wanted' = wanted
  BY <1>1, WantedIs
<1>3. Numbers' = Numbers
  BY <1>1 DEF Numbers, level
<1> QED
  BY <1>2, <1>3

\* No key ends the game.
LEMMA InputGoesOn ==
    ASSUME NEW c, handle_input(c), c \in {"a", "d", "w", "s", " ", "other"}
    PROVE  game_over' = game_over
<1>1. ASSUME NEW r, NEW x, NEW y, Move(r, x, y) PROVE game_over' = game_over
  BY <1>1 DEF Move
<1>2. ASSUME UNCHANGED game PROVE game_over' = game_over
  BY <1>2 DEF game
<1>3. ASSUME NEW r, NEW x, NEW y, Try(r, x, y) PROVE game_over' = game_over
  BY <1>1, <1>2, <1>3 DEF Try
<1>4. ASSUME Rotate PROVE game_over' = game_over
  <2> DEFINE nr == (cr + 1) % 4
             kicks == {k \in {0, -1, 1} : ~collides(cp, nr, cx + k, cy)}
  <2>1. \/ Move(nr, cx, cy) \/ Move(nr, cx - 1, cy) \/ Move(nr, cx + 1, cy)
        \/ UNCHANGED game
    BY <1>4, KickedIs DEF Rotate
  <2> HIDE DEF nr
  <2> QED
    BY <1>1, <1>2, <2>1
<1> QED
  BY <1>1, <1>2, <1>3, <1>4 DEF handle_input

LEMMA KeypressKept ==
    ASSUME IInv, NEW c \in {"a", "d", "w", "s", " ", "other"}, Keypress(c)
    PROVE  IInv'
<1>1. /\ handle_input(c) /\ dirty' = TRUE /\ tick' = tick /\ running' = running
      /\ window' = window /\ numbers' = numbers /\ display' = display /\ sidebar' = sidebar
  BY DEF Keypress
<1>2. Sound /\ tick \in Nat /\ running \in BOOLEAN /\ Shown
  BY DEF IInv, Drawn
<1>3. Sound'
  BY <1>1, <1>2, InputFits
<1>4. game_over' = game_over
  BY <1>1, InputGoesOn
<1>5. Drawn'
  BY <1>1, <1>2, <1>4 DEF Drawn, Shown
<1> QED
  BY <1>1, <1>2, <1>3, <1>5 DEF IInv

LEMMA StillKept ==
    ASSUME IInv, UNCHANGED <<game, picture>>,
           tick' \in Nat, running' \in BOOLEAN
    PROVE  IInv'
<1>1. Sound /\ Drawn /\ dirty \in BOOLEAN
  BY DEF IInv
<1>2. /\ UNCHANGED game /\ display' = display /\ sidebar' = sidebar /\ dirty' = dirty
      /\ window' = window /\ numbers' = numbers /\ game_over' = game_over
  BY DEF picture, game
<1>3. Sound'
  BY <1>1, <1>2, Idle
<1>4. wanted' = wanted /\ Numbers' = Numbers
  BY <1>2, PictureStays
<1>5. Drawn'
  BY <1>1, <1>2, <1>4 DEF Drawn, Shown
<1> QED
  BY <1>1, <1>2, <1>3, <1>5 DEF IInv

LEMMA TurnKept ==
    ASSUME IInv, Turn
    PROVE  IInv'
<1>1. Sound /\ tick \in Nat /\ dirty \in BOOLEAN /\ running \in BOOLEAN
  BY DEF IInv
<1>2. game_over \in BOOLEAN
  BY <1>1 DEF Sound
<1>3. /\ game_over => UNCHANGED <<game, tick>>
      /\ Falls => Fall /\ tick' = 0
      /\ ~game_over /\ ~Falls => UNCHANGED game /\ tick' = tick + 1
  <2>1. CASE game_over
    <3>1. ~Falls
      BY <2>1 DEF Falls
    <3> QED
      BY <2>1, <3>1 DEF Turn
  <2>2. CASE ~game_over /\ Falls
    BY <2>2 DEF Turn
  <2>3. CASE ~game_over /\ ~Falls
    BY <2>3 DEF Turn
  <2> QED
    BY <2>1, <2>2, <2>3
<1>4. /\ running' = running
      /\ dirty \/ Falls => render
      /\ ~(dirty \/ Falls) => UNCHANGED picture
  BY DEF Turn
<1>5. tick' \in Nat
  BY <1>1, <1>3
<1>6. Sound'
  <2>1. CASE Falls
    BY <1>1, <1>3, <2>1, FallFits
  <2>2. CASE ~Falls
    <3>1. UNCHANGED game
      BY <1>3, <2>2
    <3> QED
      BY <1>1, <3>1, Idle
  <2> QED
    BY <2>1, <2>2
<1>7. CASE dirty \/ Falls
  <2>1. render /\ dirty' = FALSE
    BY <1>4, <1>7 DEF render
  <2>2. Drawn'
    <3>1. Shown
      BY DEF IInv, Drawn
    <3>2. game_over => game_over'
      BY <1>3 DEF game
    <3> QED
      BY <2>1, <3>1, <3>2, Rendered
  <2> QED
    BY <1>1, <1>4, <1>5, <1>6, <2>1, <2>2 DEF IInv
<1>8. CASE ~(dirty \/ Falls)
  <2>1. UNCHANGED game
    BY <1>3, <1>8
  <2>2. UNCHANGED <<game, picture>>
    BY <1>4, <1>8, <2>1
  <2> QED
    BY <1>1, <1>4, <1>5, <2>2, StillKept
<1> QED
  BY <1>7, <1>8

\* The state of the game, of its loop and of the picture, whatever is pressed
\* (main, handle_input and what they call).
THEOREM IInvInductive == Spec => []IInv
<1>1. Init => IInv
  BY InitSound
<1>2. IInv /\ [Next]_vars => IInv'
  <2> SUFFICES ASSUME IInv, [Next]_vars PROVE IInv'
    OBVIOUS
  <2>1. CASE \E c \in {"a", "d", "w", "s", " ", "other"} : Keypress(c)
    BY <2>1, KeypressKept
  <2>2. CASE Quit
    <3>1. /\ UNCHANGED <<game, picture>>
          /\ tick' = tick /\ running' \in BOOLEAN
      BY <2>2 DEF Quit
    <3>2. tick' \in Nat
      BY <3>1 DEF IInv
    <3> QED
      BY <3>1, <3>2, StillKept
  <2>3. CASE Turn
    BY <2>3, TurnKept
  <2>4. CASE UNCHANGED vars
    <3>1. /\ UNCHANGED <<game, picture>>
          /\ tick' = tick /\ running' = running
      BY <2>4 DEF vars
    <3>2. tick' \in Nat /\ running' \in BOOLEAN
      BY <3>1 DEF IInv
    <3> QED
      BY <3>1, <3>2, StillKept
  <2> QED
    BY <2>1, <2>2, <2>3, <2>4 DEF Next
<1> QED
  BY <1>1, <1>2, PTL DEF Spec

\* No key, no kick of a turn, no fall and no row that comes down puts the
\* falling piece into another one or over the edge (collides and its callers).
THEOREM PieceAlwaysFits == Spec => []PieceFits
<1>1. IInv => PieceFits
  BY DEF IInv, Sound
<1> QED
  BY <1>1, IInvInductive, PTL

\* No full row stays, and a piece never completes more rows than there are
\* points for (clear_rows, award_lines).
THEOREM RowsAlwaysCleared == Spec => []RowsCleared
<1>1. IInv => RowsCleared
  BY RowsHold
<1> QED
  BY <1>1, IInvInductive, PTL

\* Whenever nothing waits to be drawn the window shows the game, although only
\* differences are drawn (render_board, render_sidebar).
THEOREM PictureAlwaysTrue == Spec => []PictureTrue
<1>1. IInv => PictureTrue
  BY PictureHolds
<1> QED
  BY <1>1, IInvInductive, PTL
=============================================================================
