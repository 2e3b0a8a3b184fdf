------------------------------- MODULE Tetris -------------------------------
(***************************************************************************)
(* The game user-space/programs/tetris.c: the board, the falling piece,    *)
(* the keys, gravity and the picture of the board that is drawn by         *)
(* differences.                                                            *)
(*                                                                         *)
(* One step is one event taken from the window's queue, or the rest of a   *)
(* turn of the main loop (gravity, render, sleep).  A board cell holds 0   *)
(* or the number of its piece + 1, which stands for its colour too.        *)
(***************************************************************************)
EXTENDS Integers, Sequences, SequencesExt

CONSTANTS
    BW, BH,        \* columns and rows of the board (10 and 20)
    SpawnX,        \* the column a piece starts in (3)
    FirstInterval, \* turns per row at level 0 (20)
    LevelLines,    \* lines per level (10)
    Pieces,        \* bound: the pieces rand7 answers, of 0..6
    MaxLines       \* bound: lines after which the game is left

ASSUME TetrisAssumption ==
    /\ BW \in Nat \ {0} /\ BH \in Nat \ {0}
    /\ SpawnX \in 0..(BW - 1)
    /\ FirstInterval \in Nat \ {0} /\ LevelLines \in Nat \ {0}
    /\ Pieces # {} /\ Pieces \subseteq 0..6
    /\ MaxLines \in Nat

VARIABLES
    board,              \* the rows from the top, each a function of the column
    cp, cr, cx, cy,     \* the falling piece, its rotation and place
    np,                 \* the next piece
    score, total_lines,
    game_over,
    tick,               \* turns since the last row of fall
    window, numbers,    \* what the window shows: the cells of the board, and
                        \* score, lines, level and next piece
    display, sidebar,   \* what the program believes it has drawn there
    dirty,              \* something changed since the last render
    running             \* neither quit nor closed

game == <<board, cp, cr, cx, cy, np, score, total_lines, game_over>>
picture == <<window, numbers, display, sidebar, dirty>>
vars == <<game, tick, picture, running>>

(***************************************************************************)
(* Pieces                                                                  *)
(***************************************************************************)
\* Four rotations of four rows of four bits, which the source writes in
\* hexadecimal.
pieces ==
    << <<3840, 8738, 240, 17476>>, <<26112, 26112, 26112, 26112>>,
       <<3648, 19520, 19968, 17984>>, <<1728, 35904, 27648, 17952>>,
       <<3168, 19584, 50688, 9792>>, <<3712, 50240, 11776, 17600>>,
       <<3616, 17504, 36352, 51328>> >>

pcell(p, r, gx, gy) == (pieces[p + 1][r + 1] \div 2^(15 - gy * 4 - gx)) % 2 = 1

Shape ==
    [p \in Pieces |-> [r \in 0..3 |-> {g \in (0..3) \X (0..3) : pcell(p, r, g[1], g[2])}]]

Cells(p, r, px, py) == {<<px + g[1], py + g[2]>> : g \in Shape[p][r]}

OnBoard(c) == c[1] \in 0..(BW - 1) /\ c[2] \in 0..(BH - 1)

At(c) == board[c[2] + 1][c[1]]

\* Cells above the board are free.
collides(p, r, px, py) ==
    \E c \in Cells(p, r, px, py) :
        \/ c[1] < 0 \/ c[1] >= BW \/ c[2] >= BH
        \/ c[2] >= 0 /\ At(c) # 0

\* Where a fall from py ends.
Lowest(p, r, px, py) ==
    CHOOSE y \in py..(BH - 1) :
        /\ collides(p, r, px, y + 1)
        /\ \A z \in py..(y - 1) : ~collides(p, r, px, z + 1)

(***************************************************************************)
(* Locking a piece                                                         *)
(***************************************************************************)
EmptyRow == [x \in 0..(BW - 1) |-> 0]

Full(row) == \A x \in 0..(BW - 1) : row[x] # 0

\* The board with the piece in it; what sticks out at the top is lost.
lock_piece ==
    LET piece == Cells(cp, cr, cx, cy)
    IN  [i \in 1..BH |-> [x \in 0..(BW - 1) |->
            IF <<x, i - 1>> \in piece THEN cp + 1 ELSE board[i][x]]]

\* The rows that are not full, from the top.
Kept(rows) ==
    LET above[i \in 0..BH] ==
            IF i = 0 THEN << >>
            ELSE IF Full(rows[i]) THEN above[i - 1] ELSE Append(above[i - 1], rows[i])
    IN  above[BH]

Cleared(rows) == BH - Len(Kept(rows))

\* Mutant: the scan goes on above a cleared row without looking at the row
\* that came down into its place.
clear_rows_Skips(rows) ==
    LET gone == {i \in 1..BH : Full(rows[i]) /\ (i = BH \/ ~Full(rows[i + 1]))}
        kept == SelectSeq([i \in 1..BH |-> <<i, rows[i]>>], LAMBDA r : r[1] \notin gone)
    IN  [i \in 1..(BH - Len(kept)) |-> EmptyRow] \o [i \in 1..Len(kept) |-> kept[i][2]]

\* Full rows go, the others come down, empty ones follow from above.
clear_rows(rows) == [i \in 1..Cleared(rows) |-> EmptyRow] \o Kept(rows)

points == <<0, 100, 300, 500, 800>>

level == total_lines \div LevelLines

drop_interval == IF FirstInterval - level * 2 < 2 THEN 2 ELSE FirstInterval - level * 2

award_lines(n) ==
    /\ score' = score + points[n + 1] * (level + 1)
    /\ total_lines' = total_lines + n

\* The linear congruence of the source is a free choice.
rand7 == Pieces

spawn ==
    /\ cp' = np
    /\ np' \in rand7
    /\ cr' = 0
    /\ cx' = SpawnX
    /\ cy' = -1
    /\ game_over' = (game_over \/ collides(cp, cr, cx, cy)')

(***************************************************************************)
(* Drawing                                                                 *)
(***************************************************************************)
Ghost == 8   \* the colour of the place the piece would fall to

Places == (0..(BW - 1)) \X (0..(BH - 1))

\* What the board should look like: the piece over the ghost over the cells.
wanted ==
    LET piece == Cells(cp, cr, cx, cy)
        ghost == {c \in Cells(cp, cr, cx, Lowest(cp, cr, cx, cy)) \ piece : OnBoard(c) /\ At(c) = 0}
    IN  [c \in Places |->
            IF c \in piece THEN cp + 1 ELSE IF c \in ghost THEN Ghost ELSE At(c)]

Numbers == <<score, total_lines, level, np>>

\* Only what differs from what was drawn last is drawn.
Redrawn(was, last, want) ==
    [c \in DOMAIN want |-> IF want[c] # last[c] THEN want[c] ELSE was[c]]

\* "GAME OVER" is written across the middle rows, but for the outer columns.
GameOver == 9
Across == (1..(BW - 2)) \X {(BH - 1) \div 2, BH \div 2}

Written(cells, over) ==
    [c \in DOMAIN cells |-> IF over /\ c \in Across THEN GameOver ELSE cells[c]]

\* Mutant: what is drawn is not remembered.
render_Forgets ==
    /\ window' = Written(Redrawn(window, display, wanted'), game_over')
    /\ numbers' = Redrawn(numbers, sidebar, Numbers')
    /\ dirty' = FALSE
    /\ UNCHANGED <<display, sidebar>>

render ==
    /\ window' = Written(Redrawn(window, display, wanted'), game_over')
    /\ display' = wanted'
    /\ numbers' = Redrawn(numbers, sidebar, Numbers')
    /\ sidebar' = Numbers'
    /\ dirty' = FALSE

Blank == [i \in 1..BH |-> EmptyRow]

\* The background is drawn, and what differs from it; no number was drawn yet.
Background == [c \in Places |-> 0]
Unknown == <<-1, -1, -1, -1>>

render_initial ==
    /\ window = Written(Redrawn(Background, Background, wanted), game_over)
    /\ display = wanted
    /\ numbers = Redrawn(Unknown, Unknown, Numbers)
    /\ sidebar = Numbers
    /\ dirty = FALSE

\* main, up to its loop: the first piece always fits an empty board of the
\* game's size.
Init ==
    /\ board = Blank
    /\ cp \in rand7 /\ np \in rand7
    /\ cr = 0 /\ cx = SpawnX /\ cy = -1
    /\ score = 0 /\ total_lines = 0
    /\ game_over = collides(cp, cr, cx, cy)
    /\ tick = 0
    /\ render_initial
    /\ running = TRUE

(***************************************************************************)
(* Keys                                                                    *)
(***************************************************************************)
Move(p_r, p_x, p_y) ==
    /\ cr' = p_r /\ cx' = p_x /\ cy' = p_y
    /\ UNCHANGED <<board, cp, np, score, total_lines, game_over>>

Try(r, x, y) == IF collides(cp, r, x, y) THEN UNCHANGED game ELSE Move(r, x, y)

\* Mutant: the piece is turned where it is when neither neighbour has room.
Rotate_Anyway ==
    LET nr    == (cr + 1) % 4
        kicks == {k \in {0, -1, 1} : ~collides(cp, nr, cx + k, cy)}
    IN  CASE 0 \in kicks  -> Move(nr, cx, cy)
          [] 0 \notin kicks /\ -1 \in kicks -> Move(nr, cx - 1, cy)
          [] OTHER        -> Move(nr, cx + 1, cy)

\* w: turn where it is, else one column to the left, else one to the right.
Rotate ==
    LET nr    == (cr + 1) % 4
        kicks == {k \in {0, -1, 1} : ~collides(cp, nr, cx + k, cy)}
    IN  CASE 0 \in kicks  -> Move(nr, cx, cy)
          [] 0 \notin kicks /\ -1 \in kicks -> Move(nr, cx - 1, cy)
          [] kicks = {1}  -> Move(nr, cx + 1, cy)
          [] kicks = {}   -> UNCHANGED game

\* A key other than q.  Once the game is over it changes nothing but dirty.
handle_input(c) ==
    IF game_over THEN UNCHANGED game
    ELSE CASE c = "a" -> Try(cr, cx - 1, cy)
           [] c = "d" -> Try(cr, cx + 1, cy)
           [] c = "w" -> Rotate
           [] c = "s" -> Try(cr, cx, cy + 1)
           [] c = " " -> Move(cr, cx, Lowest(cp, cr, cx, cy))
           [] c = "other" -> UNCHANGED game

\* Mutant: a key starts the count to the next row of fall anew.
Keypress_Resets(c) ==
    /\ running
    /\ handle_input(c)
    /\ dirty' = TRUE
    /\ tick' = 0
    /\ UNCHANGED <<window, numbers, display, sidebar, running>>

\* One turn of the loop that drains the events.
Keypress(c) ==
    /\ running
    /\ handle_input(c)
    /\ dirty' = TRUE
    /\ UNCHANGED <<tick, window, numbers, display, sidebar, running>>

\* q, or -1 from get_event once the window is closed: sys_exit.
Quit ==
    /\ running
    /\ running' = FALSE
    /\ UNCHANGED <<game, tick, picture>>

(***************************************************************************)
(* The rest of a turn of the main loop, when no event is left              *)
(***************************************************************************)
Land ==
    LET rows == lock_piece
    IN  /\ board' = clear_rows(rows)
        /\ award_lines(Cleared(rows))
        /\ spawn

Fall == IF collides(cp, cr, cx, cy + 1) THEN Land ELSE Move(cr, cx, cy + 1)

Falls == ~game_over /\ tick + 1 >= drop_interval

Turn ==
    /\ running
    /\ total_lines < MaxLines
    /\ CASE game_over -> UNCHANGED <<game, tick>>
         [] Falls -> Fall /\ tick' = 0
         [] ~game_over /\ ~Falls -> UNCHANGED game /\ tick' = tick + 1
    /\ IF dirty \/ Falls THEN render ELSE UNCHANGED picture
    /\ UNCHANGED running

Next ==
    \/ \E c \in {"a", "d", "w", "s", " ", "other"} : Keypress(c)
    \/ Quit
    \/ Turn

Spec == Init /\ [][Next]_vars

\* The queue of events is finite and filled by interrupts only, so that the
\* loop that drains it ends, and the main loop goes on.
FairSpec == Spec /\ WF_vars(Turn)

(***************************************************************************)
(* Properties                                                              *)
(***************************************************************************)

\* Types of the state.
TypeOK ==
    /\ board \in [1..BH -> [0..(BW - 1) -> 0..7]]
    /\ cp \in Pieces /\ np \in Pieces
    /\ cr \in 0..3 /\ cx \in -3..(BW - 1) /\ cy \in -1..(BH - 1)
    /\ score \in Nat /\ total_lines \in Nat
    /\ tick \in Nat
    /\ game_over \in BOOLEAN /\ dirty \in BOOLEAN /\ running \in BOOLEAN

\* As long as the game is not over the falling piece lies inside the board
\* and on free cells: no key, no kick of a turn, no fall and no row that comes
\* down puts it into another one.
PieceFits == ~game_over => ~collides(cp, cr, cx, cy)

\* No full row stays on the board, so that a piece never completes more than
\* the four rows the table of points has an entry for.
RowsCleared ==
    /\ \A i \in 1..BH : ~Full(board[i])
    /\ Cleared(lock_piece) + 1 \in DOMAIN points

\* Whenever nothing waits to be drawn, the window shows the game, although only
\* differences were ever drawn: the piece, every locked cell that it does not
\* cover, as a ghost exactly the free cells of the place where a slam would put
\* it, the numbers of the sidebar, and over the cells of an ended game its text.
PictureTrue ==
    LET piece  == Cells(cp, cr, cx, cy)
        lowest == {y \in cy..(BH - 1) : \A z \in (cy + 1)..y : ~collides(cp, cr, cx, z)}
        slam   == UNION {Cells(cp, cr, cx, y) : y \in {z \in lowest : collides(cp, cr, cx, z + 1)}}
        text   == IF game_over THEN Across ELSE {}
    IN  ~dirty =>
          /\ numbers = Numbers
          /\ \A c \in Places \ text :
                CASE c \in piece -> window[c] = cp + 1
                  [] c \notin piece /\ At(c) # 0 -> window[c] = At(c)
                  [] c \notin piece /\ At(c) = 0 ->
                        window[c] = IF c \in slam THEN Ghost ELSE 0
          /\ \A c \in Places \cap text : window[c] = GameOver

\* Whatever the player does, as long as the game goes on pieces keep coming
\* to rest: no sequence of moves and turns holds a piece up.
Ended == game_over \/ ~running \/ total_lines >= MaxLines

PiecesLand == <>Ended \/ []<><<board' # board \/ total_lines' # total_lines>>_vars
=============================================================================
