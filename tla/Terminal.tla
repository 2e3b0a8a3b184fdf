------------------------------ MODULE Terminal ------------------------------
(***************************************************************************)
(* The text terminal, kernel-space/drivers/terminal.c, with what reaches   *)
(* it: the echo of typed characters (kernel-space/kernel/stdin.c), the     *)
(* output of programs (write to FD_STDOUT, kernel-space/cpu/syscall.c) and *)
(* the "^C" of Ctrl+C (kernel-space/kernel/scheduler.c).                  *)
(*                                                                         *)
(* The characters that were typed and not read or erased yet are `line':   *)
(* module Stdin shows that this is what the ring holds.  Colours are left  *)
(* out.  The screen is the text buffer and, because render_terminal does   *)
(* not blank all the rows it draws to, what each cell of the window shows. *)
(***************************************************************************)
EXTENDS Integers, Sequences, SequencesExt

CONSTANTS
    TERMINAL_COLS, TERMINAL_ROWS,
    TAB_SIZE,
    HeaderRows,  \* text rows at the bottom that memset does not reach (2)
    Char,        \* characters with a glyph
    MaxOutput,   \* bound: characters of one write
    MaxLine      \* bound: characters typed ahead

NL == "newline"
BS == "backspace"
SP == "space"
TAB == "tab"
NUL == "nul"        \* a cell that was never written
FOREIGN == "foreign" \* memory that is not the terminal's

ASSUME TerminalAssumption ==
    /\ TERMINAL_COLS \in Nat \ {0} /\ TERMINAL_ROWS \in Nat \ {0, 1}
    /\ TAB_SIZE \in Nat \ {0}
    /\ HeaderRows \in 0..TERMINAL_ROWS
    /\ Char \cap {NL, BS, SP, TAB, NUL, FOREIGN} = {}
    /\ MaxOutput \in Nat /\ MaxLine \in Nat

VARIABLES
    terminal,  \* buffer, cursor (row and column as one index), cursor_floor
    shown,     \* the glyphs each cell of the window shows
    line,      \* the characters typed that no read has taken
    apart      \* history: screen and line have come apart, see Unfaithful

vars == <<terminal, shown, line, apart>>

TERMINAL_SIZE == TERMINAL_COLS * TERMINAL_ROWS

\* The cells of the buffer, and those behind it that a tab can reach.
Cell == 0..(TERMINAL_SIZE - 1)
Reach == 0..(TERMINAL_SIZE + TAB_SIZE - 1)

(***************************************************************************)
(* terminal.c                                                              *)
(***************************************************************************)
\* Every row moves up; the first cell of the last row gets what lies behind
\* the buffer, the others a space.
Scroll(t) ==
    [t EXCEPT
        !.buffer = [i \in Reach |->
            CASE i \in Cell /\ i > TERMINAL_SIZE - TERMINAL_COLS -> SP
              [] i <= TERMINAL_SIZE - TERMINAL_COLS -> t.buffer[i + TERMINAL_COLS]
              [] OTHER -> t.buffer[i]],
        !.cursor = TERMINAL_SIZE - TERMINAL_COLS]

Tab(i) == TAB_SIZE - (i % TAB_SIZE)

NextRow(i) == (i \div TERMINAL_COLS + 1) * TERMINAL_COLS

\* Mutant: the cursor does not go back to the row above.
Erased_InRow(t) ==
    IF t.cursor % TERMINAL_COLS > 0 /\ t.cursor > t.cursor_floor
    THEN [t EXCEPT !.cursor = @ - 1, !.buffer[t.cursor - 1] = SP]
    ELSE t

Erased(t) ==
    IF t.cursor > 0 /\ t.cursor > t.cursor_floor
    THEN [t EXCEPT !.cursor = @ - 1, !.buffer[t.cursor - 1] = SP]
    ELSE t

\* What one character does once there is room for it.
Put(t, c) ==
    CASE c = NL -> [t EXCEPT !.cursor = NextRow(@)]
      [] c = BS -> Erased(t)
      [] c = TAB -> [t EXCEPT !.cursor = @ + Tab(@),
                       !.buffer = [i \in Reach |->
                          IF i \in t.cursor..(t.cursor + Tab(t.cursor) - 1) THEN SP ELSE @[i]]]
      [] OTHER -> [t EXCEPT !.cursor = @ + 1, !.buffer[t.cursor] = c]

\* Mutant: the screen scrolls one character later.
terminal_print_char_Late(t, c) ==
    Put(IF t.cursor > TERMINAL_SIZE THEN Scroll(t) ELSE t, c)

terminal_print_char(t, c) ==
    Put(IF t.cursor >= TERMINAL_SIZE THEN Scroll(t) ELSE t, c)

\* The pixels that memset reaches: those of the last rows lie behind.
Blanked == 0..(TERMINAL_SIZE - HeaderRows * TERMINAL_COLS - 1)

Glyphs(t, i) == IF t.buffer[i] \in Char THEN {t.buffer[i]} ELSE {}

\* Spaces and empty cells draw nothing over what the window shows.
render_terminal(t, cells) ==
    [i \in Cell |-> Glyphs(t, i) \cup (IF i \in Blanked THEN {} ELSE cells[i])]

\* The terminal and its window; every character is rendered before the next.
Screen == [terminal |-> terminal, shown |-> shown]

Drawn(s, c) ==
    LET t == terminal_print_char(s.terminal, c)
    IN  [terminal |-> t, shown |-> render_terminal(t, s.shown)]

terminal_print(str) ==
    LET drawn[k \in 0..Len(str)] ==
            IF k = 0 THEN Screen ELSE Drawn(drawn[k - 1], str[k])
    IN  drawn[Len(str)]

clear_terminal ==
    /\ terminal' = [buffer |-> [i \in Reach |-> IF i \in Cell THEN NUL ELSE terminal.buffer[i]],
                    cursor |-> 0, cursor_floor |-> 0]
    /\ shown' = [i \in Cell |-> IF i \in Blanked THEN {} ELSE shown[i]]

\* Nothing clears the memory the buffer is made of; what it holds comes into
\* sight with the first character.  NUL stands for all that draws nothing.
Init ==
    /\ \E held \in [Cell -> Char \cup {NUL}] :
          terminal = [buffer |-> [i \in Reach |-> IF i \in Cell THEN held[i] ELSE FOREIGN],
                      cursor |-> 0, cursor_floor |-> 0]
    /\ shown = [i \in Cell |-> {}]
    /\ line = << >>
    /\ apart = FALSE

(***************************************************************************)
(* Typing.  A key is stored and echoed; an erase is echoed if the ring held *)
(* a character.                                                            *)
(***************************************************************************)
\* The characters of the line typed on the row of the cursor.
RowOf(l) == LET after == {i \in 0..Len(l) : \A j \in (i + 1)..Len(l) : l[j] # NL}
           IN  SubSeq(l, 1 + CHOOSE i \in after : \A j \in after : i <= j, Len(l))

\* What the terminal cannot follow: a scroll, which leaves cursor_floor where
\* it was and which even an erase causes, and the erase of a newline.
Unfaithful(c) ==
    \/ terminal.cursor >= TERMINAL_SIZE /\ (c # BS \/ line # << >>)
    \/ c = BS /\ line # << >> /\ Last(line) = NL

stdin_write(c) ==
    /\ Len(line) < MaxLine \/ c = BS
    /\ IF c = BS /\ line = << >>
       THEN UNCHANGED <<terminal, shown, line>>
       ELSE /\ terminal' = Drawn(Screen, c).terminal
            /\ shown' = Drawn(Screen, c).shown
            /\ line' = IF c = BS THEN Front(line) ELSE Append(line, c)
    /\ apart' = (apart \/ Unfaithful(c))

\* A read of n characters touches no cell.
stdin_read(n) ==
    /\ n \in 1..Len(line)
    /\ line' = SubSeq(line, n + 1, Len(line))
    /\ UNCHANGED <<terminal, shown, apart>>

\* Ctrl+C prints "^C" (two of the glyphs) and a newline and empties the ring.
\* cursor_floor stays, so that a scroll may leave the cursor before it.
sigint_foreground(caret, letter) ==
    LET s == terminal_print(<<caret, letter, NL>>)
    IN  /\ terminal' = s.terminal
        /\ shown' = s.shown
        /\ line' = << >>
        /\ apart' = (apart \/ terminal.cursor + 2 >= TERMINAL_SIZE)

(***************************************************************************)
(* write to FD_STDOUT: the text is printed, or the screen cleared; what is *)
(* typed from now on can be erased, what stands there cannot.  That holds  *)
(* for a text of no characters as well.                                    *)
(***************************************************************************)
Outputs == UNION {[1..n -> Char \cup {NL, BS, SP, TAB}] : n \in 0..MaxOutput}

Floor(t) == [t EXCEPT !.cursor_floor = t.cursor]

handle_syscall_write(str) ==
    LET s == terminal_print(str)
    IN  /\ terminal' = Floor(s.terminal)
        /\ shown' = s.shown
        /\ apart' = (line # << >>)
        /\ UNCHANGED line

parse_ansi_escape ==
    /\ clear_terminal
    /\ apart' = (line # << >>)
    /\ UNCHANGED line

Next ==
    \/ \E c \in Char \cup {NL, BS, SP} : stdin_write(c)
    \/ \E n \in 1..MaxLine : stdin_read(n)
    \/ \E caret, letter \in Char : sigint_foreground(caret, letter)
    \/ \E str \in Outputs : handle_syscall_write(str)
    \/ parse_ansi_escape

Spec == Init /\ [][Next]_vars

(***************************************************************************)
(* Properties                                                              *)
(***************************************************************************)

\* The user sees the line that the program will read: what was typed on the
\* row of the cursor stands in the cells before it, where it can be erased
\* character by character, and the window shows nothing else there (in the
\* last rows, which are never blanked, it shows it over older glyphs).  Output
\* while something is typed, a scroll by a typed or erased character or by the
\* text of Ctrl+C and the erasing of a newline take line and screen apart,
\* until the program writes again with nothing left to read.
EchoIsLine ==
    ~apart =>
        LET typed == RowOf(line)
            first == terminal.cursor - Len(typed)
        IN  /\ first >= terminal.cursor_floor
            /\ \A i \in 1..Len(typed) :
                  LET cell == first + i - 1
                  IN  /\ terminal.buffer[cell] = typed[i]
                      /\ typed[i] # SP => typed[i] \in shown[cell]
                      /\ cell \in Blanked => shown[cell] \subseteq {typed[i]}

\* The terminal stays within its buffer, but for a tab in its last cells,
\* which runs on to the next tab stop; and what lies behind the buffer comes
\* into sight only as the first cell of a row.
WritesInside ==
    /\ \A i \in Reach \ Cell : terminal.buffer[i] \in {FOREIGN, SP}
    /\ \A i \in Cell : terminal.buffer[i] = FOREIGN => i % TERMINAL_COLS = 0
=============================================================================
