------------------------------- MODULE Stdin -------------------------------
(***************************************************************************)
(* kernel-space/kernel/stdin.c and the keyboard handler that feeds it: the *)
(* ring of typed characters, reads that take from it, and the one reader   *)
(* that may wait for it.  Handlers run with interrupts disabled.           *)
(*                                                                         *)
(* Two writes leave indices and count in disagreement: a backspace that    *)
(* meets write_index = 0 (the index stays, the count drops), and a write   *)
(* into a full ring, which Shift+Enter and write(0, ...) do not check for. *)
(* `skewed' remembers that one has happened.  Writes that do not wake the  *)
(* reader, because they do not look for one or because the process that    *)
(* was interrupted is a ZOMBIE, are remembered in `bypassed'.              *)
(***************************************************************************)
EXTENDS Integers, Sequences, SequencesExt

CONSTANTS
    STANDARD_IN_BUFFER_SIZE,
    Char,         \* ordinary characters
    ReadLens,     \* lengths of read(0, ...)
    Keys,         \* which of "char", "enter", "backspace", "unmapped", "shift_enter",
                  \* "ctrl_c" are pressed
    Writers,      \* whether programs write to fd 0
    Zombies       \* whether the interrupted process may be a ZOMBIE

NL == "newline"
BS == "backspace"
SP == "space"
NUL == "nul"

ASSUME StdinAssumption ==
    /\ STANDARD_IN_BUFFER_SIZE \in Nat \ {0}
    /\ Char \cap {NL, BS, SP, NUL} = {}
    /\ ReadLens \subseteq Nat \ {0}
    /\ Writers \in BOOLEAN
    /\ Zombies \subseteq BOOLEAN

VARIABLES
    stdin,          \* buffer, read_index, write_index, count
    requested_len,  \* of the waiting reader; -1 without one
    line,           \* history: the characters typed, not erased and not read
    skewed,         \* history: a write of the two kinds above has happened
    bypassed        \* history: a write passed a waiting reader by

vars == <<stdin, requested_len, line, skewed, bypassed>>

Size == STANDARD_IN_BUFFER_SIZE
Slot == 0..(Size - 1)

Init ==
    /\ stdin = [buffer |-> [i \in Slot |-> NUL], read_index |-> 0, write_index |-> 0, count |-> 0]
    /\ requested_len = -1
    /\ line = << >>
    /\ skewed = FALSE
    /\ bypassed = FALSE

max(x, y) == IF x > y THEN x ELSE y

min(x, y) == IF x < y THEN x ELSE y

stdin_write(s, c) ==
    IF c = BS
    THEN IF s.read_index = s.write_index THEN s
         ELSE LET w == max(0, s.write_index - 1)
              IN  [s EXCEPT !.buffer[w] = SP, !.write_index = w, !.count = max(0, @ - 1)]
    ELSE [s EXCEPT !.buffer[s.write_index] = c,
                   !.write_index = (@ + 1) % Size,
                   !.count = @ + 1]

\* Mutant: a newline is skipped without being counted.
stdin_read_NewlineKept(s, len) ==
    LET taken == [i \in 1..len |-> s.buffer[(s.read_index + i - 1) % Size]]
        text  == SelectSeq(taken, LAMBDA c : c # NL)
    IN  [s EXCEPT !.read_index = (@ + len) % Size, !.count = @ - Len(text)]

\* The ring after a read of len characters: every one of them is taken, the
\* newlines too, which the reader's buffer does not get.
stdin_read(s, len) == [s EXCEPT !.read_index = (@ + len) % Size, !.count = @ - len]

(***************************************************************************)
(* History: what the user means by typing c.                               *)
(***************************************************************************)
Skews(s, c) ==
    IF c = BS THEN s.count > 0 /\ s.write_index \in {0, s.read_index} ELSE s.count >= Size

Edited(c) ==
    IF c # BS THEN Append(line, c) ELSE IF line = << >> THEN << >> ELSE Front(line)

\* l without the first n characters, which have been read.
Rest(l, n) == SubSeq(l, 1 + min(n, Len(l)), Len(l))

(***************************************************************************)
(* The handlers                                                            *)
(***************************************************************************)
\* Mutant: a reader is woken only when there is more than it asked for.
Wakes_Late(s, c) == requested_len # -1 /\ (requested_len < s.count \/ c = NL)

\* Mutant: Enter wakes nobody.
Wakes_NoEnter(s, c) == requested_len # -1 /\ requested_len <= s.count

Wakes(s, c) == requested_len # -1 /\ (requested_len <= s.count \/ c = NL)

\* handle_input writes a key to the ring if the terminal has the focus and the
\* key has a character (NUL: it has none).
Stored(c, is_terminal) == is_terminal /\ c # NUL

\* A pressed key: ignored, whatever window it is for, when the ring is full.
\* Otherwise it may be stored, and stored or not, the waiting reader is served
\* when it can be, unless the interrupted process is a ZOMBIE.
keyboard_handler_main(c, is_terminal, zombie) ==
    /\ stdin.count < Size
    /\ skewed' = (skewed \/ (Stored(c, is_terminal) /\ Skews(stdin, c)))
    /\ LET s == IF Stored(c, is_terminal) THEN stdin_write(stdin, c) ELSE stdin
           l == IF Stored(c, is_terminal) THEN Edited(c) ELSE line
           n == min(s.count, requested_len)
       IN  \/ /\ Wakes(s, c) /\ ~zombie
              /\ stdin' = stdin_read(s, n)
              /\ line' = Rest(l, n)
              /\ requested_len' = -1
              /\ bypassed' = FALSE
           \/ /\ ~Wakes(s, c) \/ zombie
              /\ stdin' = s
              /\ line' = l
              /\ bypassed' = (bypassed \/ (requested_len # -1 /\ zombie))
              /\ UNCHANGED requested_len

\* Shift+Enter and a one-character write(0, ...): neither looks at the count
\* nor wakes the reader.  The guard is this model's bound.
Unchecked(c) ==
    /\ stdin.count <= Size
    /\ stdin' = stdin_write(stdin, c)
    /\ line' = Edited(c)
    /\ skewed' = (skewed \/ Skews(stdin, c))
    /\ bypassed' = (bypassed \/ requested_len # -1)
    /\ UNCHANGED requested_len

handle_chords == "shift_enter" \in Keys /\ Unchecked(SP)

handle_syscall_write(c) == Writers /\ Unchecked(c)

\* Ctrl+C empties the ring; it forgets the reader if that is the foreground
\* process.
sigint_foreground(reads) ==
    /\ "ctrl_c" \in Keys
    /\ stdin' = [stdin EXCEPT !.count = 0, !.read_index = stdin.write_index]
    /\ requested_len' = IF reads THEN -1 ELSE requested_len
    /\ line' = << >>
    /\ skewed' = FALSE
    /\ bypassed' = FALSE

handle_syscall_read(len) ==
    \/ /\ stdin.count >= len
       /\ stdin' = stdin_read(stdin, len)
       /\ line' = Rest(line, len)
       /\ UNCHANGED <<requested_len, skewed, bypassed>>
    \/ /\ stdin.count < len
       /\ requested_len' = len
       /\ bypassed' = FALSE
       /\ UNCHANGED <<stdin, line, skewed>>

KeyChars ==
    (IF "char" \in Keys THEN Char ELSE {}) \cup (IF "enter" \in Keys THEN {NL} ELSE {})
        \cup (IF "backspace" \in Keys THEN {BS} ELSE {})
        \cup (IF "unmapped" \in Keys THEN {NUL} ELSE {})

Next ==
    \/ \E c \in KeyChars, is_terminal \in BOOLEAN, zombie \in Zombies :
          keyboard_handler_main(c, is_terminal, zombie)
    \/ handle_chords
    \/ \E c \in Char \cup {NL, BS} : handle_syscall_write(c)
    \/ \E reads \in BOOLEAN : sigint_foreground(reads)
    \/ \E len \in ReadLens : handle_syscall_read(len)

Spec == Init /\ [][Next]_vars

\* A user who presses Enter in the terminal again and again.
FairSpec == Spec /\ WF_vars("enter" \in Keys /\ keyboard_handler_main(NL, TRUE, FALSE))

(***************************************************************************)
(* Properties                                                              *)
(***************************************************************************)
Contents == [i \in 1..stdin.count |-> stdin.buffer[(stdin.read_index + i - 1) % Size]]

\* Until a write skews it, the ring holds exactly the characters typed, not
\* erased and not yet read, in their order, across every wrap of the indices:
\* write_index is count slots after read_index.
RingIsLine ==
    ~skewed => /\ stdin.count \in 0..Size
               /\ stdin.write_index = (stdin.read_index + stdin.count) % Size
               /\ Contents = line

\* A reader that no write has passed by is left waiting only with fewer
\* characters than it asked for, so it is served in the very handler that
\* stores the last one.
ReaderNeedsMore ==
    requested_len # -1 /\ ~bypassed => stdin.count < requested_len

\* If the user keeps pressing Enter a blocked read completes, whatever else is
\* typed, erased or read meanwhile, unless the ring fills up first: Enter is
\* dropped then like every other key and the reader is stuck.  That takes a read
\* longer than the ring, or a write that passed the reader by.
BlockedReadReturns ==
    requested_len # -1 ~>
        \/ requested_len = -1
        \/ stdin.count >= Size /\ (requested_len > Size \/ bypassed)
=============================================================================
