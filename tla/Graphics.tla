------------------------------ MODULE Graphics ------------------------------
(***************************************************************************)
(* From a drawing call to the screen: the windows one over the other,      *)
(* their pixel buffers, the compositor, the back buffer and the flip.      *)
(*                                                                         *)
(*   kernel-space/cpu/syscall.c          the drawing calls                 *)
(*   kernel-space/kernel/window.c        the windows, window_draw_*,       *)
(*                                       draw_window, wm_composite         *)
(*   kernel-space/drivers/timer.c        the timer interrupt               *)
(*   kernel-space/drivers/vga-graphics.c put_pixel, rect, blit, flip       *)
(*                                                                         *)
(* Every timer interrupt moves and raises the windows, in a step of its    *)
(* own here, and composes the whole screen.  That starts by clearing       *)
(* the back buffer and marking all of it dirty, so that the back buffer    *)
(* and the dirty rows carry nothing from one tick to the next and are      *)
(* local to the step.  The flip writes to the frame buffer as the current  *)
(* process maps it: main and idle map the device, a forked process a copy  *)
(* that nobody sees (module Paging).  A title is one character, a text     *)
(* drawn by a program two; the X on the close button is left out, and so   *)
(* are the desktop's icons, of which there are none.                       *)
(***************************************************************************)
EXTENDS Integers, Sequences, FiniteSetsExt, SequencesExt

CONSTANTS
    screen_width, screen_height,
    HEADER_OFFSET,      \* rows of a window's title bar
    STATUS_BAR_HEIGHT,
    Width, Height,      \* of the contents of every window; no title is wider
    WORD,               \* values of an unsigned integer
    Wins,               \* the windows
    Places,             \* where a window may be created, or dragged to
    Spots,              \* where the pointer may be
    Colors,             \* colours programs draw in
    Reach               \* bound: coordinates of drawing calls

Desktop == "desktop"
StatusBar == "status bar"
Cursor == "cursor"
Border == "border"
FocusedBorder == "focused border"
Black == "black"
Title == "title"
CloseButton == "close button"
StatusText == "status text"

ASSUME GraphicsAssumption ==
    /\ screen_width \in Nat \ {0} /\ screen_height \in Nat \ {0}
    /\ HEADER_OFFSET \in Nat \ {0, 1} /\ STATUS_BAR_HEIGHT \in 2..screen_height
    /\ Width \in Nat \ {0, 1} /\ Height \in Nat \ {0}
    /\ WORD \in Nat /\ WORD > 2 * (screen_height + HEADER_OFFSET + Height)
    /\ "none" \notin Wins
    /\ Places \subseteq Int \X Int /\ Places # {}
    /\ \A p \in Places : p[2] > -HEADER_OFFSET
    /\ Spots \subseteq (0..(screen_width - 1)) \X (0..(screen_height - 1)) /\ Spots # {}
    /\ Reach \subseteq Int

VARIABLES
    place,          \* x and y of each window
    pixel_buffer,   \* of each window, header rows included
    drawn,          \* history: what each window's program has drawn, by x and y
    order,          \* the windows there are, by z_index, from the bottom
    focused,        \* the focused window, or none
    dragging,       \* the windows with is_dragging
    ticking,        \* a timer interrupt has yet to compose the screen
    mouse,          \* mouse_x and mouse_y
    screen,         \* what the device shows
    current         \* history: nothing changed since a tick updated it

screen_vars ==
    <<place, pixel_buffer, drawn, order, focused, dragging, ticking, mouse, screen, current>>

Pixel == (0..(screen_width - 1)) \X (0..(screen_height - 1))

Content == (0..(Width - 1)) \X (0..(Height - 1))

max(x, y) == IF x > y THEN x ELSE y

min(x, y) == IF x < y THEN x ELSE y

(***************************************************************************)
(* vga-graphics.c.  A buffer is the pixels and the range of dirty rows,    *)
(* which are unsigned.                                                     *)
(***************************************************************************)
FirstRow(y_top) == max(y_top, 0)

LastRow(y_bottom) == min(y_bottom, screen_height - 1) % WORD

mark_dirty(fb, y_top, y_bottom) ==
    [fb EXCEPT !.dirty_y_min = min(@, FirstRow(y_top)),
               !.dirty_y_max = max(@, LastRow(y_bottom))]

vga_clear_screen(color) ==
    [pixels |-> [p \in Pixel |-> color],
     dirty_y_min |-> 0, dirty_y_max |-> screen_height - 1]

\* Of every pixel that is put the row is marked, whether on the screen or not.
vga_put_pixel(fb, points, color) ==
    LET rows == {p[2] : p \in points}
    IN  [fb EXCEPT !.pixels = [p \in Pixel |-> IF p \in points THEN color ELSE @[p]],
                   !.dirty_y_min = Min({@} \cup {FirstRow(y) : y \in rows}),
                   !.dirty_y_max = Max({@} \cup {LastRow(y) : y \in rows})]

vga_draw_rect(fb, x, y, w, h, color) ==
    vga_put_pixel(mark_dirty(fb, y, y + h - 1), (x..(x + w - 1)) \X (y..(y + h - 1)), color)

\* The pixels of the one glyph of this model, its rows, and the distance to
\* the next one.
glyph == {<<0, 0>>, <<1, 1>>}
font_row == 2
font_spacing == 2

vga_draw_string(fb, x, y, color) ==
    vga_put_pixel(mark_dirty(fb, y, y + font_row), {<<x + g[1], y + g[2]>> : g \in glyph}, color)

\* Mutant: a window over the left edge is copied from its first column.
vga_blit_NoSource(fb, x, y, width, height, buffer) ==
    LET m  == mark_dirty(fb, y, y + height - 1)
        x1 == min(x + width, screen_width)
    IN  [m EXCEPT !.pixels = [p \in Pixel |->
            IF p[1] \in max(x, 0)..(x1 - 1) /\ p[2] \in y..(y + height - 1)
            THEN buffer[(p[2] - y) * width + p[1] - max(x, 0)] ELSE @[p]]]

\* The rows of the buffer that lie on the screen, clipped at both sides.
vga_blit(fb, x, y, width, height, buffer) ==
    LET m     == mark_dirty(fb, y, y + height - 1)
        src_x == IF x < 0 THEN -x ELSE 0
        dst_x == IF x < 0 THEN 0 ELSE x
        copy  == min(dst_x + width - src_x, screen_width) - dst_x
    IN  [m EXCEPT !.pixels = [p \in Pixel |->
            IF p[1] \in dst_x..(dst_x + copy - 1) /\ p[2] \in y..(y + height - 1)
            THEN buffer[(p[2] - y) * width + src_x + p[1] - dst_x] ELSE @[p]]]

\* The rows from dirty_y_min on, as many as fit the unsigned size.
vga_flip(fb) ==
    LET rows == (fb.dirty_y_max - fb.dirty_y_min + 1) % WORD
    IN  [p \in Pixel |->
            IF p[2] \in fb.dirty_y_min..(fb.dirty_y_min + rows - 1)
            THEN fb.pixels[p] ELSE screen[p]]

\* A cursor of two pixels, the lower one may lie below the screen.
vga_draw_cursor(fb) == vga_draw_rect(fb, mouse[1], mouse[2], 1, 2, Cursor)

(***************************************************************************)
(* window.c: the compositor                                                *)
(***************************************************************************)
draw_window(fb, w) ==
    LET x == place[w][1]
        y == place[w][2]
        blit == vga_blit(fb, x, y, Width, Height + HEADER_OFFSET, pixel_buffer[w])
        bar  == vga_draw_rect(blit, x, y, Width, HEADER_OFFSET,
                              IF w = focused THEN FocusedBorder ELSE Border)
    IN  vga_draw_rect(vga_draw_string(bar, x, y, Title), x + Width - 1, y, 1, 1, CloseButton)

\* The windows of sorted drawn one over the other, all but the focused one,
\* which is drawn last.
draw_windows(fb, sorted) ==
    LET done[k \in 0..Len(sorted)] ==
            IF k = 0 THEN fb
            ELSE IF sorted[k] = focused THEN done[k - 1]
            ELSE draw_window(done[k - 1], sorted[k])
        others == done[Len(sorted)]
    IN  IF focused \in Wins THEN draw_window(others, focused) ELSE others

draw_status_bar(fb) ==
    vga_draw_string(vga_draw_rect(fb, 0, 0, screen_width, STATUS_BAR_HEIGHT, StatusBar),
                    0, 0, StatusText)

wm_composite ==
    vga_draw_cursor(draw_status_bar(draw_windows(vga_clear_screen(Desktop), order)))

\* A window dragged over the upper edge: the marks of its upper rows wrap.
SticksOut == \E w \in ToSet(order) : place[w][2] < 0

\* The timer interrupt after update_window, with or without the device mapped.
timer_handler_main(device) ==
    /\ ticking
    /\ ticking' = FALSE
    /\ screen' = IF device THEN vga_flip(wm_composite) ELSE screen
    /\ current' = (current \/ (device /\ ~SticksOut))
    /\ UNCHANGED <<place, pixel_buffer, drawn, order, focused, dragging, mouse>>

(***************************************************************************)
(* Drawing calls.  A program draws to a window of its own through its      *)
(* window_id; the calls clip to the contents of the window.                *)
(***************************************************************************)
Index(x, y) == (y + HEADER_OFFSET) * Width + x

Paint(w, points, color) ==
    /\ ~ticking
    /\ w \in ToSet(order)
    /\ drawn' = [drawn EXCEPT ![w] =
                    [p \in Content |-> IF p \in points THEN color ELSE @[p]]]
    /\ current' = FALSE
    /\ UNCHANGED <<place, order, focused, dragging, ticking, mouse, screen>>

\* Row by row, from the clipped corner, as many pixels as the clipped width.
window_draw_rect(w, x, y, wd, ht, color) ==
    LET x0 == max(x, 0)
        y0 == max(y, 0)
        x1 == min(x + wd, Width)
        y1 == min(y + ht, Height)
        offsets == UNION {Index(x0, row)..(Index(x0, row) + x1 - x0 - 1) : row \in y0..(y1 - 1)}
    IN  /\ Paint(w, (x..(x + wd - 1)) \X (y..(y + ht - 1)), color)
        /\ pixel_buffer' = [pixel_buffer EXCEPT ![w] =
              [i \in DOMAIN @ |-> IF x1 > x0 /\ i \in offsets THEN color ELSE @[i]]]

abs(x) == IF x < 0 THEN -x ELSE x

\* One turn of the loop of window_draw_line: from the pixel put last to the
\* next one.
Step(s, dx, dy, sx, sy) ==
    LET error2 == 2 * s.error
        right == error2 > -dy
        down  == error2 < dx
    IN  [x |-> IF right THEN s.x + sx ELSE s.x, y |-> IF down THEN s.y + sy ELSE s.y,
         error |-> s.error - (IF right THEN dy ELSE 0) + (IF down THEN dx ELSE 0)]

\* The pixels the loop puts until it meets (x1, y1); every turn takes a step
\* towards it in x or in y.
Line(x0, y0, x1, y1) ==
    LET dx == abs(x1 - x0)
        dy == abs(y1 - y0)
        sx == IF x0 < x1 THEN 1 ELSE -1
        sy == IF y0 < y1 THEN 1 ELSE -1
        turn(trace, i) ==
            LET s == trace[Len(trace)]
            IN  IF s.x = x1 /\ s.y = y1 THEN trace ELSE Append(trace, Step(s, dx, dy, sx, sy))
    IN  FoldLeft(turn, <<[x |-> x0, y |-> y0, error |-> dx - dy]>>, [i \in 1..(dx + dy) |-> i])

\* Pixels that are put one by one, those inside the contents only.
window_put_pixel(w, points, color) ==
    LET offsets == {Index(p[1], p[2]) : p \in points \cap Content}
    IN  /\ Paint(w, points, color)
        /\ pixel_buffer' = [pixel_buffer EXCEPT ![w] =
              [i \in DOMAIN @ |-> IF i \in offsets THEN color ELSE @[i]]]

window_draw_line(w, x0, y0, x1, y1, color) ==
    window_put_pixel(w, {<<s.x, s.y>> : s \in ToSet(Line(x0, y0, x1, y1))}, color)

window_draw_string(w, x, y, color) ==
    window_put_pixel(w, {<<x + i * font_spacing + g[1], y + g[2]>> : i \in {0, 1}, g \in glyph}, color)

(***************************************************************************)
(* The windows come and go, and follow the pointer.  Which window a press  *)
(* meets, the topmost under the pointer, is left to module Windows: here   *)
(* it may be any, on its title bar or not.                                 *)
(***************************************************************************)
BlankBuffer == [i \in 0..(Width * (Height + HEADER_OFFSET) - 1) |-> Black]

BlankContent == [p \in Content |-> Black]

Without(w) ==
    LET at == CHOOSE i \in 1..Len(order) : order[i] = w
    IN  [i \in 1..(Len(order) - 1) |-> IF i < at THEN order[i] ELSE order[i + 1]]

\* On top of the others in the stack, but not the focused window.
wm_create_window(w, p) ==
    /\ ~ticking
    /\ w \notin ToSet(order)
    /\ p[2] >= STATUS_BAR_HEIGHT
    /\ place' = [place EXCEPT ![w] = p]
    /\ pixel_buffer' = [pixel_buffer EXCEPT ![w] = BlankBuffer]
    /\ drawn' = [drawn EXCEPT ![w] = BlankContent]
    /\ order' = Append(order, w)
    /\ current' = FALSE
    /\ UNCHANGED <<focused, dragging, ticking, mouse, screen>>

\* From a call of the program, or with the process on Ctrl+C.
remove_window(w) ==
    /\ ~ticking
    /\ w \in ToSet(order)
    /\ order' = Without(w)
    /\ focused' = IF focused = w THEN "none" ELSE focused
    /\ dragging' = dragging \ {w}
    /\ current' = FALSE
    /\ UNCHANGED <<place, pixel_buffer, drawn, ticking, mouse, screen>>

\* With the button down all windows that are being dragged come to the same
\* place, at one distance from the pointer; with the button up they let go.
Followers(held) == IF held THEN dragging ELSE {}

update_window_drag(held, to) ==
    place' = [w \in Wins |-> IF w \in Followers(held) THEN to ELSE place[w]]

\* A press on window w: on the close button, or anywhere else.
update_window_click(w) ==
    \/ /\ order' = Without(w)
       /\ focused' = "none"
       /\ dragging' = dragging \ {w}
    \/ /\ order' = Append(Without(w), w)
       /\ focused' = w
       /\ dragging' \in {dragging, dragging \cup {w}}

\* What the timer interrupt does before it composes: the drag, then the
\* press, if there is one.
update_window(held, to) ==
    /\ ~ticking
    /\ ticking' = TRUE
    /\ update_window_drag(held, to)
    /\ \/ dragging' = Followers(held) /\ UNCHANGED <<order, focused>>
       \/ held /\ \E w \in ToSet(order) : update_window_click(w)
    /\ current' = (current /\ place' = place /\ order' = order /\ focused' = focused)
    /\ UNCHANGED <<pixel_buffer, drawn, mouse, screen>>

mouse_handler_main(p) ==
    /\ ~ticking
    /\ mouse' = p
    /\ current' = FALSE
    /\ UNCHANGED <<place, pixel_buffer, drawn, order, focused, dragging, ticking, screen>>

\* With the one window that boot creates, the terminal's.
ScreenInit ==
    /\ \E p \in {p \in Places : p[2] >= STATUS_BAR_HEIGHT} : place = [w \in Wins |-> p]
    /\ pixel_buffer = [w \in Wins |-> BlankBuffer]
    /\ drawn = [w \in Wins |-> BlankContent]
    /\ order \in {<<w>> : w \in Wins}
    /\ focused = "none"
    /\ dragging = {}
    /\ ticking = FALSE
    /\ mouse \in Spots
    /\ screen = [p \in Pixel |-> Black]
    /\ current = FALSE

ScreenNext ==
    \/ \E device \in BOOLEAN : timer_handler_main(device)
    \/ \E w \in Wins, x, y \in Reach, wd, ht \in 1..2, color \in Colors :
          window_draw_rect(w, x, y, wd, ht, color)
    \/ \E w \in Wins, x0, y0, x1, y1 \in Reach, color \in Colors :
          window_draw_line(w, x0, y0, x1, y1, color)
    \/ \E w \in Wins, x, y \in Reach, color \in Colors : window_draw_string(w, x, y, color)
    \/ \E w \in Wins, p \in Places : wm_create_window(w, p)
    \/ \E w \in Wins : remove_window(w)
    \/ \E held \in BOOLEAN, to \in Places : update_window(held, to)
    \/ \E p \in Spots : mouse_handler_main(p)

ScreenSpec == ScreenInit /\ [][ScreenNext]_screen_vars

(***************************************************************************)
(* Properties                                                              *)
(***************************************************************************)

\* What the screen should show at a pixel: the pointer, the status bar, the
\* window on top there, with what its program has drawn, or the desktop.
Covers(w, p) ==
    /\ p[1] - place[w][1] \in 0..(Width - 1)
    /\ p[2] - place[w][2] \in 0..(HEADER_OFFSET + Height - 1)

Picture(p) ==
    LET over == {i \in 1..Len(order) : Covers(order[i], p)}
        top  == IF focused \in Wins /\ Covers(focused, p) THEN focused
                ELSE order[CHOOSE i \in over : \A j \in over : j <= i]
        q    == <<p[1] - place[top][1], p[2] - place[top][2] - HEADER_OFFSET>>
        bar  == <<q[1], q[2] + HEADER_OFFSET>>
    IN  IF p[1] = mouse[1] /\ p[2] \in {mouse[2], mouse[2] + 1} THEN Cursor
        ELSE IF p[2] < STATUS_BAR_HEIGHT THEN IF p \in glyph THEN StatusText ELSE StatusBar
        ELSE IF over = {} THEN Desktop
        ELSE IF q[2] >= 0 THEN drawn[top][q]
        ELSE IF bar = <<Width - 1, 0>> THEN CloseButton
        ELSE IF bar \in glyph THEN Title
        ELSE IF top = focused THEN FocusedBorder ELSE Border

\* A timer interrupt that finds the device mapped brings the screen up to date
\* in every pixel, however the windows lie over each other and over the edges
\* of the screen; unless one sticks out at the top, when the whole screen stays
\* as it was: the rows above it wrap in mark_dirty, and the flip copies nothing.
ScreenShows == current => \A p \in Pixel : screen[p] = Picture(p)
=============================================================================
