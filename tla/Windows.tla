------------------------------ MODULE Windows ------------------------------
(***************************************************************************)
(* The window manager, kernel-space/kernel/window.c: the windows, their    *)
(* stacking order, focus and dragging, the compositor, and the handlers    *)
(* that reach it (timer, mouse, keyboard, Ctrl+C, the window calls).       *)
(*                                                                         *)
(* Handlers run with interrupts disabled: each is one step.  Only the walk *)
(* of remove_window_process is split, one step per window it visits, with  *)
(* every other action disabled meanwhile.                                  *)
(*                                                                         *)
(* Window ids grow and windows are appended to the list, so the list from  *)
(* window_head_ptr is the windows in the order of their ids.  Positions    *)
(* are left out: the set of windows under the pointer, and the part of the *)
(* clicked window that was hit, are inputs of the click.  The contents of  *)
(* an event queue are left to module EventQueue; only its size is kept.    *)
(***************************************************************************)
EXTENDS Integers, Sequences, FiniteSets

CONSTANTS
    MAX_WINDOWS,    \* slots of the compositor's array
    QUEUE_SIZE,     \* capacity of an event queue
    Pids,           \* the processes that create windows
    MaxId           \* bound: window ids handed out

Terminal == 1       \* the first window: init_terminal, owned by pid 0
Nobody == 0

ASSUME WindowsAssumption ==
    /\ MAX_WINDOWS \in Nat \ {0}
    /\ QUEUE_SIZE \in Nat \ {0}
    /\ Pids \subseteq Nat \ {0}
    /\ MaxId \in Nat \ {0}

VARIABLES
    win,              \* the allocated windows, by id
    window_z_index,   \* the next z_index
    window_id,        \* the next id
    mouse,            \* left button now, before the last packet; pointer moved
    walk              \* remove_window_process: the pid, and the window it is at

vars == <<win, window_z_index, window_id, mouse, walk>>

Window == [pid: Pids \cup {Nobody}, z_index: Nat, is_focused: BOOLEAN,
           is_dragging: BOOLEAN, size: 0..QUEUE_SIZE]

Idle == [pid |-> Nobody, at |-> 0]

NewWindow(pid, z) ==
    [pid |-> pid, z_index |-> z, is_focused |-> FALSE, is_dragging |-> FALSE, size |-> 0]

Init ==
    /\ win = [w \in {Terminal} |-> NewWindow(Nobody, 1)]
    /\ window_z_index = 2
    /\ window_id = 2
    /\ mouse = [buttons |-> FALSE, prev |-> FALSE, moved |-> FALSE]
    /\ walk = Idle

Running == walk = Idle

(***************************************************************************)
(* The list operations                                                     *)
(***************************************************************************)
wm_create_window(pid) ==
    /\ Running
    /\ window_id <= MaxId
    /\ win' = [w \in DOMAIN win \cup {window_id} |->
                 IF w = window_id THEN NewWindow(pid, window_z_index) ELSE win[w]]
    /\ window_z_index' = window_z_index + 1
    /\ window_id' = window_id + 1
    /\ UNCHANGED <<mouse, walk>>

\* Mutant: the windows above it keep their z_index.
remove_window_NoShift(f, id) == [w \in DOMAIN f \ {id} |-> f[w]]

\* The windows without the one with this id: those above it move down.
remove_window(f, id) ==
    [w \in DOMAIN f \ {id} |->
        [f[w] EXCEPT !.z_index = IF @ > f[id].z_index THEN @ - 1 ELSE @]]

handle_syscall_destroy_window(id) ==
    /\ Running
    /\ id \in DOMAIN win
    /\ win' = remove_window(win, id)
    /\ window_z_index' = window_z_index - 1
    /\ UNCHANGED <<window_id, mouse, walk>>

\* The window after w in the list, 0 at its end.
After(f, w) ==
    LET later == {v \in DOMAIN f : v > w}
    IN  IF later = {} THEN 0 ELSE CHOOSE v \in later : \A u \in later : v <= u

\* Ctrl+C with a live foreground process: remove_window_process starts at
\* the head of the list.
sigint_foreground(pid) ==
    /\ Running
    /\ walk' = IF After(win, 0) = 0 THEN Idle ELSE [pid |-> pid, at |-> After(win, 0)]
    /\ UNCHANGED <<win, window_z_index, window_id, mouse>>

\* Mutant: the walk ends at the first window it removes.
remove_window_process_First ==
    /\ ~Running
    /\ IF win[walk.at].pid = walk.pid
       THEN /\ win' = remove_window(win, walk.at)
            /\ window_z_index' = window_z_index - 1
            /\ walk' = Idle
       ELSE /\ walk' = IF After(win, walk.at) = 0 THEN Idle ELSE [walk EXCEPT !.at = After(win, @)]
            /\ UNCHANGED <<win, window_z_index>>
    /\ UNCHANGED <<window_id, mouse>>

\* One turn of its loop.  The loop reads `next' of the window it has just
\* freed; kfree leaves the contents of the block alone, so it still finds
\* the window that followed.
remove_window_process ==
    /\ ~Running
    /\ walk' = IF After(win, walk.at) = 0 THEN Idle ELSE [walk EXCEPT !.at = After(win, @)]
    /\ IF win[walk.at].pid = walk.pid
       THEN /\ win' = remove_window(win, walk.at)
            /\ window_z_index' = window_z_index - 1
       ELSE UNCHANGED <<win, window_z_index>>
    /\ UNCHANGED <<window_id, mouse>>

(***************************************************************************)
(* Events and the pointer                                                  *)
(***************************************************************************)
\* Mutant: a full queue is not noticed.
update_focused_window_Unbounded(f) ==
    [w \in DOMAIN f |-> [f[w] EXCEPT !.size = IF f[w].is_focused THEN @ + 1 ELSE @]]

\* Mutant: the topmost window gets the event.
update_focused_window_Top(f) ==
    [w \in DOMAIN f |->
        [f[w] EXCEPT !.size = IF f[w].z_index = window_z_index - 1 /\ @ < QUEUE_SIZE
                              THEN @ + 1 ELSE @]]

\* update_focused_window: the focused window, if there is one, gets an event,
\* which event_queue_push drops when the queue is full.
update_focused_window(f) ==
    [w \in DOMAIN f |->
        [f[w] EXCEPT !.size = IF f[w].is_focused /\ @ < QUEUE_SIZE THEN @ + 1 ELSE @]]

handle_syscall_get_event(id) ==
    /\ Running
    /\ id \in DOMAIN win
    /\ win[id].size # 0
    /\ win' = [win EXCEPT ![id].size = @ - 1]
    /\ UNCHANGED <<window_z_index, window_id, mouse, walk>>

\* A key goes to stdin when the terminal's window is focused, to the focused
\* window otherwise.  Once that window is closed the handler reads its focus
\* from freed memory.
handle_input ==
    /\ Running
    /\ \E is_terminal \in BOOLEAN :
          /\ Terminal \in DOMAIN win => is_terminal = win[Terminal].is_focused
          /\ win' = IF is_terminal THEN win ELSE update_focused_window(win)
    /\ UNCHANGED <<window_z_index, window_id, mouse, walk>>

\* A complete mouse packet.
mouse_handler_main(left, moved) ==
    /\ Running
    /\ mouse' = [buttons |-> left, prev |-> mouse.buttons, moved |-> moved]
    /\ UNCHANGED <<win, window_z_index, window_id, walk>>

\* Mutant: the release of the button is ignored.
update_window_drag_Sticky(f) == f

update_window_drag(f) ==
    [w \in DOMAIN f |-> [f[w] EXCEPT !.is_dragging = @ /\ mouse.buttons]]

\* The window a click selects: the one with the highest z_index of those
\* under the pointer (the later one of the list if two have the same).
Clicked(f, under) ==
    CHOOSE c \in under : \A w \in under :
        \/ f[w].z_index < f[c].z_index
        \/ f[w].z_index = f[c].z_index /\ w <= c

\* Mutant: the other windows keep their focus.
Raise_KeepFocus(f, c) ==
    [w \in DOMAIN f |->
        IF w = c THEN [f[w] EXCEPT !.is_focused = TRUE, !.z_index = window_z_index - 1]
        ELSE [f[w] EXCEPT !.z_index = IF @ > f[c].z_index THEN @ - 1 ELSE @]]

\* The click raises and focuses it: c comes to the top, the ones above it
\* move down by one.
Raise(f, c) ==
    [w \in DOMAIN f |->
        IF w = c THEN [f[w] EXCEPT !.is_focused = TRUE, !.z_index = window_z_index - 1]
        ELSE [f[w] EXCEPT !.is_focused = FALSE,
                          !.z_index = IF @ > f[c].z_index THEN @ - 1 ELSE @]]

\* update_window_click for a pointer over the windows `under', and over the
\* given part of the topmost one.
update_window_click(f, under, part) ==
    IF under = {} THEN win' = f /\ UNCHANGED window_z_index
    ELSE LET c == Clicked(f, under)
             r == Raise(f, c)
         IN  \/ /\ part = "close"
                /\ win' = remove_window(r, c)
                /\ window_z_index' = window_z_index - 1
             \/ /\ part # "close"
                /\ win' = update_focused_window(
                            [r EXCEPT ![c].is_dragging = @ \/ part = "title"])
                /\ UNCHANGED window_z_index

\* The window part of the timer handler.  A press is noticed when the button
\* is down and was up before the last packet.
update_window ==
    /\ Running
    /\ LET d == update_window_drag(win)
           f == IF mouse.moved THEN update_focused_window(d) ELSE d
           press == mouse.buttons /\ ~mouse.prev
       IN  \/ /\ ~press
              /\ win' = f
              /\ UNCHANGED <<window_z_index, mouse>>
           \/ /\ press
              /\ mouse' = [mouse EXCEPT !.prev = mouse.buttons]
              /\ \E under \in SUBSET DOMAIN win, part \in {"title", "close", "body"} :
                    update_window_click(f, under, part)
    /\ UNCHANGED <<window_id, walk>>

Next ==
    \/ \E pid \in Pids : wm_create_window(pid) \/ sigint_foreground(pid)
    \/ \E id \in 1..MaxId : handle_syscall_destroy_window(id) \/ handle_syscall_get_event(id)
    \/ remove_window_process
    \/ handle_input
    \/ \E left, moved \in BOOLEAN : mouse_handler_main(left, moved)
    \/ update_window

Spec == Init /\ [][Next]_vars

\* The timer interrupts at 100 Hz.  An interrupt that arrives during another
\* handler stays pending with the highest priority and is served when that
\* handler returns, hence strong fairness.  The walk is a loop of a handler.
FairSpec == Spec /\ SF_vars(update_window) /\ WF_vars(remove_window_process)

(***************************************************************************)
(* The compositor, which runs at the end of every timer interrupt and only *)
(* reads the windows.                                                      *)
(***************************************************************************)
window_count(f) == Cardinality(DOMAIN f)

\* Mutant: the bound of the array is taken one too low.
sorted_Short(f) ==
    [i \in 1..window_count(f) |->
        LET at == {w \in DOMAIN f : f[w].z_index = i /\ i < MAX_WINDOWS}
        IN  IF at = {} THEN 0 ELSE CHOOSE w \in at : \A v \in at : v <= w]

\* sorted[1..count]; 0 is NULL.
sorted(f) ==
    [i \in 1..window_count(f) |->
        LET at == {w \in DOMAIN f : f[w].z_index = i /\ i <= MAX_WINDOWS}
        IN  IF at = {} THEN 0 ELSE CHOOSE w \in at : \A v \in at : v <= w]

\* The loop over sorted[]: the windows it draws, in their order, and the last
\* one that it skips.
drawing(f) ==
    LET slot    == sorted(f)
        skip(w) == w = 0 \/ f[w].is_focused
        loop[i \in 0..window_count(f)] ==
            IF i = 0 THEN [drawn |-> << >>, focused |-> 0]
            ELSE IF skip(slot[i]) THEN [drawn |-> loop[i - 1].drawn, focused |-> slot[i]]
            ELSE [drawn |-> Append(loop[i - 1].drawn, slot[i]), focused |-> loop[i - 1].focused]
    IN  loop[window_count(f)]

\* The windows in the order in which they are drawn: the focused one last.
wm_composite(f) ==
    LET d == drawing(f)
    IN  IF d.focused = 0 THEN d.drawn ELSE Append(d.drawn, d.focused)

(***************************************************************************)
(* Properties                                                              *)
(***************************************************************************)

\* Types: windows have ids that were handed out, pids of creators, queues
\* within their capacity, and the walk stands on an allocated window.
TypeOK ==
    /\ DOMAIN win \subseteq 1..(window_id - 1)
    /\ \A w \in DOMAIN win : win[w] \in Window
    /\ window_z_index \in Nat \ {0}
    /\ window_id \in 2..(MaxId + 1)
    /\ mouse \in [buttons: BOOLEAN, prev: BOOLEAN, moved: BOOLEAN]
    /\ walk = Idle \/ walk \in [pid: Pids, at: DOMAIN win]

\* The stacking order survives every create, click, close and Ctrl+C: the
\* z_indices of the n windows are 1..n, each once, and the next one is n + 1.
\* The compositor indexes an array with them and reads n slots of it.
ZOrder ==
    /\ \A w, v \in DOMAIN win : win[w].z_index = win[v].z_index => w = v
    /\ {win[w].z_index : w \in DOMAIN win} = 1..(window_z_index - 1)

\* At most one window has the focus, so keys and clicks have one receiver.
OneFocused == \A w, v \in DOMAIN win : win[w].is_focused /\ win[v].is_focused => w = v

\* While no more than MAX_WINDOWS windows exist the compositor meets no NULL
\* slot and draws every window exactly once, the focused one on top.
EveryWindowDrawn ==
    window_count(win) <= MAX_WINDOWS =>
        LET s == wm_composite(win)
        IN  /\ \A i \in DOMAIN sorted(win) : sorted(win)[i] # 0
            /\ Len(s) = window_count(win)
            /\ {s[i] : i \in DOMAIN s} = DOMAIN win
            /\ \A w \in DOMAIN win : win[w].is_focused => s[Len(s)] = w

\* An event is queued only at a window that has the focus before or after the
\* handler, and a window that is not polled keeps what it has as long as it
\* exists: no click, drag, key, creation, removal or poll of another window
\* takes an event from it.
EventsToFocused ==
    [][\A w \in DOMAIN win \cap DOMAIN win' :
          /\ win'[w].size > win[w].size => win[w].is_focused \/ win'[w].is_focused
          /\ win'[w].size < win[w].size => handle_syscall_get_event(w)]_vars

\* Ctrl+C leaves no window of the foreground process behind, although the
\* list changes under the walk.
ForegroundWindowsGone ==
    [][~Running /\ Running' => \A w \in DOMAIN win' : win'[w].pid # walk.pid]_vars

\* A released window stops following the pointer, unless the button goes down
\* again first.
ReleaseEndsDrag ==
    \A w \in 1..MaxId :
        (w \in DOMAIN win /\ win[w].is_dragging /\ ~mouse.buttons)
            ~> (w \notin DOMAIN win \/ ~win[w].is_dragging \/ mouse.buttons)
=============================================================================
