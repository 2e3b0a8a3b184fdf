--------------------------- MODULE WindowsProofs ---------------------------
(***************************************************************************)
(* The stacking order of the windows, for every number of windows, every   *)
(* size of the event queues and every set of processes.                    *)
(*                                                                         *)
(* TypeOK, ZOrder and OneFocused together are inductive.  The argument is  *)
(* about the map of windows alone: Stacked(f, z) says that f is a well     *)
(* formed stack whose next z_index is z, and every operation on windows is *)
(* shown to keep it (RemoveOK, RaiseOK, CreateOK) or not to touch what it  *)
(* speaks about (SameStack).                                               *)
(***************************************************************************)
EXTENDS Windows, TLAPS, FiniteSetTheorems, SequenceTheorems

IInv == TypeOK /\ ZOrder /\ OneFocused

Stacked(f, z) ==
    /\ z \in Nat \ {0}
    /\ \A w \in DOMAIN f : f[w] \in Window /\ f[w].z_index \in 1..(z - 1)
    /\ \A w, v \in DOMAIN f : f[w].z_index = f[v].z_index => w = v
    /\ \A k \in 1..(z - 1) : \E w \in DOMAIN f : f[w].z_index = k
    /\ \A w, v \in DOMAIN f : f[w].is_focused /\ f[v].is_focused => w = v

\* The state apart from the stack.
Frame ==
    /\ DOMAIN win \subseteq 1..(window_id - 1)
    /\ window_id \in 2..(MaxId + 1)
    /\ mouse \in [buttons: BOOLEAN, prev: BOOLEAN, moved: BOOLEAN]
    /\ walk = Idle \/ walk \in [pid: Pids, at: DOMAIN win]

LEMMA IInvSplit == IInv <=> Stacked(win, window_z_index) /\ Frame
<1>1. ASSUME IInv PROVE Stacked(win, window_z_index) /\ Frame
  <2>1. Frame
    BY <1>1 DEF IInv, TypeOK, Frame
  <2>2. window_z_index \in Nat \ {0}
    BY <1>1 DEF IInv, TypeOK
  <2>3. \A w \in DOMAIN win : win[w] \in Window /\ win[w].z_index \in 1..(window_z_index - 1)
    BY <1>1 DEF IInv, TypeOK, ZOrder
  <2>4. \A k \in 1..(window_z_index - 1) : \E w \in DOMAIN win : win[w].z_index = k
    BY <1>1 DEF IInv, ZOrder
  <2> QED
    BY <1>1, <2>1, <2>2, <2>3, <2>4 DEF IInv, ZOrder, OneFocused, Stacked
<1>2. ASSUME Stacked(win, window_z_index), Frame PROVE IInv
  <2>1. TypeOK /\ OneFocused
    BY <1>2 DEF Stacked, Frame, TypeOK, OneFocused
  <2>2. {win[w].z_index : w \in DOMAIN win} = 1..(window_z_index - 1)
    BY <1>2 DEF Stacked
  <2> QED
    BY <1>2, <2>1, <2>2 DEF Stacked, ZOrder, IInv
<1> QED
  BY <1>1, <1>2

Stack == Stacked(win, window_z_index)

LEMMA StackSplit == Stack /\ Frame => IInv
BY IInvSplit DEF Stack

LEMMA IInvPrimed ==
    ASSUME Stacked(win', window_z_index'), Frame'
    PROVE  IInv'
<1>1. Stack'
  BY DEF Stack
<1> QED
  BY <1>1, StackSplit, PTL

LEMMA NatLeast ==
    ASSUME NEW S \in SUBSET Nat, S # {}
    PROVE  \E x \in S : \A y \in S : x <= y
<1> DEFINE R == {ss \in Nat \X Nat : ss[1] < ss[2]}
<1>1. IsWellFoundedOn(R, Nat)
  BY NatLessThanWellFounded, Zenon DEF OpToRel
<1>2. PICK x \in S : \A y \in S : ~(<<y, x>> \in R)
  <2> HIDE DEF R
  <2> QED
    BY <1>1, WFMin
<1>3. ASSUME NEW y \in S PROVE x <= y
  <2>1. x \in Nat /\ y \in Nat /\ <<y, x>> \in Nat \X Nat
    OBVIOUS
  <2>2. <<y, x>>[1] = y /\ <<y, x>>[2] = x
    OBVIOUS
  <2>3. ~(y < x)
    BY <1>2, <2>1, <2>2, Zenon
  <2> QED
    BY <2>1, <2>3
<1> QED
  BY <1>3

LEMMA SameStack ==
    ASSUME NEW f, NEW g, NEW z, Stacked(f, z), DOMAIN g = DOMAIN f,
           \A w \in DOMAIN f : /\ g[w] \in Window
                               /\ g[w].z_index = f[w].z_index
                               /\ g[w].is_focused = f[w].is_focused
    PROVE  Stacked(g, z)
BY DEF Stacked

LEMMA RemoveOK ==
    ASSUME NEW f, NEW z, Stacked(f, z), NEW id \in DOMAIN f
    PROVE  /\ Stacked(remove_window(f, id), z - 1)
           /\ DOMAIN remove_window(f, id) = DOMAIN f \ {id}
<1> DEFINE g == remove_window(f, id)
<1>1. DOMAIN g = DOMAIN f \ {id}
  BY DEF remove_window
<1>2. /\ z \in Nat \ {0} /\ f[id].z_index \in 1..(z - 1)
      /\ \A w \in DOMAIN f : f[w] \in Window /\ f[w].z_index \in 1..(z - 1)
      /\ \A w, v \in DOMAIN f : f[w].z_index = f[v].z_index => w = v
      /\ \A w, v \in DOMAIN f : f[w].is_focused /\ f[v].is_focused => w = v
  BY DEF Stacked
<1>3. ASSUME NEW w \in DOMAIN g
      PROVE  /\ g[w] \in Window
             /\ g[w].z_index = IF f[w].z_index > f[id].z_index THEN f[w].z_index - 1 ELSE f[w].z_index
             /\ g[w].is_focused = f[w].is_focused
  <2>1. f[w] \in Window /\ f[w].z_index \in 1..(z - 1)
    BY <1>1, <1>2, <1>3
  <2>2. g[w] = [f[w] EXCEPT !.z_index = IF @ > f[id].z_index THEN @ - 1 ELSE @]
    BY <1>3, <1>1 DEF remove_window
  <2> HIDE DEF g
  <2> QED
    BY <1>2, <2>1, <2>2 DEF Window
<1> HIDE DEF g
<1>4. z - 1 \in Nat \ {0}
  BY <1>2
<1>5. \A w \in DOMAIN g : g[w].z_index \in 1..(z - 1 - 1)
  <2> SUFFICES ASSUME NEW w \in DOMAIN g PROVE g[w].z_index \in 1..(z - 1 - 1)
    OBVIOUS
  <2>1. f[w].z_index \in 1..(z - 1) /\ f[w].z_index # f[id].z_index
    BY <1>1, <1>2
  <2> QED
    BY <1>2, <1>3, <2>1
<1>6. \A w, v \in DOMAIN g : g[w].z_index = g[v].z_index => w = v
  <2> SUFFICES ASSUME NEW w \in DOMAIN g, NEW v \in DOMAIN g, g[w].z_index = g[v].z_index
               PROVE  w = v
    OBVIOUS
  <2>1. /\ f[w].z_index \in 1..(z - 1) /\ f[w].z_index # f[id].z_index
        /\ f[v].z_index \in 1..(z - 1) /\ f[v].z_index # f[id].z_index
    BY <1>1, <1>2
  <2>2. f[w].z_index = f[v].z_index
    BY <1>2, <1>3, <2>1
  <2> QED
    BY <1>1, <1>2, <2>2
<1>7. \A k \in 1..(z - 1 - 1) : \E w \in DOMAIN g : g[w].z_index = k
  <2> SUFFICES ASSUME NEW k \in 1..(z - 1 - 1) PROVE \E w \in DOMAIN g : g[w].z_index = k
    OBVIOUS
  <2>1. CASE k < f[id].z_index
    <3>1. PICK w \in DOMAIN f : f[w].z_index = k
      BY <1>2 DEF Stacked
    <3> QED
      BY <1>1, <1>2, <1>3, <2>1, <3>1
  <2>2. CASE k >= f[id].z_index
    <3>1. PICK w \in DOMAIN f : f[w].z_index = k + 1
      <4>1. k + 1 \in 1..(z - 1)
        BY <1>2
      <4> QED
        BY <4>1 DEF Stacked
    <3> QED
      BY <1>1, <1>2, <1>3, <2>2, <3>1
  <2> QED
    BY <1>2, <2>1, <2>2
<1>8. \A w, v \in DOMAIN g : g[w].is_focused /\ g[v].is_focused => w = v
  BY <1>1, <1>2, <1>3
<1>9. Stacked(g, z - 1)
  BY <1>3, <1>4, <1>5, <1>6, <1>7, <1>8 DEF Stacked
<1> QED
  BY <1>1, <1>9 DEF g

LEMMA RaiseOK ==
    ASSUME NEW f, Stacked(f, window_z_index), NEW c \in DOMAIN f
    PROVE  /\ Stacked(Raise(f, c), window_z_index)
           /\ DOMAIN Raise(f, c) = DOMAIN f
<1> DEFINE g == Raise(f, c)
           z == window_z_index
<1>1. DOMAIN g = DOMAIN f
  BY DEF Raise
<1>2. /\ z \in Nat \ {0} /\ f[c].z_index \in 1..(z - 1)
      /\ \A w \in DOMAIN f : f[w] \in Window /\ f[w].z_index \in 1..(z - 1)
      /\ \A w, v \in DOMAIN f : f[w].z_index = f[v].z_index => w = v
  BY DEF Stacked
<1>3. ASSUME NEW w \in DOMAIN g
      PROVE  /\ g[w] \in Window
             /\ g[w].z_index = IF w = c THEN z - 1
                               ELSE IF f[w].z_index > f[c].z_index THEN f[w].z_index - 1
                               ELSE f[w].z_index
             /\ g[w].is_focused => w = c
  <2>1. f[w] \in Window /\ f[w].z_index \in 1..(z - 1)
    BY <1>1, <1>2, <1>3
  <2>3. CASE w = c
    <3>1. g[w] = [f[w] EXCEPT !.is_focused = TRUE, !.z_index = z - 1]
      BY <1>1, <1>3, <2>3 DEF Raise
    <3> HIDE DEF g
    <3>2. z - 1 \in Nat
      BY <1>2
    <3>3. g[w] \in Window /\ g[w].z_index = z - 1
      BY <2>1, <3>1, <3>2 DEF Window
    <3> QED
      BY <2>3, <3>3
  <2>4. CASE w # c
    <3> DEFINE n == IF f[w].z_index > f[c].z_index THEN f[w].z_index - 1 ELSE f[w].z_index
    <3>1. g[w] = [f[w] EXCEPT !.is_focused = FALSE, !.z_index = n]
      BY <1>1, <1>3, <2>4 DEF Raise
    <3>4. n \in Nat
      BY <1>2, <2>1
    <3> HIDE DEF g, n
    <3>2. g[w] \in Window /\ g[w].z_index = n
      BY <2>1, <3>1, <3>4 DEF Window
    <3>3. g[w].is_focused = FALSE
      BY <2>1, <3>1 DEF Window
    <3> QED
      BY <2>4, <3>2, <3>3 DEF n
  <2> QED
    BY <2>3, <2>4
<1> HIDE DEF g
<1>5. \A w \in DOMAIN g : g[w].z_index \in 1..(z - 1)
  BY <1>1, <1>2, <1>3
<1>6. \A w, v \in DOMAIN g : g[w].z_index = g[v].z_index => w = v
  <2> SUFFICES ASSUME NEW w \in DOMAIN g, NEW v \in DOMAIN g, g[w].z_index = g[v].z_index
               PROVE  w = v
    OBVIOUS
  <2>1. /\ f[w].z_index \in 1..(z - 1) /\ (w # c => f[w].z_index # f[c].z_index)
        /\ f[v].z_index \in 1..(z - 1) /\ (v # c => f[v].z_index # f[c].z_index)
    BY <1>1, <1>2
  <2>2. w = c \/ v = c \/ f[w].z_index = f[v].z_index
    BY <1>2, <1>3, <2>1
  <2>3. w = c <=> v = c
    BY <1>2, <1>3, <2>1
  <2> QED
    BY <1>1, <1>2, <2>2, <2>3
<1>7. \A k \in 1..(z - 1) : \E w \in DOMAIN g : g[w].z_index = k
  <2> SUFFICES ASSUME NEW k \in 1..(z - 1) PROVE \E w \in DOMAIN g : g[w].z_index = k
    OBVIOUS
  <2>1. CASE k < f[c].z_index
    <3>1. PICK w \in DOMAIN f : f[w].z_index = k
      BY <1>2 DEF Stacked
    <3>2. w # c
      BY <1>2, <2>1, <3>1
    <3> QED
      BY <1>1, <1>2, <1>3, <2>1, <3>1, <3>2
  <2>2. CASE k >= f[c].z_index /\ k < z - 1
    <3>1. PICK w \in DOMAIN f : f[w].z_index = k + 1
      <4>1. k + 1 \in 1..(z - 1)
        BY <1>2, <2>2
      <4> QED
        BY <4>1 DEF Stacked
    <3>2. w # c
      BY <1>2, <2>2, <3>1
    <3> QED
      BY <1>1, <1>2, <1>3, <2>2, <3>1, <3>2
  <2>3. CASE k = z - 1
    BY <1>1, <1>3, <2>3
  <2> QED
    BY <1>2, <2>1, <2>2, <2>3
<1>8. \A w, v \in DOMAIN g : g[w].is_focused /\ g[v].is_focused => w = v
  BY <1>3
<1>9. Stacked(g, z)
  BY <1>2, <1>3, <1>5, <1>6, <1>7, <1>8 DEF Stacked
<1> QED
  BY <1>1, <1>9 DEF g

\* The window a click selects is one of those under the pointer.
LEMMA ClickedOK ==
    ASSUME NEW f, NEW z, Stacked(f, z), NEW under \in SUBSET DOMAIN f, under # {},
           DOMAIN f \subseteq Nat
    PROVE  Clicked(f, under) \in under
<1>1. /\ z \in Nat
      /\ \A w \in DOMAIN f : f[w].z_index \in 1..(z - 1)
      /\ \A w, v \in DOMAIN f : f[w].z_index = f[v].z_index => w = v
  BY DEF Stacked
<1> DEFINE Depths == {z - f[w].z_index : w \in under}
<1>2. Depths \in SUBSET Nat /\ Depths # {}
  BY <1>1
<1>3. PICK d \in Depths : \A e \in Depths : d <= e
  <2> HIDE DEF Depths
  <2> QED
    BY <1>2, NatLeast
<1>4. PICK c \in under : d = z - f[c].z_index
  OBVIOUS
<1>5. ASSUME NEW w \in under
      PROVE  \/ f[w].z_index < f[c].z_index
             \/ f[w].z_index = f[c].z_index /\ w <= c
  <2>1. z - f[c].z_index <= z - f[w].z_index
    BY <1>3, <1>4
  <2>2. f[w].z_index <= f[c].z_index
    BY <1>1, <2>1
  <2>3. f[w].z_index = f[c].z_index => w = c
    BY <1>1
  <2> QED
    BY <1>1, <2>2, <2>3
<1> QED
  BY <1>5 DEF Clicked

LEMMA PushOK ==
    ASSUME NEW f, NEW z, Stacked(f, z)
    PROVE  /\ Stacked(update_focused_window(f), z)
           /\ DOMAIN update_focused_window(f) = DOMAIN f
<1> DEFINE g == update_focused_window(f)
<1>1. DOMAIN g = DOMAIN f
  BY DEF update_focused_window
<1>2. ASSUME NEW w \in DOMAIN f
      PROVE  g[w] \in Window /\ g[w].z_index = f[w].z_index /\ g[w].is_focused = f[w].is_focused
  <2>1. f[w] \in Window
    BY DEF Stacked
  <2>2. g[w] = [f[w] EXCEPT !.size = IF f[w].is_focused /\ @ < QUEUE_SIZE THEN @ + 1 ELSE @]
    BY DEF update_focused_window
  <2> HIDE DEF g
  <2> QED
    BY <2>1, <2>2, WindowsAssumption DEF Window
<1> HIDE DEF g
<1>3. Stacked(g, z)
  BY <1>1, <1>2, SameStack
<1> QED
  BY <1>1, <1>3 DEF g

LEMMA DragOK ==
    ASSUME NEW f, NEW z, Stacked(f, z), mouse \in [buttons: BOOLEAN, prev: BOOLEAN, moved: BOOLEAN]
    PROVE  /\ Stacked(update_window_drag(f), z)
           /\ DOMAIN update_window_drag(f) = DOMAIN f
<1> DEFINE g == update_window_drag(f)
<1>1. DOMAIN g = DOMAIN f
  BY DEF update_window_drag
<1>2. ASSUME NEW w \in DOMAIN f
      PROVE  g[w] \in Window /\ g[w].z_index = f[w].z_index /\ g[w].is_focused = f[w].is_focused
  <2>1. f[w] \in Window
    BY DEF Stacked
  <2>2. PICK b \in BOOLEAN : g[w] = [f[w] EXCEPT !.is_dragging = b]
    BY <2>1 DEF update_window_drag, Window
  <2> HIDE DEF g
  <2> QED
    BY <2>1, <2>2 DEF Window
<1> HIDE DEF g
<1>3. Stacked(g, z)
  BY <1>1, <1>2, SameStack
<1> QED
  BY <1>1, <1>3 DEF g

\* A click keeps the stack, or removes the window it closes.
LEMMA ClickOK ==
    ASSUME NEW f, Stacked(f, window_z_index), NEW under \in SUBSET DOMAIN f, NEW part,
           DOMAIN f \subseteq Nat, update_window_click(f, under, part)
    PROVE  Stacked(win', window_z_index') /\ DOMAIN win' \subseteq DOMAIN f
<1>1. CASE under = {}
  BY <1>1 DEF update_window_click
<1>2. CASE under # {}
  <2> DEFINE c == Clicked(f, under)
             r == Raise(f, c)
             d == [r EXCEPT ![c].is_dragging = @ \/ part = "title"]
  <2>1. c \in DOMAIN f
    BY <1>2, ClickedOK
  <2>2. \/ win' = remove_window(r, c) /\ window_z_index' = window_z_index - 1
        \/ win' = update_focused_window(d) /\ window_z_index' = window_z_index
    BY <1>2 DEF update_window_click
  <2> HIDE DEF c
  <2>3. Stacked(r, window_z_index) /\ DOMAIN r = DOMAIN f
    BY <2>1, RaiseOK
  <2> HIDE DEF r
  <2>4. Stacked(d, window_z_index) /\ DOMAIN d = DOMAIN r
    <3>1. DOMAIN d = DOMAIN r
      OBVIOUS
    <3>2. ASSUME NEW w \in DOMAIN r
          PROVE  d[w] \in Window /\ d[w].z_index = r[w].z_index /\ d[w].is_focused = r[w].is_focused
      <4>1. r[w] \in Window
        BY <2>3 DEF Stacked
      <4>2. PICK b \in BOOLEAN : d[w] = [r[w] EXCEPT !.is_dragging = b]
        BY <4>1 DEF Window
      <4> HIDE DEF d
      <4> QED
        BY <4>1, <4>2 DEF Window
    <3> HIDE DEF d
    <3> QED
      BY <2>3, <3>1, <3>2, SameStack
  <2> HIDE DEF d
  <2>5. CASE win' = remove_window(r, c) /\ window_z_index' = window_z_index - 1
    BY <2>1, <2>3, <2>5, RemoveOK
  <2>6. CASE win' = update_focused_window(d) /\ window_z_index' = window_z_index
    BY <2>3, <2>4, <2>6, PushOK
  <2> QED
    BY <2>2, <2>5, <2>6
<1> QED
  BY <1>1, <1>2

\* The next window of the list is a later one.
LEMMA AfterOK ==
    ASSUME NEW f, NEW w, DOMAIN f \subseteq Nat, After(f, w) # 0
    PROVE  After(f, w) \in DOMAIN f /\ After(f, w) > w
<1> DEFINE later == {v \in DOMAIN f : v > w}
<1>1. later # {} /\ later \in SUBSET Nat
  BY DEF After
<1>2. PICK x \in later : \A y \in later : x <= y
  <2> HIDE DEF later
  <2> QED
    BY <1>1, NatLeast
<1>3. After(f, w) \in later
  BY <1>1, <1>2 DEF After
<1> QED
  BY <1>3

(***************************************************************************)
(* One lemma per action                                                    *)
(***************************************************************************)
LEMMA InitOK == ASSUME Init PROVE IInv
<1>1. /\ DOMAIN win = {1} /\ window_z_index = 2 /\ window_id = 2
      /\ win[1] = [pid |-> 0, z_index |-> 1, is_focused |-> FALSE, is_dragging |-> FALSE, size |-> 0]
  BY DEF Init, NewWindow, Terminal, Nobody
<1>2. win[1] \in Window /\ win[1].z_index = 1
  BY <1>1, WindowsAssumption DEF Window, Nobody
<1>3. Stacked(win, window_z_index)
  <2>1. window_z_index - 1 = 1 /\ 1 \in 1..1 /\ \A k \in 1..1 : k = 1
    BY <1>1
  <2>2. \A w \in DOMAIN win : w = 1
    BY <1>1
  <2>3. \A w \in DOMAIN win : win[w] \in Window /\ win[w].z_index \in 1..(window_z_index - 1)
    BY <1>2, <2>1, <2>2
  <2>4. \A k \in 1..(window_z_index - 1) : \E w \in DOMAIN win : win[w].z_index = k
    BY <1>1, <1>2, <2>1
  <2> QED
    BY <1>1, <2>2, <2>3, <2>4 DEF Stacked
<1>4. Frame
  BY <1>1, WindowsAssumption DEF Frame, Init
<1> QED
  BY <1>3, <1>4, IInvSplit

LEMMA CreateOK == ASSUME IInv, NEW pid \in Pids, wm_create_window(pid) PROVE IInv'
<1>1. Stacked(win, window_z_index) /\ Frame
  BY IInvSplit
<1> DEFINE z == window_z_index
           new == [pid |-> pid, z_index |-> z, is_focused |-> FALSE, is_dragging |-> FALSE, size |-> 0]
<1>2. /\ z \in Nat \ {0} /\ window_id \in 2..(MaxId + 1) /\ window_id <= MaxId
      /\ DOMAIN win \subseteq 1..(window_id - 1) /\ window_id \notin DOMAIN win
      /\ MaxId \in Nat
  BY <1>1, WindowsAssumption DEF Stacked, Frame, wm_create_window
<1>3. /\ DOMAIN win' = DOMAIN win \cup {window_id}
      /\ win'[window_id] = new
      /\ \A w \in DOMAIN win : win'[w] = win[w]
      /\ window_z_index' = z + 1 /\ window_id' = window_id + 1
      /\ UNCHANGED <<mouse, walk>> /\ walk = Idle
  BY <1>2 DEF wm_create_window, NewWindow, Running
<1>4. /\ new \in Window /\ new.z_index = z /\ new.is_focused = FALSE
  BY <1>2, WindowsAssumption DEF Window
<1> HIDE DEF new
<1>5. Stacked(win', window_z_index')
  <2>1. \A w \in DOMAIN win' : win'[w] \in Window /\ win'[w].z_index \in 1..(z + 1 - 1)
    BY <1>1, <1>2, <1>3, <1>4 DEF Stacked
  <2>2. \A w \in DOMAIN win : win[w].z_index # z
    BY <1>1, <1>2 DEF Stacked
  <2>3. \A w, v \in DOMAIN win' : win'[w].z_index = win'[v].z_index => w = v
    BY <1>1, <1>3, <1>4, <2>2 DEF Stacked
  <2>4. \A j \in 1..(z + 1 - 1) : \E w \in DOMAIN win' : win'[w].z_index = j
    <3> SUFFICES ASSUME NEW j \in 1..(z + 1 - 1) PROVE \E w \in DOMAIN win' : win'[w].z_index = j
      OBVIOUS
    <3>1. CASE j = z
      BY <1>3, <1>4, <3>1
    <3>2. CASE j # z
      <4>1. j \in 1..(z - 1)
        BY <1>2, <3>2
      <4>2. PICK w \in DOMAIN win : win[w].z_index = j
        BY <1>1, <4>1 DEF Stacked
      <4> QED
        BY <1>3, <4>2
    <3> QED
      BY <3>1, <3>2
  <2>5. \A w, v \in DOMAIN win' : win'[w].is_focused /\ win'[v].is_focused => w = v
    BY <1>1, <1>3, <1>4 DEF Stacked
  <2> QED
    BY <1>2, <1>3, <2>1, <2>3, <2>4, <2>5 DEF Stacked
<1>6. Frame'
  BY <1>1, <1>2, <1>3 DEF Frame
<1> QED
  BY <1>5, <1>6, IInvPrimed

LEMMA DestroyOK ==
    ASSUME IInv, NEW id \in 1..MaxId, handle_syscall_destroy_window(id) PROVE IInv'
<1>1. Stacked(win, window_z_index) /\ Frame
  BY IInvSplit
<1>2. /\ id \in DOMAIN win /\ win' = remove_window(win, id) /\ window_z_index' = window_z_index - 1
      /\ UNCHANGED <<window_id, mouse, walk>> /\ walk = Idle
  BY DEF handle_syscall_destroy_window, Running
<1>3. Stacked(win', window_z_index') /\ DOMAIN win' \subseteq DOMAIN win
  BY <1>1, <1>2, RemoveOK
<1>4. Frame'
  BY <1>1, <1>2, <1>3 DEF Frame
<1> QED
  BY <1>3, <1>4, IInvPrimed

LEMMA SigintOK == ASSUME IInv, NEW pid \in Pids, sigint_foreground(pid) PROVE IInv'
<1>1. Stacked(win, window_z_index) /\ Frame
  BY IInvSplit
<1>2. UNCHANGED <<win, window_z_index, window_id, mouse>>
  BY DEF sigint_foreground
<1>3. DOMAIN win \subseteq Nat
  BY <1>1 DEF Frame
<1>4. walk' = Idle \/ walk' \in [pid: Pids, at: DOMAIN win]
  BY <1>3, AfterOK DEF sigint_foreground
<1>5. Stacked(win', window_z_index') /\ Frame'
  BY <1>1, <1>2, <1>4 DEF Frame
<1> QED
  BY <1>5, IInvPrimed

LEMMA WalkOK == ASSUME IInv, remove_window_process PROVE IInv'
<1>1. Stacked(win, window_z_index) /\ Frame
  BY IInvSplit
<1>2. DOMAIN win \subseteq Nat /\ walk \in [pid: Pids, at: DOMAIN win]
  BY <1>1 DEF Frame, remove_window_process, Running
<1> DEFINE n == After(win, walk.at)
<1>3. /\ walk' = IF n = 0 THEN Idle ELSE [walk EXCEPT !.at = n]
      /\ UNCHANGED <<window_id, mouse>>
      /\ \/ win' = remove_window(win, walk.at) /\ window_z_index' = window_z_index - 1
         \/ UNCHANGED <<win, window_z_index>>
  BY DEF remove_window_process
<1>4. n # 0 => n \in DOMAIN win /\ n # walk.at
  <2> SUFFICES ASSUME n # 0 PROVE n \in DOMAIN win /\ n # walk.at
    OBVIOUS
  <2>1. n \in DOMAIN win /\ n > walk.at
    BY <1>2, AfterOK
  <2> HIDE DEF n
  <2> QED
    BY <1>2, <2>1
<1> HIDE DEF n
<1>5. /\ Stacked(win', window_z_index')
      /\ DOMAIN win' \subseteq DOMAIN win
      /\ DOMAIN win \ {walk.at} \subseteq DOMAIN win'
  <2>1. CASE win' = remove_window(win, walk.at) /\ window_z_index' = window_z_index - 1
    <3>1. walk.at \in DOMAIN win
      BY <1>2
    <3> QED
      BY <1>1, <2>1, <3>1, RemoveOK
  <2>2. CASE UNCHANGED <<win, window_z_index>>
    BY <1>1, <2>2
  <2> QED
    BY <1>3, <2>1, <2>2
<1>6. walk' = Idle \/ walk' \in [pid: Pids, at: DOMAIN win']
  BY <1>2, <1>3, <1>4, <1>5
<1>7. Frame'
  BY <1>1, <1>3, <1>5, <1>6 DEF Frame
<1> QED
  BY <1>5, <1>7, IInvPrimed

LEMMA GetEventOK ==
    ASSUME IInv, NEW id \in 1..MaxId, handle_syscall_get_event(id) PROVE IInv'
<1>1. Stacked(win, window_z_index) /\ Frame
  BY IInvSplit
<1>2. /\ id \in DOMAIN win /\ win[id].size # 0 /\ win' = [win EXCEPT ![id].size = @ - 1]
      /\ UNCHANGED <<window_z_index, window_id, mouse, walk>>
  BY DEF handle_syscall_get_event
<1>3. DOMAIN win' = DOMAIN win
  BY <1>2
<1>4. ASSUME NEW w \in DOMAIN win
      PROVE  win'[w] \in Window /\ win'[w].z_index = win[w].z_index /\ win'[w].is_focused = win[w].is_focused
  <2>1. win[w] \in Window
    BY <1>1 DEF Stacked
  <2>2. CASE w = id
    <3>1. win'[w] = [win[w] EXCEPT !.size = win[w].size - 1] /\ win[w].size # 0
      BY <1>2, <2>2
    <3> QED
      BY <2>1, <3>1, WindowsAssumption DEF Window
  <2>3. CASE w # id
    BY <1>2, <2>1, <2>3
  <2> QED
    BY <2>2, <2>3
<1>5. Stacked(win', window_z_index')
  BY <1>1, <1>2, <1>3, <1>4, SameStack
<1>6. Frame'
  BY <1>1, <1>2, <1>3 DEF Frame
<1> QED
  BY <1>5, <1>6, IInvPrimed

LEMMA InputOK == ASSUME IInv, handle_input PROVE IInv'
<1>1. Stacked(win, window_z_index) /\ Frame
  BY IInvSplit
<1>2. /\ win' = win \/ win' = update_focused_window(win)
      /\ UNCHANGED <<window_z_index, window_id, mouse, walk>>
  BY DEF handle_input
<1>3. Stacked(win', window_z_index') /\ DOMAIN win' = DOMAIN win
  BY <1>1, <1>2, PushOK
<1>4. Frame'
  BY <1>1, <1>2, <1>3 DEF Frame
<1> QED
  BY <1>3, <1>4, IInvPrimed

LEMMA MouseOK ==
    ASSUME IInv, NEW left \in BOOLEAN, NEW moved \in BOOLEAN, mouse_handler_main(left, moved)
    PROVE  IInv'
<1>1. Stacked(win, window_z_index) /\ Frame
  BY IInvSplit
<1>2. UNCHANGED <<win, window_z_index, window_id, walk>>
  BY DEF mouse_handler_main
<1>3. mouse' \in [buttons: BOOLEAN, prev: BOOLEAN, moved: BOOLEAN]
  BY <1>1 DEF mouse_handler_main, Frame
<1>4. Stacked(win', window_z_index') /\ Frame'
  BY <1>1, <1>2, <1>3 DEF Frame
<1> QED
  BY <1>4, IInvPrimed

LEMMA TickOK == ASSUME IInv, update_window PROVE IInv'
<1>1. Stacked(win, window_z_index) /\ Frame
  BY IInvSplit
<1> DEFINE d == update_window_drag(win)
           f == IF mouse.moved THEN update_focused_window(d) ELSE d
<1>2. Stacked(d, window_z_index) /\ DOMAIN d = DOMAIN win
  BY <1>1, DragOK DEF Frame
<1>3. Stacked(f, window_z_index) /\ DOMAIN f = DOMAIN win
  <2> HIDE DEF d
  <2>1. Stacked(update_focused_window(d), window_z_index) /\ DOMAIN update_focused_window(d) = DOMAIN d
    BY <1>2, PushOK
  <2> QED
    BY <1>2, <2>1
<1>4. UNCHANGED <<window_id, walk>> /\ walk = Idle
  BY DEF update_window, Running
<1>5. \/ win' = f /\ UNCHANGED <<window_z_index, mouse>>
      \/ /\ mouse' = [mouse EXCEPT !.prev = mouse.buttons]
         /\ \E under \in SUBSET DOMAIN win, part \in {"title", "close", "body"} :
               update_window_click(f, under, part)
  BY Zenon DEF update_window
<1> HIDE DEF f
<1>6. CASE win' = f /\ UNCHANGED <<window_z_index, mouse>>
  <2>1. Stacked(win', window_z_index') /\ DOMAIN win' = DOMAIN win
    BY <1>3, <1>6
  <2>2. Frame'
    BY <1>1, <1>4, <1>6, <2>1 DEF Frame
  <2> QED
    BY <2>1, <2>2, IInvPrimed
<1>7. CASE /\ mouse' = [mouse EXCEPT !.prev = mouse.buttons]
           /\ \E under \in SUBSET DOMAIN win, part \in {"title", "close", "body"} :
                 update_window_click(f, under, part)
  <2>1. DOMAIN f \subseteq Nat
    BY <1>1, <1>3 DEF Frame
  <2>2. Stacked(win', window_z_index') /\ DOMAIN win' \subseteq DOMAIN win
    BY <1>3, <1>7, <2>1, ClickOK
  <2>3. mouse' \in [buttons: BOOLEAN, prev: BOOLEAN, moved: BOOLEAN]
    BY <1>1, <1>7 DEF Frame
  <2>4. Frame'
    BY <1>1, <1>4, <2>2, <2>3 DEF Frame
  <2> QED
    BY <2>2, <2>4, IInvPrimed
<1> QED
  BY <1>5, <1>6, <1>7

LEMMA IInvInductive == IInv /\ [Next]_vars => IInv'
<1> SUFFICES ASSUME IInv, [Next]_vars PROVE IInv'
  OBVIOUS
<1>1. CASE UNCHANGED vars
  BY <1>1 DEF vars, IInv, TypeOK, ZOrder, OneFocused
<1>2. CASE Next
  BY <1>2, CreateOK, SigintOK, DestroyOK, GetEventOK, WalkOK, InputOK, MouseOK, TickOK DEF Next
<1> QED
  BY <1>1, <1>2

LEMMA Inductive == Spec => []IInv
<1>1. Init => IInv
  BY InitOK
<1> QED
  BY <1>1, IInvInductive, PTL DEF Spec

\* Whatever windows are created, clicked, closed or removed by Ctrl+C, the
\* z_indices of n windows stay a permutation of 1..n and window_z_index is
\* n + 1, so the compositor's array has no hole.
THEOREM StackIsPermutation == Spec => []ZOrder
<1>1. IInv => ZOrder
  BY DEF IInv
<1> QED
  BY <1>1, Inductive, PTL

\* No two windows ever have the focus at the same time.
THEOREM FocusIsUnique == Spec => []OneFocused
<1>1. IInv => OneFocused
  BY DEF IInv
<1> QED
  BY <1>1, Inductive, PTL

\* Types: no event queue exceeds its capacity and the walk of Ctrl+C never
\* stands on a freed window when it reads the owner.
THEOREM TypeCorrect == Spec => []TypeOK
<1>1. IInv => TypeOK
  BY DEF IInv
<1> QED
  BY <1>1, Inductive, PTL

(***************************************************************************)
(* Ctrl+C                                                                  *)
(*                                                                         *)
(* While the walk goes on every other handler waits, and the windows that  *)
(* it has passed belong to other processes.                                *)
(***************************************************************************)
Swept == ~Running => \A w \in DOMAIN win : w < walk.at => win[w].pid # walk.pid

\* The next window of the list is the first of the later ones.
LEMMA AfterIsNext ==
    ASSUME NEW f, NEW w \in Nat, DOMAIN f \subseteq Nat
    PROVE  /\ After(f, w) = 0 => \A v \in DOMAIN f : v <= w
           /\ After(f, w) # 0 => \A v \in DOMAIN f : v > w => After(f, w) <= v
<1> DEFINE later == {v \in DOMAIN f : v > w}
<1>1. CASE later = {}
  BY <1>1 DEF After
<1>2. CASE later # {}
  <2>1. later \in SUBSET Nat
    OBVIOUS
  <2>2. PICK x \in later : \A y \in later : x <= y
    <3> HIDE DEF later
    <3> QED
      BY <1>2, <2>1, NatLeast
  <2>3. After(f, w) \in later /\ \A y \in later : After(f, w) <= y
    BY <1>2, <2>2 DEF After
  <2> QED
    BY <2>3
<1> QED
  BY <1>1, <1>2

LEMMA WalkStep ==
    ASSUME IInv, Swept, remove_window_process
    PROVE  /\ Swept'
           /\ Running' => \A w \in DOMAIN win' : win'[w].pid # walk.pid
<1>1. /\ DOMAIN win \subseteq Nat /\ walk.at \in DOMAIN win /\ walk.at \in Nat
      /\ walk \in [pid: Pids, at: DOMAIN win] /\ ~Running
      /\ \A w \in DOMAIN win : win[w] \in Window
  BY DEF IInv, TypeOK, remove_window_process, Running
<1> DEFINE n == After(win, walk.at)
<1>2. walk' = IF n = 0 THEN Idle ELSE [walk EXCEPT !.at = n]
  BY DEF remove_window_process
<1>3. /\ n = 0 => \A v \in DOMAIN win : v <= walk.at
      /\ n # 0 => \A v \in DOMAIN win : v > walk.at => n <= v
      /\ n # 0 => n \in Nat
  BY <1>1, AfterIsNext, AfterOK
<1> HIDE DEF n
<1>4. ASSUME NEW w \in DOMAIN win', w <= walk.at
      PROVE  win'[w].pid # walk.pid
  <2>1. CASE win[walk.at].pid = walk.pid
    <3>1. win' = remove_window(win, walk.at)
      BY <2>1 DEF remove_window_process
    <3>2. w \in DOMAIN win /\ w # walk.at /\ w < walk.at
      BY <1>1, <1>4, <3>1 DEF remove_window
    <3>3. win'[w] = [win[w] EXCEPT !.z_index = IF @ > win[walk.at].z_index THEN @ - 1 ELSE @]
      BY <3>1, <3>2 DEF remove_window
    <3>4. win'[w].pid = win[w].pid
      BY <1>1, <3>2, <3>3 DEF Window
    <3> QED
      BY <1>1, <3>2, <3>4 DEF Swept
  <2>2. CASE win[walk.at].pid # walk.pid
    <3>1. win' = win
      BY <2>2 DEF remove_window_process
    <3>2. w = walk.at \/ w < walk.at
      BY <1>1, <1>4, <3>1
    <3> QED
      BY <1>1, <1>4, <2>2, <3>1, <3>2 DEF Swept
  <2> QED
    BY <2>1, <2>2
<1>5. DOMAIN win' \subseteq DOMAIN win
  BY DEF remove_window_process, remove_window
<1>6. CASE n = 0
  <2>1. Running'
    BY <1>2, <1>6 DEF Running
  <2>2. \A w \in DOMAIN win' : w <= walk.at
    BY <1>3, <1>5, <1>6
  <2> QED
    BY <1>4, <2>1, <2>2 DEF Swept
<1>7. CASE n # 0
  <2>1. walk'.at = n /\ walk'.pid = walk.pid
    BY <1>1, <1>2, <1>7
  <2>2. ~Running'
    <3>1. walk'.at # 0
      BY <1>7, <2>1
    <3> QED
      BY <3>1 DEF Running, Idle
  <2>3. \A w \in DOMAIN win' : w < n => w <= walk.at
    BY <1>1, <1>3, <1>5, <1>7
  <2> QED
    BY <1>4, <2>1, <2>2, <2>3 DEF Swept
<1> QED
  BY <1>6, <1>7

\* Every handler other than the walk runs to its end before the walk starts.
LEMMA OthersWait ==
    ASSUME Next, ~remove_window_process
    PROVE  Running /\ (Running' \/ \E pid \in Pids : sigint_foreground(pid))
BY DEF Next, wm_create_window, sigint_foreground, handle_syscall_destroy_window,
       handle_syscall_get_event, handle_input, mouse_handler_main, update_window, Running

SweptStep == ~Running /\ Running' => \A w \in DOMAIN win' : win'[w].pid # walk.pid

LEMMA SweptOK == IInv /\ Swept /\ [Next]_vars => Swept' /\ [SweptStep]_vars
<1> SUFFICES ASSUME IInv, Swept, [Next]_vars PROVE Swept' /\ SweptStep
  OBVIOUS
<1>1. CASE UNCHANGED vars
  BY <1>1 DEF vars, Swept, SweptStep, Running
<1>2. CASE remove_window_process
  BY <1>2, WalkStep DEF SweptStep
<1>3. CASE Next /\ ~remove_window_process
  <2>1. Running /\ (Running' \/ \E pid \in Pids : sigint_foreground(pid))
    BY <1>3, OthersWait
  <2>2. CASE Running'
    BY <2>1, <2>2 DEF Swept, SweptStep
  <2>3. ASSUME NEW pid \in Pids, sigint_foreground(pid), ~Running' PROVE Swept'
    <3>1. DOMAIN win \subseteq Nat \ {0}
      BY DEF IInv, TypeOK
    <3>2. walk' = [pid |-> pid, at |-> After(win, 0)] /\ After(win, 0) # 0 /\ win' = win
      BY <2>3 DEF sigint_foreground, Running
    <3>3. \A v \in DOMAIN win : After(win, 0) <= v
      BY <3>1, <3>2, AfterIsNext
    <3>4. After(win, 0) \in Nat
      BY <3>1, <3>2, AfterOK
    <3> QED
      BY <3>1, <3>2, <3>3, <3>4 DEF Swept
  <2> QED
    BY <2>1, <2>2, <2>3 DEF SweptStep
<1> QED
  BY <1>1, <1>2, <1>3

\* Ctrl+C leaves no window of the foreground process behind, although
\* remove_window_process takes windows out of the list it is walking.
THEOREM CtrlCClosesAll == Spec => ForegroundWindowsGone
<1>1. Init => Swept
  BY DEF Init, Swept, Running
<1> QED
  BY <1>1, SweptOK, Inductive, PTL DEF Spec, ForegroundWindowsGone, SweptStep

(***************************************************************************)
(* Events                                                                  *)
(***************************************************************************)
\* From f to g only a window that has the focus in one of them gets an event,
\* and none loses one.
Routed(f, g) ==
    \A w \in DOMAIN f \cap DOMAIN g :
        /\ g[w].size > f[w].size => f[w].is_focused \/ g[w].is_focused
        /\ g[w].size >= f[w].size

LEMMA RemoveRoutes ==
    ASSUME NEW f, NEW id \in DOMAIN f, \A w \in DOMAIN f : f[w] \in Window
    PROVE  \A w \in DOMAIN remove_window(f, id) :
              w \in DOMAIN f /\ remove_window(f, id)[w].size = f[w].size
<1> SUFFICES ASSUME NEW w \in DOMAIN remove_window(f, id)
             PROVE  w \in DOMAIN f /\ remove_window(f, id)[w].size = f[w].size
  OBVIOUS
<1>1. w \in DOMAIN f \ {id}
  BY DEF remove_window
<1>2. remove_window(f, id)[w] =
         [f[w] EXCEPT !.z_index = IF @ > f[id].z_index THEN @ - 1 ELSE @]
  BY <1>1 DEF remove_window
<1> QED
  BY <1>1, <1>2 DEF Window

\* An event for the focused window goes nowhere else and leaves the focus.
LEMMA PushRoutes ==
    ASSUME NEW f, \A w \in DOMAIN f : f[w] \in Window
    PROVE  /\ DOMAIN update_focused_window(f) = DOMAIN f
           /\ \A w \in DOMAIN f :
                 /\ update_focused_window(f)[w] \in Window
                 /\ update_focused_window(f)[w].is_focused = f[w].is_focused
                 /\ ~f[w].is_focused => update_focused_window(f)[w].size = f[w].size
                 /\ update_focused_window(f)[w].size >= f[w].size
<1> DEFINE g == update_focused_window(f)
<1>1. DOMAIN g = DOMAIN f
  BY DEF update_focused_window
<1>2. ASSUME NEW w \in DOMAIN f
      PROVE  /\ g[w] \in Window /\ g[w].is_focused = f[w].is_focused
             /\ ~f[w].is_focused => g[w].size = f[w].size
             /\ g[w].size >= f[w].size
  <2>1. f[w] \in Window
    OBVIOUS
  <2>2. g[w] = [f[w] EXCEPT !.size = IF f[w].is_focused /\ @ < QUEUE_SIZE THEN @ + 1 ELSE @]
    BY DEF update_focused_window
  <2> HIDE DEF g
  <2> QED
    BY <2>1, <2>2, WindowsAssumption DEF Window
<1> HIDE DEF g
<1> QED
  BY <1>1, <1>2 DEF g

LEMMA DragRoutes ==
    ASSUME NEW f, \A w \in DOMAIN f : f[w] \in Window
    PROVE  /\ DOMAIN update_window_drag(f) = DOMAIN f
           /\ \A w \in DOMAIN f :
                 /\ update_window_drag(f)[w].is_focused = f[w].is_focused
                 /\ update_window_drag(f)[w].size = f[w].size
<1> SUFFICES ASSUME NEW w \in DOMAIN f
             PROVE  /\ update_window_drag(f)[w].is_focused = f[w].is_focused
                    /\ update_window_drag(f)[w].size = f[w].size
  BY DEF update_window_drag
<1>1. update_window_drag(f)[w] = [f[w] EXCEPT !.is_dragging = @ /\ mouse.buttons]
  BY DEF update_window_drag
<1> QED
  BY <1>1 DEF Window

\* A click sends its event to the window it raises.
LEMMA ClickRoutes ==
    ASSUME NEW f, Stacked(f, window_z_index), NEW under \in SUBSET DOMAIN f, NEW part,
           DOMAIN f \subseteq Nat, update_window_click(f, under, part)
    PROVE  /\ DOMAIN win' \subseteq DOMAIN f
           /\ \A w \in DOMAIN win' :
                /\ win'[w].size = f[w].size \/ win'[w].is_focused
                /\ win'[w].size >= f[w].size
<1> \A w \in DOMAIN f : f[w].size \in Nat
  BY WindowsAssumption DEF Stacked, Window
<1>1. CASE under = {}
  BY <1>1 DEF update_window_click
<1>2. CASE under # {}
  <2> DEFINE c == Clicked(f, under)
             r == Raise(f, c)
             d == [r EXCEPT ![c].is_dragging = @ \/ part = "title"]
  <2>1. c \in DOMAIN f /\ Stacked(r, window_z_index) /\ DOMAIN r = DOMAIN f
    BY <1>2, ClickedOK, RaiseOK
  <2>2. win' = remove_window(r, c) \/ win' = update_focused_window(d)
    BY <1>2 DEF update_window_click
  <2>3. ASSUME NEW w \in DOMAIN f PROVE r[w].size = f[w].size
    <3>1. f[w] \in Window
      BY DEF Stacked
    <3> QED
      BY <3>1 DEF Raise, Window
  <2> HIDE DEF c, r
  <2>4. \A w \in DOMAIN r : r[w] \in Window
    BY <2>1 DEF Stacked
  <2>5. CASE win' = remove_window(r, c)
    BY <2>1, <2>3, <2>4, <2>5, RemoveRoutes
  <2>6. CASE win' = update_focused_window(d)
    <3>1. DOMAIN d = DOMAIN r
      OBVIOUS
    <3>2. ASSUME NEW w \in DOMAIN r PROVE d[w] \in Window /\ d[w].size = r[w].size
      <4>1. r[w] \in Window
        BY <2>4
      <4>2. PICK b \in BOOLEAN : d[w] = [r[w] EXCEPT !.is_dragging = b]
        BY <4>1 DEF Window
      <4> HIDE DEF d
      <4> QED
        BY <4>1, <4>2 DEF Window
    <3> HIDE DEF d
    <3>3. /\ DOMAIN win' = DOMAIN d
          /\ \A w \in DOMAIN d : /\ win'[w].is_focused = d[w].is_focused
                                 /\ win'[w] \in Window
                                 /\ ~d[w].is_focused => win'[w].size = d[w].size
                                 /\ win'[w].size >= d[w].size
      BY <2>6, <3>1, <3>2, PushRoutes
    <3>4. ASSUME NEW w \in DOMAIN win'
          PROVE  /\ win'[w].size = f[w].size \/ win'[w].is_focused
                 /\ win'[w].size >= f[w].size
      <4>1. w \in DOMAIN r /\ w \in DOMAIN d /\ w \in DOMAIN f
        BY <2>1, <3>1, <3>3
      <4>2. d[w] \in Window /\ d[w].size = f[w].size
        BY <2>3, <3>2, <4>1
      <4>3. d[w].is_focused \in BOOLEAN
        BY <4>2 DEF Window
      <4> QED
        BY <3>3, <4>1, <4>2, <4>3
    <3> QED
      BY <2>1, <3>1, <3>3, <3>4
  <2> QED
    BY <2>2, <2>5, <2>6
<1> QED
  BY <1>1, <1>2

LEMMA TickRoutes == ASSUME IInv, IInv', update_window PROVE Routed(win, win')
<1>1. /\ Stacked(win, window_z_index) /\ DOMAIN win \subseteq Nat
      /\ \A w \in DOMAIN win : win[w] \in Window
      /\ mouse \in [buttons: BOOLEAN, prev: BOOLEAN, moved: BOOLEAN]
  BY IInvSplit DEF Frame, Stacked
<1> DEFINE d == update_window_drag(win)
           f == IF mouse.moved THEN update_focused_window(d) ELSE d
<1>2. /\ Stacked(d, window_z_index) /\ DOMAIN d = DOMAIN win
      /\ \A w \in DOMAIN win : d[w].is_focused = win[w].is_focused /\ d[w].size = win[w].size
  BY <1>1, DragOK, DragRoutes
<1>3. \/ win' = f
      \/ \E under \in SUBSET DOMAIN win, part \in {"title", "close", "body"} :
            update_window_click(f, under, part)
  BY Zenon DEF update_window
<1> HIDE DEF d
<1>4. /\ Stacked(f, window_z_index) /\ DOMAIN f = DOMAIN win
      /\ \A w \in DOMAIN win : /\ f[w].size = win[w].size \/ win[w].is_focused
                               /\ f[w].size >= win[w].size
  <2>1. \A w \in DOMAIN d : d[w] \in Window
    BY <1>2 DEF Stacked
  <2>2. /\ Stacked(update_focused_window(d), window_z_index)
        /\ DOMAIN update_focused_window(d) = DOMAIN d
        /\ \A w \in DOMAIN d :
              /\ ~d[w].is_focused => update_focused_window(d)[w].size = d[w].size
              /\ update_focused_window(d)[w].size >= d[w].size
    BY <1>2, <2>1, PushOK, PushRoutes
  <2>3. CASE mouse.moved
    <3>1. f = update_focused_window(d)
      BY <2>3
    <3> HIDE DEF f
    <3>2. ASSUME NEW w \in DOMAIN win
          PROVE  (f[w].size = win[w].size \/ win[w].is_focused) /\ f[w].size >= win[w].size
      BY <1>2, <2>2, <3>1
    <3> QED
      BY <1>2, <2>2, <3>1, <3>2
  <2>4. CASE ~mouse.moved
    <3>1. \A w \in DOMAIN win : win[w].size \in Nat
      BY <1>1, WindowsAssumption DEF Window
    <3> QED
      BY <1>2, <2>4, <3>1
  <2> QED
    BY <2>3, <2>4
<1> HIDE DEF f
<1>5. CASE win' = f
  BY <1>1, <1>4, <1>5 DEF Routed, Window
<1>6. ASSUME NEW under \in SUBSET DOMAIN win, NEW part, update_window_click(f, under, part)
      PROVE  Routed(win, win')
  <2>1. /\ DOMAIN win' \subseteq DOMAIN f
        /\ \A w \in DOMAIN win' : /\ win'[w].size = f[w].size \/ win'[w].is_focused
                                  /\ win'[w].size >= f[w].size
    BY <1>1, <1>4, <1>6, ClickRoutes
  <2>2. ASSUME NEW w \in DOMAIN win \cap DOMAIN win'
        PROVE  /\ win'[w].size > win[w].size => win[w].is_focused \/ win'[w].is_focused
               /\ win'[w].size >= win[w].size
    <3>1. win[w].size \in Nat /\ f[w].size \in Nat
      BY <1>1, <1>4, WindowsAssumption DEF Window, Stacked
    <3>2. CASE win'[w].size = f[w].size
      BY <1>4, <3>1, <3>2
    <3>3. CASE win'[w].is_focused /\ win'[w].size # f[w].size
      <4>1. win'[w].size >= f[w].size /\ f[w].size >= win[w].size
        BY <1>4, <2>1, <2>2
      <4>2. win'[w].size \in Nat
        BY <2>2, WindowsAssumption DEF IInv, TypeOK, Window
      <4> QED
        BY <3>1, <3>3, <4>1, <4>2
    <3> QED
      BY <2>1, <2>2, <3>2, <3>3
  <2> QED
    BY <2>2 DEF Routed
<1> QED
  BY <1>3, <1>5, <1>6

\* Handlers that neither add nor take an event.
LEMMA QuietRoutes ==
    ASSUME \A w \in DOMAIN win : win[w] \in Window,
           \A w \in DOMAIN win \cap DOMAIN win' :
              win'[w].size = win[w].size
    PROVE  Routed(win, win')
<1> SUFFICES ASSUME NEW w \in DOMAIN win \cap DOMAIN win' PROVE win'[w].size = win[w].size
                                                                   /\ win[w].size \in Nat
  BY DEF Routed
<1>1. win[w].size \in Nat
  BY WindowsAssumption DEF Window
<1> QED
  BY <1>1

EventStep ==
    \A w \in DOMAIN win \cap DOMAIN win' :
        /\ win'[w].size > win[w].size => win[w].is_focused \/ win'[w].is_focused
        /\ win'[w].size < win[w].size => handle_syscall_get_event(w)

LEMMA PollRoutes ==
    ASSUME IInv, NEW id \in 1..MaxId, handle_syscall_get_event(id)
    PROVE  EventStep
<1>1. \A w \in DOMAIN win : win[w] \in Window /\ win[w].size \in Nat
  BY WindowsAssumption DEF IInv, TypeOK, Window
<1>2. id \in DOMAIN win /\ win' = [win EXCEPT ![id].size = @ - 1]
  BY DEF handle_syscall_get_event
<1>3. ASSUME NEW w \in DOMAIN win \cap DOMAIN win'
      PROVE  /\ win'[w].size > win[w].size => win[w].is_focused \/ win'[w].is_focused
             /\ win'[w].size < win[w].size => handle_syscall_get_event(w)
  <2>1. CASE w = id
    <3>1. win'[w] = [win[w] EXCEPT !.size = win[w].size - 1] /\ win[w] \in Window
      BY <1>1, <1>2, <2>1
    <3>2. win'[w].size = win[w].size - 1 /\ win[w].size \in Nat
      BY <1>1, <3>1 DEF Window
    <3> QED
      BY <2>1, <3>2
  <2>2. CASE w # id
    <3>1. win'[w] = win[w] /\ win[w].size \in Nat
      BY <1>1, <1>2, <2>2
    <3> QED
      BY <3>1
  <2> QED
    BY <2>1, <2>2
<1> QED
  BY <1>3 DEF EventStep

LEMMA StepRoutes == IInv /\ IInv' /\ [Next]_vars => [EventStep]_vars
<1> SUFFICES ASSUME IInv, IInv', Next PROVE EventStep
  OBVIOUS
<1>1. /\ \A w \in DOMAIN win : win[w] \in Window
      /\ walk = Idle \/ walk.at \in DOMAIN win
      /\ window_id \notin DOMAIN win
  BY DEF IInv, TypeOK
<1>0. ASSUME Routed(win, win') PROVE EventStep
  <2>1. ASSUME NEW w \in DOMAIN win \cap DOMAIN win' PROVE ~(win'[w].size < win[w].size)
    <3>1. win[w].size \in Nat /\ win'[w].size \in Nat
      BY <2>1, WindowsAssumption DEF IInv, TypeOK, Window
    <3>2. win'[w].size >= win[w].size
      BY <1>0, <2>1 DEF Routed
    <3> QED
      BY <3>1, <3>2
  <2> QED
    BY <1>0, <2>1 DEF Routed, EventStep
<1>2. ASSUME NEW pid \in Pids, wm_create_window(pid) PROVE Routed(win, win')
  <2>1. \A w \in DOMAIN win : win'[w] = win[w]
    BY <1>1, <1>2 DEF wm_create_window
  <2> QED
    BY <1>1, <2>1, QuietRoutes
<1>3. ASSUME NEW pid \in Pids, sigint_foreground(pid) PROVE Routed(win, win')
  <2>1. win' = win
    BY <1>3 DEF sigint_foreground
  <2> QED
    BY <1>1, <2>1, QuietRoutes
<1>4. ASSUME NEW id \in 1..MaxId, handle_syscall_destroy_window(id) PROVE Routed(win, win')
  <2>1. id \in DOMAIN win /\ win' = remove_window(win, id)
    BY <1>4 DEF handle_syscall_destroy_window
  <2>2. \A w \in DOMAIN win' : win'[w].size = win[w].size
    BY <1>1, <2>1, RemoveRoutes
  <2> QED
    BY <1>1, <2>2, QuietRoutes
<1>5. ASSUME NEW id \in 1..MaxId, handle_syscall_get_event(id) PROVE EventStep
  BY <1>5, PollRoutes
<1>6. CASE remove_window_process
  <2>1. walk.at \in DOMAIN win
    BY <1>1, <1>6 DEF remove_window_process, Running
  <2>2. win' = remove_window(win, walk.at) \/ win' = win
    BY <1>6 DEF remove_window_process
  <2>3. \A w \in DOMAIN win' : win'[w].size = win[w].size
    BY <1>1, <2>1, <2>2, RemoveRoutes
  <2> QED
    BY <1>0, <1>1, <2>3, QuietRoutes
<1>7. CASE handle_input
  <2>1. win' = win \/ win' = update_focused_window(win)
    BY <1>7 DEF handle_input
  <2>2. CASE win' = win
    BY <1>0, <1>1, <2>2, QuietRoutes
  <2>3. CASE win' = update_focused_window(win)
    <3>1. \A w \in DOMAIN win :
             /\ ~win[w].is_focused => win'[w].size = win[w].size
             /\ win'[w].size >= win[w].size
      BY <1>1, <2>3, PushRoutes
    <3> QED
      BY <1>0, <1>1, <3>1, WindowsAssumption DEF Routed, Window
  <2> QED
    BY <2>1, <2>2, <2>3
<1>8. ASSUME NEW left \in BOOLEAN, NEW moved \in BOOLEAN, mouse_handler_main(left, moved)
      PROVE  Routed(win, win')
  <2>1. win' = win
    BY <1>8 DEF mouse_handler_main
  <2> QED
    BY <1>1, <2>1, QuietRoutes
<1>9. CASE update_window
  BY <1>0, <1>9, TickRoutes
<1> QED
  BY <1>0, <1>2, <1>3, <1>4, <1>5, <1>6, <1>7, <1>8, <1>9 DEF Next

\* event.c's events go to the window that has the focus, before or after the
\* click that moves it: no other queue grows, and none shrinks but by a poll.
THEOREM EventsReachFocus == Spec => EventsToFocused
<1> QED
  BY StepRoutes, Inductive, PTL DEF Spec, EventsToFocused, EventStep

(***************************************************************************)
(* The compositor                                                          *)
(*                                                                         *)
(* Slots(f, n, s) says that s lists the n windows of f in their stacking   *)
(* order, and Hole(f, n, s, p) that p is the place of the focused one, or  *)
(* n + 1.  The loop of wm_composite then draws the windows of all the      *)
(* other slots, in their order (LoopIs).                                   *)
(***************************************************************************)
Slots(f, n, s) ==
    /\ n \in Nat
    /\ s \in [1..n -> DOMAIN f]
    /\ DOMAIN f \subseteq Nat \ {0}
    /\ \A i, j \in 1..n : s[i] = s[j] => i = j
    /\ \A w \in DOMAIN f : \E i \in 1..n : s[i] = w
    /\ \A w, v \in DOMAIN f : f[w].is_focused /\ f[v].is_focused => w = v

Hole(f, n, s, p) ==
    /\ p \in 1..(n + 1)
    /\ \A i \in 1..n : f[s[i]].is_focused <=> i = p

\* An interval of numbers has what its first has and each passes on.
LEMMA Interval ==
    ASSUME NEW n \in Nat, NEW S, 0 \in S, \A i \in 0..(n - 1) : i \in S => i + 1 \in S
    PROVE  0..n \subseteq S
<1> DEFINE Missing == {i \in 0..n : i \notin S}
<1> SUFFICES ASSUME Missing # {} PROVE FALSE
  OBVIOUS
<1>1. Missing \in SUBSET Nat
  OBVIOUS
<1>2. PICK m \in Missing : \A i \in Missing : m <= i
  <2> HIDE DEF Missing
  <2> QED
    BY <1>1, NatLeast
<1>3. m \in 0..n /\ m # 0 /\ m \notin S
  OBVIOUS
<1>4. m - 1 \in 0..(n - 1) /\ m - 1 + 1 = m
  BY <1>3
<1>5. m - 1 \in S
  BY <1>2, <1>3, <1>4
<1> QED
  BY <1>3, <1>4, <1>5

LEMMA StackSize ==
    ASSUME NEW f, NEW z, Stacked(f, z)
    PROVE  window_count(f) = z - 1
<1> DEFINE g == [w \in DOMAIN f |-> f[w].z_index]
           S == DOMAIN f
           T == 1..(z - 1)
<1>1. z - 1 \in Nat
  BY DEF Stacked
<1>2. /\ \A w \in S : f[w].z_index \in T
      /\ \A w, v \in S : f[w].z_index = f[v].z_index => w = v
      /\ \A k \in T : \E w \in S : f[w].z_index = k
  BY DEF Stacked
<1> DEFINE h == [k \in T |-> CHOOSE w \in S : f[w].z_index = k]
<1>3. \A k \in T : h[k] \in S /\ f[h[k]].z_index = k
  BY <1>2
<1>4. h \in [T -> S]
  BY <1>3
<1> HIDE DEF T, h
<1>5. \A a, b \in T : h[a] = h[b] => a = b
  BY <1>3
<1>6. \A w \in S : \E k \in T : h[k] = w
  BY <1>2, <1>3
<1>7. h \in Bijection(T, S)
  BY <1>4, <1>5, <1>6 DEF Bijection, Injection, Surjection, IsInjective
<1>8. IsFiniteSet(T) /\ Cardinality(T) = z - 1
  <2>1. 1 \in Int /\ z - 1 \in Int
    BY <1>1
  <2>2. IsFiniteSet(1..(z - 1)) /\ Cardinality(1..(z - 1)) = IF 1 > z - 1 THEN 0 ELSE (z - 1) - 1 + 1
    BY <2>1, FS_Interval
  <2> QED
    BY <1>1, <2>2 DEF T
<1> HIDE DEF S
<1>9. Cardinality(S) = Cardinality(T)
  BY <1>7, <1>8, FS_Bijection DEF ExistsBijection
<1> QED
  BY <1>8, <1>9 DEF window_count, S

LEMMA SortedOK ==
    ASSUME NEW f, NEW z, Stacked(f, z), z - 1 <= MAX_WINDOWS, DOMAIN f \subseteq Nat \ {0}
    PROVE  Slots(f, z - 1, sorted(f))
<1> DEFINE n == z - 1
           at(i) == {w \in DOMAIN f : f[w].z_index = i /\ i <= MAX_WINDOWS}
           s == sorted(f)
<1>0. window_count(f) = n
  BY StackSize
<1>1. /\ n \in Nat /\ n <= MAX_WINDOWS /\ MAX_WINDOWS \in Nat
      /\ \A w \in DOMAIN f : f[w].z_index \in 1..n
      /\ \A w, v \in DOMAIN f : f[w].z_index = f[v].z_index => w = v
      /\ \A w, v \in DOMAIN f : f[w].is_focused /\ f[v].is_focused => w = v
      /\ \A k \in 1..n : \E w \in DOMAIN f : f[w].z_index = k
  BY WindowsAssumption DEF Stacked
<1>2. s = [i \in 1..n |-> IF at(i) = {} THEN 0 ELSE CHOOSE w \in at(i) : \A v \in at(i) : v <= w]
  BY <1>0 DEF sorted
<1>3. ASSUME NEW i \in 1..n PROVE s[i] \in DOMAIN f /\ f[s[i]].z_index = i
  <2>1. PICK w \in DOMAIN f : f[w].z_index = i
    BY <1>1
  <2>2. at(i) = {w}
    BY <1>1, <2>1
  <2>3. w <= w
    BY <2>1
  <2>4. s[i] = CHOOSE x \in at(i) : \A v \in at(i) : v <= x
    BY <1>2, <2>2
  <2>5. s[i] \in at(i)
    <3> HIDE DEF at, s
    <3> QED
      BY <2>2, <2>3, <2>4
  <2> QED
    BY <2>1, <2>2, <2>5
<1> HIDE DEF s
<1>4. s \in [1..n -> DOMAIN f]
  BY <1>2, <1>3
<1>5. ASSUME NEW w \in DOMAIN f PROVE \E i \in 1..n : s[i] = w
  BY <1>1, <1>3
<1>6. \A i, j \in 1..n : s[i] = s[j] => i = j
  BY <1>3
<1>7. Slots(f, n, s)
  BY <1>1, <1>4, <1>5, <1>6 DEF Slots
<1> QED
  BY <1>7 DEF s

LEMMA HoleExists ==
    ASSUME NEW f, NEW n, NEW s, Slots(f, n, s), \A w \in DOMAIN f : f[w].is_focused \in BOOLEAN
    PROVE  \E p : Hole(f, n, s, p)
<1>1. /\ n \in Nat /\ s \in [1..n -> DOMAIN f]
      /\ \A i, j \in 1..n : s[i] = s[j] => i = j
      /\ \A w, v \in DOMAIN f : f[w].is_focused /\ f[v].is_focused => w = v
  BY DEF Slots
<1>2. CASE \E p \in 1..n : f[s[p]].is_focused
  <2>1. PICK p \in 1..n : f[s[p]].is_focused
    BY <1>2
  <2>2. \A i \in 1..n : f[s[i]].is_focused <=> i = p
    BY <1>1, <2>1
  <2>3. p \in 1..(n + 1)
    BY <1>1
  <2> QED
    BY <2>2, <2>3 DEF Hole
<1>3. CASE ~\E p \in 1..n : f[s[p]].is_focused
  <2>1. n + 1 \in 1..(n + 1) /\ \A i \in 1..n : i # n + 1
    BY <1>1
  <2>2. \A i \in 1..n : f[s[i]].is_focused <=> i = n + 1
    BY <1>1, <1>3, <2>1
  <2> QED
    BY <2>1, <2>2 DEF Hole
<1> QED
  BY <1>2, <1>3

\* The slots drawn after k turns of the loop, when p is skipped.
Others(s, p, k) == [i \in 1..(IF k < p THEN k ELSE k - 1) |-> s[IF i < p THEN i ELSE i + 1]]

Turn(s, p, k) == [drawn |-> Others(s, p, k), focused |-> IF k < p THEN 0 ELSE s[p]]

\* One turn of the loop, from what the loop g says of the one before.
Body(f, s, g, k) ==
    IF k = 0 THEN [drawn |-> << >>, focused |-> 0]
    ELSE IF s[k] = 0 \/ f[s[k]].is_focused THEN [drawn |-> g[k - 1].drawn, focused |-> s[k]]
    ELSE [drawn |-> Append(g[k - 1].drawn, s[k]), focused |-> g[k - 1].focused]

LEMMA OthersSeq ==
    ASSUME NEW f, NEW n, NEW s, Slots(f, n, s), NEW p, Hole(f, n, s, p), NEW k \in 0..n
    PROVE  /\ Others(s, p, k) \in Seq(DOMAIN f)
           /\ Len(Others(s, p, k)) = IF k < p THEN k ELSE k - 1
<1> DEFINE m == IF k < p THEN k ELSE k - 1
           S == DOMAIN f
<1>1. n \in Nat /\ s \in [1..n -> S] /\ p \in 1..(n + 1)
  BY DEF Slots, Hole
<1>2. m \in Nat /\ \A i \in 1..m : (IF i < p THEN i ELSE i + 1) \in 1..n
  BY <1>1
<1> HIDE DEF m, S
<1> DEFINE e(i) == s[IF i < p THEN i ELSE i + 1]
<1>3. \A i \in 1..m : e(i) \in S
  BY <1>1, <1>2
<1>4. Others(s, p, k) = [i \in 1..m |-> e(i)]
  BY DEF Others, m
<1> HIDE DEF e
<1>5. Others(s, p, k) \in Seq(S) /\ Len(Others(s, p, k)) = m
  BY <1>2, <1>3, <1>4
<1> QED
  BY <1>5 DEF m, S

\* The turns satisfy the equation of the loop.
LEMMA TurnIsBody ==
    ASSUME NEW f, NEW n, NEW s, Slots(f, n, s), NEW p, Hole(f, n, s, p), NEW g, NEW k \in 0..n,
           k # 0 => g[k - 1] = Turn(s, p, k - 1)
    PROVE  Body(f, s, g, k) = Turn(s, p, k)
<1>1. /\ n \in Nat /\ s \in [1..n -> DOMAIN f] /\ p \in 1..(n + 1)
      /\ DOMAIN f \subseteq Nat \ {0} /\ \A i \in 1..n : f[s[i]].is_focused <=> i = p
  BY DEF Slots, Hole
<1> DEFINE D == DOMAIN f
<1>0. ASSUME NEW j \in 0..n
      PROVE  Others(s, p, j) \in Seq(D) /\ Len(Others(s, p, j)) = IF j < p THEN j ELSE j - 1
  BY OthersSeq
<1>2. CASE k = 0
  <2>1. Others(s, p, 0) \in Seq(D) /\ Len(Others(s, p, 0)) = 0 /\ 0 < p
    <3>1. 0 \in 0..n /\ 0 < p
      BY <1>1
    <3> QED
      BY <1>0, <3>1
  <2>2. Others(s, p, 0) = << >>
    BY <2>1
  <2> QED
    BY <1>2, <2>1, <2>2 DEF Body, Turn
<1>3. CASE k # 0 /\ k = p
  <2>1. k - 1 < p /\ ~(k < p) /\ k \in 1..n
    BY <1>1, <1>3
  <2>2. Others(s, p, k - 1) = Others(s, p, k)
    BY <2>1 DEF Others
  <2>3. f[s[k]].is_focused
    BY <1>1, <1>3, <2>1
  <2>4. g[k - 1].drawn = Others(s, p, k - 1)
    BY <1>3 DEF Turn
  <2>5. Body(f, s, g, k) = [drawn |-> g[k - 1].drawn, focused |-> s[k]]
    BY <1>3, <2>3 DEF Body
  <2> QED
    BY <1>3, <2>1, <2>2, <2>4, <2>5 DEF Turn
<1>4. CASE k # 0 /\ k # p
  <2>1. k \in 1..n /\ s[k] \in DOMAIN f /\ s[k] # 0 /\ ~f[s[k]].is_focused
    BY <1>1, <1>4
  <2>2. Body(f, s, g, k) = [drawn |-> Append(Others(s, p, k - 1), s[k]),
                            focused |-> IF k - 1 < p THEN 0 ELSE s[p]]
    <3>1. /\ g[k - 1].drawn = Others(s, p, k - 1)
          /\ g[k - 1].focused = IF k - 1 < p THEN 0 ELSE s[p]
      BY <1>4 DEF Turn
    <3> QED
      BY <1>4, <2>1, <3>1 DEF Body
  <2>3. k < p <=> k - 1 < p
    BY <1>1, <1>4
  <2>4. Append(Others(s, p, k - 1), s[k]) = Others(s, p, k)
    <3> DEFINE m == IF k - 1 < p THEN k - 1 ELSE k - 1 - 1
               a == Others(s, p, k - 1)
               b == Others(s, p, k)
    <3>1. k - 1 \in 0..n /\ m \in Nat /\ (IF k < p THEN k ELSE k - 1) = m + 1
      BY <1>1, <1>4, <2>3
    <3>2. /\ a \in Seq(D) /\ Len(a) = m
          /\ b \in Seq(D) /\ Len(b) = m + 1
      BY <1>0, <3>1
    <3>3. \A i \in 1..m : a[i] = b[i]
      BY <3>1 DEF Others
    <3>4. b[m + 1] = s[k]
      <4>1. (IF m + 1 < p THEN m + 1 ELSE m + 1 + 1) = k /\ m + 1 \in 1..(m + 1)
        BY <1>1, <1>4, <3>1
      <4> QED
        BY <3>1, <4>1 DEF Others
    <3> HIDE DEF a, b, m
    <3>5. /\ Append(a, s[k]) \in Seq(D) /\ Len(Append(a, s[k])) = m + 1
          /\ \A i \in 1..m : Append(a, s[k])[i] = a[i]
          /\ Append(a, s[k])[m + 1] = s[k]
      BY <2>1, <3>2, AppendProperties
    <3>6. \A i \in 1..(m + 1) : Append(a, s[k])[i] = b[i]
      BY <3>1, <3>3, <3>4, <3>5
    <3>7. Append(a, s[k]) = b
      BY <3>2, <3>5, <3>6, SeqEqual
    <3> QED
      BY <3>7 DEF a, b
  <2> QED
    BY <2>2, <2>3, <2>4 DEF Turn
<1> QED
  BY <1>2, <1>3, <1>4

LEMMA LoopIs ==
    ASSUME NEW f, NEW n, n = window_count(f), Slots(f, n, sorted(f)),
           NEW p, Hole(f, n, sorted(f), p)
    PROVE  drawing(f) = Turn(sorted(f), p, n)
<1> DEFINE s == sorted(f)
           G == CHOOSE g : g = [k \in 0..n |-> Body(f, s, g, k)]
           T == [k \in 0..n |-> Turn(s, p, k)]
<1>1. n \in Nat
  BY DEF Slots
<1>2. drawing(f) = G[n]
  BY DEF drawing, Body
<1> HIDE DEF s
<1>3. T = [k \in 0..n |-> Body(f, s, T, k)]
  <2>1. ASSUME NEW k \in 0..n PROVE Turn(s, p, k) = Body(f, s, T, k)
    <3>1. k # 0 => k - 1 \in 0..n
      BY <1>1
    <3>2. k # 0 => T[k - 1] = Turn(s, p, k - 1)
      BY <3>1
    <3> HIDE DEF T
    <3> QED
      BY <3>2, TurnIsBody DEF s
  <2> QED
    BY <2>1
<1>4. G = [k \in 0..n |-> Body(f, s, G, k)]
  <2> HIDE DEF T
  <2> QED
    BY <1>3
<1> HIDE DEF G, T
<1> DEFINE S == {k \in 0..n : G[k] = Turn(s, p, k)}
<1>5. 0 \in S
  <2>1. Body(f, s, G, 0) = Turn(s, p, 0)
    BY <1>1, TurnIsBody DEF s
  <2> QED
    BY <1>1, <1>4, <2>1
<1>6. ASSUME NEW i \in 0..(n - 1), i \in S PROVE i + 1 \in S
  <2>1. i + 1 \in 0..n /\ i + 1 - 1 = i
    BY <1>1
  <2>2. Body(f, s, G, i + 1) = Turn(s, p, i + 1)
    BY <1>6, <2>1, TurnIsBody DEF s
  <2> QED
    BY <1>4, <2>1, <2>2
<1>7. 0..n \subseteq S
  <2> HIDE DEF S
  <2> QED
    BY <1>1, <1>5, <1>6, Interval
<1> QED
  BY <1>1, <1>2, <1>7 DEF s

LEMMA AllDrawn ==
    ASSUME IInv, window_count(win) <= MAX_WINDOWS
    PROVE  LET c == wm_composite(win)
           IN  /\ \A i \in DOMAIN sorted(win) : sorted(win)[i] # 0
               /\ Len(c) = window_count(win)
               /\ {c[i] : i \in DOMAIN c} = DOMAIN win
               /\ \A w \in DOMAIN win : win[w].is_focused => c[Len(c)] = w
<1> DEFINE n == window_count(win)
           s == sorted(win)
           D == DOMAIN win
           c == wm_composite(win)
<1>1. /\ Stacked(win, window_z_index) /\ DOMAIN win \subseteq Nat \ {0}
      /\ \A w \in DOMAIN win : win[w].is_focused \in BOOLEAN
  BY IInvSplit DEF IInv, TypeOK, Window
<1>2. n = window_z_index - 1
  BY <1>1, StackSize
<1>3. Slots(win, n, s)
  BY <1>1, <1>2, SortedOK
<1>4. PICK p : Hole(win, n, s, p)
  BY <1>1, <1>3, HoleExists
<1>5. drawing(win) = Turn(s, p, n)
  BY <1>3, <1>4, LoopIs
<1>6. /\ n \in Nat /\ s \in [1..n -> D] /\ p \in 1..(n + 1)
      /\ \A w \in D : \E i \in 1..n : s[i] = w
      /\ \A i \in 1..n : win[s[i]].is_focused <=> i = p
      /\ 0 \notin D
  BY <1>1, <1>3, <1>4 DEF Slots, Hole
<1>7. Others(s, p, n) \in Seq(D) /\ Len(Others(s, p, n)) = IF n < p THEN n ELSE n - 1
  BY <1>3, <1>4, <1>6, OthersSeq
<1>8. c = IF (IF n < p THEN 0 ELSE s[p]) = 0 THEN Others(s, p, n)
          ELSE Append(Others(s, p, n), IF n < p THEN 0 ELSE s[p])
  BY <1>5 DEF wm_composite, Turn
<1> HIDE DEF n, s, D, c
<1>9. /\ c \in Seq(D) /\ Len(c) = n
      /\ \A i \in 1..n : c[i] = IF i < p THEN s[i] ELSE IF i < n THEN s[i + 1] ELSE s[p]
  <2>1. CASE n < p
    <3>1. c = Others(s, p, n) /\ p = n + 1
      BY <1>6, <1>8, <2>1
    <3>2. \A i \in 1..n : c[i] = s[i] /\ i < p
      BY <1>6, <2>1, <3>1 DEF Others
    <3> QED
      BY <1>6, <1>7, <2>1, <3>1, <3>2
  <2>2. CASE ~(n < p)
    <3>1. p \in 1..n /\ s[p] \in D /\ s[p] # 0
      BY <1>6, <2>2
    <3>2. c = Append(Others(s, p, n), s[p])
      BY <1>8, <2>2, <3>1
    <3>3. n - 1 \in Nat /\ Len(Others(s, p, n)) = n - 1
      BY <1>6, <1>7, <2>2, <3>1
    <3>4. /\ c \in Seq(D) /\ Len(c) = n - 1 + 1
          /\ \A i \in 1..(n - 1) : c[i] = Others(s, p, n)[i]
          /\ c[n - 1 + 1] = s[p]
      BY <1>7, <3>1, <3>2, <3>3, AppendProperties
    <3>5. \A i \in 1..(n - 1) : Others(s, p, n)[i] = IF i < p THEN s[i] ELSE s[i + 1]
      BY <1>6, <2>2 DEF Others
    <3>6. n - 1 + 1 = n
      BY <1>6
    <3>7. ASSUME NEW i \in 1..n
          PROVE  c[i] = IF i < p THEN s[i] ELSE IF i < n THEN s[i + 1] ELSE s[p]
      <4>1. CASE i = n
        BY <1>6, <2>2, <3>1, <3>4, <3>6, <4>1
      <4>2. CASE i # n
        <5>1. i \in 1..(n - 1) /\ i < n
          BY <1>6, <4>2
        <5> QED
          BY <3>4, <3>5, <5>1
      <4> QED
        BY <4>1, <4>2
    <3> QED
      BY <3>4, <3>6, <3>7
  <2> QED
    BY <2>1, <2>2
<1>10. DOMAIN c = 1..n /\ \A i \in 1..n : c[i] \in D
  BY <1>9, LenProperties, ElementOfSeq
<1>11. ASSUME NEW w \in D PROVE \E i \in 1..n : c[i] = w
  <2>1. PICK j \in 1..n : s[j] = w
    BY <1>6
  <2>2. CASE j < p
    BY <1>9, <2>1, <2>2
  <2>3. CASE j = p
    <3>1. n \in 1..n /\ ~(n < p) /\ ~(n < n)
      BY <1>6, <2>1, <2>3
    <3> QED
      BY <1>9, <2>1, <2>3, <3>1
  <2>4. CASE j > p
    <3>1. j - 1 \in 1..n /\ ~(j - 1 < p) /\ j - 1 < n /\ j - 1 + 1 = j
      BY <1>6, <2>1, <2>4
    <3> QED
      BY <1>9, <2>1, <3>1
  <2> QED
    BY <1>6, <2>1, <2>2, <2>3, <2>4
<1>12. ASSUME NEW w \in D, win[w].is_focused PROVE c[n] = w
  <2>1. PICK j \in 1..n : s[j] = w
    BY <1>6
  <2>2. j = p /\ n \in 1..n /\ ~(n < p) /\ ~(n < n)
    BY <1>6, <1>12, <2>1
  <2> QED
    BY <1>9, <2>1, <2>2
<1>13. DOMAIN s = 1..n /\ \A i \in 1..n : s[i] # 0
  BY <1>6
<1>14. {c[i] : i \in DOMAIN c} = D
  BY <1>10, <1>11
<1> QED
  BY <1>9, <1>12, <1>13, <1>14 DEF n, s, D, c

\* As long as the windows fit sorted[], wm_composite meets no NULL slot, draws
\* each window once and the focused one last.
THEOREM CompositorComplete == Spec => []EveryWindowDrawn
<1>1. IInv => EveryWindowDrawn
  BY AllDrawn DEF EveryWindowDrawn
<1> QED
  BY <1>1, Inductive, PTL
=============================================================================
