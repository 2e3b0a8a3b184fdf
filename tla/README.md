# AdamOS in TLA+

AdamOS is a 32-bit x86 operating system: a boot loader, a kernel with a
preemptive scheduler, paging, a FAT16 file system, a window manager, and user
programs that reach the kernel through `int 0x80`. This directory models the
parts of the kernel that keep state over many calls and interrupts, checks them
with TLC on small instances, and proves with TLAPS, for every value of the
constants, every safety property that a passing run checks (section 4). All paths below
are relative to `src/`.

`PROJECT.json` maps every definition to the lines it models, and lists the runs,
the mutants that show each property can fail, the hazards, the findings and the
theorems.

## 1. The system

### How it runs

There is one CPU. User code runs in ring 3 with interrupts enabled. The kernel
is entered by the timer (IRQ 0, 100 Hz), the keyboard (IRQ 1), the mouse
(IRQ 12) and by system calls. Gates clear the interrupt flag, so **a handler is
atomic with respect to the other handlers**; what interleaves is the order of
handlers, and the process that a handler returns to. Two places break this:
`create_page_table` ends in `sti` (`kernel/page-table.c:49`), which leaves
interrupts enabled for the rest of an `exec` or `sbrk`, and start-up enables
interrupts before everything is initialised (`kernel/kernel.c:52`). Neither
window is in a module (section 7).

A power failure can come between any two instructions. It matters where state
outlives it: on disk, between two sector writes.

### Components

| Component | State | Operations | What makes it correct |
|---|---|---|---|
| Scheduler (`kernel/scheduler.c`, `process-control-block.c`) | list of PCBs, `current_process`, quantum, `foreground_pid` | tick, exit, fork, kill, waitpid, sleep, Ctrl+C | the list links exactly the live PCBs; some process can always run; no orphan; nobody starves; waits end when they should |
| Stdin and keyboard (`kernel/stdin.c`, `drivers/keyboard.c`) | ring of characters, one wait-queue slot, modifiers | key, read, write to fd 0, Ctrl+C | reads return what was typed; a blocked reader returns |
| Event queue (`kernel/event.c`) | ring per window | push, pop | a bounded FIFO |
| Window manager (`kernel/window.c`) | list of windows, z order, focus, drag, pixel buffers | create, destroy, click, close, drag, draw, composite | z order is a permutation; one focus; every window drawn; events reach the focused window |
| Screen (`drivers/vga-graphics.c`, `lib/status-bar.c`) | back buffer, dirty rows, frame buffer | rectangle, text, clipped copy, flip | the screen shows what the windows and the programs have drawn |
| Kernel heap (`kernel/kmalloc.c`) | list of blocks | kmalloc, kfree | blocks do not overlap, nothing is handed out twice |
| FAT16 (`lib/fat16.c`) | FAT, root directory, clusters on disk | find, read, create | no cross-links; an entry is complete; a crash loses little |
| File descriptors (`cpu/syscall.c`, `kernel/fdh.h`) | table per process, buffers | open, read, write, close, removal | buffers are released once; a write touches its own file |
| Frames and paging (`kernel/frame.c`, `page-table.c`) | bitmap, page directories | allocate, map, fork's copy, exec, sbrk | frames have one owner; address spaces are separate |
| Mouse (`drivers/mouse.c`) | 3-byte packet, position, buttons | IRQ 12 | packets stay in step; the pointer stays on the screen |
| Terminal (`drivers/terminal.c`) | cells, cursor, erase floor, glyphs in its window | print, scroll, erase, clear | the user sees the line the program will read; writes stay in the buffer |
| Tetris (`user-space/programs/tetris.c`) | board, piece, score, shadow of the picture | keys, gravity, clearing, drawing | pieces fit and land; no full row stays; the picture is the game |
| User library and programs (`user-space/`) | heap; each program's own | malloc; shell, bf, calculator, obj_viewer | each program's rules |
| Boot, GDT/IDT/PIC, exceptions, font, ATA, desktop icons | hardware tables | - | not the subject of a state-machine model (section 7) |

Interactions: the timer handler calls `update_scheduler`, then `update_window`,
then `wm_composite`. The keyboard handler writes the stdin ring or the focused
window's event queue, and may wake the reader. Ctrl+C empties the ring, marks
the foreground process ZOMBIE and removes its windows. System calls act on
`current_process`; the blocking ones end in `update_scheduler`. Drawing calls
write to a window's pixel buffer, which the next tick composes and flips through
the address space of whichever process is current. Keys and output meet in the
terminal. Every process costs page frames, which its removal gives back. Windows,
descriptors, PCBs and kernel stacks are all blocks of the kernel heap.

What is hard to test: the order of exits, kills, waits and keys against the
round robin; state that survives its use (`waiting_pid`, the wait-queue slot);
ring indices at their wrap; counters at their limit; unsigned subtraction;
crashes between disk writes. `PROJECT.json` lists the hazards line by line.

## 2. Modules

| Module | Models | Notes |
|---|---|---|
| `Scheduler` | scheduler, timer, blocking calls, keys as they affect processes | one action per handler; operators keep the names of the C functions |
| `SchedulerProofs` | proofs about `Scheduler` | |
| `BoundedFifo` | abstract specification of an event queue | |
| `EventQueue` | `event.c` | refines `BoundedFifo` |
| `Windows` | `window.c` and the handlers that reach it | uses the size of an event queue only; `EventQueue` has the contents |
| `WindowsProofs` | proofs about `Windows` | the compositor's loop included |
| `Kmalloc` | `kmalloc.c` | sizes wrap modulo `WORD` |
| `Stdin` | `stdin.c`, `keyboard.c` | the ring's indices and contents; history variables hold what the user meant |
| `StdinProofs` | proofs about `Stdin` | |
| `Fat16` | `fat16.c` | one step per disk write, a crash between any two |
| `Files`, `MCFiles` | `open`, `read`, `write`, `close` | extends `Fat16`; `MCFiles` has the names of the instance |
| `FilesProofs` | proofs about `Files`, and so about `Fat16` | |
| `Paging` | `frame.c`, `page-table.c`, and fork, exec, sbrk, removal as they use them | one step per frame |
| `MemoryProofs` | proofs about `Paging` and about `Kmalloc` | the definitions of `Kmalloc` begin with `Heap` where `Paging` has the plain name |
| `Terminal` | `terminal.c`, the echo of `stdin.c`, write to fd 1, the `^C` of Ctrl+C | the line typed is an abstract sequence, which `Stdin` shows the ring to hold |
| `TerminalProofs` | proofs about `Terminal` | |
| `Graphics`, `MCGraphics` | drawing calls, windows at their places, compositor, `vga-graphics.c` | `MCGraphics` gives the windows and places of the instance; the stacking order is a sequence, which `Windows` shows the `z_index`es to be |
| `DesktopProofs` | proofs about `EventQueue`, refinement included, and about `Graphics` | definitions that both would have begin with `Screen` in `Graphics` |
| `Tetris` | `tetris.c` | |
| `TetrisProofs` | proofs about `Tetris` | |

A TLA+ definition with the name of a C function is that function; variables
keep the names of the C globals. A definition named `X_Something` right before
`X` is a mutant: `X` as a plausible bug would have it. No specification uses it.

A loop of the code that the proofs are about is a function from the number of turns to
what the loop has then computed, local to the operator with the name of the C
function (`coalesce_blocks`, `draw_windows`, `fat16_read_folder`, `terminal_print`) or to a
part of it (`drawing` of `wm_composite`, `Chain` of `fat16_read_file`, `Kept` of `clear_rows`): a recursive operator
could not be reasoned about.

**Scheduler.** `pcb` maps the pids of allocated PCBs to the fields the scheduler
reads; `queue` is the list from `scheduler_head_ptr`. `update_scheduler(P)`
takes the PCBs as its caller left them, as the C function does, and has its
three outcomes: the process keeps the CPU, a ZOMBIE is reaped (wake, switch,
unlink, reparent), or the process is preempted. System calls may be made by any
process but idle, which is `while (1);`. Undefined behaviour is a choice:
`kill` of an absent pid reads an uninitialised pointer (`KillAbsent`), and waking
a reader that was freed writes into memory that may belong to a newer process,
or faults (`stdin_wake_process`). After a fault the machine stops (`halted`).
The ring is reduced to its count, so a backspace takes one character or none.
`waits` is the call whose registers `update_scheduler` saved when it blocked a
process: it says what the process is waiting for, where `waiting_pid`,
`sleep_ticks` and the wait queue also keep what earlier calls have left.

**Stdin.** The ring as the code has it. Two kinds of write put indices and count
out of step: a backspace at `write_index` 0, and a write into a full ring.
`skewed` records that one has happened, `bypassed` that a write did not wake a
waiting reader; `line` is what was typed, not erased and
not read. A key that stores nothing, because it has no character or is meant for
another window, still runs the check that wakes the reader, and a full ring
drops those keys too. The window and process side of a key is in `Windows` and `Scheduler`.

**Windows.** Positions are dropped: which windows lie under the pointer and which
part of the topmost one is hit are inputs of a click, so every layout is covered.
`remove_window_process` is a loop over a list it changes, one step per turn.

**Kmalloc.** Blocks in list order with their addresses. When the subtraction in
`split_block` wraps, a header is written over the next block; what the list is
after that is undefined, so the model stops (`corrupt`). `live` is what callers hold.

**Fat16 and Files.** Sizes count sectors. A creation is a sequence of steps with
one disk write each, since `ata_write_sector` flushes; only a crash can come
between. `given` and `cut` are history variables. A name is what the program
passes, letters with their case in parts between dots; `fat16_format_name` keeps
the first part and the second, cut to the letters there is room for, so that
different names are stored alike. (A part longer than its array runs over the
stack; what that destroys is left out.) The FAT has entries for clusters beyond
the end of the disk, which `fat16_alloc_cluster` gives out like any other; the
drive drops what is written there. `Chain` follows an entry that says free to
cluster 0, as the loop does, and stops only at an end mark. `open` takes two
blocks of the kernel heap and copies a file into one, or waits for ever for a
sector the disk does not have (`Hung`); without a free descriptor it releases
both. `write` changes the buffer and rewrites the first cluster.

**Paging.** An address space is a function from entries (the directory, and the
tables and pages of code, heap, stack and frame buffer) to frames. The kernel
half, shared by all, is part of the frames start-up took. A call that allocates
is a job: the set of entries it still has to fill, which `map_page` fills in the
order of the code, the frame of a first page before or after that of its table.
`allocate_frame` answers 0 when memory is full, and the model goes on as the
code does. `Faults` says when the kernel writes through memory it has not
mapped, or a table in frame 0 is about to be overwritten: there the model stops
(`halted`). `exec` clears the old program first, and `scheduler_remove` frees what
`clear_page_directory` frees and forgets the rest.

**Terminal.** `buffer` has the cells and, behind them, those a tab can reach.
`shown` is what each cell of the window shows, since the last rows are never
blanked. Nothing clears the buffer at the start, so it may hold anything; every
character is rendered before the next, which matters where the rows are not
blanked. Ctrl+C prints three characters without moving `cursor_floor`, and a
write moves it even if it has none. `line` is what was typed and neither read nor
erased; `apart` records that screen and line have come apart in a way that
`Unfaithful`, `sigint_foreground` or output over a typed line names.

**Graphics.** `order` has the windows there are. A timer interrupt is two steps
with nothing between them: `update_window` drags, and raises, focuses or closes
the window under a press, then `timer_handler_main` composes. Which window a
press meets is an input, and so is whether it meets its title bar. A window that
is created lies above the focused one, which is drawn last all the same. A tick builds the back buffer from nothing (clear, windows from the
bottom, focused last, status bar, cursor) and flips the dirty rows, so that the back
buffer is an operator and not a variable. Dirty rows are unsigned, modulo `WORD`.
The flip goes to the device or, when a forked process is current, to the private
copy that `Paging` shows fork to make. `drawn` holds what programs asked for in
the coordinates of their window, against which the buffer with its header rows is compared.

**Tetris.** One step per event taken from the queue, and one for the rest of a turn
of the main loop. The bit patterns of the pieces are the source's; the board is a
sequence of rows. `window` and `numbers` are what the window shows, `display` and
`sidebar` the shadow of what the program has drawn; `render` changes the former
only where the latter differs from the game, and writes "GAME OVER" over whatever
is there. A game that is over stays over: the program has no restart. Other texts
and the colours are left out, the generator is a free choice.

## 3. Runs

### Passing

| Run | Checks |
|---|---|
| `scheduler_safety` | the type invariant; `ListMatchesPCBs`; `NextProcessFinds` (the error loop of `next_process` is unreachable); `ParentsAlive` (no orphan, no cycle); `ResumedByOwnCall` (a blocked process goes on only in the step that ends the very call it is blocked in, unless an earlier call has left something over for it); `ZombiesOffCPU` (exit and kill, of the foreground process too, leave nothing for the round robin to bring back; only the Ctrl+C step does) |
| `scheduler_live` | `RunnableGetsCPU`, `ZombieReaped`, `SleeperWakes` |
| `event_queue` | `IndicesAgree`, and the refinement `ImplementsFifo` |
| `windows` | the type invariant, `ZOrder`, `OneFocused`, `EveryWindowDrawn`, `EventsToFocused` (only the focused window gets events, and only its own poll takes any), `ForegroundWindowsGone`, and `ReleaseEndsDrag` under fairness |
| `kmalloc` | `BlocksDisjoint`, `AllocationsIntact`, `FreeBlocksMerged`, until a subtraction wraps |
| `stdin` | `RingIsLine`: the ring is the line typed, over all wraps, until a skewing write; `ReaderNeedsMore`, as long as no write passes the reader by; `BlockedReadReturns`, unless the ring fills up under a read longer than the ring or one that was passed by |
| `paging` | `FramesOwned`: a frame in use is marked and has one owner, also when memory is full; `LeaksOnlyThere`: frames are lost for good by a removal (directory, copied frame buffer) and the first sbrk of a child, nowhere else; `ForkCopiesAll` |
| `terminal` | `EchoIsLine`: what was typed and not read stands before the cursor, erasable and visible, after outputs, keys and Ctrl+C in any order; `WritesInside` |
| `graphics` | `ScreenShows`: a tick that reaches the device leaves every pixel the picture of windows, order, focus, drawings and pointer until one of them changes, unless a window sticks out at the top |
| `tetris` | `PieceFits`, `RowsCleared`, `PictureTrue` (drawing by differences to a shadow), and `PiecesLand` under fairness |
| `files` | with a crash at any step: `NoCrossLinks`, `EntriesComplete`, `EntriesListed`, `LosesOnePerCut`, `BuffersOwned` (also when no descriptor is free), `WritesOwnFile` (no sector but those of the file's first cluster) |

### Violations: what the repository says and the code does not do

| Run | Statement | What the code does |
|---|---|---|
| `scheduler_waitpid` | "Block until child exits" | a child that exits before the call is waited for for ever |

Smaller disagreements met while modelling have no run of their own. A blocking
call of another process counts as a tick of a `sleep` (`scheduler.c:146`).
A read longer than the ring (`syscall.c:181`), or Shift+Enter (`keyboard.c:44`),
can fill the ring under a blocked reader, after which every key is dropped,
those for other windows too (`keyboard.c:77`). `create` and `write` store one cluster of a
longer file and report all of it (`fat16.c:269`, `syscall.c:48`). The focused
window is drawn over a newer one that lies above it and gets the clicks
(`window.c:145`). A wrapped size
makes a free heap block that reaches beyond the heap (`kmalloc.c:14`). A backspace at
`write_index` 0 does not step back: the erased character is read (`stdin.c:13`).
`create` reports success in a full root directory, where it writes no entry
(`fat16.c:257`). A file whose cluster lies beyond the end of the disk is reported
as created, its data is lost, and `open` of it hangs (`fat16.c:208`). A second
name that is stored like a first one makes a file that no search finds
(`fat16.c:40`).

No handler clears `waiting_pid`, and nothing clears `sleep_ticks` or the wait
queue when a call ends another way. What is left over (`LeftOver`) resumes a later
call early, although `README.md:63` and `66` have it block. Main waits for 3; 3
exits, and `reparent_children` hands main over to 4, a child of 3
(`scheduler.c:236`); main then sleeps, or reads, and the exit of 4 resumes it. A
process whose sleep was ended by a child's exit takes the rest of its ticks into
its next `waitpid`, which they end (`scheduler.c:146`). `ResumedByOwnCall` shows
that nothing else does this. A process that Ctrl+C marks while another one runs is
not reaped: `next_process` takes it for runnable, `update_scheduler` sets it
RUNNING again and it lives on, its windows gone (`scheduler.c:275`).

A window dragged over the upper edge freezes the whole screen (`vga-graphics.c:26`).
The screen of a forked process is a copy nobody sees, so that ticks that find it
current change nothing (`page-table.c:82`). Clearing the terminal leaves its
bottom rows (`terminal.c:27`); scrolling leaves `cursor_floor`, and even an erase
scrolls (`terminal.c:41`), and so does the `^C` of Ctrl+C, after which the cursor
may stand before the floor (`scheduler.c:260`); a tab in the last cells writes behind the buffer and a
scroll reads one cell behind it (`terminal.c:65`, `46`). In Tetris the cells of a
piece that lands above the board are lost and the game goes on if the next piece fits
(`tetris.c:84`). The user's `malloc` stops its search at the first block that is free or too
small, and hands out blocks in use (`user-space/lib/malloc.c:39`).

### Bounds

Bounds are constants named in the modules (`MaxPid`, `MaxSleep`, `MaxId`,
`MaxSectors`, ...) and guards marked as bounds.

- *Scheduler.* Two forked processes besides idle and main let one process wait
  for, kill, or outlive another while a third is scheduled, and one be the parent
  of the other; the theorems cover larger trees. A quantum of 2 gives both
  outcomes of the quantum test. A ring of one character is full or empty, and a read of two
  blocks on either. Sleeps of up to four ticks outlast a call and leave ticks over
  for the next. The uninitialised pointer of `kill` yields no process or process 3
  (`Garbage`). Pids are not reused by the code (`pid_static` only grows) nor by the model.
- *Event queue.* Four slots and three events: full, empty and wrapped rings.
- *Windows.* Three windows ever, two array slots: the array is filled and exceeded.
  A queue of one event is full or empty.
- *Heap.* 34 units with a header of 2 and requests of 2, 3 and 8: up to eight blocks,
  splits, blocks given away whole, merges of three. All four outcomes of the
  split arithmetic occur, the wrapped one included.
- *Stdin.* Three slots; reads of 1 to 4, the last longer than the ring; the
  indices wrap any number of times.
- *Fat16 and Files.* Two sectors per cluster; besides the two clusters of the
  image's file one that is free, and one the FAT has but the disk has not; three
  directory slots of which one may have been deleted: a creation can be cut at each
  of its writes, the next one gets the cluster beyond the disk, and the one after
  that finds the FAT full. Names of one letter and an extension of one, of which
  six inputs make two. Two processes with one descriptor each beyond the standard
  two open at the descriptor limit. Contents of one or two sectors; a read of four
  takes all of a file or what is left of it.
- *Paging.* 24 frames, 2 taken by start-up before main's own 6, 22 mapped by the
  kernel; one page of code, one of frame buffer, up to two of heap. Two children
  fill memory, so that frames beyond the mapping and frame 0 are handed out for pages,
  for tables and in the middle of a fork.
- *Terminal.* Two by two cells, the lower row not blanked, a tab stop of three:
  every write is at an edge, and a tab overruns the buffer. Three characters
  typed ahead, outputs of up to two, any contents of the buffer at the start.
- *Graphics.* A screen of 3 by 6 and up to two windows of 2 by 3, title bar included,
  interchangeable, at four places over the left, upper, right and lower edge and over each other; drawing
  calls that start outside the window, inside, and end outside.
- *Tetris.* A board of 4 by 3, two of the seven pieces (the bar and one of the
  corner pieces), one line per level, three lines.

Deadlock checking is off where the bound on a counter, a fault or a full disk
ends a behaviour.

### Fairness

- The timer interrupts at 100 Hz for ever and user code runs with interrupts
  enabled: `WF(timer_handler_main)` in `Scheduler`.
- In `Windows` the walk of `remove_window_process` is split into steps, which
  disables the tick meanwhile. A timer interrupt that arrives then stays pending in
  the PIC, with the highest priority: `SF(update_window)`. The walk is a loop of
  a handler: `WF(remove_window_process)`.
- Tetris's queue of events holds finitely many and is filled by interrupts only, so
  the loop that drains it ends and the main loop goes on: `WF(Turn)`.
- `stdin` assumes a user who keeps pressing Enter in the terminal while the ring
  has room and the process that runs is not a ZOMBIE: `WF` on that key. The property
  says what such a user gets.
- Nothing else is fair: programs may never call, users may never type.

## 4. Proofs

TLAPS proves the theorems below for every value of the constants, from the
assumptions named in the modules and nothing else. They ask for what the code
gives by its constants or what makes the model's inputs legal:

| Assumption | Says |
|---|---|
| `SchedulerAssumption`, `WindowsAssumption` | a quantum and a queue of at least one; pid arguments, clicks and bounds in their ranges |
| `EventQueueAssumption`, `StdinAssumption` | a ring of at least one slot; reads of at least one character (one of 0 returns at once and changes nothing); the special keys are no ordinary characters |
| `Fat16Assumption`, `FilesAssumption` | clusters on the disk for the image's file, and one more in the FAT at least; two directory slots, three descriptors; no block at address 0; a byte of a blank sector and the two marks of an entry are not data or names |
| `PagingAssumption`, `KmallocAssumption` | memory large enough for start-up; a header smaller than the heap; a word larger than the heap |
| `TerminalAssumption`, `TetrisAssumption` | at least one column and two rows, a tab of at least one; a board of at least one cell, pieces among the seven |
| `GraphicsAssumption` | positive sizes, coordinates far below a word; no window is dragged wholly above the screen; a title bar of two rows, and no title wider than its window, beyond whose edge the code would go on drawing it |

`MaxPid`, `MaxId`, `MaxSectors`, `MaxLine`, `MaxLines` and the other bounds of
section 3 stay, as arbitrary numbers.

| Theorem | Statement |
|---|---|
| `SchedulerProofs!TypeCorrect` | `Spec => []TypeOK` |
| `SchedulerProofs!ListCorrect` | `Spec => []ListMatchesPCBs` |
| `SchedulerProofs!SchedulerNeverStuck` | `Spec => [](NextProcessFinds /\ CurrentNotBlocked)` |
| `SchedulerProofs!NoOrphans` | `Spec => []ParentsAlive` |
| `SchedulerProofs!ResumeCorrect` | `Spec => ResumedByOwnCall` |
| `SchedulerProofs!NoZombieLeft` | `Spec => ZombiesOffCPU` |
| `DesktopProofs!IndicesCorrect` | `Spec => []IndicesAgree` |
| `DesktopProofs!RingImplementsFifo` | `Spec => ImplementsFifo` |
| `DesktopProofs!ScreenIsPicture` | `ScreenSpec => []ScreenShows` |
| `WindowsProofs!TypeCorrect` | `Spec => []TypeOK` |
| `WindowsProofs!StackIsPermutation` | `Spec => []ZOrder` |
| `WindowsProofs!FocusIsUnique` | `Spec => []OneFocused` |
| `WindowsProofs!CtrlCClosesAll` | `Spec => ForegroundWindowsGone` |
| `WindowsProofs!EventsReachFocus` | `Spec => EventsToFocused` |
| `WindowsProofs!CompositorComplete` | `Spec => []EveryWindowDrawn` |
| `StdinProofs!RingHoldsLine` | `Spec => []RingIsLine` |
| `StdinProofs!NoLateReader` | `Spec => []ReaderNeedsMore` |
| `MemoryProofs!TypeCorrect` | `Spec => []TypeOK` (of `Paging`) |
| `MemoryProofs!FramesHaveOneOwner` | `Spec => []FramesOwned` |
| `MemoryProofs!LeaksAreThese` | `Spec => LeaksOnlyThere` |
| `MemoryProofs!ForkIsComplete` | `Spec => ForkCopiesAll` |
| `MemoryProofs!HeapDisjoint` | `HeapSpec => []BlocksDisjoint` |
| `MemoryProofs!AllocationsKept` | `HeapSpec => []AllocationsIntact` |
| `MemoryProofs!NeighboursMerged` | `HeapSpec => []FreeBlocksMerged` |
| `FilesProofs!ChainsApart` | `FSpec => []NoCrossLinks` |
| `FilesProofs!FilesComplete` | `FSpec => []EntriesComplete` |
| `FilesProofs!NothingHidden` | `FSpec => []EntriesListed` |
| `FilesProofs!NothingElseLost` | `FSpec => []LosesOnePerCut` |
| `FilesProofs!NoBufferLeaks` | `FSpec => []BuffersOwned` |
| `FilesProofs!WritesStayInFile` | `FSpec => WritesOwnFile` |
| `TerminalProofs!ScreenIsLine` | `Spec => []EchoIsLine` |
| `TerminalProofs!StaysInBuffer` | `Spec => []WritesInside` |
| `TetrisProofs!PieceAlwaysFits` | `Spec => []PieceFits` |
| `TetrisProofs!RowsAlwaysCleared` | `Spec => []RowsCleared` |
| `TetrisProofs!PictureAlwaysTrue` | `Spec => []PictureTrue` |

*Loops.* The provers cannot use the library's induction theorems, which take an
operator. What a loop computes is proved nevertheless: the least-element lemma follows
from the well-foundedness of `<` on the naturals, and `Interval` from it, induction
stated of a set: what 0 has and each number passes on, all of `0..n` have. A local
function is some function that satisfies its equation, so each loop needs a lemma that there is
one (again by `Interval`), and a lemma that says what it holds after `k` turns.
`coalesce_blocks`, the compositor's `drawing` and `draw_windows`, `fat16_read_file`, `fat16_read_folder`,
`terminal_print` and `clear_rows` are proved about in this way, for lists of any length.

*Scheduler.* None of the invariants is inductive alone. `next_process` finds a
process because idle is on the list and not WAITING and because its loop is as
long as the list, which needs `ListMatchesPCBs`; idle stays runnable because the
process that blocks is `current` and idle makes no calls; `ParentsAlive` is kept by
a removal because the parent of the removed process is alive and older. The
inductive invariant `IInv` is the conjunction of the four properties and
`CurrentNotBlocked`; of `waits` it has only the type. The proof splits it into the part `update_scheduler` touches
(`Core`) and the rest, proves one lemma per helper (`NextProcessOK`, `WakeOK`,
`ReparentOK`, `UnlinkOK`, `RemovedOK`, ...), one for `update_scheduler`
(`UpdateOK`), and one per action. The two action properties follow from `IInv` and from
what each helper does to a status (`DecrementStatus`, `WakeStatus`, `RemovedStatus`,
`UpdateSteps`): a status leaves WAITING when ticks run out or a `waiting_pid` matches the process that
leaves (`ResumeCauses`), when a read is served (`ReaderSteps`) or by Ctrl+C (`SigintSteps`), and each is
the end of the process's own call or something `LeftOver` names.

*Event queue.* `IndicesAgree` is inductive; the work is in two lemmas about `%`
(`Wrap`, `WrapSlot`). The refinement maps the abstract queue to the `size` events from
`tail_index` on; `PushRefines` and `PopRefines` show a push is an append and a pop
takes the head.

*Windows.* `IInv` is `TypeOK /\ ZOrder /\ OneFocused`. The lemmas `RemoveOK` and
`RaiseOK` show that removing a window, or raising one, maps a permutation of 1..n to
one of 1..n-1, or 1..n. `ForegroundWindowsGone` needs `Swept`: the windows before the walk's
place belong to other processes, and nothing is inserted behind it. Both halves of `EventsToFocused` are proved
handler by handler as a relation between the windows before and after (`Routed`). For
`EveryWindowDrawn`, the sorted list fills every slot (`StackSize`, a counting argument from the
permutation), and the loop has drawn, after `k` turns, the first `k` slots without the focused one
(`TurnIsBody`, `LoopIs`).

*Graphics.* `ScreenInv` adds to the property the types, that the focused window is one of those
there are (`WithoutIs`: a removal takes no other window away), that a screen up to date means no window sticks
out, and `Buffered`: each pixel buffer holds at the index of a pixel what was drawn there, which needs that two pixels
of the contents never share an index (`IndexOK`) and that a rectangle's run of cells is its row
(`CellsDiffer`). Of the composition, `Whole` follows the back buffer through every drawing call: its dirty rows stay the entire screen,
which a window above the screen alone would break, so that the flip copies all (`FlipShows`). `RectWhole`,
`StringWhole` and `BlitWhole` say which pixels a call changes, `WindowWhole` that the calls of
`draw_window` make its `Face`. Over the loop, `Seen` says that a pixel shows the last of the first `k`
windows that covers it; with the focused one drawn last that is the window on top.

*Stdin.* `IInv` adds the types and `ReaderNeedsMore` to the property, stated as `Holds`: count, two
indices and the line agree and each slot from `read_index` on has its character. The `%` lemmas are
those of the event queue and `SlotsDiffer`. `ReaderNeedsMore` is part of it because a
key that completes a request is read in the same handler.

*Paging.* `TypeOK /\ FramesOwned` is inductive: a frame is taken only if its bit is
clear, so that it has no owner (`AllocateOK`, `FillOK`), and it is returned only
with all the entries of its one owner that held it (`ReleaseOK`). When memory is full `allocate_frame` answers
0, which is not a frame of RAM. `LeaksOnlyThere` needs more, `LInv`: a process without a
directory maps nothing (else a removal could lose what `Forgotten` does not name),
what start-up took is never a process's, and the entries a call has still to
fill are empty except in a heap (else a fork or an exec could map over a frame). One lemma per
action computes the frames that are owned afterwards, and from that the leak. After a fault
nothing moves, so `LInv` is only claimed before. `ForkCopiesAll` adds `Copying`: what the loop has
passed is copied, what it has not is still mapped by the parent.

*Heap.* `HeapInv` claims nothing once a header has been overwritten (`corrupt`), as the properties
do. Until then any two blocks, not only neighbours, are in order (`InOrder`, which neighbours
alone do not give when blocks are spliced), all end within the heap, no two free ones are neighbours, and each
pointer has its block (`Held`). `NoWrap` gives the difference its value when it does not wrap.
The walk of `coalesce_blocks` is followed by `Interval`: what it has built is
in order, merged but for what comes, and has every block in use of what it has passed.

*Files.* `Shape` says what the table and the directory can look like between two disk writes: the image's
file has two clusters and every later one has one, an entry owns its first cluster, no end mark lies before an
entry, the call under way owns the cluster it writes (`Creating`, `Writing`), and each
file whose first cluster is on the disk holds what it was given. `FdInv` is `BuffersOwned` with the types
of the descriptors: a new block is none that is allocated (`OwnerAdded`), a released one is no other
descriptor's (`OwnersRemoved`). `Writer` says that a write under way goes to the first cluster of its
descriptor, `LostInv` that the clusters no entry and no call owns are exactly one per `cut`. `EntriesListed` is
the walk of `fat16_read_folder` over a directory of this shape.

*Terminal.* `IInv` is `Good` (the cells behind the buffer have at most a tab's
spaces, the terminal shows one only at the start of a row) and, unless `apart`, `Echoed`: `EchoIsLine`
strengthened to all of the line after its last newline, and placed behind `cursor_floor`, which the erase
needs. `Shows` (the window shows at least what the buffer has) is claimed only while something is typed:
what the buffer held at the start comes into sight with the first character.
One lemma per operation of a character (`print`, erase, newline, tab, scroll), one that follows terminal and
window through the loop of a text (`Printed`), and one for the three characters of Ctrl+C (`InterruptPrinted`).

*Tetris.* `Sound` has types, `PieceFits` and no full row; `Shown` says that the
window is the shadow, but for the text of an ended game, and `Drawn` that the shadow is the game unless
something is dirty. A piece reaches over at most four rows and only those can be
full after it has landed, so that the table of points has an entry. That a slam
ends needs that every rotation of every piece has a cell (`SomeCell`): a piece below the board collides. The picture follows because
`render` leaves exactly the cells alone that already show what is wanted (`RedrawnIs`), for which the shadow
has to be right about all the others and an ended game has to stay ended.

Only model-checked: liveness (`RunnableGetsCPU`, `ZombieReaped`, `SleeperWakes`, `ReleaseEndsDrag`,
`BlockedReadReturns`, `PiecesLand`), which rests on fairness and ENABLED, out of this prover's reach;
and the counterexample of `scheduler_waitpid`.

## 5. Running

    tlc -config Scheduler_safety.cfg Scheduler
    tlapm SchedulerProofs.tla

Every run ends within three minutes; so does every module of proofs, but for
`FilesProofs` and `TerminalProofs`, which take a few.

## 6. Plan

Done: the scheduler, stdin, event queue, windows, heap, FAT16, descriptors, paging,
terminal, drawing, Tetris.

1. `Mouse`: the packet decoder, abstractly a sequence of packets with lost bytes.
2. The shell's job control over `Scheduler`'s calls; `Bf` (brackets match), the
   calculator; `string.c` and `obj.c` as operators against reference definitions.
3. Folder buffers and subdirectories in `Fat16` and `Files`.
4. Proofs: more of what
   the models compute for its own sake: that `collides` agrees with `Cells`, that a
   scroll moves the rows.

## 7. Not modelled

- The `sti` at the end of `create_page_table`. A tick inside `exec` or `sbrk` saves
  kernel registers as if they were the user's, and what runs next depends on the stack
  of the process switched to; no set of outcomes follows from the source.
- Boot, GDT, IDT, PIC, exceptions: tables written once; handlers that print and stop.
- The font table, lines and outlines drawn straight to the back buffer (nothing
  calls them), `screen-temp.c`, `sys_flush` (no effect).
- ATA polling: one sector per call is used; the status port is not.
- Desktop icons: never initialised, so the code has no effect.
- Running out of kernel heap inside another component's call, and of the kernel's own 8 MB
  (`Paging` stops there): callers use the result unchecked and fault.
- More than `MAX_WINDOWS` windows in the compositor: it reads beyond its array.
- Keys after the terminal's window has been closed: they read freed memory.
- Subdirectories and folder buffers, `open` of "/" among them; `close` of descriptors
  0 and 1; what a name longer than its arrays overwrites (`fat16.c:40`).
- The user's `malloc`: no property of an allocator holds of it (section 3).
- The mouse's packet decoder, the shell, bf, the calculator, obj_viewer, strings and
  `.obj` parsing: see the plan. `render.c` is floating point.
