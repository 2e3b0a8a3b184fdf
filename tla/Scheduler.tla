----------------------------- MODULE Scheduler -----------------------------
(***************************************************************************)
(* The process scheduler of AdamOS: the list of process control blocks,    *)
(* the timer-driven round robin, and every system call or key that changes *)
(* the status of a process.                                                *)
(*                                                                         *)
(*   kernel-space/kernel/scheduler.c             list, round robin, reaping *)
(*   kernel-space/kernel/process-control-block.c PCB creation              *)
(*   kernel-space/kernel/stdin.c                 blocking and waking reads *)
(*   kernel-space/cpu/syscall.c                  exit fork kill waitpid ... *)
(*   kernel-space/drivers/{timer,keyboard}.c     the interrupt handlers    *)
(*                                                                         *)
(* Interrupt and system-call gates clear the interrupt flag, and none of   *)
(* the calls modelled here sets it, so a handler is one atomic step;       *)
(* between two handlers the process `current' runs in user mode and may    *)
(* issue any call next.  exec and sbrk, which do set it (create_page_table *)
(* ends in `sti'), are not calls of this module, and neither is running    *)
(* out of kernel heap or page frames.  The stdin ring is abstracted to     *)
(* its count (module Stdin has its indices and its contents).              *)
(***************************************************************************)
EXTENDS Integers, Sequences, FiniteSets

CONSTANTS
    SCHEDULER_QUANTUM,        \* ticks a process keeps the CPU
    STANDARD_IN_BUFFER_SIZE,  \* capacity of the stdin ring
    MaxPid,                   \* bound: fork stops at this pid
    MaxSleep,                 \* bound: longest sleep
    PidArgs,                  \* pids that programs pass to kill and waitpid
    Garbage,                  \* bound: what an uninitialised pointer yields as a pid
    ReadLens,                 \* lengths that programs pass to read(0, ...)
    Calls,                    \* the system calls programs make
    Keys                      \* the keys the user presses

Idle == 1     \* idle.c, `while (1);': the first PCB created
Main == 2     \* main.c, which execs the shell: the head of the list
None == 0

ASSUME SchedulerAssumption ==
    /\ SCHEDULER_QUANTUM \in Nat \ {0}
    /\ STANDARD_IN_BUFFER_SIZE \in Nat \ {0}
    /\ MaxPid \in Nat /\ MaxPid >= 2
    /\ MaxSleep \in Nat \ {0}
    /\ PidArgs \subseteq 0..MaxPid
    /\ Garbage \subseteq 0..MaxPid
    /\ ReadLens \subseteq Nat \ {0}
    /\ Calls \subseteq {"exit", "fork", "kill", "waitpid", "sleep", "read"}
    /\ Keys \subseteq {"char", "enter", "backspace", "shift_enter", "ctrl_c"}

VARIABLES
    pcb,                 \* the allocated PCBs, by pid
    waits,               \* the call a blocked process made (eax and ebx of its
                         \* saved registers), by pid; nothing for the others
    queue,               \* the list from scheduler_head_ptr along `next'
    current,             \* pid of current_process
    process_queue_size,
    quantum_counter,
    pid_static,          \* the next pid
    foreground_pid,
    stdin,               \* count, and the one-slot wait queue
    halted               \* "no", or why the machine stopped

vars == <<pcb, waits, queue, current, process_queue_size, quantum_counter,
          pid_static, foreground_pid, stdin, halted>>

Status == {"RUNNING", "READY", "WAITING", "ZOMBIE"}

PCB == [parent_pid: 0..MaxPid, status: Status,
        waiting_pid: 0..MaxPid, sleep_ticks: 0..MaxSleep]

Call(name, arg) == [call |-> name, pid |-> arg]
NoCall == Call("none", 0)
Wait == [call: {"none", "waitpid", "sleep", "read"}, pid: 0..MaxPid]

create_process_control_block(parent) ==
    [parent_pid |-> parent, status |-> "READY", waiting_pid |-> 0, sleep_ticks |-> 0]

Live == DOMAIN pcb

(***************************************************************************)
(* The list                                                                *)
(***************************************************************************)
Pos(q, p) == CHOOSE i \in DOMAIN q : q[i] = p

Least(S) == CHOOSE i \in S : \A j \in S : i <= j

Unlink(q, p) ==
    LET k == Pos(q, p)
    IN  [i \in 1..(Len(q) - 1) |-> IF i < k THEN q[i] ELSE q[i + 1]]

\* How many list steps next_process takes from position k to position i.
Distance(q, k, i) == IF i > k THEN i - k ELSE i - k + Len(q)

\* Mutant: the loop gives up one PCB before it is back where it started.
next_process_Short(P, q, size, cur) ==
    LET k     == Pos(q, cur)
        found == {i \in DOMAIN q : /\ P[q[i]].status # "WAITING"
                                   /\ Distance(q, k, i) <= size - 1}
        steps == {Distance(q, k, i) : i \in found}
    IN  IF found = {} THEN None
        ELSE q[CHOOSE i \in found : Distance(q, k, i) = Least(steps)]

\* Mutant: the search starts at the head of the list.
next_process_FromHead(P, q, size, cur) ==
    LET found == {i \in DOMAIN q : P[q[i]].status # "WAITING"}
    IN  IF found = {} THEN None ELSE q[Least(found)]

\* Mutant: the next PCB, WAITING or not.
next_process_Blind(P, q, size, cur) ==
    LET k == Pos(q, cur) IN IF k < Len(q) THEN q[k + 1] ELSE q[1]

\* Where next_process stops: the nearest PCB that is not WAITING, within the
\* `size' + 1 PCBs it looks at; None when it finds none.
next_process(P, q, size, cur) ==
    LET k     == Pos(q, cur)
        found == {i \in DOMAIN q : /\ P[q[i]].status # "WAITING"
                                   /\ Distance(q, k, i) <= size + 1}
        steps == {Distance(q, k, i) : i \in found}
    IN  IF found = {} THEN None
        ELSE q[CHOOSE i \in found : Distance(q, k, i) = Least(steps)]

\* Mutant: the ticks run out and nobody is made READY.
decrement_wait_process_Silent(P) ==
    [p \in DOMAIN P |-> [P[p] EXCEPT !.sleep_ticks = IF @ > 0 THEN @ - 1 ELSE 0]]

decrement_wait_process(P) ==
    [p \in DOMAIN P |->
        [P[p] EXCEPT !.sleep_ticks = IF @ > 0 THEN @ - 1 ELSE 0,
                     !.status = IF P[p].sleep_ticks = 1 /\ @ = "WAITING"
                                THEN "READY" ELSE @]]

Woke(P) == \E p \in DOMAIN P : P[p].sleep_ticks = 1 /\ P[p].status = "WAITING"

\* The first process of the list that waits for pid becomes READY, whatever
\* its status; waiting_pid keeps its value.
scheduler_wake(P, q, pid) ==
    LET W == {i \in DOMAIN q : P[q[i]].waiting_pid = pid}
    IN  IF W = {} THEN P ELSE [P EXCEPT ![q[Least(W)]].status = "READY"]

\* Mutant: the waiters are handed over, the children keep their parent.
reparent_children_WaitersOnly(P, q, dying, newParent) ==
    LET C == {i \in DOMAIN q : P[q[i]].parent_pid = dying}
        W == {i \in DOMAIN q : P[q[i]].waiting_pid = dying}
    IN  IF C = {} \/ W = {} THEN P
        ELSE [P EXCEPT ![q[Least(W)]].waiting_pid = q[Least(C)]]

\* Every child of `dying' moves to newParent; the loop also hands the n-th
\* waiter of `dying' (in list order) over to its n-th child.
reparent_children(P, q, dying, newParent) ==
    LET C == {i \in DOMAIN q : P[q[i]].parent_pid = dying}
        W == {i \in DOMAIN q : P[q[i]].waiting_pid = dying}
        Nth(S, i) == Cardinality({j \in S : j <= i})
        Heirs(i) == {c \in C : i \in W /\ Nth(C, c) = Nth(W, i)}
    IN  [p \in DOMAIN P |->
            LET i == Pos(q, p)
            IN  [P[p] EXCEPT
                    !.parent_pid  = IF i \in C THEN newParent ELSE @,
                    !.waiting_pid = IF Heirs(i) = {} THEN @ ELSE q[Least(Heirs(i))]]]

\* scheduler_remove of a process that is neither protected nor current:
\* the PCBs that remain.
Removed(P, q, pid, newParent) ==
    LET R == reparent_children(P, q, pid, newParent)
    IN  [p \in DOMAIN P \ {pid} |-> R[p]]

Protected == {Idle, Main}

(***************************************************************************)
(* update_scheduler, entered with the PCBs as the caller left them (P).    *)
(***************************************************************************)
KeepRunning(P) ==
    /\ pcb' = P
    /\ quantum_counter' = quantum_counter + 1
    /\ UNCHANGED <<queue, current, process_queue_size, halted>>

NoProcess(P) ==
    /\ pcb' = P
    /\ halted' = "no process"
    /\ UNCHANGED <<queue, current, process_queue_size, quantum_counter>>

\* Mutant: the quantum counter is not reset.
SwitchTo_NoReset(P, n) ==
    /\ pcb' = [P EXCEPT ![n].status = "RUNNING"]
    /\ current' = n
    /\ quantum_counter' = quantum_counter + 1
    /\ UNCHANGED halted

SwitchTo(P, n) ==
    /\ pcb' = [P EXCEPT ![n].status = "RUNNING"]
    /\ current' = n
    /\ quantum_counter' = 0
    /\ UNCHANGED halted

\* The branch for a current process that is a ZOMBIE: wake, switch, remove.
Reap(P) ==
    LET W == scheduler_wake(P, queue, current)
        n == next_process(W, queue, process_queue_size, current)
    IN  CASE n = None -> NoProcess(W)
          [] n # None /\ (current \in Protected \/ n = current) ->
               /\ SwitchTo(W, n)
               /\ UNCHANGED <<queue, process_queue_size>>
          [] OTHER ->
               /\ SwitchTo(Removed(W, queue, current, W[current].parent_pid), n)
               /\ queue' = Unlink(queue, current)
               /\ process_queue_size' = process_queue_size - 1

Preempt(P) ==
    LET n == next_process(P, queue, process_queue_size, current)
    IN  IF n = None THEN NoProcess(P)
        ELSE SwitchTo(P, n) /\ UNCHANGED <<queue, process_queue_size>>

update_scheduler(P) ==
    LET D == decrement_wait_process(P)
        stays == /\ ~Woke(P)
                 /\ quantum_counter + 1 < SCHEDULER_QUANTUM
                 /\ D[current].status \in {"READY", "RUNNING"}
    IN  CASE stays -> KeepRunning(D)
          [] ~stays /\ D[current].status = "ZOMBIE" -> Reap(D)
          [] OTHER -> Preempt(D)

\* The registers update_scheduler saves hold the call of a process it blocks;
\* w is `waits', or that with the call the handler is for.
SaveRegisters(w) ==
    waits' = [p \in 1..MaxPid |->
                IF p \in DOMAIN pcb' /\ pcb'[p].status = "WAITING" THEN w[p] ELSE NoCall]

(***************************************************************************)
(* Interrupts and system calls                                             *)
(***************************************************************************)
Init ==
    /\ pcb = [p \in {Idle, Main} |->
                [create_process_control_block(0) EXCEPT
                    !.status = IF p = Main THEN "RUNNING" ELSE "READY"]]
    /\ waits = [p \in 1..MaxPid |-> NoCall]
    /\ queue = <<Main, Idle>>
    /\ current = Main
    /\ process_queue_size = 2
    /\ quantum_counter = 0
    /\ pid_static = 3
    /\ foreground_pid = 0
    /\ stdin = [count |-> 0, process |-> None, requested_len |-> -1]
    /\ halted = "no"

timer_handler_main ==
    /\ halted = "no"
    /\ update_scheduler(pcb)
    /\ SaveRegisters(waits)
    /\ UNCHANGED <<pid_static, foreground_pid, stdin>>

\* A system call of the running program; idle makes none.
Calling(call) == halted = "no" /\ current # Idle /\ call \in Calls

\* Mutant: a killed process that makes a blocking call is just WAITING.
Block_NoGuard(P) == [P EXCEPT ![current].status = "WAITING"]

Block(P) == [P EXCEPT ![current].status = IF @ = "ZOMBIE" THEN "ZOMBIE" ELSE "WAITING"]

handle_syscall_exit ==
    /\ Calling("exit")
    /\ update_scheduler(IF current \in Protected THEN pcb
                        ELSE [pcb EXCEPT ![current].status = "ZOMBIE"])
    /\ SaveRegisters(waits)
    /\ UNCHANGED <<pid_static, foreground_pid, stdin>>

handle_syscall_fork ==
    /\ Calling("fork")
    /\ pid_static <= MaxPid
    /\ pcb' = [p \in Live \cup {pid_static} |->
                 IF p = pid_static THEN create_process_control_block(current) ELSE pcb[p]]
    /\ queue' = Append(queue, pid_static)
    /\ process_queue_size' = process_queue_size + 1
    /\ pid_static' = pid_static + 1
    /\ UNCHANGED <<waits, current, quantum_counter, foreground_pid, stdin, halted>>

KillSelf ==
    /\ pcb' = [pcb EXCEPT ![current].status = "ZOMBIE"]
    /\ UNCHANGED <<queue, process_queue_size, halted>>

\* Mutant: process_queue_size is not decremented.
KillOther_NoCount(pid) ==
    /\ pcb' = Removed(pcb, queue, pid, pcb[pid].parent_pid)
    /\ queue' = Unlink(queue, pid)
    /\ UNCHANGED <<process_queue_size, halted>>

\* Mutant: the victim is marked ZOMBIE and left for the scheduler.
KillOther_Mark(pid) ==
    /\ pcb' = [pcb EXCEPT ![pid].status = "ZOMBIE"]
    /\ UNCHANGED <<queue, process_queue_size, halted>>

KillOther(pid) ==
    /\ pcb' = Removed(pcb, queue, pid, pcb[pid].parent_pid)
    /\ queue' = Unlink(queue, pid)
    /\ process_queue_size' = process_queue_size - 1
    /\ UNCHANGED halted

\* kill of a pid that is not in the list.  When some process has it as its
\* parent (pid 0 is the parent of main and idle), reparent_children reads
\* parent_pid through the uninitialised dying_process: it faults, or the
\* children get whatever it finds.
KillAbsent(pid) ==
    \/ /\ \E garbage \in Garbage :
             pcb' = reparent_children(pcb, queue, pid, garbage)
       /\ UNCHANGED <<queue, process_queue_size, halted>>
    \/ /\ \E p \in Live : pcb[p].parent_pid = pid
       /\ halted' = "fault"
       /\ UNCHANGED <<pcb, queue, process_queue_size>>

handle_syscall_kill(pid) ==
    /\ Calling("kill")
    /\ pid \notin Protected
    /\ \/ pid = current /\ KillSelf
       \/ pid \in Live \ {current} /\ KillOther(pid)
       \/ pid \notin Live /\ KillAbsent(pid)
    /\ SaveRegisters(waits)
    /\ UNCHANGED <<current, quantum_counter, pid_static, foreground_pid, stdin>>

handle_syscall_wait(pid) ==
    /\ Calling("waitpid")
    /\ foreground_pid' = pid
    /\ update_scheduler(Block([pcb EXCEPT ![current].waiting_pid = pid]))
    /\ SaveRegisters([waits EXCEPT ![current] = Call("waitpid", pid)])
    /\ UNCHANGED <<pid_static, stdin>>

handle_syscall_sleep(ticks) ==
    /\ Calling("sleep")
    /\ update_scheduler(Block([pcb EXCEPT ![current].sleep_ticks = ticks]))
    /\ SaveRegisters([waits EXCEPT ![current] = Call("sleep", 0)])
    /\ UNCHANGED <<pid_static, foreground_pid, stdin>>

\* read(0, buf, len) with enough characters in the ring.
stdin_read(len) ==
    /\ Calling("read")
    /\ stdin.count >= len
    /\ stdin' = [stdin EXCEPT !.count = @ - len]
    /\ UNCHANGED <<pcb, waits, queue, current, process_queue_size, quantum_counter,
                   pid_static, foreground_pid, halted>>

\* read(0, buf, len) that blocks: the caller takes the one wait-queue slot.
stdin_block_process(len) ==
    /\ Calling("read")
    /\ stdin.count < len
    /\ stdin' = [stdin EXCEPT !.process = current, !.requested_len = len]
    /\ update_scheduler(Block(pcb))
    /\ SaveRegisters([waits EXCEPT ![current] = Call("read", 0)])
    /\ UNCHANGED <<pid_static, foreground_pid>>

(***************************************************************************)
(* The keyboard.  The ring's indices are not modelled here: a backspace    *)
(* takes one character or none, and a key that goes to a window leaves the *)
(* ring alone.                                                             *)
(***************************************************************************)
stdin_write(key) ==
    IF key = "backspace" THEN {stdin.count, IF stdin.count > 0 THEN stdin.count - 1 ELSE 0}
    ELSE {stdin.count, stdin.count + 1}

\* stdin_wake_process with `n' characters in the ring: the reader gets what
\* it asked for, or what there is, and becomes READY.
Delivered(n) ==
    [count |-> IF n < stdin.requested_len THEN 0 ELSE n - stdin.requested_len,
     process |-> None, requested_len |-> -1]

\* The PCB in the wait queue may have been freed: the handler then writes to
\* freed memory, which a newer process may own, and copies the characters
\* through a page directory whose user pages are gone, which faults.
stdin_wake_process(n) ==
    LET r == stdin.process IN
    \/ /\ r \in Live
       /\ pcb' = [pcb EXCEPT ![r].status = "READY"]
       /\ stdin' = Delivered(n)
       /\ UNCHANGED halted
    \/ /\ r \notin Live
       /\ \/ pcb' = pcb
          \/ \E p \in Live : p > r /\ pcb' = [pcb EXCEPT ![p].status = "READY"]
       /\ stdin' = Delivered(n)
       /\ UNCHANGED halted
    \/ /\ r \notin Live
       /\ halted' = "fault"
       /\ stdin' = [stdin EXCEPT !.count = n]
       /\ UNCHANGED pcb

keyboard_handler_main(key) ==
    /\ halted = "no"
    /\ key \in Keys \cap {"char", "enter", "backspace"}
    /\ stdin.count < STANDARD_IN_BUFFER_SIZE
    /\ \E n \in stdin_write(key) :
          LET wakes == /\ stdin.process # None
                       /\ stdin.requested_len <= n \/ key = "enter"
                       /\ pcb[current].status # "ZOMBIE"
          IN  \/ wakes /\ stdin_wake_process(n)
              \/ /\ ~wakes
                 /\ stdin' = [stdin EXCEPT !.count = n]
                 /\ UNCHANGED <<pcb, halted>>
    /\ SaveRegisters(waits)
    /\ UNCHANGED <<queue, current, process_queue_size, quantum_counter,
                   pid_static, foreground_pid>>

\* Shift+Enter, handled before the check that the ring has room and without
\* waking a reader.  The guard is this model's bound on the count.
handle_chords ==
    /\ halted = "no"
    /\ "shift_enter" \in Keys
    /\ stdin.count <= STANDARD_IN_BUFFER_SIZE
    /\ stdin' \in {[stdin EXCEPT !.count = n] : n \in stdin_write("shift_enter")}
    /\ UNCHANGED <<pcb, waits, queue, current, process_queue_size, quantum_counter,
                   pid_static, foreground_pid, halted>>

\* Whether sigint_foreground takes the reader in the wait queue for the
\* foreground process.  A freed PCB may still hold its pid, or the pid of a
\* newer process that got the memory.
ForegroundReads(clears) ==
    /\ clears => /\ foreground_pid # 0 /\ stdin.process # None
                 /\ \/ stdin.process = foreground_pid
                    \/ stdin.process \notin Live /\ foreground_pid > stdin.process
    /\ ~clears => foreground_pid = 0 \/ stdin.process # foreground_pid \/ stdin.process \notin Live

\* Ctrl+C.  (Module Windows has the windows it removes.)
sigint_foreground ==
    /\ halted = "no"
    /\ "ctrl_c" \in Keys
    /\ \E clears \in BOOLEAN :
          /\ ForegroundReads(clears)
          /\ stdin' = IF clears THEN [count |-> 0, process |-> None, requested_len |-> -1]
                      ELSE [stdin EXCEPT !.count = 0]
    /\ pcb' = IF foreground_pid \in Live
              THEN [pcb EXCEPT ![foreground_pid].status = "ZOMBIE"] ELSE pcb
    /\ SaveRegisters(waits)
    /\ foreground_pid' = 0
    /\ UNCHANGED <<queue, current, process_queue_size, quantum_counter, pid_static, halted>>

Syscall ==
    \/ handle_syscall_exit
    \/ handle_syscall_fork
    \/ \E pid \in PidArgs : handle_syscall_kill(pid)
    \/ \E pid \in PidArgs : handle_syscall_wait(pid)
    \/ \E ticks \in 1..MaxSleep : handle_syscall_sleep(ticks)
    \/ \E len \in ReadLens : stdin_read(len)
    \/ \E len \in ReadLens : stdin_block_process(len)

Key ==
    \/ \E key \in Keys : keyboard_handler_main(key)
    \/ handle_chords
    \/ sigint_foreground

Next == timer_handler_main \/ Syscall \/ Key

Spec == Init /\ [][Next]_vars

\* The PIT interrupts at 100 Hz for ever and user code runs with interrupts
\* enabled, so the timer handler runs again and again.  Nothing else is fair:
\* programs may never call and the user may never type.
FairSpec == Spec /\ WF_vars(timer_handler_main)

(***************************************************************************)
(* Properties                                                              *)
(***************************************************************************)

\* Types and ranges of the scheduler's state: no PCB beyond the pids handed
\* out, the quantum counter below SCHEDULER_QUANTUM between two handlers.
TypeOK ==
    /\ Live \subseteq 1..(pid_static - 1)
    /\ \A p \in Live : pcb[p] \in PCB
    /\ waits \in [1..MaxPid -> Wait]
    /\ queue \in Seq(1..MaxPid)
    /\ current \in 1..MaxPid
    /\ process_queue_size \in Nat
    /\ quantum_counter \in 0..(SCHEDULER_QUANTUM - 1)
    /\ pid_static \in 3..(MaxPid + 1)
    /\ foreground_pid \in 0..MaxPid
    /\ stdin \in [count: Nat, process: 0..MaxPid, requested_len: Nat \cup {-1}]
    /\ stdin.process = None <=> stdin.requested_len = -1
    /\ halted \in {"no", "fault", "no process"}

\* The list links every allocated PCB exactly once and no freed one,
\* process_queue_size is its length, and current_process is one of them:
\* no handler leaves current_process or a `next' pointer on a freed PCB.
ListMatchesPCBs ==
    /\ \A i, j \in DOMAIN queue : queue[i] = queue[j] => i = j
    /\ {queue[i] : i \in DOMAIN queue} = Live
    /\ process_queue_size = Len(queue)
    /\ current \in Live

\* The process that returns to user mode is not marked as blocked (a part of
\* the inductive invariant).
CurrentNotBlocked == pcb[current].status # "WAITING"

Resumed(p) == /\ pcb[p].status = "WAITING"
              /\ p \in DOMAIN pcb' /\ pcb'[p].status # "WAITING"

\* The call that p is blocked in ends in this step: its sleep runs out, the
\* child it was given leaves the CPU as a ZOMBIE, its characters are there or
\* Enter is.
CallEnds(p) ==
    \/ waits[p].call = "sleep" /\ pcb[p].sleep_ticks = 1
    \/ /\ waits[p] = Call("waitpid", current)
       /\ current \notin DOMAIN pcb' \/ pcb[current].status = "ZOMBIE"
    \/ /\ waits[p].call = "read" /\ stdin.process = p /\ stdin'.process = None
       /\ stdin.requested_len <= stdin.count + 1 \/ keyboard_handler_main("enter")

\* What an earlier call left in the PCB of p or in the wait queue, and what
\* reparent_children handed over: no handler clears waiting_pid, and nothing
\* clears sleep_ticks or the wait queue when a call ends another way.
LeftOver(p) ==
    \/ pcb[p].sleep_ticks > 0 /\ waits[p].call # "sleep"
    \/ pcb[p].waiting_pid \in Live /\ waits[p] # Call("waitpid", pcb[p].waiting_pid)
    \/ stdin.process = p /\ waits[p].call # "read"
    \/ stdin.process # None /\ stdin.process \notin Live

\* A blocked process goes on only in the step that ends the very call it is
\* blocked in, or in the Ctrl+C step that kills it: no exit, kill, tick, key or
\* switch of another process resumes it.  The processes that are excepted are
\* the ones something is left over for, where the code does resume them early.
ResumedByOwnCall ==
    [][\A p \in Live : Resumed(p) =>
          \/ CallEnds(p)
          \/ sigint_foreground /\ p = foreground_pid
          \/ LeftOver(p)]_vars

\* idle and main survive every exit, kill and Ctrl+C, idle never blocks, and
\* so next_process always finds a process (it never reaches its error loop).
NextProcessFinds ==
    /\ Protected \subseteq Live
    /\ pcb[Idle].status # "WAITING"
    /\ halted # "no process"

\* reparent_children leaves no orphan and no cycle: the parent of every
\* process but idle and main is a live process created before it.
ParentsAlive ==
    \A p \in Live \ Protected : pcb[p].parent_pid \in Live /\ pcb[p].parent_pid < p

\* exit and kill leave no ZOMBIE off the CPU, of the foreground process either:
\* only the Ctrl+C step marks a process that is not running (idle and main
\* apart).  next_process skips only WAITING processes and would bring it back.
ZombiesOffCPU ==
    [][\A p \in DOMAIN pcb' :
          pcb'[p].status = "ZOMBIE" /\ p # current' =>
              \/ p \in Protected
              \/ sigint_foreground /\ p = foreground_pid
              \/ p \in Live /\ pcb[p].status = "ZOMBIE" /\ p # current]_vars

Runnable(p) == p \in Live /\ pcb[p].status # "WAITING"

\* Round robin: a process that can run gets the CPU, whatever the others do.
RunnableGetsCPU ==
    \A p \in 1..MaxPid :
        Runnable(p) ~> (current = p \/ ~Runnable(p) \/ halted # "no")

\* A current process that has been killed is gone after finitely many ticks,
\* whatever it, the keyboard or the sleepers do meanwhile.
ZombieReaped ==
    \A p \in 3..MaxPid :
        (current = p /\ p \in Live /\ pcb[p].status = "ZOMBIE")
            ~> (p \notin Live \/ halted # "no")

\* A sleeping process does not stay blocked for ever.
SleeperWakes ==
    \A p \in 2..MaxPid :
        (p \in Live /\ pcb[p].status = "WAITING" /\ pcb[p].sleep_ticks > 0)
            ~> (p \notin Live \/ pcb[p].status # "WAITING" \/ halted # "no")

\* README.md: waitpid blocks "until child exits": a process that waits for a
\* child that is gone does not wait for ever.  (Checked where waitpid is the
\* only call that blocks.)
WaitpidReturns ==
    \A p \in 2..MaxPid :
        (/\ p \in Live /\ pcb[p].status = "WAITING"
         /\ pcb[p].waiting_pid \in 3..(pid_static - 1) \ Live)
            ~> (p \notin Live \/ pcb[p].status # "WAITING" \/ halted # "no")
=============================================================================
