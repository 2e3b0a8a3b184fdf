-------------------------- MODULE SchedulerProofs --------------------------
(***************************************************************************)
(* The scheduler's safety invariants, proved for every quantum, every      *)
(* number of processes and every set of calls and keys.                    *)
(***************************************************************************)
EXTENDS Scheduler, TLAPS, WellFoundedInduction

(***************************************************************************)
(* The invariant, split by what it reads so that it can be stated of the   *)
(* intermediate values a handler computes.                                 *)
(***************************************************************************)
Typed(P) == \A p \in DOMAIN P : P[p] \in PCB

Linked(P, q) ==
    /\ DOMAIN P \subseteq 1..MaxPid
    /\ q \in Seq(1..MaxPid)
    /\ \A i, j \in DOMAIN q : q[i] = q[j] => i = j
    /\ {q[i] : i \in DOMAIN q} = DOMAIN P

Family(P) == \A p \in DOMAIN P \ Protected : P[p].parent_pid \in DOMAIN P /\ P[p].parent_pid < p

IdleReady(P) == Protected \subseteq DOMAIN P /\ P[Idle].status # "WAITING"

\* What every intermediate PCB table of a handler satisfies.
Sound(P, q) == Typed(P) /\ Linked(P, q) /\ Family(P) /\ IdleReady(P)

IInv == TypeOK /\ ListMatchesPCBs /\ CurrentNotBlocked /\ NextProcessFinds /\ ParentsAlive

\* A non-empty set of naturals has a least element, and Least picks it.
LEMMA LeastInSet ==
    ASSUME NEW S \in SUBSET Nat, S # {}
    PROVE  Least(S) \in S /\ \A j \in S : Least(S) <= j
<1> DEFINE R == {ss \in Nat \X Nat : ss[1] < ss[2]}
<1>1. IsWellFoundedOn(R, Nat)
  BY NatLessThanWellFounded, Zenon DEF OpToRel
<1>2. PICK x \in S : \A y \in S : ~(<<y, x>> \in R)
  <2> HIDE DEF R
  <2> QED
    BY <1>1, WFMin
<1>3. ASSUME NEW y \in S PROVE x <= y
  <2>1. x \in Nat /\ y \in Nat /\ <<y, x>> \in Nat \X Nat
    OBVIOUS
  <2>2. <<y, x>>[1] = y /\ <<y, x>>[2] = x
    OBVIOUS
  <2>3. ~(y < x)
    BY <1>2, <2>1, <2>2, Zenon
  <2> QED
    BY <2>1, <2>3
<1> QED
  BY <1>3 DEF Least

\* Every allocated process has a position in the list.
LEMMA PosInList ==
    ASSUME NEW P, NEW q, Linked(P, q), NEW p \in DOMAIN P
    PROVE  Pos(q, p) \in DOMAIN q /\ q[Pos(q, p)] = p
BY DEF Linked, Pos

\* next_process finds a process that is not WAITING: idle is one, and the
\* scan covers the whole list.
LEMMA NextProcessOK ==
    ASSUME NEW P, NEW q, Sound(P, q), NEW cur \in DOMAIN P
    PROVE  LET n == next_process(P, q, Len(q), cur)
           IN  /\ n \in DOMAIN P /\ n # None /\ P[n].status # "WAITING"
               /\ cur # Idle => n # cur
<1> DEFINE k == Pos(q, cur)
           found == {i \in DOMAIN q : /\ P[q[i]].status # "WAITING"
                                      /\ Distance(q, k, i) <= Len(q) + 1}
           steps == {Distance(q, k, i) : i \in found}
<1>1. k \in 1..Len(q) /\ Len(q) \in Nat /\ DOMAIN q = 1..Len(q)
  BY PosInList DEF Sound, Linked
<1>2. \A i \in DOMAIN q : Distance(q, k, i) \in Nat /\ Distance(q, k, i) <= Len(q)
  BY <1>1 DEF Distance
<1>3. Pos(q, Idle) \in found
  <2>1. Idle \in DOMAIN P /\ P[Idle].status # "WAITING"
    BY DEF Sound, IdleReady, Protected
  <2>2. Pos(q, Idle) \in DOMAIN q /\ q[Pos(q, Idle)] = Idle
    BY <2>1, PosInList DEF Sound
  <2> QED
    BY <2>1, <2>2, <1>1, <1>2
<1>4. steps \in SUBSET Nat /\ steps # {}
  BY <1>2, <1>3
<1>5. Least(steps) \in steps
  BY <1>4, LeastInSet
<1>6. \E i \in found : Distance(q, k, i) = Least(steps)
  BY <1>5
<1>7. PICK i \in found : /\ next_process(P, q, Len(q), cur) = q[i]
                         /\ Distance(q, k, i) = Least(steps)
  <2> DEFINE i == CHOOSE j \in found : Distance(q, k, j) = Least(steps)
  <2>1. i \in found
    BY <1>6
  <2>2. next_process(P, q, Len(q), cur) = q[i]
    BY <1>3 DEF next_process
  <2>3. Distance(q, k, i) = Least(steps)
    BY <1>6
  <2> HIDE DEF i, found, steps
  <2> QED
    BY <2>1, <2>2, <2>3
<1>8. q[i] \in DOMAIN P
  BY <1>7 DEF Sound, Linked
<1>9. q[i] # None
  BY <1>8 DEF Sound, Linked, None
<1>10. ASSUME cur # Idle PROVE q[i] # cur
  <2>1. q[k] = cur /\ q[Pos(q, Idle)] = Idle /\ Pos(q, Idle) \in DOMAIN q
    BY PosInList DEF Sound, IdleReady, Protected
  <2>2. Distance(q, k, Pos(q, Idle)) < Len(q)
    BY <1>1, <1>10, <2>1 DEF Distance
  <2>3. Least(steps) <= Distance(q, k, Pos(q, Idle))
    <3>1. Distance(q, k, Pos(q, Idle)) \in steps
      BY <1>3
    <3> HIDE DEF steps
    <3> QED
      BY <1>4, <3>1, LeastInSet
  <2>4. Distance(q, k, k) = Len(q)
    BY <1>1 DEF Distance
  <2>5. i # k
    <3> HIDE DEF steps, found
    <3>1. Least(steps) \in Nat
      BY <1>4, <1>5
    <3> QED
      BY <1>1, <1>2, <1>7, <2>1, <2>2, <2>3, <2>4, <3>1
  <2> QED
    BY <1>1, <1>7, <2>1, <2>5 DEF Sound, Linked
<1> QED
  BY <1>7, <1>8, <1>9, <1>10

\* decrement_wait_process changes only sleep_ticks, and WAITING to READY.
LEMMA DecrementOK ==
    ASSUME NEW P, NEW q, Sound(P, q)
    PROVE  LET D == decrement_wait_process(P)
           IN  /\ Sound(D, q)
               /\ DOMAIN D = DOMAIN P
<1> DEFINE D == decrement_wait_process(P)
<1>1. DOMAIN D = DOMAIN P
  BY DEF decrement_wait_process
<1>2. ASSUME NEW p \in DOMAIN P
      PROVE  /\ D[p] \in PCB
             /\ D[p].parent_pid = P[p].parent_pid
             /\ D[p].status \in {P[p].status, "READY"}
  <2>1. P[p] \in PCB
    BY DEF Sound, Typed
  <2>2. D[p] = [P[p] EXCEPT !.sleep_ticks = IF @ > 0 THEN @ - 1 ELSE 0,
                            !.status = IF P[p].sleep_ticks = 1 /\ @ = "WAITING"
                                       THEN "READY" ELSE @]
    BY DEF decrement_wait_process
  <2>3. P[p].sleep_ticks \in 0..MaxSleep /\ P[p].status \in Status /\ MaxSleep \in Nat
    BY <2>1, SchedulerAssumption DEF PCB
  <2>4. /\ (IF P[p].sleep_ticks > 0 THEN P[p].sleep_ticks - 1 ELSE 0) \in 0..MaxSleep
        /\ "READY" \in Status
    BY <2>3 DEF Status
  <2> HIDE DEF D
  <2> QED
    BY <2>1, <2>2, <2>3, <2>4 DEF PCB
<1>3. Typed(D) /\ Linked(D, q) /\ Family(D)
  BY <1>1, <1>2 DEF Sound, Typed, Linked, Family
<1>4. IdleReady(D)
  BY <1>1, <1>2 DEF Sound, IdleReady, Protected
<1> QED
  BY <1>1, <1>3, <1>4 DEF Sound

SetStatus(P, p, s) == [P EXCEPT ![p].status = s]

\* Giving one process a status other than WAITING keeps the table sound.
LEMMA SetStatusOK ==
    ASSUME NEW P, NEW q, Sound(P, q), NEW p \in DOMAIN P, NEW s \in Status \ {"WAITING"}
    PROVE  /\ Sound(SetStatus(P, p, s), q)
           /\ DOMAIN SetStatus(P, p, s) = DOMAIN P
           /\ \A x \in DOMAIN P :
                 SetStatus(P, p, s)[x].status = IF x = p THEN s ELSE P[x].status
<1> DEFINE R == SetStatus(P, p, s)
<1>1. DOMAIN R = DOMAIN P
  BY DEF SetStatus
<1>2. ASSUME NEW x \in DOMAIN P
      PROVE  /\ R[x] \in PCB
             /\ R[x].parent_pid = P[x].parent_pid
             /\ R[x].status = IF x = p THEN s ELSE P[x].status
  <2>1. P[x] \in PCB
    BY DEF Sound, Typed
  <2> QED
    BY <2>1 DEF PCB, SetStatus
<1>3. Typed(R) /\ Linked(R, q) /\ Family(R)
  BY <1>1, <1>2 DEF Sound, Typed, Linked, Family
<1>4. IdleReady(R)
  BY <1>1, <1>2 DEF Sound, IdleReady, Protected
<1> QED
  BY <1>1, <1>2, <1>3, <1>4 DEF Sound

\* scheduler_wake only makes a process READY.
LEMMA WakeOK ==
    ASSUME NEW P, NEW q, Sound(P, q), NEW pid
    PROVE  /\ Sound(scheduler_wake(P, q, pid), q)
           /\ DOMAIN scheduler_wake(P, q, pid) = DOMAIN P
<1> DEFINE W == {i \in DOMAIN q : P[q[i]].waiting_pid = pid}
<1>1. CASE W = {}
  BY <1>1 DEF scheduler_wake
<1>2. CASE W # {}
  <2>1. W \in SUBSET Nat
    BY DEF Sound, Linked
  <2>2. Least(W) \in W
    BY <1>2, <2>1, LeastInSet
  <2>3. q[Least(W)] \in DOMAIN P
    BY <2>2 DEF Sound, Linked
  <2>4. scheduler_wake(P, q, pid) = SetStatus(P, q[Least(W)], "READY")
    BY <1>2 DEF scheduler_wake, SetStatus
  <2>5. "READY" \in Status \ {"WAITING"}
    BY DEF Status
  <2> HIDE DEF W
  <2> QED
    BY <2>3, <2>4, <2>5, SetStatusOK
<1> QED
  BY <1>1, <1>2

\* reparent_children keeps types and statuses, and changes the parent of the
\* children of `dying' only.
LEMMA ReparentOK ==
    ASSUME NEW P, NEW q, Sound(P, q), NEW dying, NEW newParent \in 0..MaxPid
    PROVE  LET R == reparent_children(P, q, dying, newParent)
           IN  /\ DOMAIN R = DOMAIN P
               /\ \A p \in DOMAIN P :
                     /\ R[p] \in PCB
                     /\ R[p].status = P[p].status
                     /\ R[p].parent_pid = IF P[p].parent_pid = dying THEN newParent
                                          ELSE P[p].parent_pid
<1> DEFINE C == {i \in DOMAIN q : P[q[i]].parent_pid = dying}
           W == {i \in DOMAIN q : P[q[i]].waiting_pid = dying}
           Nth(S, i) == Cardinality({j \in S : j <= i})
           Heirs(i) == {c \in C : i \in W /\ Nth(C, c) = Nth(W, i)}
           R == reparent_children(P, q, dying, newParent)
           Row(p) == [P[p] EXCEPT
                        !.parent_pid  = IF Pos(q, p) \in C THEN newParent ELSE @,
                        !.waiting_pid = IF Heirs(Pos(q, p)) = {} THEN @
                                        ELSE q[Least(Heirs(Pos(q, p)))]]
<1>1. R = [p \in DOMAIN P |-> Row(p)]
  BY DEF reparent_children
<1>2. ASSUME NEW p \in DOMAIN P
      PROVE  /\ Row(p) \in PCB
             /\ Row(p).status = P[p].status
             /\ Row(p).parent_pid = IF P[p].parent_pid = dying THEN newParent
                                    ELSE P[p].parent_pid
  <2>1. P[p] \in PCB
    BY DEF Sound, Typed
  <2>2. Pos(q, p) \in C <=> P[p].parent_pid = dying
    BY PosInList DEF Sound
  <2>3. Heirs(Pos(q, p)) # {} => q[Least(Heirs(Pos(q, p)))] \in 1..MaxPid
    <3> SUFFICES ASSUME Heirs(Pos(q, p)) # {}
                 PROVE  q[Least(Heirs(Pos(q, p)))] \in 1..MaxPid
      OBVIOUS
    <3> DEFINE H == Heirs(Pos(q, p))
    <3>1. H \subseteq DOMAIN q /\ DOMAIN q \subseteq Nat
      BY DEF Sound, Linked
    <3>2. H \in SUBSET Nat /\ H # {}
      BY <3>1
    <3>3. \A S \in SUBSET Nat : S # {} => Least(S) \in S
      BY LeastInSet
    <3>4. Least(H) \in DOMAIN q
      <4> HIDE DEF H
      <4> QED
        BY <3>1, <3>2, <3>3
    <3>5. \A i \in DOMAIN q : q[i] \in 1..MaxPid
      BY DEF Sound, Linked
    <3> HIDE DEF H
    <3>6. q[Least(H)] \in 1..MaxPid
      BY <3>4, <3>5
    <3> QED
      BY <3>6 DEF H
  <2>4. P[p].waiting_pid \in 0..MaxPid /\ P[p].parent_pid \in 0..MaxPid
    BY <2>1 DEF PCB
  <2> DEFINE par == IF Pos(q, p) \in C THEN newParent ELSE P[p].parent_pid
             wai == IF Heirs(Pos(q, p)) = {} THEN P[p].waiting_pid
                    ELSE q[Least(Heirs(Pos(q, p)))]
  <2>5. par \in 0..MaxPid
    BY <2>4
  <2>6. wai \in 0..MaxPid
    <3> HIDE DEF Heirs
    <3> QED
      BY <2>3, <2>4
  <2>7. Row(p) = [P[p] EXCEPT !.parent_pid = par, !.waiting_pid = wai]
    OBVIOUS
  <2>8. par = IF P[p].parent_pid = dying THEN newParent ELSE P[p].parent_pid
    BY <2>2
  <2> HIDE DEF par, wai, Row
  <2> QED
    BY <2>1, <2>5, <2>6, <2>7, <2>8 DEF PCB
<1> HIDE DEF R, Row
<1>3. \A p \in DOMAIN P : R[p] = Row(p)
  BY <1>1
<1>4. DOMAIN R = DOMAIN P
  BY <1>1
<1> QED
  BY <1>2, <1>3, <1>4 DEF R

\* Unlinking a process leaves a list of the others.
LEMMA UnlinkOK ==
    ASSUME NEW P, NEW q, Linked(P, q), NEW pid \in DOMAIN P
    PROVE  /\ Unlink(q, pid) \in Seq(1..MaxPid)
           /\ Len(Unlink(q, pid)) = Len(q) - 1
           /\ \A i, j \in DOMAIN Unlink(q, pid) :
                 Unlink(q, pid)[i] = Unlink(q, pid)[j] => i = j
           /\ {Unlink(q, pid)[i] : i \in DOMAIN Unlink(q, pid)} = DOMAIN P \ {pid}
<1> DEFINE k == Pos(q, pid)
           u == Unlink(q, pid)
           n == Len(q)
<1>1. k \in 1..n /\ q[k] = pid /\ n \in Nat /\ DOMAIN q = 1..n
  BY PosInList DEF Linked
<1>2. u = [i \in 1..(n - 1) |-> IF i < k THEN q[i] ELSE q[i + 1]]
  BY DEF Unlink
<1>3. \A i \in 1..n : q[i] \in 1..MaxPid
  BY <1>1 DEF Linked
<1> HIDE DEF k, u, n
<1>4. DOMAIN u = 1..(n - 1) /\ n - 1 \in Nat
  BY <1>1, <1>2
<1>5. \A i \in 1..(n - 1) : u[i] = IF i < k THEN q[i] ELSE q[i + 1]
  BY <1>2
<1>6. u \in Seq(1..MaxPid) /\ Len(u) = n - 1
  BY <1>1, <1>2, <1>3, <1>4
<1>7. \A i, j \in 1..n : q[i] = q[j] => i = j
  BY <1>1 DEF Linked
<1>8. \A i, j \in DOMAIN u : u[i] = u[j] => i = j
  BY <1>1, <1>4, <1>5, <1>7
<1>9. \A i \in DOMAIN u : u[i] \in DOMAIN P \ {pid}
  <2>1. \A i \in 1..n : q[i] \in DOMAIN P
    BY <1>1 DEF Linked
  <2> QED
    BY <1>1, <1>4, <1>5, <1>7, <2>1
<1>10. ASSUME NEW p \in DOMAIN P \ {pid} PROVE \E i \in DOMAIN u : u[i] = p
  <2>1. PICK i \in 1..n : q[i] = p
    BY <1>1 DEF Linked
  <2>2. i # k
    BY <2>1, <1>1
  <2>3. CASE i < k
    BY <2>1, <2>3, <1>1, <1>4, <1>5
  <2>4. CASE i > k
    <3>1. i - 1 \in 1..(n - 1) /\ ~(i - 1 < k) /\ (i - 1) + 1 = i
      BY <2>1, <2>4, <1>1
    <3>2. u[i - 1] = p
      BY <3>1, <1>5, <2>1
    <3> QED
      BY <3>1, <3>2, <1>4
  <2> QED
    BY <2>1, <2>2, <2>3, <2>4, <1>1
<1>11. {u[i] : i \in DOMAIN u} = DOMAIN P \ {pid}
  BY <1>9, <1>10
<1> QED
  BY <1>6, <1>8, <1>11 DEF u, n

\* Removing a process keeps the table sound: its children move to its own
\* parent, which is alive and older.
LEMMA RemovedOK ==
    ASSUME NEW P, NEW q, Sound(P, q), NEW pid \in DOMAIN P \ Protected
    PROVE  LET R == Removed(P, q, pid, P[pid].parent_pid)
           IN  /\ Sound(R, Unlink(q, pid))
               /\ DOMAIN R = DOMAIN P \ {pid}
               /\ \A p \in DOMAIN R : R[p].status = P[p].status
<1> DEFINE new == P[pid].parent_pid
           R == Removed(P, q, pid, new)
           T == reparent_children(P, q, pid, new)
<1>1. new \in DOMAIN P /\ new < pid /\ new \in 0..MaxPid
  BY DEF Sound, Family, Typed, PCB
<1>2. /\ DOMAIN T = DOMAIN P
      /\ \A p \in DOMAIN P : /\ T[p] \in PCB
                             /\ T[p].status = P[p].status
                             /\ T[p].parent_pid = IF P[p].parent_pid = pid THEN new
                                                  ELSE P[p].parent_pid
  <2> HIDE DEF new
  <2> QED
    BY <1>1, ReparentOK
<1>3. /\ DOMAIN R = DOMAIN P \ {pid}
      /\ \A p \in DOMAIN R : R[p] = T[p]
  BY DEF Removed
<1> HIDE DEF new, R, T
<1>4. Typed(R)
  BY <1>2, <1>3 DEF Typed
<1>5. Linked(R, Unlink(q, pid))
  BY <1>3, UnlinkOK DEF Sound, Linked
<1>6. Family(R)
  <2> SUFFICES ASSUME NEW p \in DOMAIN R \ Protected
               PROVE  R[p].parent_pid \in DOMAIN R /\ R[p].parent_pid < p
    BY DEF Family
  <2>1. p \in DOMAIN P \ Protected /\ P[p].parent_pid \in DOMAIN P /\ P[p].parent_pid < p
    BY <1>3 DEF Sound, Family
  <2>2. DOMAIN P \subseteq Nat
    BY DEF Sound, Linked
  <2>3. CASE P[p].parent_pid = pid
    BY <2>1, <2>2, <2>3, <1>1, <1>2, <1>3
  <2>4. CASE P[p].parent_pid # pid
    BY <2>1, <2>4, <1>2, <1>3
  <2> QED
    BY <2>3, <2>4
<1>7. IdleReady(R)
  BY <1>2, <1>3 DEF Sound, IdleReady, Protected
<1> QED
  BY <1>2, <1>3, <1>4, <1>5, <1>6, <1>7 DEF Sound, R, new

(***************************************************************************)
(* The inductive step.  Core is the part of the invariant that             *)
(* update_scheduler has to restore, Rest what it does not touch.           *)
(***************************************************************************)
Core ==
    /\ Sound(pcb, queue)
    /\ process_queue_size = Len(queue)
    /\ current \in DOMAIN pcb
    /\ pcb[current].status # "WAITING"
    /\ quantum_counter \in 0..(SCHEDULER_QUANTUM - 1)
    /\ halted \in {"no", "fault"}

Rest ==
    /\ pid_static \in 3..(MaxPid + 1)
    /\ foreground_pid \in 0..MaxPid
    /\ stdin \in [count: Nat, process: 0..MaxPid, requested_len: Nat \cup {-1}]
    /\ stdin.process = None <=> stdin.requested_len = -1

Bounded == DOMAIN pcb \subseteq 1..(pid_static - 1)

Base == Core /\ Rest /\ Bounded

Saved == waits \in [1..MaxPid -> Wait]

LEMMA IInvSplit == IInv <=> Core /\ Rest /\ Bounded /\ Saved
<1> USE DEF Bounded, Saved
<1>1. ASSUME IInv PROVE Core /\ Rest /\ Saved /\ DOMAIN pcb \subseteq 1..(pid_static - 1)
  <2>1. pid_static \in 3..(MaxPid + 1) /\ DOMAIN pcb \subseteq 1..(pid_static - 1)
    BY <1>1, Zenon DEF IInv, TypeOK, Live
  <2>2. DOMAIN pcb \subseteq 1..MaxPid
    BY <2>1, SchedulerAssumption
  <2>3. Rest
    BY <1>1, Zenon DEF IInv, TypeOK, Rest
  <2>4. Sound(pcb, queue)
    BY <1>1, <2>2, Zenon DEF IInv, TypeOK, Live, ListMatchesPCBs, NextProcessFinds,
                      ParentsAlive, Sound, Typed, Linked, Family, IdleReady
  <2>5. halted \in {"no", "fault"}
    BY <1>1, Zenon DEF IInv, TypeOK, NextProcessFinds
  <2> QED
    BY <1>1, <2>1, <2>3, <2>4, <2>5, Zenon
       DEF IInv, TypeOK, Live, ListMatchesPCBs, CurrentNotBlocked, Core
<1>2. ASSUME Core, Rest, Saved, DOMAIN pcb \subseteq 1..(pid_static - 1) PROVE IInv
  <2>1. Typed(pcb) /\ Linked(pcb, queue) /\ Family(pcb) /\ IdleReady(pcb)
    BY <1>2, Zenon DEF Core, Sound
  <2>2. current \in 1..MaxPid
    BY <1>2, <2>1, Zenon DEF Core, Linked
  <2>3. process_queue_size \in Nat
    BY <1>2, <2>1 DEF Core, Linked
  <2>4. halted \in {"no", "fault", "no process"} /\ halted # "no process"
    BY <1>2 DEF Core
  <2>5. TypeOK
    BY <1>2, <2>1, <2>2, <2>3, <2>4, Zenon DEF TypeOK, Live, Core, Rest, Typed, Linked
  <2>6. ListMatchesPCBs /\ CurrentNotBlocked
    BY <1>2, <2>1, Zenon DEF ListMatchesPCBs, CurrentNotBlocked, Live, Core, Linked
  <2>7. NextProcessFinds /\ ParentsAlive
    BY <2>1, <2>4, Zenon DEF NextProcessFinds, ParentsAlive, Live, Family, IdleReady
  <2> QED
    BY <2>5, <2>6, <2>7 DEF IInv
<1> QED
  BY <1>1, <1>2

\* Switching to a process of a sound table establishes Core.
LEMMA SwitchOK ==
    ASSUME NEW P, NEW n \in DOMAIN P, SwitchTo(P, n),
           Sound(P, queue'), process_queue_size' = Len(queue'), halted \in {"no", "fault"}
    PROVE  Core' /\ DOMAIN pcb' = DOMAIN P
<1>1. /\ pcb' = SetStatus(P, n, "RUNNING")
      /\ current' = n /\ quantum_counter' = 0 /\ halted' = halted
  BY DEF SwitchTo, SetStatus
<1>2. "RUNNING" \in Status \ {"WAITING"}
  BY DEF Status
<1>3. /\ Sound(pcb', queue') /\ DOMAIN pcb' = DOMAIN P
      /\ pcb'[n].status = "RUNNING"
  BY <1>1, <1>2, SetStatusOK
<1>4. quantum_counter' \in 0..(SCHEDULER_QUANTUM - 1)
  BY <1>1, SchedulerAssumption
<1> QED
  BY <1>1, <1>3, <1>4 DEF Core

\* update_scheduler restores Core from any sound table the caller hands it,
\* one in which the current process is blocked or a ZOMBIE included.
LEMMA UpdateOK ==
    ASSUME NEW P, Sound(P, queue), DOMAIN P = DOMAIN pcb, Core, update_scheduler(P)
    PROVE  Core' /\ DOMAIN pcb' \subseteq DOMAIN pcb
<1> DEFINE D == decrement_wait_process(P)
<1>1. Sound(D, queue) /\ DOMAIN D = DOMAIN pcb
  BY DecrementOK
<1>2. current \in DOMAIN D /\ process_queue_size = Len(queue) /\ halted \in {"no", "fault"}
  BY <1>1 DEF Core
<1> HIDE DEF D
<1>3. CASE KeepRunning(D) /\ quantum_counter + 1 < SCHEDULER_QUANTUM
                          /\ D[current].status \in {"READY", "RUNNING"}
  <2>1. quantum_counter' \in 0..(SCHEDULER_QUANTUM - 1)
    BY <1>3, SchedulerAssumption DEF KeepRunning, Core
  <2> QED
    BY <1>1, <1>2, <1>3, <2>1 DEF KeepRunning, Core
<1>4. CASE Reap(D)
  <2> DEFINE W == scheduler_wake(D, queue, current)
             n == next_process(W, queue, process_queue_size, current)
  <2>1. Sound(W, queue) /\ DOMAIN W = DOMAIN pcb
    BY <1>1, WakeOK
  <2>2. n \in DOMAIN W /\ n # None
    <3> HIDE DEF W
    <3> QED
      BY <1>1, <1>2, <2>1, NextProcessOK
  <2>3. CASE SwitchTo(W, n) /\ UNCHANGED <<queue, process_queue_size>>
    <3> HIDE DEF W, n
    <3> QED
      BY <1>2, <2>1, <2>2, <2>3, SwitchOK
  <2>4. CASE /\ current \notin Protected /\ n # current
             /\ SwitchTo(Removed(W, queue, current, W[current].parent_pid), n)
             /\ queue' = Unlink(queue, current)
             /\ process_queue_size' = process_queue_size - 1
    <3> DEFINE R == Removed(W, queue, current, W[current].parent_pid)
    <3>1. current \in DOMAIN W \ Protected
      BY <1>1, <1>2, <2>1, <2>4
    <3>2. Sound(R, queue') /\ DOMAIN R = DOMAIN W \ {current}
      <4> HIDE DEF W
      <4> QED
        BY <2>1, <2>4, <3>1, RemovedOK
    <3>3. Len(queue') = Len(queue) - 1
      <4> HIDE DEF W
      <4> QED
        BY <2>1, <2>4, <3>1, UnlinkOK DEF Sound
    <3>4. n \in DOMAIN R
      BY <2>2, <2>4, <3>2
    <3> HIDE DEF R, n
    <3>5. SwitchTo(R, n) /\ process_queue_size' = Len(queue')
      BY <1>2, <2>4, <3>3 DEF R
    <3> HIDE DEF W
    <3> QED
      BY <1>2, <2>1, <3>2, <3>4, <3>5, SwitchOK
  <2> QED
    <3> HIDE DEF W, n
    <3>1. CASE current \in Protected \/ n = current
      BY <1>4, <2>2, <2>3, <3>1 DEF Reap, W, n
    <3>2. CASE ~(current \in Protected \/ n = current)
      BY <1>4, <2>2, <2>4, <3>2 DEF Reap, W, n
    <3> QED
      BY <3>1, <3>2
<1>5. CASE Preempt(D)
  <2> DEFINE n == next_process(D, queue, process_queue_size, current)
  <2>1. n \in DOMAIN D /\ n # None
    BY <1>1, <1>2, NextProcessOK
  <2>2. SwitchTo(D, n) /\ UNCHANGED <<queue, process_queue_size>>
    BY <1>5, <2>1 DEF Preempt
  <2> HIDE DEF n
  <2> QED
    BY <1>1, <1>2, <2>1, <2>2, SwitchOK
<1> QED
  BY <1>3, <1>4, <1>5 DEF update_scheduler, D

\* Changing PCBs without changing who is allocated, who is whose parent, and
\* without blocking idle.
LEMMA RowsOK ==
    ASSUME NEW P, NEW q, Sound(P, q), NEW R, DOMAIN R = DOMAIN P,
           \A p \in DOMAIN P : R[p] \in PCB /\ R[p].parent_pid = P[p].parent_pid,
           R[Idle].status # "WAITING"
    PROVE  Sound(R, q)
BY Zenon DEF Sound, Typed, Linked, Family, IdleReady, Protected

\* A process other than idle may block, in any of the blocking calls.
LEMMA BlockOK ==
    ASSUME Core, current # Idle,
           NEW w \in 0..MaxPid, NEW t \in 0..MaxSleep,
           NEW P, P \in {pcb, [pcb EXCEPT ![current].waiting_pid = w],
                              [pcb EXCEPT ![current].sleep_ticks = t]}
    PROVE  Sound(Block(P), queue) /\ DOMAIN Block(P) = DOMAIN pcb
<1>1. Sound(pcb, queue) /\ current \in DOMAIN pcb
  BY DEF Core
<1>2. \A p \in DOMAIN pcb : pcb[p] \in PCB
  BY <1>1 DEF Sound, Typed
<1>3. Idle \in DOMAIN pcb /\ pcb[Idle].status # "WAITING"
  BY <1>1 DEF Sound, IdleReady, Protected
<1>4. /\ DOMAIN P = DOMAIN pcb
      /\ \A p \in DOMAIN pcb : P[p] \in PCB /\ P[p].parent_pid = pcb[p].parent_pid
      /\ P[Idle].status = pcb[Idle].status
  BY <1>1, <1>2, <1>3 DEF PCB
<1> DEFINE B == Block(P)
<1>5. DOMAIN B = DOMAIN pcb
  BY <1>4 DEF Block
<1>6. \A p \in DOMAIN pcb : B[p] \in PCB /\ B[p].parent_pid = pcb[p].parent_pid
  BY <1>1, <1>4 DEF Block, PCB, Status
<1>7. B[Idle].status = pcb[Idle].status
  BY <1>1, <1>3, <1>4 DEF Block
<1> HIDE DEF B
<1>8. Sound(B, queue)
  BY <1>1, <1>3, <1>5, <1>6, <1>7, RowsOK
<1> QED
  BY <1>5, <1>8 DEF B

LEMMA TimerOK == ASSUME IInv, timer_handler_main PROVE Base'
<1>1. Core /\ Rest /\ Bounded
  BY IInvSplit
<1>2. Core' /\ DOMAIN pcb' \subseteq DOMAIN pcb
  BY <1>1, UpdateOK DEF timer_handler_main, Core
<1>3. Rest' /\ pid_static' = pid_static
  BY <1>1, Zenon DEF timer_handler_main, Rest
<1>4. Bounded'
  BY <1>1, <1>2, <1>3 DEF Bounded
<1> QED
  BY <1>2, <1>3, <1>4 DEF Base

LEMMA ExitOK == ASSUME IInv, handle_syscall_exit PROVE Base'
<1>1. Core /\ Rest /\ Bounded
  BY IInvSplit
<1> DEFINE P == IF current \in Protected THEN pcb ELSE [pcb EXCEPT ![current].status = "ZOMBIE"]
<1>2. Sound(P, queue) /\ DOMAIN P = DOMAIN pcb
  <2>1. "ZOMBIE" \in Status \ {"WAITING"} /\ Sound(pcb, queue) /\ current \in DOMAIN pcb
    BY <1>1 DEF Status, Core
  <2>2. P = pcb \/ P = SetStatus(pcb, current, "ZOMBIE")
    BY DEF SetStatus
  <2> HIDE DEF P
  <2> QED
    BY <2>1, <2>2, SetStatusOK
<1>3. update_scheduler(P)
  BY DEF handle_syscall_exit
<1>4. Core' /\ DOMAIN pcb' \subseteq DOMAIN pcb
  <2> HIDE DEF P
  <2> QED
    BY <1>1, <1>2, <1>3, UpdateOK
<1>5. Rest' /\ pid_static' = pid_static
  BY <1>1, Zenon DEF handle_syscall_exit, Rest
<1>6. Bounded'
  BY <1>1, <1>4, <1>5 DEF Bounded
<1> QED
  BY <1>4, <1>5, <1>6 DEF Base

LEMMA WaitOK == ASSUME IInv, NEW pid \in PidArgs, handle_syscall_wait(pid) PROVE Base'
<1>1. Core /\ Rest /\ Bounded
  BY IInvSplit
<1> DEFINE P == Block([pcb EXCEPT ![current].waiting_pid = pid])
<1>2. pid \in 0..MaxPid /\ 0 \in 0..MaxSleep /\ current # Idle
  BY SchedulerAssumption DEF handle_syscall_wait, Calling
<1>3. Sound(P, queue) /\ DOMAIN P = DOMAIN pcb
  BY <1>1, <1>2, BlockOK
<1>4. update_scheduler(P)
  BY DEF handle_syscall_wait
<1>5. Core' /\ DOMAIN pcb' \subseteq DOMAIN pcb
  <2> HIDE DEF P
  <2> QED
    BY <1>1, <1>3, <1>4, UpdateOK
<1>6. Rest' /\ pid_static' = pid_static
  BY <1>1, <1>2, Zenon DEF handle_syscall_wait, Rest
<1>7. Bounded'
  BY <1>1, <1>5, <1>6 DEF Bounded
<1> QED
  BY <1>5, <1>6, <1>7 DEF Base

LEMMA SleepOK == ASSUME IInv, NEW ticks \in 1..MaxSleep, handle_syscall_sleep(ticks) PROVE Base'
<1>1. Core /\ Rest /\ Bounded
  BY IInvSplit
<1> DEFINE P == Block([pcb EXCEPT ![current].sleep_ticks = ticks])
<1>2. ticks \in 0..MaxSleep /\ 0 \in 0..MaxPid /\ current # Idle
  BY SchedulerAssumption DEF handle_syscall_sleep, Calling
<1>3. Sound(P, queue) /\ DOMAIN P = DOMAIN pcb
  BY <1>1, <1>2, BlockOK
<1>4. update_scheduler(P)
  BY DEF handle_syscall_sleep
<1>5. Core' /\ DOMAIN pcb' \subseteq DOMAIN pcb
  <2> HIDE DEF P
  <2> QED
    BY <1>1, <1>3, <1>4, UpdateOK
<1>6. Rest' /\ pid_static' = pid_static
  BY <1>1, Zenon DEF handle_syscall_sleep, Rest
<1>7. Bounded'
  BY <1>1, <1>5, <1>6 DEF Bounded
<1> QED
  BY <1>5, <1>6, <1>7 DEF Base

LEMMA ForkOK == ASSUME IInv, handle_syscall_fork PROVE Base'
<1>1. Core /\ Rest /\ Bounded
  BY IInvSplit
<1>2. Sound(pcb, queue) /\ current \in DOMAIN pcb
  BY <1>1 DEF Core
<1> DEFINE n == pid_static
           R == [p \in Live \cup {n} |->
                   IF p = n THEN create_process_control_block(current) ELSE pcb[p]]
<1>3. /\ n \in 3..MaxPid /\ n \notin DOMAIN pcb
      /\ \A p \in DOMAIN pcb : p < n
      /\ DOMAIN pcb \subseteq 1..MaxPid
  BY <1>1, <1>2, SchedulerAssumption DEF Rest, Bounded, handle_syscall_fork, Sound, Linked
<1>4. /\ DOMAIN R = DOMAIN pcb \cup {n}
      /\ R[n] = create_process_control_block(current)
      /\ \A p \in DOMAIN pcb : R[p] = pcb[p]
  BY <1>3 DEF Live
<1> HIDE DEF R
<1>5. create_process_control_block(current) \in PCB
  BY <1>2, <1>3, SchedulerAssumption DEF create_process_control_block, PCB, Status
<1>6. create_process_control_block(current).parent_pid = current
  BY DEF create_process_control_block
<1>7. Typed(R)
  BY <1>2, <1>4, <1>5 DEF Sound, Typed
<1>8. Family(R)
  BY <1>2, <1>3, <1>4, <1>6 DEF Sound, Family
<1>9. IdleReady(R)
  BY <1>2, <1>3, <1>4, Zenon DEF Sound, IdleReady, Protected
<1>10. Linked(R, Append(queue, n))
  <2> DEFINE a == Append(queue, n)
             m == Len(queue)
  <2>1. queue \in Seq(1..MaxPid) /\ m \in Nat /\ DOMAIN queue = 1..m
    BY <1>2 DEF Sound, Linked
  <2>2. a \in Seq(1..MaxPid) /\ Len(a) = m + 1 /\ DOMAIN a = 1..(m + 1)
    BY <2>1, <1>3
  <2>3. a[m + 1] = n /\ \A i \in 1..m : a[i] = queue[i]
    BY <2>1
  <2>4. /\ \A i, j \in 1..m : queue[i] = queue[j] => i = j
        /\ {queue[i] : i \in 1..m} = DOMAIN pcb
    BY <1>2, <2>1 DEF Sound, Linked
  <2> HIDE DEF a, m
  <2>5. \A i \in 1..m : a[i] \in DOMAIN pcb
    BY <2>3, <2>4
  <2>6. \A i, j \in DOMAIN a : a[i] = a[j] => i = j
    BY <2>1, <2>2, <2>3, <2>4, <2>5, <1>3
  <2>7. \A p \in DOMAIN pcb : \E i \in DOMAIN a : a[i] = p
    BY <2>1, <2>2, <2>3, <2>4
  <2>8. \A i \in DOMAIN a : a[i] \in DOMAIN R
    BY <2>1, <2>2, <2>3, <2>5, <1>4
  <2>9. \A p \in DOMAIN R : \E i \in DOMAIN a : a[i] = p
    BY <2>1, <2>2, <2>3, <2>7, <1>4
  <2>10. {a[i] : i \in DOMAIN a} = DOMAIN R
    BY <2>8, <2>9
  <2>11. DOMAIN R \subseteq 1..MaxPid
    BY <1>3, <1>4
  <2> QED
    BY <2>2, <2>6, <2>10, <2>11 DEF Linked, a
<1>11. Sound(R, Append(queue, n))
  BY <1>7, <1>8, <1>9, <1>10 DEF Sound
<1>12. pcb' = R /\ queue' = Append(queue, n) /\ current' = current
  BY DEF handle_syscall_fork, R
<1>13. process_queue_size' = Len(queue')
  <2>1. queue \in Seq(1..MaxPid)
    BY <1>2 DEF Sound, Linked
  <2> QED
    BY <1>1, <2>1 DEF handle_syscall_fork, Core
<1>14. Core'
  <2>1. quantum_counter' = quantum_counter /\ halted' = halted
    BY DEF handle_syscall_fork
  <2>2. pcb'[current'].status # "WAITING" /\ current' \in DOMAIN pcb'
    BY <1>1, <1>4, <1>12 DEF Core
  <2> QED
    BY <1>1, <1>11, <1>12, <1>13, <2>1, <2>2 DEF Core
<1>15. Rest'
  <2>1. pid_static' \in 3..(MaxPid + 1)
    BY <1>3, SchedulerAssumption DEF handle_syscall_fork
  <2> QED
    BY <1>1, <2>1, Zenon DEF handle_syscall_fork, Rest
<1>16. Bounded'
  BY <1>1, <1>3, <1>4, <1>12 DEF handle_syscall_fork, Bounded
<1> QED
  BY <1>14, <1>15, <1>16 DEF Base

LEMMA KillOK == ASSUME IInv, NEW pid \in PidArgs, handle_syscall_kill(pid) PROVE Base'
<1>1. Core /\ Rest /\ Bounded
  BY IInvSplit
<1>2. /\ Sound(pcb, queue) /\ current \in DOMAIN pcb /\ process_queue_size = Len(queue)
      /\ pcb[current].status # "WAITING" /\ halted \in {"no", "fault"}
  BY <1>1 DEF Core
<1>3. /\ UNCHANGED <<current, quantum_counter, pid_static, foreground_pid, stdin>>
      /\ pid \notin Protected
  BY DEF handle_syscall_kill
<1>4. /\ Sound(pcb', queue') /\ DOMAIN pcb' \subseteq DOMAIN pcb /\ current \in DOMAIN pcb'
      /\ pcb'[current].status # "WAITING" /\ process_queue_size' = Len(queue')
      /\ halted' \in {"no", "fault"}
  <2>1. CASE pid = current /\ KillSelf
    <3>1. pcb' = SetStatus(pcb, current, "ZOMBIE")
      BY <2>1 DEF KillSelf, SetStatus
    <3>2. "ZOMBIE" \in Status \ {"WAITING"}
      BY DEF Status
    <3>3. /\ Sound(pcb', queue) /\ DOMAIN pcb' = DOMAIN pcb
          /\ pcb'[current].status = "ZOMBIE"
      BY <1>2, <3>1, <3>2, SetStatusOK
    <3> QED
      BY <1>2, <2>1, <3>3 DEF KillSelf
  <2>2. CASE pid \in Live \ {current} /\ KillOther(pid)
    <3>1. pid \in DOMAIN pcb \ Protected /\ pid # current
      BY <1>3, <2>2 DEF Live
    <3>2. /\ Sound(pcb', queue') /\ DOMAIN pcb' = DOMAIN pcb \ {pid}
          /\ \A p \in DOMAIN pcb' : pcb'[p].status = pcb[p].status
      <4> DEFINE R == Removed(pcb, queue, pid, pcb[pid].parent_pid)
      <4>1. pcb' = R /\ queue' = Unlink(queue, pid)
        BY <2>2 DEF KillOther
      <4>2. /\ Sound(R, Unlink(queue, pid)) /\ DOMAIN R = DOMAIN pcb \ {pid}
            /\ \A p \in DOMAIN R : R[p].status = pcb[p].status
        BY <1>2, <3>1, RemovedOK
      <4> HIDE DEF R
      <4> QED
        BY <4>1, <4>2
    <3>3. process_queue_size' = Len(queue')
      BY <1>2, <2>2, <3>1, UnlinkOK DEF KillOther, Sound
    <3> QED
      BY <1>2, <2>2, <3>1, <3>2, <3>3 DEF KillOther
  <2>3. CASE pid \notin Live /\ KillAbsent(pid)
    <3>1. CASE UNCHANGED <<pcb, queue, process_queue_size>> /\ halted' = "fault"
      BY <1>2, <3>1
    <3>2. ASSUME NEW g \in Garbage, pcb' = reparent_children(pcb, queue, pid, g),
                 UNCHANGED <<queue, process_queue_size, halted>>
          PROVE  /\ Sound(pcb', queue) /\ DOMAIN pcb' = DOMAIN pcb
                 /\ pcb'[current].status = pcb[current].status
      <4>1. /\ DOMAIN pcb' = DOMAIN pcb
            /\ \A p \in DOMAIN pcb :
                 /\ pcb'[p] \in PCB
                 /\ pcb'[p].status = pcb[p].status
                 /\ pcb'[p].parent_pid = IF pcb[p].parent_pid = pid THEN g
                                         ELSE pcb[p].parent_pid
        BY <1>2, <3>2, ReparentOK, SchedulerAssumption
      <4>2. \A p \in DOMAIN pcb \ Protected : pcb'[p].parent_pid = pcb[p].parent_pid
        BY <1>2, <2>3, <4>1 DEF Sound, Family, Live
      <4>3. Typed(pcb') /\ Linked(pcb', queue) /\ Family(pcb')
        BY <1>2, <4>1, <4>2, Zenon DEF Sound, Typed, Linked, Family
      <4>4. IdleReady(pcb')
        BY <1>2, <4>1, Zenon DEF Sound, IdleReady, Protected
      <4> QED
        BY <1>2, <4>1, <4>3, <4>4 DEF Sound
    <3> QED
      BY <1>2, <2>3, <3>1, <3>2 DEF KillAbsent
  <2> QED
    BY <2>1, <2>2, <2>3 DEF handle_syscall_kill
<1>5. Core'
  BY <1>1, <1>3, <1>4 DEF Core
<1>6. Rest' /\ Bounded'
  BY <1>1, <1>3, <1>4, Zenon DEF Rest, Bounded
<1> QED
  BY <1>5, <1>6 DEF Base

LEMMA ReadOK == ASSUME IInv, NEW len \in ReadLens, stdin_read(len) PROVE Base'
<1>1. Core /\ Rest /\ Bounded
  BY IInvSplit
<1>2. UNCHANGED <<pcb, queue, current, process_queue_size, quantum_counter,
                  pid_static, foreground_pid, halted>>
  BY DEF stdin_read
<1>3. Core' /\ Bounded'
  BY <1>1, <1>2, Zenon DEF Core, Bounded
<1>4. stdin.count \in Nat /\ len \in Nat /\ stdin.count - len \in Nat
  BY <1>1, SchedulerAssumption DEF Rest, stdin_read
<1>5. Rest'
  BY <1>1, <1>2, <1>4 DEF Rest, stdin_read
<1> QED
  BY <1>3, <1>5 DEF Base

LEMMA BlockedReadOK == ASSUME IInv, NEW len \in ReadLens, stdin_block_process(len) PROVE Base'
<1>1. Core /\ Rest /\ Bounded
  BY IInvSplit
<1> DEFINE P == Block(pcb)
<1>2. 0 \in 0..MaxSleep /\ 0 \in 0..MaxPid /\ current # Idle
  BY SchedulerAssumption DEF stdin_block_process, Calling
<1>3. Sound(P, queue) /\ DOMAIN P = DOMAIN pcb
  BY <1>1, <1>2, BlockOK
<1>4. update_scheduler(P)
  BY DEF stdin_block_process
<1>5. Core' /\ DOMAIN pcb' \subseteq DOMAIN pcb
  <2> HIDE DEF P
  <2> QED
    BY <1>1, <1>3, <1>4, UpdateOK
<1>6. current \in 1..MaxPid /\ len \in Nat
  BY <1>1, SchedulerAssumption DEF Core, Sound, Linked
<1>7. Rest' /\ pid_static' = pid_static
  <2>1. /\ stdin' = [stdin EXCEPT !.process = current, !.requested_len = len]
        /\ UNCHANGED <<pid_static, foreground_pid>>
    BY DEF stdin_block_process
  <2>2. stdin' \in [count: Nat, process: 0..MaxPid, requested_len: Nat \cup {-1}]
    <3>1. stdin \in [count: Nat, process: 0..MaxPid, requested_len: Nat \cup {-1}]
      BY <1>1 DEF Rest
    <3>2. current \in 0..MaxPid /\ len \in Nat \cup {-1}
      BY <1>6, SchedulerAssumption
    <3> QED
      BY <2>1, <3>1, <3>2
  <2>3. stdin'.process = current /\ stdin'.requested_len = len
    BY <1>1, <2>1 DEF Rest
  <2>4. stdin'.process # None /\ stdin'.requested_len # -1
    BY <1>6, <2>3 DEF None
  <2> QED
    BY <1>1, <2>1, <2>2, <2>4, Zenon DEF Rest
<1>8. Bounded'
  BY <1>1, <1>5, <1>7 DEF Bounded
<1> QED
  BY <1>5, <1>7, <1>8 DEF Base

\* A key may wake a reader, live or freed, and changes the count.
LEMMA KeyOK == ASSUME IInv, NEW key \in Keys, keyboard_handler_main(key) PROVE Base'
<1>1. Core /\ Rest /\ Bounded
  BY IInvSplit
<1>2. Sound(pcb, queue) /\ current \in DOMAIN pcb /\ pcb[current].status # "WAITING"
  BY <1>1 DEF Core
<1>3. UNCHANGED <<queue, current, process_queue_size, quantum_counter, pid_static, foreground_pid>>
  BY DEF keyboard_handler_main
<1>4. stdin.count \in Nat /\ stdin.requested_len \in Nat \cup {-1}
  BY <1>1 DEF Rest
<1>5. PICK n \in stdin_write(key) :
         \/ stdin_wake_process(n)
         \/ stdin' = [stdin EXCEPT !.count = n] /\ UNCHANGED <<pcb, halted>>
  BY Zenon DEF keyboard_handler_main
<1>6. n \in Nat
  BY <1>4, <1>5 DEF stdin_write
<1>7. ASSUME NEW r \in DOMAIN pcb, pcb' = [pcb EXCEPT ![r].status = "READY"]
      PROVE  /\ Sound(pcb', queue) /\ DOMAIN pcb' = DOMAIN pcb
             /\ pcb'[current].status # "WAITING"
  <2>1. pcb' = SetStatus(pcb, r, "READY") /\ "READY" \in Status \ {"WAITING"}
    BY <1>7 DEF SetStatus, Status
  <2> QED
    BY <1>2, <2>1, SetStatusOK
<1>8. /\ Sound(pcb', queue) /\ DOMAIN pcb' = DOMAIN pcb
      /\ pcb'[current].status # "WAITING"
      /\ halted' \in {halted, "fault"}
  <2>1. CASE UNCHANGED pcb /\ halted' \in {halted, "fault"}
    BY <1>2, <2>1
  <2>2. CASE UNCHANGED halted /\ \E r \in DOMAIN pcb : pcb' = [pcb EXCEPT ![r].status = "READY"]
    BY <1>7, <2>2
  <2> QED
    BY <1>5, <2>1, <2>2 DEF stdin_wake_process, Live
<1>9. Core'
  BY <1>1, <1>2, <1>3, <1>8 DEF Core
<1>10. Delivered(n) \in [count: Nat, process: 0..MaxPid, requested_len: Nat \cup {-1}]
  BY <1>4, <1>6, SchedulerAssumption DEF Delivered, None
<1>11. Delivered(n).process = None /\ Delivered(n).requested_len = -1
  BY DEF Delivered
<1>12. stdin' = Delivered(n) \/ stdin' = [stdin EXCEPT !.count = n]
  BY <1>5 DEF stdin_wake_process
<1>13. /\ stdin' \in [count: Nat, process: 0..MaxPid, requested_len: Nat \cup {-1}]
       /\ stdin'.process = None <=> stdin'.requested_len = -1
  BY <1>1, <1>6, <1>10, <1>11, <1>12 DEF Rest
<1>14. Rest' /\ Bounded'
  BY <1>1, <1>3, <1>8, <1>13, Zenon DEF Rest, Bounded
<1> QED
  BY <1>9, <1>14 DEF Base

LEMMA ChordOK == ASSUME IInv, handle_chords PROVE Base'
<1>1. Core /\ Rest /\ Bounded
  BY IInvSplit
<1>2. UNCHANGED <<pcb, queue, current, process_queue_size, quantum_counter,
                  pid_static, foreground_pid, halted>>
  BY DEF handle_chords
<1>3. Core' /\ Bounded'
  BY <1>1, <1>2, Zenon DEF Core, Bounded
<1>4. PICK n \in stdin_write("shift_enter") : stdin' = [stdin EXCEPT !.count = n]
  BY DEF handle_chords
<1>5. n \in Nat
  BY <1>1, <1>4 DEF stdin_write, Rest
<1>6. Rest'
  BY <1>1, <1>2, <1>4, <1>5 DEF Rest
<1> QED
  BY <1>3, <1>6 DEF Base

LEMMA SigintOK == ASSUME IInv, sigint_foreground PROVE Base'
<1>1. Core /\ Rest /\ Bounded
  BY IInvSplit
<1>2. Sound(pcb, queue) /\ current \in DOMAIN pcb /\ pcb[current].status # "WAITING"
  BY <1>1 DEF Core
<1>3. /\ UNCHANGED <<queue, current, process_queue_size, quantum_counter, pid_static, halted>>
      /\ foreground_pid' = 0
  BY DEF sigint_foreground
<1>4. /\ Sound(pcb', queue) /\ DOMAIN pcb' = DOMAIN pcb
      /\ pcb'[current].status # "WAITING"
  <2>1. CASE foreground_pid \in DOMAIN pcb
    <3>1. pcb' = SetStatus(pcb, foreground_pid, "ZOMBIE") /\ "ZOMBIE" \in Status \ {"WAITING"}
      BY <2>1 DEF sigint_foreground, SetStatus, Status, Live
    <3> QED
      BY <1>2, <2>1, <3>1, SetStatusOK
  <2>2. CASE foreground_pid \notin DOMAIN pcb
    BY <1>2, <2>2 DEF sigint_foreground, Live
  <2> QED
    BY <2>1, <2>2
<1>5. Core'
  BY <1>1, <1>3, <1>4 DEF Core
<1>6. /\ stdin' \in [count: Nat, process: 0..MaxPid, requested_len: Nat \cup {-1}]
      /\ stdin'.process = None <=> stdin'.requested_len = -1
  <2>1. PICK clears \in BOOLEAN :
           stdin' = IF clears THEN [count |-> 0, process |-> None, requested_len |-> -1]
                    ELSE [stdin EXCEPT !.count = 0]
    BY Zenon DEF sigint_foreground
  <2> QED
    BY <1>1, <2>1, SchedulerAssumption DEF Rest, None
<1>7. foreground_pid' \in 0..MaxPid
  BY <1>3, SchedulerAssumption
<1>8. Rest' /\ Bounded'
  BY <1>1, <1>3, <1>4, <1>6, <1>7, Zenon DEF Rest, Bounded
<1> QED
  BY <1>5, <1>8 DEF Base

LEMMA InitOK == ASSUME Init PROVE IInv
<1>1. /\ DOMAIN pcb = {1, 2} /\ queue = <<2, 1>> /\ current = 2
      /\ \A p \in {1, 2} : /\ pcb[p] \in PCB
                           /\ pcb[p].status # "WAITING"
  BY SchedulerAssumption DEF Init, Idle, Main, create_process_control_block, PCB, Status
<1>2. /\ DOMAIN queue = 1..2 /\ Len(queue) = 2 /\ queue[1] = 2 /\ queue[2] = 1
      /\ queue \in Seq(1..MaxPid)
  BY <1>1, SchedulerAssumption
<1>3. Linked(pcb, queue)
  <2>1. {queue[i] : i \in DOMAIN queue} = {1, 2}
    BY <1>2
  <2> QED
    BY <1>1, <1>2, <2>1, SchedulerAssumption DEF Linked
<1>4. Typed(pcb) /\ Family(pcb) /\ IdleReady(pcb)
  BY <1>1 DEF Typed, Family, IdleReady, Protected, Idle, Main
<1>5. Core
  BY <1>1, <1>2, <1>3, <1>4, SchedulerAssumption DEF Init, Core, Sound
<1>6. Rest /\ Bounded
  BY <1>1, SchedulerAssumption DEF Init, Rest, Bounded, None
<1>7. Saved
  BY SchedulerAssumption DEF Init, Saved, Wait, NoCall, Call
<1> QED
  BY <1>5, <1>6, <1>7, IInvSplit

\* The saved calls stay typed, whatever call blocks.
LEMMA SaveOK ==
    ASSUME NEW w \in [1..MaxPid -> Wait], SaveRegisters(w)
    PROVE  Saved'
<1>1. NoCall \in Wait
  BY SchedulerAssumption DEF NoCall, Call, Wait
<1> QED
  BY <1>1 DEF SaveRegisters, Saved

LEMMA SavedOK == ASSUME IInv, Next PROVE Saved'
<1>1. Saved /\ current \in 1..MaxPid
  BY IInvSplit DEF Core, Sound, Linked
<1>2. \A name \in {"waitpid", "sleep", "read"} : \A arg \in 0..MaxPid :
         [waits EXCEPT ![current] = Call(name, arg)] \in [1..MaxPid -> Wait]
  BY <1>1 DEF Saved, Wait, Call
<1>3. 0 \in 0..MaxPid /\ PidArgs \subseteq 0..MaxPid
  BY SchedulerAssumption
<1>4. waits \in [1..MaxPid -> Wait]
  BY <1>1 DEF Saved
<1>5. CASE timer_handler_main
  BY <1>4, <1>5, SaveOK DEF timer_handler_main
<1>6. CASE Syscall
  <2>1. CASE handle_syscall_exit
    BY <1>4, <2>1, SaveOK DEF handle_syscall_exit
  <2>2. CASE handle_syscall_fork
    BY <1>4, <2>2 DEF handle_syscall_fork, Saved
  <2>3. ASSUME NEW pid \in PidArgs, handle_syscall_kill(pid) PROVE Saved'
    BY <1>4, <2>3, SaveOK DEF handle_syscall_kill
  <2>4. ASSUME NEW pid \in PidArgs, handle_syscall_wait(pid) PROVE Saved'
    BY <1>2, <1>3, <2>4, SaveOK DEF handle_syscall_wait
  <2>5. ASSUME NEW ticks \in 1..MaxSleep, handle_syscall_sleep(ticks) PROVE Saved'
    BY <1>2, <1>3, <2>5, SaveOK DEF handle_syscall_sleep
  <2>6. ASSUME NEW len \in ReadLens, stdin_read(len) PROVE Saved'
    BY <1>4, <2>6 DEF stdin_read, Saved
  <2>7. ASSUME NEW len \in ReadLens, stdin_block_process(len) PROVE Saved'
    BY <1>2, <1>3, <2>7, SaveOK DEF stdin_block_process
  <2> QED
    BY <1>6, <2>1, <2>2, <2>3, <2>4, <2>5, <2>6, <2>7 DEF Syscall
<1>7. CASE Key
  <2>1. ASSUME NEW key \in Keys, keyboard_handler_main(key) PROVE Saved'
    BY <1>4, <2>1, SaveOK DEF keyboard_handler_main
  <2>2. CASE handle_chords
    BY <1>4, <2>2 DEF handle_chords, Saved
  <2>3. CASE sigint_foreground
    BY <1>4, <2>3, SaveOK DEF sigint_foreground
  <2> QED
    BY <1>7, <2>1, <2>2, <2>3 DEF Key
<1> QED
  BY <1>5, <1>6, <1>7 DEF Next

\* IInv is inductive: one case per interrupt, key and system call.
THEOREM IInvInductive == IInv /\ [Next]_vars => IInv'
<1> SUFFICES ASSUME IInv, [Next]_vars PROVE IInv'
  OBVIOUS
<1>1. ASSUME Next PROVE Base'
  <2>1. CASE timer_handler_main
    BY <2>1, TimerOK
  <2>2. CASE Syscall
    BY <2>2, ExitOK, ForkOK, KillOK, WaitOK, SleepOK, ReadOK, BlockedReadOK DEF Syscall
  <2>3. CASE Key
    BY <2>3, KeyOK, ChordOK, SigintOK DEF Key
  <2> QED
    BY <1>1, <2>1, <2>2, <2>3 DEF Next
<1>2. CASE Next
  <2>1. Base' /\ Saved'
    BY <1>1, <1>2, SavedOK
  <2>2. Core' /\ Rest' /\ Bounded' /\ Saved'
    BY <2>1 DEF Base
  <2> QED
    BY <2>2, IInvSplit, PTL
<1>3. CASE UNCHANGED vars
  <2>1. Core /\ Rest /\ Bounded /\ Saved
    BY IInvSplit
  <2>2. Core' /\ Rest' /\ Bounded' /\ Saved'
    BY <1>3, <2>1, Zenon DEF vars, Core, Rest, Bounded, Saved
  <2> QED
    BY <2>2, IInvSplit, PTL
<1> QED
  BY <1>2, <1>3

\* Type correctness of the scheduler's state.
THEOREM TypeCorrect == Spec => []TypeOK
<1>1. Init => IInv
  BY InitOK
<1>2. IInv => TypeOK
  BY DEF IInv
<1> QED
  BY <1>1, <1>2, IInvInductive, PTL DEF Spec

\* The process list: every allocated PCB is linked exactly once,
\* process_queue_size counts them, and current_process is never a freed PCB,
\* for every number of processes and any interleaving of exit, kill, reaping,
\* Ctrl+C and late key wake-ups.
THEOREM ListCorrect == Spec => []ListMatchesPCBs
<1>1. Init => IInv
  BY InitOK
<1>2. IInv => ListMatchesPCBs
  BY DEF IInv
<1> QED
  BY <1>1, <1>2, IInvInductive, PTL DEF Spec

\* next_process never reaches its error loop, and what it dispatches is not
\* blocked: the scheduler itself cannot stop the machine.
THEOREM SchedulerNeverStuck == Spec => [](NextProcessFinds /\ CurrentNotBlocked)
<1>1. Init => IInv
  BY InitOK
<1>2. IInv => NextProcessFinds /\ CurrentNotBlocked
  BY DEF IInv
<1> QED
  BY <1>1, <1>2, IInvInductive, PTL DEF Spec

\* Reparenting never leaves an orphan or a cycle of parents.
THEOREM NoOrphans == Spec => []ParentsAlive
<1>1. Init => IInv
  BY InitOK
<1>2. IInv => ParentsAlive
  BY DEF IInv
<1> QED
  BY <1>1, <1>2, IInvInductive, PTL DEF Spec

(***************************************************************************)
(* What a handler may do to the process it takes the CPU from and to the   *)
(* one it gives it to.                                                     *)
(***************************************************************************)

\* The two action properties, as one step states them.
ResumeStep ==
    \A p \in Live : Resumed(p) =>
        \/ CallEnds(p)
        \/ sigint_foreground /\ p = foreground_pid
        \/ LeftOver(p)

ZombieStep ==
    \A p \in DOMAIN pcb' :
        pcb'[p].status = "ZOMBIE" /\ p # current' =>
            \/ p \in Protected
            \/ sigint_foreground /\ p = foreground_pid
            \/ p \in Live /\ pcb[p].status = "ZOMBIE" /\ p # current

\* What resumes a process in update_scheduler: a tick, or the process that
\* leaves the CPU as a ZOMBIE.  Either its own call ends there, or the ticks
\* or the waiting_pid are left over.
LEMMA ResumeCauses ==
    ASSUME Core,
           \A p \in Live : Resumed(p) =>
               \/ pcb[p].sleep_ticks = 1
               \/ /\ pcb[p].waiting_pid = current
                  /\ current \notin DOMAIN pcb' \/ pcb[current].status = "ZOMBIE"
    PROVE  ResumeStep
<1> SUFFICES ASSUME NEW p \in Live, Resumed(p) PROVE CallEnds(p) \/ LeftOver(p)
  BY DEF ResumeStep
<1>1. CASE pcb[p].sleep_ticks = 1
  BY <1>1 DEF CallEnds, LeftOver
<1>2. CASE /\ pcb[p].waiting_pid = current
           /\ current \notin DOMAIN pcb' \/ pcb[current].status = "ZOMBIE"
  BY <1>2 DEF CallEnds, LeftOver, Core, Live
<1> QED
  BY <1>1, <1>2

\* A tick changes a status from WAITING to READY only, and only when the
\* sleep ends on it.
LEMMA DecrementStatus ==
    ASSUME NEW P, NEW q, Sound(P, q), NEW p \in DOMAIN P
    PROVE  LET D == decrement_wait_process(P)
           IN  /\ D[p].waiting_pid = P[p].waiting_pid
               /\ D[p].status # P[p].status =>
                     P[p].sleep_ticks = 1 /\ P[p].status = "WAITING" /\ D[p].status = "READY"
<1> DEFINE D == decrement_wait_process(P)
<1>1. P[p] \in PCB
  BY DEF Sound, Typed
<1>2. D[p] = [P[p] EXCEPT !.sleep_ticks = IF @ > 0 THEN @ - 1 ELSE 0,
                          !.status = IF P[p].sleep_ticks = 1 /\ @ = "WAITING"
                                     THEN "READY" ELSE @]
  BY DEF decrement_wait_process
<1> HIDE DEF D
<1>3. /\ D[p].waiting_pid = P[p].waiting_pid
      /\ D[p].status = IF P[p].sleep_ticks = 1 /\ P[p].status = "WAITING"
                       THEN "READY" ELSE P[p].status
  BY <1>1, <1>2 DEF PCB
<1> QED
  BY <1>3 DEF D

\* scheduler_wake makes READY a process that waits for the pid, or nobody.
LEMMA WakeStatus ==
    ASSUME NEW P, NEW q, Sound(P, q), NEW pid, NEW p \in DOMAIN P
    PROVE  LET W == scheduler_wake(P, q, pid)
           IN  W[p].status # P[p].status => P[p].waiting_pid = pid /\ W[p].status = "READY"
<1> DEFINE S == {i \in DOMAIN q : P[q[i]].waiting_pid = pid}
<1>1. CASE S = {}
  BY <1>1 DEF scheduler_wake
<1>2. CASE S # {}
  <2>1. S \in SUBSET Nat
    BY DEF Sound, Linked
  <2>2. Least(S) \in S
    BY <1>2, <2>1, LeastInSet
  <2>3. q[Least(S)] \in DOMAIN P /\ P[q[Least(S)]].waiting_pid = pid
    BY <2>2 DEF Sound, Linked
  <2>4. scheduler_wake(P, q, pid) = SetStatus(P, q[Least(S)], "READY")
    BY <1>2 DEF scheduler_wake, SetStatus
  <2>5. "READY" \in Status \ {"WAITING"}
    BY DEF Status
  <2> HIDE DEF S
  <2>6. scheduler_wake(P, q, pid)[p].status = IF p = q[Least(S)] THEN "READY" ELSE P[p].status
    BY <2>3, <2>4, <2>5, SetStatusOK
  <2> QED
    BY <2>3, <2>6
<1> QED
  BY <1>1, <1>2

\* The processes that remain keep their statuses when one is removed.
LEMMA RemovedStatus ==
    ASSUME NEW P, NEW q, Sound(P, q), NEW pid \in DOMAIN P \ Protected,
           NEW p \in DOMAIN P \ {pid}
    PROVE  Removed(P, q, pid, P[pid].parent_pid)[p].status = P[p].status
<1> DEFINE R == Removed(P, q, pid, P[pid].parent_pid)
<1>1. /\ DOMAIN R = DOMAIN P \ {pid}
      /\ \A x \in DOMAIN R : R[x].status = P[x].status
  BY RemovedOK
<1> HIDE DEF R
<1>2. R[p].status = P[p].status
  BY <1>1
<1> QED
  BY <1>2 DEF R

\* update_scheduler, entered with a table P that differs from the PCBs in the
\* current process only, and in which idle and main are no ZOMBIE they were
\* not before.
LEMMA UpdateSteps ==
    ASSUME NEW P, Sound(P, queue), DOMAIN P = DOMAIN pcb, Core, update_scheduler(P),
           \A p \in DOMAIN pcb \ {current} : P[p] = pcb[p],
           P[current].status = "ZOMBIE" /\ current \in Protected =>
               pcb[current].status = "ZOMBIE",
           P[current].status = "ZOMBIE" => pcb[current].status = "ZOMBIE" \/ current # Idle
    PROVE  ResumeStep /\ ZombieStep
<1> DEFINE D == decrement_wait_process(P)
<1>1. Sound(D, queue) /\ DOMAIN D = DOMAIN pcb
  BY DecrementOK
<1>2. /\ current \in DOMAIN pcb /\ process_queue_size = Len(queue)
      /\ pcb[current].status # "WAITING"
  BY DEF Core
<1>3. \A p \in DOMAIN pcb :
         /\ D[p].waiting_pid = P[p].waiting_pid
         /\ D[p].status # P[p].status =>
               P[p].sleep_ticks = 1 /\ P[p].status = "WAITING" /\ D[p].status = "READY"
  BY DecrementStatus
<1> HIDE DEF D
<1>4. \A p \in DOMAIN pcb : D[p].status = "ZOMBIE" => P[p].status = "ZOMBIE"
  BY <1>3
<1>5. \A p \in DOMAIN pcb \ {current} :
         pcb[p].status = "WAITING" /\ D[p].status # "WAITING" => pcb[p].sleep_ticks = 1
  BY <1>3
<1>6. CASE KeepRunning(D)
  <2>1. pcb' = D /\ current' = current
    BY <1>6 DEF KeepRunning
  <2> QED
    BY <1>1, <1>2, <1>4, <1>5, <2>1, ResumeCauses DEF Resumed, ZombieStep, Live
<1>7. CASE Reap(D) /\ D[current].status = "ZOMBIE"
  <2> DEFINE W == scheduler_wake(D, queue, current)
             n == next_process(W, queue, process_queue_size, current)
             R == Removed(W, queue, current, W[current].parent_pid)
  <2>1. Sound(W, queue) /\ DOMAIN W = DOMAIN pcb
    BY <1>1, WakeOK
  <2>2. \A p \in DOMAIN pcb :
           W[p].status # D[p].status => D[p].waiting_pid = current /\ W[p].status = "READY"
    BY <1>1, WakeStatus
  <2>3. /\ n \in DOMAIN pcb /\ n # None /\ W[n].status # "WAITING"
        /\ current # Idle => n # current
    <3> HIDE DEF W
    <3> QED
      BY <1>2, <2>1, NextProcessOK
  <2>4. ASSUME current \in DOMAIN W \ Protected
        PROVE  /\ Sound(R, Unlink(queue, current))
               /\ DOMAIN R = DOMAIN W \ {current}
               /\ \A p \in DOMAIN R : R[p].status = W[p].status
    <3> DEFINE u == Unlink(queue, current)
    <3> HIDE DEF W, n
    <3>1. Sound(R, u)
      BY <2>1, <2>4, RemovedOK
    <3>2. DOMAIN R = DOMAIN W \ {current}
      BY <2>1, <2>4, RemovedOK
    <3>3. ASSUME NEW p \in DOMAIN R PROVE R[p].status = W[p].status
      BY <2>1, <2>4, <3>2, RemovedStatus
    <3> QED
      BY <3>1, <3>2, <3>3
  <2>5. \/ /\ current \in Protected \/ n = current
           /\ SwitchTo(W, n)
        \/ /\ current \notin Protected /\ n # current
           /\ SwitchTo(R, n)
    <3>1. CASE current \in Protected \/ n = current
      <4> HIDE DEF W, n, R
      <4> QED
        BY <1>7, <2>3, <3>1 DEF Reap, W, n, R
    <3>2. CASE ~(current \in Protected \/ n = current)
      <4> HIDE DEF W, n, R
      <4> QED
        BY <1>7, <2>3, <3>2 DEF Reap, W, n, R
    <3> QED
      BY <3>1, <3>2
  <2> HIDE DEF W, n, R
  <2>6. current' = n
    BY <2>5 DEF SwitchTo
  <2>7. \A p \in DOMAIN pcb :
           pcb[p].status = "WAITING" /\ W[p].status # "WAITING" =>
               pcb[p].sleep_ticks = 1 \/ pcb[p].waiting_pid = current
    BY <1>2, <1>3, <1>5, <2>2
  <2>8. \A p \in DOMAIN pcb \ {current} :
           W[p].status = "ZOMBIE" => p \in Live /\ pcb[p].status = "ZOMBIE"
    BY <1>4, <2>2 DEF Live
  <2>9. CASE (current \in Protected \/ n = current) /\ SwitchTo(W, n)
    <3>1. pcb' = SetStatus(W, n, "RUNNING") /\ "RUNNING" \in Status \ {"WAITING"}
      BY <2>9 DEF SwitchTo, SetStatus, Status
    <3>2. /\ DOMAIN pcb' = DOMAIN pcb
          /\ \A p \in DOMAIN pcb' : p # n => pcb'[p].status = W[p].status
      BY <2>1, <2>3, <3>1, SetStatusOK
    <3>3. pcb[current].status = "ZOMBIE"
      BY <1>2, <1>4, <1>7, <2>3, <2>9 DEF Protected
    <3>4. ResumeStep
      BY <2>3, <2>7, <3>2, <3>3, ResumeCauses DEF Resumed, Live
    <3>5. ZombieStep
      BY <2>6, <2>8, <2>9, <3>2 DEF ZombieStep
    <3> QED
      BY <3>4, <3>5
  <2>10. CASE current \notin Protected /\ n # current /\ SwitchTo(R, n)
    <3>1. /\ Sound(R, Unlink(queue, current)) /\ DOMAIN R = DOMAIN pcb \ {current}
          /\ \A p \in DOMAIN R : R[p].status = W[p].status
      BY <1>2, <2>1, <2>4, <2>10
    <3>2. pcb' = SetStatus(R, n, "RUNNING") /\ "RUNNING" \in Status \ {"WAITING"}
      BY <2>10 DEF SwitchTo, SetStatus, Status
    <3>3. /\ DOMAIN pcb' = DOMAIN pcb \ {current}
          /\ \A p \in DOMAIN pcb' : p # n => pcb'[p].status = W[p].status
      <4>1. n \in DOMAIN R
        BY <2>3, <2>10, <3>1
      <4> DEFINE u == Unlink(queue, current)
      <4>3. Sound(R, u)
        BY <3>1
      <4> HIDE DEF u
      <4>2. /\ DOMAIN pcb' = DOMAIN R
            /\ \A p \in DOMAIN R : pcb'[p].status = IF p = n THEN "RUNNING" ELSE R[p].status
        BY <3>2, <4>1, <4>3, SetStatusOK
      <4> QED
        BY <3>1, <4>2
    <3>4. ResumeStep
      BY <2>3, <2>7, <3>3, ResumeCauses DEF Resumed, Live
    <3>5. ZombieStep
      BY <2>6, <2>8, <3>3 DEF ZombieStep
    <3> QED
      BY <3>4, <3>5
  <2> QED
    BY <2>5, <2>9, <2>10
<1>8. CASE Preempt(D) /\ D[current].status # "ZOMBIE"
  <2> DEFINE n == next_process(D, queue, process_queue_size, current)
  <2>1. n \in DOMAIN D /\ n # None /\ D[n].status # "WAITING"
    BY <1>1, <1>2, NextProcessOK
  <2>2. SwitchTo(D, n)
    BY <1>8, <2>1 DEF Preempt
  <2> HIDE DEF n
  <2>3. /\ current' = n /\ pcb' = SetStatus(D, n, "RUNNING")
        /\ "RUNNING" \in Status \ {"WAITING"}
    BY <2>2 DEF SwitchTo, SetStatus, Status
  <2>4. /\ DOMAIN pcb' = DOMAIN pcb
        /\ \A p \in DOMAIN pcb' : p # n => pcb'[p].status = D[p].status
    BY <1>1, <2>1, <2>3, SetStatusOK
  <2>5. ResumeStep
    BY <1>1, <1>2, <1>5, <2>1, <2>4, ResumeCauses DEF Resumed, Live
  <2>6. ZombieStep
    BY <1>4, <1>8, <2>3, <2>4 DEF ZombieStep, Live
  <2> QED
    BY <2>5, <2>6
<1> QED
  BY <1>6, <1>7, <1>8 DEF update_scheduler, D

\* A blocking call hands update_scheduler such a table.
LEMMA BlockRows ==
    ASSUME Core, NEW w \in 0..MaxPid, NEW t \in 0..MaxSleep,
           NEW P, P \in {pcb, [pcb EXCEPT ![current].waiting_pid = w],
                              [pcb EXCEPT ![current].sleep_ticks = t]}
    PROVE  /\ \A p \in DOMAIN pcb \ {current} : Block(P)[p] = pcb[p]
           /\ Block(P)[current].status = "ZOMBIE" => pcb[current].status = "ZOMBIE"
<1>1. current \in DOMAIN pcb /\ pcb[current] \in PCB
  BY DEF Core, Sound, Typed
<1>2. /\ DOMAIN P = DOMAIN pcb /\ P[current] \in PCB
      /\ P[current].status = pcb[current].status
      /\ \A p \in DOMAIN pcb \ {current} : P[p] = pcb[p]
  BY <1>1 DEF PCB
<1> QED
  BY <1>1, <1>2 DEF Block, PCB

\* The handlers that call update_scheduler.
LEMMA SwitchingSteps ==
    ASSUME IInv,
           \/ timer_handler_main
           \/ handle_syscall_exit
           \/ \E pid \in PidArgs : handle_syscall_wait(pid)
           \/ \E ticks \in 1..MaxSleep : handle_syscall_sleep(ticks)
           \/ \E len \in ReadLens : stdin_block_process(len)
    PROVE  ResumeStep /\ ZombieStep
<1>1. Core
  BY IInvSplit
<1>2. Sound(pcb, queue) /\ current \in DOMAIN pcb
  BY <1>1 DEF Core
<1>3. CASE timer_handler_main
  BY <1>1, <1>2, <1>3, UpdateSteps DEF timer_handler_main, Core
<1>4. CASE handle_syscall_exit
  <2> DEFINE P == IF current \in Protected THEN pcb ELSE [pcb EXCEPT ![current].status = "ZOMBIE"]
  <2>1. Sound(P, queue) /\ DOMAIN P = DOMAIN pcb
    <3>1. "ZOMBIE" \in Status \ {"WAITING"}
      BY DEF Status
    <3>2. P = pcb \/ P = SetStatus(pcb, current, "ZOMBIE")
      BY DEF SetStatus
    <3> HIDE DEF P
    <3> QED
      BY <1>2, <3>1, <3>2, SetStatusOK
  <2>2. update_scheduler(P)
    BY <1>4 DEF handle_syscall_exit
  <2>3. /\ \A p \in DOMAIN pcb \ {current} : P[p] = pcb[p]
        /\ current \in Protected => P = pcb
        /\ P[current].status = "ZOMBIE" => pcb[current].status = "ZOMBIE" \/ current # Idle
    BY DEF Protected
  <2> HIDE DEF P
  <2> QED
    BY <1>1, <2>1, <2>2, <2>3, UpdateSteps
<1>5. ASSUME NEW w \in 0..MaxPid, NEW t \in 0..MaxSleep, current # Idle,
             NEW Q, Q \in {pcb, [pcb EXCEPT ![current].waiting_pid = w],
                                [pcb EXCEPT ![current].sleep_ticks = t]},
             update_scheduler(Block(Q))
      PROVE  ResumeStep /\ ZombieStep
  <2> DEFINE P == Block(Q)
  <2>1. Sound(P, queue) /\ DOMAIN P = DOMAIN pcb
    BY <1>1, <1>5, BlockOK
  <2>2. /\ \A p \in DOMAIN pcb \ {current} : P[p] = pcb[p]
        /\ P[current].status = "ZOMBIE" => pcb[current].status = "ZOMBIE"
    BY <1>1, <1>5, BlockRows
  <2> HIDE DEF P
  <2>3. update_scheduler(P)
    BY <1>5 DEF P
  <2> QED
    BY <1>1, <2>1, <2>2, <2>3, UpdateSteps
<1>6. 0 \in 0..MaxPid /\ 0 \in 0..MaxSleep /\ PidArgs \subseteq 0..MaxPid /\ 1..MaxSleep \subseteq 0..MaxSleep
  BY SchedulerAssumption
<1>7. ASSUME NEW pid \in PidArgs, handle_syscall_wait(pid) PROVE ResumeStep /\ ZombieStep
  BY <1>5, <1>6, <1>7, Zenon DEF handle_syscall_wait, Calling
<1>8. ASSUME NEW ticks \in 1..MaxSleep, handle_syscall_sleep(ticks)
      PROVE  ResumeStep /\ ZombieStep
  BY <1>5, <1>6, <1>8, Zenon DEF handle_syscall_sleep, Calling
<1>9. ASSUME NEW len \in ReadLens, stdin_block_process(len) PROVE ResumeStep /\ ZombieStep
  BY <1>5, <1>6, <1>9, Zenon DEF stdin_block_process, Calling
<1> QED
  BY <1>3, <1>4, <1>7, <1>8, <1>9

\* A handler that leaves `current' and the statuses of the other processes
\* alone resumes nobody and leaves no ZOMBIE.
LEMMA QuietSteps ==
    ASSUME IInv, current' = current,
           \A p \in DOMAIN pcb' \ {current} :
               IF p \in DOMAIN pcb THEN pcb'[p].status = pcb[p].status
               ELSE pcb'[p].status = "READY"
    PROVE  ResumeStep /\ ZombieStep
<1>1. pcb[current].status # "WAITING"
  BY IInvSplit DEF Core
<1> QED
  BY <1>1 DEF ResumeStep, Resumed, ZombieStep, Live

LEMMA ForkSteps == ASSUME IInv, handle_syscall_fork PROVE ResumeStep /\ ZombieStep
<1>1. current' = current
  BY DEF handle_syscall_fork
<1>2. pcb' = [p \in Live \cup {pid_static} |->
                IF p = pid_static THEN create_process_control_block(current) ELSE pcb[p]]
  BY DEF handle_syscall_fork
<1>3. create_process_control_block(current).status = "READY"
  BY DEF create_process_control_block
<1>4. pid_static \notin DOMAIN pcb
  BY IInvSplit DEF Bounded, Rest
<1>5. \A p \in DOMAIN pcb' \ {current} :
          IF p \in DOMAIN pcb THEN pcb'[p].status = pcb[p].status
          ELSE pcb'[p].status = "READY"
  BY <1>2, <1>3, <1>4 DEF Live
<1> QED
  BY <1>1, <1>5, QuietSteps

LEMMA KillSteps ==
    ASSUME IInv, NEW pid \in PidArgs, handle_syscall_kill(pid)
    PROVE  ResumeStep /\ ZombieStep
<1>1. Core
  BY IInvSplit
<1>2. Sound(pcb, queue) /\ current \in DOMAIN pcb
  BY <1>1 DEF Core
<1>3. current' = current /\ pid \notin Protected
  BY DEF handle_syscall_kill
<1>4. \A p \in DOMAIN pcb' \ {current} : p \in DOMAIN pcb /\ pcb'[p].status = pcb[p].status
  <2>1. CASE pid = current /\ KillSelf
    <3>1. pcb' = SetStatus(pcb, current, "ZOMBIE") /\ "ZOMBIE" \in Status \ {"WAITING"}
      BY <2>1 DEF KillSelf, SetStatus, Status
    <3>2. /\ DOMAIN pcb' = DOMAIN pcb
          /\ \A p \in DOMAIN pcb :
                pcb'[p].status = IF p = current THEN "ZOMBIE" ELSE pcb[p].status
      BY <1>2, <3>1, SetStatusOK
    <3> QED
      BY <3>2
  <2>2. CASE pid \in Live \ {current} /\ KillOther(pid)
    <3> DEFINE R == Removed(pcb, queue, pid, pcb[pid].parent_pid)
    <3>1. pid \in DOMAIN pcb \ Protected
      BY <1>3, <2>2 DEF Live
    <3>2. DOMAIN R = DOMAIN pcb \ {pid}
      BY <1>2, <3>1, RemovedOK
    <3>3. ASSUME NEW p \in DOMAIN pcb \ {pid} PROVE R[p].status = pcb[p].status
      BY <1>2, <3>1, RemovedStatus
    <3>4. pcb' = R
      BY <2>2 DEF KillOther
    <3> HIDE DEF R
    <3> QED
      BY <3>2, <3>3, <3>4
  <2>3. CASE KillAbsent(pid)
    <3>1. CASE UNCHANGED pcb
      BY <3>1
    <3>2. ASSUME NEW g \in Garbage, pcb' = reparent_children(pcb, queue, pid, g)
          PROVE  DOMAIN pcb' = DOMAIN pcb /\ \A p \in DOMAIN pcb : pcb'[p].status = pcb[p].status
      BY <1>2, <3>2, ReparentOK, SchedulerAssumption
    <3> QED
      BY <2>3, <3>1, <3>2 DEF KillAbsent
  <2> QED
    BY <2>1, <2>2, <2>3 DEF handle_syscall_kill
<1> QED
  BY <1>3, <1>4, QuietSteps

\* A key resumes the reader whose characters or whose Enter it is, or what
\* the memory of a freed reader belongs to now.
LEMMA ReaderSteps ==
    ASSUME IInv, NEW key \in Keys, keyboard_handler_main(key)
    PROVE  ResumeStep /\ ZombieStep
<1>1. Sound(pcb, queue) /\ pcb[current].status # "WAITING"
  BY IInvSplit DEF Core
<1>2. stdin \in [count: Nat, process: 0..MaxPid, requested_len: Nat \cup {-1}]
  BY IInvSplit DEF Rest
<1>3. current' = current /\ "READY" \in Status \ {"WAITING"}
  BY DEF keyboard_handler_main, Status
<1>4. PICK n \in stdin_write(key) :
         \/ /\ stdin_wake_process(n) /\ stdin.process # None
            /\ stdin.requested_len <= n \/ key = "enter"
         \/ pcb' = pcb
  BY Zenon DEF keyboard_handler_main
<1>5. n \in Nat /\ n <= stdin.count + 1
  BY <1>2, <1>4 DEF stdin_write
<1>6. CASE pcb' = pcb
  BY <1>3, <1>6, QuietSteps
<1>7. ASSUME NEW r \in DOMAIN pcb, pcb' = [pcb EXCEPT ![r].status = "READY"],
             stdin.process # None, stdin.requested_len <= n \/ key = "enter",
             stdin'.process = None, r = stdin.process \/ stdin.process \notin Live
      PROVE  ResumeStep /\ ZombieStep
  <2>1. pcb' = SetStatus(pcb, r, "READY")
    BY <1>7 DEF SetStatus
  <2>2. /\ DOMAIN pcb' = DOMAIN pcb
        /\ \A p \in DOMAIN pcb : pcb'[p].status = IF p = r THEN "READY" ELSE pcb[p].status
    BY <1>1, <1>3, <2>1, SetStatusOK
  <2>3. ZombieStep
    BY <1>3, <2>2 DEF ZombieStep, Live
  <2>4. CASE stdin.process \notin Live
    <3>1. \A p \in Live : LeftOver(p)
      BY <1>7, <2>4 DEF LeftOver
    <3> QED
      BY <2>3, <3>1 DEF ResumeStep
  <2>5. CASE r = stdin.process
    <3>1. \A p \in Live : Resumed(p) => p = r
      BY <2>2 DEF Resumed, Live
    <3>2. keyboard_handler_main("enter") \/ stdin.requested_len <= stdin.count + 1
      BY <1>2, <1>5, <1>7
    <3>3. waits[r].call = "read" => CallEnds(r)
      BY <1>7, <2>5, <3>2 DEF CallEnds
    <3>4. waits[r].call # "read" => LeftOver(r)
      BY <2>5 DEF LeftOver
    <3> QED
      BY <2>3, <3>1, <3>3, <3>4 DEF ResumeStep
  <2> QED
    BY <1>7, <2>3, <2>4, <2>5
<1>8. CASE /\ stdin_wake_process(n) /\ stdin.process # None
           /\ stdin.requested_len <= n \/ key = "enter"
           /\ pcb' # pcb
  <2>1. \E r \in DOMAIN pcb :
           /\ pcb' = [pcb EXCEPT ![r].status = "READY"]
           /\ stdin' = Delivered(n)
           /\ r = stdin.process \/ stdin.process \notin Live
    BY <1>8, Zenon DEF stdin_wake_process, Live
  <2>2. Delivered(n).process = None
    BY DEF Delivered
  <2> QED
    BY <1>7, <1>8, <2>1, <2>2
<1> QED
  BY <1>4, <1>6, <1>8

LEMMA SigintSteps == ASSUME IInv, sigint_foreground PROVE ResumeStep /\ ZombieStep
<1>1. Sound(pcb, queue) /\ current' = current
  BY IInvSplit DEF Core, sigint_foreground
<1>2. CASE foreground_pid \in DOMAIN pcb
  <2>1. pcb' = SetStatus(pcb, foreground_pid, "ZOMBIE") /\ "ZOMBIE" \in Status \ {"WAITING"}
    BY <1>2 DEF sigint_foreground, SetStatus, Status, Live
  <2>2. /\ DOMAIN pcb' = DOMAIN pcb
        /\ \A p \in DOMAIN pcb :
              pcb'[p].status = IF p = foreground_pid THEN "ZOMBIE" ELSE pcb[p].status
    BY <1>1, <1>2, <2>1, SetStatusOK
  <2>3. ResumeStep
    BY <2>2 DEF ResumeStep, Resumed, Live
  <2>4. ZombieStep
    BY <1>1, <2>2 DEF ZombieStep, Live
  <2> QED
    BY <2>3, <2>4
<1>3. CASE foreground_pid \notin DOMAIN pcb
  <2>1. pcb' = pcb
    BY <1>3 DEF sigint_foreground, Live
  <2> QED
    BY <1>1, <2>1, QuietSteps
<1> QED
  BY <1>2, <1>3

LEMMA EveryStep == ASSUME IInv, [Next]_vars PROVE [ResumeStep /\ ZombieStep]_vars
<1>1. CASE timer_handler_main
  BY <1>1, SwitchingSteps
<1>2. CASE Syscall
  <2>1. ASSUME NEW len \in ReadLens, stdin_read(len) PROVE ResumeStep /\ ZombieStep
    <3>1. UNCHANGED <<pcb, current>>
      BY <2>1 DEF stdin_read
    <3> QED
      BY <3>1, QuietSteps
  <2> QED
    BY <1>2, <2>1, SwitchingSteps, ForkSteps, KillSteps DEF Syscall
<1>3. CASE Key
  <2>1. CASE handle_chords
    <3>1. UNCHANGED <<pcb, current>>
      BY <2>1 DEF handle_chords
    <3> QED
      BY <3>1, QuietSteps
  <2> QED
    BY <1>3, <2>1, ReaderSteps, SigintSteps DEF Key
<1> QED
  BY <1>1, <1>2, <1>3 DEF Next

\* A blocked process that nothing is left over for is resumed only by the end
\* of the very call it is blocked in, or by the Ctrl+C that kills it, whoever
\* else exits, is killed, sleeps or is woken in the same handler.
THEOREM ResumeCorrect == Spec => ResumedByOwnCall
<1>1. Init => IInv
  BY InitOK
<1>2. IInv /\ [Next]_vars => [ResumeStep]_vars
  BY EveryStep
<1> QED
  BY <1>1, <1>2, IInvInductive, PTL DEF Spec, ResumedByOwnCall, ResumeStep

\* A process that update_scheduler switches away from, or that another one
\* kills, is no ZOMBIE in the list afterwards, the foreground process neither:
\* only the Ctrl+C step itself leaves one there.
THEOREM NoZombieLeft == Spec => ZombiesOffCPU
<1>1. Init => IInv
  BY InitOK
<1>2. IInv /\ [Next]_vars => [ZombieStep]_vars
  BY EveryStep
<1> QED
  BY <1>1, <1>2, IInvInductive, PTL DEF Spec, ZombiesOffCPU, ZombieStep
=============================================================================
