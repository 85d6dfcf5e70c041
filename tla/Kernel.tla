------------------------------- MODULE Kernel -------------------------------
(***************************************************************************)
(* The process part of the lab 10 kernel: traps, page faults, fork, the    *)
(* timer and the scheduler, under the user program user/getpid.c.          *)
(*                                                                         *)
(* Interrupts are enabled in user mode only, so a trap runs to its sret or *)
(* into another task: every trap is one action, made of the trap entry,    *)
(* the handler and one of the three ways back into user mode.  Between two *)
(* actions the processor executes the program of task `current`.           *)
(*                                                                         *)
(* An address is <<space, below>>: space 0 is the user's and space i > 0   *)
(* the page that holds task i and its kernel stack; `below` counts from    *)
(* the top.  kalloc gives every page out once (nothing is freed after      *)
(* boot), so a page is named after the task it was allocated for: the      *)
(* kernel stack, the user stack and the page table of task i are all i.    *)
(***************************************************************************)
EXTENDS Integers, Sequences, SequencesExt

CONSTANTS
    NR_TASKS,   \* length of task[]: idle and the user tasks
    CounterMod  \* 2^64 in the code

ASSUME ConstantsAssumption ==
    /\ NR_TASKS \in Nat /\ NR_TASKS > 5
    /\ CounterMod \in Nat /\ CounterMod > 22

VARIABLES
    total_tasks, current,
    counter,    \* the time slice left, per task
    thread,     \* what __switch_to saved, per task
    frame,      \* the pt_regs on a kernel stack, per page
    trapframe,  \* the copy do_fork made for a child, per task
    user_sp,    \* thread_info->user_sp, NoPage when thread_info is NULL
    areas,      \* the vm_area list from mm->mmap, per task
    pgtbl,      \* physical page of each virtual page, per page table
    mem,        \* the content of a user stack page
    cpu,        \* registers and CSRs
    halted,     \* the kernel spins or faults for ever
    expect      \* history: what the program of a task last computed

vars == <<total_tasks, current, counter, thread, frame, trapframe, user_sp,
          areas, pgtbl, mem, cpu, halted, expect>>

Tasks == 1 .. NR_TASKS - 1
Zero == <<0, 0>>             \* 0 as an address; user sp's are above it
NoPage == 0
Uapp == -1                   \* the physical pages of the program
USER_START == 0              \* in pages
USER_END == 4
StackVA == USER_END - 1
CodeArea == [vm_start |-> USER_START, vm_end |-> 2, vm_flags |-> 31]
StackArea == [vm_start |-> StackVA, vm_end |-> USER_END, vm_flags |-> 23]
Top(i) == <<i, 0>>           \* page + PGSIZE
Down(a) == <<a[1], a[2] + 1>>   \* addi sp, sp, -280
Up(a) == <<a[1], a[2] - 1>>     \* addi sp, sp, 280
UserTop == <<0, 3>>
UserSp(pc) == <<0, 4 + pc>>

-----------------------------------------------------------------------------
(* Memory areas and page tables *)

Overlaps(p, from, to) == ~(p.vm_end <= from \/ p.vm_start >= to)

\* get_unmapped_area: va_end is not moved along with va.  (It would not end
\* on an area that also holds va_end; no area of this program overlaps.)
GetUnmappedArea(list, length) ==
    FoldLeft(LAMBDA va, p : IF Overlaps(p, va, length) THEN length ELSE va,
             0, list)

\* The list do_mmap leaves for a walk from the head: an area that comes
\* before another one but not first is linked from its successor only.
Insert(list, area) ==
    LET later == {k \in DOMAIN list : list[k].vm_start > area.vm_start}
    IN  IF later = {} THEN Append(list, area)
        ELSE IF 1 \in later THEN <<area>> \o list
        ELSE list

DoMmap(list, addr, length, prot) ==
    LET taken == \E k \in DOMAIN list : Overlaps(list[k], addr, addr + length)
        start == IF taken THEN GetUnmappedArea(list, length) ELSE addr
    IN  Insert(list, [vm_start |-> start, vm_end |-> start + length,
                      vm_flags |-> prot])

CopyAreasFirstOnly(list) == SubSeq(list, 1, 1)
\* do_fork fills the child's empty list by walking the parent's.
CopyAreas(list) ==
    FoldLeft(LAMBDA new, p : DoMmap(new, p.vm_start, p.vm_end - p.vm_start,
                                    p.vm_flags), <<>>, list)

FindVma(list, va) ==
    {list[k] : k \in {k \in DOMAIN list :
                        va >= list[k].vm_start /\ va < list[k].vm_end}}

Mapped(va) == pgtbl[cpu.satp][va] # NoPage

\* create_mapping keeps an entry that is already valid.
CreateMapping(table, area, pa) ==
    [va \in DOMAIN table |->
        IF table[va] = NoPage /\ va >= area.vm_start /\ va < area.vm_end
        THEN pa ELSE table[va]]

-----------------------------------------------------------------------------
(* Into and out of the kernel *)

NoFrame == [sp |-> Zero, t2 |-> Zero, s0 |-> 0, a0 |-> 0, sepc |-> 0]

\* _traps up to the call: the stack pointers are swapped, the user's goes
\* through t2 into the frame, and sp is stored after it was moved down.
TrapEntry(c) ==
    [sp |-> Down(c.sscratch), t2 |-> c.sp, s0 |-> c.s0, a0 |-> c.a0,
     sepc |-> c.pc]

\* _traps from the return of trap_handler to sret.
TrapExit(f, satp) ==
    [sp |-> f.t2, t2 |-> f.t2, s0 |-> f.s0, a0 |-> f.a0, pc |-> f.sepc,
     sscratch |-> Up(f.sp), satp |-> satp]

\* __dummy: the first run of task 1.
Dummy(th, satp) ==
    [sp |-> th.sscratch, t2 |-> cpu.t2, s0 |-> th.s0, a0 |-> cpu.a0,
     pc |-> th.sepc, sscratch |-> th.sp, satp |-> satp]

\* forkret and ret_from_fork: the first run of a child.  The pc is the sepc
\* that __switch_to loaded.
RetFromFork(th, tf, satp) ==
    [sp |-> tf.sp, t2 |-> tf.t2, s0 |-> tf.s0, a0 |-> tf.a0, pc |-> th.sepc,
     sscratch |-> tf.t2, satp |-> satp]

\* __switch_to and what the loaded ra leads to, given the frames in memory.
Resume(next, frames) ==
    LET th == thread[next] IN
    CASE th.ra = "__dummy" -> Dummy(th, next)
      [] th.ra = "forkret" -> RetFromFork(th, trapframe[next], next)
      [] th.ra = "switch_to" -> TrapExit(frames[th.sp[1]], next)

\* What __switch_to stores for the task it leaves: sscratch is 0 in a trap.
\* The callee-saved registers are those of the C code and not looked at.
SavedThread(c) ==
    [ra |-> "switch_to", sp |-> Down(c.sscratch), s0 |-> 0, sepc |-> c.pc,
     sscratch |-> Zero]

-----------------------------------------------------------------------------
(* The scheduler *)

Ready(c) == {i \in 1 .. total_tasks - 1 : c[i] > 0 /\ c[i] < 11}

Refill(c) == [i \in Tasks |-> IF i < total_tasks THEN i ELSE c[i]]

SlicesAfterAlways(c) == Refill(c)
\* The counters schedule() leaves: refilled when no task has a slice left.
SlicesAfter(c) == IF Ready(c) = {} THEN Refill(c) ELSE c

\* The shortest slice wins, the lowest index among equals.
ShortestReady(c) ==
    CHOOSE i \in Ready(c) :
        \A j \in Ready(c) : c[i] < c[j] \/ (c[i] = c[j] /\ i <= j)

\* A frame that has been left is forgotten.
Popped(k) == [frame EXCEPT ![k] = NoFrame]

\* switch_to: nothing for the task that runs, __switch_to for another.
SwitchTo(next, f) ==
    LET k == cpu.sscratch[1]
        frames == [frame EXCEPT ![k] = f]
    IN  /\ current' = next
        /\ IF next = current
           THEN /\ cpu' = TrapExit(f, cpu.satp)
                /\ frame' = Popped(k)
                /\ UNCHANGED <<thread, trapframe>>
           ELSE /\ cpu' = Resume(next, frames)
                /\ thread' = [thread EXCEPT ![current] = SavedThread(cpu)]
                /\ frame' = [frames EXCEPT ![next] = NoFrame]
                /\ trapframe' = [trapframe EXCEPT ![next] = NoFrame]

-----------------------------------------------------------------------------
(* Boot *)

NoThread == [ra |-> "switch_to", sp |-> Zero, s0 |-> 0, sepc |-> 0,
             sscratch |-> Zero]
NoProgram == [sp |-> UserTop, s0 |-> 0, a0 |-> 0, pc |-> 0, stack |-> 0]
EmptyTable == [va \in USER_START .. StackVA |-> NoPage]

\* After task_init: idle runs and task 1 exists.
Init ==
    /\ total_tasks = 2 /\ current = 0
    /\ counter = [i \in Tasks |-> 0]
    /\ thread = [i \in Tasks |->
                    IF i = 1 THEN [ra |-> "__dummy", sp |-> Top(1), s0 |-> 0,
                                   sepc |-> USER_START, sscratch |-> UserTop]
                    ELSE NoThread]
    /\ frame = [i \in Tasks |-> NoFrame]
    /\ trapframe = [i \in Tasks |-> NoFrame]
    /\ user_sp = [i \in Tasks |-> NoPage]
    /\ areas = [i \in Tasks |->
                    IF i = 1 THEN CopyAreas(<<CodeArea, StackArea>>) ELSE <<>>]
    /\ pgtbl = [i \in Tasks |-> EmptyTable]
    /\ mem = [i \in Tasks |-> 0]
    /\ cpu = [sp |-> Zero, t2 |-> Zero, s0 |-> 0, a0 |-> 0, pc |-> 0,
              sscratch |-> Zero, satp |-> 0]
    /\ halted = FALSE
    /\ expect = [i \in Tasks |-> NoProgram]

\* start_kernel ends in schedule(), which leaves the boot stack for good.
StartKernel ==
    /\ current = 0
    /\ counter' = SlicesAfter(counter)
    /\ current' = ShortestReady(counter')
    /\ cpu' = Resume(current', frame)
    /\ UNCHANGED <<total_tasks, thread, frame, trapframe, user_sp, areas,
                   pgtbl, mem, halted, expect>>

-----------------------------------------------------------------------------
(* The user program.  main() calls fork() twice and then prints for ever:  *)
(* at pc 0, 2 and 4 it works on its stack, at 2 and 4 it also asks for its *)
(* pid and writes, at 1 and 3 it calls fork.                               *)

InUser == current # 0 /\ ~halted
Working == cpu.pc \in {0, 2, 4}

\* The program computes: registers and stack change, to values that depend
\* on the task and the place in the program, here and in `expect`.
UserWork ==
    /\ InUser /\ Working /\ Mapped(USER_START) /\ Mapped(StackVA)
    /\ LET next == IF cpu.pc = 4 THEN 4 ELSE cpu.pc + 1
           value == 10 * current + cpu.pc
       IN  /\ cpu' = [cpu EXCEPT !.sp = UserSp(cpu.pc), !.s0 = value,
                                 !.t2 = Zero, !.pc = next]
           /\ mem' = [mem EXCEPT ![pgtbl[cpu.satp][StackVA]] = value]
           /\ expect' = [expect EXCEPT ![current] =
                            [sp |-> UserSp(cpu.pc), s0 |-> value, a0 |-> @.a0,
                             pc |-> next, stack |-> value]]
    /\ UNCHANGED <<total_tasks, current, counter, thread, frame, trapframe,
                   user_sp, areas, pgtbl, halted>>

-----------------------------------------------------------------------------
(* The three traps *)

\* The trap ends in the task that caused it: the frame f is popped.
ReturnsWith(f) ==
    /\ cpu' = TrapExit(f, cpu.satp)
    /\ frame' = Popped(cpu.sscratch[1])

\* The physical page behind an area: the program's, the stack that fork
\* prepared, or a new page when there is no thread_info.
Backing(flags) ==
    IF flags = 31 THEN Uapp
    ELSE IF user_sp[current] # NoPage THEN user_sp[current]
    ELSE current

\* do_page_fault: the whole area that holds the address is mapped and the
\* instruction is executed again.  An address outside the areas ends in
\* while(1).
PageFault(va) ==
    /\ InUser
    /\ \/ va = USER_START /\ ~Mapped(USER_START)
       \/ va = StackVA /\ Mapped(USER_START) /\ ~Mapped(StackVA) /\ Working
    /\ ReturnsWith(TrapEntry(cpu))
    /\ LET found == FindVma(areas[current], va) IN
       /\ halted' = (found = {})
       /\ pgtbl' = IF found = {} THEN pgtbl
                   ELSE LET area == CHOOSE a \in found : TRUE
                        IN  [pgtbl EXCEPT ![current] =
                                CreateMapping(@, area, Backing(area.vm_flags))]
    /\ UNCHANGED <<total_tasks, current, counter, thread, trapframe, user_sp,
                   areas, mem, expect>>

ChildFrameKeepsSp(f, child) ==
    [f EXCEPT !.t2 = Top(child), !.a0 = 0, !.sepc = @ + 1]
\* The trapframe of a child: the parent's sp comes out of t2, the child's
\* kernel stack goes into t2, fork returns 0.
ChildFrame(f, child) ==
    [f EXCEPT !.sp = f.t2, !.t2 = Top(child), !.a0 = 0, !.sepc = @ + 1]

StackCopyEmpty == 0
\* The words do_fork reads at USER_END - PGSIZE, through satp.
StackCopy == mem[pgtbl[cpu.satp][StackVA]]

\* do_fork: the stack is copied now; the child starts with an empty user
\* page table (pgtbl[i] is as kalloc left it) and maps pages when it faults.
DoFork(f) ==
    LET i == total_tasks IN
    /\ total_tasks' = total_tasks + 1
    /\ counter' = [counter EXCEPT ![i] = 0]
    /\ user_sp' = [user_sp EXCEPT ![i] = i]
    /\ mem' = [mem EXCEPT ![i] = StackCopy]
    /\ thread' = [thread EXCEPT ![i] =
                    [ra |-> "forkret", sp |-> Top(i), s0 |-> 0,
                     sepc |-> f.sepc + 1, sscratch |-> Top(i)]]
    /\ areas' = [areas EXCEPT ![i] = CopyAreas(areas[current])]
    /\ trapframe' = [trapframe EXCEPT ![i] = ChildFrame(f, i)]

\* The ecall of trap_handler returns r: into a0, and past the ecall, which
\* at pc 2 and 4 is not the end of the program's work there.
Returned(f, r) ==
    [f EXCEPT !.a0 = r, !.sepc = IF @ \in {1, 3} THEN @ + 1 ELSE @]

\* clone.  Reading the caller's stack while it is not mapped would be a
\* fault in the kernel, which the trap entry takes for one of the user's:
\* it moves to the stack in sscratch, 0, and faults again for ever.
Fork ==
    /\ InUser /\ cpu.pc \in {1, 3} /\ Mapped(USER_START)
    /\ IF Mapped(StackVA)
       THEN /\ DoFork(TrapEntry(cpu))
            /\ ReturnsWith(Returned(TrapEntry(cpu), total_tasks))
            /\ LET e == [expect[current] EXCEPT !.pc = @ + 1] IN
               expect' = [expect EXCEPT
                             ![current] = [e EXCEPT !.a0 = total_tasks],
                             ![total_tasks] = [e EXCEPT !.a0 = 0]]
            /\ UNCHANGED halted
       ELSE /\ halted' = TRUE
            /\ UNCHANGED <<total_tasks, counter, thread, frame, trapframe,
                           user_sp, areas, mem, cpu, expect>>
    /\ UNCHANGED <<current, pgtbl>>

\* sys_getpid, and sys_write on fd 1, which reads the program's pages.
GetpidOrWrite ==
    /\ InUser /\ cpu.pc \in {2, 4} /\ Mapped(USER_START)
    /\ \E r \in {current, 1} :
       /\ ReturnsWith(Returned(TrapEntry(cpu), r))
       /\ expect' = [expect EXCEPT ![current].a0 = r]
    /\ UNCHANGED <<total_tasks, current, counter, thread, trapframe, user_sp,
                   areas, pgtbl, mem, halted>>

\* `counter -= 1` on a uint64.
DoTimer(c) == [c EXCEPT ![current] = (@ - 1) % CounterMod]

\* A timer interrupt: do_timer, and schedule when the slice is used up.
\* (int)counter is negative in the upper half.
TimerInterrupt ==
    /\ InUser
    /\ LET c == DoTimer(counter) IN
       \/ /\ c[current] > 0 /\ c[current] < CounterMod \div 2
          /\ counter' = c
          /\ ReturnsWith(TrapEntry(cpu))
          /\ UNCHANGED <<current, thread, trapframe>>
       \/ /\ ~(c[current] > 0 /\ c[current] < CounterMod \div 2)
          /\ counter' = SlicesAfter(c)
          /\ SwitchTo(ShortestReady(counter'), TrapEntry(cpu))
    /\ UNCHANGED <<total_tasks, user_sp, areas, pgtbl, mem, halted, expect>>

Next ==
    \/ StartKernel
    \/ UserWork
    \/ \E va \in {USER_START, StackVA} : PageFault(va)
    \/ Fork
    \/ GetpidOrWrite
    \/ TimerInterrupt

\* Boot goes on and every trap re-arms the clock, so timer interrupts keep
\* coming; nothing is assumed of how fast the program runs.
Spec ==
    /\ Init /\ [][Next]_vars
    /\ WF_vars(StartKernel) /\ WF_vars(TimerInterrupt)

-----------------------------------------------------------------------------
(* Correctness *)

Addresses == (0 .. NR_TASKS - 1) \X (0 .. 9)
Values == {0} \cup {10 * i + pc : i \in Tasks, pc \in 0 .. 4}

\* Every variable has its type: task[] is not overrun (do_fork tests no
\* bound), and every slice is below the 11 that schedule() looks for.
TypeOK ==
    /\ total_tasks \in 2 .. NR_TASKS /\ current \in 0 .. total_tasks - 1
    /\ counter \in [Tasks -> 0 .. 10]
    /\ \A i \in Tasks :
        /\ thread[i].ra \in {"__dummy", "forkret", "switch_to"}
        /\ {thread[i].sp, thread[i].sscratch, frame[i].sp, frame[i].t2,
            trapframe[i].sp, trapframe[i].t2} \subseteq Addresses
        /\ {frame[i].s0, trapframe[i].s0, mem[i]} \subseteq Values
        /\ user_sp[i] \in Tasks \cup {NoPage}
        /\ pgtbl[i] \in [USER_START .. StackVA -> Tasks \cup {NoPage, Uapp}]
    /\ {cpu.sp, cpu.t2, cpu.sscratch} \subseteq Addresses
    /\ cpu.s0 \in Values /\ cpu.pc \in 0 .. 4
    /\ cpu.satp \in 0 .. NR_TASKS - 1
    /\ halted \in BOOLEAN

\* Whatever traps, switches and forks happen between two instructions of a
\* program, it goes on where it was, with the stack pointer, the saved
\* register and the result (0 in a child, the child's pid in its parent, the
\* pid for getpid) it must have: trap entry and exit, __switch_to and the
\* three ways into user mode fit together.
ContextKept ==
    InUser => [sp |-> cpu.sp, s0 |-> cpu.s0, a0 |-> cpu.a0, pc |-> cpu.pc]
            = [sp |-> expect[current].sp, s0 |-> expect[current].s0,
               a0 |-> expect[current].a0, pc |-> expect[current].pc]

\* A task finds on its stack what it wrote there, and a child what its
\* parent had written at the fork, however late the child first runs and
\* faults the page in: mapped pages and the pages fork prepared are private.
StackKept ==
    \A i \in 1 .. total_tasks - 1 :
        LET p == pgtbl[i][StackVA]
        IN  /\ p # NoPage => mem[p] = expect[i].stack
            /\ p = NoPage /\ user_sp[i] # NoPage =>
                    mem[user_sp[i]] = expect[i].stack

\* In user mode sscratch holds the top of the running task's own kernel
\* stack and satp its own page table: the next trap of the task cannot
\* overwrite the frame of a task that sleeps.
TrapStackOwn ==
    InUser => cpu.sscratch = Top(current) /\ cpu.satp = current

\* The kernel never reaches one of its endless loops: no address of the
\* program is outside its areas, in a child neither, and do_fork never reads
\* a stack that is not mapped, though fork maps nothing for the child.
KernelAlive == ~halted

\* The running task always has a slice left, so that the decrement in
\* do_timer never wraps around and hides the task from schedule() for ever.
SliceLeft == InUser => counter[current] > 0

\* Round after round every task that exists gets the processor, the ones
\* that fork adds in the middle of a round included.
EveryTaskRuns ==
    \A i \in 1 .. 4 : []<>(i < total_tasks => current = i)

(* A task that runs has its own state and no other task's: the context it  *)
(* was interrupted with, its kernel stack for the next trap and its page   *)
(* table.                                                                  *)
TaskStateKept == ContextKept /\ TrapStackOwn

(* The kernel keeps going: it does not fault or spin, schedule() always    *)
(* finds a task, and slices stay in the range it searches.                 *)
KernelGoesOn == TypeOK /\ KernelAlive /\ SliceLeft
=============================================================================
