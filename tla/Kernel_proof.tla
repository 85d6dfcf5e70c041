---------------------------- MODULE Kernel_proof ----------------------------
(***************************************************************************)
(* For every length of task[] that holds the tasks of the program, and     *)
(* every width of the counters: a task of the kernel finds its registers,  *)
(* its stacks and its page table as it left them, and the kernel never     *)
(* reaches one of its endless loops.                                       *)
(***************************************************************************)
EXTENDS Kernel, TLAPS

ProgramAreas == <<CodeArea, StackArea>>
Existing == 1 .. total_tasks - 1

ContextType == [sp : Addresses, s0 : Values, a0 : Nat, pc : 0 .. 4, stack : Values]
CpuType == [sp : Addresses, t2 : Addresses, s0 : Values, a0 : Nat, pc : 0 .. 4,
            sscratch : Addresses, satp : 0 .. NR_TASKS - 1]
FrameType == [sp : Addresses, t2 : Addresses, s0 : Values, a0 : Nat, sepc : 0 .. 4]
ThreadType == [ra : {"__dummy", "forkret", "switch_to"}, sp : Addresses, s0 : {0},
               sepc : 0 .. 4, sscratch : Addresses]
TableType == [USER_START .. StackVA -> Tasks \cup {NoPage, Uapp}]

(* Types, with the bound on the number of tasks that do_fork relies on.    *)
TypesInv ==
  /\ total_tasks \in 2 .. 5 /\ current \in 0 .. total_tasks - 1
  /\ counter \in [Tasks -> 0 .. 10]
  /\ thread \in [Tasks -> ThreadType]
  /\ frame \in [Tasks -> FrameType]
  /\ trapframe \in [Tasks -> FrameType]
  /\ user_sp \in [Tasks -> Tasks \cup {NoPage}]
  /\ areas = [i \in Tasks |-> IF i < total_tasks THEN ProgramAreas ELSE <<>>]
  /\ pgtbl \in [Tasks -> TableType]
  /\ mem \in [Tasks -> Values]
  /\ cpu \in CpuType
  /\ halted = FALSE
  /\ expect \in [Tasks -> ContextType]

(* The registers c are those task i must run with. *)
Runs(c, i) ==
  /\ c.sp = expect[i].sp /\ c.s0 = expect[i].s0
  /\ c.a0 = expect[i].a0 /\ c.pc = expect[i].pc
  /\ c.sscratch = Top(i) /\ c.satp = i

(* A task that does not run is suspended in one of three ways, and what it *)
(* needs to go on is where the way back will look for it.                  *)
BeforeDummy(i) ==
  /\ thread[i].ra = "__dummy"
  /\ current = 0 /\ cpu.a0 = expect[i].a0
  /\ thread[i].sscratch = expect[i].sp /\ thread[i].s0 = expect[i].s0
  /\ thread[i].sepc = expect[i].pc /\ thread[i].sp = Top(i)

BeforeForkret(i) ==
  /\ thread[i].ra = "forkret" /\ thread[i].sepc = expect[i].pc
  /\ trapframe[i].sp = expect[i].sp /\ trapframe[i].t2 = Top(i)
  /\ trapframe[i].s0 = expect[i].s0 /\ trapframe[i].a0 = expect[i].a0

Interrupted(i) ==
  /\ thread[i].ra = "switch_to" /\ thread[i].sp = Down(Top(i))
  /\ frame[i].sp = Down(Top(i)) /\ frame[i].t2 = expect[i].sp
  /\ frame[i].s0 = expect[i].s0 /\ frame[i].a0 = expect[i].a0
  /\ frame[i].sepc = expect[i].pc

RunningInv ==
  /\ current # 0 => Runs(cpu, current) /\ counter[current] > 0
  /\ current = 0 => total_tasks = 2

SuspendedInv ==
  \A i \in Existing \ {current} : BeforeDummy(i) \/ BeforeForkret(i) \/ Interrupted(i)

(* The user stack of a task is its own page, which holds what the program  *)
(* wrote there and is mapped when the program calls fork.                  *)
StackInv ==
  /\ \A i \in Existing :
       /\ pgtbl[i][StackVA] \in {NoPage, i} /\ user_sp[i] \in {NoPage, i}
       /\ mem[i] = expect[i].stack
       /\ expect[i].pc \in {1, 3} => pgtbl[i][StackVA] = i
  /\ \A i \in Tasks \ Existing : pgtbl[i] = EmptyTable

(* The number of tasks that task i and its descendants still become: fork  *)
(* is called twice.                                                        *)
Becomes(i) ==
  IF i >= total_tasks THEN 0
  ELSE IF expect[i].pc <= 1 THEN 4
  ELSE IF expect[i].pc <= 3 THEN 2
  ELSE 1

FamilyInv == Becomes(1) + Becomes(2) + Becomes(3) + Becomes(4) = 4

(* The inductive invariant. *)
IInv == TypesInv /\ RunningInv /\ SuspendedInv /\ StackInv /\ FamilyInv
-----------------------------------------------------------------------------
(* The child's list of areas, which do_fork builds with do_mmap, is the    *)
(* parent's: the areas of the program do not overlap and are in order.     *)
LEMMA AreasCopied == CopyAreas(ProgramAreas) = ProgramAreas
<1> DEFINE list == ProgramAreas
           Step(x, new) == DoMmap(new, list[x].vm_start, list[x].vm_end - list[x].vm_start,
                                  list[x].vm_flags)
           Rec(it) == [s \in SUBSET DOMAIN list |->
                         IF s = {} THEN <<>> ELSE Step(Max(s), it[s \ {Max(s)}])]
           fold == CHOOSE it : it = Rec(it)
<1>1. CopyAreas(list) = fold[DOMAIN list]
  BY DEF CopyAreas, FoldLeft, MapThenFoldSet
<1>2. DOMAIN list = {1, 2} /\ list[1] = CodeArea /\ list[2] = StackArea
  BY DEF ProgramAreas
<1>3. Max({1}) = 1 /\ Max({2}) = 2 /\ Max({1, 2}) = 2
  <2>1. \A x \in {1} : (\A y \in {1} : x >= y) <=> x = 1
    OBVIOUS
  <2>2. \A x \in {2} : (\A y \in {2} : x >= y) <=> x = 2
    OBVIOUS
  <2>3. \A x \in {1, 2} : (\A y \in {1, 2} : x >= y) <=> x = 2
    OBVIOUS
  <2> QED
    BY <2>1, <2>2, <2>3 DEF Max
<1>4. SUBSET {1, 2} = {{}, {1}, {2}, {1, 2}}
  <2> SUFFICES ASSUME NEW s \in SUBSET {1, 2} PROVE s \in {{}, {1}, {2}, {1, 2}}
    OBVIOUS
  <2>1. CASE 1 \in s /\ 2 \in s
    <3>1. s = {1, 2}
      BY <2>1
    <3> QED BY <3>1
  <2>2. CASE 1 \in s /\ 2 \notin s
    <3>1. s = {1}
      BY <2>2
    <3> QED BY <3>1
  <2>3. CASE 1 \notin s /\ 2 \in s
    <3>1. s = {2}
      BY <2>3
    <3> QED BY <3>1
  <2>4. CASE 1 \notin s /\ 2 \notin s
    <3>1. s = {}
      BY <2>4
    <3> QED BY <3>1
  <2> QED BY <2>1, <2>2, <2>3, <2>4
<1>5. {1} \ {1} = {} /\ {2} \ {2} = {} /\ {1, 2} \ {2} = {1}
      /\ {1} # {} /\ {2} # {} /\ {1, 2} # {} /\ {1} # {2} /\ {1, 2} # {1} /\ {1, 2} # {2}
  OBVIOUS
<1> HIDE DEF Step, list
<1>6. fold = Rec(fold)
  <2> DEFINE w == [s \in SUBSET DOMAIN list |->
                     IF s = {} THEN <<>>
                     ELSE IF s = {1} THEN Step(1, <<>>)
                     ELSE IF s = {2} THEN Step(2, <<>>)
                     ELSE Step(2, Step(1, <<>>))]
  <2>1. w[{}] = <<>> /\ w[{1}] = Step(1, <<>>) /\ w[{2}] = Step(2, <<>>)
        /\ w[{1, 2}] = Step(2, Step(1, <<>>))
    BY <1>2, <1>4, <1>5
  <2>2. ASSUME NEW s \in SUBSET DOMAIN list
        PROVE  w[s] = IF s = {} THEN <<>> ELSE Step(Max(s), w[s \ {Max(s)}])
    <3> HIDE DEF w
    <3>1. CASE s = {}
      BY <3>1, <2>1
    <3>2. CASE s = {1}
      BY <3>2, <2>1, <1>3, <1>5
    <3>3. CASE s = {2}
      BY <3>3, <2>1, <1>3, <1>5
    <3>4. CASE s = {1, 2}
      BY <3>4, <2>1, <1>3, <1>5
    <3> QED
      BY <3>1, <3>2, <3>3, <3>4, <1>2, <1>4
  <2>3. w = Rec(w)
    <3>1. w = [s \in SUBSET DOMAIN list |-> w[s]]
      OBVIOUS
    <3> HIDE DEF w
    <3> QED
      BY <2>2, <3>1
  <2> HIDE DEF w
  <2>4. \E it : it = Rec(it)
    BY <2>3
  <2> HIDE DEF Rec
  <2> QED
    BY <2>4
<1> HIDE DEF fold
<1>7. /\ fold[{}] = <<>>
      /\ fold[{1}] = Step(Max({1}), fold[{1} \ {Max({1})}])
      /\ fold[{1, 2}] = Step(Max({1, 2}), fold[{1, 2} \ {Max({1, 2})}])
  BY <1>2, <1>4, <1>5, <1>6
<1>8. CopyAreas(list) = Step(2, Step(1, <<>>))
  BY <1>1, <1>2, <1>3, <1>5, <1>7
<1>9. Step(1, <<>>) = <<CodeArea>>
  <2>1. Step(1, <<>>) = DoMmap(<<>>, 0, 2, 31)
    BY <1>2 DEF Step, CodeArea, USER_START
  <2>2. DOMAIN <<>> = {}
    OBVIOUS
  <2>3. DoMmap(<<>>, 0, 2, 31) = Insert(<<>>, CodeArea)
    BY <2>2 DEF DoMmap, CodeArea, USER_START
  <2>4. Insert(<<>>, CodeArea) = <<CodeArea>>
    BY <2>2 DEF Insert
  <2> QED BY <2>1, <2>3, <2>4
<1>10. Step(2, <<CodeArea>>) = <<CodeArea, StackArea>>
  <2>1. Step(2, <<CodeArea>>) = DoMmap(<<CodeArea>>, 3, 1, 23)
    BY <1>2 DEF Step, StackArea, StackVA, USER_END
  <2>2. DOMAIN <<CodeArea>> = {1} /\ <<CodeArea>>[1] = CodeArea
    OBVIOUS
  <2>3. ~Overlaps(CodeArea, 3, 3 + 1)
    BY DEF Overlaps, CodeArea
  <2>4. DoMmap(<<CodeArea>>, 3, 1, 23) = Insert(<<CodeArea>>, StackArea)
    BY <2>2, <2>3 DEF DoMmap, StackArea, StackVA, USER_END
  <2>5. ~(CodeArea.vm_start > StackArea.vm_start)
    BY DEF CodeArea, StackArea, StackVA, USER_END, USER_START
  <2>6. {k \in DOMAIN <<CodeArea>> : <<CodeArea>>[k].vm_start > StackArea.vm_start} = {}
    BY <2>2, <2>5
  <2>7. Insert(<<CodeArea>>, StackArea) = Append(<<CodeArea>>, StackArea)
    BY <2>6 DEF Insert
  <2> QED BY <2>1, <2>4, <2>7
<1> QED
  BY <1>8, <1>9, <1>10 DEF list, ProgramAreas

(* Stack pointers. *)
LEMMA AddressFacts ==
  /\ Zero \in Addresses /\ UserTop \in Addresses
  /\ \A pc \in 0 .. 4 : UserSp(pc) \in Addresses
  /\ \A i \in Tasks : /\ Top(i) \in Addresses /\ Down(Top(i)) \in Addresses
                      /\ Up(Down(Top(i))) = Top(i)
                      /\ Top(i)[1] = i /\ Down(Top(i))[1] = i
<1>1. 0 \in 0 .. NR_TASKS - 1 /\ Tasks \subseteq 0 .. NR_TASKS - 1
  BY ConstantsAssumption DEF Tasks
<1>2. Zero \in Addresses /\ UserTop \in Addresses
  BY <1>1 DEF Zero, UserTop, Addresses
<1>3. ASSUME NEW pc \in 0 .. 4
      PROVE  UserSp(pc) \in Addresses
  <2>1. 4 + pc \in 0 .. 9
    OBVIOUS
  <2> QED
    BY <1>1, <2>1 DEF UserSp, Addresses
<1>4. ASSUME NEW i \in Tasks
      PROVE  /\ Top(i) = <<i, 0>> /\ Down(Top(i)) = <<i, 1>> /\ Up(Down(Top(i))) = <<i, 0>>
  BY DEF Top, Down, Up
<1>5. ASSUME NEW i \in Tasks
      PROVE  /\ Top(i) \in Addresses /\ Down(Top(i)) \in Addresses
             /\ Up(Down(Top(i))) = Top(i)
             /\ Top(i)[1] = i /\ Down(Top(i))[1] = i
  <2>1. i \in 0 .. NR_TASKS - 1 /\ 0 \in 0 .. 9 /\ 1 \in 0 .. 9
    BY <1>1
  <2>2. <<i, 0>> \in Addresses /\ <<i, 1>> \in Addresses
    BY <2>1 DEF Addresses
  <2> QED
    BY <1>4, <2>2
<1> QED
  BY <1>2, <1>3, <1>5

(* What a stack holds before the program computes. *)
LEMMA ValueFacts == 0 \in Values
BY DEF Values

(* Task numbers. *)
LEMMA TaskFacts ==
  /\ 1 .. 4 \subseteq Tasks /\ Tasks \subseteq Nat /\ 0 \notin Tasks
  /\ Tasks \subseteq 0 .. NR_TASKS - 1
  /\ TypesInv => /\ Existing \subseteq 1 .. 4 /\ 1 \in Existing
                 /\ current # 0 => current \in Existing /\ current \in Tasks
BY ConstantsAssumption DEF Tasks, TypesInv, Existing

(* What it computes. *)
LEMMA ComputedValue ==
  ASSUME NEW i \in Tasks, NEW k \in 0 .. 4
  PROVE  10 * i + k \in Values
BY ConstantsAssumption DEF Values, Tasks

(* A trap of the running task builds, on the task's own kernel stack, the  *)
(* frame that brings it back.                                              *)
LEMMA EntryFrame ==
  ASSUME TypesInv, RunningInv, current # 0
  PROVE  /\ TrapEntry(cpu) \in FrameType
         /\ TrapEntry(cpu).sp = Down(Top(current))
         /\ TrapEntry(cpu).t2 = expect[current].sp
         /\ TrapEntry(cpu).s0 = expect[current].s0
         /\ TrapEntry(cpu).a0 = expect[current].a0
         /\ TrapEntry(cpu).sepc = expect[current].pc
         /\ cpu.sscratch[1] = current /\ cpu.satp = current
<1>1. current \in Tasks
  BY TaskFacts
<1>2. /\ cpu.sscratch = Top(current) /\ cpu.satp = current
      /\ cpu.sp = expect[current].sp /\ cpu.s0 = expect[current].s0
      /\ cpu.a0 = expect[current].a0 /\ cpu.pc = expect[current].pc
  BY DEF RunningInv, Runs
<1>3. /\ Down(Top(current)) \in Addresses /\ Top(current)[1] = current
  BY <1>1, AddressFacts
<1> QED
  BY <1>2, <1>3 DEF TypesInv, CpuType, FrameType, TrapEntry

(* Leaving the kernel from such a frame. *)
LEMMA ExitRegisters ==
  ASSUME NEW i \in Tasks, NEW f \in FrameType, f.sp = Down(Top(i))
  PROVE  /\ TrapExit(f, i) \in CpuType
         /\ TrapExit(f, i).sp = f.t2 /\ TrapExit(f, i).s0 = f.s0
         /\ TrapExit(f, i).a0 = f.a0 /\ TrapExit(f, i).pc = f.sepc
         /\ TrapExit(f, i).sscratch = Top(i) /\ TrapExit(f, i).satp = i
<1>1. Up(f.sp) = Top(i) /\ Top(i) \in Addresses /\ i \in 0 .. NR_TASKS - 1
  BY AddressFacts, TaskFacts
<1> QED
  BY <1>1 DEF TrapExit, FrameType, CpuType

(* A trap that returns to the task it came from touches no other task's    *)
(* frame.                                                                  *)
LEMMA TrapReturns ==
  ASSUME TypesInv, RunningInv, current # 0, NEW f \in FrameType,
         f.sp = Down(Top(current)), ReturnsWith(f)
  PROVE  /\ cpu' \in CpuType
         /\ cpu'.sp = f.t2 /\ cpu'.s0 = f.s0 /\ cpu'.a0 = f.a0 /\ cpu'.pc = f.sepc
         /\ cpu'.sscratch = Top(current) /\ cpu'.satp = current
         /\ frame' \in [Tasks -> FrameType]
         /\ \A i \in Tasks \ {current} : frame'[i] = frame[i]
<1>1. current \in Tasks /\ cpu.satp = current /\ cpu.sscratch[1] = current
  BY TaskFacts, EntryFrame
<1>2. cpu' = TrapExit(f, current) /\ frame' = [frame EXCEPT ![current] = NoFrame]
  BY <1>1 DEF ReturnsWith, Popped
<1>3. NoFrame \in FrameType
  BY AddressFacts, ValueFacts DEF NoFrame, FrameType
<1>4. /\ frame' \in [Tasks -> FrameType]
      /\ \A i \in Tasks \ {current} : frame'[i] = frame[i]
  BY <1>1, <1>2, <1>3 DEF TypesInv
<1> QED
  BY <1>1, <1>2, <1>4, ExitRegisters

(* The other tasks stay suspended as they are while one task runs.         *)
LEMMA OthersStaySuspended ==
  ASSUME IInv, current # 0, current' = current, total_tasks' = total_tasks,
         thread' = thread, trapframe' = trapframe,
         \A i \in Tasks \ {current} : frame'[i] = frame[i] /\ expect'[i] = expect[i]
  PROVE  SuspendedInv'
<1> SUFFICES ASSUME NEW i \in Existing \ {current}
             PROVE  BeforeForkret(i)' \/ Interrupted(i)'
  BY DEF SuspendedInv, Existing
<1>1. i \in Tasks \ {current}
  BY TaskFacts DEF IInv
<1>2. frame'[i] = frame[i] /\ expect'[i] = expect[i]
  BY <1>1
<1>3. BeforeForkret(i) \/ Interrupted(i)
  BY DEF IInv, SuspendedInv, BeforeDummy
<1> QED
  BY <1>2, <1>3 DEF BeforeForkret, Interrupted

(* Nobody forks, and nobody comes past a fork. *)
LEMMA FamilyKept ==
  ASSUME IInv, total_tasks' = total_tasks,
         \A i \in Existing : /\ expect'[i].pc <= 1 <=> expect[i].pc <= 1
                             /\ expect'[i].pc <= 3 <=> expect[i].pc <= 3
  PROVE  FamilyInv'
<1>1. \A i \in 1 .. 4 : i \in Existing <=> ~(i >= total_tasks)
  BY DEF IInv, TypesInv, Existing
<1>2. ASSUME NEW i \in 1 .. 4
      PROVE  Becomes(i)' = Becomes(i)
  BY <1>1 DEF Becomes
<1>3. Becomes(1)' = Becomes(1) /\ Becomes(2)' = Becomes(2) /\ Becomes(3)' = Becomes(3)
        /\ Becomes(4)' = Becomes(4)
  BY <1>2
<1> QED
  BY <1>3 DEF IInv, FamilyInv
-----------------------------------------------------------------------------
(* schedule() always finds a task, which exists and has a slice.           *)
LEMMA Scheduled ==
  ASSUME TypesInv, NEW c \in [Tasks -> 0 .. 10]
  PROVE  /\ SlicesAfter(c) \in [Tasks -> 0 .. 10]
         /\ ShortestReady(SlicesAfter(c)) \in Existing
         /\ SlicesAfter(c)[ShortestReady(SlicesAfter(c))] > 0
<1> DEFINE d == SlicesAfter(c)
           R == Ready(d)
<1>1. total_tasks \in 2 .. 5 /\ 1 .. 4 \subseteq Tasks /\ Tasks \subseteq Nat
      /\ Existing \subseteq 1 .. 4 /\ 1 \in Existing
  BY TaskFacts DEF TypesInv
<1>2. Refill(c) \in [Tasks -> 0 .. 10]
  BY <1>1 DEF Refill
<1>3. d \in [Tasks -> 0 .. 10]
  BY <1>2 DEF SlicesAfter
<1>4. R # {}
  <2>1. CASE Ready(c) # {}
    BY <2>1 DEF SlicesAfter
  <2>2. CASE Ready(c) = {}
    <3>1. d[1] = 1
      BY <1>1, <2>2 DEF SlicesAfter, Refill
    <3>2. 1 \in R
      BY <1>1, <3>1 DEF Ready
    <3> QED
      BY <3>2
  <2> QED
    BY <2>1, <2>2
<1>5. R \subseteq 1 .. 4 /\ R \subseteq Existing /\ \A i \in R : d[i] > 0 /\ d[i] \in Nat
  BY <1>1, <1>3 DEF Ready, Existing
<1> HIDE DEF R, d
<1>6. \E i \in R : \A j \in R : d[i] < d[j] \/ (d[i] = d[j] /\ i <= j)
  <2> DEFINE Best(n, i) == /\ i \in R /\ i <= n
                           /\ \A j \in R : j <= n => d[i] < d[j] \/ (d[i] = d[j] /\ i <= j)
             HasBest(n) == (\E i \in R : i <= n) => \E i \in R : Best(n, i)
  <2>1. HasBest(1)
    <3> SUFFICES ASSUME NEW i \in R, i <= 1
                 PROVE  Best(1, i)
      OBVIOUS
    <3> QED
      BY <1>5
  <2>2. ASSUME NEW n \in 1 .. 3, HasBest(n)
        PROVE  HasBest(n + 1)
    <3>1. CASE n + 1 \notin R
      BY <1>5, <2>2, <3>1
    <3>2. CASE n + 1 \in R /\ \A i \in R : ~(i <= n)
      <4>1. Best(n + 1, n + 1)
        BY <1>5, <3>2
      <4> QED
        BY <3>2, <4>1
    <3>3. CASE n + 1 \in R /\ \E i \in R : i <= n
      <4>1. PICK i \in R : Best(n, i)
        BY <2>2, <3>3
      <4>2. CASE d[i] <= d[n + 1]
        <5>1. Best(n + 1, i)
          BY <1>5, <3>3, <4>1, <4>2
        <5> QED
          BY <5>1
      <4>3. CASE ~(d[i] <= d[n + 1])
        <5>1. Best(n + 1, n + 1)
          BY <1>5, <3>3, <4>1, <4>3
        <5> QED
          BY <3>3, <5>1
      <4> QED
        BY <4>2, <4>3
    <3> QED
      BY <3>1, <3>2, <3>3
  <2>3. HasBest(2) /\ HasBest(3) /\ HasBest(4)
    <3>1. HasBest(2)
      <4>1. 1 \in 1 .. 3 /\ 1 + 1 = 2
        OBVIOUS
      <4> QED
        BY <2>1, <2>2, <4>1
    <3>2. HasBest(3)
      <4>1. 2 \in 1 .. 3 /\ 2 + 1 = 3
        OBVIOUS
      <4> QED
        BY <2>2, <3>1, <4>1
    <3>3. HasBest(4)
      <4>1. 3 \in 1 .. 3 /\ 3 + 1 = 4
        OBVIOUS
      <4> QED
        BY <2>2, <3>2, <4>1
    <3> QED
      BY <3>1, <3>2, <3>3
  <2>4. \E i \in R : i <= 4
    <3>1. PICK i \in R : TRUE
      BY <1>4
    <3>2. i <= 4
      BY <1>5
    <3> QED
      BY <3>2
  <2>5. PICK i \in R : Best(4, i)
    BY <2>3, <2>4
  <2> QED
    BY <1>5, <2>5
<1>7. ShortestReady(d) \in R
  BY <1>6 DEF ShortestReady, R
<1> QED
  BY <1>3, <1>5, <1>7 DEF d

(* Whichever way a suspended task comes back, it runs with its own state.  *)
LEMMA ResumedTaskRuns ==
  ASSUME IInv, NEW next \in Existing \ {current}, NEW frames, frames[next] = frame[next]
  PROVE  /\ Resume(next, frames) \in CpuType
         /\ Runs(Resume(next, frames), next)
<1>1. next \in Tasks /\ next \in 0 .. NR_TASKS - 1
  BY TaskFacts DEF IInv
<1>2. /\ thread[next] \in ThreadType /\ frame[next] \in FrameType
      /\ trapframe[next] \in FrameType /\ cpu \in CpuType /\ expect[next] \in ContextType
  BY <1>1 DEF IInv, TypesInv
<1>3. CASE BeforeDummy(next)
  <2>1. Resume(next, frames) = Dummy(thread[next], next)
    BY <1>3 DEF Resume, BeforeDummy
  <2> QED
    BY <1>1, <1>2, <1>3, <2>1
       DEF Dummy, BeforeDummy, Runs, CpuType, ThreadType, ContextType
<1>4. CASE BeforeForkret(next)
  <2>1. Resume(next, frames) = RetFromFork(thread[next], trapframe[next], next)
    BY <1>4 DEF Resume, BeforeForkret
  <2> QED
    BY <1>1, <1>2, <1>4, <2>1
       DEF RetFromFork, BeforeForkret, Runs, CpuType, ThreadType, FrameType
<1>5. CASE Interrupted(next)
  <2>1. thread[next].sp[1] = next
    BY <1>1, <1>5, AddressFacts DEF Interrupted
  <2>2. Resume(next, frames) = TrapExit(frame[next], next)
    BY <1>5, <2>1 DEF Resume, Interrupted
  <2>3. frame[next].sp = Down(Top(next))
    BY <1>5 DEF Interrupted
  <2> QED
    BY <1>1, <1>2, <1>5, <2>2, <2>3, ExitRegisters DEF Interrupted, Runs
<1> QED
  BY <1>3, <1>4, <1>5 DEF IInv, SuspendedInv

(* After task_init. *)
LEMMA InitIInv ==
  ASSUME Init
  PROVE  IInv
<1>1. /\ 1 \in Tasks /\ Tasks \subseteq Nat /\ 0 \in 0 .. NR_TASKS - 1
  BY TaskFacts, ConstantsAssumption
<1>2. Existing = {1}
  BY DEF Init, Existing
<1>3. NoThread \in ThreadType /\ NoFrame \in FrameType /\ NoProgram \in ContextType
  BY AddressFacts, ValueFacts
     DEF NoThread, ThreadType, NoFrame, FrameType, NoProgram, ContextType
<1>4. [ra |-> "__dummy", sp |-> Top(1), s0 |-> 0, sepc |-> USER_START,
       sscratch |-> UserTop] \in ThreadType
  BY <1>1, AddressFacts DEF ThreadType, USER_START
<1>5. thread \in [Tasks -> ThreadType]
  BY <1>3, <1>4 DEF Init
<1>6. EmptyTable \in TableType
  BY DEF EmptyTable, TableType
<1>7. cpu \in CpuType
  BY <1>1, AddressFacts, ValueFacts DEF Init, CpuType
<1>8. areas = [i \in Tasks |-> IF i < total_tasks THEN ProgramAreas ELSE <<>>]
  <2>1. \A i \in Tasks : i < 2 <=> i = 1
    BY DEF Tasks
  <2> QED
    BY <2>1, AreasCopied DEF Init, ProgramAreas
<1>9. TypesInv
  BY <1>1, <1>3, <1>5, <1>6, <1>7, <1>8, ValueFacts DEF Init, TypesInv
<1>10. RunningInv
  BY DEF Init, RunningInv
<1>11. SuspendedInv
  <2>1. BeforeDummy(1)
    BY <1>1 DEF Init, BeforeDummy, NoProgram, USER_START
  <2> QED
    BY <1>2, <2>1 DEF SuspendedInv
<1>12. StackInv
  <2>1. pgtbl[1][StackVA] = NoPage
    BY <1>1 DEF Init, EmptyTable, USER_START, StackVA, USER_END
  <2> QED
    BY <1>1, <1>2, <2>1 DEF Init, StackInv, NoProgram
<1>13. FamilyInv
  <2>1. expect[1].pc = 0
    BY <1>1 DEF Init, NoProgram
  <2> QED
    BY <2>1 DEF Init, FamilyInv, Becomes
<1> QED
  BY <1>9, <1>10, <1>11, <1>12, <1>13 DEF IInv

(* The first task starts. *)
LEMMA StartKernelKeepsIInv ==
  ASSUME IInv, StartKernel
  PROVE  IInv'
<1> DEFINE next == ShortestReady(SlicesAfter(counter))
<1>1. /\ current = 0 /\ counter' = SlicesAfter(counter) /\ current' = next
      /\ cpu' = Resume(next, frame)
      /\ total_tasks' = total_tasks /\ thread' = thread /\ frame' = frame
      /\ trapframe' = trapframe /\ user_sp' = user_sp /\ areas' = areas /\ pgtbl' = pgtbl
      /\ mem' = mem /\ halted' = halted /\ expect' = expect
  BY DEF StartKernel
<1>2. /\ counter' \in [Tasks -> 0 .. 10] /\ next \in Existing /\ counter'[next] > 0
  BY <1>1, Scheduled DEF IInv, TypesInv
<1> HIDE DEF next
<1>3. total_tasks = 2 /\ next = 1 /\ Existing' = {1}
  BY <1>1, <1>2 DEF IInv, RunningInv, Existing
<1>4. cpu' \in CpuType /\ Runs(cpu', next)
  BY <1>1, <1>2, <1>3, ResumedTaskRuns
<1>5. TypesInv'
  BY <1>1, <1>2, <1>3, <1>4 DEF IInv, TypesInv
<1>6. RunningInv'
  BY <1>1, <1>2, <1>3, <1>4 DEF RunningInv, Runs
<1>7. SuspendedInv'
  BY <1>1, <1>3 DEF SuspendedInv
<1>8. StackInv'
  BY <1>1 DEF IInv, StackInv, Existing
<1>9. FamilyInv'
  BY <1>1 DEF IInv, FamilyInv, Becomes
<1> QED
  BY <1>5, <1>6, <1>7, <1>8, <1>9 DEF IInv

(* The program computes. *)
LEMMA UserWorkKeepsIInv ==
  ASSUME IInv, UserWork
  PROVE  IInv'
<1> DEFINE pc == cpu.pc
           next == IF pc = 4 THEN 4 ELSE pc + 1
           value == 10 * current + pc
           e == [sp |-> UserSp(pc), s0 |-> value, a0 |-> expect[current].a0,
                 pc |-> next, stack |-> value]
<1>1. /\ current # 0 /\ pc \in {0, 2, 4}
      /\ total_tasks' = total_tasks /\ current' = current /\ counter' = counter
      /\ thread' = thread /\ frame' = frame /\ trapframe' = trapframe
      /\ user_sp' = user_sp /\ areas' = areas /\ pgtbl' = pgtbl /\ halted' = halted
      /\ pgtbl[cpu.satp][StackVA] # NoPage
  BY DEF UserWork, InUser, Working, Mapped
<1>2. /\ cpu' = [cpu EXCEPT !.sp = UserSp(pc), !.s0 = value, !.t2 = Zero, !.pc = next]
      /\ mem' = [mem EXCEPT ![pgtbl[cpu.satp][StackVA]] = value]
      /\ expect' = [expect EXCEPT ![current] = e]
  BY DEF UserWork
<1>3. current \in Tasks /\ current \in Existing
  BY <1>1, TaskFacts DEF IInv
<1>4. /\ cpu \in CpuType /\ expect \in [Tasks -> ContextType] /\ mem \in [Tasks -> Values]
      /\ expect[current] \in ContextType
  BY <1>3 DEF IInv, TypesInv
<1>5. pc \in 0 .. 4 /\ next \in 0 .. 4 /\ value \in Values /\ UserSp(pc) \in Addresses
      /\ Zero \in Addresses
  <2>1. pc \in 0 .. 4 /\ next \in 0 .. 4
    BY <1>1
  <2>2. value \in Values
    BY <1>3, <2>1, ComputedValue
  <2> QED
    BY <2>1, <2>2, AddressFacts
<1>6. Runs(cpu, current)
  BY <1>1 DEF IInv, RunningInv
<1>7. pgtbl[cpu.satp][StackVA] = current
  BY <1>1, <1>3, <1>6 DEF IInv, StackInv, Runs
<1>8. next = 4 <=> pc = 4
  BY <1>1
<1>9. next \in {1, 3, 4} /\ (next <= 1 <=> pc <= 1) /\ (next <= 3 <=> pc <= 3)
  BY <1>1
<1> HIDE DEF next, value
<1>10. e \in ContextType
  BY <1>4, <1>5 DEF ContextType
<1>11. cpu' \in CpuType
  BY <1>2, <1>4, <1>5 DEF CpuType
<1>12. expect' \in [Tasks -> ContextType] /\ mem' \in [Tasks -> Values]
  BY <1>2, <1>4, <1>5, <1>7, <1>10
<1>13. /\ expect'[current] = e /\ mem'[current] = value
       /\ \A i \in Tasks \ {current} : expect'[i] = expect[i] /\ mem'[i] = mem[i]
  BY <1>2, <1>3, <1>4, <1>7
<1>14. TypesInv'
  BY <1>1, <1>11, <1>12 DEF IInv, TypesInv
<1>15. RunningInv'
  <2>1. /\ cpu'.sp = UserSp(pc) /\ cpu'.s0 = value /\ cpu'.a0 = cpu.a0 /\ cpu'.pc = next
        /\ cpu'.sscratch = cpu.sscratch /\ cpu'.satp = cpu.satp
    BY <1>2, <1>4 DEF CpuType
  <2>2. Runs(cpu, current)'
    BY <1>1, <1>6, <1>13, <2>1 DEF Runs
  <2> QED
    BY <1>1, <2>2 DEF IInv, RunningInv
<1>16. SuspendedInv'
  BY <1>1, <1>13, OthersStaySuspended
<1>17. StackInv'
  <2> SUFFICES ASSUME NEW i \in Existing
               PROVE  /\ pgtbl[i][StackVA] \in {NoPage, i} /\ user_sp[i] \in {NoPage, i}
                      /\ mem'[i] = expect'[i].stack
                      /\ expect'[i].pc \in {1, 3} => pgtbl[i][StackVA] = i
    BY <1>1 DEF IInv, StackInv, Existing
  <2>1. i \in Tasks
    BY TaskFacts DEF IInv
  <2>2. CASE i = current
    BY <1>6, <1>7, <1>13, <2>2 DEF IInv, StackInv, Runs
  <2>3. CASE i # current
    BY <1>13, <2>1, <2>3 DEF IInv, StackInv
  <2> QED
    BY <2>2, <2>3
<1>18. FamilyInv'
  <2>1. expect[current].pc = pc /\ expect'[current].pc = next
    BY <1>6, <1>13 DEF Runs
  <2>2. \A i \in Existing : i \in Tasks
    BY TaskFacts DEF IInv
  <2> HIDE DEF e, pc
  <2>3. \A i \in Existing : /\ expect'[i].pc <= 1 <=> expect[i].pc <= 1
                            /\ expect'[i].pc <= 3 <=> expect[i].pc <= 3
    BY <1>9, <1>13, <2>1, <2>2
  <2> QED
    BY <1>1, <2>3, FamilyKept
<1> QED
  BY <1>14, <1>15, <1>16, <1>17, <1>18 DEF IInv

(* find_vma, on the addresses the program uses. *)
LEMMA AreasFound ==
  /\ FindVma(ProgramAreas, USER_START) = {CodeArea}
  /\ FindVma(ProgramAreas, StackVA) = {StackArea}
<1>1. DOMAIN ProgramAreas = {1, 2} /\ ProgramAreas[1] = CodeArea /\ ProgramAreas[2] = StackArea
  BY DEF ProgramAreas
<1>2. {k \in DOMAIN ProgramAreas : /\ USER_START >= ProgramAreas[k].vm_start
                                   /\ USER_START < ProgramAreas[k].vm_end} = {1}
  BY <1>1 DEF CodeArea, StackArea, USER_START, StackVA, USER_END
<1>3. {k \in DOMAIN ProgramAreas : /\ StackVA >= ProgramAreas[k].vm_start
                                   /\ StackVA < ProgramAreas[k].vm_end} = {2}
  BY <1>1 DEF CodeArea, StackArea, USER_START, StackVA, USER_END
<1>4. FindVma(ProgramAreas, USER_START) = {CodeArea}
  BY <1>1, <1>2 DEF FindVma
<1>5. FindVma(ProgramAreas, StackVA) = {StackArea}
  BY <1>1, <1>3 DEF FindVma
<1> QED
  BY <1>4, <1>5

(* do_page_fault maps a page of the program, or the task's own stack.      *)
LEMMA PageFaultKeepsIInv ==
  ASSUME IInv, NEW va \in {USER_START, StackVA}, PageFault(va)
  PROVE  IInv'
<1>1. /\ current # 0 /\ ReturnsWith(TrapEntry(cpu))
      /\ total_tasks' = total_tasks /\ current' = current /\ counter' = counter
      /\ thread' = thread /\ trapframe' = trapframe /\ user_sp' = user_sp
      /\ areas' = areas /\ mem' = mem /\ expect' = expect
  BY DEF PageFault, InUser
<1>2. /\ current \in Tasks /\ current \in Existing
      /\ \A i \in Existing : i \in Tasks
  BY <1>1, TaskFacts DEF IInv
<1>3. areas[current] = ProgramAreas
  BY <1>2 DEF IInv, TypesInv, Existing
<1>4. PICK area \in {CodeArea, StackArea} :
        FindVma(areas[current], va) = {area}
  BY <1>3, AreasFound
<1>5. /\ halted' = FALSE
      /\ pgtbl' = [pgtbl EXCEPT ![current] =
                     CreateMapping(@, area, Backing(area.vm_flags))]
  <2>1. {area} # {} /\ (CHOOSE a \in {area} : TRUE) = area
    OBVIOUS
  <2>2. LET found == FindVma(areas[current], va) IN
          /\ halted' = (found = {})
          /\ pgtbl' = IF found = {} THEN pgtbl
                      ELSE LET a1 == CHOOSE a \in found : TRUE
                           IN  [pgtbl EXCEPT ![current] =
                                  CreateMapping(@, a1, Backing(a1.vm_flags))]
    BY Zenon DEF PageFault
  <2> QED
    BY <1>4, <2>1, <2>2
<1> DEFINE pa == Backing(area.vm_flags)
           new == CreateMapping(pgtbl[current], area, pa)
<1>6. /\ pgtbl \in [Tasks -> TableType] /\ pgtbl[current] \in TableType
      /\ user_sp[current] \in {NoPage, current} /\ pgtbl[current][StackVA] \in {NoPage, current}
  BY <1>2 DEF IInv, TypesInv, StackInv
<1>7. /\ pa \in {Uapp, current}
      /\ area = StackArea => pa = current
  BY <1>6 DEF Backing, CodeArea, StackArea
<1>8. new \in TableType
  <2>1. pa \in Tasks \cup {NoPage, Uapp}
    BY <1>2, <1>7
  <2> HIDE DEF pa
  <2> QED
    BY <1>6, <2>1 DEF CreateMapping, TableType
<1>9. /\ new[StackVA] \in {NoPage, current}
      /\ pgtbl[current][StackVA] = current => new[StackVA] = current
  <2>1. StackVA \in DOMAIN pgtbl[current]
    BY <1>6 DEF TableType, StackVA, USER_END, USER_START
  <2>2. area = CodeArea => ~(StackVA < area.vm_end)
    BY DEF CodeArea, StackVA, USER_END
  <2>3. 0 \notin Tasks
    BY TaskFacts
  <2> HIDE DEF pa
  <2> QED
    BY <1>2, <1>6, <1>7, <2>1, <2>2, <2>3 DEF CreateMapping, NoPage
<1> HIDE DEF new
<1>10. /\ pgtbl'[current] = new /\ pgtbl' \in [Tasks -> TableType]
       /\ \A i \in Tasks \ {current} : pgtbl'[i] = pgtbl[i]
  BY <1>2, <1>5, <1>6, <1>8 DEF new
<1>11. /\ cpu' \in CpuType
       /\ cpu'.sp = expect[current].sp /\ cpu'.s0 = expect[current].s0
       /\ cpu'.a0 = expect[current].a0 /\ cpu'.pc = expect[current].pc
       /\ cpu'.sscratch = Top(current) /\ cpu'.satp = current
       /\ frame' \in [Tasks -> FrameType]
       /\ \A i \in Tasks \ {current} : frame'[i] = frame[i]
  BY <1>1, EntryFrame, TrapReturns DEF IInv
<1>12. TypesInv'
  BY <1>1, <1>5, <1>10, <1>11 DEF IInv, TypesInv
<1>13. RunningInv'
  BY <1>1, <1>11 DEF IInv, RunningInv, Runs
<1>14. SuspendedInv'
  BY <1>1, <1>11, OthersStaySuspended
<1>15. StackInv'
  <2>1. Existing' = Existing
    BY <1>1 DEF Existing
  <2>2. ASSUME NEW i \in Existing
        PROVE  /\ pgtbl'[i][StackVA] \in {NoPage, i} /\ user_sp[i] \in {NoPage, i}
               /\ mem[i] = expect[i].stack
               /\ expect[i].pc \in {1, 3} => pgtbl'[i][StackVA] = i
    <3>1. CASE i = current
      BY <1>2, <1>9, <1>10, <3>1 DEF IInv, StackInv
    <3>2. CASE i # current
      BY <1>2, <1>10, <3>2 DEF IInv, StackInv
    <3> QED
      BY <3>1, <3>2
  <2>3. ASSUME NEW i \in Tasks \ Existing
        PROVE  pgtbl'[i] = EmptyTable
    BY <1>2, <1>10 DEF IInv, StackInv
  <2> QED
    BY <1>1, <2>1, <2>2, <2>3 DEF StackInv, EmptyTable
<1>16. FamilyInv'
  BY <1>1, FamilyKept
<1> QED
  BY <1>12, <1>13, <1>14, <1>15, <1>16 DEF IInv

(* getpid and write change the result register only. *)
LEMMA GetpidOrWriteKeepsIInv ==
  ASSUME IInv, GetpidOrWrite
  PROVE  IInv'
<1>1. PICK r \in {current, 1} :
        /\ ReturnsWith(Returned(TrapEntry(cpu), r))
        /\ expect' = [expect EXCEPT ![current].a0 = r]
  BY DEF GetpidOrWrite
<1>2. /\ current # 0 /\ cpu.pc \in {2, 4}
      /\ total_tasks' = total_tasks /\ current' = current /\ counter' = counter
      /\ thread' = thread /\ trapframe' = trapframe /\ user_sp' = user_sp
      /\ areas' = areas /\ pgtbl' = pgtbl /\ mem' = mem /\ halted' = halted
  BY DEF GetpidOrWrite, InUser
<1>3. /\ current \in Tasks /\ r \in Nat /\ \A i \in Existing : i \in Tasks
  BY <1>2, TaskFacts DEF IInv
<1> DEFINE f == TrapEntry(cpu)
           e == [expect[current] EXCEPT !.a0 = r]
<1>4. /\ f \in FrameType /\ f.sp = Down(Top(current)) /\ f.t2 = expect[current].sp
      /\ f.s0 = expect[current].s0 /\ f.sepc = expect[current].pc
  BY <1>2, EntryFrame DEF IInv
<1>5. f.sepc \notin {1, 3}
  BY <1>2, <1>4 DEF IInv, RunningInv, Runs
<1> HIDE DEF f
<1>6. /\ Returned(f, r) \in FrameType /\ Returned(f, r).sp = f.sp
      /\ Returned(f, r).t2 = f.t2 /\ Returned(f, r).s0 = f.s0
      /\ Returned(f, r).a0 = r /\ Returned(f, r).sepc = f.sepc
  BY <1>3, <1>4, <1>5 DEF Returned, FrameType
<1>7. /\ expect \in [Tasks -> ContextType] /\ expect[current] \in ContextType
  BY <1>3 DEF IInv, TypesInv
<1>8. /\ e \in ContextType /\ e.sp = expect[current].sp /\ e.s0 = expect[current].s0
      /\ e.a0 = r /\ e.pc = expect[current].pc /\ e.stack = expect[current].stack
  BY <1>3, <1>7 DEF ContextType
<1>9. expect' = [expect EXCEPT ![current] = e]
  BY <1>1
<1> HIDE DEF e
<1>10. /\ expect' \in [Tasks -> ContextType] /\ expect'[current] = e
       /\ \A i \in Tasks \ {current} : expect'[i] = expect[i]
  BY <1>3, <1>7, <1>8, <1>9
<1>11. ReturnsWith(Returned(f, r))
  BY <1>1 DEF f
<1>12. /\ cpu' \in CpuType
       /\ cpu'.sp = e.sp /\ cpu'.s0 = e.s0 /\ cpu'.a0 = e.a0 /\ cpu'.pc = e.pc
       /\ cpu'.sscratch = Top(current) /\ cpu'.satp = current
       /\ frame' \in [Tasks -> FrameType]
       /\ \A i \in Tasks \ {current} : frame'[i] = frame[i]
  BY <1>2, <1>4, <1>6, <1>8, <1>11, TrapReturns DEF IInv
<1>13. TypesInv'
  BY <1>2, <1>10, <1>12 DEF IInv, TypesInv
<1>14. RunningInv'
  BY <1>2, <1>10, <1>12 DEF IInv, RunningInv, Runs
<1>15. SuspendedInv'
  BY <1>2, <1>10, <1>12, OthersStaySuspended
<1>16. \A i \in Existing : expect'[i].pc = expect[i].pc /\ expect'[i].stack = expect[i].stack
  BY <1>3, <1>8, <1>10
<1>17. StackInv'
  BY <1>2, <1>16 DEF IInv, StackInv, Existing
<1>18. FamilyInv'
  BY <1>2, <1>16, FamilyKept
<1> QED
  BY <1>13, <1>14, <1>15, <1>17, <1>18 DEF IInv

(* There is room in task[] for another task: were there five, the task     *)
(* that forks would have been one of more than four.                       *)
LEMMA RoomForChild ==
  ASSUME IInv, current # 0, expect[current].pc \in {1, 3}
  PROVE  total_tasks \in 2 .. 4
<1>1. total_tasks \in 2 .. 5 /\ current \in 1 .. total_tasks - 1
  BY DEF IInv, TypesInv
<1>2. SUFFICES ASSUME total_tasks = 5 PROVE FALSE
  BY <1>1
<1>3. \A i \in 1 .. 4 : expect[i].pc \in 0 .. 4
  BY TaskFacts DEF IInv, TypesInv, ContextType
<1>4. /\ Becomes(1) \in {1, 2, 4} /\ Becomes(2) \in {1, 2, 4}
      /\ Becomes(3) \in {1, 2, 4} /\ Becomes(4) \in {1, 2, 4}
  BY <1>2 DEF Becomes
<1>5. Becomes(current) \in {2, 4}
  BY <1>1, <1>2 DEF Becomes
<1>6. current \in {1, 2, 3, 4}
  BY <1>1, <1>2
<1> QED
  BY <1>4, <1>5, <1>6 DEF IInv, FamilyInv

(* do_fork: the child is suspended before forkret, with the parent's       *)
(* program state and a copy of its stack.                                  *)
LEMMA ForkKeepsIInv ==
  ASSUME IInv, Fork
  PROVE  IInv'
<1>0. PICK child \in 2 .. 5 : child = total_tasks
  BY DEF IInv, TypesInv
<1> DEFINE f == TrapEntry(cpu)
           e == [expect[current] EXCEPT !.pc = @ + 1]
           parent == [e EXCEPT !.a0 = child]
           kid == [e EXCEPT !.a0 = 0]
<1>1. /\ current # 0 /\ cpu.pc \in {1, 3} /\ current' = current /\ pgtbl' = pgtbl
  BY DEF Fork, InUser
<1>2. Runs(cpu, current)
  BY <1>1 DEF IInv, RunningInv
<1>3. expect[current].pc \in {1, 3} /\ cpu.satp = current
  BY <1>1, <1>2 DEF Runs
<1>4. /\ child \in 2 .. 4 /\ child \in Tasks /\ child \in Nat /\ child \notin Existing
      /\ current \in Tasks /\ current \in Existing /\ current # child
      /\ \A i \in Existing : i \in Tasks /\ i # child
  BY <1>0, <1>1, <1>3, RoomForChild, TaskFacts DEF IInv, Existing
<1>5. pgtbl[cpu.satp][StackVA] = current
  BY <1>3, <1>4 DEF IInv, StackInv
<1>6. Mapped(StackVA)
  BY <1>4, <1>5, TaskFacts DEF Mapped, NoPage
<1>7. /\ DoFork(f) /\ ReturnsWith(Returned(f, child))
      /\ expect' = [expect EXCEPT ![current] = parent, ![child] = kid]
      /\ halted' = halted
  BY <1>0, <1>6 DEF Fork
<1>8. /\ f \in FrameType /\ f.sp = Down(Top(current)) /\ f.t2 = expect[current].sp
      /\ f.s0 = expect[current].s0 /\ f.sepc = expect[current].pc
  BY <1>1, EntryFrame DEF IInv
<1>9. /\ total_tasks' = child + 1
      /\ counter' = [counter EXCEPT ![child] = 0]
      /\ user_sp' = [user_sp EXCEPT ![child] = child]
      /\ mem' = [mem EXCEPT ![child] = mem[current]]
      /\ thread' = [thread EXCEPT ![child] =
                      [ra |-> "forkret", sp |-> Top(child), s0 |-> 0,
                       sepc |-> f.sepc + 1, sscratch |-> Top(child)]]
      /\ areas' = [areas EXCEPT ![child] = CopyAreas(areas[current])]
      /\ trapframe' = [trapframe EXCEPT ![child] = ChildFrame(f, child)]
  BY <1>0, <1>5, <1>7 DEF DoFork, StackCopy
<1> HIDE DEF f
<1>10. /\ Returned(f, child) \in FrameType /\ Returned(f, child).sp = f.sp
       /\ Returned(f, child).t2 = f.t2 /\ Returned(f, child).s0 = f.s0
       /\ Returned(f, child).a0 = child /\ Returned(f, child).sepc = f.sepc + 1
  <2>1. f.sepc \in {1, 3} /\ f.sepc + 1 \in 0 .. 4
    BY <1>3, <1>8
  <2> QED
    BY <1>4, <1>8, <2>1 DEF Returned, FrameType
<1>11. /\ ChildFrame(f, child) \in FrameType /\ ChildFrame(f, child).sp = f.t2
       /\ ChildFrame(f, child).t2 = Top(child) /\ ChildFrame(f, child).s0 = f.s0
       /\ ChildFrame(f, child).a0 = 0
  <2>1. Top(child) \in Addresses /\ f.sepc + 1 \in 0 .. 4
    BY <1>3, <1>4, <1>8, AddressFacts
  <2> QED
    BY <1>8, <2>1 DEF ChildFrame, FrameType
<1>12. [ra |-> "forkret", sp |-> Top(child), s0 |-> 0,
        sepc |-> f.sepc + 1, sscratch |-> Top(child)] \in ThreadType
  <2>1. Top(child) \in Addresses /\ f.sepc + 1 \in 0 .. 4
    BY <1>3, <1>4, <1>8, AddressFacts
  <2> QED
    BY <2>1 DEF ThreadType
<1>13. expect \in [Tasks -> ContextType] /\ expect[current] \in ContextType
  BY <1>4 DEF IInv, TypesInv
<1>14. /\ e \in ContextType /\ e.sp = expect[current].sp /\ e.s0 = expect[current].s0
       /\ e.pc = expect[current].pc + 1 /\ e.stack = expect[current].stack
  BY <1>3, <1>13 DEF ContextType
<1> HIDE DEF e
<1>15. /\ parent \in ContextType /\ parent.sp = e.sp /\ parent.s0 = e.s0
       /\ parent.a0 = child /\ parent.pc = e.pc /\ parent.stack = e.stack
  BY <1>4, <1>14 DEF ContextType
<1>16. /\ kid \in ContextType /\ kid.sp = e.sp /\ kid.s0 = e.s0
       /\ kid.a0 = 0 /\ kid.pc = e.pc /\ kid.stack = e.stack
  BY <1>14 DEF ContextType
<1> HIDE DEF parent, kid
<1>17. /\ expect' \in [Tasks -> ContextType]
       /\ expect'[current] = parent /\ expect'[child] = kid
       /\ \A i \in Tasks \ {current, child} : expect'[i] = expect[i]
  BY <1>4, <1>7, <1>13, <1>15, <1>16
<1>18. /\ cpu' \in CpuType
       /\ cpu'.sp = f.t2 /\ cpu'.s0 = f.s0 /\ cpu'.a0 = child /\ cpu'.pc = f.sepc + 1
       /\ cpu'.sscratch = Top(current) /\ cpu'.satp = current
       /\ frame' \in [Tasks -> FrameType]
       /\ \A i \in Tasks \ {current} : frame'[i] = frame[i]
  BY <1>1, <1>7, <1>8, <1>10, TrapReturns DEF IInv
<1>19. Existing' = Existing \cup {child}
  BY <1>0, <1>4, <1>9 DEF Existing, IInv, TypesInv
<1>20. /\ counter' \in [Tasks -> 0 .. 10] /\ \A i \in Existing : counter'[i] = counter[i]
       /\ user_sp' \in [Tasks -> Tasks \cup {NoPage}] /\ user_sp'[child] = child
       /\ \A i \in Existing : user_sp'[i] = user_sp[i]
       /\ mem' \in [Tasks -> Values] /\ mem'[child] = mem[current]
       /\ \A i \in Existing : mem'[i] = mem[i]
  BY <1>4, <1>9 DEF IInv, TypesInv
<1>21. /\ thread' \in [Tasks -> ThreadType]
       /\ thread'[child].ra = "forkret" /\ thread'[child].sepc = f.sepc + 1
       /\ \A i \in Existing : thread'[i] = thread[i]
  BY <1>4, <1>9, <1>12 DEF IInv, TypesInv
<1>22. /\ trapframe' \in [Tasks -> FrameType] /\ trapframe'[child] = ChildFrame(f, child)
       /\ \A i \in Existing : trapframe'[i] = trapframe[i]
  BY <1>4, <1>9, <1>11 DEF IInv, TypesInv
<1>23. areas' = [i \in Tasks |-> IF i < total_tasks' THEN ProgramAreas ELSE <<>>]
  <2>1. areas[current] = ProgramAreas
    BY <1>4 DEF IInv, TypesInv, Existing
  <2>2. areas' = [areas EXCEPT ![child] = ProgramAreas]
    BY <1>9, <2>1, AreasCopied
  <2>3. \A i \in Tasks : i < child + 1 <=> i < child \/ i = child
    BY <1>4, TaskFacts
  <2> QED
    BY <1>0, <1>4, <1>9, <2>2, <2>3 DEF IInv, TypesInv
<1>24. TypesInv'
  <2>1. total_tasks' \in 2 .. 5 /\ current' \in 0 .. total_tasks' - 1
    BY <1>0, <1>1, <1>4, <1>9 DEF IInv, TypesInv
  <2>2. pgtbl' \in [Tasks -> TableType] /\ halted' = FALSE
    BY <1>1, <1>7 DEF IInv, TypesInv
  <2> QED
    BY <1>17, <1>18, <1>20, <1>21, <1>22, <1>23, <2>1, <2>2 DEF TypesInv
<1>25. RunningInv'
  BY <1>1, <1>4, <1>8, <1>9, <1>14, <1>15, <1>17, <1>18, <1>20 DEF IInv, RunningInv, Runs
<1>26. SuspendedInv'
  <2>1. BeforeForkret(child)'
    BY <1>8, <1>11, <1>14, <1>16, <1>17, <1>21, <1>22 DEF BeforeForkret
  <2>2. ASSUME NEW i \in Existing \ {current}
        PROVE  BeforeForkret(i)' \/ Interrupted(i)'
    <3>1. i \in Tasks \ {current, child}
      BY <1>4
    <3>2. BeforeForkret(i) \/ Interrupted(i)
      BY <1>1 DEF IInv, SuspendedInv, BeforeDummy
    <3> QED
      BY <1>17, <1>18, <1>21, <1>22, <3>1, <3>2 DEF BeforeForkret, Interrupted
  <2> QED
    BY <1>1, <1>19, <2>1, <2>2 DEF SuspendedInv
<1>27. StackInv'
  <2>1. ASSUME NEW i \in Existing
        PROVE  /\ pgtbl[i][StackVA] \in {NoPage, i} /\ user_sp'[i] \in {NoPage, i}
               /\ mem'[i] = expect'[i].stack
               /\ expect'[i].pc \in {1, 3} => pgtbl[i][StackVA] = i
    <3>1. CASE i = current
      <4>1. expect'[i].stack = expect[i].stack /\ expect'[i].pc \notin {1, 3}
        BY <1>3, <1>14, <1>15, <1>17, <3>1
      <4> QED
        BY <1>20, <4>1 DEF IInv, StackInv
    <3>2. CASE i # current
      BY <1>4, <1>17, <1>20, <3>2 DEF IInv, StackInv
    <3> QED
      BY <3>1, <3>2
  <2>2. /\ pgtbl[child][StackVA] = NoPage /\ user_sp'[child] = child
        /\ mem'[child] = expect'[child].stack /\ expect'[child].pc \notin {1, 3}
    <3>1. pgtbl[child] = EmptyTable
      BY <1>4 DEF IInv, StackInv
    <3>2. EmptyTable[StackVA] = NoPage
      BY DEF EmptyTable, StackVA, USER_END, USER_START
    <3>3. mem[current] = expect[current].stack
      BY <1>4 DEF IInv, StackInv
    <3>4. kid.pc \notin {1, 3}
      BY <1>3, <1>14, <1>16
    <3> QED
      BY <1>14, <1>16, <1>17, <1>20, <3>1, <3>2, <3>3, <3>4
  <2>3. ASSUME NEW i \in Tasks \ (Existing \cup {child})
        PROVE  pgtbl[i] = EmptyTable
    BY DEF IInv, StackInv
  <2> QED
    BY <1>1, <1>19, <2>1, <2>2, <2>3 DEF StackInv, EmptyTable
<1>28. FamilyInv'
  <2> DEFINE old == [i \in 1 .. 4 |-> Becomes(i)]
             new == [i \in 1 .. 4 |-> IF i >= child + 1 THEN 0
                                      ELSE IF expect'[i].pc <= 1 THEN 4
                                      ELSE IF expect'[i].pc <= 3 THEN 2
                                      ELSE 1]
  <2>1. /\ Becomes(1)' = new[1] /\ Becomes(2)' = new[2]
        /\ Becomes(3)' = new[3] /\ Becomes(4)' = new[4]
    BY <1>9 DEF Becomes
  <2>2. old[1] + old[2] + old[3] + old[4] = 4
    BY DEF IInv, FamilyInv
  <2>3. current \in {1, 2, 3, 4} /\ child \in {2, 3, 4}
    BY <1>0, <1>1, <1>4, TaskFacts DEF IInv
  <2>4. old[current] = new[current] + new[child] /\ old[child] = 0
    BY <1>0, <1>3, <1>4, <1>14, <1>15, <1>16, <1>17, <2>3 DEF Becomes, Existing
  <2>5. ASSUME NEW i \in 1 .. 4, i # current, i # child
        PROVE  new[i] = old[i]
    <3>1. i \in Tasks \ {current, child}
      BY <2>5, TaskFacts
    <3>2. i >= child + 1 <=> i >= total_tasks
      BY <1>0, <1>4, <2>5
    <3> QED
      BY <1>17, <3>1, <3>2 DEF Becomes
  <2>6. old \in [1 .. 4 -> Nat] /\ new \in [1 .. 4 -> Nat]
    BY DEF Becomes
  <2> HIDE DEF old, new
  <2>7. new[1] + new[2] + new[3] + new[4] = 4
    BY <1>4, <2>2, <2>3, <2>4, <2>5, <2>6
  <2> QED
    BY <2>1, <2>7 DEF FamilyInv
<1> QED
  BY <1>24, <1>25, <1>26, <1>27, <1>28 DEF IInv

(* A timer interrupt: back into the task, or into the next one. *)
LEMMA TimerKeepsIInv ==
  ASSUME IInv, TimerInterrupt
  PROVE  IInv'
<1> DEFINE c == DoTimer(counter)
           f == TrapEntry(cpu)
<1>1. /\ current # 0
      /\ total_tasks' = total_tasks /\ user_sp' = user_sp /\ areas' = areas
      /\ pgtbl' = pgtbl /\ mem' = mem /\ halted' = halted /\ expect' = expect
  BY DEF TimerInterrupt, InUser
<1>2. /\ current \in Tasks /\ current \in Existing
      /\ \A i \in Existing : i \in Tasks
  BY <1>1, TaskFacts DEF IInv
<1>3. /\ counter \in [Tasks -> 0 .. 10] /\ counter[current] \in 1 .. 10
  BY <1>1, <1>2 DEF IInv, TypesInv, RunningInv
<1>4. c \in [Tasks -> 0 .. 10] /\ c[current] = counter[current] - 1
  <2>1. counter[current] - 1 \in 0 .. 9
    BY <1>3
  <2>2. ASSUME NEW n \in 0 .. 9 PROVE n % CounterMod = n
    BY ConstantsAssumption
  <2>3. (counter[current] - 1) % CounterMod = counter[current] - 1
    BY <2>1, <2>2
  <2> QED
    BY <1>2, <1>3, <2>1, <2>3 DEF DoTimer
<1>5. /\ f \in FrameType /\ f.sp = Down(Top(current)) /\ f.t2 = expect[current].sp
      /\ f.s0 = expect[current].s0 /\ f.a0 = expect[current].a0
      /\ f.sepc = expect[current].pc
      /\ cpu.sscratch[1] = current /\ cpu.satp = current
  BY <1>1, EntryFrame DEF IInv
<1>6. Existing' = Existing
  BY <1>1 DEF Existing
<1>7. StackInv'
  BY <1>1, <1>6 DEF IInv, StackInv, EmptyTable
<1>8. FamilyInv'
  BY <1>1, FamilyKept
<1>9. \/ /\ c[current] > 0 /\ counter' = c /\ ReturnsWith(f)
         /\ current' = current /\ thread' = thread /\ trapframe' = trapframe
      \/ /\ counter' = SlicesAfter(c) /\ SwitchTo(ShortestReady(counter'), f)
  BY DEF TimerInterrupt
<1> HIDE DEF c, f
<1>10. ASSUME current' = current, thread' = thread, trapframe' = trapframe, ReturnsWith(f),
              counter' \in [Tasks -> 0 .. 10], counter'[current] > 0
       PROVE  TypesInv' /\ RunningInv' /\ SuspendedInv'
  <2>1. /\ cpu' \in CpuType
        /\ cpu'.sp = f.t2 /\ cpu'.s0 = f.s0 /\ cpu'.a0 = f.a0 /\ cpu'.pc = f.sepc
        /\ cpu'.sscratch = Top(current) /\ cpu'.satp = current
        /\ frame' \in [Tasks -> FrameType]
        /\ \A i \in Tasks \ {current} : frame'[i] = frame[i]
    BY <1>1, <1>5, <1>10, TrapReturns DEF IInv
  <2>2. TypesInv'
    BY <1>1, <1>10, <2>1 DEF IInv, TypesInv
  <2>3. RunningInv'
    BY <1>1, <1>5, <1>10, <2>1 DEF IInv, RunningInv, Runs
  <2>4. SuspendedInv'
    BY <1>1, <1>10, <2>1, OthersStaySuspended
  <2> QED
    BY <2>2, <2>3, <2>4
<1>11. CASE /\ c[current] > 0 /\ counter' = c /\ ReturnsWith(f)
            /\ current' = current /\ thread' = thread /\ trapframe' = trapframe
  BY <1>4, <1>7, <1>8, <1>10, <1>11 DEF IInv
<1>12. CASE counter' = SlicesAfter(c) /\ SwitchTo(ShortestReady(counter'), f)
  <2>1. PICK next : next = ShortestReady(counter')
    OBVIOUS
  <2>2. /\ counter' \in [Tasks -> 0 .. 10] /\ next \in Existing /\ counter'[next] > 0
    BY <1>4, <1>12, <2>1, Scheduled DEF IInv
  <2>3. SwitchTo(next, f)
    BY <1>12, <2>1
  <2>4. CASE next = current
    <3>1. /\ current' = current /\ thread' = thread /\ trapframe' = trapframe
          /\ ReturnsWith(f)
      BY <2>3, <2>4 DEF SwitchTo, ReturnsWith
    <3> QED
      BY <1>7, <1>8, <1>10, <2>2, <2>4, <3>1 DEF IInv
  <2>5. CASE next # current
    <3> DEFINE frames == [frame EXCEPT ![current] = f]
    <3>1. /\ current' = next /\ cpu' = Resume(next, frames)
          /\ thread' = [thread EXCEPT ![current] = SavedThread(cpu)]
          /\ frame' = [frames EXCEPT ![next] = NoFrame]
          /\ trapframe' = [trapframe EXCEPT ![next] = NoFrame]
      BY <1>5, <2>3, <2>5 DEF SwitchTo
    <3>2. next \in Tasks /\ next \in 1 .. total_tasks - 1
      BY <1>2, <2>2 DEF Existing
    <3>3. frames \in [Tasks -> FrameType] /\ frames[next] = frame[next] /\ frames[current] = f
          /\ \A i \in Tasks \ {current} : frames[i] = frame[i]
      BY <1>2, <1>5, <2>5, <3>2 DEF IInv, TypesInv
    <3> HIDE DEF frames
    <3>4. cpu' \in CpuType /\ Runs(cpu', next)
      BY <2>2, <2>5, <3>1, <3>3, ResumedTaskRuns
    <3>5. NoFrame \in FrameType
      BY AddressFacts, ValueFacts DEF NoFrame, FrameType
    <3>6. /\ SavedThread(cpu) \in ThreadType /\ SavedThread(cpu).ra = "switch_to"
          /\ SavedThread(cpu).sp = Down(Top(current))
      <4>1. cpu.sscratch = Top(current) /\ cpu.pc \in 0 .. 4
        BY <1>1 DEF IInv, TypesInv, CpuType, RunningInv, Runs
      <4>2. Zero \in Addresses /\ Down(Top(current)) \in Addresses
        BY <1>2, AddressFacts
      <4> QED
        BY <4>1, <4>2 DEF SavedThread, ThreadType
    <3>7. /\ frame' \in [Tasks -> FrameType] /\ frame'[current] = f
          /\ \A i \in Tasks \ {current, next} : frame'[i] = frame[i]
      BY <1>2, <2>5, <3>1, <3>2, <3>3, <3>5
    <3>8. /\ thread' \in [Tasks -> ThreadType] /\ thread'[current] = SavedThread(cpu)
          /\ \A i \in Tasks \ {current} : thread'[i] = thread[i]
      BY <1>2, <3>1, <3>6 DEF IInv, TypesInv
    <3>9. /\ trapframe' \in [Tasks -> FrameType]
          /\ \A i \in Tasks \ {next} : trapframe'[i] = trapframe[i]
      BY <3>1, <3>2, <3>5 DEF IInv, TypesInv
    <3>10. TypesInv'
      BY <1>1, <2>2, <3>1, <3>2, <3>4, <3>7, <3>8, <3>9 DEF IInv, TypesInv
    <3>11. RunningInv'
      BY <1>1, <2>2, <3>1, <3>2, <3>4 DEF IInv, TypesInv, RunningInv, Runs
    <3>12. SuspendedInv'
      <4> SUFFICES ASSUME NEW i \in Existing \ {next}
                   PROVE  BeforeForkret(i)' \/ Interrupted(i)'
        BY <1>6, <3>1 DEF SuspendedInv
      <4>1. CASE i = current
        <5>1. Interrupted(i)'
          BY <1>1, <1>5, <3>6, <3>7, <3>8, <4>1 DEF Interrupted
        <5> QED
          BY <5>1
      <4>2. CASE i # current
        <5>1. i \in Tasks \ {current, next}
          BY <1>2, <4>2
        <5>2. BeforeForkret(i) \/ Interrupted(i)
          BY <1>1, <4>2 DEF IInv, SuspendedInv, BeforeDummy
        <5> QED
          BY <1>1, <3>7, <3>8, <3>9, <5>1, <5>2 DEF BeforeForkret, Interrupted
      <4> QED
        BY <4>1, <4>2
    <3> QED
      BY <1>7, <1>8, <3>10, <3>11, <3>12 DEF IInv
  <2> QED
    BY <2>4, <2>5
<1> QED
  BY <1>9, <1>11, <1>12
-----------------------------------------------------------------------------
(* The inductive invariant, for every length of task[] and every width of  *)
(* the counters: a suspended task has its state where its way back into    *)
(* user mode looks for it, and the program makes at most four tasks.       *)
THEOREM KernelInvariant == Spec => []IInv
<1>1. Init => IInv
  BY InitIInv
<1>2. IInv /\ [Next]_vars => IInv'
  <2> SUFFICES ASSUME IInv, [Next]_vars
               PROVE  IInv'
    OBVIOUS
  <2>1. CASE StartKernel
    BY <2>1, StartKernelKeepsIInv
  <2>2. CASE UserWork
    BY <2>2, UserWorkKeepsIInv
  <2>3. CASE \E va \in {USER_START, StackVA} : PageFault(va)
    BY <2>3, PageFaultKeepsIInv
  <2>4. CASE Fork
    BY <2>4, ForkKeepsIInv
  <2>5. CASE GetpidOrWrite
    BY <2>5, GetpidOrWriteKeepsIInv
  <2>6. CASE TimerInterrupt
    BY <2>6, TimerKeepsIInv
  <2>7. CASE UNCHANGED vars
    BY <2>7 DEF vars, IInv, TypesInv, RunningInv, Runs, SuspendedInv, BeforeDummy,
                BeforeForkret, Interrupted, StackInv, FamilyInv, Becomes, Existing
  <2> QED
    BY <2>1, <2>2, <2>3, <2>4, <2>5, <2>6, <2>7 DEF Next
<1> QED
  BY <1>1, <1>2, PTL DEF Spec

(* Whatever traps, switches and forks come in between, a running task has  *)
(* the registers its program left, its own kernel stack for the next trap  *)
(* and its own page table.                                                 *)
THEOREM TasksKeepTheirState == Spec => []TaskStateKept
<1>1. IInv => TaskStateKept
  BY DEF IInv, RunningInv, Runs, TaskStateKept, ContextKept, TrapStackOwn, InUser
<1> QED
  BY <1>1, KernelInvariant, PTL

(* A task finds on its user stack what it wrote there, and a child what    *)
(* its parent had written at the fork.                                     *)
THEOREM StacksAreKept == Spec => []StackKept
<1>1. IInv => StackKept
  <2> SUFFICES ASSUME IInv, NEW i \in 1 .. total_tasks - 1
               PROVE  /\ pgtbl[i][StackVA] # NoPage =>
                           mem[pgtbl[i][StackVA]] = expect[i].stack
                      /\ pgtbl[i][StackVA] = NoPage /\ user_sp[i] # NoPage =>
                           mem[user_sp[i]] = expect[i].stack
    BY DEF StackKept
  <2> QED
    BY DEF IInv, StackInv, Existing
<1> QED
  BY <1>1, KernelInvariant, PTL

(* The kernel does not fault or spin, task[] is not overrun, schedule()    *)
(* always finds a task and slices never wrap.                              *)
THEOREM KernelKeepsGoing == Spec => []KernelGoesOn
<1>1. IInv => KernelGoesOn
  <2> SUFFICES ASSUME IInv PROVE KernelGoesOn
    OBVIOUS
  <2>1. KernelAlive
    BY DEF IInv, TypesInv, KernelAlive
  <2>2. SliceLeft
    BY DEF IInv, RunningInv, SliceLeft, InUser
  <2>3. total_tasks \in 2 .. NR_TASKS /\ current \in 0 .. total_tasks - 1
    BY ConstantsAssumption DEF IInv, TypesInv
  <2>4. ASSUME NEW i \in Tasks
        PROVE  /\ thread[i].ra \in {"__dummy", "forkret", "switch_to"}
               /\ {thread[i].sp, thread[i].sscratch, frame[i].sp, frame[i].t2,
                   trapframe[i].sp, trapframe[i].t2} \subseteq Addresses
               /\ {frame[i].s0, trapframe[i].s0, mem[i]} \subseteq Values
               /\ user_sp[i] \in Tasks \cup {NoPage}
               /\ pgtbl[i] \in [USER_START .. StackVA -> Tasks \cup {NoPage, Uapp}]
    <3>1. /\ thread[i] \in ThreadType /\ frame[i] \in FrameType /\ trapframe[i] \in FrameType
          /\ mem[i] \in Values /\ user_sp[i] \in Tasks \cup {NoPage} /\ pgtbl[i] \in TableType
      BY DEF IInv, TypesInv
    <3> QED
      BY <3>1 DEF ThreadType, FrameType, TableType
  <2>5. /\ {cpu.sp, cpu.t2, cpu.sscratch} \subseteq Addresses
        /\ cpu.s0 \in Values /\ cpu.pc \in 0 .. 4 /\ cpu.satp \in 0 .. NR_TASKS - 1
    BY DEF IInv, TypesInv, CpuType
  <2>6. TypeOK
    BY <2>3, <2>4, <2>5 DEF IInv, TypesInv, TypeOK
  <2> QED
    BY <2>1, <2>2, <2>6 DEF KernelGoesOn
<1> QED
  BY <1>1, KernelInvariant, PTL
=============================================================================
