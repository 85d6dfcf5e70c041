------------------------------ MODULE Pipeline ------------------------------
(***************************************************************************)
(* SCPU: five stages, registers forwarded into decode and execute, loads   *)
(* that stall the instruction in fetch, branches decided in decode, and a  *)
(* predictor made of a branch target buffer and two-bit histories.         *)
(*                                                                         *)
(* One step is one clock period, from one rising edge to the next.  What   *)
(* the falling edge writes in between (registers, CSRs, predictor) is seen *)
(* by what is latched at the end.  The control signals a stage carries are *)
(* those of the instruction it carries, so the latches keep only that.     *)
(***************************************************************************)
EXTENDS RV64, FiniteSets

CONSTANT BtbSize    \* 256, the length of the branch target buffer

ASSUME SizesAssumption ==
    /\ WordMod \in Nat \ {0} /\ RegCount \in 1 .. WordMod
    /\ Length \in 0 .. WordMod - 1 /\ BtbSize \in Nat

ASSUME InstrsAssumption == Instrs \cup {Boot} \subseteq InstrType

\* The history of a branch at address 0 would be kept in a free entry.
ASSUME BootAssumption == Boot.op \notin {"beq", "bne"}

VARIABLES
    prog,       \* the ROM
    pc,         \* IF_PC
    id,         \* IF/ID: pc, ir and what the predictor said
    ex,         \* ID/EX: pc, ir, the operands and jmp_or_not
    mem,        \* EX/MEM: pc, ir, ALUout and the data to store
    wb,         \* MEM/WB: pc, ir, ALUout and the data read
    regs, ram, csr,
    btb,        \* targets by address of the jump
    bht         \* two-bit history by address of the branch

vars == <<prog, pc, id, ex, mem, wb, regs, ram, csr, btb, bht>>

\* addi x0, x0, 0 in place of a fetched instruction.
Bubble == Instr("nop", 0, 0, 0, 0)

-----------------------------------------------------------------------------
(* Control *)

Branch(i) == i.op \in {"beq", "bne"}
MemRead(i) == i.op = "ld"
MemWrite(i) == i.op = "sd"
RegWrite(i) == i.op \in {"addi", "add", "lui", "ld", "jal", "jalr"}
AluSrcImm(i) == i.op \in {"addi", "lui", "ld", "sd", "jal"}
Csr(i) == i.op \in {"csrw_stvec", "csrw_sepc", "ecall", "sret"}
Trap(i) == i.op \in {"ecall", "sret"}

\* lui runs through the ALU as a shift by its immediate, which is 0 or at
\* least 4096.
ALU(i, a, b) ==
    IF i.op = "lui" THEN (IF b = 0 THEN a ELSE 0) ELSE Plus(a, b)

-----------------------------------------------------------------------------
(* Write back and memory *)

WbData(s) ==
    IF s.ir.op = "lui" THEN s.ir.imm
    ELSE IF s.ir.op \in {"jal", "jalr"} THEN Plus(s.pc, 1)
    ELSE IF MemRead(s.ir) THEN s.data
    ELSE s.alu

Written(s, rs) ==
    IF RegWrite(s.ir) THEN Write(rs, s.ir.rd, WbData(s)) ELSE rs

Stored(s, r) == IF MemWrite(s.ir) THEN [r EXCEPT ![s.alu] = s.b] ELSE r

Accessed(s, r) == [pc |-> s.pc, ir |-> s.ir, alu |-> s.alu, data |-> r[s.alu]]

-----------------------------------------------------------------------------
(* Execute *)

Provides(s, r) == RegWrite(s.ir) /\ s.ir.rd # 0 /\ s.ir.rd = r

ForwardedOldFirst(r, v, useWb) ==
    IF Provides(wb, r) /\ useWb THEN WbData(wb)
    ELSE IF Provides(mem, r)
    THEN IF mem.ir.op = "lui" THEN mem.ir.imm ELSE mem.alu
    ELSE v
\* MUX3_1T1 for one operand, with the selection FORWARD makes: MEM before
\* WB before what decode read.
Forwarded(r, v, useWb) ==
    IF Provides(mem, r)
    THEN IF mem.ir.op = "lui" THEN mem.ir.imm ELSE mem.alu
    ELSE IF Provides(wb, r) /\ useWb THEN WbData(wb) ELSE v

FinalA == Forwarded(ex.ir.rs1, ex.a, TRUE)
FinalB == Forwarded(ex.ir.rs2, ex.b, ~AluSrcImm(ex.ir) \/ MemWrite(ex.ir))

EX_ALUout ==
    ALU(ex.ir, FinalA, IF AluSrcImm(ex.ir) THEN ex.ir.imm ELSE FinalB)

Executed == [pc |-> ex.pc, ir |-> ex.ir, alu |-> EX_ALUout, b |-> FinalB]

-----------------------------------------------------------------------------
(* Decode *)

ReadsEarly(i) == Branch(i) \/ Csr(i) \/ i.op = "jalr"

\* Forward_for_B: EX before MEM, for the instructions decode itself uses
\* the operands of; all others take what write back has.
Operand(r) ==
    LET Early(s) == ReadsEarly(id.ir) /\ Provides(s, r)
                    /\ ~MemRead(s.ir) /\ s.ir.op # "jal"
    IN  IF Early(ex) THEN EX_ALUout
        ELSE IF Early(mem) THEN mem.alu
        ELSE Written(wb, regs)[r]

ID_A == Operand(id.ir.rs1)
ID_B == Operand(id.ir.rs2)

jmp_or_not ==
    /\ Branch(id.ir)
    /\ (ID_A = ID_B) = (id.ir.op = "beq")

Decoded ==
    [pc |-> id.pc, ir |-> id.ir, a |-> ID_A, b |-> ID_B, jmp |-> jmp_or_not]

\* CSRregs at the falling edge; pc is still the address in fetch.
NextCsr ==
    IF id.ir.op = "csrw_stvec" THEN [csr EXCEPT !.mtvec = ID_A]
    ELSE IF id.ir.op = "csrw_sepc" THEN [csr EXCEPT !.mepc = ID_A]
    ELSE IF id.ir.op = "ecall" THEN [csr EXCEPT !.mepc = pc]
    ELSE csr

change_pc == IF id.ir.op = "sret" THEN csr.mepc ELSE csr.mtvec

-----------------------------------------------------------------------------
(* Predictor *)

\* An entry for address 0 looks like a free one.
Enters(s, taken) ==
    /\ taken \/ s.ir.op = "jal"
    /\ s.pc # 0 /\ s.pc \notin DOMAIN btb

\* Decode and execute look for the same free entry; decode's write is the
\* later one.  That there is one is TableHasRoom.
NextBtb ==
    LET With(s) == [a \in DOMAIN btb \cup {s.pc} |->
                        IF a = s.pc THEN Plus(s.pc, s.ir.imm) ELSE btb[a]]
    IN  IF Enters(id, jmp_or_not) THEN With(id)
        ELSE IF Enters(ex, ex.jmp) THEN With(ex)
        ELSE btb

\* 0 and 1 predict not taken, 2 and 3 taken; one wrong guess in 3 leads to
\* 2, the next one to 0.
History(h, taken) ==
    IF taken THEN (IF h = 0 THEN 1 ELSE 3) ELSE (IF h = 3 THEN 2 ELSE 0)

NextBht ==
    IF Branch(id.ir) THEN [bht EXCEPT ![id.pc] = History(@, jmp_or_not)] ELSE bht

-----------------------------------------------------------------------------
(* Fetch *)

IF_IR_temp == Rom(prog, pc)

\* Detection compares the fields whether the instruction has them or not.
Names(i, r) == r # 0 /\ r \in {i.rs1, i.rs2}

LoadUseNextOnly == MemRead(id.ir) /\ Names(IF_IR_temp, id.ir.rd)
LoadUseAnyResult ==
    \E s \in {id, ex} : s.ir.rd \in {IF_IR_temp.rs1, IF_IR_temp.rs2}
LoadUse ==
    \E s \in {id, ex} : MemRead(s.ir) /\ Names(IF_IR_temp, s.ir.rd)

Mispredicted ==
    \/ id.ir.op = "jal" /\ ~id.found
    \/ id.ir.op = "jalr"
    \/ Branch(id.ir) /\ jmp_or_not # id.predict

PC_write == LoadUse /\ ~Trap(id.ir)
IF_IR ==
    IF Trap(id.ir) \/ LoadUse \/ Mispredicted THEN Bubble ELSE IF_IR_temp

foundBTB == pc \in DOMAIN NextBtb
predict_jmp == foundBTB /\ (IF_IR.op = "jal" \/ NextBht[pc] \in {2, 3})

Fetched == [pc |-> pc, ir |-> IF_IR, predict |-> predict_jmp, found |-> foundBTB]

\* MUX_pc, for a jump or branch in decode.
JumpPc ==
    LET jal == id.ir.op = "jal" IN
    IF id.predict
    THEN IF jmp_or_not \/ jal THEN Plus(pc, 1) ELSE Plus(id.pc, 1)
    ELSE IF jmp_or_not \/ jal THEN Plus(id.pc, id.ir.imm) ELSE Plus(pc, 1)

final_PC_out ==
    IF predict_jmp THEN NextBtb[pc]
    ELSE IF id.ir.op = "jalr" THEN ID_A
    ELSE IF id.ir.op = "jal" \/ Branch(id.ir) THEN JumpPc
    ELSE Plus(pc, 1)

NextPc ==
    IF PC_write THEN pc
    ELSE IF Trap(id.ir) THEN change_pc
    ELSE final_PC_out

-----------------------------------------------------------------------------
(* What the pipeline asks of a program.  Each clause names an order of      *)
(* instructions that it does not execute as the instruction set says.       *)

At(p, a) == Rom(p, a)

\* Registers the instruction needs, and needs already in decode.
Uses(i) ==
    CASE i.op \in {"addi", "ld", "jalr", "csrw_stvec", "csrw_sepc"} -> {i.rs1}
      [] i.op \in {"add", "sd", "beq", "bne"} -> {i.rs1, i.rs2}
      [] OTHER -> {}
UsesEarly(i) == IF ReadsEarly(i) THEN Uses(i) ELSE {}

\* Where fetch may stand, rightly or not, while a is in decode.
Beside(p, a) ==
    {Plus(a, 1)} \cup (IF Branch(At(p, a)) THEN {Plus(a, At(p, a).imm)} ELSE {})

Successors(p, a) ==
    IF At(p, a).op = "jalr" \/ Trap(At(p, a)) THEN Word
    ELSE IF At(p, a).op = "jal" THEN {Plus(a, At(p, a).imm)}
    ELSE Beside(p, a)

\* FORWARD hands on the ALU's output of a jal, not the return address.
LinkForwarded(p) ==
    \A a \in Word : At(p, a).op = "jal" =>
        \A b \in Successors(p, a) : At(p, a).rd \notin Uses(At(p, b)) \ {0}

\* So does Forward_for_B for jalr and lui, and for jal it leaves the old value.
DecodeForwarded(p) ==
    \A a \in Word : At(p, a).op \in {"jal", "jalr", "lui"} =>
        \A b \in Successors(p, a) :
            /\ At(p, a).rd \notin UsesEarly(At(p, b)) \ {0}
            /\ At(p, a).op # "jalr" =>
                \A c \in Successors(p, b) :
                    At(p, a).rd \notin UsesEarly(At(p, c)) \ {0}

Jumps(i) == Branch(i) \/ i.op \in {"jal", "jalr"}

\* MUX_jmp lets a prediction for the squashed instruction win over the
\* target that decode has found.
RedirectWins(p) ==
    \A a \in Word : Jumps(At(p, a)) =>
        \A b \in Beside(p, a) : ~Branch(At(p, b))

\* Detection stalls for a load in execute before it looks at the jump in
\* decode, whose target is then lost.
StallKeepsJump(p) ==
    \A a \in Word : MemRead(At(p, a)) =>
        \A b \in Successors(p, a) : Jumps(At(p, b)) =>
            \A c \in Beside(p, b) : ~Names(At(p, c), At(p, a).rd)

\* A search of the buffer stops at its last entry, which is not initialised,
\* and takes it for a hit when all others are used: the jumps of the program,
\* and the one it may halt in, must leave one free.
JumpAddresses(p) == {a \in 1 .. Length : Branch(p[a]) \/ p[a].op = "jal"}
JumpsFit(p) == Cardinality(JumpAddresses(p)) + 2 < BtbSize

Supported(p) ==
    /\ LinkForwarded(p) /\ DecodeForwarded(p)
    /\ RedirectWins(p) /\ StallKeepsJump(p)
    /\ JumpsFit(p)

-----------------------------------------------------------------------------
(* Behaviour *)

Init ==
    /\ prog \in [1 .. Length -> Instrs] /\ Supported(prog)
    /\ pc = 0
    /\ id = [pc |-> 0, ir |-> Bubble, predict |-> FALSE, found |-> FALSE]
    /\ ex = [pc |-> 0, ir |-> Bubble, a |-> 0, b |-> 0, jmp |-> FALSE]
    /\ mem = [pc |-> 0, ir |-> Bubble, alu |-> 0, b |-> 0]
    /\ wb = [pc |-> 0, ir |-> Bubble, alu |-> 0, data |-> 0]
    /\ regs = RegsZero /\ ram = RamZero /\ csr = CsrZero
    /\ btb = [a \in {} |-> 0]
    /\ bht = [a \in Word |-> 0]

Clock ==
    /\ pc' = NextPc
    /\ id' = Fetched
    /\ ex' = Decoded
    /\ mem' = Executed
    /\ wb' = Accessed(mem, ram)
    /\ regs' = Written(wb, regs)
    /\ ram' = Stored(mem, ram)
    /\ csr' = NextCsr
    /\ btb' = NextBtb
    /\ bht' = NextBht
    /\ UNCHANGED prog

Next == Clock

Spec == Init /\ [][Next]_vars /\ WF_vars(Clock)

-----------------------------------------------------------------------------
(* Correctness *)

\* Registers, latches and predictor stay within their ranges.
TypeOK ==
    /\ {pc, id.pc, ex.pc, mem.pc, wb.pc} \subseteq Word
    /\ regs \in [Reg -> Word] /\ ram \in [Word -> Word]
    /\ csr \in [mtvec : Word, mepc : Word]
    /\ {ex.a, ex.b, mem.alu, mem.b, wb.alu, wb.data} \subseteq Word
    /\ DOMAIN btb \subseteq Word /\ \A a \in DOMAIN btb : btb[a] \in Word
    /\ bht \in [Word -> 0 .. 3]

\* What registers and memory will hold when everything past decode is done,
\* and the next instruction that decode will take.
DrainedRam == Stored(Executed, Stored(mem, ram))
DrainedRegs ==
    Written(Accessed(Executed, Stored(mem, ram)),
        Written(Accessed(mem, ram), Written(wb, regs)))
DecodePc == IF id.ir = Bubble THEN pc ELSE id.pc

Architecture ==
    INSTANCE ISA WITH pc <- DecodePc, regs <- DrainedRegs, ram <- DrainedRam

\* Whatever the predictor has learnt and whatever is stalled or squashed, a
\* supported program runs as if its instructions were executed one by one:
\* every clock period is one step of the instruction set or none.
ImplementsISA == Architecture!Spec

\* An instruction in decode never names the target of a load in execute or
\* memory: two periods of stall are enough, so that forwarding from write
\* back is all a load needs, and the stall that Detection has for a branch
\* in decode, which would undo its own condition, is never asked for.
LoadsSettled ==
    \A s \in {ex, mem} : MemRead(s.ir) => ~Names(id.ir, s.ir.rd)

\* The target buffer has only jumps of the program and their targets: decode
\* compares the direction of a prediction, never the address.
TargetsTrue ==
    \A a \in DOMAIN btb :
        /\ Branch(At(prog, a)) \/ At(prog, a).op = "jal"
        /\ btb[a] = Plus(a, At(prog, a).imm)

\* Every search of the target buffer ends at the address it looks for or at a
\* free entry, before the last one.
TableHasRoom == Cardinality(DOMAIN btb) + 1 < BtbSize

\* Stalls and squashes end: instructions keep entering decode.
Progress == []<>(id.ir # Bubble)

(* What decode takes for granted: operands that a load provides are there, *)
(* targets that the predictor provides are right, and it has not run out   *)
(* of entries.                                                             *)
DecodeCanRely == TypeOK /\ LoadsSettled /\ TargetsTrue /\ TableHasRoom
=============================================================================
