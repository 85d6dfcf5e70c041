-------------------------------- MODULE ISA --------------------------------
(***************************************************************************)
(* What the RV64 processor promises to a program: instructions executed    *)
(* one at a time, in order.  Two things are this processor's own: ecall    *)
(* saves the address of the next instruction, to which sret returns, and   *)
(* jalr adds no immediate.                                                 *)
(***************************************************************************)
EXTENDS RV64

VARIABLES prog, pc, regs, ram, csr

vars == <<prog, pc, regs, ram, csr>>

Init ==
    /\ prog \in [1 .. Length -> Instrs]
    /\ pc = 0 /\ regs = RegsZero /\ ram = RamZero /\ csr = CsrZero

Execute(i) ==
    LET a == regs[i.rs1]
        b == regs[i.rs2]
        next == Plus(pc, 1)
        target == Plus(pc, i.imm)
        Goto(x) == pc' = x
        Set(v) == regs' = Write(regs, i.rd, v) /\ UNCHANGED <<ram, csr>>
    IN  \/ i.op = "addi" /\ Set(Plus(a, i.imm)) /\ Goto(next)
        \/ i.op = "add" /\ Set(Plus(a, b)) /\ Goto(next)
        \/ i.op = "lui" /\ Set(i.imm) /\ Goto(next)
        \/ i.op = "ld" /\ Set(ram[Plus(a, i.imm)]) /\ Goto(next)
        \/ /\ i.op = "sd"
           /\ ram' = [ram EXCEPT ![Plus(a, i.imm)] = b]
           /\ Goto(next) /\ UNCHANGED <<regs, csr>>
        \/ /\ i.op = "beq" \/ i.op = "bne"
           /\ Goto(IF (a = b) = (i.op = "beq") THEN target ELSE next)
           /\ UNCHANGED <<regs, ram, csr>>
        \/ i.op = "jal" /\ Set(next) /\ Goto(target)
        \/ i.op = "jalr" /\ Set(next) /\ Goto(a)
        \/ /\ i.op = "csrw_stvec" /\ csr' = [csr EXCEPT !.mtvec = a]
           /\ Goto(next) /\ UNCHANGED <<regs, ram>>
        \/ /\ i.op = "csrw_sepc" /\ csr' = [csr EXCEPT !.mepc = a]
           /\ Goto(next) /\ UNCHANGED <<regs, ram>>
        \/ /\ i.op = "ecall" /\ csr' = [csr EXCEPT !.mepc = next]
           /\ Goto(csr.mtvec) /\ UNCHANGED <<regs, ram>>
        \/ i.op = "sret" /\ Goto(csr.mepc) /\ UNCHANGED <<regs, ram, csr>>

Next == Execute(Rom(prog, pc)) /\ UNCHANGED prog

Spec == Init /\ [][Next]_vars
=============================================================================
