------------------------------- MODULE RV64 -------------------------------
(***************************************************************************)
(* Programs and machine words, as instruction set and processor share      *)
(* them.  Words (register values, data addresses and instruction addresses,*)
(* in units of one instruction) are numbers modulo WordMod.                *)
(*                                                                         *)
(* An instruction is a record of the fields the hardware cuts out of its   *)
(* 32 bits.  The fields are there whatever the format: the rs2 of addi is  *)
(* the low end of its immediate.                                           *)
(***************************************************************************)
EXTENDS Naturals

CONSTANTS
    WordMod,    \* number of words
    RegCount,   \* registers, x0 included
    Instrs,     \* the instructions programs are made of
    Boot,       \* the one at address 0, which gives x1 a value
    Length      \* how many follow it

Word == 0 .. WordMod - 1
Reg == 0 .. RegCount - 1
Plus(a, b) == (a + b) % WordMod

Instr(op, rd, rs1, rs2, imm) ==
    [op |-> op, rd |-> rd, rs1 |-> rs1, rs2 |-> rs2, imm |-> imm]

Ops == {"addi", "add", "lui", "ld", "sd", "beq", "bne", "jal", "jalr",
        "csrw_stvec", "csrw_sepc", "ecall", "sret"}
InstrType == [op : Ops, rd : Reg, rs1 : Reg, rs2 : Reg, imm : Word]

\* jal x0, 0: what stands behind the end of the program.
Halt == Instr("jal", 0, 0, 0, 0)
Rom(p, a) ==
    IF a = 0 THEN Boot ELSE IF a \in DOMAIN p THEN p[a] ELSE Halt

Write(rs, rd, v) == IF rd = 0 THEN rs ELSE [rs EXCEPT ![rd] = v]

RamZero == [a \in Word |-> 0]
RegsZero == [r \in Reg |-> 0]
CsrZero == [mtvec |-> 0, mepc |-> 0]
=============================================================================
