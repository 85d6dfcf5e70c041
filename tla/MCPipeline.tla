----------------------------- MODULE MCPipeline -----------------------------
(* Instructions for TLC: registers x1 and x2, short jumps both ways.        *)
EXTENDS Pipeline

MCBoot == Instr("addi", 1, 0, 1, 1)

MCInstrs ==
    {Instr("addi", 1, 1, 1, 1), Instr("add", 2, 1, 2, 0),
     Instr("lui", 2, 0, 0, 2),
     Instr("ld", 1, 2, 0, 0), Instr("sd", 0, 2, 1, 0),
     Instr("beq", 0, 1, 2, 2), Instr("bne", 0, 1, 2, WordMod - 2),
     Instr("jal", 1, 0, 0, 2), Instr("jal", 1, 0, 0, WordMod - 1),
     Instr("jalr", 0, 1, 0, 0),
     Instr("csrw_stvec", 0, 1, 0, 0), Instr("csrw_sepc", 0, 1, 0, 0),
     Instr("ecall", 0, 0, 0, 0),
     Instr("sret", 0, 0, 0, 0)}
=============================================================================
