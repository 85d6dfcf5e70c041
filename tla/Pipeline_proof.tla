--------------------------- MODULE Pipeline_proof ---------------------------
(***************************************************************************)
(* For every word size, number of registers and set of instructions, and   *)
(* for every supported program: decode can rely on what forwarding, stalls *)
(* and predictor give it, and the pipeline implements the instruction set. *)
(***************************************************************************)
EXTENDS Pipeline, FiniteSetTheorems, TLAPS

(* What a latch may carry. *)
Carried == InstrType \cup {Bubble}

IdType == [pc : Word, ir : Carried, predict : BOOLEAN, found : BOOLEAN]
ExType == [pc : Word, ir : Carried, a : Word, b : Word, jmp : BOOLEAN]
MemType == [pc : Word, ir : Carried, alu : Word, b : Word]
WbType == [pc : Word, ir : Carried, alu : Word, data : Word]

(* Types of the latches, and a program that asks nothing unsupported.      *)
TypesInv ==
  /\ prog \in [1 .. Length -> Instrs] /\ Supported(prog)
  /\ pc \in Word
  /\ id \in IdType /\ ex \in ExType /\ mem \in MemType /\ wb \in WbType
  /\ regs \in [Reg -> Word] /\ ram \in [Word -> Word]
  /\ csr \in [mtvec : Word, mepc : Word]
  /\ DOMAIN btb \subseteq Word
  /\ bht \in [Word -> 0 .. 3]

(* A latch that carries an instruction carries the one at its address.     *)
FromProgram ==
  /\ id.ir # Bubble => id.ir = At(prog, id.pc)
  /\ ex.ir # Bubble => ex.ir = At(prog, ex.pc)
  /\ mem.ir # Bubble => mem.ir = At(prog, mem.pc)

(* Where fetch stands while an instruction is in decode: where the         *)
(* predictor sent it.                                                      *)
FetchFollows ==
  id.ir # Bubble =>
    /\ id.predict => Branch(id.ir) \/ id.ir.op = "jal"
    /\ pc = Plus(id.pc, IF id.predict THEN id.ir.imm ELSE 1)
    /\ id.ir.op = "jal" => id.found = id.predict

(* Decode, execute and memory carry instructions that follow each other in *)
(* the program, with at most a bubble where one was stalled or squashed.   *)
InOrder ==
  /\ ex.ir # Bubble => DecodePc \in Successors(prog, ex.pc)
  /\ mem.ir # Bubble /\ ex.ir # Bubble => ex.pc \in Successors(prog, mem.pc)
  /\ mem.ir # Bubble /\ ex.ir = Bubble /\ id.ir # Bubble =>
       id.pc \in Successors(prog, mem.pc)
  /\ ex.ir.op = "jalr" => id.ir = Bubble
  /\ mem.ir.op = "jalr" => ex.ir = Bubble

(* Only branches have a history, and only branches are taken: a prediction *)
(* for an address that holds none is never acted on.                       *)
HistoryOfBranches ==
  /\ ex.jmp => Branch(ex.ir)
  /\ \A a \in Word : bht[a] # 0 => Branch(At(prog, a))

(* The target buffer has jumps of the program and, once the program has    *)
(* run into the jump to itself behind its end, that one: decode takes      *)
(* nothing else from then on.                                              *)
EntriesInv == DOMAIN btb \subseteq JumpAddresses(prog) \cup ({DecodePc} \ (0 .. Length))

(* The inductive invariant. *)
IInv ==
  /\ TypesInv /\ FromProgram /\ FetchFollows /\ InOrder
  /\ LoadsSettled /\ TargetsTrue /\ HistoryOfBranches /\ EntriesInv
-----------------------------------------------------------------------------
(* Words, instructions, and what the operators on them return. *)
(* Sums of words are words. *)
LEMMA WordFacts ==
  /\ 0 \in Word /\ 0 \in Reg /\ Word \subseteq Nat /\ Reg \subseteq Nat
  /\ \A a, b \in Nat : Plus(a, b) \in Word
<1>1. WordMod \in Nat \ {0} /\ RegCount \in Nat \ {0}
  BY SizesAssumption
<1>2. \A a, b \in Nat : Plus(a, b) \in Word
  BY <1>1 DEF Plus, Word
<1> QED
  BY <1>1, <1>2 DEF Word, Reg

(* A bubble is no instruction: no control signal is set for it.            *)
LEMMA BubbleFacts ==
  /\ Bubble \notin InstrType
  /\ Bubble = [op |-> "nop", rd |-> 0, rs1 |-> 0, rs2 |-> 0, imm |-> 0]
  /\ ~RegWrite(Bubble) /\ ~MemWrite(Bubble) /\ ~MemRead(Bubble)
  /\ ~Branch(Bubble) /\ ~Trap(Bubble) /\ ~Jumps(Bubble)
  /\ \A i \in Carried : i.op # "nop" => i \in InstrType
BY DEF Bubble, Instr, InstrType, Ops, RegWrite, MemWrite, MemRead, Branch, Trap, Jumps, Carried

(* The fields of what a latch carries. *)
LEMMA CarriedFields ==
  ASSUME NEW i \in Carried
  PROVE  /\ i.op \in Ops \cup {"nop"} /\ i.rd \in Reg /\ i.rs1 \in Reg /\ i.rs2 \in Reg
         /\ i.imm \in Word
BY BubbleFacts, WordFacts DEF Carried, InstrType

(* What fetch reads is an instruction. *)
LEMMA RomFacts ==
  ASSUME NEW p \in [1 .. Length -> Instrs], NEW a \in Word
  PROVE  At(p, a) \in InstrType
<1>1. Boot \in InstrType /\ Instrs \subseteq InstrType
  BY InstrsAssumption
<1>2. Halt \in InstrType
  BY WordFacts DEF Halt, Instr, InstrType, Ops
<1>3. a \in DOMAIN p => p[a] \in Instrs
  OBVIOUS
<1> QED
  BY <1>1, <1>2, <1>3 DEF At, Rom

(* What write back stores in the register file is a word. *)
LEMMA WbDataType ==
  ASSUME NEW s \in WbType
  PROVE  WbData(s) \in Word
BY WordFacts, CarriedFields DEF WbType, WbData

(* A register after write back. *)
LEMMA WrittenFacts ==
  ASSUME NEW s \in WbType, NEW rs \in [Reg -> Word]
  PROVE  /\ Written(s, rs) \in [Reg -> Word]
         /\ \A r \in Reg : Written(s, rs)[r] = IF Provides(s, r) THEN WbData(s) ELSE rs[r]
<1>1. WbData(s) \in Word /\ s.ir.rd \in Reg
  BY WbDataType, CarriedFields DEF WbType
<1> QED
  BY <1>1 DEF Written, Write, Provides

(* The memory stage keeps the types: of the data memory it stores into and *)
(* of the latch it fills.                                                  *)
LEMMA StoredType ==
  ASSUME NEW s \in MemType, NEW r \in [Word -> Word]
  PROVE  /\ Stored(s, r) \in [Word -> Word]
         /\ Accessed(s, r) \in WbType
BY DEF Stored, Accessed, MemType, WbType

(* What the stages compute from well-typed latches is well typed.          *)
LEMMA StageTypes ==
  ASSUME TypesInv
  PROVE  /\ FinalA \in Word /\ FinalB \in Word /\ EX_ALUout \in Word
         /\ Executed \in MemType
         /\ Accessed(mem, ram) \in WbType
         /\ Written(wb, regs) \in [Reg -> Word]
         /\ ID_A \in Word /\ ID_B \in Word
         /\ Decoded \in ExType
         /\ NextCsr \in [mtvec : Word, mepc : Word]
         /\ Stored(mem, ram) \in [Word -> Word]
<1>1. /\ id \in IdType /\ ex \in ExType /\ mem \in MemType /\ wb \in WbType
      /\ regs \in [Reg -> Word] /\ ram \in [Word -> Word] /\ pc \in Word
      /\ csr \in [mtvec : Word, mepc : Word]
  BY DEF TypesInv
<1>2. \A i \in {id.ir, ex.ir, mem.ir} :
        i \in Carried /\ i.imm \in Word /\ i.rs1 \in Reg /\ i.rs2 \in Reg
  BY <1>1, CarriedFields DEF IdType, ExType, MemType
<1>3. \A r \in Reg, v \in Word : \A u \in BOOLEAN : Forwarded(r, v, u) \in Word
  BY <1>1, <1>2, WbDataType DEF Forwarded, MemType
<1>4. FinalA \in Word
  BY <1>1, <1>2, <1>3 DEF FinalA, ExType
<1>5. (~AluSrcImm(ex.ir) \/ MemWrite(ex.ir)) \in BOOLEAN
  OBVIOUS
<1>6. FinalB \in Word
  BY <1>1, <1>2, <1>3, <1>5 DEF FinalB, ExType
<1>7. EX_ALUout \in Word
  BY <1>2, <1>4, <1>6, WordFacts DEF EX_ALUout, ALU
<1>8. Executed \in MemType
  BY <1>1, <1>2, <1>6, <1>7 DEF Executed, MemType, ExType
<1>9. Written(wb, regs) \in [Reg -> Word]
  BY <1>1, WrittenFacts
<1>10. \A r \in Reg : Operand(r) \in Word
  BY <1>1, <1>7, <1>9 DEF Operand, MemType
<1>11. ID_A \in Word /\ ID_B \in Word
  BY <1>2, <1>10 DEF ID_A, ID_B
<1>12. jmp_or_not \in BOOLEAN
  BY DEF jmp_or_not
<1>13. Decoded \in ExType
  BY <1>1, <1>11, <1>12 DEF Decoded, ExType, IdType
<1>14. NextCsr \in [mtvec : Word, mepc : Word]
  BY <1>1, <1>11 DEF NextCsr
<1> QED
  BY <1>1, <1>4, <1>6, <1>7, <1>8, <1>9, <1>11, <1>13, <1>14, StoredType
-----------------------------------------------------------------------------
(* Operands. *)

(* A register when all that is past decode is done: the latest of the      *)
(* instructions in execute, memory and write back that provides it.        *)
LEMMA DrainedRegister ==
  ASSUME TypesInv, NEW r \in Reg
  PROVE  DrainedRegs[r] =
           IF Provides(ex, r) THEN WbData(Accessed(Executed, Stored(mem, ram)))
           ELSE IF Provides(mem, r) THEN WbData(Accessed(mem, ram))
           ELSE Written(wb, regs)[r]
<1> DEFINE s == Accessed(Executed, Stored(mem, ram))
           t == Accessed(mem, ram)
           rs == Written(wb, regs)
<1>1. s \in WbType /\ t \in WbType /\ rs \in [Reg -> Word]
  BY StageTypes, StoredType
<1>2. s.ir = ex.ir /\ t.ir = mem.ir
  BY DEF Accessed, Executed
<1>3. /\ Written(t, rs) \in [Reg -> Word]
      /\ Written(t, rs)[r] = IF Provides(t, r) THEN WbData(t) ELSE rs[r]
  BY <1>1, WrittenFacts
<1>4. Written(s, Written(t, rs))[r] =
        IF Provides(s, r) THEN WbData(s) ELSE Written(t, rs)[r]
  BY <1>1, <1>3, WrittenFacts
<1>5. (Provides(s, r) <=> Provides(ex, r)) /\ (Provides(t, r) <=> Provides(mem, r))
  BY <1>2 DEF Provides
<1> QED
  BY <1>3, <1>4, <1>5 DEF DrainedRegs

(* The registers an instruction needs are those its fields name.           *)
LEMMA UsedAreNamed ==
  ASSUME NEW i \in Carried, NEW r \in Uses(i)
  PROVE  r \in Reg /\ r \in {i.rs1, i.rs2} /\ (r # 0 => Names(i, r))
BY CarriedFields DEF Uses, Names

(* What a register that decode needs can wait for: the result of the ALU,  *)
(* never a load or the link of a jump that is not there yet.               *)
LEMMA ProviderInExecute ==
  ASSUME IInv, id.ir # Bubble, NEW r \in Uses(id.ir), Provides(ex, r)
  PROVE  /\ ex.ir.op \in {"addi", "add", "lui"}
         /\ ReadsEarly(id.ir) => ex.ir.op # "lui"
<1>1. id.ir \in Carried /\ ex.ir # Bubble /\ r # 0 /\ r = ex.ir.rd
  BY BubbleFacts DEF Provides, IInv, TypesInv, IdType
<1>2. Names(id.ir, r)
  BY <1>1, UsedAreNamed
<1>3. ex.ir.op # "ld"
  BY <1>1, <1>2 DEF IInv, LoadsSettled, MemRead
<1>4. ex.ir.op # "jalr"
  BY DEF IInv, InOrder
<1>5. /\ ex.ir = At(prog, ex.pc) /\ id.ir = At(prog, id.pc) /\ Supported(prog)
      /\ id.pc \in Successors(prog, ex.pc) /\ ex.pc \in Word
  BY <1>1 DEF IInv, FromProgram, InOrder, DecodePc, TypesInv, ExType
<1>6. ex.ir.op # "jal"
  BY <1>1, <1>5 DEF Supported, LinkForwarded
<1>7. ReadsEarly(id.ir) => ex.ir.op # "lui"
  BY <1>1, <1>5 DEF Supported, DecodeForwarded, UsesEarly
<1> QED
  BY <1>3, <1>4, <1>6, <1>7 DEF Provides, RegWrite

(* When decode forwards from the memory stage, the result there is that of *)
(* an addition: a load would have stalled it, and Supported excludes the   *)
(* rest.                                                                   *)
LEMMA ProviderInMemory ==
  ASSUME IInv, id.ir # Bubble, ReadsEarly(id.ir), NEW r \in Uses(id.ir), Provides(mem, r)
  PROVE  mem.ir.op \in {"addi", "add"}
<1>1. id.ir \in Carried /\ mem.ir # Bubble /\ r # 0 /\ r = mem.ir.rd
  BY BubbleFacts DEF Provides, IInv, TypesInv, IdType
<1>2. Names(id.ir, r)
  BY <1>1, UsedAreNamed
<1>3. mem.ir.op # "ld"
  BY <1>1, <1>2 DEF IInv, LoadsSettled, MemRead
<1>4. /\ mem.ir = At(prog, mem.pc) /\ id.ir = At(prog, id.pc) /\ Supported(prog)
      /\ mem.pc \in Word /\ r \in UsesEarly(At(prog, id.pc)) \ {0}
  BY <1>1 DEF IInv, FromProgram, TypesInv, MemType, UsesEarly
<1>5. CASE ex.ir = Bubble
  <2>1. id.pc \in Successors(prog, mem.pc)
    BY <1>1, <1>5 DEF IInv, InOrder
  <2>2. mem.ir.op \notin {"jal", "jalr", "lui"}
    BY <1>1, <1>4, <2>1 DEF Supported, DecodeForwarded
  <2> QED
    BY <1>3, <2>2 DEF Provides, RegWrite
<1>6. CASE ex.ir # Bubble
  <2>1. /\ ex.pc \in Successors(prog, mem.pc) /\ id.pc \in Successors(prog, ex.pc)
        /\ mem.ir.op # "jalr"
    BY <1>1, <1>6 DEF IInv, InOrder, DecodePc
  <2>2. mem.ir.op \notin {"jal", "lui"}
    BY <1>1, <1>4, <2>1 DEF Supported, DecodeForwarded
  <2> QED
    BY <1>3, <2>1, <2>2 DEF Provides, RegWrite
<1> QED
  BY <1>5, <1>6

(* Branches, jalr and CSR instructions: decode has the operands.           *)
LEMMA EarlyOperand ==
  ASSUME IInv, id.ir # Bubble, ReadsEarly(id.ir), NEW r \in Uses(id.ir)
  PROVE  Operand(r) = DrainedRegs[r]
<1>1. TypesInv /\ r \in Reg
  BY UsedAreNamed DEF IInv, TypesInv, IdType
<1>2. CASE Provides(ex, r)
  <2>1. ex.ir.op \in {"addi", "add"}
    BY <1>2, ProviderInExecute
  <2>2. Operand(r) = EX_ALUout
    BY <1>2, <2>1 DEF Operand, MemRead
  <2>3. WbData(Accessed(Executed, Stored(mem, ram))) = EX_ALUout
    BY <2>1 DEF WbData, Accessed, Executed, MemRead
  <2> QED
    BY <1>1, <1>2, <2>2, <2>3, DrainedRegister
<1>3. CASE ~Provides(ex, r) /\ Provides(mem, r)
  <2>1. mem.ir.op \in {"addi", "add"}
    BY <1>3, ProviderInMemory
  <2>2. Operand(r) = mem.alu
    BY <1>3, <2>1 DEF Operand, MemRead
  <2>3. WbData(Accessed(mem, ram)) = mem.alu
    BY <2>1 DEF WbData, Accessed, MemRead
  <2> QED
    BY <1>1, <1>3, <2>2, <2>3, DrainedRegister
<1>4. CASE ~Provides(ex, r) /\ ~Provides(mem, r)
  <2>1. Operand(r) = Written(wb, regs)[r]
    BY <1>4 DEF Operand
  <2> QED
    BY <1>1, <1>4, <2>1, DrainedRegister
<1> QED
  BY <1>2, <1>3, <1>4

(* What execute will have of a register that decode reads from the file.   *)
LEMMA LateOperand ==
  ASSUME IInv, id.ir # Bubble, ~ReadsEarly(id.ir), NEW r \in Uses(id.ir)
  PROVE  DrainedRegs[r] =
           IF Provides(Executed, r)
           THEN IF Executed.ir.op = "lui" THEN Executed.ir.imm ELSE Executed.alu
           ELSE IF Provides(Accessed(mem, ram), r) THEN WbData(Accessed(mem, ram))
           ELSE Operand(r)
<1>1. TypesInv /\ r \in Reg
  BY UsedAreNamed DEF IInv, TypesInv, IdType
<1>2. (Provides(Executed, r) <=> Provides(ex, r)) /\ Executed.ir = ex.ir
  BY DEF Provides, Executed
<1>3. Provides(Accessed(mem, ram), r) <=> Provides(mem, r)
  BY DEF Provides, Accessed
<1>4. Operand(r) = Written(wb, regs)[r]
  BY DEF Operand
<1>5. ASSUME Provides(ex, r)
      PROVE  WbData(Accessed(Executed, Stored(mem, ram))) =
               IF ex.ir.op = "lui" THEN ex.ir.imm ELSE Executed.alu
  <2>1. ex.ir.op \in {"addi", "add", "lui"}
    BY <1>5, ProviderInExecute
  <2> QED
    BY <2>1 DEF WbData, Accessed, Executed, MemRead
<1> QED
  BY <1>1, <1>2, <1>3, <1>4, <1>5, DrainedRegister

(* All others: execute has them one period later, from decode or forwarded.*)
LEMMA ExecuteHasOperands ==
  ASSUME IInv, Clock, id.ir # Bubble, ~ReadsEarly(id.ir)
  PROVE  /\ id.ir.rs1 \in Uses(id.ir) => FinalA' = DrainedRegs[id.ir.rs1]
         /\ id.ir.rs2 \in Uses(id.ir) /\ id.ir.op \in {"add", "sd"} =>
              FinalB' = DrainedRegs[id.ir.rs2]
<1>1. /\ mem' = Executed /\ wb' = Accessed(mem, ram)
      /\ ex'.ir = id.ir /\ ex'.a = ID_A /\ ex'.b = ID_B
  BY DEF Clock, Decoded
<1>2. FinalA' = IF Provides(mem', ex'.ir.rs1)
                THEN IF mem'.ir.op = "lui" THEN mem'.ir.imm ELSE mem'.alu
                ELSE IF Provides(wb', ex'.ir.rs1) THEN WbData(wb') ELSE ex'.a
  BY DEF FinalA, Forwarded
<1>3. id.ir.op \in {"add", "sd"} =>
        FinalB' = IF Provides(mem', ex'.ir.rs2)
                  THEN IF mem'.ir.op = "lui" THEN mem'.ir.imm ELSE mem'.alu
                  ELSE IF Provides(wb', ex'.ir.rs2) THEN WbData(wb') ELSE ex'.b
  BY <1>1 DEF FinalB, Forwarded, AluSrcImm, MemWrite
<1>4. ASSUME id.ir.rs1 \in Uses(id.ir)
      PROVE  FinalA' = DrainedRegs[id.ir.rs1]
  BY <1>1, <1>2, <1>4, LateOperand DEF ID_A
<1>5. ASSUME id.ir.rs2 \in Uses(id.ir), id.ir.op \in {"add", "sd"}
      PROVE  FinalB' = DrainedRegs[id.ir.rs2]
  BY <1>1, <1>3, <1>5, LateOperand DEF ID_B
<1> QED
  BY <1>4, <1>5

(* What leaves decode: the drained state changes by what the instruction   *)
(* there computes, and by nothing else.                                    *)
LEMMA DrainedStep ==
  ASSUME Clock
  PROVE  /\ DrainedRegs' = Written(Accessed(Executed', DrainedRam), DrainedRegs)
         /\ DrainedRam' = Stored(Executed', DrainedRam)
         /\ Executed' = [pc |-> id.pc, ir |-> id.ir, alu |-> EX_ALUout', b |-> FinalB']
<1>1. /\ mem' = Executed /\ wb' = Accessed(mem, ram) /\ ram' = Stored(mem, ram)
      /\ regs' = Written(wb, regs) /\ ex' = Decoded
  BY DEF Clock
<1>2. DrainedRam' = Stored(Executed', Stored(mem', ram'))
  BY DEF DrainedRam
<1>3. DrainedRegs' = Written(Accessed(Executed', Stored(mem', ram')),
                       Written(Accessed(mem', ram'), Written(wb', regs')))
  BY DEF DrainedRegs
<1>4. Executed' = [pc |-> ex'.pc, ir |-> ex'.ir, alu |-> EX_ALUout', b |-> FinalB']
  BY DEF Executed
<1> QED
  BY <1>1, <1>2, <1>3, <1>4 DEF DrainedRegs, DrainedRam, Decoded
-----------------------------------------------------------------------------
(* Fetch. *)

(* While a jump that the predictor did not follow is in decode, there is   *)
(* no load hazard and fetch stands at one of the addresses that Supported  *)
(* keeps free of branches.                                                 *)
LEMMA JumpFetched ==
  ASSUME IInv, id.ir # Bubble, Jumps(id.ir), ~(id.ir.op = "jal" /\ id.found)
  PROVE  ~LoadUse /\ pc \in Beside(prog, id.pc)
<1>1. /\ id.ir = At(prog, id.pc) /\ Supported(prog) /\ id.pc \in Word
      /\ pc = Plus(id.pc, IF id.predict THEN id.ir.imm ELSE 1)
      /\ id.predict => Branch(id.ir) \/ id.ir.op = "jal"
      /\ id.ir.op = "jal" => id.found = id.predict
  BY DEF IInv, FromProgram, TypesInv, IdType, FetchFollows
<1>2. pc \in Beside(prog, id.pc)
  BY <1>1 DEF Beside
<1>3. ~MemRead(id.ir)
  BY DEF MemRead, Jumps, Branch
<1>4. ASSUME MemRead(ex.ir)
      PROVE  ~Names(IF_IR_temp, ex.ir.rd)
  <2>1. ex.ir # Bubble
    BY <1>4, BubbleFacts
  <2>2. ex.ir = At(prog, ex.pc) /\ ex.pc \in Word /\ id.pc \in Successors(prog, ex.pc)
    BY <2>1 DEF IInv, FromProgram, InOrder, DecodePc, TypesInv, ExType
  <2> QED
    BY <1>1, <1>2, <1>4, <2>2 DEF Supported, StallKeepsJump, IF_IR_temp, At
<1> QED
  BY <1>2, <1>3, <1>4 DEF LoadUse

(* The predictor's tables after the falling edge.  *)
LEMMA PredictorKept ==
  ASSUME IInv
  PROVE  /\ NextBht \in [Word -> 0 .. 3]
         /\ \A a \in Word : NextBht[a] # 0 => Branch(At(prog, a))
         /\ DOMAIN NextBtb \subseteq Word
         /\ \A a \in DOMAIN NextBtb :
              /\ Branch(At(prog, a)) \/ At(prog, a).op = "jal"
              /\ NextBtb[a] = Plus(a, At(prog, a).imm)
<1>1. /\ bht \in [Word -> 0 .. 3] /\ id.pc \in Word /\ ex.pc \in Word
      /\ DOMAIN btb \subseteq Word
  BY DEF IInv, TypesInv, IdType, ExType
<1>2. NextBht \in [Word -> 0 .. 3]
  BY <1>1 DEF NextBht, History
<1>3. Branch(id.ir) => Branch(At(prog, id.pc))
  BY BubbleFacts DEF IInv, FromProgram
<1>4. \A a \in Word : NextBht[a] # 0 => Branch(At(prog, a))
  BY <1>1, <1>3 DEF NextBht, IInv, HistoryOfBranches
<1>5. jmp_or_not => Branch(id.ir)
  BY DEF jmp_or_not
<1>6. ASSUME Enters(id, jmp_or_not)
      PROVE  /\ Branch(At(prog, id.pc)) \/ At(prog, id.pc).op = "jal"
             /\ id.ir = At(prog, id.pc)
  BY <1>5, <1>6, BubbleFacts DEF Enters, IInv, FromProgram
<1>7. ASSUME Enters(ex, ex.jmp)
      PROVE  /\ Branch(At(prog, ex.pc)) \/ At(prog, ex.pc).op = "jal"
             /\ ex.ir = At(prog, ex.pc)
  BY <1>7, BubbleFacts DEF Enters, IInv, FromProgram, HistoryOfBranches
<1>8. DOMAIN NextBtb \subseteq Word
  BY <1>1 DEF NextBtb
<1>9. \A a \in DOMAIN NextBtb :
        /\ Branch(At(prog, a)) \/ At(prog, a).op = "jal"
        /\ NextBtb[a] = Plus(a, At(prog, a).imm)
  BY <1>6, <1>7 DEF NextBtb, IInv, TargetsTrue
<1> QED
  BY <1>2, <1>4, <1>8, <1>9

(* Fetch carries an instruction or a bubble.  *)
LEMMA FetchedFacts ==
  ASSUME IInv, Clock
  PROVE  /\ IF_IR_temp = At(prog, pc) /\ IF_IR_temp \in InstrType /\ IF_IR_temp # Bubble
         /\ id'.pc = pc /\ id'.ir = IF_IR /\ pc' = NextPc
         /\ DecodePc' = IF IF_IR = Bubble THEN NextPc ELSE pc
         /\ IF_IR = Bubble <=> Trap(id.ir) \/ LoadUse \/ Mispredicted
         /\ IF_IR # Bubble => IF_IR = At(prog, pc)
<1>1. IF_IR_temp = At(prog, pc) /\ IF_IR_temp \in InstrType /\ IF_IR_temp # Bubble
  BY RomFacts, BubbleFacts DEF IInv, TypesInv, IF_IR_temp, At
<1>2. id'.pc = pc /\ id'.ir = IF_IR /\ pc' = NextPc
  BY DEF Clock, Fetched
<1>3. DecodePc' = IF id'.ir = Bubble THEN pc' ELSE id'.pc
  BY DEF DecodePc
<1> QED
  BY <1>1, <1>2, <1>3 DEF IF_IR

(* Behind a jump that fetch did not follow, the target wins.               *)
LEMMA Redirected ==
  ASSUME IInv, Clock, id.ir # Bubble, Jumps(id.ir), Mispredicted
  PROVE  /\ DecodePc' = IF id.ir.op = "jalr" THEN ID_A ELSE JumpPc
         /\ IF_IR = Bubble
<1>1. ~LoadUse /\ pc \in Beside(prog, id.pc)
  BY JumpFetched DEF Mispredicted, Branch
<1>2. IF_IR = Bubble /\ DecodePc' = NextPc
  BY FetchedFacts
<1>3. ~Trap(id.ir)
  BY DEF Trap, Jumps, Branch
<1>4. /\ id.ir = At(prog, id.pc) /\ Supported(prog) /\ id.pc \in Word /\ pc \in Word
  BY DEF IInv, FromProgram, TypesInv, IdType
<1>5. ~Branch(At(prog, pc))
  BY <1>1, <1>4 DEF Supported, RedirectWins
<1>6. NextBht[pc] = 0
  BY <1>4, <1>5, PredictorKept
<1>7. ~predict_jmp
  BY <1>2, <1>6, BubbleFacts DEF predict_jmp
<1>8. NextPc = final_PC_out
  BY <1>1, <1>3 DEF NextPc, PC_write
<1> QED
  BY <1>2, <1>7, <1>8 DEF final_PC_out, Jumps

(* Fetch that was right, or only stalled, goes on from where it is.        *)
LEMMA NotRedirected ==
  ASSUME IInv, Clock, ~Trap(id.ir), ~Mispredicted
  PROVE  DecodePc' = pc
BY FetchedFacts DEF NextPc, PC_write

(* Where decode goes after each instruction. *)
LEMMA DecodeGoesOn ==
  ASSUME IInv, Clock
  PROVE  /\ id.ir = Bubble => DecodePc' = pc
         /\ id.ir # Bubble =>
              /\ id.ir.op = "jal" => DecodePc' = Plus(id.pc, id.ir.imm)
              /\ id.ir.op = "jalr" => DecodePc' = ID_A
              /\ Branch(id.ir) =>
                   DecodePc' = Plus(id.pc, IF jmp_or_not THEN id.ir.imm ELSE 1)
              /\ id.ir.op = "ecall" => DecodePc' = csr.mtvec /\ pc = Plus(id.pc, 1)
              /\ id.ir.op = "sret" => DecodePc' = csr.mepc
              /\ ~Jumps(id.ir) /\ ~Trap(id.ir) => DecodePc' = Plus(id.pc, 1)
<1>1. CASE id.ir = Bubble
  <2>1. ~Mispredicted
    BY <1>1, BubbleFacts DEF Mispredicted
  <2> QED
    BY <1>1, <2>1, NotRedirected, BubbleFacts
<1>2. CASE id.ir # Bubble
  <2>1. /\ pc = Plus(id.pc, IF id.predict THEN id.ir.imm ELSE 1)
        /\ id.predict => Branch(id.ir) \/ id.ir.op = "jal"
        /\ id.ir.op = "jal" => id.found = id.predict
        /\ id.predict \in BOOLEAN
    BY <1>2 DEF IInv, FetchFollows, TypesInv, IdType
  <2>2. ASSUME id.ir.op = "jal"
        PROVE  DecodePc' = Plus(id.pc, id.ir.imm)
    <3>1. Jumps(id.ir) /\ ~Trap(id.ir) /\ ~Branch(id.ir)
      BY <2>2 DEF Jumps, Trap, Branch
    <3>2. Mispredicted <=> ~id.predict
      BY <2>1, <2>2, <3>1 DEF Mispredicted
    <3>3. ~id.predict => JumpPc = Plus(id.pc, id.ir.imm)
      BY <2>2 DEF JumpPc
    <3> QED
      BY <1>2, <2>1, <2>2, <3>1, <3>2, <3>3, Redirected, NotRedirected
  <2>3. ASSUME id.ir.op = "jalr"
        PROVE  DecodePc' = ID_A
    BY <1>2, <2>3, Redirected DEF Jumps, Mispredicted
  <2>4. ASSUME Branch(id.ir)
        PROVE  DecodePc' = Plus(id.pc, IF jmp_or_not THEN id.ir.imm ELSE 1)
    <3>1. /\ Jumps(id.ir) /\ ~Trap(id.ir) /\ id.ir.op # "jal" /\ id.ir.op # "jalr"
      BY <2>4 DEF Jumps, Trap, Branch
    <3>2. jmp_or_not \in BOOLEAN
      BY DEF jmp_or_not
    <3>3. Mispredicted <=> jmp_or_not # id.predict
      BY <2>4, <3>1 DEF Mispredicted
    <3>4. JumpPc = IF id.predict
                   THEN IF jmp_or_not THEN Plus(pc, 1) ELSE Plus(id.pc, 1)
                   ELSE IF jmp_or_not THEN Plus(id.pc, id.ir.imm) ELSE Plus(pc, 1)
      BY <3>1 DEF JumpPc
    <3>5. CASE Mispredicted
      <4>1. DecodePc' = JumpPc
        BY <1>2, <3>1, <3>5, Redirected
      <4> QED
        BY <2>1, <3>2, <3>3, <3>4, <3>5, <4>1
    <3>6. CASE ~Mispredicted
      <4>1. DecodePc' = pc
        BY <3>1, <3>6, NotRedirected
      <4> QED
        BY <2>1, <3>2, <3>3, <3>6, <4>1
    <3> QED
      BY <3>5, <3>6
  <2>5. ASSUME Trap(id.ir)
        PROVE  DecodePc' = change_pc /\ pc = Plus(id.pc, 1)
    <3>1. DecodePc' = NextPc
      BY <2>5, FetchedFacts
    <3> QED
      BY <2>1, <2>5, <3>1 DEF NextPc, PC_write, Trap, Branch
  <2>6. ASSUME ~Jumps(id.ir), ~Trap(id.ir)
        PROVE  DecodePc' = Plus(id.pc, 1)
    <3>1. ~Mispredicted /\ ~Branch(id.ir) /\ id.ir.op # "jal"
      BY <2>6 DEF Mispredicted, Jumps
    <3> QED
      BY <2>1, <2>6, <3>1, NotRedirected
  <2> QED
    BY <1>2, <2>2, <2>3, <2>4, <2>5, <2>6 DEF Trap, change_pc
<1> QED
  BY <1>1, <1>2

(* So decode goes to a successor. *)
LEMMA DecodeFollows ==
  ASSUME IInv, Clock
  PROVE  /\ DecodePc' \in Word
         /\ id.ir # Bubble => DecodePc' \in Successors(prog, id.pc)
<1>1. /\ id.pc \in Word /\ id.ir \in Carried /\ pc \in Word
      /\ csr \in [mtvec : Word, mepc : Word] /\ TypesInv
  BY DEF IInv, TypesInv, IdType
<1>2. ID_A \in Word /\ id.ir.imm \in Word /\ csr.mtvec \in Word /\ csr.mepc \in Word
  BY <1>1, StageTypes, CarriedFields
<1>3. id.pc \in Nat /\ id.ir.imm \in Nat /\ 1 \in Nat
  BY <1>1, <1>2, WordFacts
<1>4. Plus(id.pc, id.ir.imm) \in Word /\ Plus(id.pc, 1) \in Word
  BY <1>3, WordFacts
<1>5. id.ir # Bubble => id.ir = At(prog, id.pc)
  BY DEF IInv, FromProgram
<1>6. CASE id.ir = Bubble
  BY <1>1, <1>6, DecodeGoesOn
<1>7. CASE id.ir # Bubble /\ (id.ir.op = "jalr" \/ Trap(id.ir))
  <2>1. DecodePc' \in Word
    BY <1>2, <1>7, DecodeGoesOn DEF Trap
  <2> QED
    BY <1>5, <1>7, <2>1 DEF Successors
<1>8. CASE id.ir # Bubble /\ id.ir.op = "jal"
  <2>1. DecodePc' = Plus(id.pc, id.ir.imm) /\ ~Trap(id.ir)
    BY <1>8, DecodeGoesOn DEF Trap
  <2> QED
    BY <1>4, <1>5, <1>8, <2>1 DEF Successors
<1>9. CASE id.ir # Bubble /\ Branch(id.ir)
  <2>1. /\ DecodePc' = Plus(id.pc, IF jmp_or_not THEN id.ir.imm ELSE 1)
        /\ ~Trap(id.ir) /\ id.ir.op # "jal" /\ id.ir.op # "jalr"
    BY <1>9, DecodeGoesOn DEF Trap, Branch
  <2> QED
    BY <1>4, <1>5, <1>9, <2>1 DEF Successors, Beside
<1>10. CASE id.ir # Bubble /\ ~Jumps(id.ir) /\ ~Trap(id.ir)
  <2>1. DecodePc' = Plus(id.pc, 1) /\ id.ir.op # "jal" /\ id.ir.op # "jalr"
    BY <1>10, DecodeGoesOn DEF Jumps
  <2> QED
    BY <1>4, <1>5, <1>10, <2>1 DEF Successors, Beside
<1> QED
  BY <1>6, <1>7, <1>8, <1>9, <1>10 DEF Jumps
-----------------------------------------------------------------------------
(* The invariant. *)

(* Where fetch goes next when it delivers an instruction.                  *)
LEMMA FetchGoesOn ==
  ASSUME IInv, Clock, IF_IR # Bubble
  PROVE  /\ predict_jmp => Branch(IF_IR) \/ IF_IR.op = "jal"
         /\ pc' = Plus(pc, IF predict_jmp THEN IF_IR.imm ELSE 1)
         /\ pc' \in Word
<1>1. /\ IF_IR = At(prog, pc) /\ ~Trap(id.ir) /\ ~LoadUse /\ ~Mispredicted
      /\ pc' = NextPc /\ IF_IR \in InstrType
  BY FetchedFacts
<1>2. NextPc = final_PC_out
  BY <1>1 DEF NextPc, PC_write
<1>3. predict_jmp => /\ Branch(IF_IR) \/ IF_IR.op = "jal"
                     /\ NextBtb[pc] = Plus(pc, IF_IR.imm)
  BY <1>1, PredictorKept DEF predict_jmp, foundBTB
<1>4. id.ir.op # "jalr"
  BY <1>1 DEF Mispredicted
<1>5. ASSUME id.ir.op = "jal"
      PROVE  JumpPc = Plus(pc, 1)
  <2>1. id.found /\ id.ir # Bubble
    BY <1>1, <1>5, BubbleFacts DEF Mispredicted
  <2>2. id.predict
    BY <1>5, <2>1 DEF IInv, FetchFollows, TypesInv, IdType
  <2> QED
    BY <1>5, <2>2 DEF JumpPc
<1>6. ASSUME Branch(id.ir)
      PROVE  JumpPc = Plus(pc, 1)
  <2>1. jmp_or_not = id.predict /\ id.ir.op # "jal"
    BY <1>1, <1>6 DEF Mispredicted, Branch
  <2> QED
    BY <2>1 DEF JumpPc
<1>7. pc' = Plus(pc, IF predict_jmp THEN IF_IR.imm ELSE 1)
  BY <1>1, <1>2, <1>3, <1>4, <1>5, <1>6 DEF final_PC_out
<1>8. pc \in Nat /\ IF_IR.imm \in Nat
  BY <1>1, WordFacts DEF IInv, TypesInv, InstrType
<1> QED
  BY <1>3, <1>7, <1>8, WordFacts

(* The processor after reset satisfies the invariant. *)
LEMMA InitIInv == Init => IInv
<1> SUFFICES ASSUME Init
             PROVE  IInv
  OBVIOUS
<1>1. Bubble \in Carried
  BY DEF Carried
<1>2. TypesInv
  BY <1>1, WordFacts DEF Init, TypesInv, IdType, ExType, MemType, WbType, RegsZero, RamZero, CsrZero
<1>3. FromProgram /\ FetchFollows
  BY DEF Init, FromProgram, FetchFollows
<1>4. InOrder
  BY BubbleFacts DEF Init, InOrder
<1>5. LoadsSettled /\ TargetsTrue
  BY BubbleFacts DEF Init, LoadsSettled, TargetsTrue
<1>6. HistoryOfBranches /\ EntriesInv
  BY DEF Init, HistoryOfBranches, EntriesInv
<1> QED
  BY <1>2, <1>3, <1>4, <1>5, <1>6 DEF IInv

(* An instruction that is not the program's is the jump to itself.         *)
LEMMA BehindTheEnd ==
  ASSUME NEW p \in [1 .. Length -> Instrs], NEW a \in Word, a \notin 0 .. Length
  PROVE  /\ At(p, a).op = "jal" /\ At(p, a).imm = 0
         /\ Plus(a, At(p, a).imm) = a
<1>1. At(p, a) = Halt
  BY SizesAssumption DEF At, Rom, Word
<1>2. Halt.op = "jal" /\ Halt.imm = 0
  BY DEF Halt, Instr
<1>3. Plus(a, 0) = a
  BY SizesAssumption DEF Plus, Word
<1> QED
  BY <1>1, <1>2, <1>3

(* A jump that is entered in the buffer is one of the program's, or the    *)
(* one that decode stays at.                                               *)
LEMMA EntriesKept ==
  ASSUME IInv, Clock
  PROVE  EntriesInv'
<1>1. /\ prog \in [1 .. Length -> Instrs] /\ id.pc \in Word /\ ex.pc \in Word /\ pc \in Word
      /\ prog' = prog /\ btb' = NextBtb
  BY DEF IInv, TypesInv, IdType, ExType, Clock
<1>2. ASSUME DecodePc \notin 0 .. Length PROVE DecodePc' = DecodePc
  <2>1. CASE id.ir = Bubble
    BY <2>1, DecodeGoesOn DEF DecodePc
  <2>2. CASE id.ir # Bubble
    <3>1. DecodePc = id.pc /\ id.ir = At(prog, id.pc)
      BY <2>2 DEF DecodePc, IInv, FromProgram
    <3>2. id.ir.op = "jal" /\ Plus(id.pc, id.ir.imm) = id.pc
      BY <1>1, <1>2, <3>1, BehindTheEnd
    <3> QED
      BY <2>2, <3>1, <3>2, DecodeGoesOn
  <2> QED
    BY <2>1, <2>2
<1>3. ASSUME NEW a \in Word, a # 0, Branch(At(prog, a)) \/ At(prog, a).op = "jal",
             a \in 0 .. Length
      PROVE  a \in JumpAddresses(prog)
  BY <1>1, <1>3, SizesAssumption DEF JumpAddresses, At, Rom
<1>4. ASSUME Enters(id, jmp_or_not)
      PROVE  id.pc \in JumpAddresses(prog) \cup ({DecodePc} \ (0 .. Length))
  <2>1. id.ir # Bubble /\ id.pc # 0 /\ (Branch(id.ir) \/ id.ir.op = "jal")
    BY <1>4, BubbleFacts DEF Enters, jmp_or_not
  <2> QED
    BY <1>1, <1>3, <2>1 DEF DecodePc, IInv, FromProgram
<1>5. ASSUME Enters(ex, ex.jmp)
      PROVE  ex.pc \in JumpAddresses(prog) \cup ({DecodePc} \ (0 .. Length))
  <2>1. ex.ir # Bubble /\ ex.pc # 0 /\ (Branch(ex.ir) \/ ex.ir.op = "jal")
    BY <1>5, BubbleFacts DEF Enters, IInv, HistoryOfBranches
  <2>2. ex.ir = At(prog, ex.pc) /\ DecodePc \in Successors(prog, ex.pc)
    BY <2>1 DEF IInv, FromProgram, InOrder
  <2>3. CASE ex.pc \in 0 .. Length
    BY <1>1, <1>3, <2>1, <2>2, <2>3
  <2>4. CASE ex.pc \notin 0 .. Length
    <3>1. At(prog, ex.pc).op = "jal" /\ Plus(ex.pc, At(prog, ex.pc).imm) = ex.pc
      BY <1>1, <2>4, BehindTheEnd
    <3>2. Successors(prog, ex.pc) = {ex.pc}
      BY <3>1 DEF Successors, Trap
    <3> QED
      BY <2>2, <2>4, <3>2
  <2> QED
    BY <2>3, <2>4
<1>6. DOMAIN NextBtb \subseteq JumpAddresses(prog) \cup ({DecodePc} \ (0 .. Length))
  BY <1>4, <1>5 DEF NextBtb, IInv, EntriesInv
<1>7. {DecodePc} \ (0 .. Length) \subseteq {DecodePc'} \ (0 .. Length)
  BY <1>2
<1> QED
  BY <1>1, <1>6, <1>7 DEF EntriesInv, JumpAddresses

(* A clock period keeps the invariant. *)
LEMMA ClockKeepsIInv ==
  ASSUME IInv, Clock
  PROVE  IInv'
<1>1. /\ prog' = prog /\ pc' = NextPc /\ ex' = Decoded /\ mem' = Executed
      /\ wb' = Accessed(mem, ram) /\ regs' = Written(wb, regs) /\ ram' = Stored(mem, ram)
      /\ csr' = NextCsr /\ btb' = NextBtb /\ bht' = NextBht
      /\ id' = [pc |-> pc, ir |-> IF_IR, predict |-> predict_jmp, found |-> foundBTB]
  BY DEF Clock, Fetched
<1>2. /\ ex'.pc = id.pc /\ ex'.ir = id.ir /\ ex'.jmp = jmp_or_not
      /\ mem'.pc = ex.pc /\ mem'.ir = ex.ir
      /\ id'.pc = pc /\ id'.ir = IF_IR /\ id'.predict = predict_jmp /\ id'.found = foundBTB
  BY <1>1 DEF Decoded, Executed
<1>3. IF_IR = Bubble => pc' = DecodePc'
  BY <1>1, FetchedFacts
<1>4. TypesInv'
  <2>1. pc' \in Word
    BY <1>3, DecodeFollows, FetchGoesOn
  <2>2. IF_IR \in Carried
    BY FetchedFacts DEF IF_IR, Carried
  <2>3. predict_jmp \in BOOLEAN /\ foundBTB \in BOOLEAN
    BY DEF predict_jmp, foundBTB
  <2>4. id' \in IdType
    BY <1>1, <2>2, <2>3 DEF IInv, TypesInv, IdType
  <2>5. TypesInv
    BY DEF IInv
  <2>6. /\ ex' \in ExType /\ mem' \in MemType /\ wb' \in WbType
        /\ regs' \in [Reg -> Word] /\ ram' \in [Word -> Word]
        /\ csr' \in [mtvec : Word, mepc : Word]
    BY <1>1, <2>5, StageTypes
  <2>7. DOMAIN btb' \subseteq Word /\ bht' \in [Word -> 0 .. 3]
    BY <1>1, PredictorKept
  <2> QED
    BY <1>1, <2>1, <2>4, <2>5, <2>6, <2>7 DEF TypesInv
<1>5. FromProgram'
  BY <1>1, <1>2, FetchedFacts DEF IInv, FromProgram
<1>6. FetchFollows'
  <2> SUFFICES ASSUME IF_IR # Bubble
               PROVE  /\ predict_jmp => Branch(IF_IR) \/ IF_IR.op = "jal"
                      /\ pc' = Plus(pc, IF predict_jmp THEN IF_IR.imm ELSE 1)
                      /\ IF_IR.op = "jal" => foundBTB = predict_jmp
    BY <1>2 DEF FetchFollows
  <2>1. IF_IR.op = "jal" => foundBTB = predict_jmp
    BY DEF predict_jmp, foundBTB
  <2> QED
    BY <2>1, FetchGoesOn
<1>7. InOrder'
  <2>1. ex'.ir # Bubble => DecodePc' \in Successors(prog', ex'.pc)
    BY <1>1, <1>2, DecodeFollows
  <2>2. mem'.ir # Bubble /\ ex'.ir # Bubble => ex'.pc \in Successors(prog', mem'.pc)
    BY <1>1, <1>2 DEF IInv, InOrder, DecodePc
  <2>3. mem'.ir # Bubble /\ ex'.ir = Bubble /\ id'.ir # Bubble =>
          id'.pc \in Successors(prog', mem'.pc)
    BY <1>1, <1>2 DEF IInv, InOrder, DecodePc
  <2>4. ex'.ir.op = "jalr" => id'.ir = Bubble
    BY <1>2, FetchedFacts DEF Mispredicted
  <2>5. mem'.ir.op = "jalr" => ex'.ir = Bubble
    BY <1>2 DEF IInv, InOrder
  <2> QED
    BY <2>1, <2>2, <2>3, <2>4, <2>5 DEF InOrder
<1>8. LoadsSettled'
  <2>1. \A r : ~Names(Bubble, r)
    BY BubbleFacts DEF Names
  <2>2. IF_IR # Bubble => IF_IR = IF_IR_temp /\ ~LoadUse
    BY FetchedFacts
  <2>3. MemRead(id.ir) => ~Names(IF_IR, id.ir.rd)
    BY <2>1, <2>2 DEF LoadUse
  <2>4. MemRead(ex.ir) => ~Names(IF_IR, ex.ir.rd)
    BY <2>1, <2>2 DEF LoadUse
  <2> QED
    BY <1>2, <2>3, <2>4 DEF LoadsSettled
<1>9. TargetsTrue'
  BY <1>1, PredictorKept DEF TargetsTrue
<1>10. HistoryOfBranches'
  BY <1>1, <1>2, PredictorKept DEF HistoryOfBranches, jmp_or_not
<1> QED
  BY <1>4, <1>5, <1>6, <1>7, <1>8, <1>9, <1>10, EntriesKept DEF IInv

(* Every reachable state satisfies the inductive invariant: what is in the *)
(* stages are instructions of the program that follow each other, and the  *)
(* predictor knows only jumps of the program.                              *)
THEOREM PipelineInvariant == Spec => []IInv
<1>1. IInv /\ [Next]_vars => IInv'
  <2> SUFFICES ASSUME IInv, [Next]_vars
               PROVE  IInv'
    OBVIOUS
  <2>1. CASE Clock
    BY <2>1, ClockKeepsIInv
  <2>2. CASE UNCHANGED vars
    BY <2>2 DEF vars, IInv, TypesInv, FromProgram, FetchFollows, InOrder, DecodePc,
                LoadsSettled, TargetsTrue, HistoryOfBranches, EntriesInv, JumpAddresses
  <2> QED
    BY <2>1, <2>2 DEF Next
<1> QED
  BY <1>1, InitIInv, PTL DEF Spec

(* The buffer always has a free entry before its last one.                 *)
LEMMA RoomInTable ==
  ASSUME IInv
  PROVE  TableHasRoom
<1>1. IsFiniteSet(JumpAddresses(prog)) /\ Cardinality(JumpAddresses(prog)) \in Nat
  <2>1. JumpAddresses(prog) \in SUBSET (1 .. Length)
    BY DEF JumpAddresses
  <2>2. IsFiniteSet(1 .. Length)
    BY SizesAssumption, FS_Interval
  <2> QED
    BY <2>1, <2>2, FS_Subset, FS_CardinalityType
<1> DEFINE all == JumpAddresses(prog) \cup {DecodePc}
<1>2. IsFiniteSet(all) /\ Cardinality(all) <= Cardinality(JumpAddresses(prog)) + 1
  BY <1>1, FS_AddElement
<1>3. DOMAIN btb \in SUBSET all
  BY DEF IInv, EntriesInv
<1>4. Cardinality(DOMAIN btb) <= Cardinality(all)
      /\ Cardinality(DOMAIN btb) \in Nat /\ Cardinality(all) \in Nat
  BY <1>2, <1>3, FS_Subset, FS_CardinalityType
<1>5. Cardinality(JumpAddresses(prog)) + 2 < BtbSize
  BY DEF IInv, TypesInv, Supported, JumpsFit
<1> QED
  BY <1>1, <1>2, <1>4, <1>5, SizesAssumption DEF TableHasRoom

(* For every supported program, decode may take for granted that no load   *)
(* it depends on is still on its way and that the targets in the buffer    *)
(* are those of the program, and every search of the buffer ends before    *)
(* its last entry: Detection and BTB need no further checks.               *)
THEOREM DecodeRelies == Spec => []DecodeCanRely
<1>1. IInv => DecodeCanRely
  <2> SUFFICES ASSUME IInv
               PROVE  TypeOK
    BY RoomInTable DEF DecodeCanRely, IInv
  <2>1. \A a \in DOMAIN btb : btb[a] \in Word
    <3> SUFFICES ASSUME NEW a \in DOMAIN btb
                 PROVE  btb[a] \in Word
      OBVIOUS
    <3>1. a \in Word /\ btb[a] = Plus(a, At(prog, a).imm)
      BY DEF IInv, TypesInv, TargetsTrue
    <3>2. At(prog, a).imm \in Word
      BY <3>1, RomFacts DEF IInv, TypesInv, InstrType
    <3> QED
      BY <3>1, <3>2, WordFacts
  <2> QED
    BY <2>1 DEF TypeOK, IInv, TypesInv, IdType, ExType, MemType, WbType
<1> QED
  BY <1>1, PipelineInvariant, PTL
-----------------------------------------------------------------------------
(* The refinement. *)

(* A bubble leaves decode: nothing changes for the program.                *)
LEMMA BubbleStutters ==
  ASSUME IInv, Clock, id.ir = Bubble
  PROVE  /\ DecodePc' = DecodePc /\ DrainedRegs' = DrainedRegs
         /\ DrainedRam' = DrainedRam /\ csr' = csr /\ prog' = prog
<1>1. DecodePc' = DecodePc
  BY DecodeGoesOn DEF DecodePc
<1>2. Executed'.ir = Bubble /\ Accessed(Executed', DrainedRam).ir = Bubble
  BY DrainedStep DEF Accessed
<1>3. DrainedRegs' = DrainedRegs /\ DrainedRam' = DrainedRam
  BY <1>2, DrainedStep, BubbleFacts DEF Written, Stored
<1>4. csr' = csr /\ prog' = prog
  BY BubbleFacts DEF Clock, NextCsr
<1> QED
  BY <1>1, <1>3, <1>4

(* What an instruction that leaves decode does to registers and memory.    *)
LEMMA InstructionEffect ==
  ASSUME IInv, Clock, id.ir # Bubble,
         NEW A, A = DrainedRegs[id.ir.rs1], NEW B, B = DrainedRegs[id.ir.rs2]
  PROVE  /\ DrainedRegs' =
              IF id.ir.op = "addi" THEN Write(DrainedRegs, id.ir.rd, Plus(A, id.ir.imm))
              ELSE IF id.ir.op = "add" THEN Write(DrainedRegs, id.ir.rd, Plus(A, B))
              ELSE IF id.ir.op = "lui" THEN Write(DrainedRegs, id.ir.rd, id.ir.imm)
              ELSE IF id.ir.op = "ld"
              THEN Write(DrainedRegs, id.ir.rd, DrainedRam[Plus(A, id.ir.imm)])
              ELSE IF id.ir.op \in {"jal", "jalr"}
              THEN Write(DrainedRegs, id.ir.rd, Plus(id.pc, 1))
              ELSE DrainedRegs
         /\ DrainedRam' =
              IF id.ir.op = "sd" THEN [DrainedRam EXCEPT ![Plus(A, id.ir.imm)] = B]
              ELSE DrainedRam
<1> DEFINE out == Executed'
           i == id.ir
           acc == Accessed(out, DrainedRam)
<1>1. out = [pc |-> id.pc, ir |-> i, alu |-> EX_ALUout', b |-> FinalB']
  BY DrainedStep
<1>2. acc = [pc |-> id.pc, ir |-> i, alu |-> EX_ALUout', data |-> DrainedRam[EX_ALUout']]
  BY <1>1 DEF Accessed
<1>3. DrainedRegs' = Written(acc, DrainedRegs) /\ DrainedRam' = Stored(out, DrainedRam)
  BY DrainedStep
<1>4. EX_ALUout' = ALU(i, FinalA', IF AluSrcImm(i) THEN i.imm ELSE FinalB')
  BY DEF EX_ALUout, Clock, Decoded
<1>5. i.op \in {"addi", "add", "ld", "sd"} => FinalA' = A /\ i.rs1 \in Uses(i)
  BY ExecuteHasOperands DEF Uses, ReadsEarly, Branch, Csr
<1>6. i.op \in {"add", "sd"} => FinalB' = B
  BY ExecuteHasOperands DEF Uses, ReadsEarly, Branch, Csr
<1>7. i.op \in {"addi", "ld", "sd"} => EX_ALUout' = Plus(A, i.imm)
  BY <1>4, <1>5 DEF ALU, AluSrcImm
<1>8. i.op = "add" => EX_ALUout' = Plus(A, B)
  BY <1>4, <1>5, <1>6 DEF ALU, AluSrcImm
<1>9. DrainedRam' = IF i.op = "sd" THEN [DrainedRam EXCEPT ![Plus(A, i.imm)] = B]
                    ELSE DrainedRam
  BY <1>1, <1>3, <1>6, <1>7 DEF Stored, MemWrite
<1>10. Written(acc, DrainedRegs) =
         IF RegWrite(i) THEN Write(DrainedRegs, i.rd, WbData(acc)) ELSE DrainedRegs
  BY <1>2 DEF Written
<1>11. WbData(acc) = IF i.op = "lui" THEN i.imm
                     ELSE IF i.op \in {"jal", "jalr"} THEN Plus(id.pc, 1)
                     ELSE IF i.op = "ld" THEN DrainedRam[EX_ALUout']
                     ELSE EX_ALUout'
  BY <1>2 DEF WbData, MemRead
<1> HIDE DEF out, acc, i
<1>12. DrainedRegs' =
         IF i.op = "addi" THEN Write(DrainedRegs, i.rd, Plus(A, i.imm))
         ELSE IF i.op = "add" THEN Write(DrainedRegs, i.rd, Plus(A, B))
         ELSE IF i.op = "lui" THEN Write(DrainedRegs, i.rd, i.imm)
         ELSE IF i.op = "ld" THEN Write(DrainedRegs, i.rd, DrainedRam[Plus(A, i.imm)])
         ELSE IF i.op \in {"jal", "jalr"} THEN Write(DrainedRegs, i.rd, Plus(id.pc, 1))
         ELSE DrainedRegs
  BY <1>3, <1>7, <1>8, <1>10, <1>11 DEF RegWrite
<1> QED
  BY <1>9, <1>12 DEF i

(* The instruction set executes what stands in decode.                     *)
LEMMA InstructionStep ==
  ASSUME IInv, Clock, id.ir # Bubble
  PROVE  Architecture!Next
<1> DEFINE i == id.ir
           A == DrainedRegs[i.rs1]
           B == DrainedRegs[i.rs2]
<1>1. DecodePc = id.pc /\ i = Rom(prog, id.pc) /\ prog' = prog
  BY DEF DecodePc, IInv, FromProgram, At, Clock
<1>2. i \in InstrType /\ i.op \in Ops
  BY DEF IInv, TypesInv, IdType, Carried, InstrType
<1>3. i.op \in {"beq", "bne"} => ID_A = A /\ ID_B = B
  BY EarlyOperand DEF ID_A, ID_B, Uses, ReadsEarly, Branch
<1>4. i.op \in {"jalr", "csrw_stvec", "csrw_sepc"} => ID_A = A
  BY EarlyOperand DEF ID_A, Uses, ReadsEarly, Csr
<1>5. /\ \A x, y : Architecture!Plus(x, y) = Plus(x, y)
      /\ \A rs, rd, v : Architecture!Write(rs, rd, v) = Write(rs, rd, v)
      /\ \A p, a : Architecture!Rom(p, a) = Rom(p, a)
  BY DEF Architecture!Plus, Architecture!Write, Architecture!Rom, Architecture!Halt,
         Architecture!Instr, Plus, Write, Rom, Halt, Instr
<1>6. /\ i.op \in {"beq", "bne"} => Branch(i)
      /\ i.op \notin {"jal", "jalr", "beq", "bne"} => ~Jumps(i)
      /\ i.op \notin {"ecall", "sret"} => ~Trap(i)
  BY DEF Branch, Jumps, Trap
<1>7. csr' = IF i.op = "csrw_stvec" THEN [csr EXCEPT !.mtvec = ID_A]
             ELSE IF i.op = "csrw_sepc" THEN [csr EXCEPT !.mepc = ID_A]
             ELSE IF i.op = "ecall" THEN [csr EXCEPT !.mepc = pc]
             ELSE csr
  BY DEF Clock, NextCsr
<1>8. /\ i.op = "jal" => DecodePc' = Plus(id.pc, i.imm)
      /\ i.op = "jalr" => DecodePc' = ID_A
      /\ Branch(i) => DecodePc' = Plus(id.pc, IF jmp_or_not THEN i.imm ELSE 1)
      /\ i.op = "ecall" => DecodePc' = csr.mtvec /\ pc = Plus(id.pc, 1)
      /\ i.op = "sret" => DecodePc' = csr.mepc
      /\ ~Jumps(i) /\ ~Trap(i) => DecodePc' = Plus(id.pc, 1)
  BY DecodeGoesOn
<1>9. i.op \in {"beq", "bne"} => (jmp_or_not <=> (A = B) = (i.op = "beq"))
  BY <1>3 DEF jmp_or_not, Branch
<1>10. /\ DrainedRegs' =
            IF i.op = "addi" THEN Write(DrainedRegs, i.rd, Plus(A, i.imm))
            ELSE IF i.op = "add" THEN Write(DrainedRegs, i.rd, Plus(A, B))
            ELSE IF i.op = "lui" THEN Write(DrainedRegs, i.rd, i.imm)
            ELSE IF i.op = "ld"
            THEN Write(DrainedRegs, i.rd, DrainedRam[Plus(A, i.imm)])
            ELSE IF i.op \in {"jal", "jalr"}
            THEN Write(DrainedRegs, i.rd, Plus(id.pc, 1))
            ELSE DrainedRegs
       /\ DrainedRam' =
            IF i.op = "sd" THEN [DrainedRam EXCEPT ![Plus(A, i.imm)] = B]
            ELSE DrainedRam
  BY InstructionEffect
<1>11. Architecture!Execute(i)
  <2> HIDE DEF i
  <2>1. CASE i.op \in {"addi", "add", "lui", "ld"}
    BY <1>1, <1>5, <1>6, <1>7, <1>8, <1>10, <2>1 DEF Architecture!Execute
  <2>2. CASE i.op = "sd"
    BY <1>1, <1>5, <1>6, <1>7, <1>8, <1>10, <2>2 DEF Architecture!Execute
  <2>3. CASE i.op \in {"beq", "bne"}
    BY <1>1, <1>5, <1>6, <1>7, <1>8, <1>9, <1>10, <2>3 DEF Architecture!Execute
  <2>4. CASE i.op \in {"jal", "jalr"}
    BY <1>1, <1>4, <1>5, <1>6, <1>7, <1>8, <1>10, <2>4 DEF Architecture!Execute
  <2>5. CASE i.op \in {"csrw_stvec", "csrw_sepc"}
    BY <1>1, <1>4, <1>5, <1>6, <1>7, <1>8, <1>10, <2>5 DEF Architecture!Execute
  <2>6. CASE i.op \in {"ecall", "sret"}
    BY <1>1, <1>5, <1>6, <1>7, <1>8, <1>10, <2>6 DEF Architecture!Execute
  <2> QED
    BY <1>2, <2>1, <2>2, <2>3, <2>4, <2>5, <2>6 DEF Ops
<1> QED
  BY <1>1, <1>5, <1>11 DEF Architecture!Next

(* Every clock period of the pipeline is one step of the instruction set   *)
(* or none: stalls, squashes, forwarding and prediction are invisible to a *)
(* supported program.                                                      *)
THEOREM PipelineImplementsISA == Spec => ImplementsISA
<1>1. Init => Architecture!Init
  <2> SUFFICES ASSUME Init
               PROVE  Architecture!Init
    OBVIOUS
  <2>1. DecodePc = 0
    BY DEF Init, DecodePc
  <2>2. /\ ex.ir = Bubble /\ mem.ir = Bubble /\ wb.ir = Bubble
        /\ Executed.ir = Bubble
        /\ Accessed(mem, ram).ir = Bubble
        /\ Accessed(Executed, Stored(mem, ram)).ir = Bubble
    BY DEF Init, Executed, Accessed
  <2>3. DrainedRegs = RegsZero /\ DrainedRam = RamZero
    BY <2>2, BubbleFacts DEF Init, DrainedRegs, DrainedRam, Written, Stored
  <2> QED
    BY <2>1, <2>3 DEF Init, Architecture!Init, Architecture!RegsZero, Architecture!RamZero,
         Architecture!CsrZero, Architecture!Reg, Architecture!Word,
         RegsZero, RamZero, CsrZero, Reg, Word
<1>2. IInv /\ [Next]_vars => [Architecture!Next]_(Architecture!vars)
  <2> SUFFICES ASSUME IInv, [Next]_vars
               PROVE  [Architecture!Next]_(Architecture!vars)
    OBVIOUS
  <2>1. CASE Clock /\ id.ir = Bubble
    BY <2>1, BubbleStutters DEF Architecture!vars
  <2>2. CASE Clock /\ id.ir # Bubble
    BY <2>2, InstructionStep
  <2>3. CASE UNCHANGED vars
    BY <2>3 DEF vars, Architecture!vars, DecodePc, DrainedRegs, DrainedRam, Executed,
                EX_ALUout, FinalA, FinalB, Forwarded
  <2> QED
    BY <2>1, <2>2, <2>3 DEF Next
<1> QED
  BY <1>1, <1>2, PipelineInvariant, PTL DEF Spec, Architecture!Spec, ImplementsISA
=============================================================================
