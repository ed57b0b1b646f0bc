------------------------- MODULE InstructionsRV32C -------------------------
(***************************************************************************)
(* instructionsRV32C.c: each compressed instruction fills the operand      *)
(* structure of a full one and calls its function.                         *)
(***************************************************************************)
EXTENDS InstructionsRV32E

X0 == 0
LR == 1
SP == 2

\* The short register fields stand for registers 8 to 15.
RP_SHIFT(r) == r + 8

\* data->imm * 4, though the decoded offset counts bytes already.
TimesFour(imm) == ShiftLeft(imm, Two)

Operands(imm, rs1, rd)    == [imm |-> imm, rs1 |-> rs1, rd |-> rd]
StoreOperands(imm, rs1, rs2) == [imm |-> imm, rs1 |-> rs1, rs2 |-> rs2]
Registers(rs1, rs2, rd)   == [rs1 |-> rs1, rs2 |-> rs2, rd |-> rd]

cLoadWordStackPointer(p, d)  == loadWord(p, Operands(TimesFour(d.imm), SP, d.rdRs1))
cStoreWordStackPointer(p, d) == storeWord(p, StoreOperands(TimesFour(d.imm), SP, d.rs2))
cLoadWord(p, d) ==
  loadWord(p, Operands(TimesFour(d.imm), RP_SHIFT(d.rs1P), RP_SHIFT(d.rdP)))
cStoreWord(p, d) ==
  storeWord(p, StoreOperands(TimesFour(d.imm), RP_SHIFT(d.rs1P), RP_SHIFT(d.rs2P)))

cJump(p, d) == jumpAndLink(p, [imm |-> d.jumptarget, rd |-> X0])
cJumpAndLink(p, d) == procUpdatePC(procWriteReg(p, LR, Add(p.pc, Two)), d.jumptarget)
cJumpRegister(p, d) == jumpAndLinkRegister(p, Operands(Zero, d.rdRs1, X0))

\* With register x0 this is ebreak, but the decoder never names that word
\* C_JALR.  LR is written before the target is read.
cJumpAndLinkRegister(p, d) ==
  IF d.rdRs1 = X0
  THEN p
  ELSE cJumpRegister(procWriteReg(p, LR, Add(p.pc, Two)), d)

BranchOperands(d) == StoreOperands(d.offset, RP_SHIFT(d.rs1P), X0)
cBranchOnEqualZero(p, d)  == branchEqual(p, BranchOperands(d))
cBranchNotEqualZero(p, d) == branchNotEqual(p, BranchOperands(d))

cLoadImmediate(p, d)      == addImmediate(p, Operands(d.imm, X0, d.rdRs1))
cLoadUpperImmediate(p, d) ==
  loadUpperImm(p, [imm |-> ShiftLeft(d.imm, Lit(12)), rd |-> d.rdRs1])
cAddImmediate(p, d)       == addImmediate(p, Operands(d.imm, d.rdRs1, d.rdRs1))
cAddi16StackPointer(p, d) == addImmediate(p, Operands(d.imm, d.rdRs1, d.rdRs1))

\* The sum goes to the stack pointer as well.
cAddi4StackPointer(p, d) ==
  LET added == addImmediate(p, Operands(d.imm, SP, SP))
  IN  procWriteReg(added, RP_SHIFT(d.rdP), procReadReg(added, SP))

cShiftLeftLogicalImmediate(p, d) ==
  shiftLeftImmediate(p, Operands(d.imm, d.rdRs1, d.rdRs1))

\* rd' := rd' op offset
ShortImmediate(d) == Operands(d.offset, RP_SHIFT(d.rs1P), RP_SHIFT(d.rs1P))
cShiftRightLogicalImmediate(p, d)    == shiftRightImmediate(p, ShortImmediate(d))
cShiftRightArithmeticImmediate(p, d) == shiftRightArithImm(p, ShortImmediate(d))
cAndImmediate(p, d)                  == andImmediate(p, ShortImmediate(d))

cMove(p, d) == add(p, Registers(X0, d.rs2, d.rdRs1))
cAdd(p, d)  == add(p, Registers(d.rdRs1, d.rs2, d.rdRs1))

\* rd' := rd' op rs2'
ShortRegisters(d) ==
  Registers(RP_SHIFT(d.rdPRs1P), RP_SHIFT(d.rs2P), RP_SHIFT(d.rdPRs1P))
cAnd(p, d) == and(p, ShortRegisters(d))
cOr(p, d)  == or(p, ShortRegisters(d))
cXor(p, d) == xor(p, ShortRegisters(d))
cSub(p, d) == sub(p, ShortRegisters(d))

=============================================================================
