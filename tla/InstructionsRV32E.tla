------------------------- MODULE InstructionsRV32E -------------------------
(***************************************************************************)
(* instructionsRV32E.c: one operator per function.  It takes the processor *)
(* record and the operand structure and returns the processor of after the *)
(* call; ecall and ebreak act on the simulator and are in Simulator.       *)
(***************************************************************************)
EXTENDS ProcState

\* data->imm + procReadReg(data->rs1)
Effective(p, d) == Add(d.imm, procReadReg(p, d.rs1))

\* A load of n bytes; the signed ones extend the top bit.
Load(p, d, n) == procReadMem(p, Effective(p, d), n)
LoadSigned(p, d, n) ==
  LET v == Load(p, d, n)
  IN  procWriteReg(p, d.rd, v \cup Extend(v, 8 * n - 1, 8 * n))

loadByte(p, d)         == LoadSigned(p, d, 1)
loadHalfword(p, d)     == LoadSigned(p, d, 2)
loadWord(p, d)         == LoadSigned(p, d, 4)
loadByteUnsigned(p, d) == procWriteReg(p, d.rd, Load(p, d, 1))
loadHalfUnsigned(p, d) == procWriteReg(p, d.rd, Load(p, d, 2))

Store(p, d, n) == procWriteMem(p, Effective(p, d), procReadReg(p, d.rs2), n)

storeByte(p, d)     == Store(p, d, 1)
storeHalfword(p, d) == Store(p, d, 2)
storeWord(p, d)     == Store(p, d, 4)
----------------------------------------------------------------------------
\* rd := F(rs1, rs2) and rd := F(rs1, imm)
Binary(p, d, F(_, _)) ==
  procWriteReg(p, d.rd, F(procReadReg(p, d.rs1), procReadReg(p, d.rs2)))
Immediate(p, d, F(_, _)) ==
  procWriteReg(p, d.rd, F(procReadReg(p, d.rs1), d.imm))

shiftLeft(p, d)            == Binary(p, d, ShiftLeft)
shiftLeftImmediate(p, d)   == Immediate(p, d, ShiftLeft)
shiftRight(p, d)           == Binary(p, d, ShiftRight)
shiftRightImmediate(p, d)  == Immediate(p, d, ShiftRight)
shiftRightArithmetic(p, d) == Binary(p, d, ShiftRightArith)
shiftRightArithImm(p, d)   == Immediate(p, d, ShiftRightArith)

add(p, d)          == Binary(p, d, Add)
addImmediate(p, d) == Immediate(p, d, Add)
sub(p, d)          == Binary(p, d, Sub)

loadUpperImm(p, d)    == procWriteReg(p, d.rd, d.imm)
addUpperImmToPC(p, d) == procWriteReg(p, d.rd, Add(d.imm, p.pc))

And(a, b) == a \cap b
Or(a, b)  == a \cup b

xor(p, d)          == Binary(p, d, Xor)
xorImmediate(p, d) == Immediate(p, d, Xor)
or(p, d)           == Binary(p, d, Or)
orImmediate(p, d)  == Immediate(p, d, Or)
and(p, d)          == Binary(p, d, And)
andImmediate(p, d) == Immediate(p, d, And)
----------------------------------------------------------------------------
\* The unsigned comparisons of the code compare absolute values.
LessAbs(a, b) == Less(Abs(a), Abs(b))

SetIf(test) == IF test THEN One ELSE Zero
SetLess(a, b) == SetIf(Less(a, b))
SetLessAbs(a, b) == SetIf(LessAbs(a, b))

setLessThan(p, d)                  == Binary(p, d, SetLess)
setLessThanImmediate(p, d)         == Immediate(p, d, SetLess)
setLessThanUnsigned(p, d)          == Binary(p, d, SetLessAbs)
setLessThanImmediateUnsigned(p, d) == Immediate(p, d, SetLessAbs)

BranchIf(p, d, test) == procUpdatePC(p, IF test THEN d.imm ELSE Four)

branchEqual(p, d)    == BranchIf(p, d, procReadReg(p, d.rs1) = procReadReg(p, d.rs2))
branchNotEqual(p, d) == BranchIf(p, d, procReadReg(p, d.rs1) # procReadReg(p, d.rs2))
branchLessThan(p, d) == BranchIf(p, d, Less(procReadReg(p, d.rs1), procReadReg(p, d.rs2)))
branchMoreOrEqual(p, d) ==
  BranchIf(p, d, ~Less(procReadReg(p, d.rs1), procReadReg(p, d.rs2)))
branchLessThanUnsigned(p, d) ==
  BranchIf(p, d, LessAbs(procReadReg(p, d.rs1), procReadReg(p, d.rs2)))
branchMoreOrEqualUnsigned(p, d) ==
  BranchIf(p, d, ~LessAbs(procReadReg(p, d.rs1), procReadReg(p, d.rs2)))

jumpAndLink(p, d) == procUpdatePC(procWriteReg(p, d.rd, Add(p.pc, Four)), d.imm)

\* rd is written before rs1 is read.
jumpAndLinkRegister(p, d) ==
  LET linked == procWriteReg(p, d.rd, Add(p.pc, Four))
  IN  procSetPC(linked, Add(d.imm, procReadReg(linked, d.rs1)))

=============================================================================
