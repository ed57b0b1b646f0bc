--------------------------- MODULE RunInstruction ---------------------------
(***************************************************************************)
(* runInstruction of decoder.c: the operand structure that the type of a   *)
(* word fills, and the functions that its fields select.  A function is    *)
(* named by the instruction it implements, so that what runs can be        *)
(* compared with what decodeInstruction says.                              *)
(***************************************************************************)
EXTENDS Immediates, InstructionsRV32C, SequencesExt

Rd(w)  == Num(w, 11, 7)
Rs1(w) == Num(w, 19, 15)
Rs2(w) == Num(w, 24, 20)

\* The full register fields of a compressed word, and its short ones: the
\* mask has five bits and the structure keeps three.
CRd(w)   == Num(w, 11, 7)
CRs2(w)  == Num(w, 6, 2)
CRdP(w)  == Num(w, 9, 7)
CRs2P(w) == Num(w, 4, 2)

Filled32 == <<"rData", "iData", "sData", "bData", "uData", "jData">>
Filled16 == <<"crData", "ciData", "cssData", "ciwData", "clData",
              "csData", "caData", "cbData", "cjData">>

\* The structure the switch on the type fills; the others keep what malloc
\* gave them.
Filled(w) ==
  LET table == IF IsRV32E(w) THEN Filled32 ELSE Filled16
      type  == decodeInstructionType(w)
  IN  IF type + 1 \in DOMAIN table THEN table[type + 1] ELSE "none"

\* What it is filled with.
Fields32(w, s) ==
  CASE s = "rData" -> [rs1 |-> Rs1(w), rs2 |-> Rs2(w), rd |-> Rd(w)]
    [] s = "iData" -> [imm |-> getITypeImmediate(w), rs1 |-> Rs1(w), rd |-> Rd(w)]
    [] s = "sData" -> [imm |-> getSTypeImmediate(w), rs1 |-> Rs1(w), rs2 |-> Rs2(w)]
    [] s = "bData" -> [imm |-> getBTypeImmediate(w), rs1 |-> Rs1(w), rs2 |-> Rs2(w)]
    [] s = "uData" -> [imm |-> getUTypeImmediate(w), rd |-> Rd(w)]
    [] s = "jData" -> [imm |-> getJTypeImmediate(w), rd |-> Rd(w)]

Fields16(w, s) ==
  CASE s = "crData"  -> [rdRs1 |-> CRd(w), rs2 |-> CRs2(w)]
    [] s = "ciData"  -> [imm |-> getCiImmediate(w), rdRs1 |-> CRd(w)]
    [] s = "cssData" -> [imm |-> getCssImmediate(w), rs2 |-> CRs2(w)]
    [] s = "ciwData" -> [imm |-> getCiwImmediate(w), rdP |-> CRs2P(w)]
    [] s = "clData"  -> [imm |-> getClImmediate(w), rs1P |-> CRdP(w), rdP |-> CRs2P(w)]
    [] s = "csData"  -> [imm |-> getCsImmediate(w), rs1P |-> CRdP(w), rs2P |-> CRs2P(w)]
    [] s = "caData"  -> [rdPRs1P |-> CRdP(w), rs2P |-> CRs2P(w)]
    [] s = "cbData"  -> [offset |-> getCbImmediate(w), rs1P |-> CRdP(w)]
    [] s = "cjData"  -> [jumptarget |-> getCjImmediate(w)]
----------------------------------------------------------------------------
\* The inner breaks of the register-register operations leave only the
\* switch on funct7: ADD and SUB go on into SLL, SRL and SRA into OR.
OpCalls(w) ==
  CASE Funct3(w) = 0 /\ Funct7(w) = 0 -> <<"RV32E_ADD", "RV32E_SLL">>
    [] Funct3(w) = 0 /\ Funct7(w) = FUNCT7_SUB_SRA -> <<"RV32E_SUB", "RV32E_SLL">>
    [] Funct3(w) = 5 /\ Funct7(w) = 0 -> <<"RV32E_SRL", "RV32E_OR">>
    [] Funct3(w) = 5 /\ Funct7(w) = FUNCT7_SUB_SRA -> <<"RV32E_SRA", "RV32E_OR">>
    [] OTHER -> <<OpNames[Funct3(w) + 1]>>

ImmCalls(w) ==
  IF Funct3(w) = 5 /\ Funct7(w) \notin {0, FUNCT7_SUB_SRA}
  THEN << >>
  ELSE <<ImmName(w)>>

\* The case labels of the switch on the name of a compressed instruction;
\* ebreak is left to the simulator.
CRunnable == {
  "C_ADDI4SPN", "C_LW", "C_SW", "C_ADDI", "C_JAL", "C_LI", "C_ADDI16SP",
  "C_LUI", "C_SRLI", "C_SRAI", "C_ANDI", "C_SUB", "C_XOR", "C_OR", "C_AND",
  "C_J", "C_BEQZ", "C_BNEZ", "C_SLLI", "C_LWSP", "C_JR", "C_MV", "C_JALR",
  "C_ADD", "C_SWSP"}

Calls32(w) ==
  LET name == Name32(w) IN
  CASE Opcode(w) = RV32E_OP     -> OpCalls(w)
    [] Opcode(w) = RV32E_OP_IMM -> ImmCalls(w)
    [] Opcode(w) \in {RV32E_OP_MEM, RV32E_OP_OS} -> << >>
    [] OTHER -> IF name = BadInstruction THEN << >> ELSE <<name>>

\* The instructions whose functions runInstruction calls, in order.
Calls(w) ==
  IF IsRV32E(w)
  THEN Calls32(w)
  ELSE IF decodeInstruction(w) \in CRunnable THEN <<decodeInstruction(w)>> ELSE << >>

\* ecall and ebreak end a switch of their own.
CallsEcall(w)  == IsRV32E(w) /\ Opcode(w) = RV32E_OP_OS /\ 20 \notin w
CallsEbreak(w) ==
  \/ IsRV32E(w) /\ Opcode(w) = RV32E_OP_OS /\ 20 \in w
  \/ decodeInstruction(w) = "C_EBREAK"

\* The structure a function is given.
Given(name) ==
  CASE name \in {"RV32E_ADD", "RV32E_SUB", "RV32E_SLL", "RV32E_SLT", "RV32E_SLTU",
                 "RV32E_XOR", "RV32E_SRL", "RV32E_SRA", "RV32E_OR", "RV32E_AND"} -> "rData"
    [] name \in {"RV32E_ADDI", "RV32E_SLLI", "RV32E_SLTI", "RV32E_SLTIU", "RV32E_XORI",
                 "RV32E_SRLI", "RV32E_SRAI", "RV32E_ORI", "RV32E_ANDI", "RV32E_JALR",
                 "RV32E_LB", "RV32E_LH", "RV32E_LW", "RV32E_LBU", "RV32E_LHU"} -> "iData"
    [] name \in {"RV32E_SB", "RV32E_SH", "RV32E_SW"} -> "sData"
    [] name \in {"RV32E_BEQ", "RV32E_BNE", "RV32E_BLT", "RV32E_BGE",
                 "RV32E_BLTU", "RV32E_BGEU"} -> "bData"
    [] name \in {"RV32E_LUI", "RV32E_AUIPC"} -> "uData"
    [] name = "RV32E_JAL"   -> "jData"
    [] name = "C_ADDI4SPN"  -> "ciwData"
    [] name = "C_LW"        -> "clData"
    [] name = "C_SW"        -> "csData"
    [] name = "C_SWSP"      -> "cssData"
    [] name \in {"C_JAL", "C_J"} -> "cjData"
    [] name \in {"C_SUB", "C_XOR", "C_OR", "C_AND"} -> "caData"
    [] name \in {"C_JR", "C_MV", "C_JALR", "C_ADD"} -> "crData"
    [] name \in {"C_SRLI", "C_SRAI", "C_ANDI", "C_BEQZ", "C_BNEZ"} -> "cbData"
    [] name \in {"C_ADDI", "C_LI", "C_ADDI16SP", "C_LUI", "C_SLLI", "C_LWSP"} -> "ciData"
----------------------------------------------------------------------------
Apply32(p, name, d) ==
  CASE name = "RV32E_ADD"   -> add(p, d)
    [] name = "RV32E_SUB"   -> sub(p, d)
    [] name = "RV32E_SLL"   -> shiftLeft(p, d)
    [] name = "RV32E_SLT"   -> setLessThan(p, d)
    [] name = "RV32E_SLTU"  -> setLessThanUnsigned(p, d)
    [] name = "RV32E_XOR"   -> xor(p, d)
    [] name = "RV32E_SRL"   -> shiftRight(p, d)
    [] name = "RV32E_SRA"   -> shiftRightArithmetic(p, d)
    [] name = "RV32E_OR"    -> or(p, d)
    [] name = "RV32E_AND"   -> and(p, d)
    [] name = "RV32E_ADDI"  -> addImmediate(p, d)
    [] name = "RV32E_SLLI"  -> shiftLeftImmediate(p, d)
    [] name = "RV32E_SLTI"  -> setLessThanImmediate(p, d)
    [] name = "RV32E_SLTIU" -> setLessThanImmediateUnsigned(p, d)
    [] name = "RV32E_XORI"  -> xorImmediate(p, d)
    [] name = "RV32E_SRLI"  -> shiftRightImmediate(p, d)
    [] name = "RV32E_SRAI"  -> shiftRightArithImm(p, d)
    [] name = "RV32E_ORI"   -> orImmediate(p, d)
    [] name = "RV32E_ANDI"  -> andImmediate(p, d)
    [] name = "RV32E_BEQ"   -> branchEqual(p, d)
    [] name = "RV32E_BNE"   -> branchNotEqual(p, d)
    [] name = "RV32E_BLT"   -> branchLessThan(p, d)
    [] name = "RV32E_BGE"   -> branchMoreOrEqual(p, d)
    [] name = "RV32E_BLTU"  -> branchLessThanUnsigned(p, d)
    [] name = "RV32E_BGEU"  -> branchMoreOrEqualUnsigned(p, d)
    [] name = "RV32E_LUI"   -> loadUpperImm(p, d)
    [] name = "RV32E_AUIPC" -> addUpperImmToPC(p, d)
    [] name = "RV32E_JAL"   -> jumpAndLink(p, d)
    [] name = "RV32E_JALR"  -> jumpAndLinkRegister(p, d)
    [] name = "RV32E_LB"    -> loadByte(p, d)
    [] name = "RV32E_LH"    -> loadHalfword(p, d)
    [] name = "RV32E_LW"    -> loadWord(p, d)
    [] name = "RV32E_LBU"   -> loadByteUnsigned(p, d)
    [] name = "RV32E_LHU"   -> loadHalfUnsigned(p, d)
    [] name = "RV32E_SB"    -> storeByte(p, d)
    [] name = "RV32E_SH"    -> storeHalfword(p, d)
    [] name = "RV32E_SW"    -> storeWord(p, d)

Apply16(p, name, d) ==
  CASE name = "C_ADDI4SPN" -> cAddi4StackPointer(p, d)
    [] name = "C_LW"       -> cLoadWord(p, d)
    [] name = "C_SW"       -> cStoreWord(p, d)
    [] name = "C_ADDI"     -> cAddImmediate(p, d)
    [] name = "C_JAL"      -> cJumpAndLink(p, d)
    [] name = "C_LI"       -> cLoadImmediate(p, d)
    [] name = "C_ADDI16SP" -> cAddi16StackPointer(p, d)
    [] name = "C_LUI"      -> cLoadUpperImmediate(p, d)
    [] name = "C_SRLI"     -> cShiftRightLogicalImmediate(p, d)
    [] name = "C_SRAI"     -> cShiftRightArithmeticImmediate(p, d)
    [] name = "C_ANDI"     -> cAndImmediate(p, d)
    [] name = "C_SUB"      -> cSub(p, d)
    [] name = "C_XOR"      -> cXor(p, d)
    [] name = "C_OR"       -> cOr(p, d)
    [] name = "C_AND"      -> cAnd(p, d)
    [] name = "C_J"        -> cJump(p, d)
    [] name = "C_BEQZ"     -> cBranchOnEqualZero(p, d)
    [] name = "C_BNEZ"     -> cBranchNotEqualZero(p, d)
    [] name = "C_SLLI"     -> cShiftLeftLogicalImmediate(p, d)
    [] name = "C_LWSP"     -> cLoadWordStackPointer(p, d)
    [] name = "C_JR"       -> cJumpRegister(p, d)
    [] name = "C_MV"       -> cMove(p, d)
    [] name = "C_JALR"     -> cJumpAndLinkRegister(p, d)
    [] name = "C_ADD"      -> cAdd(p, d)
    [] name = "C_SWSP"     -> cStoreWordStackPointer(p, d)

Apply(p, name, w) ==
  IF IsRV32E(w)
  THEN Apply32(p, name, Fields32(w, Given(name)))
  ELSE Apply16(p, name, Fields16(w, Given(name)))

runInstruction(p, w) ==
  FoldLeft(LAMBDA q, name : Apply(q, name, w), p, Calls(w))

=============================================================================
