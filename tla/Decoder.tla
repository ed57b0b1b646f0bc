------------------------------ MODULE Decoder ------------------------------
(***************************************************************************)
(* The decoding half of the instruction set simulator's decoder.c: the     *)
(* length, the type and the name of an instruction word.  Names are        *)
(* strings.  Types are the numbers of the two enumerations of RV32E.h and  *)
(* RVC.h, because the rest of the program compares a type of the one with  *)
(* constants of the other.                                                 *)
(***************************************************************************)
EXTENDS Words, Sequences

Opcode(w)   == Num(w, 6, 0)
Funct3(w)   == Num(w, 14, 12)
Funct7(w)   == Num(w, 30, 25)      \* the mask leaves bit 31 out
Quadrant(w) == Num(w, 1, 0)
CFunct3(w)  == Num(w, 15, 13)

RV32E_OP        == \b0110011
RV32E_OP_IMM    == \b0010011
RV32E_OP_BRANCH == \b1100011
RV32E_OP_LUI    == \b0110111
RV32E_OP_AUIPC  == \b0010111
RV32E_OP_JAL    == \b1101111
RV32E_OP_JALR   == \b1100111
RV32E_OP_LOAD   == \b0000011
RV32E_OP_STORE  == \b0100011
RV32E_OP_MEM    == \b0001111
RV32E_OP_OS     == \b1110011

FUNCT7_SUB_SRA == \h20

BAD_TYPE == -1       \* RV32E_BAD_TYPE and RV32C_BAD_TYPE

R_TYPE    == 0
I_TYPE    == 1
S_TYPE    == 2
B_TYPE    == 3
U_TYPE    == 4
J_TYPE    == 5
MISC_TYPE == 6

CR_TYPE  == 0
CI_TYPE  == 1
CSS_TYPE == 2
CIW_TYPE == 3
CL_TYPE  == 4
CS_TYPE  == 5
CA_TYPE  == 6
CB_TYPE  == 7
CJ_TYPE  == 8

BadInstruction  == "RV32E_BAD_INSTRUCTION"
CBadInstruction == "C_BAD_INSTRUCTION"

\* decodeInstruction ends without a return statement.
NoReturn == "no_return_value"
----------------------------------------------------------------------------
IsRV32E(w) == Quadrant(w) = 3

decodeInstructionLength(w) == IF IsRV32E(w) THEN "RV32E" ELSE "RVC"

TypeOfOpcode(w) ==
  CASE Opcode(w) = RV32E_OP        -> R_TYPE
    [] Opcode(w) \in {RV32E_OP_IMM, RV32E_OP_JALR, RV32E_OP_LOAD} -> I_TYPE
    [] Opcode(w) = RV32E_OP_BRANCH -> B_TYPE
    [] Opcode(w) \in {RV32E_OP_LUI, RV32E_OP_AUIPC} -> U_TYPE
    [] Opcode(w) = RV32E_OP_JAL    -> J_TYPE
    [] Opcode(w) = RV32E_OP_STORE  -> S_TYPE
    [] Opcode(w) \in {RV32E_OP_MEM, RV32E_OP_OS} -> MISC_TYPE
    [] OTHER -> BAD_TYPE

\* One row per quadrant, one column per funct3.
CTypes == <<
  <<CIW_TYPE, BAD_TYPE, CL_TYPE, BAD_TYPE, BAD_TYPE, BAD_TYPE, CS_TYPE, BAD_TYPE>>,
  <<CI_TYPE,  CJ_TYPE,  CI_TYPE, CI_TYPE,  CB_TYPE,  CJ_TYPE,  CB_TYPE, CB_TYPE>>,
  <<CI_TYPE,  BAD_TYPE, CI_TYPE, BAD_TYPE, CR_TYPE,  CSS_TYPE, CSS_TYPE, CSS_TYPE>> >>

\* Mutant: register-register operations take the format of the branches.
CTypeOf_NoCA(w) == CTypes[Quadrant(w) + 1][CFunct3(w) + 1]

CTypeOf(w) ==
  IF Quadrant(w) = 1 /\ CFunct3(w) = 4 /\ {10, 11} \subseteq w
  THEN CA_TYPE
  ELSE CTypes[Quadrant(w) + 1][CFunct3(w) + 1]

decodeInstructionType(w) == IF IsRV32E(w) THEN TypeOfOpcode(w) ELSE CTypeOf(w)
----------------------------------------------------------------------------
\* The columns are funct3.
OpNames == <<"RV32E_SLL", "RV32E_SLL", "RV32E_SLT", "RV32E_SLTU",
             "RV32E_XOR", "RV32E_OR", "RV32E_OR", "RV32E_AND">>
ImmNames == <<"RV32E_ADDI", "RV32E_SLLI", "RV32E_SLTI", "RV32E_SLTIU",
              "RV32E_XORI", "RV32E_ORI", "RV32E_ORI", "RV32E_ANDI">>
BranchNames == <<"RV32E_BEQ", "RV32E_BNE", BadInstruction, BadInstruction,
                 "RV32E_BLT", "RV32E_BGE", "RV32E_BLTU", "RV32E_BGEU">>
LoadNames == <<"RV32E_LB", "RV32E_LH", "RV32E_LW", BadInstruction,
               "RV32E_LBU", "RV32E_LHU", BadInstruction, BadInstruction>>
StoreNames == <<"RV32E_SB", "RV32E_SH", "RV32E_SW", BadInstruction,
                BadInstruction, BadInstruction, BadInstruction, BadInstruction>>

\* A funct7 that is neither of the two falls through to the next case label,
\* SLL after ADD_SUB and OR after SRL_SRA: the entries of the table.
OpName(w) ==
  CASE Funct3(w) = 0 /\ Funct7(w) = 0 -> "RV32E_ADD"
    [] Funct3(w) = 0 /\ Funct7(w) = FUNCT7_SUB_SRA -> "RV32E_SUB"
    [] Funct3(w) = 5 /\ Funct7(w) = 0 -> "RV32E_SRL"
    [] Funct3(w) = 5 /\ Funct7(w) = FUNCT7_SUB_SRA -> "RV32E_SRA"
    [] OTHER -> OpNames[Funct3(w) + 1]

ImmName(w) ==
  CASE Funct3(w) = 5 /\ Funct7(w) = 0 -> "RV32E_SRLI"
    [] Funct3(w) = 5 /\ Funct7(w) = FUNCT7_SUB_SRA -> "RV32E_SRAI"
    [] OTHER -> ImmNames[Funct3(w) + 1]

Name32(w) ==
  CASE Opcode(w) = RV32E_OP        -> OpName(w)
    [] Opcode(w) = RV32E_OP_IMM    -> ImmName(w)
    [] Opcode(w) = RV32E_OP_BRANCH -> BranchNames[Funct3(w) + 1]
    [] Opcode(w) = RV32E_OP_LUI    -> "RV32E_LUI"
    [] Opcode(w) = RV32E_OP_AUIPC  -> "RV32E_AUIPC"
    [] Opcode(w) = RV32E_OP_JAL    -> "RV32E_JAL"
    [] Opcode(w) = RV32E_OP_JALR   -> "RV32E_JALR"
    [] Opcode(w) = RV32E_OP_LOAD   -> LoadNames[Funct3(w) + 1]
    [] Opcode(w) = RV32E_OP_STORE  -> StoreNames[Funct3(w) + 1]
    [] Opcode(w) = RV32E_OP_MEM    -> NoReturn
    [] Opcode(w) = RV32E_OP_OS     -> IF 20 \in w THEN "RV32E_EBREAK" ELSE "RV32E_ECALL"
    [] OTHER -> BadInstruction

Quadrant0Names == <<"C_ADDI4SPN", NoReturn, "C_LW", NoReturn,
                    CBadInstruction, "C_FSD", "C_SW", NoReturn>>

\* The tests for C_NOP and C_ADDI16SP shift the mask and not the field, so
\* that they look at the five low bits, which hold the quadrant: they are
\* never 0, and 2 neither.
Quadrant1Name(w) ==
  CASE CFunct3(w) = 0 -> IF Num(w, 4, 0) = 0 THEN "C_NOP" ELSE "C_ADDI"
    [] CFunct3(w) = 1 -> "C_JAL"
    [] CFunct3(w) = 2 -> "C_LI"
    [] CFunct3(w) = 3 -> IF Num(w, 4, 0) = 2 THEN "C_ADDI16SP" ELSE "C_LUI"
    [] CFunct3(w) = 4 ->
         IF {10, 11} \subseteq w
         THEN <<"C_SUB", "C_XOR", "C_OR", "C_AND">>[Num(w, 6, 5) + 1]
         ELSE <<"C_SRLI", "C_SRAI", "C_ANDI">>[Num(w, 11, 10) + 1]
    [] CFunct3(w) = 5 -> "C_J"
    [] CFunct3(w) = 6 -> "C_BEQZ"
    [] CFunct3(w) = 7 -> "C_BNEZ"

Quadrant2Name(w) ==
  CASE CFunct3(w) = 0 -> "C_SLLI"
    [] CFunct3(w) = 2 -> "C_LWSP"
    [] CFunct3(w) = 4 /\ 12 \notin w ->
         IF Num(w, 6, 2) = 0 THEN "C_JR" ELSE "C_MV"
    [] CFunct3(w) = 4 /\ 12 \in w ->
         IF Num(w, 11, 7) = 0 THEN "C_EBREAK"
         ELSE IF Num(w, 6, 2) = 0 THEN "C_JALR" ELSE "C_ADD"
    [] CFunct3(w) = 6 -> "C_SWSP"
    [] OTHER -> NoReturn

decodeInstruction(w) ==
  CASE Quadrant(w) = 3 -> Name32(w)
    [] Quadrant(w) = 0 -> Quadrant0Names[CFunct3(w) + 1]
    [] Quadrant(w) = 1 -> Quadrant1Name(w)
    [] Quadrant(w) = 2 -> Quadrant2Name(w)

=============================================================================
