-------------------------------- MODULE Isa --------------------------------
(***************************************************************************)
(* What the instruction set asks of one instruction, for comparison with   *)
(* the simulator: RV32E with the compressed instructions that have a       *)
(* 32-bit integer meaning.  A word is first expanded into an operation,    *)
(* two source registers, a destination and an immediate, which a           *)
(* compressed word shares with the full instruction it stands for.  Words  *)
(* the instruction set reserves have no operation.                         *)
(***************************************************************************)
EXTENDS ProcState, Sequences

\* The immediate whose bits from low upwards stand at the given positions;
\* the last one is the sign of a signed immediate.
Gather(w, low, positions) ==
  {low + k - 1 : k \in {j \in DOMAIN positions : positions[j] \in w}}
Signed(w, low, positions) ==
  LET top == Len(positions) IN
  Gather(w, low, positions) \cup
    (IF positions[top] \in w THEN low + top .. Sign ELSE {})

ImmI(w) == Signed(w, 0, <<20, 21, 22, 23, 24, 25, 26, 27, 28, 29, 30, 31>>)
ImmS(w) == Signed(w, 0, <<7, 8, 9, 10, 11, 25, 26, 27, 28, 29, 30, 31>>)
ImmB(w) == Signed(w, 1, <<8, 9, 10, 11, 25, 26, 27, 28, 29, 30, 7, 31>>)
ImmU(w) == w \ (0 .. 11)
ImmJ(w) == Signed(w, 1, <<21, 22, 23, 24, 25, 26, 27, 28, 29, 30,
                          20, 12, 13, 14, 15, 16, 17, 18, 19, 31>>)
Imm6Bits == <<2, 3, 4, 5, 6, 12>>
ImmCB(w) == Signed(w, 1, <<3, 4, 10, 11, 2, 5, 6, 12>>)
ImmCJ(w) == Signed(w, 1, <<3, 4, 5, 11, 2, 7, 6, 9, 10, 8, 12>>)
ImmCL(w) == Gather(w, 2, <<6, 10, 11, 12, 5>>)

Instr(op, rd, rs1, rs2, imm) ==
  [op |-> op, rd |-> rd, rs1 |-> rs1, rs2 |-> rs2, imm |-> imm]
Reserved == Instr("reserved", 0, 0, 0, Zero)
----------------------------------------------------------------------------
AluOf == <<"ADD", "SLL", "SLT", "SLTU", "XOR", "SRL", "OR", "AND">>
BranchOf == <<"BEQ", "BNE", "reserved", "reserved", "BLT", "BGE", "BLTU", "BGEU">>
LoadOf == <<"LB", "LH", "LW", "reserved", "LBU", "LHU", "reserved", "reserved">>
StoreOf == <<"SB", "SH", "SW">>

Expand32(w) ==
  LET rd == Num(w, 11, 7)    rs1 == Num(w, 19, 15)    rs2 == Num(w, 24, 20)
      f3 == Num(w, 14, 12)   f7  == Num(w, 31, 25)
      shamt == Gather(w, 0, <<20, 21, 22, 23, 24>>)
      opcode == w \cap (0 .. 6)
  IN CASE opcode = {0, 1, 4, 5} /\ f7 = 0 -> Instr(AluOf[f3 + 1], rd, rs1, rs2, Zero)
       [] opcode = {0, 1, 4, 5} /\ f7 = 32 /\ f3 = 0 -> Instr("SUB", rd, rs1, rs2, Zero)
       [] opcode = {0, 1, 4, 5} /\ f7 = 32 /\ f3 = 5 -> Instr("SRA", rd, rs1, rs2, Zero)
       [] opcode = {0, 1, 4} /\ f3 \notin {1, 5} -> Instr(AluOf[f3 + 1], rd, rs1, 0, ImmI(w))
       [] opcode = {0, 1, 4} /\ f3 \in {1, 5} /\ f7 = 0 -> Instr(AluOf[f3 + 1], rd, rs1, 0, shamt)
       [] opcode = {0, 1, 4} /\ f3 = 5 /\ f7 = 32 -> Instr("SRA", rd, rs1, 0, shamt)
       [] opcode = {0, 1, 5, 6} -> Instr(BranchOf[f3 + 1], 0, rs1, rs2, ImmB(w))
       [] opcode = {0, 1, 2, 4, 5} -> Instr("LUI", rd, 0, 0, ImmU(w))
       [] opcode = {0, 1, 2, 4} -> Instr("AUIPC", rd, 0, 0, ImmU(w))
       [] opcode = {0, 1, 2, 3, 5, 6} -> Instr("JAL", rd, 0, 0, ImmJ(w))
       [] opcode = {0, 1, 2, 5, 6} /\ f3 = 0 -> Instr("JALR", rd, rs1, 0, ImmI(w))
       [] opcode = {0, 1} -> Instr(LoadOf[f3 + 1], rd, rs1, 0, ImmI(w))
       [] opcode = {0, 1, 5} /\ f3 < 3 -> Instr(StoreOf[f3 + 1], 0, rs1, rs2, ImmS(w))
       [] OTHER -> Reserved

\* The quadrants of the compressed instructions.  Register rdP is the short
\* field at bit 2, rsP the one at bit 7.
Expand16(w) ==
  LET r  == Num(w, 11, 7)   r2  == Num(w, 6, 2)
      rP == Num(w, 9, 7) + 8   r2P == Num(w, 4, 2) + 8
      row == <<Num(w, 1, 0), Num(w, 15, 13)>>
      imm == Signed(w, 0, Imm6Bits)   uimm == Gather(w, 0, Imm6Bits)
      spn == Gather(w, 2, <<6, 5, 11, 12, 7, 8, 9, 10>>)
      sp16 == Signed(w, 4, <<6, 2, 5, 3, 4, 12>>)
      sub == Num(w, 11, 10)
  IN CASE row = <<0, 0>> /\ spn # Zero -> Instr("ADD", r2P, 2, 0, spn)
       [] row = <<0, 2>> -> Instr("LW", r2P, rP, 0, ImmCL(w))
       [] row = <<0, 6>> -> Instr("SW", 0, rP, r2P, ImmCL(w))
       [] row = <<1, 0>> -> Instr("ADD", r, r, 0, imm)
       [] row = <<1, 1>> -> Instr("JAL", 1, 0, 0, ImmCJ(w))
       [] row = <<1, 2>> -> Instr("ADD", r, 0, 0, imm)
       [] row = <<1, 3>> /\ r = 2 /\ sp16 # Zero -> Instr("ADD", 2, 2, 0, sp16)
       [] row = <<1, 3>> /\ r # 2 /\ imm # Zero -> Instr("LUI", r, 0, 0, {i + 12 : i \in imm} \cap Bit)
       [] row = <<1, 4>> /\ sub = 0 /\ 12 \notin w -> Instr("SRL", rP, rP, 0, uimm)
       [] row = <<1, 4>> /\ sub = 1 /\ 12 \notin w -> Instr("SRA", rP, rP, 0, uimm)
       [] row = <<1, 4>> /\ sub = 2 -> Instr("AND", rP, rP, 0, imm)
       [] row = <<1, 4>> /\ sub = 3 /\ 12 \notin w ->
            Instr(<<"SUB", "XOR", "OR", "AND">>[Num(w, 6, 5) + 1], rP, rP, r2P, Zero)
       [] row = <<1, 5>> -> Instr("JAL", 0, 0, 0, ImmCJ(w))
       [] row = <<1, 6>> -> Instr("BEQ", 0, rP, 0, ImmCB(w))
       [] row = <<1, 7>> -> Instr("BNE", 0, rP, 0, ImmCB(w))
       [] row = <<2, 0>> /\ 12 \notin w -> Instr("SLL", r, r, 0, uimm)
       [] row = <<2, 2>> /\ r # 0 -> Instr("LW", r, 2, 0, Gather(w, 2, <<4, 5, 6, 12, 2, 3>>))
       [] row = <<2, 4>> /\ r2 # 0 -> Instr("ADD", r, IF 12 \in w THEN r ELSE 0, r2, Zero)
       [] row = <<2, 4>> /\ r2 = 0 /\ r # 0 -> Instr("JALR", IF 12 \in w THEN 1 ELSE 0, r, 0, Zero)
       [] row = <<2, 6>> -> Instr("SW", 0, 2, r2, Gather(w, 2, <<9, 10, 11, 12, 7, 8>>))
       [] OTHER -> Reserved

Full(w) == {0, 1} \subseteq w
Expand(w) ==
  LET i == IF Full(w) THEN Expand32(w) ELSE Expand16(w)
  IN  IF i.rd < 16 /\ i.rs1 < 16 /\ i.rs2 < 16 THEN i ELSE Reserved
----------------------------------------------------------------------------
Reg(p, r) == p.x[r]

\* The second operand of an ALU operation is a register or the immediate; an
\* instruction has one of the two, and x0 and the immediate zero do not count.
Operand2(p, i) == Reg(p, i.rs2) \cup i.imm

Value(p, i, next) ==
  LET a == Reg(p, i.rs1)   b == Operand2(p, i)
      at == Add(a, i.imm)
      Read(n) == procReadMem(p, at, n)
  IN CASE i.op = "ADD"  -> Add(a, b)
       [] i.op = "SUB"  -> Sub(a, b)
       [] i.op = "SLL"  -> ShiftLeft(a, b)
       [] i.op = "SRL"  -> ShiftRight(a, b)
       [] i.op = "SRA"  -> ShiftRightArith(a, b)
       [] i.op = "SLT"  -> IF Less(a, b) THEN One ELSE Zero
       [] i.op = "SLTU" -> IF LessUnsigned(a, b) THEN One ELSE Zero
       [] i.op = "XOR"  -> Xor(a, b)
       [] i.op = "OR"   -> a \cup b
       [] i.op = "AND"  -> a \cap b
       [] i.op = "LUI"  -> i.imm
       [] i.op = "AUIPC" -> Add(p.pc, i.imm)
       [] i.op \in {"JAL", "JALR"} -> next
       [] i.op = "LB"   -> Read(1) \cup Extend(Read(1), 7, 8)
       [] i.op = "LH"   -> Read(2) \cup Extend(Read(2), 15, 16)
       [] i.op = "LW"   -> Read(4)
       [] i.op = "LBU"  -> Read(1)
       [] i.op = "LHU"  -> Read(2)

Taken(p, i) ==
  LET a == Reg(p, i.rs1)   b == Reg(p, i.rs2)
  IN \/ i.op = "JAL"
     \/ i.op = "BEQ" /\ a = b
     \/ i.op = "BNE" /\ a # b
     \/ i.op = "BLT" /\ Less(a, b)
     \/ i.op = "BGE" /\ ~Less(a, b)
     \/ i.op = "BLTU" /\ LessUnsigned(a, b)
     \/ i.op = "BGEU" /\ ~LessUnsigned(a, b)

Target(p, i) == Add(Reg(p, i.rs1), i.imm) \ {0}

\* The processor after the word w.
IsaStep(p, w) ==
  LET i == Expand(w)
      next == Add(p.pc, IF Full(w) THEN Four ELSE Two)
      size == CASE i.op = "SB" -> 1 [] i.op = "SH" -> 2 [] i.op = "SW" -> 4 [] OTHER -> 0
  IN [pc  |-> Wrap(IF Taken(p, i) THEN Add(p.pc, i.imm)
                   ELSE IF i.op = "JALR" THEN Target(p, i) ELSE next),
      x   |-> [r \in RegNum |-> IF r # 0 /\ r = i.rd THEN Value(p, i, next) ELSE p.x[r]],
      mem |-> procWriteMem(p, Add(Reg(p, i.rs1), i.imm), Reg(p, i.rs2), size).mem]

=============================================================================
