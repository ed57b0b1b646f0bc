------------------------------- MODULE MCIss -------------------------------
(***************************************************************************)
(* The simulator against the instruction set, one instruction at a time:   *)
(* one of each shape, anywhere in a program.  The processor has just come  *)
(* to it, with registers that earlier instructions have filled.            *)
(***************************************************************************)
EXTENDS Simulator

VARIABLE cycles    \* turns of the loop made, at most MaxCycles

MaxCycles == 1

\* All words of one opcode and funct3 with up to n of the given bits, or all.
Shapes(bits, n) == {s \in SUBSET bits : Cardinality(s) <= n} \cup {bits}

Opcodes == {RV32E_OP, RV32E_OP_IMM, RV32E_OP_BRANCH, RV32E_OP_LUI,
            RV32E_OP_AUIPC, RV32E_OP_JAL, RV32E_OP_JALR, RV32E_OP_LOAD,
            RV32E_OP_STORE, RV32E_OP_MEM, RV32E_OP_OS}

\* The register fields are one-hot or empty, without the bit of registers
\* 16 to 31; the immediate fields have one bit or all of them.
FullShapes ==
  {rd \cup rs1 \cup rs2 \cup imm :
     rd  \in {{}, {7}, {8, 10}},
     rs1 \in {{}, {15}, {15, 16}, {18}},
     rs2 \in {{}, {20}, {21}, {22, 20}, 20 .. 24},
     imm \in {{}, {25}, {30}, {31}, 25 .. 31}}
  \cup {{i} : i \in 7 .. 31 \ (12 .. 14)}

FullWords ==
  {Lit(o) \cup {i + 12 : i \in Lit(f)} \cup s : o \in Opcodes, f \in 0 .. 7, s \in FullShapes}

ShortWords ==
  {Lit(q) \cup {i + 13 : i \in Lit(f)} \cup s :
     q \in 0 .. 2, f \in 0 .. 7, s \in Shapes(2 .. 12, 3)}

Here == Lit(16)

\* Registers that differ in sign and in size, some equal, some addresses of
\* the memory; and registers that are all alike.
Mixed == <<{}, Lit(20), Lit(6), {31}, 0 .. 31, 0 .. 30, {31, 0}, Lit(4),
           Lit(9), 1 .. 31, {31, 5}, Lit(20), {0, 3, 15, 16, 31}, Lit(31), {2}, {1, 7}>>
Alike == [r \in 1 .. 16 |-> IF r = 1 THEN {} ELSE 2 .. 31]

\* Bytes with and without a sign bit around the word, and ecall after it.
Data == <<{0, 7}, 0 .. 7, {1}, {7}, {2, 3}, {7, 0}, {4}, 0 .. 6>>
Ecall == {0, 1, 4, 5, 6}
ProcAt(w, regs) ==
  LET base == [pc |-> Here, x |-> [r \in RegNum |-> regs[r + 1]],
               mem |-> [a \in Addr |-> Data[(a % 8) + 1]]]
  IN  procWriteMem(procWriteMem(base, Here, w, Length(w)),
                   Add(Here, Lit(Length(w))), Ecall, 4)

MCInit ==
  /\ \E w \in FullWords \cup ShortWords, regs \in {Mixed, Alike} : proc = ProcAt(w, regs)
  /\ simulatorState = RUN
  /\ cycles = 0

MCNext ==
  \/ cycles < MaxCycles /\ Cycle /\ cycles' = cycles + 1
  \/ Destroy /\ UNCHANGED cycles

MCSpec == MCInit /\ [][MCNext]_<<simVars, cycles>>

MCPrograms == {}
-----------------------------------------------------------------------------
Ref == INSTANCE Isa

\* Where the code does something else than the instruction set, and when:
\* every clause is a fact of the source, quoted in the README.
Deviates(p, w) ==
  LET i == Ref!Expand(w)
      full == Ref!Full(w)
      a == Ref!Reg(p, i.rs1)
      b == Ref!Operand2(p, i)
  IN \/ full /\ Opcode(w) = RV32E_OP /\ i.op \in {"ADD", "SUB", "SRL", "SRA"}
     \/ i.op \in {"SLTU", "BLTU", "BGEU"} /\ Sign \in a \cup b
     \/ i.op = "JALR" /\ ((i.rd = i.rs1 /\ i.rd # 0) \/ 0 \in Add(a, i.imm))
     \/ ~full /\ i.op \in {"LW", "SW"} /\ i.imm # Zero
     \/ ~full /\ i.op \in {"BEQ", "BNE"} /\ ~Ref!Taken(p, i)
     \/ decodeInstruction(w) \in {"C_SW", "C_ADDI4SPN"}
     \/ ~full /\ CFunct3(w) = 3 /\ i.op = "ADD"

\* Outside the listed deviations an instruction of the instruction set leaves
\* the registers, the memory and the program counter as the instruction set
\* says: simulatorFetch, simulatorDecode, runInstruction and updatePC agree on
\* the format, the immediate, the operands and the length of the word.
FollowsIsa ==
  [][LET w == simulatorFetch(proc) IN
     simulatorState = RUN /\ Ref!Expand(w).op # "reserved" /\ ~Deviates(proc, w)
       => proc' = Ref!IsaStep(proc, w)]_simVars

=============================================================================
