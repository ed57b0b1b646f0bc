----------------------------- MODULE IssProofs -----------------------------
(***************************************************************************)
(* The instruction set simulator and its debugger for every program, every *)
(* memory size and every sequence of commands.                             *)
(***************************************************************************)
EXTENDS Debugger, SequenceTheorems, FiniteSetTheorems, TLAPS

\* The library states this of an operator for the order; here it is a set.
LEMMA LessIsWellFounded == IsWellFoundedOn({p \in Nat \X Nat : p[1] < p[2]}, Nat)
  BY NatLessThanWellFounded, Zenon DEF OpToRel

\* A set of numbers has a least one.
LEMMA LeastExists ==
  ASSUME NEW S \in SUBSET Nat, S # {}
  PROVE  \E x \in S : \A y \in S : x <= y
  <1>1. PICK x \in S : \A y \in S : ~(<<y, x>> \in {p \in Nat \X Nat : p[1] < p[2]})
    BY LessIsWellFounded, WFMin
  <1>2. \A y \in S : x <= y
    <2> SUFFICES ASSUME NEW y \in S PROVE x <= y
      OBVIOUS
    <2>1. x \in Nat /\ y \in Nat
      OBVIOUS
    <2>2. ~(y < x)
      BY <1>1, <2>1
    <2> QED
      BY <2>1, <2>2
  <1> QED
    BY <1>2

\* Min and Max of FiniteSetsExt.
LEMMA MinIsLeast ==
  ASSUME NEW S \in SUBSET Nat, S # {}
  PROVE  Min(S) \in S /\ \A y \in S : Min(S) <= y
  <1>1. \E x \in S : \A y \in S : x <= y
    BY LeastExists
  <1> QED
    BY <1>1 DEF Min

LEMMA MaxIsGreatest ==
  ASSUME NEW n \in Nat, NEW S \in SUBSET (1 .. n), S # {}
  PROVE  Max(S) \in S /\ \A y \in S : y <= Max(S)
  <1> DEFINE Above == {u \in Nat : \A y \in S : y <= u}
  <1>1. n \in Above
    OBVIOUS
  <1>2. PICK m \in Above : \A u \in Above : m <= u
    BY <1>1, LeastExists
  <1>3. m \in S
    <2> SUFFICES ASSUME m \notin S PROVE FALSE
      OBVIOUS
    <2>1. \A y \in S : y <= m - 1 /\ y >= 1
      BY <1>2
    <2>2. m - 1 \in Nat
      <3>1. PICK y \in S : TRUE
        OBVIOUS
      <3>2. y \in Nat /\ y <= m - 1 /\ y >= 1 /\ m \in Nat
        BY <1>2, <2>1, <3>1
      <3> QED
        BY <3>2
    <2>3. m - 1 \in Above
      BY <2>1, <2>2
    <2> QED
      BY <1>2, <2>2, <2>3
  <1>4. \E x \in S : \A y \in S : x >= y
    BY <1>2, <1>3
  <1> QED
    BY <1>4 DEF Max

-----------------------------------------------------------------------------
\* f goes from base on, its i-th value by the i-th step from the one before.
Iterates(f, T, base, m, step) ==
  /\ f \in [0 .. m -> T]
  /\ f[0] = base
  /\ \A i \in 1 .. m : f[i] = step[i][f[i - 1]]

\* A recursion over 0 .. m that stays in a set has a solution.
LEMMA IterationExists ==
  ASSUME NEW T, NEW base \in T, NEW m \in Nat, NEW step \in [1 .. m -> [T -> T]]
  PROVE  \E f : Iterates(f, T, base, m, step)
  <1> DEFINE Unsolved == {k \in 0 .. m : \A f : ~Iterates(f, T, base, k, step)}
  <1> SUFFICES ASSUME Unsolved # {} PROVE FALSE
    <2>1. m \in 0 .. m
      OBVIOUS
    <2> QED
      BY <2>1
  <1>1. Unsolved \in SUBSET Nat
    OBVIOUS
  <1>2. PICK k \in Unsolved : \A u \in Unsolved : k <= u
    BY <1>1, LeastExists
  <1>3. k # 0
    <2>1. Iterates([n \in 0 .. 0 |-> base], T, base, 0, step)
      BY DEF Iterates
    <2> QED
      BY <1>2, <2>1
  <1>4. k \in Nat /\ k - 1 \in 0 .. m /\ k \in 1 .. m
    BY <1>2, <1>3
  <1>5. k - 1 \notin Unsolved
    <2> HIDE DEF Unsolved
    <2> QED
      BY <1>2, <1>4
  <1>6. PICK f : Iterates(f, T, base, k - 1, step)
    BY <1>4, <1>5
  <1> DEFINE last == step[k][f[k - 1]]
             g == [n \in 0 .. k |-> IF n = k THEN last ELSE f[n]]
  <1>7. f \in [0 .. k - 1 -> T] /\ f[k - 1] \in T
    BY <1>4, <1>6 DEF Iterates
  <1>8. last \in T
    BY <1>4, <1>7
  <1>9. g \in [0 .. k -> T] /\ g[0] = base
    <2> HIDE DEF last
    <2> QED
      BY <1>4, <1>6, <1>7, <1>8 DEF Iterates
  <1>10. ASSUME NEW i \in 1 .. k PROVE g[i] = step[i][g[i - 1]]
    <2>1. CASE i = k
      <3>1. g[i - 1] = f[k - 1] /\ g[i] = last
        BY <1>4, <2>1
      <3> QED
        BY <2>1, <3>1
    <2>2. CASE i # k
      <3>1. i \in 1 .. k - 1 /\ g[i - 1] = f[i - 1] /\ g[i] = f[i]
        BY <1>4, <2>2
      <3> QED
        BY <1>6, <3>1 DEF Iterates
    <2> QED
      BY <2>1, <2>2
  <1>11. Iterates(g, T, base, k, step)
    <2> HIDE DEF g
    <2> QED
      BY <1>9, <1>10 DEF Iterates
  <1> QED
    BY <1>2, <1>11

\* f is the number of the m highest bits of a field from hi down, for every m.
Unrolls(w, hi, m, f) ==
  /\ f \in [0 .. m -> Nat]
  /\ f[0] = 0
  /\ \A n \in 1 .. m : f[n] = 2 * f[n - 1] + IF hi + 1 - n \in w THEN 1 ELSE 0

\* The recursion of Num has a solution.
LEMMA NumUnrolled ==
  ASSUME NEW w, NEW hi \in Int, NEW lo \in Int, NEW m \in Nat, m = hi + 1 - lo
  PROVE  \E f : Unrolls(w, hi, m, f) /\ Num(w, hi, lo) = f[m]
  <1> DEFINE bit(n) == IF hi + 1 - n \in w THEN 1 ELSE 0
             step == [i \in 1 .. m |-> [x \in Nat |-> 2 * x + bit(i)]]
             rec(g) == [n \in 0 .. m |-> IF n = 0 THEN 0 ELSE 2 * g[n - 1] + bit(n)]
             u == CHOOSE g : g = rec(g)
  <1>1. \A n : bit(n) \in Nat
    OBVIOUS
  <1>2. Num(w, hi, lo) = u[m]
    BY Zenon DEF Num
  <1> HIDE DEF bit
  <1>3. step \in [1 .. m -> [Nat -> Nat]]
    BY <1>1
  <1>4. PICK f : Iterates(f, Nat, 0, m, step)
    <2> HIDE DEF step
    <2> QED
      BY <1>3, IterationExists
  <1>5. f = rec(f)
    <2>1. \A i \in 1 .. m : f[i - 1] \in Nat /\ f[i] = step[i][f[i - 1]]
      <3> HIDE DEF step
      <3> QED
        BY <1>4 DEF Iterates
    <2>2. \A i \in 1 .. m : f[i] = 2 * f[i - 1] + bit(i)
      BY <2>1
    <2>3. f \in [0 .. m -> Nat] /\ f[0] = 0
      <3> HIDE DEF step
      <3> QED
        BY <1>4 DEF Iterates
    <2>4. \A n \in 0 .. m : f[n] = IF n = 0 THEN 0 ELSE 2 * f[n - 1] + bit(n)
      BY <2>2, <2>3
    <2> QED
      BY <2>3, <2>4
  <1>6. u = rec(u)
    BY <1>5
  <1> HIDE DEF u
  <1>7. u[0] = 0 /\ \A n \in 1 .. m : u[n] = 2 * u[n - 1] + bit(n)
    BY <1>6
  <1>8. \A n \in 0 .. m : u[n] \in Nat
    <2> DEFINE Odd == {n \in 0 .. m : u[n] \notin Nat}
    <2> SUFFICES ASSUME Odd # {} PROVE FALSE
      OBVIOUS
    <2>0. Odd \in SUBSET Nat
      OBVIOUS
    <2>1. PICK n \in Odd : \A k \in Odd : n <= k
      BY <2>0, LeastExists
    <2>2. n - 1 \in 0 .. m /\ n - 1 \notin Odd
      BY <1>7, <2>1
    <2> QED
      BY <1>1, <1>7, <2>1, <2>2
  <1>9. u \in [0 .. m -> Nat]
    BY <1>6, <1>8
  <1>10. Unrolls(w, hi, m, u)
    BY <1>7, <1>9 DEF bit, Unrolls
  <1> QED
    BY <1>2, <1>10

LEMMA NumIsNat ==
  ASSUME NEW w, NEW hi \in Int, NEW lo \in Int, hi + 1 - lo \in Nat
  PROVE  Num(w, hi, lo) \in Nat
  <1> DEFINE m == hi + 1 - lo
  <1>1. m \in Nat /\ m = hi + 1 - lo
    OBVIOUS
  <1> HIDE DEF m
  <1>2. PICK f : Unrolls(w, hi, m, f) /\ Num(w, hi, lo) = f[m]
    BY <1>1, NumUnrolled
  <1> QED
    BY <1>1, <1>2 DEF Unrolls

\* What fields of two, three and five bits may hold.
LEMMA NumOfTwoBits ==
  ASSUME NEW w, NEW hi \in Int, NEW lo \in Int, hi + 1 - lo = 2
  PROVE  /\ Num(w, hi, lo) \in 0 .. 3
         /\ Num(w, hi, lo) = 3 => hi \in w /\ lo \in w
  <1>1. 2 \in Nat /\ 2 = hi + 1 - lo
    OBVIOUS
  <1>2. PICK f : Unrolls(w, hi, 2, f) /\ Num(w, hi, lo) = f[2]
    BY <1>1, NumUnrolled
  <1>3. f[1] = IF hi \in w THEN 1 ELSE 0
    BY <1>2 DEF Unrolls
  <1>4. f[2] = 2 * f[1] + IF lo \in w THEN 1 ELSE 0
    BY <1>1, <1>2 DEF Unrolls
  <1> QED
    BY <1>2, <1>3, <1>4

LEMMA NumOfThreeBits ==
  ASSUME NEW w, NEW hi \in Int, NEW lo \in Int, hi + 1 - lo = 3
  PROVE  Num(w, hi, lo) \in 0 .. 7
  <1>1. 3 \in Nat /\ 3 = hi + 1 - lo
    OBVIOUS
  <1>2. PICK f : Unrolls(w, hi, 3, f) /\ Num(w, hi, lo) = f[3]
    BY <1>1, NumUnrolled
  <1>3. f[1] \in 0 .. 1
    BY <1>2 DEF Unrolls
  <1>4. f[2] \in 0 .. 3
    BY <1>2, <1>3 DEF Unrolls
  <1>5. f[3] \in 0 .. 7
    BY <1>2, <1>4 DEF Unrolls
  <1> QED
    BY <1>2, <1>5

LEMMA NumOfFiveBits ==
  ASSUME NEW w, NEW hi \in Int, NEW lo \in Int, hi + 1 - lo = 5
  PROVE  Num(w, hi, lo) \in 0 .. 31
  <1>1. 5 \in Nat /\ 5 = hi + 1 - lo
    OBVIOUS
  <1>2. PICK f : Unrolls(w, hi, 5, f) /\ Num(w, hi, lo) = f[5]
    BY <1>1, NumUnrolled
  <1>3. f[1] \in 0 .. 1
    BY <1>2 DEF Unrolls
  <1>4. f[2] \in 0 .. 3
    BY <1>2, <1>3 DEF Unrolls
  <1>5. f[3] \in 0 .. 7
    BY <1>2, <1>4 DEF Unrolls
  <1>6. f[4] \in 0 .. 15
    BY <1>2, <1>5 DEF Unrolls
  <1>7. f[5] = 2 * f[4] \/ f[5] = 2 * f[4] + 1
    BY <1>2 DEF Unrolls
  <1> QED
    BY <1>2, <1>6, <1>7

-----------------------------------------------------------------------------
\* The fields that select an instruction.
LEMMA FieldRanges ==
  ASSUME NEW w
  PROVE  /\ Quadrant(w) \in 0 .. 3 /\ Funct3(w) \in 0 .. 7 /\ CFunct3(w) \in 0 .. 7
         /\ Num(w, 6, 5) \in 0 .. 3 /\ Num(w, 11, 10) \in 0 .. 3
         /\ Num(w, 11, 10) = 3 => {10, 11} \subseteq w
  <1>1. /\ 1 + 1 - 0 = 2 /\ 6 + 1 - 5 = 2 /\ 11 + 1 - 10 = 2
        /\ 14 + 1 - 12 = 3 /\ 15 + 1 - 13 = 3
    OBVIOUS
  <1> QED
    BY <1>1, NumOfTwoBits, NumOfThreeBits DEF Quadrant, Funct3, CFunct3

Ops      == {"RV32E_ADD", "RV32E_SUB", "RV32E_SLL", "RV32E_SLT", "RV32E_SLTU",
             "RV32E_XOR", "RV32E_SRL", "RV32E_SRA", "RV32E_OR", "RV32E_AND"}
OpImms   == {"RV32E_ADDI", "RV32E_SLLI", "RV32E_SLTI", "RV32E_SLTIU", "RV32E_XORI",
             "RV32E_SRLI", "RV32E_SRAI", "RV32E_ORI", "RV32E_ANDI"}
Loads    == {"RV32E_LB", "RV32E_LH", "RV32E_LW", "RV32E_LBU", "RV32E_LHU"}
Stores   == {"RV32E_SB", "RV32E_SH", "RV32E_SW"}
Branches == {"RV32E_BEQ", "RV32E_BNE", "RV32E_BLT", "RV32E_BGE", "RV32E_BLTU", "RV32E_BGEU"}

\* The functions that a full word may call, by its opcode.
Callable(w) ==
  CASE Opcode(w) = RV32E_OP        -> Ops
    [] Opcode(w) = RV32E_OP_IMM    -> OpImms
    [] Opcode(w) = RV32E_OP_LOAD   -> Loads
    [] Opcode(w) = RV32E_OP_STORE  -> Stores
    [] Opcode(w) = RV32E_OP_BRANCH -> Branches
    [] Opcode(w) = RV32E_OP_LUI    -> {"RV32E_LUI"}
    [] Opcode(w) = RV32E_OP_AUIPC  -> {"RV32E_AUIPC"}
    [] Opcode(w) = RV32E_OP_JAL    -> {"RV32E_JAL"}
    [] Opcode(w) = RV32E_OP_JALR   -> {"RV32E_JALR"}
    [] OTHER -> {}

LEMMA TablesAreComplete ==
  ASSUME NEW k \in 0 .. 7
  PROVE  /\ OpNames[k + 1] \in Ops
         /\ ImmNames[k + 1] \in OpImms
         /\ BranchNames[k + 1] \in Branches \cup {BadInstruction}
         /\ LoadNames[k + 1] \in Loads \cup {BadInstruction}
         /\ StoreNames[k + 1] \in Stores \cup {BadInstruction}
  <1>1. k \in {0, 1, 2, 3, 4, 5, 6, 7}
    OBVIOUS
  <1> QED
    BY <1>1 DEF OpNames, ImmNames, BranchNames, LoadNames, StoreNames, Ops, OpImms,
                Branches, Loads, Stores, BadInstruction

\* At most two functions are called.
ShortSeq(S) == {<<>>} \cup {<<a>> : a \in S} \cup {<<a, b>> : a \in S, b \in S}

LEMMA FullCalls ==
  ASSUME NEW w
  PROVE  Calls32(w) \in ShortSeq(Callable(w))
  <1>1. Funct3(w) \in 0 .. 7
    BY FieldRanges
  <1> DEFINE f3 == Funct3(w)
             op == Opcode(w)
  <1> USE DEF RV32E_OP, RV32E_OP_IMM, RV32E_OP_LOAD, RV32E_OP_STORE, RV32E_OP_BRANCH,
              RV32E_OP_LUI, RV32E_OP_AUIPC, RV32E_OP_JAL, RV32E_OP_JALR,
              RV32E_OP_MEM, RV32E_OP_OS
  <1>2. CASE op = RV32E_OP
    <2>1. Callable(w) = Ops /\ Calls32(w) = OpCalls(w)
      BY <1>2 DEF Callable, Calls32
    <2>2. OpNames[f3 + 1] \in Ops
      BY <1>1, TablesAreComplete
    <2>3. OpCalls(w) \in {<<"RV32E_ADD", "RV32E_SLL">>, <<"RV32E_SUB", "RV32E_SLL">>,
                          <<"RV32E_SRL", "RV32E_OR">>, <<"RV32E_SRA", "RV32E_OR">>,
                          <<OpNames[f3 + 1]>>}
      BY DEF OpCalls
    <2> QED
      BY <2>1, <2>2, <2>3 DEF ShortSeq, Ops
  <1>3. CASE op = RV32E_OP_IMM
    <2>1. Callable(w) = OpImms /\ Calls32(w) = ImmCalls(w)
      BY <1>3 DEF Callable, Calls32
    <2>2. ImmName(w) \in OpImms
      BY <1>1, TablesAreComplete DEF ImmName, OpImms
    <2> QED
      BY <2>1, <2>2 DEF ImmCalls, ShortSeq
  <1> DEFINE named == IF Name32(w) = BadInstruction THEN <<>> ELSE <<Name32(w)>>
  <1>4. CASE op \notin {RV32E_OP, RV32E_OP_IMM}
    <2>1. Calls32(w) = IF op \in {RV32E_OP_MEM, RV32E_OP_OS} THEN <<>> ELSE named
      BY <1>4 DEF Calls32
    <2>2. CASE op \in {RV32E_OP_LOAD, RV32E_OP_STORE, RV32E_OP_BRANCH}
      <3>1. Name32(w) \in Callable(w) \cup {BadInstruction}
        BY <1>1, <2>2, TablesAreComplete DEF Callable, Name32
      <3> QED
        BY <2>1, <2>2, <3>1 DEF ShortSeq
    <2>3. CASE op \in {RV32E_OP_LUI, RV32E_OP_AUIPC, RV32E_OP_JAL, RV32E_OP_JALR}
      <3>1. Name32(w) \in Callable(w)
        BY <2>3 DEF Callable, Name32
      <3> QED
        BY <2>1, <2>3, <3>1 DEF ShortSeq
    <2>4. CASE op \in {RV32E_OP_MEM, RV32E_OP_OS}
      BY <2>1, <2>4 DEF ShortSeq
    <2>5. CASE op \notin {RV32E_OP_LOAD, RV32E_OP_STORE, RV32E_OP_BRANCH, RV32E_OP_LUI,
                         RV32E_OP_AUIPC, RV32E_OP_JAL, RV32E_OP_JALR, RV32E_OP_MEM, RV32E_OP_OS}
      <3>1. Name32(w) = BadInstruction
        BY <1>4, <2>5 DEF Name32
      <3> QED
        BY <2>1, <2>5, <3>1 DEF ShortSeq
    <2> QED
      BY <2>2, <2>3, <2>4, <2>5
  <1> QED
    BY <1>2, <1>3, <1>4

\* The structure is the one the type has filled.
LEMMA FullGiven ==
  ASSUME NEW w, IsRV32E(w), NEW name \in Callable(w)
  PROVE  Given(name) = Filled(w)
  <1> DEFINE op == Opcode(w)
             type == decodeInstructionType(w)
  <1> USE DEF RV32E_OP, RV32E_OP_IMM, RV32E_OP_LOAD, RV32E_OP_STORE, RV32E_OP_BRANCH,
              RV32E_OP_LUI, RV32E_OP_AUIPC, RV32E_OP_JAL, RV32E_OP_JALR,
              RV32E_OP_MEM, RV32E_OP_OS
  <1>1. Filled(w) = IF type + 1 \in DOMAIN Filled32 THEN Filled32[type + 1] ELSE "none"
    BY DEF Filled
  <1>2. type = TypeOfOpcode(w)
    BY DEF decodeInstructionType
  <1> HIDE DEF type
  <1>3. CASE op = RV32E_OP
    <2>1. type = 0 /\ name \in Ops
      BY <1>2, <1>3 DEF TypeOfOpcode, R_TYPE, Callable
    <2>2. Given(name) = "rData"
      BY <2>1 DEF Given, Ops
    <2> QED
      BY <1>1, <2>1, <2>2 DEF Filled32
  <1>4. CASE op \in {RV32E_OP_IMM, RV32E_OP_LOAD, RV32E_OP_JALR}
    <2>1. type = 1 /\ name \in OpImms \cup Loads \cup {"RV32E_JALR"}
      BY <1>2, <1>4 DEF TypeOfOpcode, I_TYPE, Callable
    <2>2. Given(name) = "iData"
      BY <2>1 DEF Given, OpImms, Loads
    <2> QED
      BY <1>1, <2>1, <2>2 DEF Filled32
  <1>5. CASE op = RV32E_OP_STORE
    <2>1. type = 2 /\ name \in Stores
      BY <1>2, <1>5 DEF TypeOfOpcode, S_TYPE, Callable
    <2>2. Given(name) = "sData"
      BY <2>1 DEF Given, Stores
    <2> QED
      BY <1>1, <2>1, <2>2 DEF Filled32
  <1>6. CASE op = RV32E_OP_BRANCH
    <2>1. type = 3 /\ name \in Branches
      BY <1>2, <1>6 DEF TypeOfOpcode, B_TYPE, Callable
    <2>2. Given(name) = "bData"
      BY <2>1 DEF Given, Branches
    <2> QED
      BY <1>1, <2>1, <2>2 DEF Filled32
  <1>7. CASE op \in {RV32E_OP_LUI, RV32E_OP_AUIPC}
    <2>1. type = 4 /\ name \in {"RV32E_LUI", "RV32E_AUIPC"}
      BY <1>2, <1>7 DEF TypeOfOpcode, U_TYPE, Callable
    <2>2. Given(name) = "uData"
      BY <2>1 DEF Given
    <2> QED
      BY <1>1, <2>1, <2>2 DEF Filled32
  <1>8. CASE op = RV32E_OP_JAL
    <2>1. type = 5 /\ name = "RV32E_JAL"
      BY <1>2, <1>8 DEF TypeOfOpcode, J_TYPE, Callable
    <2>2. Given(name) = "jData"
      BY <2>1 DEF Given
    <2> QED
      BY <1>1, <2>1, <2>2 DEF Filled32
  <1> QED
    BY <1>3, <1>4, <1>5, <1>6, <1>7, <1>8 DEF Callable

\* A compressed word calls one function or none.
LEMMA CompressedGiven ==
  ASSUME NEW w, ~IsRV32E(w), decodeInstruction(w) \in CRunnable
  PROVE  Given(decodeInstruction(w)) = Filled(w)
  <1> DEFINE q == Quadrant(w)
             f3 == CFunct3(w)
             type == decodeInstructionType(w)
             name == decodeInstruction(w)
  <1>1. q \in {0, 1, 2} /\ f3 \in {0, 1, 2, 3, 4, 5, 6, 7}
    BY FieldRanges DEF IsRV32E
  <1>2. Filled(w) = IF type + 1 \in DOMAIN Filled16 THEN Filled16[type + 1] ELSE "none"
    BY DEF Filled
  <1>3. type = IF q = 1 /\ f3 = 4 /\ {10, 11} \subseteq w THEN 6 ELSE CTypes[q + 1][f3 + 1]
    BY DEF decodeInstructionType, CTypeOf, CA_TYPE
  <1> HIDE DEF type
  <1>4. CASE q = 0
    <2>1. name = Quadrant0Names[f3 + 1]
      BY <1>4 DEF decodeInstruction
    <2>2. \/ name = "C_ADDI4SPN" /\ f3 = 0
          \/ name = "C_LW" /\ f3 = 2
          \/ name = "C_SW" /\ f3 = 6
      <3>1. CASE f3 \in {1, 3, 4, 5, 7}
        <4>1. name \in {NoReturn, CBadInstruction, "C_FSD"}
          BY <2>1, <3>1 DEF Quadrant0Names
        <4>2. name \in CRunnable
          OBVIOUS
        <4> HIDE DEF name
        <4> QED
          BY <4>1, <4>2 DEF CRunnable, NoReturn, CBadInstruction
      <3>2. CASE f3 \in {0, 2, 6}
        BY <2>1, <3>2 DEF Quadrant0Names
      <3> QED
        BY <1>1, <3>1, <3>2
    <2>3. \/ name = "C_ADDI4SPN" /\ type = 3
          \/ name = "C_LW" /\ type = 4
          \/ name = "C_SW" /\ type = 5
      BY <1>3, <1>4, <2>2 DEF CTypes, CIW_TYPE, CL_TYPE, CS_TYPE
    <2> HIDE DEF name
    <2>4. Given(name) = Filled(w)
      BY <1>2, <2>3 DEF Given, Filled16
    <2> QED
      BY <2>4 DEF name
  <1>5. CASE q = 1
    <2>1. name = Quadrant1Name(w)
      BY <1>5 DEF decodeInstruction
    <2>2. /\ Num(w, 6, 5) \in {0, 1, 2, 3}
          /\ Num(w, 11, 10) \in {0, 1, 2, 3}
          /\ Num(w, 11, 10) = 3 => {10, 11} \subseteq w
      BY FieldRanges
    <2>3. CASE f3 = 4 /\ {10, 11} \subseteq w
      <3>1. type = 6
        BY <1>3, <1>5, <2>3
      <3>2. name \in {"C_SUB", "C_XOR", "C_OR", "C_AND"}
        BY <2>1, <2>2, <2>3 DEF Quadrant1Name
      <3> HIDE DEF name
      <3>3. Given(name) = Filled(w)
        BY <1>2, <3>1, <3>2 DEF Given, Filled16
      <3> QED
        BY <3>3 DEF name
    <2>4. CASE f3 = 4 /\ ~({10, 11} \subseteq w)
      <3>1. type = 7
        BY <1>3, <1>5, <2>4 DEF CTypes, CB_TYPE
      <3>2. name \in {"C_SRLI", "C_SRAI", "C_ANDI"}
        BY <2>1, <2>2, <2>4 DEF Quadrant1Name
      <3> HIDE DEF name
      <3>3. Given(name) = Filled(w)
        BY <1>2, <3>1, <3>2 DEF Given, Filled16
      <3> QED
        BY <3>3 DEF name
    <2>5. CASE f3 # 4
      <3>1. type = CTypes[2][f3 + 1]
        BY <1>3, <1>5, <2>5
      <3>2. \/ f3 \in {0, 2, 3} /\ type = 1
            \/ f3 \in {1, 5} /\ type = 8
            \/ f3 \in {6, 7} /\ type = 7
        BY <1>1, <2>5, <3>1 DEF CTypes, CI_TYPE, CJ_TYPE, CB_TYPE
      <3>3. \/ f3 \in {0, 2, 3} /\ name \in {"C_NOP", "C_ADDI", "C_LI", "C_ADDI16SP", "C_LUI"}
            \/ f3 \in {1, 5} /\ name \in {"C_JAL", "C_J"}
            \/ f3 \in {6, 7} /\ name \in {"C_BEQZ", "C_BNEZ"}
        BY <1>1, <2>1, <2>5 DEF Quadrant1Name
      <3>4. name # "C_NOP"
        BY DEF CRunnable
      <3> HIDE DEF name
      <3>5. \/ type = 1 /\ name \in {"C_ADDI", "C_LI", "C_ADDI16SP", "C_LUI"}
            \/ type = 8 /\ name \in {"C_JAL", "C_J"}
            \/ type = 7 /\ name \in {"C_BEQZ", "C_BNEZ"}
        BY <3>2, <3>3, <3>4
      <3>6. Given(name) = Filled(w)
        BY <1>2, <3>5 DEF Given, Filled16
      <3> QED
        BY <3>6 DEF name
    <2> QED
      BY <2>3, <2>4, <2>5
  <1>6. CASE q = 2
    <2>1. name = Quadrant2Name(w) /\ type = CTypes[3][f3 + 1]
      BY <1>3, <1>6 DEF decodeInstruction
    <2>2. name \notin {NoReturn, "C_EBREAK"}
      <3>1. name \in CRunnable
        OBVIOUS
      <3> HIDE DEF name
      <3> QED
        BY <3>1 DEF CRunnable, NoReturn
    <2>3. \/ f3 \in {0, 2} /\ name \in {"C_SLLI", "C_LWSP"}
          \/ f3 = 4 /\ name \in {"C_JR", "C_MV", "C_JALR", "C_ADD"}
          \/ f3 = 6 /\ name = "C_SWSP"
      BY <1>1, <2>1, <2>2 DEF Quadrant2Name
    <2> HIDE DEF name
    <2>4. \/ type = 1 /\ name \in {"C_SLLI", "C_LWSP"}
          \/ type = 0 /\ name \in {"C_JR", "C_MV", "C_JALR", "C_ADD"}
          \/ type = 2 /\ name = "C_SWSP"
      BY <2>1, <2>3 DEF CTypes, CI_TYPE, CR_TYPE, CSS_TYPE
    <2>5. Given(name) = Filled(w)
      BY <1>2, <2>4 DEF Given, Filled16
    <2> QED
      BY <2>5 DEF name
  <1> QED
    BY <1>1, <1>4, <1>5, <1>6

\* Every function runInstruction calls reads the operand structure that the
\* type of the same word has filled, whatever word is fetched.
THEOREM StructuresAreFilled == SimSpec => []OperandsAreFilled
  <1>1. OperandsAreFilled
    <2> SUFFICES ASSUME NEW w, w = simulatorFetch(proc), NEW k \in DOMAIN Calls(w)
                 PROVE  Given(Calls(w)[k]) = Filled(w)
      BY DEF OperandsAreFilled
    <2>1. CASE IsRV32E(w)
      <3>1. Calls(w) \in ShortSeq(Callable(w))
        BY <2>1, FullCalls DEF Calls
      <3>2. Calls(w)[k] \in Callable(w)
        BY <3>1 DEF ShortSeq
      <3> QED
        BY <2>1, <3>2, FullGiven
    <2>2. CASE ~IsRV32E(w)
      <3>1. decodeInstruction(w) \in CRunnable /\ Calls(w) = <<decodeInstruction(w)>>
        BY <2>2 DEF Calls
      <3> QED
        BY <2>2, <3>1, CompressedGiven
    <2> QED
      BY <2>1, <2>2
  <1> QED
    BY <1>1, PTL
-----------------------------------------------------------------------------
\* A processor with its memory, whose x0 is zero.
Sound(p) == p \in Proc /\ p.x[0] = Zero /\ p.mem \in [Addr -> Byte]

LEMMA WordsAreClosed ==
  ASSUME NEW a \in Word, NEW b \in Word
  PROVE  /\ Add(a, b) \in Word /\ Sub(a, b) \in Word
         /\ Xor(a, b) \in Word /\ And(a, b) \in Word /\ Or(a, b) \in Word
         /\ ShiftLeft(a, b) \in Word
         /\ ShiftRight(a, b) \in Word
         /\ ShiftRightArith(a, b) \in Word
         /\ SetLess(a, b) \in Word /\ SetLessAbs(a, b) \in Word
  <1>1. Add(a, b) \in Word /\ Sub(a, b) \in Word
    <2>1. \A c, in : Adder(a, c, in) \in SUBSET Bit
      BY DEF Adder
    <2> QED
      BY <2>1 DEF Add, Sub, Word
  <1>2. Xor(a, b) \in Word /\ And(a, b) \in Word /\ Or(a, b) \in Word
    BY DEF Xor, And, Or, Word
  <1>3. ShiftLeft(a, b) \in Word /\ ShiftRight(a, b) \in Word
    BY DEF ShiftLeft, ShiftRight, Word
  <1>4. ShiftRightArith(a, b) \in Word
    <2>1. 4 + 1 - 0 = 5
      OBVIOUS
    <2>2. ShiftCount(b) \in 0 .. 31
      BY <2>1, NumOfFiveBits DEF ShiftCount
    <2>3. Extend(a, Sign, XLEN - ShiftCount(b)) \in Word
      BY <2>2 DEF Extend, Word, Bit, Sign, XLEN
    <2> QED
      BY <1>3, <2>3 DEF ShiftRightArith, Word
  <1>5. SetLess(a, b) \in Word /\ SetLessAbs(a, b) \in Word
    <2>1. One \in Word /\ Zero \in Word
      BY DEF One, Zero, Word, Bit, XLEN
    <2>2. \A test : SetIf(test) \in {One, Zero}
      BY DEF SetIf
    <2> QED
      BY <2>1, <2>2 DEF SetLess, SetLessAbs
  <1> QED
    BY <1>1, <1>2, <1>3, <1>4, <1>5

\* A part of a word, moved, is in the word as long as it stays below bit 32.
LEMMA PutIsWord ==
  ASSUME NEW w, NEW hi \in Int, NEW lo \in Int, NEW to \in Nat, hi - lo + to < XLEN
  PROVE  Put(w, hi, lo, to) \in Word
  BY DEF Put, Word, Bit, XLEN

LEMMA ExtendIsWord ==
  ASSUME NEW w, NEW b, NEW high \in Nat
  PROVE  Extend(w, b, high) \in Word
  BY DEF Extend, Word, Bit, Sign, XLEN, Zero

LEMMA SmallWords ==
  /\ Zero \in Word /\ Two \in Word /\ Four \in Word
  /\ \A n : Lit(n) \in Word
  BY DEF Zero, Two, Four, Lit, Word, Bit, XLEN

\* What procState.c offers keeps the processor sound.
LEMMA SoundRegisters ==
  ASSUME NEW p, Sound(p)
  PROVE  /\ \A reg \in Nat : procReadReg(p, reg) \in Word
         /\ \A reg : \A val \in Word : Sound(procWriteReg(p, reg, val))
         /\ p.pc \in Word
  <1>1. \A reg \in Nat : procReadReg(p, reg) \in Word
    BY SmallWords DEF Sound, Proc, procReadReg, RegNum, PROC_REGSIZE
  <1>2. ASSUME NEW reg, NEW val \in Word
        PROVE  Sound(procWriteReg(p, reg, val))
    BY <1>2 DEF Sound, Proc, procWriteReg, RegNum, PROC_REGSIZE
  <1>3. p.pc \in Word
    BY AddrAssumption DEF Sound, Proc, Word, Bit, XLEN
  <1> QED
    BY <1>1, <1>2, <1>3

LEMMA SoundJumps ==
  ASSUME NEW p, Sound(p)
  PROVE  /\ \A a : Sound(procSetPC(p, a))
         /\ \A a : Sound(procUpdatePC(p, a))
  <1>1. \A a : Wrap(a) \in SUBSET (0 .. ADDR_LEN - 1)
    BY DEF Wrap
  <1>2. \A a : Sound(procSetPC(p, a))
    BY <1>1 DEF Sound, Proc, procSetPC
  <1> QED
    BY <1>2 DEF procUpdatePC

LEMMA AddressIsNat == \A a : AddrOf(a) \in Nat
  <1>1. ADDR_LEN - 1 + 1 - 0 \in Nat /\ ADDR_LEN - 1 \in Int
    BY AddrAssumption DEF XLEN
  <1> QED
    BY <1>1, NumIsNat DEF AddrOf

\* The address of a byte is in the memory, and four bytes in a row differ.
LEMMA AddressWraps ==
  ASSUME NEW a \in Nat
  PROVE  /\ a % PROC_MEMSIZE \in Addr
         /\ \A i, j \in 0 .. 3 :
              (a + i) % PROC_MEMSIZE = (a + j) % PROC_MEMSIZE => i = j
  <1> DEFINE M == PROC_MEMSIZE
  <1>1. M \in Nat /\ M >= 4
    BY MemSizeAssumption
  <1> HIDE DEF M
  <1>2. a % M \in 0 .. M - 1
    BY <1>1
  <1>3. ASSUME NEW i \in 0 .. 3, NEW j \in 0 .. 3, (a + i) % M = (a + j) % M
        PROVE  i = j
    <2> DEFINE q == (a + i) \div M
               s == (a + j) \div M
               r == (a + i) % M
    <2>1. /\ a + i = M * q + r /\ a + j = M * s + r
          /\ q \in Int /\ s \in Int /\ r \in Int
      BY <1>1, <1>3
    <2> HIDE DEF q, s, r
    <2>2. i - j = M * (q - s)
      BY <1>1, <2>1
    <2>3. CASE q - s >= 1
      <3>1. M * (q - s) >= M
        BY <1>1, <2>1, <2>3
      <3> QED
        BY <1>1, <2>2, <3>1
    <2>4. CASE q - s <= -1
      <3>1. M * (q - s) <= -M
        BY <1>1, <2>1, <2>4
      <3> QED
        BY <1>1, <2>2, <3>1
    <2>5. CASE q = s
      BY <1>1, <2>1, <2>2, <2>5
    <2> QED
      BY <2>1, <2>3, <2>4, <2>5
  <1> QED
    BY <1>2, <1>3 DEF M, Addr

\* The memory after each byte of a write: u[i] after the first i bytes.
ByteOf(data, i) == Field(data, 8 * i + 7, 8 * i)

WritesBytes(p, q, first, data, n, u) ==
  /\ u[0] = p.mem
  /\ \A i \in 0 .. n : u[i] \in [Addr -> Byte]
  /\ \A i \in 1 .. n :
       u[i] = [u[i - 1] EXCEPT ![(first + i - 1) % PROC_MEMSIZE] = ByteOf(data, i - 1)]
  /\ q = [p EXCEPT !.mem = u[n]]

LEMMA WriteUnrolled ==
  ASSUME NEW p, Sound(p), NEW addr, NEW data, NEW n \in {1, 2, 4}
  PROVE  \E u : WritesBytes(p, procWriteMem(p, addr, data, n), AddrOf(addr), data, n, u)
  <1> DEFINE first == AddrOf(addr)
             byte(i) == ByteOf(data, i)
             Mem == [Addr -> Byte]
             at_(i) == (first + i - 1) % PROC_MEMSIZE
             step == [i \in 1 .. n |-> [m \in Mem |-> [m EXCEPT ![at_(i)] = byte(i - 1)]]]
             rec(g) == [i \in 0 .. n |-> IF i = 0 THEN p.mem
                                         ELSE [g[i - 1] EXCEPT ![at_(i)] = byte(i - 1)]]
             u == CHOOSE g : g = rec(g)
  <1>1. p.mem \in Mem /\ p.mem # NoMem
    <2>1. 0 \in Addr /\ p.mem \in Mem
      BY MemSizeAssumption DEF Addr, Sound
    <2>2. DOMAIN NoMem = {}
      BY DEF NoMem
    <2> QED
      BY <2>1, <2>2
  <1>2. \A i \in Int : byte(i) \in Byte
    BY DEF ByteOf, Field, Byte
  <1>3. procWriteMem(p, addr, data, n) = [p EXCEPT !.mem = u[n]]
    BY <1>1 DEF procWriteMem, ByteOf
  <1> HIDE DEF byte, at_, first
  <1>4. step \in [1 .. n -> [Mem -> Mem]]
    <2>1. ASSUME NEW i \in 1 .. n, NEW m \in Mem
          PROVE  [m EXCEPT ![at_(i)] = byte(i - 1)] \in Mem
      <3>1. byte(i - 1) \in Byte
        BY <1>2
      <3> QED
        BY <3>1
    <2> HIDE DEF Mem
    <2> QED
      BY <2>1
  <1>5. PICK f : Iterates(f, Mem, p.mem, n, step)
    <2> HIDE DEF step, Mem
    <2> QED
      BY <1>1, <1>4, IterationExists
  <1>6. f = rec(f)
    <2>1. \A i \in 1 .. n : f[i - 1] \in Mem /\ f[i] = step[i][f[i - 1]]
      <3> HIDE DEF Mem, step
      <3> QED
        BY <1>5 DEF Iterates
    <2>2. \A i \in 1 .. n : f[i] = [f[i - 1] EXCEPT ![at_(i)] = byte(i - 1)]
      <3> HIDE DEF Mem
      <3> QED
        BY <2>1
    <2> HIDE DEF Mem
    <2>3. f \in [0 .. n -> Mem] /\ f[0] = p.mem
      BY <1>5 DEF Iterates
    <2>4. \A i \in 0 .. n :
            f[i] = IF i = 0 THEN p.mem ELSE [f[i - 1] EXCEPT ![at_(i)] = byte(i - 1)]
      <3> SUFFICES ASSUME NEW i \in 0 .. n, i # 0
                   PROVE  f[i] = [f[i - 1] EXCEPT ![at_(i)] = byte(i - 1)]
        BY <2>3
      <3>1. i \in 1 .. n
        OBVIOUS
      <3> QED
        BY <2>2, <3>1
    <2> QED
      BY <2>3, <2>4
  <1>7. u = rec(u)
    BY <1>6
  <1> HIDE DEF u
  <1>8. u[0] = p.mem
    BY <1>7
  <1>9. \A i \in 1 .. n : u[i] = [u[i - 1] EXCEPT ![at_(i)] = byte(i - 1)]
    <2>1. \A i \in 1 .. n : i \in 0 .. n /\ i # 0
      OBVIOUS
    <2> QED
      BY <1>7, <2>1
  <1>10. \A i \in 0 .. n : u[i] \in Mem
    <2>1. \A i \in 1 .. n : u[i - 1] \in Mem => u[i] \in Mem
      <3>1. ASSUME NEW i \in 1 .. n, u[i - 1] \in Mem PROVE u[i] \in Mem
        <4>1. byte(i - 1) \in Byte /\ u[i] = [u[i - 1] EXCEPT ![at_(i)] = byte(i - 1)]
          BY <1>2, <1>9
        <4> QED
          BY <3>1, <4>1
      <3> QED
        BY <3>1
    <2> HIDE DEF Mem
    <2>2. u[0] \in Mem /\ u[1] \in Mem
      BY <1>1, <1>8, <2>1
    <2>3. n # 1 => u[2] \in Mem
      BY <2>1, <2>2
    <2>4. n = 4 => u[3] \in Mem /\ u[4] \in Mem
      BY <2>1, <2>3
    <2> QED
      BY <2>2, <2>3, <2>4
  <1> QED
    BY <1>3, <1>8, <1>9, <1>10 DEF WritesBytes, byte, at_, first

LEMMA SoundMemory ==
  ASSUME NEW p, Sound(p), NEW addr, NEW n \in {1, 2, 4}
  PROVE  /\ procReadMem(p, addr, n) \in Word
         /\ \A data : Sound(procWriteMem(p, addr, data, n))
  <1>1. procReadMem(p, addr, n) \in Word
    <2>1. \A i \in 0 .. n - 1 :
            Put(p.mem[(AddrOf(addr) + i) % PROC_MEMSIZE], 7, 0, 8 * i) \in Word
      BY PutIsWord DEF XLEN
    <2> QED
      BY <2>1 DEF procReadMem, Word
  <1>2. ASSUME NEW data PROVE Sound(procWriteMem(p, addr, data, n))
    <2> DEFINE q == procWriteMem(p, addr, data, n)
    <2>1. PICK m \in [Addr -> Byte] : q = [p EXCEPT !.mem = m]
      <3>1. PICK u : WritesBytes(p, q, AddrOf(addr), data, n, u)
        BY WriteUnrolled
      <3>2. u[n] \in [Addr -> Byte] /\ q = [p EXCEPT !.mem = u[n]]
        BY <3>1 DEF WritesBytes
      <3> QED
        BY <3>2
    <2> QED
      BY <2>1 DEF Sound, Proc
  <1> QED
    BY <1>1, <1>2

\* Every byte of a write lands, and no other byte changes.
LEMMA WriteContents ==
  ASSUME NEW p, Sound(p), NEW addr, NEW data, NEW n \in {1, 2, 4}
  PROVE  LET q == procWriteMem(p, addr, data, n)
         IN  /\ \A b \in Addr \ BytesAt(addr, n) : q.mem[b] = p.mem[b]
             /\ \A i \in 0 .. n - 1 :
                  q.mem[(AddrOf(addr) + i) % PROC_MEMSIZE] = ByteOf(data, i)
  <1> DEFINE q == procWriteMem(p, addr, data, n)
             first == AddrOf(addr)
             at_(i) == (first + i) % PROC_MEMSIZE
  <1>1. PICK u : WritesBytes(p, q, first, data, n, u)
    BY WriteUnrolled
  <1>2. q.mem = u[n] /\ u[0] = p.mem
    BY <1>1 DEF WritesBytes, Sound, Proc
  <1>3. first \in Nat /\ \A i \in 1 .. n : first + i - 1 = first + (i - 1)
    BY AddressIsNat
  <1>4. \A i \in 1 .. n : /\ u[i] = [u[i - 1] EXCEPT ![at_(i - 1)] = ByteOf(data, i - 1)]
                          /\ u[i - 1] \in [Addr -> Byte]
    <2> SUFFICES ASSUME NEW i \in 1 .. n
                 PROVE  /\ u[i] = [u[i - 1] EXCEPT ![at_(i - 1)] = ByteOf(data, i - 1)]
                        /\ u[i - 1] \in [Addr -> Byte]
      OBVIOUS
    <2>1. at_(i - 1) = (first + i - 1) % PROC_MEMSIZE /\ i - 1 \in 0 .. n
      BY <1>3
    <2> HIDE DEF at_, first, q
    <2> QED
      BY <1>1, <2>1 DEF WritesBytes
  <1>5. \A i \in 0 .. 3 : at_(i) \in Addr
    <2>1. \A i \in 0 .. 3 : first + i \in Nat
      BY <1>3
    <2> QED
      BY <2>1, AddressWraps
  <1>6. \A i, j \in 0 .. 3 : at_(i) = at_(j) => i = j
    BY <1>3, AddressWraps
  <1>7. \A i \in 1 .. n : i - 1 \in 0 .. 3
    OBVIOUS
  <1> HIDE DEF q, first, at_
  <1>8. \A i \in 1 .. n : \A b \in Addr : b # at_(i - 1) => u[i][b] = u[i - 1][b]
    BY <1>4
  <1>9. \A i \in 1 .. n : u[i][at_(i - 1)] = ByteOf(data, i - 1)
    BY <1>4, <1>5, <1>7
  <1>10. ASSUME NEW b \in Addr \ BytesAt(addr, n) PROVE q.mem[b] = p.mem[b]
    <2>1. \A i \in 1 .. n : b # at_(i - 1)
      <3>1. \A i \in 1 .. n : i - 1 \in 0 .. n - 1
        OBVIOUS
      <3> QED
        BY <3>1 DEF BytesAt, at_, first
    <2>2. \A i \in 1 .. n : u[i][b] = u[i - 1][b]
      BY <1>8, <2>1
    <2>3. u[1][b] = u[0][b]
      BY <2>2
    <2>4. n # 1 => u[2][b] = u[1][b]
      BY <2>2
    <2>5. n = 4 => u[3][b] = u[2][b] /\ u[4][b] = u[3][b]
      BY <2>2
    <2> QED
      BY <1>2, <2>3, <2>4, <2>5
  <1>11. ASSUME NEW i \in 0 .. n - 1 PROVE q.mem[at_(i)] = ByteOf(data, i)
    <2>1. i \in 0 .. 3 /\ i + 1 \in 1 .. n /\ i + 1 - 1 = i
      OBVIOUS
    <2>2. u[i + 1][at_(i)] = ByteOf(data, i)
      BY <1>9, <2>1
    <2>3. \A j \in 1 .. n : j > i + 1 => u[j][at_(i)] = u[j - 1][at_(i)]
      <3> SUFFICES ASSUME NEW j \in 1 .. n, j > i + 1 PROVE u[j][at_(i)] = u[j - 1][at_(i)]
        OBVIOUS
      <3>1. j - 1 \in 0 .. 3 /\ j - 1 # i
        OBVIOUS
      <3>2. at_(i) # at_(j - 1) /\ at_(i) \in Addr
        BY <1>5, <1>6, <2>1, <3>1
      <3> QED
        BY <1>8, <3>2
    <2>4. u[n][at_(i)] = u[i + 1][at_(i)]
      <3>1. n # 1 /\ i + 1 < 2 => u[2][at_(i)] = u[1][at_(i)]
        BY <2>3
      <3>2. n = 4 /\ i + 1 < 3 => u[3][at_(i)] = u[2][at_(i)]
        BY <2>3
      <3>3. n = 4 /\ i + 1 < 4 => u[4][at_(i)] = u[3][at_(i)]
        BY <2>3
      <3> QED
        BY <2>1, <3>1, <3>2, <3>3
    <2> QED
      BY <1>2, <2>2, <2>4
  <1> QED
    BY <1>10, <1>11 DEF q, at_, first

\* What has been written is what is read there.
LEMMA ReadBack ==
  ASSUME NEW p, Sound(p), NEW addr, NEW data, NEW n \in {1, 2, 4}
  PROVE  procReadMem(procWriteMem(p, addr, data, n), addr, n) = data \cap (0 .. 8 * n - 1)
  <1> DEFINE q == procWriteMem(p, addr, data, n)
  <1>1. procReadMem(q, addr, n) = UNION {Put(ByteOf(data, i), 7, 0, 8 * i) : i \in 0 .. n - 1}
    <2>1. \A i \in 0 .. n - 1 :
            q.mem[(AddrOf(addr) + i) % PROC_MEMSIZE] = ByteOf(data, i)
      BY WriteContents
    <2> HIDE DEF q
    <2> QED
      BY <2>1 DEF procReadMem
  <1>2. \A i \in 0 .. n - 1 :
          Put(ByteOf(data, i), 7, 0, 8 * i) = data \cap (8 * i .. 8 * i + 7)
    <2> SUFFICES ASSUME NEW i \in 0 .. n - 1, NEW x
                 PROVE  x \in Put(ByteOf(data, i), 7, 0, 8 * i) <=>
                          x \in data /\ x \in 8 * i .. 8 * i + 7
      OBVIOUS
    <2>1. x \in Put(ByteOf(data, i), 7, 0, 8 * i) <=>
            \E k \in ByteOf(data, i) : k \in 0 .. 7 /\ x = k - 0 + 8 * i
      BY DEF Put
    <2>2. \A k : k \in ByteOf(data, i) <=>
                   \E y \in data : y \in 8 * i .. 8 * i + 7 /\ k = y - 8 * i
      BY DEF ByteOf, Field
    <2>3. ASSUME NEW k \in ByteOf(data, i), k \in 0 .. 7, x = k - 0 + 8 * i
          PROVE  x \in data /\ x \in 8 * i .. 8 * i + 7
      <3>1. PICK y \in data : y \in 8 * i .. 8 * i + 7 /\ k = y - 8 * i
        BY <2>2
      <3>2. x = y
        BY <2>3, <3>1
      <3> QED
        BY <3>1, <3>2
    <2>4. ASSUME x \in data, x \in 8 * i .. 8 * i + 7
          PROVE  x - 8 * i \in ByteOf(data, i) /\ x - 8 * i \in 0 .. 7
                 /\ x = x - 8 * i - 0 + 8 * i
      <3>1. x - 8 * i \in ByteOf(data, i)
        BY <2>2, <2>4
      <3> QED
        BY <2>4, <3>1
    <2> QED
      BY <2>1, <2>3, <2>4
  <1>3. ASSUME NEW x PROVE x \in procReadMem(q, addr, n) <=> x \in data /\ x \in 0 .. 8 * n - 1
    <2>1. x \in procReadMem(q, addr, n) <=>
            \E i \in 0 .. n - 1 : x \in data /\ x \in 8 * i .. 8 * i + 7
      <3> HIDE DEF q
      <3> QED
        BY <1>1, <1>2
    <2>2. x \in 0 .. 8 * n - 1 <=> \E i \in 0 .. n - 1 : x \in 8 * i .. 8 * i + 7
      <3>1. CASE n = 1
        BY <3>1
      <3>2. CASE n = 2
        BY <3>2
      <3>3. CASE n = 4
        BY <3>3
      <3> QED
        BY <3>1, <3>2, <3>3
    <2> QED
      BY <2>1, <2>2
  <1> QED
    BY <1>3

\* A read depends on its own bytes only.
LEMMA SameRead ==
  ASSUME NEW p, NEW q, NEW addr, NEW n \in {1, 2, 4},
         \A b \in BytesAt(addr, n) : q.mem[b] = p.mem[b]
  PROVE  procReadMem(q, addr, n) = procReadMem(p, addr, n)
  <1>1. \A i \in 0 .. n - 1 : q.mem[(AddrOf(addr) + i) % PROC_MEMSIZE]
                               = p.mem[(AddrOf(addr) + i) % PROC_MEMSIZE]
    BY DEF BytesAt
  <1> QED
    BY <1>1 DEF procReadMem
-----------------------------------------------------------------------------
\* What the functions do with operands that are words and register numbers, one
\* lemma for each operand structure.
LEMMA SoundOps ==
  ASSUME NEW p, Sound(p), NEW d, d.rs1 \in Nat, d.rs2 \in Nat
  PROVE  \A name \in Ops : Sound(Apply32(p, name, d))
  <1>1. procReadReg(p, d.rs1) \in Word /\ procReadReg(p, d.rs2) \in Word
    BY SoundRegisters
  <1> DEFINE a == procReadReg(p, d.rs1)
             b == procReadReg(p, d.rs2)
  <1>2. /\ Add(a, b) \in Word /\ Sub(a, b) \in Word
        /\ Xor(a, b) \in Word /\ And(a, b) \in Word /\ Or(a, b) \in Word
        /\ ShiftLeft(a, b) \in Word
        /\ ShiftRight(a, b) \in Word
        /\ ShiftRightArith(a, b) \in Word
        /\ SetLess(a, b) \in Word /\ SetLessAbs(a, b) \in Word
    BY <1>1, WordsAreClosed
  <1>3. /\ Sound(add(p, d)) /\ Sound(sub(p, d)) /\ Sound(shiftLeft(p, d))
        /\ Sound(setLessThan(p, d)) /\ Sound(setLessThanUnsigned(p, d)) /\ Sound(xor(p, d))
        /\ Sound(shiftRight(p, d)) /\ Sound(shiftRightArithmetic(p, d))
        /\ Sound(or(p, d)) /\ Sound(and(p, d))
    BY <1>2, SoundRegisters DEF add, sub, shiftLeft, setLessThan, setLessThanUnsigned, xor,
         shiftRight, shiftRightArithmetic, or, and, Binary
  <1> QED
    BY <1>3 DEF Ops, Apply32
LEMMA SoundOpImms ==
  ASSUME NEW p, Sound(p), NEW d, d.imm \in Word, d.rs1 \in Nat
  PROVE  \A name \in OpImms : Sound(Apply32(p, name, d))
  <1>1. procReadReg(p, d.rs1) \in Word
    BY SoundRegisters
  <1> DEFINE a == procReadReg(p, d.rs1)
             b == d.imm
  <1>2. /\ Add(a, b) \in Word /\ Xor(a, b) \in Word /\ And(a, b) \in Word
        /\ Or(a, b) \in Word /\ ShiftLeft(a, b) \in Word /\ ShiftRight(a, b) \in Word
        /\ ShiftRightArith(a, b) \in Word
        /\ SetLess(a, b) \in Word /\ SetLessAbs(a, b) \in Word
    BY <1>1, WordsAreClosed
  <1>3. /\ Sound(addImmediate(p, d)) /\ Sound(shiftLeftImmediate(p, d))
        /\ Sound(setLessThanImmediate(p, d)) /\ Sound(setLessThanImmediateUnsigned(p, d))
        /\ Sound(xorImmediate(p, d)) /\ Sound(shiftRightImmediate(p, d))
        /\ Sound(shiftRightArithImm(p, d)) /\ Sound(orImmediate(p, d))
        /\ Sound(andImmediate(p, d))
    BY <1>2, SoundRegisters DEF addImmediate, shiftLeftImmediate, setLessThanImmediate,
         setLessThanImmediateUnsigned, xorImmediate, shiftRightImmediate, shiftRightArithImm,
         orImmediate, andImmediate, Immediate
  <1> QED
    BY <1>3 DEF OpImms, Apply32

LEMMA SoundLoads ==
  ASSUME NEW p, Sound(p), NEW d
  PROVE  \A name \in Loads : Sound(Apply32(p, name, d))
  <1>1. \A n \in {1, 2, 4} : Load(p, d, n) \in Word
    BY SoundMemory DEF Load
  <1>2. \A n \in {1, 2, 4} : Sound(LoadSigned(p, d, n))
    <2> SUFFICES ASSUME NEW n \in {1, 2, 4} PROVE Sound(LoadSigned(p, d, n))
      OBVIOUS
    <2>1. Extend(Load(p, d, n), 8 * n - 1, 8 * n) \in Word
      BY ExtendIsWord
    <2>2. Load(p, d, n) \cup Extend(Load(p, d, n), 8 * n - 1, 8 * n) \in Word
      BY <1>1, <2>1 DEF Word
    <2> QED
      BY <2>2, SoundRegisters DEF LoadSigned
  <1>3. /\ Sound(loadByte(p, d)) /\ Sound(loadHalfword(p, d)) /\ Sound(loadWord(p, d))
        /\ Sound(loadByteUnsigned(p, d)) /\ Sound(loadHalfUnsigned(p, d))
    BY <1>1, <1>2, SoundRegisters DEF loadByte, loadHalfword, loadWord, loadByteUnsigned,
         loadHalfUnsigned
  <1> QED
    BY <1>3 DEF Loads, Apply32

LEMMA SoundStores ==
  ASSUME NEW p, Sound(p), NEW d
  PROVE  \A name \in Stores : Sound(Apply32(p, name, d))
  <1>1. Sound(storeByte(p, d)) /\ Sound(storeHalfword(p, d)) /\ Sound(storeWord(p, d))
    BY SoundMemory DEF storeByte, storeHalfword, storeWord, Store
  <1> QED
    BY <1>1 DEF Stores, Apply32

LEMMA SoundBranches ==
  ASSUME NEW p, Sound(p), NEW d
  PROVE  \A name \in Branches : Sound(Apply32(p, name, d))
  <1>1. \A test : Sound(BranchIf(p, d, test))
    BY SoundJumps DEF BranchIf
  <1>2. /\ Sound(branchEqual(p, d)) /\ Sound(branchNotEqual(p, d))
        /\ Sound(branchLessThan(p, d)) /\ Sound(branchMoreOrEqual(p, d))
        /\ Sound(branchLessThanUnsigned(p, d)) /\ Sound(branchMoreOrEqualUnsigned(p, d))
    BY <1>1 DEF branchEqual, branchNotEqual, branchLessThan, branchMoreOrEqual,
         branchLessThanUnsigned, branchMoreOrEqualUnsigned
  <1> QED
    BY <1>2 DEF Branches, Apply32

LEMMA SoundUppers ==
  ASSUME NEW p, Sound(p), NEW d, d.imm \in Word
  PROVE  \A name \in {"RV32E_LUI", "RV32E_AUIPC"} : Sound(Apply32(p, name, d))
  <1>1. Add(d.imm, p.pc) \in Word
    BY SoundRegisters, WordsAreClosed
  <1>2. Sound(loadUpperImm(p, d)) /\ Sound(addUpperImmToPC(p, d))
    BY <1>1, SoundRegisters DEF loadUpperImm, addUpperImmToPC
  <1> QED
    BY <1>2 DEF Apply32

LEMMA LinkIsSound ==
  ASSUME NEW p, Sound(p), NEW reg, NEW width \in {Two, Four}
  PROVE  Sound(procWriteReg(p, reg, Add(p.pc, width)))
  <1>1. Add(p.pc, width) \in Word
    BY SoundRegisters, WordsAreClosed, SmallWords
  <1> QED
    BY <1>1, SoundRegisters

LEMMA SoundLinks ==
  ASSUME NEW p, Sound(p), NEW d
  PROVE  \A name \in {"RV32E_JAL", "RV32E_JALR"} : Sound(Apply32(p, name, d))
  <1>1. Sound(jumpAndLink(p, d)) /\ Sound(jumpAndLinkRegister(p, d))
    BY LinkIsSound, SoundJumps DEF jumpAndLink, jumpAndLinkRegister
  <1> QED
    BY <1>1 DEF Apply32

\* The immediates are words and the register fields are numbers.
LEMMA FieldsAreOperands ==
  ASSUME NEW w
  PROVE  /\ Rs1(w) \in Nat /\ Rs2(w) \in Nat
         /\ getITypeImmediate(w) \in Word /\ getUTypeImmediate(w) \in Word
  <1>1. Rs1(w) \in Nat /\ Rs2(w) \in Nat
    <2>1. 19 + 1 - 15 \in Nat /\ 24 + 1 - 20 \in Nat
      OBVIOUS
    <2> QED
      BY <2>1, NumIsNat DEF Rs1, Rs2
  <1>2. Put(w, 31, 20, 0) \in Word /\ Extend(w, 31, 12) \in Word
    BY PutIsWord, ExtendIsWord DEF XLEN
  <1>3. getITypeImmediate(w) \in Word
    BY <1>2 DEF getITypeImmediate, Word
  <1>4. getUTypeImmediate(w) \in Word
    BY DEF getUTypeImmediate, Word, Bit, XLEN
  <1> QED
    BY <1>1, <1>3, <1>4

LEMMA SoundFull ==
  ASSUME NEW p, Sound(p), NEW w, IsRV32E(w), NEW name \in Callable(w)
  PROVE  Sound(Apply(p, name, w))
  <1> DEFINE d == Fields32(w, Given(name))
             s == Given(name)
  <1>1. Apply(p, name, w) = Apply32(p, name, d)
    BY DEF Apply
  <1>2. name \in Ops \cup OpImms \cup Loads \cup Stores \cup Branches
                 \cup {"RV32E_LUI", "RV32E_AUIPC", "RV32E_JAL", "RV32E_JALR"}
    BY DEF Callable
  <1>3. CASE name \in Ops
    <2>1. s = "rData"
      BY <1>3 DEF Given, Ops
    <2>2. d.rs1 = Rs1(w) /\ d.rs2 = Rs2(w)
      BY <2>1 DEF Fields32
    <2> HIDE DEF d
    <2> QED
      BY <1>1, <1>3, <2>2, FieldsAreOperands, SoundOps
  <1>4. CASE name \in OpImms
    <2>1. s = "iData"
      BY <1>4 DEF Given, OpImms
    <2>2. d.imm = getITypeImmediate(w) /\ d.rs1 = Rs1(w)
      BY <2>1 DEF Fields32
    <2> HIDE DEF d
    <2> QED
      BY <1>1, <1>4, <2>2, FieldsAreOperands, SoundOpImms
  <1>5. CASE name \in {"RV32E_LUI", "RV32E_AUIPC"}
    <2>1. s = "uData"
      BY <1>5 DEF Given
    <2>2. d.imm = getUTypeImmediate(w)
      BY <2>1 DEF Fields32
    <2> HIDE DEF d
    <2> QED
      BY <1>1, <1>5, <2>2, FieldsAreOperands, SoundUppers
  <1>6. CASE name \in Loads \cup Stores \cup Branches \cup {"RV32E_JAL", "RV32E_JALR"}
    <2> HIDE DEF d
    <2> QED
      BY <1>1, <1>6, SoundLoads, SoundStores, SoundBranches, SoundLinks
  <1> QED
    BY <1>2, <1>3, <1>4, <1>5, <1>6
-----------------------------------------------------------------------------
\* The compressed instructions hand operands of their own to the full ones.
LEMMA CompressedImmediates ==
  ASSUME NEW w
  PROVE  /\ getCiImmediate(w) \in Word /\ getCbImmediate(w) \in Word
         /\ getCiwImmediate(w) \in Word
  <1>1. /\ Put(w, 12, 12, 5) \in Word /\ Put(w, 6, 2, 0) \in Word
        /\ Put(w, 3, 2, 6) \in Word /\ Put(w, 6, 4, 2) \in Word
        /\ Put(w, 12, 12, 9) \in Word /\ Put(w, 4, 3, 7) \in Word
        /\ Put(w, 5, 5, 6) \in Word /\ Put(w, 2, 2, 5) \in Word
        /\ Put(w, 6, 6, 4) \in Word
    BY PutIsWord DEF XLEN
  <1>2. /\ Put(w, 12, 12, 8) \in Word /\ Put(w, 6, 5, 6) \in Word
        /\ Put(w, 11, 10, 3) \in Word /\ Put(w, 4, 3, 1) \in Word
        /\ Put(w, 10, 7, 8) \in Word /\ Put(w, 12, 11, 4) \in Word
        /\ Put(w, 5, 5, 3) \in Word /\ Put(w, 6, 6, 2) \in Word
    BY PutIsWord DEF XLEN
  <1>3. \A high \in Nat : Extend(w, 12, high) \in Word
    BY ExtendIsWord
  <1>4. \A a, b : a \in Word /\ b \in Word => a \cup b \in Word
    BY DEF Word
  <1>5. Imm6(w) \in Word /\ Zero \in Word
    BY <1>1, <1>4, SmallWords DEF Imm6
  <1>6. getCiImmediate(w) \in Word
    <2>1. Imm6(w) \cup Extend(w, 12, 6) \in Word
      BY <1>3, <1>4, <1>5
    <2>2. Put(w, 3, 2, 6) \cup Put(w, 12, 12, 5) \cup Put(w, 6, 4, 2) \in Word
      BY <1>1, <1>4
    <2>3. Put(w, 12, 12, 9) \cup Put(w, 4, 3, 7) \cup Put(w, 5, 5, 6)
            \cup Put(w, 2, 2, 5) \cup Put(w, 6, 6, 4) \cup Extend(w, 12, 10) \in Word
      BY <1>1, <1>3, <1>4
    <2> QED
      BY <1>5, <2>1, <2>2, <2>3 DEF getCiImmediate
  <1>7. getCbImmediate(w) \in Word
    <2>1. Put(w, 12, 12, 8) \cup Put(w, 6, 5, 6) \cup Put(w, 2, 2, 5)
            \cup Put(w, 11, 10, 3) \cup Put(w, 4, 3, 1) \cup Extend(w, 12, 9) \in Word
      BY <1>1, <1>2, <1>3, <1>4
    <2>2. Imm6(w) \cup Extend(w, 12, 6) \in Word
      BY <1>3, <1>4, <1>5
    <2> QED
      BY <1>5, <2>1, <2>2 DEF getCbImmediate
  <1>8. getCiwImmediate(w) \in Word
    <2>1. Put(w, 10, 7, 8) \cup Put(w, 12, 11, 4) \cup Put(w, 5, 5, 3)
            \cup Put(w, 6, 6, 2) \in Word
      BY <1>2, <1>4
    <2> QED
      BY <1>5, <2>1 DEF getCiwImmediate
  <1> QED
    BY <1>6, <1>7, <1>8

LEMMA CompressedRegisters ==
  ASSUME NEW w
  PROVE  CRd(w) \in Nat /\ CRs2(w) \in Nat /\ CRdP(w) \in Nat /\ CRs2P(w) \in Nat
  <1>1. /\ 11 + 1 - 7 \in Nat /\ 6 + 1 - 2 \in Nat
        /\ 9 + 1 - 7 \in Nat /\ 4 + 1 - 2 \in Nat
    OBVIOUS
  <1> QED
    BY <1>1, NumIsNat DEF CRd, CRs2, CRdP, CRs2P

\* The functions of the full instructions, on any operands of their types.
LEMMA SoundFunctions ==
  ASSUME NEW p, Sound(p), NEW d
  PROVE  /\ d.imm \in Word /\ d.rs1 \in Nat =>
              /\ Sound(addImmediate(p, d)) /\ Sound(shiftLeftImmediate(p, d))
              /\ Sound(shiftRightImmediate(p, d)) /\ Sound(shiftRightArithImm(p, d))
              /\ Sound(andImmediate(p, d))
         /\ d.rs1 \in Nat /\ d.rs2 \in Nat =>
              /\ Sound(add(p, d)) /\ Sound(sub(p, d)) /\ Sound(xor(p, d))
              /\ Sound(or(p, d)) /\ Sound(and(p, d))
         /\ d.imm \in Word => Sound(loadUpperImm(p, d))
         /\ Sound(loadWord(p, d)) /\ Sound(storeWord(p, d))
         /\ Sound(branchEqual(p, d)) /\ Sound(branchNotEqual(p, d))
         /\ Sound(jumpAndLink(p, d)) /\ Sound(jumpAndLinkRegister(p, d))
  <1>1. ASSUME d.imm \in Word, d.rs1 \in Nat
        PROVE  /\ Sound(addImmediate(p, d)) /\ Sound(shiftLeftImmediate(p, d))
               /\ Sound(shiftRightImmediate(p, d)) /\ Sound(shiftRightArithImm(p, d))
               /\ Sound(andImmediate(p, d))
    BY <1>1, SoundOpImms DEF OpImms, Apply32
  <1>2. ASSUME d.rs1 \in Nat, d.rs2 \in Nat
        PROVE  /\ Sound(add(p, d)) /\ Sound(sub(p, d)) /\ Sound(xor(p, d))
               /\ Sound(or(p, d)) /\ Sound(and(p, d))
    BY <1>2, SoundOps DEF Ops, Apply32
  <1>3. ASSUME d.imm \in Word PROVE Sound(loadUpperImm(p, d))
    BY <1>3, SoundUppers DEF Apply32
  <1>4. Sound(loadWord(p, d)) /\ Sound(storeWord(p, d))
    BY SoundLoads, SoundStores DEF Loads, Stores, Apply32
  <1>5. Sound(branchEqual(p, d)) /\ Sound(branchNotEqual(p, d))
    BY SoundBranches DEF Branches, Apply32
  <1>6. Sound(jumpAndLink(p, d)) /\ Sound(jumpAndLinkRegister(p, d))
    BY SoundLinks DEF Apply32
  <1> QED
    BY <1>1, <1>2, <1>3, <1>4, <1>5, <1>6

LEMMA SoundCompressed ==
  ASSUME NEW p, Sound(p), NEW w, ~IsRV32E(w), NEW name \in CRunnable
  PROVE  Sound(Apply(p, name, w))
  <1> DEFINE d == Fields16(w, Given(name))
             s == Given(name)
  <1>1. Apply(p, name, w) = Apply16(p, name, d)
    BY DEF Apply
  <1>2. CASE name \in {"C_ADDI", "C_LI", "C_ADDI16SP", "C_LUI", "C_SLLI", "C_LWSP"}
    <2>1. s = "ciData"
      BY <1>2 DEF Given
    <2>2. d.imm \in Word /\ d.rdRs1 \in Nat
      BY <2>1, CompressedImmediates, CompressedRegisters DEF Fields16
    <2> HIDE DEF d
    <2>3. /\ Sound(cAddImmediate(p, d)) /\ Sound(cLoadImmediate(p, d))
          /\ Sound(cAddi16StackPointer(p, d)) /\ Sound(cShiftLeftLogicalImmediate(p, d))
          /\ Sound(cLoadWordStackPointer(p, d))
      BY <2>2, SoundFunctions DEF cAddImmediate, cLoadImmediate, cAddi16StackPointer,
           cShiftLeftLogicalImmediate, cLoadWordStackPointer, Operands, X0
    <2>4. Sound(cLoadUpperImmediate(p, d))
      <3>1. ShiftLeft(d.imm, Lit(12)) \in Word
        BY <2>2, SmallWords, WordsAreClosed
      <3> QED
        BY <3>1, SoundFunctions DEF cLoadUpperImmediate
    <2> QED
      BY <1>1, <1>2, <2>3, <2>4 DEF Apply16
  <1>3. CASE name \in {"C_SRLI", "C_SRAI", "C_ANDI", "C_BEQZ", "C_BNEZ"}
    <2>1. s = "cbData"
      BY <1>3 DEF Given
    <2>2. d.offset \in Word /\ d.rs1P \in Nat
      BY <2>1, CompressedImmediates, CompressedRegisters DEF Fields16
    <2> HIDE DEF d
    <2>3. ShortImmediate(d).imm \in Word /\ ShortImmediate(d).rs1 \in Nat
      BY <2>2 DEF ShortImmediate, Operands, RP_SHIFT
    <2>4. /\ Sound(cShiftRightLogicalImmediate(p, d))
          /\ Sound(cShiftRightArithmeticImmediate(p, d)) /\ Sound(cAndImmediate(p, d))
      BY <2>3, SoundFunctions DEF cShiftRightLogicalImmediate, cShiftRightArithmeticImmediate,
           cAndImmediate
    <2>5. Sound(cBranchOnEqualZero(p, d)) /\ Sound(cBranchNotEqualZero(p, d))
      BY SoundFunctions DEF cBranchOnEqualZero, cBranchNotEqualZero
    <2> QED
      BY <1>1, <1>3, <2>4, <2>5 DEF Apply16
  <1>4. CASE name \in {"C_SUB", "C_XOR", "C_OR", "C_AND"}
    <2>1. s = "caData"
      BY <1>4 DEF Given
    <2>2. d.rdPRs1P \in Nat /\ d.rs2P \in Nat
      BY <2>1, CompressedRegisters DEF Fields16
    <2> HIDE DEF d
    <2>3. ShortRegisters(d).rs1 \in Nat /\ ShortRegisters(d).rs2 \in Nat
      BY <2>2 DEF ShortRegisters, Registers, RP_SHIFT
    <2>4. Sound(cSub(p, d)) /\ Sound(cXor(p, d)) /\ Sound(cOr(p, d)) /\ Sound(cAnd(p, d))
      BY <2>3, SoundFunctions DEF cSub, cXor, cOr, cAnd
    <2> QED
      BY <1>1, <1>4, <2>4 DEF Apply16
  <1>5. CASE name \in {"C_JR", "C_MV", "C_JALR", "C_ADD"}
    <2>1. s = "crData"
      BY <1>5 DEF Given
    <2>2. d.rdRs1 \in Nat /\ d.rs2 \in Nat
      BY <2>1, CompressedRegisters DEF Fields16
    <2> HIDE DEF d
    <2>3. Sound(cMove(p, d)) /\ Sound(cAdd(p, d))
      BY <2>2, SoundFunctions DEF cMove, cAdd, Registers, X0
    <2>4. Sound(cJumpRegister(p, d)) /\ Sound(cJumpAndLinkRegister(p, d))
      BY LinkIsSound, SoundFunctions DEF cJumpRegister, cJumpAndLinkRegister
    <2> QED
      BY <1>1, <1>5, <2>3, <2>4 DEF Apply16
  <1>6. CASE name = "C_ADDI4SPN"
    <2>1. s = "ciwData"
      BY <1>6 DEF Given
    <2>2. d.imm \in Word
      BY <2>1, CompressedImmediates DEF Fields16
    <2> HIDE DEF d
    <2> DEFINE added == addImmediate(p, Operands(d.imm, SP, SP))
    <2>3. Sound(added) /\ procReadReg(added, SP) \in Word
      BY <2>2, SoundFunctions, SoundRegisters DEF Operands, SP
    <2>4. cAddi4StackPointer(p, d) =
            procWriteReg(added, RP_SHIFT(d.rdP), procReadReg(added, SP))
      BY DEF cAddi4StackPointer
    <2> HIDE DEF added
    <2>5. Sound(cAddi4StackPointer(p, d))
      BY <2>3, <2>4, SoundRegisters
    <2> QED
      BY <1>1, <1>6, <2>5 DEF Apply16
  <1>7. CASE name \in {"C_LW", "C_SW", "C_SWSP", "C_JAL", "C_J"}
    <2> HIDE DEF d
    <2>1. /\ Sound(cLoadWord(p, d)) /\ Sound(cStoreWord(p, d))
          /\ Sound(cStoreWordStackPointer(p, d))
      BY SoundFunctions DEF cLoadWord, cStoreWord, cStoreWordStackPointer
    <2>2. Sound(cJump(p, d)) /\ Sound(cJumpAndLink(p, d))
      BY LinkIsSound, SoundFunctions, SoundJumps DEF cJump, cJumpAndLink
    <2> QED
      BY <1>1, <1>7, <2>1, <2>2 DEF Apply16
  <1> QED
    BY <1>2, <1>3, <1>4, <1>5, <1>6, <1>7 DEF CRunnable
-----------------------------------------------------------------------------
\* The recursion of FoldLeft runs over the sets of positions, from the greatest
\* position of a set down.
FoldsOver(g, T, base, L, step) ==
  /\ g \in [SUBSET (1 .. L) -> T]
  /\ \A s \in SUBSET (1 .. L) :
       g[s] = IF s = {} THEN base ELSE step[Max(s)][g[s \ {Max(s)}]]

\* It has a solution when every step stays in a set.
LEMMA FoldExists ==
  ASSUME NEW T, NEW base \in T, NEW L \in Nat, NEW step \in [1 .. L -> [T -> T]]
  PROVE  \E g : FoldsOver(g, T, base, L, step)
  <1> DEFINE Sets == SUBSET (1 .. L)
             Table == [Sets -> T]
             grown(k, h) == [s \in Sets |-> IF k \in s THEN step[k][h[s \ {k}]] ELSE h[s]]
             grow == [k \in 1 .. L |-> [h \in Table |-> grown(k, h)]]
             empty == [s \in Sets |-> base]
  <1>1. empty \in Table
    OBVIOUS
  <1>2. ASSUME NEW k \in 1 .. L, NEW h \in Table PROVE grown(k, h) \in Table
    <2> SUFFICES ASSUME NEW s \in Sets
                 PROVE  (IF k \in s THEN step[k][h[s \ {k}]] ELSE h[s]) \in T
      OBVIOUS
    <2>1. h[s \ {k}] \in T /\ h[s] \in T
      OBVIOUS
    <2>2. step[k][h[s \ {k}]] \in T
      BY <2>1
    <2> QED
      BY <2>1, <2>2
  <1>3. grow \in [1 .. L -> [Table -> Table]]
    <2> HIDE DEF Table, grown
    <2> QED
      BY <1>2
  <1>4. PICK t : Iterates(t, Table, empty, L, grow)
    <2> HIDE DEF Table, grow, empty
    <2> QED
      BY <1>1, <1>3, IterationExists
  <1> DEFINE Right(k, s) == t[k][s] = IF s = {} THEN base ELSE step[Max(s)][t[k][s \ {Max(s)}]]
             Wrong == {k \in 0 .. L : \E s \in SUBSET (1 .. k) : ~Right(k, s)}
  <1>5. t[0] = empty /\ \A k \in 0 .. L : t[k] \in Table
    <2> HIDE DEF Table, grow, empty
    <2> QED
      BY <1>4 DEF Iterates
  <1>6. ASSUME NEW k \in 1 .. L PROVE t[k] = grown(k, t[k - 1])
    <2>1. t[k] = grow[k][t[k - 1]] /\ t[k - 1] \in Table
      <3>1. k - 1 \in 0 .. L
        OBVIOUS
      <3> HIDE DEF Table, grow, empty
      <3> QED
        BY <1>4, <1>5, <3>1 DEF Iterates
    <2> HIDE DEF Table, grown
    <2> QED
      BY <2>1
  <1>7. Wrong = {}
    <2> SUFFICES ASSUME Wrong # {} PROVE FALSE
      OBVIOUS
    <2>1. PICK k \in Wrong : \A u \in Wrong : k <= u
      <3>1. Wrong \in SUBSET Nat
        OBVIOUS
      <3> HIDE DEF Wrong
      <3> QED
        BY <3>1, LeastExists
    <2>2. PICK s \in SUBSET (1 .. k) : ~Right(k, s)
      BY <2>1
    <2>3. k # 0
      <3> SUFFICES ASSUME k = 0 PROVE FALSE
        OBVIOUS
      <3>1. s = {} /\ s \in Sets
        BY <2>2
      <3>2. t[0][s] = base
        BY <1>5, <3>1
      <3> QED
        BY <2>2, <3>1, <3>2
    <2>4. k \in 1 .. L /\ k - 1 \in 0 .. L /\ k - 1 \notin Wrong /\ s \in Sets
      <3>1. k \in 0 .. L
        BY <2>1
      <3>2. k \in 1 .. L /\ k - 1 \in 0 .. L /\ s \in Sets
        BY <2>3, <3>1
      <3>3. k - 1 \notin Wrong
        <4> HIDE DEF Wrong
        <4> QED
          BY <2>1, <3>2
      <3> QED
        BY <3>2, <3>3
    <2>5. t[k] = grown(k, t[k - 1])
      BY <1>6, <2>4
    <2>6. \A r \in SUBSET (1 .. k - 1) : t[k][r] = t[k - 1][r] /\ Right(k - 1, r)
      <3> SUFFICES ASSUME NEW r \in SUBSET (1 .. k - 1)
                   PROVE  t[k][r] = t[k - 1][r] /\ Right(k - 1, r)
        OBVIOUS
      <3>1. r \in Sets /\ k \notin r
        BY <2>4
      <3>2. t[k][r] = t[k - 1][r]
        BY <2>5, <3>1
      <3> HIDE DEF Right
      <3>3. Right(k - 1, r)
        BY <2>4
      <3> QED
        BY <3>2, <3>3
    <2>7. CASE k \in s
      <3>1. Max(s) = k
        <4>1. Max(s) \in s /\ \A y \in s : y <= Max(s)
          BY <2>4, <2>7, MaxIsGreatest
        <4>2. Max(s) \in 1 .. k /\ k <= Max(s)
          BY <2>7, <4>1
        <4> QED
          BY <2>4, <4>2
      <3>2. t[k][s] = step[k][t[k - 1][s \ {k}]]
        BY <2>4, <2>5, <2>7
      <3>3. s \ {k} \in SUBSET (1 .. k - 1)
        BY <2>4
      <3>4. t[k][s \ {k}] = t[k - 1][s \ {k}]
        BY <2>6, <3>3
      <3> QED
        BY <2>2, <2>7, <3>1, <3>2, <3>4
    <2>8. CASE k \notin s
      <3>1. s \in SUBSET (1 .. k - 1)
        BY <2>4, <2>8
      <3>2. CASE s = {}
        BY <2>2, <2>6, <3>1, <3>2
      <3>3. CASE s # {}
        <4>1. s \ {Max(s)} \in SUBSET (1 .. k - 1)
          BY <3>1
        <4> QED
          BY <2>2, <2>6, <3>1, <3>3, <4>1
      <3> QED
        BY <3>2, <3>3
    <2> QED
      BY <2>7, <2>8
  <1>8. t[L] \in [SUBSET (1 .. L) -> T]
    <2>1. L \in 0 .. L
      OBVIOUS
    <2>2. t[L] \in Table
      <3> HIDE DEF Table
      <3> QED
        BY <1>5, <2>1
    <2> QED
      BY <2>2
  <1>9. ASSUME NEW s \in SUBSET (1 .. L) PROVE Right(L, s)
    <2>1. L \in 0 .. L
      OBVIOUS
    <2>2. L \notin Wrong
      <3> HIDE DEF Wrong
      <3> QED
        BY <1>7
    <2> HIDE DEF Right
    <2> QED
      BY <2>1, <2>2
  <1>10. FoldsOver(t[L], T, base, L, step)
    BY <1>8, <1>9 DEF FoldsOver
  <1> QED
    BY <1>10

\* What holds of the base and is kept by every position holds of the whole.
LEMMA FoldStays ==
  ASSUME NEW T, NEW L \in Nat, NEW g, g[{}] \in T,
         \A k \in 1 .. L : g[1 .. k - 1] \in T => g[1 .. k] \in T
  PROVE  g[1 .. L] \in T
  <1> DEFINE Outside == {k \in 0 .. L : g[1 .. k] \notin T}
  <1>1. Outside = {}
    <2> SUFFICES ASSUME Outside # {} PROVE FALSE
      OBVIOUS
    <2>1. PICK k \in Outside : \A u \in Outside : k <= u
      <3>1. Outside \in SUBSET Nat
        OBVIOUS
      <3> HIDE DEF Outside
      <3> QED
        BY <3>1, LeastExists
    <2>2. k \in 0 .. L /\ g[1 .. k] \notin T
      BY <2>1
    <2>3. k # 0
      <3>1. 1 .. 0 = {}
        OBVIOUS
      <3> QED
        BY <2>2, <3>1
    <2>4. k \in 1 .. L /\ k - 1 \in 0 .. L /\ ~(k <= k - 1)
      BY <2>2, <2>3
    <2>5. k - 1 \notin Outside
      <3> HIDE DEF Outside
      <3> QED
        BY <2>1, <2>4
    <2>6. g[1 .. k - 1] \in T
      BY <2>4, <2>5
    <2> QED
      BY <2>2, <2>4, <2>6
  <1>2. L \in 0 .. L
    OBVIOUS
  <1> QED
    BY <1>1, <1>2

\* The positions up to k are k and those before it.
LEMMA FirstPositions ==
  ASSUME NEW L \in Nat, NEW k \in 1 .. L
  PROVE  /\ 1 .. k \in SUBSET (1 .. L) /\ 1 .. k # {}
         /\ Max(1 .. k) = k
         /\ (1 .. k) \ {k} = 1 .. k - 1
  <1>1. 1 .. k \in SUBSET (1 .. L) /\ k \in 1 .. k
    OBVIOUS
  <1>2. Max(1 .. k) = k
    <2>1. Max(1 .. k) \in 1 .. k /\ k <= Max(1 .. k)
      BY <1>1, MaxIsGreatest
    <2> QED
      BY <2>1
  <1> QED
    BY <1>1, <1>2
-----------------------------------------------------------------------------
SoundProcs == {p \in Proc : p.x[0] = Zero /\ p.mem \in [Addr -> Byte]}

\* An instruction runs one function or two on the processor.
LEMMA SoundInstruction ==
  ASSUME NEW p, Sound(p), NEW w
  PROVE  Sound(runInstruction(p, w))
  <1> DEFINE seq == Calls(w)
  <1>1. PICK L \in Nat : DOMAIN seq = 1 .. L /\
          \A i \in 1 .. L : \A q : Sound(q) => Sound(Apply(q, seq[i], w))
    <2>1. CASE IsRV32E(w)
      <3>1. seq \in ShortSeq(Callable(w))
        BY <2>1, FullCalls DEF Calls
      <3>2. PICK L \in Nat : DOMAIN seq = 1 .. L /\ \A i \in 1 .. L : seq[i] \in Callable(w)
        <4>1. CASE seq = << >>
          <5>1. DOMAIN seq = 1 .. 0
            BY <4>1
          <5> HIDE DEF seq
          <5> QED
            BY <5>1
        <4>2. ASSUME NEW a \in Callable(w), seq = <<a>>
              PROVE \E L \in Nat :
                DOMAIN seq = 1 .. L /\ \A i \in 1 .. L : seq[i] \in Callable(w)
          <5>1. DOMAIN seq = 1 .. 1 /\ \A i \in 1 .. 1 : seq[i] \in Callable(w)
            BY <4>2
          <5> HIDE DEF seq
          <5> QED
            BY <5>1
        <4>3. ASSUME NEW a \in Callable(w), NEW b \in Callable(w), seq = <<a, b>>
              PROVE \E L \in Nat :
                DOMAIN seq = 1 .. L /\ \A i \in 1 .. L : seq[i] \in Callable(w)
          <5>1. DOMAIN seq = 1 .. 2 /\ \A i \in 1 .. 2 : seq[i] \in Callable(w)
            BY <4>3
          <5> HIDE DEF seq
          <5> QED
            BY <5>1
        <4> QED
          BY <3>1, <4>1, <4>2, <4>3 DEF ShortSeq
      <3> HIDE DEF seq
      <3> QED
        BY <2>1, <3>2, SoundFull
    <2>2. CASE ~IsRV32E(w) /\ decodeInstruction(w) \in CRunnable
      <3>1. seq = <<decodeInstruction(w)>>
        BY <2>2 DEF Calls
      <3>2. DOMAIN seq = 1 .. 1 /\ \A i \in 1 .. 1 : seq[i] \in CRunnable
        BY <2>2, <3>1
      <3> HIDE DEF seq
      <3> QED
        BY <2>2, <3>2, SoundCompressed
    <2>3. CASE ~IsRV32E(w) /\ decodeInstruction(w) \notin CRunnable
      <3>1. seq = << >>
        BY <2>3 DEF Calls
      <3>2. DOMAIN seq = 1 .. 0
        BY <3>1
      <3> HIDE DEF seq
      <3> QED
        BY <3>2
    <2> QED
      BY <2>1, <2>2, <2>3
  <1> DEFINE Solves(g) == g = [s \in SUBSET DOMAIN seq |->
                 IF s = {} THEN p ELSE Apply(g[s \ {Max(s)}], seq[Max(s)], w)]
             run == CHOOSE g : Solves(g)
  <1>2. runInstruction(p, w) = run[DOMAIN seq]
    BY DEF runInstruction, FoldLeft, MapThenFoldSet
  <1> HIDE DEF seq
  <1>3. \E g : Solves(g)
    <2> DEFINE step == [i \in 1 .. L |-> [q \in SoundProcs |-> Apply(q, seq[i], w)]]
    <2>1. step \in [1 .. L -> [SoundProcs -> SoundProcs]]
      BY <1>1 DEF SoundProcs, Sound
    <2>2. p \in SoundProcs
      BY DEF SoundProcs, Sound
    <2>3. PICK g : FoldsOver(g, SoundProcs, p, L, step)
      <3> HIDE DEF step
      <3> QED
        BY <2>1, <2>2, FoldExists
    <2>4. ASSUME NEW s \in SUBSET (1 .. L), s # {}
          PROVE  g[s] = Apply(g[s \ {Max(s)}], seq[Max(s)], w)
      <3>1. Max(s) \in 1 .. L
        BY <2>4, MaxIsGreatest
      <3>2. g[s \ {Max(s)}] \in SoundProcs /\ g[s] = step[Max(s)][g[s \ {Max(s)}]]
        BY <2>3, <2>4, Zenon DEF FoldsOver
      <3> QED
        BY <3>1, <3>2
    <2>5. /\ DOMAIN g = SUBSET (1 .. L)
          /\ g[{}] = p
          /\ g = [s \in DOMAIN g |-> g[s]]
      <3> HIDE DEF step
      <3> QED
        BY <2>3 DEF FoldsOver
    <2> HIDE DEF step
    <2>6. Solves(g)
      BY <1>1, <2>4, <2>5
    <2> QED
      BY <2>6
  <1>4. Solves(run)
    <2> HIDE DEF Solves
    <2> QED
      BY <1>3
  <1> HIDE DEF run
  <1>5. /\ run[{}] = p
        /\ \A s \in SUBSET (1 .. L) :
             s # {} => run[s] = Apply(run[s \ {Max(s)}], seq[Max(s)], w)
    BY <1>1, <1>4
  <1>6. \A k \in 1 .. L : run[1 .. k - 1] \in SoundProcs => run[1 .. k] \in SoundProcs
    <2> SUFFICES ASSUME NEW k \in 1 .. L, run[1 .. k - 1] \in SoundProcs
                 PROVE  run[1 .. k] \in SoundProcs
      OBVIOUS
    <2>1. run[1 .. k] = Apply(run[1 .. k - 1], seq[k], w)
      BY <1>5, FirstPositions
    <2> QED
      BY <1>1, <2>1 DEF SoundProcs, Sound
  <1>7. run[1 .. L] \in SoundProcs
    <2>1. run[{}] \in SoundProcs
      BY <1>5 DEF SoundProcs, Sound
    <2> QED
      BY <1>6, <2>1, FoldStays
  <1> QED
    BY <1>1, <1>2, <1>7 DEF SoundProcs, Sound

\* The words of a program go to memory one after the other.
LEMMA LoadedIsSound ==
  ASSUME NEW program \in Programs
  PROVE  Sound(loadProgramInMemory(program))
  <1> DEFINE base == [p |-> procInit, memOffset |-> 0]
             load(loaded, w) ==
               [p |-> procWriteMem(loaded.p, Lit(loaded.memOffset), w, Length(w)),
                memOffset |-> loaded.memOffset + Length(w)]
             T == [p : SoundProcs, memOffset : Nat]
             Solves(g) == g = [s \in SUBSET DOMAIN program |->
                 IF s = {} THEN base ELSE load(g[s \ {Max(s)}], program[Max(s)])]
             done == CHOOSE g : Solves(g)
  <1>1. loadProgramInMemory(program) = done[DOMAIN program].p
    BY DEF loadProgramInMemory, FoldLeft, MapThenFoldSet
  <1>2. PICK L \in Nat : DOMAIN program = 1 .. L
    BY ProgramAssumption
  <1>3. procInit \in SoundProcs
    BY DEF procInit, SoundProcs, Proc, Zero, Word, Byte, RegNum, PROC_REGSIZE
  <1>4. base \in T
    BY <1>3
  <1>5. \A loaded \in T : \A w : load(loaded, w) \in T
    <2> SUFFICES ASSUME NEW loaded \in T, NEW w PROVE load(loaded, w) \in T
      OBVIOUS
    <2>1. Length(w) \in {1, 2, 4}
      BY DEF Length
    <2>2. Sound(procWriteMem(loaded.p, Lit(loaded.memOffset), w, Length(w)))
      <3>1. Sound(loaded.p)
        BY DEF SoundProcs, Sound
      <3> QED
        BY <2>1, <3>1, SoundMemory
    <2> QED
      BY <2>1, <2>2 DEF SoundProcs, Sound
  <1> HIDE DEF base, load, T
  <1>6. \E g : Solves(g)
    <2> DEFINE step == [i \in 1 .. L |-> [loaded \in T |-> load(loaded, program[i])]]
    <2>1. step \in [1 .. L -> [T -> T]]
      BY <1>5
    <2>2. PICK g : FoldsOver(g, T, base, L, step)
      <3> HIDE DEF step
      <3> QED
        BY <1>4, <2>1, FoldExists
    <2>3. ASSUME NEW s \in SUBSET (1 .. L), s # {}
          PROVE  g[s] = load(g[s \ {Max(s)}], program[Max(s)])
      <3>1. Max(s) \in 1 .. L
        BY <2>3, MaxIsGreatest
      <3>2. g[s \ {Max(s)}] \in T /\ g[s] = step[Max(s)][g[s \ {Max(s)}]]
        BY <2>2, <2>3, Zenon DEF FoldsOver
      <3> QED
        BY <3>1, <3>2
    <2>4. /\ DOMAIN g = SUBSET (1 .. L)
          /\ g[{}] = base
          /\ g = [s \in DOMAIN g |-> g[s]]
      <3> HIDE DEF step
      <3> QED
        BY <2>2 DEF FoldsOver
    <2> HIDE DEF step
    <2>5. Solves(g)
      BY <1>2, <2>3, <2>4
    <2> QED
      BY <2>5
  <1>7. Solves(done)
    <2> HIDE DEF Solves
    <2> QED
      BY <1>6
  <1> HIDE DEF done
  <1>8. /\ done[{}] = base
        /\ \A s \in SUBSET (1 .. L) :
             s # {} => done[s] = load(done[s \ {Max(s)}], program[Max(s)])
    BY <1>2, <1>7
  <1>9. \A k \in 1 .. L : done[1 .. k - 1] \in T => done[1 .. k] \in T
    <2> SUFFICES ASSUME NEW k \in 1 .. L, done[1 .. k - 1] \in T PROVE done[1 .. k] \in T
      OBVIOUS
    <2>1. done[1 .. k] = load(done[1 .. k - 1], program[k])
      BY <1>8, FirstPositions
    <2> QED
      BY <1>5, <2>1
  <1>10. done[1 .. L] \in T
    BY <1>4, <1>8, <1>9, FoldStays
  <1> QED
    BY <1>1, <1>2, <1>10 DEF T, SoundProcs, Sound

LEMMA SoundUpdate ==
  ASSUME NEW p, Sound(p), NEW i, NEW st
  PROVE  /\ Sound(updatePC(p, i, st))
         /\ procDestroy(p) \in Proc /\ procDestroy(p).x[0] = Zero
  <1>1. Sound(updatePC(p, i, st))
    BY SoundJumps DEF updatePC
  <1>2. procDestroy(p) \in Proc /\ procDestroy(p).x[0] = Zero
    BY DEF Sound, procDestroy, Proc, Zero, Word, RegNum, PROC_REGSIZE
  <1> QED
    BY <1>1, <1>2

\* Whatever the program and the size of the memory: the program counter stays
\* in the memory, register x0 stays zero, every other register stays a word of
\* 32 bits and every byte of the memory a byte.
THEOREM SimTypeCorrect == SimSpec => []SimTypeOK
  <1> DEFINE Inv == /\ SimTypeOK
                    /\ \/ Sound(proc)
                       \/ simulatorState = STOP /\ proc.mem = NoMem
  <1>1. simulatorInit => Inv
    <2> SUFFICES ASSUME simulatorInit PROVE Inv
      OBVIOUS
    <2>1. Sound(proc) /\ simulatorState \in {RUN, STOP}
      BY LoadedIsSound DEF simulatorInit
    <2>2. proc \in Proc /\ proc.x[0] = Zero
      BY <2>1 DEF Sound
    <2>3. SimTypeOK
      BY <2>1, <2>2 DEF SimTypeOK
    <2> QED
      BY <2>1, <2>3, Zenon
  <1>2. Inv /\ [SimNext]_simVars => Inv'
    <2> SUFFICES ASSUME Inv, [SimNext]_simVars PROVE Inv'
      OBVIOUS
    <2>1. CASE Cycle
      <3>1. PICK i : /\ simulatorState' = StateAfter(simulatorState, i.inst)
                     /\ proc' = updatePC(runInstruction(proc, i.inst), i, simulatorState')
        BY <2>1 DEF Cycle
      <3>2. Sound(proc)
        BY <2>1 DEF Cycle, RUN, STOP
      <3>3. Sound(proc')
        BY <3>1, <3>2, SoundInstruction, SoundUpdate
      <3>4. proc' \in Proc /\ proc'.x[0] = Zero
        BY <3>3 DEF Sound
      <3>5. simulatorState' \in {RUN, STOP}
        BY <3>1 DEF SimTypeOK, StateAfter
      <3>6. SimTypeOK'
        BY <3>4, <3>5 DEF SimTypeOK
      <3> QED
        BY <3>3, <3>6 DEF Sound
    <2>2. CASE Destroy
      <3>1. proc' \in Proc /\ proc'.x[0] = Zero
        BY <2>2, SoundUpdate DEF Destroy
      <3>2. proc'.mem = NoMem
        BY <2>2 DEF Destroy, procDestroy
      <3> QED
        BY <2>2, <3>1, <3>2 DEF SimTypeOK, Destroy
    <2>3. CASE UNCHANGED simVars
      BY <2>3 DEF simVars, SimTypeOK, Sound
    <2> QED
      BY <2>1, <2>2, <2>3 DEF SimNext
  <1>3. Inv => SimTypeOK
    OBVIOUS
  <1> QED
    BY <1>1, <1>2, <1>3, PTL DEF SimSpec
-----------------------------------------------------------------------------
\* What a node of the list may be, and the prompts.
GoodNode == {n \in Node : n.inst \subseteq 0 .. 8 * n.instLen - 1}
Modes == {"step", "continue"}

\* Deleting every break point puts a few bytes into memory for each.
LEMMA UndoneIsSound ==
  ASSUME NEW p, Sound(p), NEW list \in Seq(GoodNode)
  PROVE  Sound(Undone(p, list))
  <1> DEFINE Solves(g) == g = [s \in SUBSET DOMAIN list |->
                 IF s = {} THEN p ELSE PutBack(g[s \ {Max(s)}], list[Max(s)])]
             done == CHOOSE g : Solves(g)
  <1>1. Undone(p, list) = done[DOMAIN list]
    BY DEF Undone, FoldLeft, MapThenFoldSet
  <1>2. PICK L \in Nat : DOMAIN list = 1 .. L
    OBVIOUS
  <1>3. p \in SoundProcs
    BY DEF SoundProcs, Sound
  <1>4. \A i \in 1 .. L : \A q \in SoundProcs : PutBack(q, list[i]) \in SoundProcs
    <2> SUFFICES ASSUME NEW i \in 1 .. L, NEW q \in SoundProcs
                 PROVE  PutBack(q, list[i]) \in SoundProcs
      OBVIOUS
    <2>1. list[i].instLen \in {1, 2, 4}
      <3>1. list[i] \in Node
        BY <1>2 DEF GoodNode
      <3> QED
        BY <3>1 DEF Node
    <2>2. Sound(q)
      BY DEF SoundProcs, Sound
    <2>3. Sound(PutBack(q, list[i]))
      BY <2>1, <2>2, SoundMemory DEF PutBack
    <2> QED
      BY <2>3 DEF SoundProcs, Sound
  <1>5. \E g : Solves(g)
    <2> DEFINE step == [i \in 1 .. L |-> [q \in SoundProcs |-> PutBack(q, list[i])]]
    <2>1. step \in [1 .. L -> [SoundProcs -> SoundProcs]]
      BY <1>4
    <2>2. PICK g : FoldsOver(g, SoundProcs, p, L, step)
      <3> HIDE DEF step
      <3> QED
        BY <1>3, <2>1, FoldExists
    <2>3. ASSUME NEW s \in SUBSET (1 .. L), s # {}
          PROVE  g[s] = PutBack(g[s \ {Max(s)}], list[Max(s)])
      <3>1. Max(s) \in 1 .. L
        BY <2>3, MaxIsGreatest
      <3>2. g[s \ {Max(s)}] \in SoundProcs /\ g[s] = step[Max(s)][g[s \ {Max(s)}]]
        BY <2>2, <2>3, Zenon DEF FoldsOver
      <3> QED
        BY <3>1, <3>2
    <2>4. /\ DOMAIN g = SUBSET (1 .. L)
          /\ g[{}] = p
          /\ g = [s \in DOMAIN g |-> g[s]]
      <3> HIDE DEF step
      <3> QED
        BY <2>2 DEF FoldsOver
    <2> HIDE DEF step
    <2>5. Solves(g)
      BY <1>2, <2>3, <2>4
    <2> QED
      BY <2>5
  <1>6. Solves(done)
    <2> HIDE DEF Solves
    <2> QED
      BY <1>5
  <1> HIDE DEF done
  <1>7. /\ done[{}] = p
        /\ \A s \in SUBSET (1 .. L) :
             s # {} => done[s] = PutBack(done[s \ {Max(s)}], list[Max(s)])
    BY <1>2, <1>6
  <1>8. \A k \in 1 .. L : done[1 .. k - 1] \in SoundProcs => done[1 .. k] \in SoundProcs
    <2> SUFFICES ASSUME NEW k \in 1 .. L, done[1 .. k - 1] \in SoundProcs
                 PROVE  done[1 .. k] \in SoundProcs
      OBVIOUS
    <2>1. done[1 .. k] = PutBack(done[1 .. k - 1], list[k])
      BY <1>7, FirstPositions
    <2> QED
      BY <1>4, <2>1
  <1>9. done[1 .. L] \in SoundProcs
    BY <1>3, <1>7, <1>8, FoldStays
  <1> QED
    BY <1>1, <1>2, <1>9 DEF SoundProcs, Sound

\* The prompt, the commands that wait around it, and the list; with them the
\* type invariant of the debugger is inductive.
PromptOK ==
  /\ simulatorState \in {RUN, STOP}
  /\ simulatorExecMode \in Modes
  /\ pending \in Seq(Modes)
  /\ at \in {"loop", "prompt", "ended"}
  /\ caller = "none" <=> at # "prompt"
  /\ pending # << >> => at = "prompt"

\* The memory is there until the session has ended.
DebugInv ==
  /\ IF at = "ended" THEN proc \in Proc ELSE Sound(proc)
  /\ breakList \in Seq(GoodNode)
  /\ PromptOK

LEMMA DebugInvTypes == DebugInv => DebugTypeOK
  <1> SUFFICES ASSUME DebugInv PROVE DebugTypeOK
    OBVIOUS
  <1>1. breakList \in Seq(Node)
    BY DEF DebugInv, GoodNode
  <1>2. \A k \in DOMAIN breakList : breakList[k] \in GoodNode
    BY DEF DebugInv
  <1>3. \A k \in DOMAIN breakList :
          breakList[k].inst \subseteq 0 .. 8 * breakList[k].instLen - 1
    BY <1>2 DEF GoodNode
  <1> QED
    BY <1>1, <1>3 DEF DebugInv, DebugTypeOK, PromptOK, Modes, Sound

LEMMA NodeIsListed ==
  ASSUME breakList \in Seq(GoodNode), NEW addr, NodeAt(addr) # 0
  PROVE  /\ NodeAt(addr) \in 1 .. Len(breakList) /\ breakList[NodeAt(addr)] \in GoodNode
         /\ breakList[NodeAt(addr)].addr = addr
  <1> DEFINE I == {i \in 1 .. Len(breakList) : breakList[i].addr = addr}
  <1>1. NodeAt(addr) = IF I # {} THEN Min(I) ELSE 0
    BY DEF NodeAt, SelectInSeq
  <1>2. I \in SUBSET Nat /\ I # {}
    BY <1>1
  <1>3. Min(I) \in I
    <2> HIDE DEF I
    <2> QED
      BY <1>2, MinIsLeast
  <1> QED
    BY <1>1, <1>2, <1>3

LEMMA GoodNodeFields ==
  ASSUME NEW n \in GoodNode
  PROVE  /\ n.addr \in Word /\ n.inst \in Word /\ n.instLen \in {1, 2, 4}
         /\ n.instLen \in {2, 4} /\ n.isEnabled \in BOOLEAN
         /\ n.inst \subseteq 0 .. 8 * n.instLen - 1
         /\ \A e \in BOOLEAN : [n EXCEPT !.isEnabled = e] \in GoodNode
  BY DEF GoodNode, Node

\* Putting a node back, or an ebreak over it.
LEMMA SoundNode ==
  ASSUME NEW p, Sound(p), NEW n \in GoodNode
  PROVE  /\ Sound(PutBack(p, n))
         /\ \A addr, data : Sound(procWriteMem(p, addr, data, n.instLen))
  BY GoodNodeFields, SoundMemory DEF PutBack

\* The operations of the list.
LEMMA ListIsKept ==
  ASSUME DebugInv, ListCmd(\/ breakListRemoveAll \/ breakListDisableAll \/ breakListEnableAll
                           \/ \E addr : \/ breakListRemove(addr)
                                         \/ breakListDisable(addr)
                                         \/ breakListEnable(addr))
  PROVE  DebugInv'
  <1>1. PromptOK'
    BY DEF DebugInv, PromptOK, ListCmd
  <1>2. at # "ended" /\ Sound(proc) /\ breakList \in Seq(GoodNode)
    BY DEF DebugInv, ListCmd
  <1>3. CASE breakListRemoveAll
    <2>1. Sound(proc')
      BY <1>2, <1>3, UndoneIsSound DEF breakListRemoveAll
    <2>2. breakList' \in Seq(GoodNode)
      BY <1>3 DEF breakListRemoveAll
    <2> QED
      BY <1>1, <2>1, <2>2 DEF DebugInv, Sound
  <1>4. ASSUME NEW e \in BOOLEAN, breakList' = SetAll(e), proc' = proc PROVE DebugInv'
    <2>1. DOMAIN breakList = 1 .. Len(breakList) /\ Len(breakList) \in Nat
      BY <1>2
    <2>2. \A k \in 1 .. Len(breakList) : [breakList[k] EXCEPT !.isEnabled = e] \in GoodNode
      BY <1>2, GoodNodeFields
    <2>3. breakList' \in Seq(GoodNode)
      BY <1>4, <2>1, <2>2 DEF SetAll
    <2> QED
      BY <1>1, <1>2, <1>4, <2>3 DEF DebugInv, Sound
  <1>5. ASSUME NEW addr, breakListRemove(addr) PROVE DebugInv'
    <2> DEFINE k == NodeAt(addr)
    <2>1. k \in 1 .. Len(breakList) /\ breakList[k] \in GoodNode
      BY <1>2, <1>5, NodeIsListed DEF breakListRemove
    <2>2. Sound(proc')
      BY <1>2, <1>5, <2>1, SoundNode DEF breakListRemove
    <2>3. breakList' = SubSeq(breakList, 1, k - 1) \o SubSeq(breakList, k + 1, Len(breakList))
      BY <1>5 DEF breakListRemove, RemoveAt
    <2> HIDE DEF k
    <2>4. /\ SubSeq(breakList, 1, k - 1) \in Seq(GoodNode)
          /\ SubSeq(breakList, k + 1, Len(breakList)) \in Seq(GoodNode)
      <3>1. Len(breakList) \in Nat /\ \A i \in 1 .. Len(breakList) : breakList[i] \in GoodNode
        BY <1>2
      <3>2. /\ 1 \in Int /\ k - 1 \in Int /\ k + 1 \in Int /\ Len(breakList) \in Int
            /\ \A i \in 1 .. k - 1 : breakList[i] \in GoodNode
            /\ \A i \in k + 1 .. Len(breakList) : breakList[i] \in GoodNode
        BY <2>1, <3>1
      <3> QED
        BY <3>2, SubSeqProperties
    <2>5. breakList' \in Seq(GoodNode)
      BY <2>3, <2>4, ConcatProperties
    <2> QED
      BY <1>1, <2>2, <2>5 DEF DebugInv, Sound
  <1>6. ASSUME NEW addr, breakListDisable(addr) \/ breakListEnable(addr) PROVE DebugInv'
    <2> DEFINE k == NodeAt(addr)
    <2>1. k \in 1 .. Len(breakList) /\ breakList[k] \in GoodNode
      BY <1>2, <1>6, NodeIsListed DEF breakListDisable, breakListEnable
    <2>2. Sound(proc')
      <3>1. \/ proc' = PutBack(proc, breakList[k])
            \/ \E data : proc' = procWriteMem(proc, addr, data, breakList[k].instLen)
        BY <1>6 DEF breakListDisable, breakListEnable
      <3> HIDE DEF k
      <3> QED
        BY <1>2, <2>1, <3>1, SoundNode
    <2>3. PICK e \in BOOLEAN : breakList' = [breakList EXCEPT ![k].isEnabled = e]
      BY <1>6 DEF breakListDisable, breakListEnable
    <2> HIDE DEF k
    <2>4. breakList' = [breakList EXCEPT ![k] = [breakList[k] EXCEPT !.isEnabled = e]]
      BY <2>3
    <2>5. breakList' \in Seq(GoodNode)
      BY <1>2, <2>1, <2>4, GoodNodeFields, ExceptSeq
    <2> QED
      BY <1>1, <2>2, <2>5 DEF DebugInv, Sound
  <1> QED
    BY <1>3, <1>4, <1>5, <1>6 DEF ListCmd, breakListDisableAll, breakListEnableAll

LEMMA CreatedNode ==
  ASSUME NEW p, Sound(p), NEW a
  PROVE  breakNodeCreate(p, Lit(a)) \in GoodNode
  <1> DEFINE inst == procReadMem(p, Lit(a), 4)
             len == Length(inst)
  <1>1. inst \in Word
    BY SoundMemory
  <1>2. len \in {2, 4}
    BY DEF Length
  <1>3. breakNodeCreate(p, Lit(a)) =
          [addr |-> Lit(a), inst |-> Field(inst, 8 * len - 1, 0), instLen |-> len,
           isEnabled |-> TRUE]
    BY DEF breakNodeCreate
  <1>4. Lit(a) \in Word
    BY SmallWords
  <1> HIDE DEF inst, len
  <1>5. /\ Field(inst, 8 * len - 1, 0) \in Word
        /\ Field(inst, 8 * len - 1, 0) \subseteq 0 .. 8 * len - 1
    BY <1>1, <1>2 DEF Field, Word, Bit, XLEN
  <1> QED
    BY <1>2, <1>3, <1>4, <1>5 DEF GoodNode, Node

\* The simulator executes an instruction: the break points stay as they are.
LEMMA ExecuteIsSound ==
  ASSUME NEW p, Sound(p), NEW i, NEW st \in {RUN, STOP}, Execute(p, i, st)
  PROVE  /\ Sound(proc)' /\ simulatorState' \in {RUN, STOP}
         /\ \/ at' = "prompt" /\ caller' = "execute"
            \/ at' = "loop" /\ caller' = "none"
  <1>1. CASE CallsEbreak(i.inst)
    BY <1>1 DEF Execute, Sound
  <1>2. CASE ~CallsEbreak(i.inst)
    <2>1. /\ at' = "loop" /\ caller' = "none"
          /\ simulatorState' = StateAfter(st, i.inst)
          /\ proc' = updatePC(runInstruction(p, i.inst), i, simulatorState')
      BY <1>2 DEF Execute
    <2>2. Sound(proc')
      BY <2>1, SoundInstruction, SoundUpdate
    <2> QED
      BY <2>1, <2>2 DEF StateAfter, Sound
  <1> QED
    BY <1>1, <1>2

LEMMA LeaveIsSound ==
  ASSUME DebugInv, NEW p, Sound(p), NEW st \in {RUN, STOP}, NEW mode \in Modes,
         Leave(p, st, mode)
  PROVE  DebugInv'
  <1>1. /\ simulatorExecMode' \in Modes /\ pending' = << >> /\ pending' \in Seq(Modes)
        /\ breakList' \in Seq(GoodNode)
    <2>1. simulatorExecMode' = IF pending = << >> THEN mode ELSE Head(pending)
      BY DEF Leave
    <2>2. pending # << >> => Head(pending) \in Modes
      BY HeadTailProperties DEF DebugInv, PromptOK
    <2> QED
      BY <2>1, <2>2 DEF DebugInv, Leave
  <1>2. /\ Sound(proc)' /\ simulatorState' \in {RUN, STOP}
        /\ \/ at' = "prompt" /\ caller' = "execute"
           \/ at' = "loop" /\ caller' = "none"
    <2>1. CASE caller = "loop"
      BY <2>1, ExecuteIsSound DEF Leave
    <2>2. CASE caller # "loop"
      <3>1. Sound(updatePC(p, simulatorInst, st))
        BY SoundUpdate
      <3> QED
        BY <2>2, <3>1 DEF Leave, Sound
    <2> QED
      BY <2>1, <2>2
  <1> QED
    BY <1>1, <1>2 DEF DebugInv, PromptOK, Sound

LEMMA RunIsSound ==
  ASSUME DebugInv, NEW mode \in Modes, RunCmd(mode)
  PROVE  DebugInv'
  <1> DEFINE saved == breakListGetInstruction(proc.pc)
  <1>1. Sound(proc) /\ simulatorState \in {RUN, STOP}
    BY DEF DebugInv, PromptOK, RunCmd
  <1>2. CASE saved = Zero
    <2>1. Leave(proc, simulatorState, mode)
      BY <1>2 DEF RunCmd
    <2> QED
      BY <1>1, <2>1, LeaveIsSound
  <1>3. CASE saved # Zero /\ CallsEbreak(saved)
    <2>1. /\ at = "prompt" /\ pending' = Append(pending, mode)
          /\ UNCHANGED <<proc, simulatorState, simulatorInst, simulatorExecMode,
                         breakList, at, caller>>
      BY <1>3 DEF RunCmd
    <2>2. pending' \in Seq(Modes)
      BY <2>1, AppendProperties DEF DebugInv, PromptOK
    <2> QED
      BY <2>1, <2>2 DEF DebugInv, PromptOK, Sound
  <1>4. CASE saved # Zero /\ ~CallsEbreak(saved)
    <2>1. Leave(runInstruction(proc, saved), StateAfter(simulatorState, saved), mode)
      BY <1>4 DEF RunCmd
    <2>2. Sound(runInstruction(proc, saved))
      BY <1>1, SoundInstruction
    <2>3. StateAfter(simulatorState, saved) \in {RUN, STOP}
      BY <1>1 DEF StateAfter
    <2> QED
      BY <2>1, <2>2, <2>3, LeaveIsSound
  <1> QED
    BY <1>2, <1>3, <1>4

LEMMA DebugInvIsInductive == DebugInv /\ [DebugNext]_dbgVars => DebugInv'
  <1> SUFFICES ASSUME DebugInv, [DebugNext]_dbgVars PROVE DebugInv'
    OBVIOUS
  <1>1. /\ at # "ended" => Sound(proc)
        /\ breakList \in Seq(GoodNode) /\ PromptOK
        /\ simulatorState \in {RUN, STOP} /\ simulatorExecMode \in Modes
    BY DEF DebugInv, PromptOK
  <1>2. CASE Turn
    <2>1. PICK i : IF simulatorExecMode = "step"
                   THEN /\ at' = "prompt" /\ caller' = "loop"
                        /\ UNCHANGED <<proc, simulatorState>>
                   ELSE Execute(proc, i, simulatorState)
      BY <1>2 DEF Turn
    <2>2. /\ Sound(proc)' /\ simulatorState' \in {RUN, STOP}
          /\ \/ at' = "prompt" /\ caller' \in {"loop", "execute"}
             \/ at' = "loop" /\ caller' = "none"
      <3>1. CASE simulatorExecMode = "step"
        BY <1>1, <1>2, <2>1, <3>1 DEF Sound, Turn
      <3>2. CASE simulatorExecMode # "step"
        BY <1>1, <1>2, <2>1, <3>2, ExecuteIsSound DEF Turn
      <3> QED
        BY <3>1, <3>2
    <2>3. at = "loop" /\ UNCHANGED <<simulatorExecMode, breakList, pending>>
      BY <1>2 DEF Turn
    <2> QED
      BY <1>1, <2>2, <2>3 DEF DebugInv, PromptOK, Sound
  <1>3. CASE End
    <2>1. Sound(Undone(proc, breakList))
      BY <1>1, <1>3, UndoneIsSound DEF End
    <2>2. proc' \in Proc
      BY <1>3, <2>1, SoundUpdate DEF End
    <2> QED
      BY <1>1, <1>3, <2>2 DEF End, DebugInv, PromptOK
  <1>4. CASE stepCmd \/ continueCmd
    BY <1>4, RunIsSound DEF stepCmd, continueCmd, Modes
  <1>5. CASE exitCmd
    BY <1>1, <1>5, LeaveIsSound DEF exitCmd
  <1>6. CASE deleteCmd \/ disableCmd \/ enableCmd
    <2>1. ListCmd(\/ breakListRemoveAll \/ breakListDisableAll \/ breakListEnableAll
                  \/ \E addr : \/ breakListRemove(addr)
                                \/ breakListDisable(addr)
                                \/ breakListEnable(addr))
      BY <1>6, Zenon DEF deleteCmd, disableCmd, enableCmd, ListCmd
    <2> QED
      BY <2>1, ListIsKept
  <1>7. ASSUME NEW a \in BreakAddrs, breakCmd(a) PROVE DebugInv'
    <2> DEFINE node == breakNodeCreate(proc, Lit(a))
    <2>1. Sound(proc) /\ node \in GoodNode
      BY <1>1, <1>7, CreatedNode DEF breakCmd
    <2>2. /\ proc' = procWriteMem(proc, node.addr, EbreakOf(node.instLen), node.instLen)
          /\ breakList' = Append(breakList, node)
          /\ UNCHANGED <<simulatorState, simulatorInst, simulatorExecMode, at, caller, pending>>
      BY <1>7 DEF breakCmd, breakListAppend
    <2> HIDE DEF node
    <2>3. Sound(proc')
      BY <2>1, <2>2, SoundNode
    <2>4. breakList' \in Seq(GoodNode)
      BY <1>1, <2>1, <2>2, AppendProperties
    <2> QED
      BY <1>1, <2>2, <2>3, <2>4 DEF DebugInv, PromptOK, Sound
  <1>8. ASSUME NEW a \in JumpAddrs, jumpCmd(a) PROVE DebugInv'
    <2>1. Sound(proc')
      BY <1>1, <1>8, SoundJumps DEF jumpCmd
    <2> QED
      BY <1>1, <1>8, <2>1 DEF jumpCmd, DebugInv, PromptOK, Sound
  <1>9. ASSUME NEW e \in Writes, writeCmd(e[1], e[2]) PROVE DebugInv'
    <2>1. Sound(proc')
      BY <1>1, <1>9, SoundMemory DEF writeCmd
    <2> QED
      BY <1>1, <1>9, <2>1 DEF writeCmd, DebugInv, PromptOK, Sound
  <1>10. CASE UNCHANGED dbgVars
    BY <1>1, <1>10 DEF dbgVars, DebugInv, PromptOK, Sound
  <1> QED
    BY <1>2, <1>3, <1>4, <1>5, <1>6, <1>7, <1>8, <1>9, <1>10 DEF DebugNext, Command

LEMMA DebugInitIsSound == DebugInit => DebugInv
  <1> SUFFICES ASSUME DebugInit PROVE DebugInv
    OBVIOUS
  <1>1. Sound(proc) /\ simulatorState \in {RUN, STOP}
    BY LoadedIsSound DEF DebugInit, simulatorInit
  <1> QED
    BY <1>1 DEF DebugInit, DebugInv, PromptOK, Modes

\* Whatever the user types, careful or not: the processor stays one, a node of
\* the list keeps no more than the bytes it replaces, the prompt has one caller
\* and a command waits only inside a prompt.
THEOREM DebugTypeCorrect == DebugSpec => []DebugTypeOK
  BY DebugInitIsSound, DebugInvIsInductive, DebugInvTypes, PTL DEF DebugSpec
-----------------------------------------------------------------------------
\* BreakpointsHold, of any processor and list.
Reads(p, n) == procReadMem(p, n.addr, n.instLen)

Held(p, list) ==
  \A k \in DOMAIN list :
    /\ Reads(p, list[k]) \in {list[k].inst, EbreakOf(list[k].instLen)}
    /\ \A j \in DOMAIN list \ {k} : Covered(list[k]) \cap Covered(list[j]) = {}

LEMMA HeldIsBreakpointsHold == BreakpointsHold <=> (Careful => Held(proc, breakList))
  BY DEF BreakpointsHold, Held, Reads

LEMMA SameNode ==
  ASSUME NEW p, NEW q, NEW n, n.instLen \in {1, 2, 4},
         \A b \in Covered(n) : q.mem[b] = p.mem[b]
  PROVE  Reads(q, n) = Reads(p, n)
  <1> DEFINE a == n.addr
             l == n.instLen
  <1>1. l \in {1, 2, 4} /\ \A b \in BytesAt(a, l) : q.mem[b] = p.mem[b]
    BY DEF Covered
  <1>2. Reads(q, n) = procReadMem(q, a, l) /\ Reads(p, n) = procReadMem(p, a, l)
    BY DEF Reads
  <1> HIDE DEF a, l
  <1> QED
    BY <1>1, <1>2, SameRead

\* What leaves the covered bytes alone leaves the break points alone.
LEMMA SparedIsHeld ==
  ASSUME NEW p, NEW q, NEW list \in Seq(GoodNode), Held(p, list),
         \A k \in DOMAIN list : \A b \in Covered(list[k]) : q.mem[b] = p.mem[b]
  PROVE  Held(q, list)
  <1>1. ASSUME NEW k \in DOMAIN list PROVE Reads(q, list[k]) = Reads(p, list[k])
    <2>1. list[k].instLen \in {1, 2, 4}
      <3>1. list[k] \in GoodNode
        OBVIOUS
      <3> QED
        BY <3>1, GoodNodeFields
    <2> QED
      BY <2>1, SameNode
  <1> QED
    BY <1>1 DEF Held

\* Either of the two contents, written over a node, is read there again.
LEMMA ReadOver ==
  ASSUME NEW p, Sound(p), NEW n \in GoodNode, NEW data \in {n.inst, EbreakOf(n.instLen)}
  PROVE  LET q == procWriteMem(p, n.addr, data, n.instLen)
         IN  /\ Reads(q, n) = data
             /\ \A b \in Addr \ Covered(n) : q.mem[b] = p.mem[b]
  <1>1. n.instLen \in {2, 4} /\ n.instLen \in {1, 2, 4} /\ n.inst \subseteq 0 .. 8 * n.instLen - 1
    BY GoodNodeFields
  <1>2. EbreakOf(n.instLen) \subseteq 0 .. 8 * n.instLen - 1
    BY <1>1 DEF EbreakOf, EBREAK, C_EBREAK
  <1>3. data \cap (0 .. 8 * n.instLen - 1) = data
    BY <1>1, <1>2
  <1> DEFINE a == n.addr
             l == n.instLen
             q == procWriteMem(p, a, data, l)
  <1>4. Reads(q, n) = procReadMem(q, a, l) /\ Covered(n) = BytesAt(a, l)
    BY DEF Reads, Covered
  <1>5. l \in {1, 2, 4} /\ data \cap (0 .. 8 * l - 1) = data
    BY <1>1, <1>3
  <1> HIDE DEF a, l
  <1>6. procReadMem(q, a, l) = data
    <2> DEFINE All(m) == \A x, d :
          procReadMem(procWriteMem(p, x, d, m), x, m) = d \cap (0 .. 8 * m - 1)
    <2>1. \A m \in {1, 2, 4} : All(m)
      BY ReadBack
    <2>2. All(l)
      <3> HIDE DEF All
      <3> QED
        BY <1>5, <2>1
    <2>3. procReadMem(q, a, l) = data \cap (0 .. 8 * l - 1)
      BY <2>2
    <2> QED
      BY <1>5, <2>3
  <1>7. \A b \in Addr \ BytesAt(a, l) : q.mem[b] = p.mem[b]
    BY <1>5, WriteContents
  <1> QED
    BY <1>4, <1>6, <1>7 DEF a, l

LEMMA CoveredIsInMemory ==
  ASSUME NEW n \in GoodNode
  PROVE  Covered(n) \subseteq Addr
  <1>1. AddrOf(n.addr) \in Nat /\ n.instLen \in {1, 2, 4}
    BY AddressIsNat, GoodNodeFields
  <1>2. \A i \in 0 .. n.instLen - 1 : AddrOf(n.addr) + i \in Nat
    BY <1>1
  <1>3. \A i \in 0 .. n.instLen - 1 : (AddrOf(n.addr) + i) % PROC_MEMSIZE \in Addr
    BY <1>2, AddressWraps
  <1> QED
    BY <1>3 DEF Covered, BytesAt

LEMMA OverNodeIsHeld ==
  ASSUME NEW p, Sound(p), NEW list \in Seq(GoodNode), Held(p, list), NEW k \in DOMAIN list,
         NEW data \in {list[k].inst, EbreakOf(list[k].instLen)}
  PROVE  Held(procWriteMem(p, list[k].addr, data, list[k].instLen), list)
  <1> DEFINE q == procWriteMem(p, list[k].addr, data, list[k].instLen)
  <1>1. \A i \in DOMAIN list : list[i] \in GoodNode
    OBVIOUS
  <1>2. Reads(q, list[k]) = data /\ \A b \in Addr \ Covered(list[k]) : q.mem[b] = p.mem[b]
    BY <1>1, ReadOver
  <1> HIDE DEF q
  <1>3. ASSUME NEW i \in DOMAIN list
        PROVE  Reads(q, list[i]) \in {list[i].inst, EbreakOf(list[i].instLen)}
    <2>1. CASE i = k
      BY <1>2, <2>1
    <2>2. CASE i # k
      <3>1. Covered(list[i]) \cap Covered(list[k]) = {}
        BY <2>2 DEF Held
      <3>2. \A b \in Covered(list[i]) : q.mem[b] = p.mem[b]
        BY <1>1, <1>2, <3>1, CoveredIsInMemory
      <3>3. list[i].instLen \in {1, 2, 4}
        BY <1>1, GoodNodeFields
      <3>4. Reads(q, list[i]) = Reads(p, list[i])
        BY <3>2, <3>3, SameNode
      <3> QED
        BY <3>4 DEF Held
    <2> QED
      BY <2>1, <2>2
  <1> QED
    BY <1>3 DEF Held, q

\* A list of some of the nodes, with the flag as it may be.
LEMMA FewerAreHeld ==
  ASSUME NEW p, NEW list, Held(p, list), NEW few, NEW f \in [DOMAIN few -> DOMAIN list],
         \A i, j \in DOMAIN few : f[i] = f[j] => i = j,
         \A i \in DOMAIN few : /\ few[i].addr = list[f[i]].addr
                               /\ few[i].inst = list[f[i]].inst
                               /\ few[i].instLen = list[f[i]].instLen
  PROVE  Held(p, few)
  <1>1. ASSUME NEW i \in DOMAIN few
        PROVE  Reads(p, few[i]) \in {few[i].inst, EbreakOf(few[i].instLen)}
    BY DEF Held, Reads
  <1>2. \A i \in DOMAIN few : Covered(few[i]) = Covered(list[f[i]])
    BY DEF Covered
  <1>3. ASSUME NEW i \in DOMAIN few, NEW j \in DOMAIN few \ {i}
        PROVE  Covered(few[i]) \cap Covered(few[j]) = {}
    <2>1. f[i] \in DOMAIN list /\ f[j] \in DOMAIN list \ {f[i]}
      OBVIOUS
    <2> QED
      BY <1>2, <2>1 DEF Held
  <1> QED
    BY <1>1, <1>3 DEF Held

LEMMA OneMoreIsHeld ==
  ASSUME NEW p, Sound(p), NEW list \in Seq(GoodNode), Held(p, list), NEW n \in GoodNode,
         \A k \in DOMAIN list : Covered(n) \cap Covered(list[k]) = {}
  PROVE  Held(procWriteMem(p, n.addr, EbreakOf(n.instLen), n.instLen), Append(list, n))
  <1> DEFINE q == procWriteMem(p, n.addr, EbreakOf(n.instLen), n.instLen)
             more == Append(list, n)
             L == Len(list)
  <1>1. Reads(q, n) = EbreakOf(n.instLen) /\ \A b \in Addr \ Covered(n) : q.mem[b] = p.mem[b]
    BY ReadOver
  <1>2. \A k \in DOMAIN list : list[k] \in GoodNode
    OBVIOUS
  <1> HIDE DEF q
  <1>3. Held(q, list)
    <2>1. \A k \in DOMAIN list : \A b \in Covered(list[k]) : q.mem[b] = p.mem[b]
      BY <1>1, <1>2, CoveredIsInMemory
    <2> QED
      BY <2>1, SparedIsHeld
  <1>4. /\ L \in Nat /\ DOMAIN list = 1 .. L /\ DOMAIN more = 1 .. L + 1
        /\ more[L + 1] = n /\ \A k \in 1 .. L : more[k] = list[k]
    OBVIOUS
  <1> HIDE DEF more, L
  <1>5. \A k \in 1 .. L + 1 : Reads(q, more[k]) \in {more[k].inst, EbreakOf(more[k].instLen)}
    <2>1. \A k \in 1 .. L : Reads(q, more[k]) \in {more[k].inst, EbreakOf(more[k].instLen)}
      BY <1>3, <1>4 DEF Held
    <2>2. \A k \in 1 .. L + 1 : k \in 1 .. L \/ k = L + 1
      BY <1>4
    <2> QED
      BY <1>1, <1>4, <2>1, <2>2
  <1>6. ASSUME NEW k \in 1 .. L + 1, NEW j \in (1 .. L + 1) \ {k}
        PROVE  Covered(more[k]) \cap Covered(more[j]) = {}
    <2>1. CASE k \in 1 .. L /\ j \in 1 .. L
      BY <1>3, <1>4, <2>1 DEF Held
    <2>2. CASE k = L + 1 /\ j \in 1 .. L
      BY <1>4, <2>2
    <2>3. CASE k \in 1 .. L /\ j = L + 1
      BY <1>4, <2>3
    <2> QED
      BY <1>4, <2>1, <2>2, <2>3
  <1> QED
    BY <1>4, <1>5, <1>6 DEF Held, q, more
-----------------------------------------------------------------------------
\* The commands on the list keep the break points.
LEMMA ListCommandsHold ==
  ASSUME DebugInv, Held(proc, breakList),
         ListCmd(\/ breakListRemoveAll \/ breakListDisableAll \/ breakListEnableAll
                 \/ \E addr : \/ breakListRemove(addr)
                               \/ breakListDisable(addr)
                               \/ breakListEnable(addr))
  PROVE  Held(proc', breakList')
  <1>1. Sound(proc) /\ breakList \in Seq(GoodNode)
    BY DEF DebugInv, ListCmd
  <1>2. DOMAIN breakList = 1 .. Len(breakList) /\ Len(breakList) \in Nat
    BY <1>1
  <1>3. CASE breakListRemoveAll
    BY <1>3 DEF breakListRemoveAll, Held
  <1> DEFINE same == [i \in DOMAIN breakList |-> i]
  <1>4. ASSUME NEW e, breakList' = SetAll(e), proc' = proc PROVE Held(proc', breakList')
    <2>1. DOMAIN breakList' = DOMAIN breakList
      BY <1>4 DEF SetAll
    <2>2. \A i \in DOMAIN breakList : breakList'[i] = [breakList[i] EXCEPT !.isEnabled = e]
      BY <1>4 DEF SetAll
    <2>3. \A i \in DOMAIN breakList : breakList[i] \in Node
      BY <1>1 DEF GoodNode
    <2>4. \A i \in DOMAIN breakList : /\ breakList'[i].addr = breakList[i].addr
                                     /\ breakList'[i].inst = breakList[i].inst
                                     /\ breakList'[i].instLen = breakList[i].instLen
      BY <2>2, <2>3 DEF Node
    <2>5. /\ same \in [DOMAIN breakList' -> DOMAIN breakList]
          /\ \A i \in DOMAIN breakList : same[i] = i
      BY <2>1
    <2> HIDE DEF same
    <2> QED
      BY <1>4, <2>1, <2>4, <2>5, FewerAreHeld
  <1>5. ASSUME NEW addr, breakListRemove(addr) PROVE Held(proc', breakList')
    <2> DEFINE k == NodeAt(addr)
               L == Len(breakList)
               kept == [i \in 1 .. L - 1 |-> IF i < k THEN i ELSE i + 1]
    <2>1. k \in 1 .. L
      BY <1>1, <1>5, NodeIsListed DEF breakListRemove
    <2>2. proc' = procWriteMem(proc, breakList[k].addr, breakList[k].inst, breakList[k].instLen)
      BY <1>5 DEF breakListRemove, PutBack
    <2>3. breakList' = SubSeq(breakList, 1, k - 1) \o SubSeq(breakList, k + 1, L)
      BY <1>5 DEF breakListRemove, RemoveAt
    <2> HIDE DEF k
    <2>4. Held(proc', breakList)
      BY <1>1, <1>2, <2>1, <2>2, OverNodeIsHeld
    <2> DEFINE before == SubSeq(breakList, 1, k - 1)
               after  == SubSeq(breakList, k + 1, L)
    <2>5. /\ before \in Seq(GoodNode) /\ Len(before) = k - 1
          /\ \A i \in 1 .. k - 1 : before[i] = breakList[i]
          /\ after \in Seq(GoodNode) /\ Len(after) = L - k
          /\ \A i \in 1 .. L - k : after[i] = breakList[k + i]
      <3>1. /\ 1 \in Int /\ k - 1 \in Int /\ k + 1 \in Int /\ L \in Int
            /\ \A i \in 1 .. k - 1 : breakList[i] \in GoodNode
            /\ \A i \in k + 1 .. L : breakList[i] \in GoodNode
        BY <1>1, <1>2, <2>1
      <3>2. /\ before \in Seq(GoodNode)
            /\ Len(before) = IF 1 <= k - 1 THEN k - 1 - 1 + 1 ELSE 0
            /\ \A i \in 1 .. k - 1 - 1 + 1 : before[i] = breakList[1 + i - 1]
        BY <3>1, SubSeqProperties
      <3>3. /\ after \in Seq(GoodNode)
            /\ Len(after) = IF k + 1 <= L THEN L - (k + 1) + 1 ELSE 0
            /\ \A i \in 1 .. L - (k + 1) + 1 : after[i] = breakList[k + 1 + i - 1]
        BY <3>1, SubSeqProperties
      <3>4. /\ L \in Int /\ k \in Int /\ 1 <= k /\ k <= L
            /\ k - 1 - 1 + 1 = k - 1 /\ L - (k + 1) + 1 = L - k
        BY <1>2, <2>1
      <3> HIDE DEF before, after, L
      <3>5. Len(before) = k - 1 /\ Len(after) = L - k
        BY <3>2, <3>3, <3>4
      <3>6. \A i \in 1 .. k - 1 : before[i] = breakList[i]
        <4>1. \A i \in 1 .. k - 1 : 1 + i - 1 = i
          BY <3>4
        <4> QED
          BY <3>2, <3>4, <4>1
      <3>7. \A i \in 1 .. L - k : after[i] = breakList[k + i]
        <4>1. \A i \in 1 .. L - k : k + 1 + i - 1 = k + i
          BY <3>4
        <4> QED
          BY <3>3, <3>4, <4>1
      <3> QED
        BY <3>2, <3>3, <3>5, <3>6, <3>7
    <2> HIDE DEF before, after
    <2>6. /\ breakList' \in Seq(GoodNode) /\ Len(breakList') = L - 1
          /\ \A i \in 1 .. L - 1 :
               breakList'[i] = IF i <= k - 1 THEN before[i] ELSE after[i - (k - 1)]
      <3>1. breakList' = before \o after
        BY <2>3 DEF before, after
      <3>2. Len(before) + Len(after) = L - 1
        BY <1>2, <2>1, <2>5
      <3> QED
        BY <2>5, <3>1, <3>2, ConcatProperties
    <2>7. DOMAIN breakList' = 1 .. L - 1
      BY <2>6
    <2>8. kept \in [1 .. L - 1 -> 1 .. L]
      BY <1>2, <2>1
    <2>9. \A i, j \in 1 .. L - 1 : kept[i] = kept[j] => i = j
      BY <1>2, <2>1
    <2>10. \A i \in 1 .. L - 1 : breakList'[i] = breakList[kept[i]]
      <3> SUFFICES ASSUME NEW i \in 1 .. L - 1 PROVE breakList'[i] = breakList[kept[i]]
        OBVIOUS
      <3>1. CASE i < k
        <4>1. i \in 1 .. k - 1 /\ i <= k - 1 /\ kept[i] = i
          BY <2>1, <3>1
        <4> QED
          BY <2>5, <2>6, <4>1
      <3>2. CASE ~(i < k)
        <4>1. /\ i - (k - 1) \in 1 .. L - k /\ ~(i <= k - 1) /\ kept[i] = i + 1
              /\ k + (i - (k - 1)) = i + 1
          BY <1>2, <2>1, <3>2
        <4>2. after[i - (k - 1)] = breakList[k + (i - (k - 1))]
          BY <2>5, <4>1
        <4> QED
          BY <2>6, <4>1, <4>2
      <3> QED
        BY <3>1, <3>2
    <2> HIDE DEF kept
    <2> QED
      BY <1>2, <2>4, <2>7, <2>8, <2>9, <2>10, FewerAreHeld
  <1>6. ASSUME NEW addr, breakListDisable(addr) \/ breakListEnable(addr)
        PROVE  Held(proc', breakList')
    <2> DEFINE k == NodeAt(addr)
    <2>1. k \in DOMAIN breakList /\ breakList[k] \in GoodNode /\ breakList[k].addr = addr
      BY <1>1, <1>2, <1>6, NodeIsListed DEF breakListDisable, breakListEnable
    <2>2. \E data \in {breakList[k].inst, EbreakOf(breakList[k].instLen)} :
            proc' = procWriteMem(proc, breakList[k].addr, data, breakList[k].instLen)
      BY <1>6, <2>1 DEF breakListDisable, breakListEnable, PutBack
    <2>3. PICK e \in BOOLEAN : breakList' = [breakList EXCEPT ![k].isEnabled = e]
      BY <1>6 DEF breakListDisable, breakListEnable
    <2> HIDE DEF k
    <2>4. Held(proc', breakList)
      BY <1>1, <2>1, <2>2, OverNodeIsHeld
    <2>5. DOMAIN breakList' = DOMAIN breakList
      BY <2>3
    <2>6. \A i \in DOMAIN breakList : breakList[i] \in Node
      BY <1>1 DEF GoodNode
    <2>7. \A i \in DOMAIN breakList : /\ breakList'[i].addr = breakList[i].addr
                                     /\ breakList'[i].inst = breakList[i].inst
                                     /\ breakList'[i].instLen = breakList[i].instLen
      BY <2>1, <2>3, <2>6 DEF Node
    <2>8. /\ same \in [DOMAIN breakList' -> DOMAIN breakList]
          /\ \A i \in DOMAIN breakList : same[i] = i
      BY <2>5
    <2> HIDE DEF same
    <2> QED
      BY <2>4, <2>5, <2>7, <2>8, FewerAreHeld
  <1>7. \/ breakListRemoveAll \/ breakListDisableAll \/ breakListEnableAll
        \/ \E addr : \/ breakListRemove(addr)
                      \/ breakListDisable(addr) \/ breakListEnable(addr)
    BY DEF ListCmd
  <1>8. breakListDisableAll \/ breakListEnableAll => Held(proc', breakList')
    BY <1>4, Zenon DEF breakListDisableAll, breakListEnableAll
  <1> QED
    BY <1>3, <1>5, <1>6, <1>7, <1>8, Zenon

\* The program does not store into the bytes that a break point replaces, nor
\* does the instruction that a prompt executes.
SparesBreaks ==
  Turn \/ stepCmd \/ continueCmd \/ exitCmd =>
    \A b \in CoveredBytes : proc'.mem[b] = proc.mem[b]

LEMMA HeldIsInductive ==
  ASSUME DebugInv, Careful, Held(proc, breakList),
         [DebugNext]_dbgVars, [SparesBreaks]_dbgVars
  PROVE  Held(proc', breakList')
  <1>1. breakList \in Seq(GoodNode)
    BY DEF DebugInv
  <1>2. CASE UNCHANGED dbgVars
    BY <1>2 DEF dbgVars
  <1>3. CASE SparesBreaks /\ (Turn \/ stepCmd \/ continueCmd \/ exitCmd)
    <2>1. \A b \in CoveredBytes : proc'.mem[b] = proc.mem[b]
      BY <1>3 DEF SparesBreaks
    <2>2. \A k \in DOMAIN breakList : \A b \in Covered(breakList[k]) : proc'.mem[b] = proc.mem[b]
      BY <2>1 DEF CoveredBytes
    <2>3. CASE breakList' = breakList
      BY <1>1, <2>2, <2>3, SparedIsHeld
    <2>4. \/ breakList' = breakList
          \/ \E mode : RunCmd(mode)
      BY <1>3 DEF Turn, stepCmd, continueCmd, exitCmd, Leave
    <2>5. ASSUME NEW mode, RunCmd(mode) PROVE breakList' = breakList
      <3> DEFINE saved == breakListGetInstruction(proc.pc)
      <3>1. CASE saved = Zero
        <4>1. Leave(proc, simulatorState, mode)
          BY <2>5, <3>1 DEF RunCmd
        <4> QED
          BY <4>1 DEF Leave
      <3>2. CASE saved # Zero /\ CallsEbreak(saved)
        BY <2>5, <3>2 DEF RunCmd
      <3>3. CASE saved # Zero /\ ~CallsEbreak(saved)
        <4>1. Leave(runInstruction(proc, saved), StateAfter(simulatorState, saved), mode)
          BY <2>5, <3>3 DEF RunCmd
        <4> QED
          BY <4>1 DEF Leave
      <3> QED
        BY <3>1, <3>2, <3>3
    <2> QED
      BY <2>3, <2>4, <2>5
  <1>4. CASE End
    BY <1>4 DEF End, Held
  <1>5. CASE deleteCmd \/ disableCmd \/ enableCmd
    <2>1. ListCmd(\/ breakListRemoveAll \/ breakListDisableAll \/ breakListEnableAll
                  \/ \E addr : \/ breakListRemove(addr)
                                \/ breakListDisable(addr)
                                \/ breakListEnable(addr))
      BY <1>5, Zenon DEF deleteCmd, disableCmd, enableCmd, ListCmd
    <2> QED
      BY <2>1, ListCommandsHold
  <1>6. ASSUME NEW a \in BreakAddrs, breakCmd(a) PROVE Held(proc', breakList')
    <2> DEFINE node == breakNodeCreate(proc, Lit(a))
    <2>1. Sound(proc) /\ node \in GoodNode
      BY <1>6, CreatedNode DEF DebugInv, breakCmd
    <2>2. /\ proc' = procWriteMem(proc, node.addr, EbreakOf(node.instLen), node.instLen)
          /\ breakList' = Append(breakList, node)
          /\ Covered(node) \cap CoveredBytes = {}
      BY <1>6 DEF breakCmd, breakListAppend, MayBreak
    <2> HIDE DEF node
    <2>3. \A k \in DOMAIN breakList : Covered(node) \cap Covered(breakList[k]) = {}
      BY <2>2 DEF CoveredBytes
    <2> QED
      BY <1>1, <2>1, <2>2, <2>3, OneMoreIsHeld
  <1>7. ASSUME NEW a \in JumpAddrs, jumpCmd(a) PROVE Held(proc', breakList')
    <2>1. proc'.mem = proc.mem /\ breakList' = breakList
      <3>1. Sound(proc)
        BY <1>7 DEF DebugInv, jumpCmd
      <3> QED
        BY <1>7, <3>1 DEF jumpCmd, procSetPC, Sound, Proc
    <2> QED
      BY <1>1, <2>1, SparedIsHeld
  <1>8. ASSUME NEW e \in Writes, writeCmd(e[1], e[2]) PROVE Held(proc', breakList')
    <2>1. /\ Sound(proc) /\ breakList' = breakList
          /\ proc' = procWriteMem(proc, Lit(e[1]), e[2], 1)
          /\ BytesAt(Lit(e[1]), 1) \cap CoveredBytes = {}
      BY <1>8 DEF DebugInv, writeCmd, MayWrite
    <2>2. \A b \in Addr \ BytesAt(Lit(e[1]), 1) : proc'.mem[b] = proc.mem[b]
      <3>1. 1 \in {1, 2, 4}
        OBVIOUS
      <3> QED
        BY <2>1, <3>1, WriteContents
    <2>3. \A k \in DOMAIN breakList : Covered(breakList[k]) \subseteq Addr \cap CoveredBytes
      <3>1. \A k \in DOMAIN breakList : breakList[k] \in GoodNode
        BY <1>1
      <3> QED
        BY <3>1, CoveredIsInMemory DEF CoveredBytes
    <2>4. \A k \in DOMAIN breakList : \A b \in Covered(breakList[k]) : proc'.mem[b] = proc.mem[b]
      BY <2>1, <2>2, <2>3
    <2> QED
      BY <1>1, <2>1, <2>4, SparedIsHeld
  <1> QED
    BY <1>2, <1>3, <1>4, <1>5, <1>6, <1>7, <1>8 DEF DebugNext, Command

\* With a careful user, and a program that does not store into the bytes under
\* its break points: whatever the order in which they are set, deleted, disabled
\* and enabled, alone or all of them, under every break point is the ebreak or
\* the instruction its node saved, and no two share a byte.
THEOREM BreakpointsAreKept ==
  DebugSpec /\ [][SparesBreaks]_dbgVars => []BreakpointsHold
  <1> DEFINE Inv == DebugInv /\ (Careful => Held(proc, breakList))
  <1>1. DebugInit => Inv
    <2>1. DebugInit => DebugInv
      BY DebugInitIsSound
    <2>2. DebugInit => Held(proc, breakList)
      BY DEF DebugInit, Held
    <2> QED
      BY <2>1, <2>2
  <1>2. Inv /\ [DebugNext]_dbgVars /\ [SparesBreaks]_dbgVars => Inv'
    BY DebugInvIsInductive, HeldIsInductive, Zenon
  <1>3. Inv => BreakpointsHold
    BY HeldIsBreakpointsHold
  <1> QED
    BY <1>1, <1>2, <1>3, PTL DEF DebugSpec
=============================================================================
