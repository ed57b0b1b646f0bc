----------------------------- MODULE MCDebugger -----------------------------
(***************************************************************************)
(* A program with full and compressed instructions, a backward branch, a   *)
(* store, an ebreak of its own and an ecall, and a user who sets break     *)
(* points on all of them.                                                  *)
(***************************************************************************)
EXTENDS Debugger

I32(opcode, f3, rest) == Lit(opcode) \cup {i + 12 : i \in Lit(f3)} \cup rest

\*  0  xori x8, x8, 1
\*  4  c.mv x9, x8
\*  6  bne  x8, x0, -6
\* 10  sb   x9, 24(x0)
\* 14  c.ebreak
\* 16  ecall
MCProgram == <<
  I32(RV32E_OP_IMM, 4, {20} \cup {10} \cup {18}),
  {1, 15, 10, 7, 5},
  I32(RV32E_OP_BRANCH, 1, {18} \cup {31, 7} \cup (25 .. 30) \cup {8, 10, 11}),
  I32(RV32E_OP_STORE, 0, {20, 23} \cup {10, 11}),
  C_EBREAK,
  Lit(RV32E_OP_OS) >>

MCPrograms == {MCProgram}

\* A full and a compressed instruction, the branch, the ebreak of the program.
MCBreakAddrs == {4, 6, 14}
MCJumpAddrs == {4}
MCWrites == {<<4, {1, 2, 5, 7}>>}

=============================================================================
