------------------------------ MODULE PlainRun ------------------------------
(***************************************************************************)
(* What the debugger promises: a run of the program as without it, except  *)
(* that between two instructions the user may write a byte of memory, move *)
(* the program counter, or stop the simulator.                             *)
(***************************************************************************)
EXTENDS Simulator

CONSTANTS JumpAddrs, Writes

UserWrite ==
  /\ \E e \in Writes : proc' = procWriteMem(proc, Lit(e[1]), e[2], 1)
  /\ UNCHANGED simulatorState

UserJump ==
  /\ \E a \in JumpAddrs : proc' = procSetPC(proc, Lit(a))
  /\ UNCHANGED simulatorState

UserStop ==
  /\ simulatorState' = STOP
  /\ UNCHANGED proc

PlainNext == UserStop \/ UserJump \/ UserWrite \/ SimNext

=============================================================================
