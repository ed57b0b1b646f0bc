----------------------------- MODULE Simulator -----------------------------
(***************************************************************************)
(* simulator.c: fetch, decode, execute and the program counter.  The       *)
(* behaviour of this module is a run without the debugger: the execution   *)
(* mode is continue from the start, and whoever is at the prompt that an   *)
(* ebreak of the program opens only continues.  simulatorInst is then      *)
(* local to a turn of the loop; Debugger keeps it.                         *)
(***************************************************************************)
EXTENDS RunInstruction

CONSTANT Programs    \* the programs that may be loaded, as sequences of words

ASSUME ProgramAssumption == Programs \subseteq Seq(Word)

VARIABLES
  proc,             \* the processor of procState.c
  simulatorState    \* SIMULATOR_RUN or SIMULATOR_STOP

simVars == <<proc, simulatorState>>

RUN  == "run"
STOP == "stop"

\* Without a return statement the caller finds what the last comparison left
\* in the register.  Only RV32E_JALR makes a difference to the caller.
Decoded(w) ==
  IF decodeInstruction(w) = NoReturn THEN {"RV32E_JALR", NoReturn} ELSE {decodeInstruction(w)}

InstructionOf(w, name) ==
  [inst        |-> IF IsRV32E(w) THEN w ELSE w \cap (0 .. 15),
   decodedInst |-> name,
   instType    |-> decodeInstructionType(w),
   instExt     |-> decodeInstructionLength(w)]

simulatorFetch(p) == procReadMem(p, p.pc, 4)

simulatorDecode(w) == {InstructionOf(w, name) : name \in Decoded(w)}

\* The type is compared with constants of both enumerations whatever the
\* length of the instruction: a C_SW has the number of a J type and a
\* C_ADDI4SPN that of a B type.
Advances(i) ==
  /\ i.instType \notin {J_TYPE, CJ_TYPE, B_TYPE}
  /\ i.decodedInst \notin {"RV32E_JALR", "C_JALR", "C_JR", "C_BEQZ", "C_BNEZ", "RV32E_ECALL"}

updatePC(p, i, state) ==
  IF Advances(i) /\ state = RUN
  THEN procUpdatePC(p, IF i.instExt = "RV32E" THEN Four ELSE Two)
  ELSE p

\* runInstruction may call ecall, which stops the simulator.
StateAfter(state, w) == IF CallsEcall(w) THEN STOP ELSE state

Length(w) == IF IsRV32E(w) THEN 4 ELSE 2

\* The instructions one after the other from address 0, over cleared memory.
loadProgramInMemory(program) ==
  FoldLeft(LAMBDA loaded, w :
             [p |-> procWriteMem(loaded.p, Lit(loaded.memOffset), w, Length(w)),
              memOffset |-> loaded.memOffset + Length(w)],
           [p |-> procInit, memOffset |-> 0],
           program).p

simulatorInit ==
  /\ \E program \in Programs : proc = loadProgramInMemory(program)
  /\ simulatorState = RUN
----------------------------------------------------------------------------
\* One turn of the loop of simulatorRun.
Cycle ==
  /\ simulatorState = RUN
  /\ \E i \in simulatorDecode(simulatorFetch(proc)) :
       /\ simulatorState' = StateAfter(simulatorState, i.inst)
       /\ proc' = updatePC(runInstruction(proc, i.inst), i, simulatorState')

\* The loop has ended: simulatorDestroy.
Destroy ==
  /\ simulatorState = STOP
  /\ proc.mem # NoMem
  /\ proc' = procDestroy(proc)
  /\ UNCHANGED simulatorState

SimNext == Cycle \/ Destroy

SimSpec == simulatorInit /\ [][SimNext]_simVars
----------------------------------------------------------------------------
\* Type invariant: the program counter stays within the memory and register
\* x0 at zero, whatever the instructions do.
SimTypeOK ==
  /\ proc \in Proc
  /\ proc.x[0] = Zero
  /\ simulatorState \in {RUN, STOP}

\* Every function runInstruction calls reads the operand structure that the
\* type of the same word has filled; the other fourteen are uninitialised.
\* The type and the function are selected by switches of their own.
OperandsAreFilled ==
  proc.mem # NoMem =>
  LET w == simulatorFetch(proc)
  IN  \A k \in DOMAIN Calls(w) : Given(Calls(w)[k]) = Filled(w)

=============================================================================
