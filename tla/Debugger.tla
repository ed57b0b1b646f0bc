------------------------------ MODULE Debugger ------------------------------
(***************************************************************************)
(* debugger.c and the loop of simulator.c around it.  A break point is an  *)
(* ebreak in the memory of the program and a node with the instruction     *)
(* that was there.  The program is sequential; what comes in between are   *)
(* the commands of the user, at a prompt that is open either in the loop,  *)
(* before the fetched instruction executes, or inside an ebreak that       *)
(* executes.  A step or continue runs the saved instruction inside the     *)
(* prompt, and when that one is an ebreak another prompt opens in it.      *)
(***************************************************************************)
EXTENDS Simulator

CONSTANTS
  BreakAddrs,   \* the addresses the user gives to break, delete, disable, enable
  JumpAddrs,    \* the addresses the user jumps to
  Writes,       \* the address and byte pairs the user writes
  MaxBreaks,    \* bound on the nodes of the list
  MaxNest,      \* bound on the prompts inside a prompt; the code has none, and a
                \* step at a break point on an ebreak of the program nests each time
  Careful       \* whether the user keeps the rules below

VARIABLES
  simulatorInst,       \* the instruction fetched last
  simulatorExecMode,   \* "step" or "continue"
  breakList,           \* the nodes, oldest first
  at,                  \* "loop", "prompt", or "ended"
  caller,              \* who opened the outermost prompt, "loop" or "execute"
  pending              \* the commands of the prompts around this one, outermost first

dbgVars == <<proc, simulatorState, simulatorInst, simulatorExecMode,
             breakList, at, caller, pending>>

EBREAK   == {0, 1, 4, 5, 6, 20}
C_EBREAK == {1, 12, 15}

EbreakOf(len) == IF len = 4 THEN EBREAK ELSE C_EBREAK

Node == [addr : Word, inst : Word, instLen : {2, 4}, isEnabled : BOOLEAN]
----------------------------------------------------------------------------
\* The list.

\* Mutant: the bytes after a compressed instruction stay in the node.
breakNodeCreate_NoMask(p, addr) ==
  LET inst == procReadMem(p, addr, 4)
  IN  [addr |-> addr, inst |-> inst, instLen |-> Length(inst), isEnabled |-> TRUE]

breakNodeCreate(p, addr) ==
  LET inst == procReadMem(p, addr, 4)
      len  == Length(inst)
  IN  [addr |-> addr, inst |-> Field(inst, 8 * len - 1, 0), instLen |-> len, isEnabled |-> TRUE]

breakListAppend(list, node) == Append(list, node)

\* The position of the first node at an address, 0 without one.
NodeAt(addr) == SelectInSeq(breakList, LAMBDA n : n.addr = addr)

\* Zero means no node; so does a node that saved a zero word.
breakListGetInstruction(addr) ==
  IF NodeAt(addr) = 0 THEN Zero ELSE breakList[NodeAt(addr)].inst

PutBack(p, node) == procWriteMem(p, node.addr, node.inst, node.instLen)

\* Mutant: the node leaves the list and the ebreak stays in memory.
breakListRemove_NoWrite(addr) ==
  /\ NodeAt(addr) # 0
  /\ proc' = proc
  /\ breakList' = RemoveAt(breakList, NodeAt(addr))

breakListRemove(addr) ==
  /\ NodeAt(addr) # 0
  /\ proc' = PutBack(proc, breakList[NodeAt(addr)])
  /\ breakList' = RemoveAt(breakList, NodeAt(addr))

\* The processor after breakListRemoveAll: every node is put back in turn.
Undone(p, list) == FoldLeft(PutBack, p, list)

breakListRemoveAll ==
  /\ proc' = Undone(proc, breakList)
  /\ breakList' = << >>

SetAll(enabled) == [k \in DOMAIN breakList |-> [breakList[k] EXCEPT !.isEnabled = enabled]]

\* Disabling or enabling all of them leaves the memory as it is.
breakListDisableAll == breakList' = SetAll(FALSE) /\ proc' = proc
breakListEnableAll  == breakList' = SetAll(TRUE) /\ proc' = proc

breakListDisable(addr) ==
  LET k == NodeAt(addr) IN
  /\ k # 0
  /\ breakList[k].isEnabled
  /\ breakList' = [breakList EXCEPT ![k].isEnabled = FALSE]
  /\ proc' = PutBack(proc, breakList[k])

\* Mutant: a full ebreak comes back over a compressed instruction.
breakListEnable_Full(addr) ==
  LET k == NodeAt(addr) IN
  /\ k # 0
  /\ ~breakList[k].isEnabled
  /\ breakList' = [breakList EXCEPT ![k].isEnabled = TRUE]
  /\ proc' = procWriteMem(proc, addr, EBREAK, 4)

breakListEnable(addr) ==
  LET k == NodeAt(addr) IN
  /\ k # 0
  /\ ~breakList[k].isEnabled
  /\ breakList' = [breakList EXCEPT ![k].isEnabled = TRUE]
  /\ proc' = procWriteMem(proc, addr, EbreakOf(breakList[k].instLen), breakList[k].instLen)

isAddrValid(a) == a <= PROC_MEMSIZE - 1 /\ a % 2 = 0
----------------------------------------------------------------------------
\* The rules of a careful user, for what the list and the memory hold.  None of
\* them is checked by the code; step, continue, exit and jump have no rule.

BytesAt(addr, n) == {(AddrOf(addr) + i) % PROC_MEMSIZE : i \in 0 .. n - 1}
Covered(node) == BytesAt(node.addr, node.instLen)
CoveredBytes == UNION {Covered(breakList[k]) : k \in DOMAIN breakList}

\* Break points do not overlap, and none is on a zero word.
MayBreak(a) ==
  LET node == breakNodeCreate(proc, Lit(a))
  IN  node.inst # Zero /\ Covered(node) \cap CoveredBytes = {}

\* No byte under a break point is written.
MayWrite(a) == BytesAt(Lit(a), 1) \cap CoveredBytes = {}
----------------------------------------------------------------------------
\* The simulator executes i on the processor p, in the state st.
Execute(p, i, st) ==
  IF CallsEbreak(i.inst)
  THEN /\ at' = "prompt" /\ caller' = "execute"
       /\ proc' = p /\ simulatorState' = st
  ELSE /\ at' = "loop" /\ caller' = "none"
       /\ simulatorState' = StateAfter(st, i.inst)
       /\ proc' = updatePC(runInstruction(p, i.inst), i, simulatorState')

\* The head of the loop of simulatorRun.
Turn ==
  /\ at = "loop" /\ simulatorState = RUN
  /\ \E i \in simulatorDecode(simulatorFetch(proc)) :
       /\ simulatorInst' = i
       /\ IF simulatorExecMode = "step"
          THEN /\ at' = "prompt" /\ caller' = "loop"
               /\ UNCHANGED <<proc, simulatorState>>
          ELSE Execute(proc, i, simulatorState)
  /\ UNCHANGED <<simulatorExecMode, breakList, pending>>

\* The loop has ended: simulatorDestroy, "delete all" and procDestroy.
End ==
  /\ at = "loop" /\ simulatorState = STOP
  /\ proc' = procDestroy(Undone(proc, breakList))
  /\ breakList' = << >>
  /\ at' = "ended"
  /\ UNCHANGED <<simulatorState, simulatorInst, simulatorExecMode, caller, pending>>

\* A prompt is left: every command around it returns and sets its own mode,
\* the outermost last, and then the caller of the outermost prompt goes on.
Leave(p, st, mode) ==
  /\ simulatorExecMode' = IF pending = << >> THEN mode ELSE Head(pending)
  /\ pending' = << >>
  /\ IF caller = "loop"
     THEN Execute(p, simulatorInst, st)
     ELSE /\ at' = "loop" /\ caller' = "none"
          /\ simulatorState' = st
          /\ proc' = updatePC(p, simulatorInst, st)
  /\ UNCHANGED <<simulatorInst, breakList>>

\* stepCmd and continueCmd: the saved instruction, if there is one.
RunCmd(mode) ==
  LET saved == breakListGetInstruction(proc.pc) IN
  /\ at = "prompt"
  /\ CASE saved = Zero -> Leave(proc, simulatorState, mode)
       [] saved # Zero /\ CallsEbreak(saved) ->
            /\ Len(pending) < MaxNest
            /\ pending' = Append(pending, mode)
            /\ UNCHANGED <<proc, simulatorState, simulatorInst, simulatorExecMode,
                           breakList, at, caller>>
       [] OTHER -> Leave(runInstruction(proc, saved), StateAfter(simulatorState, saved), mode)

stepCmd == RunCmd("step")
continueCmd == RunCmd("continue")

exitCmd ==
  /\ at = "prompt"
  /\ Leave(proc, STOP, simulatorExecMode)

\* A command that only works on the list and the memory.
ListCmd(Op) ==
  /\ at = "prompt"
  /\ Op
  /\ UNCHANGED <<simulatorState, simulatorInst, simulatorExecMode, at, caller, pending>>

breakCmd(a) ==
  LET node == breakNodeCreate(proc, Lit(a)) IN
  /\ at = "prompt"
  /\ isAddrValid(a)
  /\ Careful => MayBreak(a)
  /\ breakListGetInstruction(Lit(a)) = Zero
  /\ Len(breakList) < MaxBreaks
  /\ proc' = procWriteMem(proc, node.addr, EbreakOf(node.instLen), node.instLen)
  /\ breakList' = breakListAppend(breakList, node)
  /\ UNCHANGED <<simulatorState, simulatorInst, simulatorExecMode, at, caller, pending>>

deleteCmd ==
  ListCmd(breakListRemoveAll \/ \E a \in BreakAddrs : breakListRemove(Lit(a)))
disableCmd ==
  ListCmd(breakListDisableAll \/ \E a \in BreakAddrs : breakListDisable(Lit(a)))
enableCmd ==
  ListCmd(breakListEnableAll \/ \E a \in BreakAddrs : breakListEnable(Lit(a)))

\* The next instruction is fetched again, from the new address.
jumpCmd(a) ==
  LET moved == procSetPC(proc, Lit(a)) IN
  /\ at = "prompt"
  /\ isAddrValid(a)
  /\ proc' = moved
  /\ simulatorInst' \in simulatorDecode(simulatorFetch(moved))
  /\ UNCHANGED <<simulatorState, simulatorExecMode, breakList, at, caller, pending>>

writeCmd(a, d) ==
  /\ at = "prompt"
  /\ Careful => MayWrite(a)
  /\ proc' = procWriteMem(proc, Lit(a), d, 1)
  /\ UNCHANGED <<simulatorState, simulatorInst, simulatorExecMode, breakList, at, caller, pending>>

\* The commands that change state; print, dump and help do not.
Command ==
  \/ stepCmd \/ continueCmd \/ exitCmd
  \/ deleteCmd \/ disableCmd \/ enableCmd
  \/ \E a \in BreakAddrs : breakCmd(a)
  \/ \E a \in JumpAddrs : jumpCmd(a)
  \/ \E e \in Writes : writeCmd(e[1], e[2])

DebugInit ==
  /\ simulatorInit
  /\ simulatorInst = InstructionOf(Zero, "RV32E_LUI")
  /\ simulatorExecMode = "step"
  /\ breakList = << >>
  /\ at = "loop" /\ caller = "none" /\ pending = << >>

DebugNext == Turn \/ End \/ Command

DebugSpec == DebugInit /\ [][DebugNext]_dbgVars
----------------------------------------------------------------------------
\* Type invariant: a node holds no more than the bytes it replaces, the prompt
\* has one caller, and a command waits only inside a prompt.
DebugTypeOK ==
  /\ proc \in Proc
  /\ simulatorState \in {RUN, STOP}
  /\ simulatorExecMode \in {"step", "continue"}
  /\ breakList \in Seq(Node)
  /\ \A k \in DOMAIN breakList :
       breakList[k].inst \subseteq 0 .. 8 * breakList[k].instLen - 1
  /\ at \in {"loop", "prompt", "ended"}
  /\ caller = "none" <=> at # "prompt"
  /\ pending # << >> => at = "prompt"

\* With a careful user, the bytes under a break point are the ebreak that
\* breakCmd put there or the instruction that was there, and no two break
\* points share a byte: so any order of delete, disable and enable, alone or
\* of all of them, finds the program's own bytes in the nodes.
BreakpointsHold ==
  Careful =>
  \A k \in DOMAIN breakList :
    LET n == breakList[k] IN
    /\ procReadMem(proc, n.addr, n.instLen) \in {n.inst, EbreakOf(n.instLen)}
    /\ \A j \in DOMAIN breakList \ {k} : Covered(n) \cap Covered(breakList[j]) = {}

\* The memory as it is without the break points.
Program == Undone(proc, breakList)
Plain == INSTANCE PlainRun WITH proc <- Program

\* What the program has at its own program counter, and what was fetched.
Saved == breakListGetInstruction(proc.pc)
Fetched == simulatorInst.inst
Fresh == Fetched = Field(procReadMem(proc, proc.pc, 4), 8 * Length(Fetched) - 1, 0)
After(p, i) == updatePC(runInstruction(p, i.inst), i, RUN)

\* step or continue at a break point on a branch or jump: it goes to its target
\* and updatePC then adds the length of the ebreak that was fetched.
PassesTarget ==
  /\ caller = "execute" /\ Saved # Zero /\ Advances(simulatorInst)
  /\ \E i \in simulatorDecode(Saved) : ~Advances(i)
  /\ Program' = updatePC(runInstruction(Program, Saved), simulatorInst, RUN)

\* The ebreak that was hit is deleted, or the user jumped or wrote over it: its
\* prompt moves over whatever is at the program counter now.
SkipsInstruction ==
  /\ caller = "execute" /\ Saved = Zero
  /\ Fresh => ~CallsEbreak(Fetched)
  /\ Program' = updatePC(Program, simulatorInst, RUN)

\* A break point, disabled or not, at the prompt in the loop: the instruction
\* runs in the prompt and what was fetched, itself or the ebreak, runs after it.
RunsTwice ==
  /\ caller = "loop" /\ Saved # Zero
  /\ LET once == runInstruction(Program, Saved) IN
     Program' = IF CallsEbreak(Fetched) THEN once ELSE After(once, simulatorInst)

\* The instruction changed after it was fetched: the old one runs.
RunsStale ==
  /\ caller = "loop" /\ Saved = Zero /\ ~Fresh
  /\ Program' = IF CallsEbreak(Fetched) THEN Program ELSE After(Program, simulatorInst)

\* exit in the loop: the fetched instruction still runs, with no updatePC.  Is it
\* an ebreak, its prompt opens, and a step there runs the saved instruction.
RunsAfterExit ==
  /\ simulatorState' = STOP
  /\ \/ caller = "loop" /\ Program' = runInstruction(Program, Fetched)
     \/ simulatorState = STOP /\ caller = "execute" /\ Saved # Zero
        /\ Program' = runInstruction(Program, Saved)

Deviates ==
  \/ PassesTarget /\ UNCHANGED simulatorState
  \/ SkipsInstruction /\ UNCHANGED simulatorState
  \/ RunsTwice /\ UNCHANGED simulatorState
  \/ RunsStale /\ UNCHANGED simulatorState
  \/ RunsAfterExit

\* A session in the debugger is a run of the program without it, step by step:
\* a command changes the program only by the program's next instruction, or by
\* the byte, the jump or the stop the user asked for, and break points come and
\* go without a trace.  The five exceptions are what stepCmd, continueCmd and
\* exitCmd do where they have no guard; each is held to its own effect.
DebugRunIsPlainRun ==
  Plain!simulatorInit /\ [][Plain!PlainNext \/ Deviates]_(Plain!simVars)

=============================================================================
