# A verification project for the `rv` processor and its simulators

The repository holds three programs that run RISC-V code: an out-of-order core
in VHDL (`hw/src`), a C simulator of such a core (`sw/src`), and a C instruction
set simulator with a debugger (`sw/ELE749_projet1-develop`). The TLA+ modules
here model the out-of-order machinery of the first two, where instructions are
dispatched in order, executed in any order and retired in order again, many of
them at one clock edge; and of the third the instructions, bit by bit, and the
debugger that edits the program it runs. Paths below are relative to the
repository.

## 1. Inventory

### The VHDL core

| Part | State | Operations | Talks to |
|---|---|---|---|
| Re-order buffer `rgu/rob.vhd` | a ring of slots (`rd`, `result`, `valid`, `busy`), `wr_ptr`, `rd_ptr` | dispatch, write-back, commit, flush, forward | register file, bus, dispatch |
| Register file `rgu/reg.vhd` | `data`, `src`, `ready` of each register | rename at dispatch, write at commit | re-order buffer |
| Register and re-order unit `rgu/rgu.vhd` | the two above | operand look-up, tags | core |
| Age-matrix dispatcher `dispatcher.vhd` | matrix of cells, one-hot write column | write, masked oldest-first read | execution, load and store buffers |
| Execution buffer `exu/exb.vhd` | entries with two operands each, an age matrix | dispatch, wake-up from the bus, issue | ALU, bus |
| Execution unit `exu/exu.vhd`, `exu/alu.vhd` | the buffer, the ALU's output register, the bus register | issue, execute, request the bus | arbiter, bus |
| Arbiter `arbiter.vhd` | a token | grant, rotate | bus initiators |
| Load unit, store unit, groups `lsu/*.vhd` | load buffer, store ring, read and write group | dispatch, wake-up, issue, store-to-load forwarding, retire, fence | memory, bus |
| System unit `sys.vhd` | pc, `debug`, `service` | ebreak, ecall, restart, step | core |
| Core `core.vhd` | none of its own | the wiring: stall, tags, bus | all |
| `dec.vhd`, `decompress.vhd` | none | instruction words to fields | core |
| `common/*.vhd`, `flt/*.vhd`, `bru.vhd` | FIFO, stack, memories, floating point, branch skeleton | not instantiated by the core | |

Everything runs on one clock. All the units act at the same edge from the values
of before the edge, so the difficulty is not interleaving between edges but
coincidence at one: a result is broadcast while its reader is dispatched, a slot
is freed while another is taken, a register is written while it is renamed, the
bus is denied while the next result is ready.

What makes each part correct:

* re-order buffer: results in any order, retirement in program order, pointers
  and busy bits agree, forwarding gives the youngest writer;
* register file: a register that is being produced names its youngest writer
  and is ready again exactly when that one has retired;
* age matrix and execution buffer: matrix and buffer hold the same entries, the
  oldest ready one is issued, none starves;
* execution unit and bus: an operation is in one place, its result is broadcast
  once, every initiator gets the bus;
* load and store unit: stores leave in program order and never across a fence, a
  load that ran ahead of older stores gives up its result only when they have
  left, and takes the word of one that went to its address;
* system unit: after an ebreak or ecall nothing is fetched until it may be;
* the whole: what the re-order buffer waits for is what the units hold, and a
  broadcast reaches those it is for.

### The C out-of-order simulator

`engine.c` calls five stages in a fixed order each cycle (`commit`,
`write_back`, `execute`, `issue`, `dispatch`) on shared arrays: the re-order
buffer (`rob.c`), the registers (`reg.c`), the execution buffer, the units, the
lanes of the bus. `unit.c` is the ALU and its latencies, `decoder.c` splits
words into fields, `mem.c` is a byte array, `lsu.c` is not called yet. It is
sequential; what is hard is that the order of the stages imitates registers, so
a value must not fall between two of them, and that no stage checks whether
there was room for what it stores.

### The instruction set simulator

| Part | State | Operations |
|---|---|---|
| `procState.c` | pc, 16 registers, memory | read and write a register, bytes of memory, the pc; destroy |
| `decoder.c`, `immediate.c` | none | length, type and name of a word; operand structures; the function that runs |
| `instructionsRV32E.c`, `instructionsRV32C.c` | none of their own | one function for each instruction |
| `simulator.c` | state (run, stop), mode (step, continue), the fetched instruction | the loop: fetch, decode, prompt, execute, advance the pc |
| `debugger.c` | list of break points, each with the word it replaced | break, delete, disable, enable, step, continue, jump, write, exit |

The program is sequential, but the prompt is a callback: the loop opens it, an
`ebreak` opens it from inside an instruction, and its own step and continue run
the replaced word, which may be an `ebreak` again. A break point lives in two
places, the list and the memory, and the program may read, write and run the
memory. What makes it correct: every word does what the instruction set says and
the pc goes on by its length; a session with break points is a run of the
program without them.

## 2. Modules

| Module | Models | Notes |
|---|---|---|
| `CoreParams` | the generics and address arithmetic | `Inc` wraps at the width of a slot address |
| `Rob` | `rob.vhd` | one operator per clock edge, `RobEdge`; `RobFlush` |
| `RegFile` | `reg.vhd` | `RegEdge`, with the order of the assignments |
| `Rgu` | `rgu.vhd` | both at one edge, and the operand look-up |
| `RetireQueue`, `InOrder` | abstract | a queue in program order; registers that change when its head leaves |
| `AgeMatrix` | `dispatcher.vhd` | the set of its cells and the write column |
| `OldestReady` | abstract | a buffer from which the oldest ready entry leaves |
| `Exb` | `exu/exb.vhd` | extends `AgeMatrix` |
| `Exu` | `exu/exu.vhd`, registers of `alu.vhd` | extends `Exb` |
| `Arbiter` | `arbiter.vhd` | any number of initiators |
| `ExuBus` | the bus of `core.vhd` | `Exu`, `Arbiter` and the bus requests of a second initiator, the load and store unit |
| `Backend` | the wiring of `core.vhd` | `Rgu` and `ExuBus`, nothing assumed of the bus |
| `LsuParams` | the generics of `lsu.vhd` | |
| `Grp`, `Stu`, `Ldu` | `lsu/grp.vhd`, `lsu/stu.vhd`, `lsu/ldu.vhd` | one edge each; `LduEdge` is the five assignments of the process in their order; extends `AgeMatrix` |
| `Lsu` | `lsu/lsu.vhd`, the operands of `core.vhd` | the three at one edge, with any bus and any memory |
| `Sys` | `sys.vhd` | the pc and what stops it |
| `Core` | the wiring of `core.vhd` | all the units, tags with their unit, every kind of instruction |
| `SwRob` | `rob.c`, `reg.c` | one operator per function |
| `SwEngine` | `engine.c` | one action per stage |
| `Words` | the 32-bit arithmetic of C | a word is the set of its one bits |
| `ProcState` | `procState.c` | a record, and operators that return the next one |
| `Decoder`, `Immediates` | `decoder.c`, `immediate.c` | the masks and offsets of `desassembly.h` |
| `InstructionsRV32E`, `InstructionsRV32C` | the files of these names | one operator per function |
| `RunInstruction` | `runInstruction` in `decoder.c` | which structure is filled and which function runs |
| `Simulator` | `simulator.c` | a turn of the loop, without the debugger |
| `Isa` | reference | the instruction set; `MCIss` compares |
| `Debugger` | `debugger.c` and the loop around it | one action per command |
| `PlainRun` | abstract | a run that nobody debugs, but for writes, jumps and a stop |
| `RguProofs`, `AgeMatrixProofs`, `ExbProofs`, `ExuBusProofs`, `BackendProofs`, `LsuProofs`, `SwEngineProofs`, `IssProofs` | proofs | section 5 |

The hardware modules define an *edge* operator each (`RobEdge`, `RegEdge`,
`MatrixEdge`, `ExbEdge`, `ExuEdge`, `ArbiterEdge`, `GrpEdge`, `StuEdge`,
`LduEdge`, `LsuEdge`, `SysEdge`) whose arguments are the
unit's input ports. A composition conjoins the edges of its parts and connects
the ports, as the port maps do. The `...Next` operator of a unit on its own
quantifies over the inputs its surroundings may give; `Backend` shows that the
surroundings give no others (`MeetsRguAssumption`, `MeetsBusAssumption`).

What is abstracted:

* words, operation codes and opcodes pass through the units and are left out of
  `Exb`, `Exu` and `Backend`; a result there is its tag. In `Rob`, `Rgu` and the
  C modules a word is a member of a small set, so that a lost or stale one shows;
* an operand is the set of at most one tag it waits for; a ready operand is the
  empty set. Fields of a free entry are all overwritten before they are read;
* one-hot words are the position of their bit, bit vectors are sets;
* flip-flops without a reset start with any value (`RobInit`, `RegInit`);
  uninitialised lanes of the C simulator hold any in-range word or none;
* `Backend` runs programs of ALU instructions: nothing else is on the bus;
* in `SwEngine` the instruction stream is any, the result of an operation any
  word, and what is stored past the last lane is never read.

## 3. Runs

| Run | Bounds | What it shows |
|---|---|---|
| `rgu` | 4 slots, 2 registers, 2 words | `RingWindow`, `SrcIsYoungestWriter`, `ReadyOnceWritersRetire`; `RegistersChangeInOrder`: the unit implements `InOrder` |
| `exb` | 4 entries, 1 tag | matrix soundness, agreement of matrix and buffer; `IssuesOldestReady`: the two implement `OldestReady`; `ReadyIsIssued` |
| `exu_bus` | 2 entries, 3 tags, contended bus | one place per operation, nothing leaves but over the bus (or is the second result of an unready unit), the bus is granted |
| `backend` | 4 slots, 2 entries, 2 registers | agreement on what is in flight, both assumptions, `ReadyOpIsFinished` |
| `lsu` | 2 loads, 2 stores, 2 groups, 2 addresses, programs of 5 loads, stores and fences | `StoreRing`, `NobodyLeftBehind`, `WaitsForOlderStores`, `StoreBeatsMemory` |
| `sw_engine` | 3 slots, 3 entries, 2 units, 2 lanes, latencies 0 and 1, 2 words | nothing is lost, in-order retirement, the oldest instruction finishes |
| `iss` | every shape of word, two register files, 32 bytes of memory | `FollowsIsa`: one turn of the loop does what the instruction set says, outside the listed deviations; `OperandsAreFilled` |
| `debugger` | 6 instructions, break points on 3 of them, 2 at a time, a careful user | `BreakpointsHold`; `DebugRunIsPlainRun`: every step of a session is one of `PlainRun` or one of five listed ones (section 4) |
| `rob_forward`, `exu_bus_lookahead`, `backend_wakeup`, `core_tags` | as above or smaller | section 4 |

Why the bounds are enough. Four slots with two registers (x0 and another) let
the ring wrap while full, with up to four writers of one register; the pointers
take every position. Four matrix entries give a read in the middle with younger
and older entries on both sides and a write at the same edge. Two execution
buffer entries against four slots make `exb_full` stall while the re-order
buffer has room, and one tag suffices in `exb` because matrix and issue never
compare tags. Three tags on the contended bus are one at the ALU's output, one
at the bus and one at the other initiator, the state in which the results
compete. Three slots and two units in the C engine let instructions finish out
of order and two at a time, with a third dispatched meanwhile. Two loads behind
two stores, and one operation more, make a load wait for two stores, lose one of
them and get the word of the other before, with or after the memory's answer;
the store ring and the group numbers wrap. Addresses are interchangeable in
`Lsu`, which is why the run uses symmetry.

`iss` takes every opcode and `funct3` with the fields empty, one-hot or all ones
(`FullShapes`, `ShortWords`) and compares one turn from a state with registers of
both signs. Its memory has 32 bytes, so that addresses that differ only above
bit 4 are the same: the pc, which is a full word, tells all offsets apart, but
loads and stores are told apart only modulo 32. The program of `debugger` has a full and a compressed
instruction, a backward branch, a store, an `ebreak` of its own and an `ecall`;
break points are on a full and a compressed instruction and on that `ebreak`,
prompts nest once (`MaxNest`), and the list has two nodes (`MaxBreaks`).

The careful user of `debugger` (`MayBreak`, `MayWrite`) keeps what the list and
the memory rely on and the code does not check: break points do not overlap and
are not on a zero word, and no byte under one is written. Step, continue, exit,
jump, delete, disable and enable are given at any prompt and in any order; where
step, continue and exit then do something else than run the next instruction,
`DebugRunIsPlainRun` names it (`Deviates` in `Debugger`, section 4). Each of the
five exceptions is a state and the one effect the code has in it, and without any
one of them TLC finds the property violated.

Fairness. The clock runs (`BusFairSpec`, `BackFairSpec`: weak fairness of the
edge), the unit takes operations (`ExbFairSpec`, which `exec_rdy` justifies as
long as the bus is granted), `main` calls `engine_run` in a loop
(`EngineFairSpec`). No fairness is assumed of the instruction stream, of the
arbiter, of the memory or of the user.

The hardware runs and `sw_engine` check for deadlock: a clock edge is always
possible. `iss` stops after its one turn and `debugger` after the end of the
program, so they do not.

## 4. Known deviations

Each of these has a run in which TLC produces the behaviour.

* `rob.vhd:187` turns the position of the youngest hit back into a slot address
  by rotating the bits of the position, where an addition of `rd_ptr` is meant.
  A slot that is not the youngest writer can be forwarded (`ForwardsLatest`).
* `exb.vhd:184`: an operation dispatched at the edge at which its operand is on
  the bus sees it neither in the register unit nor by snooping, and waits until
  a later user of the slot broadcasts, if one does, and then takes that result
  (`NoMissedBroadcast`). This is why `ReadyOpIsFinished` speaks of
  operations that have their operands.
* `exu.vhd:79`: when the bus is denied with a second result at the ALU's output,
  that result is gone at the next edge (`LookAheadKeepsBoth`). This is why
  `LeavesOverBus` excepts that result at that edge, and `Backend` has an
  uncontended bus.
* `rgu.vhd:168`: the re-order buffer takes the lower bits of any tag on the bus
  as a slot, whatever unit the tag is for. The address of a load becomes the
  result of a slot (`ResultIsFromOwn`). What `rgu` and `backend` show is
  therefore about programs of ALU instructions.

The following were met while modelling. They are in the models as they are in the
code, without a run of their own.

*Core and execution.* With two initiators the arbiter favours the holder of the
token as long as it requests (`arbiter.vhd:64`). Registers are not ready after
reset and name a slot nobody writes (`reg.vhd:75`, `RegInit`). Fences, branches
and system instructions go to the execution unit with an undefined tag
(`core.vhd:343`, `TagOf`). Only AUIPC has an operand other than a register
(`core.vhd:349`), and `dec.vhd:90-96` always gives the same bits as `rs1`: the
first operand of LUI and JAL is a register that bits of the immediate name. A
store waits for its data's tag even when the register is ready (`core.vhd:404`,
`StoreOf`), and that tag may never come again. The pc goes on when the memory
delivers nothing and when the instruction is illegal (`sys.vhd:123`), restart
wins over an ebreak at the same edge (`sys.vhd:79`), restart and step do not
look at the halt that `core.vhd:28-29` says they are for, and the last results
may still be on their way through ALU and bus when `o_exu_empty` says the unit
is empty (`exu.vhd`). `dmem_ptr` loops the request's entry back to the answer
(`core.vhd:152`), so an answer is never for the load that was asked for earlier
(`Answered`).

*Load and store unit.* The mask of the loads that are ready reaches the age
matrix reversed: `ldu.vhd:119` declares `load_rdy` as `0 to LDU_SIZE-1`,
`dispatcher.vhd:23` declares `i_rd_mask` as `downto`, and the port map at
`ldu.vhd:325` joins the two from left to right, so that the bit of load `i`
stands for entry `LDU_SIZE-1-i` (`i_rd_mask` in `Ldu`). The request is then for
another entry than the one that is ready: memory is asked twice for one load, or
for one of a later group, and never for another, and the matrix frees columns of
loads that still wait. The ports `i_mem_resp_valid`, `i_mem_resp_qr` and
`i_mem_resp_data` are declared `out` (`ldu.vhd:69-71`), though the process reads
them and `lsu.vhd` connects them to what the memory answers; they are modelled as
the inputs they are used as (`resp` of `DataWriteBack`).
A load is requested whether its address is there or not
(`ldu.vhd:158`). `commit_flags` does not look at the group, and the groups of
entries that are not busy are still compared (`ldu.vhd:286`, `stu.vhd:187`): with
an empty mask the matrix gives entry 0, and memory is asked for that entry,
whatever it holds; a stale group can also keep the read group open
for ever. A load that a store serves before memory was asked is not marked as
speculative and retires while older stores wait, against the policy of
`ldu.vhd:6`; `WaitsForOlderStores` is about loads that memory was asked for. A load
that is dispatched into an entry at the very edge of a request for this entry
takes the mark of the request from the dependency bits of the entry's last load:
it can retire past older stores (these loads are `stray`, the other exception of
`WaitsForOlderStores`). When the last
dependency goes at the edge of the request the mark stays for ever
(`ldu.vhd:252-270`). A load dispatched at the edge at which a store leaves keeps
that store's bit and waits for the next one in its place. Loads that are served by a store never leave the
age matrix. The wake-up loop of the load buffer counts to the size of the store
buffer (`ldu.vhd:218`). An answer to a retired load can reach the next one in its
entry, unless, as now, the memory answers at once.

*C engine.* A commit clears the dirty flag though a younger instruction writes the
register (`reg.c:69`). More units can finish than there are lanes (`engine.c:392`;
`main.c:28-29` sets two units and one lane), and the results are lost.
`engine.c:249` stores operand K in `vj` (`OperandJ`, `OperandK`);
`engine.c:262` drops an operation when the execution buffer is full (`Insert`;
`sw_engine` holds because its buffer is as large as the re-order buffer, `main.c`
makes it smaller); `dispatch` ignores an instruction when the re-order buffer is
full and the pc goes on (`engine.c:564`).

*Instruction set simulator.* `Deviates` in `MCIss` lists where `FollowsIsa`
makes an exception, each clause a fact of the source: ADD and SUB fall through to
SLL, SRL and SRA to OR (`decoder.c:573-607`); unsigned comparisons go by absolute
value; JALR writes the link before it reads `rs1` and keeps bit 0; the offsets of
C.LWSP, C.SWSP, C.LW and C.SW are scaled twice; C.SW and C.ADDI4SPN do not
advance the pc, because their type numbers are those of J and B
(`simulator.c:64`); the immediate of C.ADDI4SPN is misplaced and it overwrites the
stack pointer; C.BEQZ and C.BNEZ go on by four when not taken; C.NOP and
C.ADDI16SP are never decoded (`decoder.c:295`). `procDestroy` clears four of the
registers (`procState.c:51`).

*Debugger.* `stepCmd` and `continueCmd` (`debugger.c:851`, `870`) run the replaced
instruction of a break point at the pc, if there is one, and leave the rest to
whoever opened the prompt; neither they nor `exitCmd` look at where they are.
`DebugRunIsPlainRun` excepts what follows from it, clause by clause:

* at a break point that was hit on a branch or a jump, the pc goes to the target
  and `updatePC` then adds the length of the `ebreak`, since it looks at the type
  of what was fetched (`simulator.c:61-83`): the first instruction at the target
  is passed over, or its middle is executed (`PassesTarget`);
* when the break point that was hit is deleted, nothing is left to run in the
  prompt and the pc still goes on: the instruction is skipped. So is the target
  of a jump out of the prompt of an `ebreak`, and what was written there
  (`SkipsInstruction`);
* at the prompt of the loop, on a break point that was set there just now or that
  step mode has come to, enabled or not, the replaced instruction runs in the
  prompt and what was fetched runs after it: the instruction itself, a second time,
  or the `ebreak`, whose prompt runs the replaced instruction again (`RunsTwice`);
* at the prompt of the loop the instruction is already fetched, and a byte written
  into it, or a break point deleted there, comes too late (`RunsStale`);
* exit at the prompt of the loop still executes the fetched instruction, which
  may be an `ebreak` and open another prompt, in which the state is already stop
  but commands still run instructions (`RunsAfterExit`).

A step or continue at a break point on an `ebreak` of the program runs that
`ebreak`, which opens a prompt with the same pc and the same break point: each
further step nests one prompt deeper, without end. `MaxNest` cuts this off; delete,
jump or exit lead out of it, and are taken at each depth.

Disabling all break points only sets flags (`debugger.c:357`),
although the comment at line 352 says that it "places the instruction back in
memory"; enabling all of them does the same.

## 5. Proofs

A theorem holds for every value of the constants, where a run is one small
instance. The proofs rest on the named assumptions of the modules and on nothing
else:

| Assumption | Says | Because |
|---|---|---|
| `SizeAssumption`, `ValAssumption` | the ring has `2^ROB_LEN` slots, there is a register, zero is a word | the generics of `rgu.vhd` |
| `MatrixSizeAssumption` | a matrix has a row | `dispatcher.vhd` |
| `TagIsSlot`, `NoLoadOrStore` | a tag is a slot, the other initiator of the bus is silent | `Backend` sees the execution unit only: without loads and stores every tag on the bus names a slot |
| `ContentionAssumption` | the other initiator is there or not | |
| `LsuSizeAssumption`, `AddressAssumption` | a store buffer, a group number of some width, an address | the generics of `lsu.vhd` |
| `GroupCountAssumption` | `2^GRP_LEN` is a positive number | follows from the above by an induction that the prover cannot do |
| `SwSizeAssumption`, `WordAssumption`, `EngineAssumption` | the arrays of the C engine are not empty, zero is a word, a latency is a number | `main.c`, `unit.c` |
| `AddrAssumption`, `ProgramAssumption` | an address is part of a word, a program a sequence of words | `procState.h` |
| `MemSizeAssumption` | `2^ADDR_LEN` is a number and at least 4 | follows from `AddrAssumption`; the prover does not compute powers |

**Register and re-order unit** (`RguProofs`).

* `RingWindowHolds`: `RobTypeOK /\ RingWindow` is inductive. The lemma that
  matters, `RobEdgeInv`, follows ages through an edge: a dispatch adds the age of
  `wr_ptr`, a commit takes age 0 away and shifts the others by one, and with both
  the window moves.
* `RenamingIsRight`, `RguTypeCorrect`: `SrcIsYoungestWriter` needs the window,
  because slots are reused and "youngest" means nothing without it; the inductive
  invariant is `RguInv == RobInv /\ RguTypeOK /\ SrcIsYoungestWriter`. The step
  splits on whether the edge renames the register, else whether it settles it.
* `ReadyWhenSettled`: the action property follows from `RguInv` at the edge: the
  last writer that leaves is the youngest, hence the one `src` names.
* `RguImplementsInOrder`: the refinement. What is in flight, read from `rd_ptr`
  on, is the queue of `InOrder`; an edge is a step of it because the window of
  after the edge is that of before without its head, with the new slot at its
  end, or both.

**Age matrix and execution buffer** (`AgeMatrixProofs`, `ExbProofs`).

* `AgeMatrixIsOneToOne`: `MatrixTypeOK /\ OneEntryPerColumn` is inductive.
  `CellAfterEdge` describes the next matrix by the set of shifted columns, which
  is closed upwards; the five ways a cell can come about are then compared.
* `OldestOfMaskIsRead`: with one entry in each column the column that is read
  holds the oldest entry of whatever mask is given.
* `BufferAndMatrixAgree`, `OneReadyEntryIsIssued`: the invariant is
  `ExbInv == ExbTypeOK /\ OneEntryPerColumn /\ Present = Busy`. Neither half can
  be kept alone: the row that is read is a ready entry because the matrix holds
  the busy entries, and it goes on holding them because that row is one entry.
* `OldestReadyIsIssued`: the refinement of `OldestReady`. The sequence of entries
  by column is shown to lose what is issued and to gain what is dispatched at its
  end (`OrderAfterStep`), for every number of entries.

**Units and bus** (`ExuBusProofs`).

* `OneCopyOfEachOperation`, `OperationsLeaveOverBus`: the invariant `BusInv` adds
  to that of the buffer that the other initiator holds no tag of the unit, and that
  the token stays where it is while nobody contends; without the second an
  uncontended bus could deny a result.

**Back end** (`BackendProofs`). `Rgu` assumes of its surroundings that a broadcast
is for an unfinished slot, `ExuBus` that a tag is not dispatched while it is held.
Each is true only because of the other unit. `BackInv == RguInv /\ BusInv /\
UnfinishedAreHeld` closes the circle: the unfinished slots are the tags that the
units hold. Then

* `UnitsAgreeOnFlight` and `BackendTypeCorrect` state its parts,
* `BusMeetsRguAssumption` and `SlotsMeetBusAssumption` say that every step of the
  composition is a step of either unit alone, so that
* `RenamingIsRightInBackend` takes the units' theorems over to the composition.

**Load and store unit** (`LsuProofs`). `LsuInv` has three parts. `StuInv`: the busy
stores are a window from the head on, and along it the distance of a store's group
from the group being written never falls. `LduInv`: types, and a load is done
exactly when it has data. `HistoryInv`: the dependency bits of a load cover the
stores from before it, and a load that was sent without the speculation mark has
none. From it follow

* `StoresAreInOrder` (`StoreRing`), `LsuTypeCorrect`;
* `NoGroupIsPassed` (`NobodyLeftBehind`), which needs the ring: the unit looks at
  the head of the store buffer only, and the head answers for the rest because
  groups do not fall behind it;
* `LoadsWaitForStores` (`WaitsForOlderStores`), `StoreWordIsKept`
  (`StoreBeatsMemory`), which need the history.

They hold for any number of loads and stores in any order, any bus and any memory,
and for whichever load the reversed mask makes the matrix choose: no part of
`HistoryInv` needs the entry that is sent to be one that is ready. `LoadsWaitForStores` has the two
exceptions of section 4, loads a store served before memory was asked and loads
dispatched at the edge of a request for their entry.

**C engine** (`SwEngineProofs`). `EngInv` is kept by each of the five stages, in
whatever state the one before leaves the arrays. `Ring` and `DirtyIsInFlight` are
about the re-order buffer and the registers; `Holding` says that who holds an
operation or waits for one, holds or waits for an instruction without a result;
`Apart`, that no two places hold the same one and that what is on a lane has been
heard by all who waited for it. Before the first write-back the lanes hold what
`malloc` left there (`Fresh`).

* `EngineTypeCorrect`, `WaitersWaitForUndone` (`NobodyWaitsForDone`),
  `OperationsAreNotCopied`: these hold also where a full buffer or too few lanes
  drop operations.
* `RetiresInOrder`: the refinement of `RetireQueue`, equally without exception:
  operations may be lost, but none retires before an older one.
* `OperationsAreLostOnlyWhereFull`: the code drops operations, and with the sizes
  of `main.c` (8 entries for 64 slots, 1 lane for 2 units) it does. The theorem says
  where, for every size: an operation that is held before a step is held after it,
  and one that is dispatched is held, but for the one that `dispatch` finds no free
  entry for and those whose unit finishes in `write_back` after the units that take
  all the lanes. `EveryUndoneIsHeld` is its consequence where neither can happen,
  as in the run `sw_engine`, whose sizes exclude both.

**Instruction set simulator and debugger** (`IssProofs`). `ADDR_LEN`, the programs
and what the user types are arbitrary. A large part of the module is about the two
recursions the models use: the value of a field and the bytes of a write
(`IterationExists`), and the folds over the calls of an instruction, the words of
a program and the nodes of the list (`FoldExists`, `FoldStays`). The library's
induction takes an operator as a parameter and cannot be cited; that a recursion
has a solution, and that the solution stays in a set, is shown from the least
number at which it would not.

* `StructuresAreFilled` (`OperandsAreFilled`): the switch on the type and the
  switch on the fields agree for every word of 32 bits, where the run has some of
  each shape. `FullGiven` and `CompressedGiven` are the two encodings.
* `SimTypeCorrect`: `Sound`, a processor with its memory and a zero `x0`, is kept by
  each function of `instructionsRV32E.c` and of `instructionsRV32C.c` for operands
  of the types that the fields have (`SoundFull`, `SoundCompressed`), hence by
  `runInstruction` whatever the word.
* `DebugTypeCorrect`: the same of the debugger, whether the user is careful or not.
  `PromptOK` adds that the modes of the waiting commands are modes, which the last
  of them to return writes back.
* `BreakpointsAreKept` (`BreakpointsHold`): `WriteContents` and `ReadBack` say that a
  write of up to four bytes lands, also where it wraps around the end of the
  memory, and touches no other byte. With them each command of a careful user keeps
  the ebreak or the saved instruction under every node, and the nodes apart. The
  theorem assumes `SparesBreaks`: what the simulator executes does not store into
  the bytes under a break point. That is a fact of the program and not of the
  debugger, which does nothing to prevent it; the program of the run `debugger` is
  such a program.

What the properties say of fairness is not in these theorems: they are of
`...Spec`, the specification without it, so they hold whatever is scheduled.

Only model-checked:

* liveness (`ReadyIsIssued`, `BusIsGranted`, `ReadyOpIsFinished`,
  `OldestGetsDone`): fairness and `ENABLED` are beyond the prover;
* `FollowsIsa`: two decoders compared instruction by instruction, outside the words
  that `Deviates` lists; a proof would go through the same cases as the run, one
  opcode after the other;
* `DebugRunIsPlainRun`: it speaks of the memory with the list folded over it, and
  needs of each instruction that it commutes with putting the nodes back; what is
  proved is that the nodes have the right bytes to put back;
* the runs that expect a violation (section 4).

Where a proof needs the least of a set of numbers (the first free entry or lane of
the C engine, the recursions of the simulator), `LessIsWellFounded` gives it for
the order as a set of pairs; the theorems that take an operator for the order
cannot be cited. No module that is proved about, and none it extends, uses a
recursive operator.

## 6. Not modelled yet, and the plan

1. Proofs: `DebugRunIsPlainRun` for programs that spare the break points, from
   `BreakpointsAreKept`.
2. The arithmetic of `alu.vhd` and `unit.c` as operators over `Words`, compared
   with `Isa`; `Fifo` and `Stack`.
3. `rob_flush` and the instruction stream of the C engine.

`Core` is checked only on the question of `core_tags`: with the deviations of
section 4 an unrestricted program of loads and stores keeps no promise of the
units beyond those that `lsu` and `rgu` show of any input, and for programs of
ALU instructions `Backend` is the smaller model. `Kinds` and `Inputs` restrict
its programs and ports.

Left out for good: floating point (bit-level data paths that are unfinished and
not instantiated), the compressed-instruction table of `decompress.vhd`, the
branch unit's skeleton, memories, archived designs, file readers, printing and
disassembly, and the vendored test framework.
