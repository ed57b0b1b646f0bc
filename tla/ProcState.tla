----------------------------- MODULE ProcState -----------------------------
(***************************************************************************)
(* The processor of the instruction set simulator                          *)
(* (sw/ELE749_projet1-develop/src/procState.c).  The static struct proc is *)
(* a record p; each function of the file that changes it is an operator    *)
(* that returns the record of after the call.                              *)
(***************************************************************************)
EXTENDS Words

CONSTANT ADDR_LEN     \* the memory has 2^ADDR_LEN bytes; 24 in procState.h

ASSUME AddrAssumption == ADDR_LEN \in 2 .. XLEN - 1

PROC_MEMSIZE == 2^ADDR_LEN

\* Follows from the above; the proofs need it said.
ASSUME MemSizeAssumption == PROC_MEMSIZE \in Nat /\ PROC_MEMSIZE >= 4

PROC_REGSIZE == 16

Addr == 0 .. PROC_MEMSIZE - 1
RegNum == 0 .. PROC_REGSIZE - 1

\* What procDestroy leaves in mem, the null pointer.
NoMem == << >>

\* addr % PROC_MEMSIZE: the size is a power of two.
Wrap(a) == a \cap (0 .. ADDR_LEN - 1)

Proc == [pc  : SUBSET (0 .. ADDR_LEN - 1),
         x   : [RegNum -> Word],
         mem : [Addr -> Byte] \cup {NoMem}]
AddrOf(a) == Num(a, ADDR_LEN - 1, 0)

procInit ==
  [pc |-> Zero, x |-> [r \in RegNum |-> Zero], mem |-> [a \in Addr |-> {}]]

\* memset clears PROC_REGSIZE bytes, that is, four registers.
procDestroy(p) ==
  [pc  |-> Zero,
   x   |-> [r \in RegNum |-> IF r < PROC_REGSIZE \div 4 THEN Zero ELSE p.x[r]],
   mem |-> NoMem]

procWriteReg(p, reg, val) ==
  IF reg = 0 \/ reg >= PROC_REGSIZE THEN p ELSE [p EXCEPT !.x[reg] = val]

procReadReg(p, reg) == IF reg >= PROC_REGSIZE THEN Zero ELSE p.x[reg]

\* The n low bytes of a word go to addr and the addresses after it, the low
\* byte first.
procWriteMem(p, addr, data, n) ==
  IF p.mem = NoMem
  THEN p
  ELSE LET first == AddrOf(addr)
           byte(i) == Field(data, 8 * i + 7, 8 * i)
           after[i \in 0 .. n] ==
             IF i = 0
             THEN p.mem
             ELSE [after[i - 1] EXCEPT ![(first + i - 1) % PROC_MEMSIZE] = byte(i - 1)]
       IN  [p EXCEPT !.mem = after[n]]

\* The n bytes at addr as a word; its other bits are zero.
procReadMem(p, addr, n) ==
  LET first == AddrOf(addr)
  IN  UNION {Put(p.mem[(first + i) % PROC_MEMSIZE], 7, 0, 8 * i) : i \in 0 .. n - 1}

\* Mutant: the program counter leaves the memory.
procSetPC_NoWrap(p, new_pc) == [p EXCEPT !.pc = new_pc]

procSetPC(p, new_pc) == [p EXCEPT !.pc = Wrap(new_pc)]

procUpdatePC(p, offset) == procSetPC(p, Wrap(Add(p.pc, offset)))

=============================================================================
