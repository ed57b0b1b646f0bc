------------------------------- MODULE SwRob -------------------------------
(***************************************************************************)
(* The re-order buffer of the C simulator, sw/src/rob.c, and its register  *)
(* file, sw/src/reg.c.  One operator per function that changes them; the   *)
(* simulator is sequential, a call runs to its end.                        *)
(***************************************************************************)
EXTENDS Integers, FiniteSets, FiniteSetsExt, Sequences

CONSTANTS
  RobSize,   \* entries of the re-order buffer
  RegSize,   \* registers
  Word       \* data words

ASSUME SwSizeAssumption == RobSize \in Nat \ {0} /\ RegSize \in Nat \ {0}
ASSUME WordAssumption   == 0 \in Word

VARIABLES
  rob_dest, rob_data, rob_done,   \* the entries, field by field
  commit_ptr, issue_ptr, cnt,
  reg_x, reg_s, reg_d             \* value, source entry, dirty flag

robVars == <<rob_dest, rob_data, rob_done, commit_ptr, issue_ptr, cnt>>
regVars == <<reg_x, reg_s, reg_d>>

Slot == 0 .. RobSize - 1
Reg  == 0 .. RegSize - 1

\* Mutant: the pointers do not wrap.
NextPtr_NoWrap(p) == p + 1

NextPtr(p) == (p + 1) % RobSize

rob_full == cnt = RobSize

\* The entries that are allocated, oldest first.
Nth(k) == (commit_ptr + k - 1) % RobSize
InRob  == {Nth(k) : k \in 1 .. cnt}

\* rob_create and reg_create: malloc leaves the entries as they were, and
\* calloc clears the sources and the dirty flags.  Values of registers and
\* data words start at 0, their content is never looked at before a write.
RobInit ==
  /\ rob_dest \in [Slot -> Reg]
  /\ rob_data = [i \in Slot |-> 0]
  /\ rob_done \in [Slot -> BOOLEAN]
  /\ commit_ptr = 0 /\ issue_ptr = 0 /\ cnt = 0

RegInit ==
  /\ reg_x = [r \in Reg |-> 0]
  /\ reg_s = [r \in Reg |-> 0]
  /\ reg_d = [r \in Reg |-> FALSE]

rob_issue(dest) ==
  /\ ~rob_full
  /\ rob_dest' = [rob_dest EXCEPT ![issue_ptr] = dest]
  /\ rob_done' = [rob_done EXCEPT ![issue_ptr] = FALSE]
  /\ issue_ptr' = NextPtr(issue_ptr)
  /\ cnt' = cnt + 1
  /\ UNCHANGED <<rob_data, commit_ptr>>

\* words is a set of [qr, result] records: one call for each of them.
rob_write(words) ==
  /\ rob_data' = [i \in Slot |-> IF \E w \in words : w.qr = i
                                 THEN (CHOOSE w \in words : w.qr = i).result
                                 ELSE rob_data[i]]
  /\ rob_done' = [i \in Slot |-> rob_done[i] \/ \E w \in words : w.qr = i]
  /\ UNCHANGED <<rob_dest, commit_ptr, issue_ptr, cnt>>

\* Mutant: an entry leaves without its result.
CanCommit_NotDone == cnt # 0

CanCommit == cnt # 0 /\ rob_done[commit_ptr]

rob_commit ==
  /\ CanCommit
  /\ commit_ptr' = NextPtr(commit_ptr)
  /\ cnt' = cnt - 1
  /\ UNCHANGED <<rob_dest, rob_data, rob_done, issue_ptr>>

reg_write_data(addr, data) ==
  /\ reg_x' = [r \in Reg |-> IF r = addr /\ r # 0 THEN data ELSE reg_x[r]]
  /\ reg_d' = [r \in Reg |-> reg_d[r] /\ (r # addr \/ r = 0)]
  /\ UNCHANGED reg_s

reg_write_src(addr, src) ==
  /\ reg_s' = [r \in Reg |-> IF r = addr /\ r # 0 THEN src ELSE reg_s[r]]
  /\ reg_d' = [r \in Reg |-> reg_d[r] \/ (r = addr /\ r # 0)]
  /\ UNCHANGED reg_x

-----------------------------------------------------------------------------
SwRobTypeOK ==
  /\ rob_dest \in [Slot -> Reg]
  /\ rob_data \in [Slot -> Word]
  /\ rob_done \in [Slot -> BOOLEAN]
  /\ commit_ptr \in Slot /\ issue_ptr \in Slot /\ cnt \in 0 .. RobSize
  /\ reg_x \in [Reg -> Word]
  /\ reg_s \in [Reg -> Slot]
  /\ reg_d \in [Reg -> BOOLEAN]

=============================================================================
