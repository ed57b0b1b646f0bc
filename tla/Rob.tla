-------------------------------- MODULE Rob --------------------------------
(***************************************************************************)
(* The re-order buffer, hw/src/rgu/rob.vhd: a ring of slots.  A dispatched *)
(* instruction takes the slot at wr_ptr, its result is written into that   *)
(* slot whenever it arrives, and the slot at rd_ptr retires into the       *)
(* register file once its result is there.                                 *)
(*                                                                         *)
(* One step is a rising clock edge with the reset inactive.  Dispatch,     *)
(* write-back and commit all happen at that edge, from the values the      *)
(* registers held before it.  The record of a slot is kept as one function *)
(* per field.                                                              *)
(***************************************************************************)
EXTENDS CoreParams, Sequences, FiniteSetsExt

VARIABLES
  rob_rd,      \* destination register of each slot
  rob_result,  \* result field of each slot
  rob_valid,   \* the result field holds the result
  rob_busy,    \* the slot is allocated
  wr_ptr,      \* slot of the next dispatched instruction
  rd_ptr       \* slot of the oldest instruction

robVars == <<rob_rd, rob_result, rob_valid, rob_busy, wr_ptr, rd_ptr>>

full   == \A i \in Slot : rob_busy[i]

\* Mutants of commit: without one of its conditions.
commit_NotBusy  == rob_valid[rd_ptr]
commit_NoResult == rob_busy[rd_ptr]

commit == rob_valid[rd_ptr] /\ rob_busy[rd_ptr]

\* Position of slot i counted from the oldest one: `hit ror rd_ptr`.
Age(i) == IF i >= rd_ptr THEN i - rd_ptr ELSE i - rd_ptr + ROB_SIZE

-----------------------------------------------------------------------------
\* Reset clears the busy bits and the pointers; the other fields keep
\* whatever the flip-flops hold.
RobInit ==
  /\ rob_rd \in [Slot -> Reg]
  /\ rob_result \in [Slot -> Val]
  /\ rob_valid \in [Slot -> BOOLEAN]
  /\ rob_busy = [i \in Slot |-> FALSE]
  /\ wr_ptr = 0
  /\ rd_ptr = 0

(***************************************************************************)
(* A clock edge.  disp asks for a slot for destination rd; wb is what the  *)
(* common data bus carries.  Where two operations assign the same field    *)
(* the later one in the process wins: a write-back over a dispatch, a      *)
(* commit over a dispatch.                                                 *)
(***************************************************************************)
RobEdge(disp, rd, wb) ==
  LET alloc(i) == disp /\ ~full /\ i = wr_ptr
      write(i) == wb.valid /\ i = wb.addr
      free(i)  == commit /\ i = rd_ptr
  IN  /\ rob_rd' = [i \in Slot |-> IF alloc(i) THEN rd ELSE rob_rd[i]]
      /\ rob_result' = [i \in Slot |-> IF write(i) THEN wb.result ELSE rob_result[i]]
      /\ rob_valid' = [i \in Slot |-> write(i) \/ (rob_valid[i] /\ ~alloc(i))]
      /\ rob_busy' = [i \in Slot |-> ~free(i) /\ (rob_busy[i] \/ alloc(i))]
      /\ wr_ptr' = IF disp /\ ~full THEN Inc(wr_ptr) ELSE wr_ptr
      /\ rd_ptr' = IF commit THEN Inc(rd_ptr) ELSE rd_ptr

-----------------------------------------------------------------------------
(***************************************************************************)
(* Forwarding of a result that has not retired yet.  The hit vector is     *)
(* rotated so that the oldest slot comes first, the highest hit is kept,   *)
(* and its position is turned back into a slot address.  The code does     *)
(* this last step by rotating the BITS of the position left by rd_ptr      *)
(* (unsigned rol integer), and that is what is modelled here.              *)
(***************************************************************************)
Hits(rs) == {i \in Slot : rob_busy[i] /\ rob_rd[i] = rs}

RotateLeft(word, n) ==
  LET k == n % ROB_LEN
  IN  ((word * 2^k) % ROB_SIZE) + (word \div 2^(ROB_LEN - k))

\* With no hit the encoders return 'X', which to_integer reads as 0.
ForwardAddr(rs) ==
  IF Hits(rs) = {} THEN 0
  ELSE RotateLeft(Max({Age(i) : i \in Hits(rs)}), rd_ptr)

ForwardReady(rs) == rob_valid[ForwardAddr(rs)] /\ Hits(rs) # {}

-----------------------------------------------------------------------------
\* i_flush empties the ring and forgets the other inputs of that edge.
RobFlush ==
  /\ rob_busy' = [i \in Slot |-> FALSE]
  /\ wr_ptr' = 0
  /\ rd_ptr' = 0
  /\ UNCHANGED <<rob_rd, rob_result, rob_valid>>

(***************************************************************************)
(* The units that write back: a broadcast carries the result of one        *)
(* instruction in flight that has none yet.                                *)
(***************************************************************************)
NoResult == [valid |-> FALSE]
ResultFor(slots) == [valid : {TRUE}, addr : slots, result : Val]
Unfinished == {i \in Slot : rob_busy[i] /\ ~rob_valid[i]}

Broadcast == {NoResult} \cup ResultFor(Unfinished)

RobNext ==
  \/ RobFlush
  \/ \E disp \in BOOLEAN, rd \in Reg, wb \in Broadcast : RobEdge(disp, rd, wb)

RobSpec == RobInit /\ [][RobNext]_robVars

-----------------------------------------------------------------------------
RobTypeOK ==
  /\ rob_rd \in [Slot -> Reg]
  /\ rob_result \in [Slot -> Val]
  /\ rob_valid \in [Slot -> BOOLEAN]
  /\ rob_busy \in [Slot -> BOOLEAN]
  /\ wr_ptr \in Slot
  /\ rd_ptr \in Slot

(***************************************************************************)
(* The allocated slots are exactly those from rd_ptr up to wr_ptr, and a   *)
(* full ring is the one whose pointers meet: although the code decides     *)
(* full and empty from the busy bits and moves the pointers on their own   *)
(* conditions (dispatch and commit of rob.vhd, at one edge), the two never *)
(* drift apart.                                                            *)
(***************************************************************************)
RingWindow ==
  IF full THEN wr_ptr = rd_ptr
  ELSE \A i \in Slot : rob_busy[i] <=> Age(i) < Age(wr_ptr)

(***************************************************************************)
(* The ring seen as a queue in program order, oldest first.                *)
(***************************************************************************)
Nth(k) == (rd_ptr + k - 1) % ROB_SIZE

InFlight ==
  [k \in 1 .. Cardinality({i \in Slot : rob_busy[i]}) |->
     [rd     |-> rob_rd[Nth(k)],
      result |-> IF rob_valid[Nth(k)] THEN {rob_result[Nth(k)]} ELSE {}]]

(***************************************************************************)
(* What rob.vhd:158-161 says of forwarding: of several slots that write    *)
(* the source register the latest one is forwarded, and a value is         *)
(* forwarded only from a slot that writes that register.                   *)
(***************************************************************************)
ForwardsLatest ==
  \A rs \in Reg \ {0} : ForwardReady(rs) =>
    /\ ForwardAddr(rs) \in Hits(rs)
    /\ \A i \in Hits(rs) : Age(i) <= Age(ForwardAddr(rs))

=============================================================================
