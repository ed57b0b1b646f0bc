-------------------------------- MODULE Rgu --------------------------------
(***************************************************************************)
(* The register and re-order unit, hw/src/rgu/rgu.vhd: the re-order buffer *)
(* and the register file on one clock.  A dispatched instruction that      *)
(* writes a register takes a slot and renames the register to it; a slot   *)
(* that retires writes the register.                                       *)
(***************************************************************************)
EXTENDS Rob, RegFile

\* What an operand that reads rs awaits: nothing when the register or the
\* re-order buffer has its value, else the slot that will produce it.
Operand(rs) == IF x_ready[rs] \/ ForwardReady(rs) THEN {} ELSE {x_src[rs]}

rguVars == <<robVars, regVars>>

RguInit == RobInit /\ RegInit

RguEdge(disp, rd, wb) ==
  /\ RobEdge(disp, rd, wb)
  /\ RegEdge(disp, rd, wr_ptr, commit, rob_rd[rd_ptr], rd_ptr, rob_result[rd_ptr])

(***************************************************************************)
(* core.vhd holds an instruction back while the re-order buffer is full    *)
(* (sys_full stalls, a stalled instruction is not valid): dispatch into a  *)
(* full buffer does not happen.  The flush of the buffer is tied to '0'.   *)
(***************************************************************************)
RguNext ==
  \E disp \in BOOLEAN, rd \in Reg, wb \in Broadcast :
    /\ disp => ~full
    /\ RguEdge(disp, rd, wb)

RguSpec == RguInit /\ [][RguNext]_rguVars

-----------------------------------------------------------------------------
RguTypeOK ==
  /\ RobTypeOK
  /\ x_data \in [Reg -> Val]
  /\ x_src \in [Reg -> Slot]
  /\ x_ready \in [Reg -> BOOLEAN]

(***************************************************************************)
(* Renaming: while an instruction in flight writes a register, the         *)
(* register is not ready and its src is the youngest such instruction.     *)
(* This is what lets a dispatched instruction find each operand by one     *)
(* look at the register file (rgu.vhd, tj and tk).  It is at risk whenever *)
(* a retirement and a dispatch meet on one register at one edge.           *)
(***************************************************************************)
SrcIsYoungestWriter ==
  \A r \in Reg \ {0} : Hits(r) # {} =>
    /\ ~x_ready[r]
    /\ x_src[r] \in Hits(r)
    /\ \A i \in Hits(r) : Age(i) <= Age(x_src[r])

(***************************************************************************)
(* When the last writer of a register in flight retires the register       *)
(* becomes ready, and it stays ready until it is renamed: the comparison   *)
(* of slot numbers in reg.vhd never misses the writer it waits for, though *)
(* slot numbers are reused.                                                *)
(***************************************************************************)
ReadyOnceWritersRetire ==
  [][\A r \in Reg \ {0} :
       (Hits(r) # {} \/ x_ready[r]) /\ Hits(r)' = {} => x_ready'[r]]_rguVars

Architecture == INSTANCE InOrder
                  WITH Dest <- Reg, Word <- Val, Depth <- ROB_SIZE,
                       queue <- InFlight, regs <- x_data

\* The unit implements in-order retirement: seen from the registers, an
\* out-of-order run cannot be told from one instruction after the other.
RegistersChangeInOrder == Architecture!ISpec

=============================================================================
