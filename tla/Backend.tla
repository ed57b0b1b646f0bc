------------------------------ MODULE Backend ------------------------------
(***************************************************************************)
(* The register and re-order unit, the execution unit and the common data  *)
(* bus wired together as in hw/src/core.vhd, for programs of the           *)
(* instructions that both units handle (OP, OP_IMM, LUI, AUIPC, JAL and    *)
(* JALR; no load or store, so the load and store unit stays silent).       *)
(*                                                                         *)
(* Here nothing is assumed of the bus: the words on it are the ones the    *)
(* execution unit puts there, and the tag of an operation is the slot the  *)
(* re-order buffer gave it.                                                *)
(***************************************************************************)
EXTENDS Rgu, ExuBus

\* tag_format(UNIT_RGU_ROB, slot) is written as the slot.
ASSUME TagIsSlot == Tag = Slot

\* The load and store unit has nothing to put on the bus.
ASSUME NoLoadOrStore == ~Contended

backVars == <<rguVars, busVars>>

BackInit == RguInit /\ BusInit

\* i_cdbr of the register and re-order unit.
cdbr_wb == IF cdbr = {} THEN {NoResult} ELSE ResultFor(cdbr)

\* Mutant: the operation is tagged with the oldest slot.
OpOf_Oldest(rs1, rs2) ==
  [busy |-> TRUE, tj |-> Operand(rs1), tk |-> Operand(rs2), tq |-> rd_ptr]

\* The operation that core.vhd:342-359 forms.  An operand that is an
\* immediate or the pc is there at once, as register 0 is.
OpOf(rs1, rs2) == [busy |-> TRUE, tj |-> Operand(rs1), tk |-> Operand(rs2), tq |-> wr_ptr]

\* Mutant: the execution buffer does not stall.
sys_full_NoExu == full

sys_full == full \/ exb_full

Stalled ==
  \E wb \in cdbr_wb : RguEdge(FALSE, 0, wb) /\ BusEdge(Free)

Dispatched ==
  /\ ~sys_full
  /\ \E wb \in cdbr_wb, rd, rs1, rs2 \in Reg :
       RguEdge(TRUE, rd, wb) /\ BusEdge(OpOf(rs1, rs2))

BackNext == Stalled \/ Dispatched

BackSpec == BackInit /\ [][BackNext]_backVars

BackFairSpec == BackSpec /\ WF_backVars(BackNext)

-----------------------------------------------------------------------------
BackTypeOK == RguTypeOK /\ BusTypeOK

(***************************************************************************)
(* The two units, which share no state, agree on what is in flight: the    *)
(* slots without a result are those whose operation is in the execution    *)
(* unit.  A slot whose operation were lost would block the commit for      *)
(* ever; one that is finished twice would overwrite a later instruction.   *)
(***************************************************************************)
UnfinishedAreHeld == Unfinished = Held

\* What the register and re-order unit assumes of the bus (Broadcast) and
\* what the execution unit assumes of its tags (BusNext) are true here.
MeetsRguAssumption == RguSpec
MeetsBusAssumption == BusSpec

\* The result of an operation that has its operands reaches its slot.
Ready(s) == \E i \in op_rdy : exb_buf[i].tq = s

ReadyOpIsFinished == \A s \in Slot : Ready(s) ~> rob_valid[s]

(***************************************************************************)
(* reg.vhd:48 says of the data of a register that is not ready that it     *)
(* "will be produced by src rob entry".  That entry produces it once, on    *)
(* the bus: no operand can still wait for it after that edge.              *)
(***************************************************************************)
Produces(t, r) == r # 0 /\ rob_rd[t] = r /\ x_src[r] = t

NoMissedBroadcast ==
  [][\A t \in cdbr, r \in Reg, i \in Busy' :
       Produces(t, r) => t \notin exb_buf'[i].tj \cup exb_buf'[i].tk]_backVars

=============================================================================
