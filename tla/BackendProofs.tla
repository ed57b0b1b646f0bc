--------------------------- MODULE BackendProofs ---------------------------
(***************************************************************************)
(* The two units wired together, for every size and every program of the   *)
(* instructions that both handle.  Neither unit's invariant can be kept    *)
(* alone: the re-order buffer needs the bus to name unfinished slots, the  *)
(* execution unit needs tags that are not in use.  What closes the circle  *)
(* is that the unfinished slots are the tags that the execution unit       *)
(* holds; each assumption is then a theorem about the other unit.          *)
(***************************************************************************)
EXTENDS Backend, RguProofs, ExuBusProofs

BackInv == RguInv /\ BusInv /\ UnfinishedAreHeld

\* An edge of both units, an instruction dispatched to both or to neither.
BackStep(disp, rd, wb, op) ==
  /\ disp \in BOOLEAN /\ rd \in Reg /\ wb \in cdbr_wb /\ op \in Dispatch
  /\ disp => ~full /\ ~exb_full /\ op.tq = wr_ptr
  /\ op.busy <=> disp
  /\ RguEdge(disp, rd, wb)
  /\ BusEdge(op)

-----------------------------------------------------------------------------
\* An operand awaits nothing or one slot, so what core.vhd forms is an
\* operation.
LEMMA OpIsOperation ==
  ASSUME RguInv, NEW rs1 \in Reg, NEW rs2 \in Reg
  PROVE  /\ OpOf(rs1, rs2) \in Dispatch
         /\ OpOf(rs1, rs2).busy
         /\ OpOf(rs1, rs2).tq = wr_ptr
  <1>1. wr_ptr \in Tag /\ \A r \in Reg : x_src[r] \in Tag
    BY TagIsSlot DEF RguInv, RguTypeOK, RobInv, RobTypeOK
  <1>2. Operand(rs1) \in AtMostOne(Tag) /\ Operand(rs2) \in AtMostOne(Tag)
    BY <1>1 DEF Operand, AtMostOne
  <1>3. OpOf(rs1, rs2) \in Operation(Tag)
    BY <1>1, <1>2 DEF OpOf, Operation
  <1>4. OpOf(rs1, rs2).busy = TRUE /\ OpOf(rs1, rs2).tq = wr_ptr
    BY DEF OpOf
  <1> QED
    BY <1>3, <1>4 DEF Dispatch

\* Every step is an edge of both units.
LEMMA StepIsBackStep ==
  ASSUME RguInv, BackNext
  PROVE  \E disp, rd, wb, op : BackStep(disp, rd, wb, op)
  <1>1. CASE Stalled
    <2>1. PICK wb \in cdbr_wb : RguEdge(FALSE, 0, wb) /\ BusEdge(Free)
      BY <1>1 DEF Stalled
    <2>2. 0 \in Reg /\ Free \in Dispatch /\ Free.busy = FALSE
      BY SizeAssumption DEF Reg, Dispatch, Free
    <2>3. BackStep(FALSE, 0, wb, Free)
      BY <2>1, <2>2 DEF BackStep
    <2> QED
      BY <2>3
  <1>2. CASE Dispatched
    <2>1. PICK wb \in cdbr_wb, rd, rs1, rs2 \in Reg :
            RguEdge(TRUE, rd, wb) /\ BusEdge(OpOf(rs1, rs2))
      BY <1>2 DEF Dispatched
    <2>2. ~full /\ ~exb_full
      BY <1>2 DEF Dispatched, sys_full
    <2>3. BackStep(TRUE, rd, wb, OpOf(rs1, rs2))
      BY <2>1, <2>2, OpIsOperation DEF BackStep
    <2> QED
      BY <2>3
  <1> QED
    BY <1>1, <1>2 DEF BackNext

\* With nobody else on the bus the execution unit has the token for good,
\* and is never made to wait.
LEMMA NeverBlocked ==
  ASSUME BusInv
  PROVE  /\ exec_rdy(cdbw_ack(EXU))
         /\ cdbr = cdbw
  <1>1. token = EXU /\ other = {}
    BY NoLoadOrStore DEF BusInv
  <1>2. cdbw # {} => cdbw_ack(EXU)
    BY <1>1 DEF cdbw_ack, cdbw_reqs, cdbw_req, Rra!granted, EXU
  <1>3. cdbr = cdbw
    BY <1>1, <1>2 DEF cdbr
  <1> QED
    BY <1>2, <1>3 DEF exec_rdy, cdbw_req

\* The word on the bus is for the slot of a held operation.
LEMMA WordOnBus ==
  ASSUME BusInv, UnfinishedAreHeld, NEW wb \in cdbr_wb
  PROVE  /\ wb \in Broadcast
         /\ cdbr = IF wb.valid THEN {wb.addr} ELSE {}
  <1>1. cdbr \in AtMostOne(Tag) /\ cdbr \subseteq Held
    BY NeverBlocked DEF BusInv, BusTypeOK, Held
  <1>2. CASE cdbr = {}
    <2>1. wb = NoResult
      BY <1>2 DEF cdbr_wb
    <2>2. wb.valid = FALSE
      BY <2>1 DEF NoResult
    <2> QED
      BY <1>2, <2>1, <2>2 DEF Broadcast
  <1>3. CASE cdbr # {}
    <2>1. PICK t : cdbr = {t}
      BY <1>1, <1>3 DEF AtMostOne
    <2>2. wb \in ResultFor(cdbr)
      BY <1>3 DEF cdbr_wb
    <2>3. wb.valid = TRUE /\ wb.addr = t
      BY <2>1, <2>2 DEF ResultFor
    <2>4. wb \in ResultFor(Unfinished)
      BY <1>1, <2>2 DEF ResultFor, UnfinishedAreHeld
    <2> QED
      BY <2>1, <2>3, <2>4 DEF Broadcast
  <1> QED
    BY <1>2, <1>3

\* Each unit's assumptions about the other hold.
LEMMA BothStep ==
  ASSUME BackInv, NEW disp, NEW rd, NEW wb, NEW op, BackStep(disp, rd, wb, op)
  PROVE  RguStep(disp, rd, wb) /\ BusStep(op)
  <1>1. RguStep(disp, rd, wb)
    BY WordOnBus DEF BackInv, BackStep, RguStep
  <1>2. disp => op.tq \notin Held
    BY NextIsNotBusy DEF BackInv, BackStep, UnfinishedAreHeld, Unfinished
  <1>3. other = {}
    BY NoLoadOrStore DEF BackInv, BusInv
  <1>4. BusStep(op)
    BY <1>2, <1>3 DEF BackStep, BusStep
  <1> QED
    BY <1>1, <1>4

\* The unfinished slots after an edge: less the one the bus names, and with
\* the one that is dispatched.  A slot that retires was finished already.
LEMMA UnfinishedAfterStep ==
  ASSUME RguInv, NEW disp, NEW rd, NEW wb, RguStep(disp, rd, wb)
  PROVE  Unfinished' = (Unfinished \ (IF wb.valid THEN {wb.addr} ELSE {}))
                         \cup (IF disp THEN {wr_ptr} ELSE {})
  <1>1. /\ rob_valid \in [Slot -> BOOLEAN] /\ rob_busy \in [Slot -> BOOLEAN]
        /\ wr_ptr \in Slot
    BY DEF RguInv, RobInv, RobTypeOK
  <1>2. wb.valid \in BOOLEAN /\ (wb.valid => wb.addr \in Unfinished)
    BY BroadcastShape DEF RguStep
  <1>3. disp \in BOOLEAN /\ (disp => ~full /\ ~rob_busy[wr_ptr])
    BY NextIsNotBusy DEF RguStep
  <1>4. ASSUME NEW i \in Slot
        PROVE  i \in Unfinished' <=>
                 \/ i \in Unfinished /\ ~(wb.valid /\ i = wb.addr)
                 \/ disp /\ i = wr_ptr
    <2>1. rob_busy'[i] <=> ~(commit /\ i = rd_ptr) /\ (rob_busy[i] \/ (disp /\ i = wr_ptr))
      BY <1>1, <1>3 DEF RguStep, RguEdge, RobEdge
    <2>2. rob_valid'[i] <=> \/ wb.valid /\ i = wb.addr
                            \/ rob_valid[i] /\ ~(disp /\ i = wr_ptr)
      BY <1>1, <1>3 DEF RguStep, RguEdge, RobEdge
    <2>3. commit /\ i = rd_ptr => rob_busy[i] /\ rob_valid[i]
      BY DEF commit
    <2> QED
      BY <1>2, <1>3, <2>1, <2>2, <2>3 DEF Unfinished
  <1>5. Unfinished \subseteq Slot /\ Unfinished' \subseteq Slot
    BY DEF Unfinished
  <1> QED
    BY <1>1, <1>4, <1>5

\* The invariant is inductive.
LEMMA BackStepInv ==
  ASSUME BackInv, NEW disp, NEW rd, NEW wb, NEW op, BackStep(disp, rd, wb, op)
  PROVE  BackInv'
  <1>1. RguStep(disp, rd, wb) /\ BusStep(op)
    BY BothStep
  <1>2. RguInv' /\ BusInv'
    BY <1>1, RguStepInv, BusStepInv DEF BackInv
  <1>3. UnfinishedAreHeld'
    <2>1. Unfinished' = (Unfinished \ cdbr) \cup (IF disp THEN {wr_ptr} ELSE {})
      BY <1>1, UnfinishedAfterStep, WordOnBus DEF BackInv, BackStep
    <2>2. Held' = (Held \ (IF cdbw_ack(EXU) THEN cdbw ELSE {})) \cup New(op)
      BY <1>1, HeldAfterStep, NeverBlocked DEF BackInv
    <2>3. (IF cdbw_ack(EXU) THEN cdbw ELSE {}) = cdbr
      BY NeverBlocked, NoLoadOrStore DEF BackInv, BusInv, cdbr
    <2>4. New(op) = IF disp THEN {wr_ptr} ELSE {}
      BY DEF BackStep, New
    <2> QED
      BY <2>1, <2>2, <2>3, <2>4 DEF BackInv, UnfinishedAreHeld
  <1> QED
    BY <1>2, <1>3 DEF BackInv

\* Both units start empty.
LEMMA BackInitInv == BackInit => BackInv
  <1> SUFFICES ASSUME BackInit PROVE BackInv
    OBVIOUS
  <1>1. RguInv /\ BusInv
    BY RguInitInv, BusInitInv DEF BackInit
  <1>2. Unfinished = {}
    BY DEF BackInit, RguInit, RobInit, Unfinished
  <1>3. Held = {}
    BY DEF BackInit, BusInit, ExuInit, ExbInit, Held, Waiting, Busy, Free
  <1> QED
    BY <1>1, <1>2, <1>3 DEF BackInv, UnfinishedAreHeld

\* A step in which nothing changes.
LEMMA BackStutterInv == BackInv /\ UNCHANGED backVars => BackInv'
  <1> SUFFICES ASSUME BackInv, UNCHANGED backVars PROVE BackInv'
    OBVIOUS
  <1>1. UNCHANGED rguVars /\ UNCHANGED busVars
    BY DEF backVars
  <1>2. RguInv' /\ BusInv'
    BY <1>1, RguStutterInv, BusStutterInv DEF BackInv
  <1>3. Unfinished' = Unfinished
    BY <1>1 DEF rguVars, robVars, Unfinished
  <1>4. Held' = Held
    BY <1>1 DEF busVars, exuVars, exbVars, Held, Waiting, Busy
  <1> QED
    BY <1>2, <1>3, <1>4 DEF BackInv, UnfinishedAreHeld

\* Every behaviour of the two units satisfies the invariant.
LEMMA BackInvHolds == BackSpec => []BackInv
  <1>1. BackInv /\ [BackNext]_backVars => BackInv'
    BY StepIsBackStep, BackStepInv, BackStutterInv DEF BackInv
  <1> QED
    BY BackInitInv, <1>1, PTL DEF BackSpec

-----------------------------------------------------------------------------
(***************************************************************************)
(* Every field of the two units keeps its type (rgu.vhd, exu.vhd).         *)
(***************************************************************************)
THEOREM BackendTypeCorrect == BackSpec => []BackTypeOK
  <1>1. BackInv => BackTypeOK
    BY DEF BackInv, RguInv, BusInv, BackTypeOK
  <1> QED
    BY <1>1, BackInvHolds, PTL

(***************************************************************************)
(* For every size, a slot lacks its result exactly while its operation is  *)
(* in the execution unit: no operation is lost, none is finished twice     *)
(* (core.vhd:342-359 and the bus of core.vhd:468-502).                     *)
(***************************************************************************)
THEOREM UnitsAgreeOnFlight == BackSpec => []UnfinishedAreHeld
  <1>1. BackInv => UnfinishedAreHeld
    BY DEF BackInv
  <1> QED
    BY <1>1, BackInvHolds, PTL

(***************************************************************************)
(* What the proofs about the register and re-order unit assume of the bus  *)
(* is true of the bus: the unit's behaviours here are behaviours of its    *)
(* specification.                                                          *)
(***************************************************************************)
THEOREM BusMeetsRguAssumption == BackSpec => MeetsRguAssumption
  <1>1. BackInit => RguInit
    BY DEF BackInit
  <1>2. BackInv /\ [BackNext]_backVars => [RguNext]_rguVars
    <2>1. ASSUME BackInv, BackNext PROVE RguNext
      <3>1. PICK disp, rd, wb, op : BackStep(disp, rd, wb, op)
        BY <2>1, StepIsBackStep DEF BackInv
      <3>2. RguStep(disp, rd, wb)
        BY <2>1, <3>1, BothStep
      <3> QED
        BY <3>2 DEF RguStep, RguNext
    <2>2. UNCHANGED backVars => UNCHANGED rguVars
      BY DEF backVars
    <2> QED
      BY <2>1, <2>2
  <1> QED
    BY <1>1, <1>2, BackInvHolds, PTL DEF BackSpec, MeetsRguAssumption, RguSpec

(***************************************************************************)
(* What the proofs about the execution unit assume of its tags is true of  *)
(* the slots of the re-order buffer.                                       *)
(***************************************************************************)
THEOREM SlotsMeetBusAssumption == BackSpec => MeetsBusAssumption
  <1>1. BackInit => BusInit
    BY DEF BackInit
  <1>2. BackInv /\ [BackNext]_backVars => [BusNext]_busVars
    <2>1. ASSUME BackInv, BackNext PROVE BusNext
      <3>1. PICK disp, rd, wb, op : BackStep(disp, rd, wb, op)
        BY <2>1, StepIsBackStep DEF BackInv
      <3>2. BusStep(op)
        BY <2>1, <3>1, BothStep
      <3> QED
        BY <3>2 DEF BusStep, BusNext
    <2>2. UNCHANGED backVars => UNCHANGED busVars
      BY DEF backVars
    <2> QED
      BY <2>1, <2>2
  <1> QED
    BY <1>1, <1>2, BackInvHolds, PTL DEF BackSpec, MeetsBusAssumption, BusSpec

(***************************************************************************)
(* So the renaming is right, and an operation is never in two places, in   *)
(* the two units wired together and with nothing assumed of the bus.       *)
(***************************************************************************)
THEOREM RenamingIsRightInBackend == BackSpec => [](SrcIsYoungestWriter /\ NoDuplicate)
  BY BusMeetsRguAssumption, RenamingIsRight, SlotsMeetBusAssumption, OneCopyOfEachOperation,
     PTL DEF MeetsRguAssumption, MeetsBusAssumption

=============================================================================
