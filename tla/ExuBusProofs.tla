---------------------------- MODULE ExuBusProofs ----------------------------
(***************************************************************************)
(* The execution unit on the bus, for every number of entries, every set   *)
(* of tags and whether or not the other initiator contends.  The invariant *)
(* is that of the buffer, that no tag is in two places, and that the other *)
(* initiator holds no tag of the unit.                                     *)
(***************************************************************************)
EXTENDS ExuBus, ExbProofs

BusInv ==
  /\ ExbInv
  /\ BusTypeOK
  /\ NoDuplicate
  /\ other \cap Held = {}
  /\ ~Contended => other = {} /\ token = EXU

\* An edge, spelled out: what is assumed of the inputs.
BusStep(op) ==
  /\ op \in Dispatch
  /\ op.busy => op.tq \notin Held \cup other
  /\ BusEdge(op)

\* What leaves the buffer at an edge, and what enters it.
Taken   == IF exec_rdy(cdbw_ack(EXU)) /\ issue_we THEN {exb_buf[issue_ptr].tq} ELSE {}
New(op) == IF op.busy /\ ~exb_full THEN {op.tq} ELSE {}

-----------------------------------------------------------------------------
\* The token goes to one of the initiators.
LEMMA TokenIsPassedOn ==
  ASSUME token \in {EXU, LSU}, NEW req \in SUBSET {EXU, LSU}, Rra!ArbiterEdge(req)
  PROVE  /\ token' \in {EXU, LSU}
         /\ req \subseteq {token} => token' = token
  <1>1. CASE req = {}
    BY <1>1 DEF Rra!ArbiterEdge
  <1>2. CASE req # {}
    <2>1. \A i \in {EXU, LSU} : Rra!Rotated(i) \in Int
      BY DEF EXU, LSU, Rra!Rotated
    <2>2. \E i \in req : \A k \in req : Rra!Rotated(k) <= Rra!Rotated(i)
      BY <1>2, <2>1
    <2>3. Rra!NextToken(req) \in req
      BY <2>2 DEF Rra!NextToken
    <2>4. token' \in req
      BY <1>2, <2>3 DEF Rra!ArbiterEdge
    <2> QED
      BY <2>4
  <1> QED
    BY <1>1, <1>2

\* What each tag of the buffer is after an edge: an entry that stays keeps
\* its own.
LEMMA TagsOfEntries ==
  ASSUME ExbInv, NEW op, NEW rdy, NEW bus, ExbStep(op, rdy, bus), NEW i \in Busy'
  PROVE  \/ op.busy /\ ~exb_full /\ i = disp_ptr /\ exb_buf'[i].tq = op.tq
         \/ /\ i \in Busy /\ ~(rdy /\ issue_we /\ i = issue_ptr)
            /\ ~(op.busy /\ ~exb_full /\ i = disp_ptr)
            /\ exb_buf'[i].tq = exb_buf[i].tq
  <1>1. i \in Entry
    BY DEF Busy
  <1>2. CASE op.busy /\ ~exb_full /\ i = disp_ptr
    BY <1>1, <1>2, BufferAfterStep
  <1>3. CASE ~(op.busy /\ ~exb_full /\ i = disp_ptr)
    <2>1. i \in Busy /\ ~(rdy /\ issue_we /\ i = issue_ptr)
      BY <1>3, BusyAfterStep
    <2>2. exb_buf'[i] = Snooped(exb_buf[i], bus)
      BY <1>1, <1>3, <2>1, BufferAfterStep
    <2>3. exb_buf[i] \in Operation(Tag)
      BY <1>1, <2>1, EntryShape DEF Busy, ExbInv, ExbTypeOK
    <2>4. Snooped(exb_buf[i], bus).tq = exb_buf[i].tq
      BY <2>3 DEF Snooped, Operation
    <2> QED
      BY <1>3, <2>1, <2>2, <2>4
  <1> QED
    BY <1>2, <1>3

\* The buffer's part of an edge of the unit.
LEMMA BusStepIsExbStep ==
  ASSUME NEW op, BusStep(op)
  PROVE  ExbStep(op, exec_rdy(cdbw_ack(EXU)), cdbr)
  BY DEF BusStep, BusEdge, ExuEdge, ExbStep, exec_rdy

\* The waiting tags after an edge.
LEMMA WaitingAfterStep ==
  ASSUME BusInv, NEW op, BusStep(op)
  PROVE  /\ Waiting' = (Waiting \ Taken) \cup New(op)
         /\ Taken \subseteq Waiting
         /\ New(op) \cap (Held \cup other) = {}
         /\ \A i, j \in Busy' : exb_buf'[i].tq = exb_buf'[j].tq => i = j
  <1> DEFINE rdy == exec_rdy(cdbw_ack(EXU))
  <1>1. ExbInv /\ ExbStep(op, rdy, cdbr)
    BY BusStepIsExbStep DEF BusInv
  <1> HIDE DEF rdy
  <1>2. issue_we => issue_ptr \in Busy
    BY <1>1, PointersAreRight DEF op_rdy
  <1>3. Taken = IF rdy /\ issue_we THEN {exb_buf[issue_ptr].tq} ELSE {}
    BY DEF Taken, rdy
  <1>4. Taken \subseteq Waiting
    BY <1>2, <1>3 DEF Waiting
  <1>5. New(op) \cap (Held \cup other) = {}
    BY DEF BusStep, New
  <1>6. \A i, j \in Busy : exb_buf[i].tq = exb_buf[j].tq => i = j
    BY DEF BusInv, NoDuplicate
  <1>7. \A i \in Busy' :
          \/ op.busy /\ ~exb_full /\ i = disp_ptr /\ exb_buf'[i].tq = op.tq
          \/ /\ i \in Busy /\ ~(rdy /\ issue_we /\ i = issue_ptr)
             /\ ~(op.busy /\ ~exb_full /\ i = disp_ptr)
             /\ exb_buf'[i].tq = exb_buf[i].tq
    BY <1>1, TagsOfEntries
  <1>8. Busy' = (Busy \ (IF rdy /\ issue_we THEN {issue_ptr} ELSE {}))
                   \cup (IF op.busy /\ ~exb_full THEN {disp_ptr} ELSE {})
    BY <1>1, BusyAfterStep
  <1>9. ~exb_full => disp_ptr \notin Busy
    BY <1>1, PointersAreRight
  <1>10. \A i \in Busy : exb_buf[i].tq \in Held
    BY DEF Held, Waiting
  <1>11. \A i, j \in Busy' : exb_buf'[i].tq = exb_buf'[j].tq => i = j
    BY <1>5, <1>6, <1>7, <1>10 DEF New
  <1>12. ASSUME NEW t \in Waiting'
         PROVE  t \in (Waiting \ Taken) \cup New(op)
    <2>1. PICK i \in Busy' : t = exb_buf'[i].tq
      BY DEF Waiting
    <2> QED
      BY <1>2, <1>3, <1>6, <1>7, <2>1 DEF Waiting, New
  <1>13. ASSUME NEW t \in Waiting \ Taken
         PROVE  t \in Waiting'
    <2>1. PICK i \in Busy : t = exb_buf[i].tq
      BY DEF Waiting
    <2>2. i \in Busy' /\ ~(op.busy /\ ~exb_full /\ i = disp_ptr)
      BY <1>3, <1>8, <1>9, <2>1
    <2>3. exb_buf'[i].tq = t
      BY <1>7, <2>1, <2>2
    <2> QED
      BY <2>2, <2>3 DEF Waiting
  <1>14. New(op) \subseteq Waiting'
    <2> SUFFICES ASSUME op.busy, ~exb_full PROVE op.tq \in Waiting'
      BY DEF New
    <2>1. disp_ptr \in Busy'
      BY <1>8
    <2>2. exb_buf'[disp_ptr].tq = op.tq
      BY <1>7, <2>1
    <2> QED
      BY <2>1, <2>2 DEF Waiting
  <1> QED
    BY <1>4, <1>5, <1>11, <1>12, <1>13, <1>14

\* The output of the ALU and the register at the bus after an edge.
LEMMA OutputAfterStep ==
  ASSUME NEW op, BusStep(op)
  PROVE  /\ exec' = Taken
         /\ cdbw' = IF cdbw = {} \/ cdbw_ack(EXU) THEN exec ELSE cdbw
  BY DEF BusStep, BusEdge, ExuEdge, Issued, Taken, NextCdbw, cdbw_req

\* Nothing is invented.
LEMMA HeldGrowsByNew ==
  ASSUME BusInv, NEW op, BusStep(op)
  PROVE  Held' \subseteq Held \cup New(op)
  BY WaitingAfterStep, OutputAfterStep DEF Held

\* And nothing is lost but to the bus, while the unit is ready.
LEMMA HeldAfterStep ==
  ASSUME BusInv, NEW op, BusStep(op), exec_rdy(cdbw_ack(EXU))
  PROVE  Held' = (Held \ (IF cdbw_ack(EXU) THEN cdbw ELSE {})) \cup New(op)
  <1>1. cdbw = {} \/ cdbw_ack(EXU) \/ exec = {}
    BY DEF exec_rdy, cdbw_req
  <1>2. cdbw \cap (exec \cup Waiting) = {} /\ exec \cap Waiting = {}
    BY DEF BusInv, NoDuplicate
  <1> QED
    BY <1>1, <1>2, WaitingAfterStep, OutputAfterStep DEF Held

\* The invariant is inductive.
LEMMA BusStepInv ==
  ASSUME BusInv, NEW op, BusStep(op)
  PROVE  BusInv'
  <1>1. ExbInv'
    BY BusStepIsExbStep, ExbStepInv DEF BusInv
  <1>2. /\ exec \in AtMostOne(Tag) /\ cdbw \in AtMostOne(Tag)
        /\ other \in AtMostOne(Tag) /\ token \in {EXU, LSU}
    BY DEF BusInv, BusTypeOK
  <1>3. Taken \in AtMostOne(Tag)
    <2>1. issue_we => issue_ptr \in Busy
      BY PointersAreRight DEF op_rdy, BusInv
    <2>2. \A i \in Busy : exb_buf[i] \in Operation(Tag)
      BY EntryShape DEF Busy, BusInv, ExbInv, ExbTypeOK
    <2>3. issue_we => exb_buf[issue_ptr].tq \in Tag
      BY <2>1, <2>2 DEF Operation
    <2> QED
      BY <2>3 DEF Taken, AtMostOne
  <1>4. exec' \in AtMostOne(Tag) /\ cdbw' \in AtMostOne(Tag)
    BY <1>2, <1>3, OutputAfterStep
  <1>5. other' \in AtMostOne(Tag)
    BY <1>2 DEF BusStep, BusEdge, OtherInitiator, AtMostOne
  <1>6. cdbw_reqs \in SUBSET {EXU, LSU} /\ Rra!ArbiterEdge(cdbw_reqs)
    BY DEF BusStep, BusEdge, cdbw_reqs
  <1>7. token' \in {EXU, LSU}
    BY <1>2, <1>6, TokenIsPassedOn
  <1>8. NoDuplicate'
    <2>1. cdbw \cap (exec \cup Waiting) = {} /\ exec \cap Waiting = {}
      BY DEF BusInv, NoDuplicate
    <2>2. exec' \cap (Waiting' \cup cdbw') = {} /\ cdbw' \cap Waiting' = {}
      BY <2>1, WaitingAfterStep, OutputAfterStep DEF Held
    <2> QED
      BY <2>2, WaitingAfterStep DEF NoDuplicate
  <1>9. other' \cap Held' = {}
    <2>1. \/ other' = other
          \/ other' = {}
          \/ other' \in AtMostOne(Tag \ Held')
      BY DEF BusStep, BusEdge, OtherInitiator
    <2>2. other \cap (Held \cup New(op)) = {}
      BY WaitingAfterStep DEF BusInv
    <2> QED
      BY <2>1, <2>2, HeldGrowsByNew DEF AtMostOne
  <1>10. ~Contended => other' = {} /\ token' = EXU
    <2> SUFFICES ASSUME ~Contended PROVE other' = {} /\ token' = EXU
      OBVIOUS
    <2>1. other = {} /\ token = EXU
      BY DEF BusInv
    <2>2. other' = {}
      BY <2>1 DEF BusStep, BusEdge, OtherInitiator
    <2>3. cdbw_reqs \subseteq {token}
      BY <2>1 DEF cdbw_reqs, EXU, LSU
    <2> QED
      BY <1>2, <1>6, <2>1, <2>2, <2>3, TokenIsPassedOn
  <1> QED
    BY <1>1, <1>4, <1>5, <1>7, <1>8, <1>9, <1>10 DEF BusInv, BusTypeOK, ExbInv

\* The empty unit.
LEMMA BusInitInv == BusInit => BusInv
  <1> SUFFICES ASSUME BusInit PROVE BusInv
    OBVIOUS
  <1>1. ExbInv /\ exec = {} /\ cdbw = {} /\ other = {} /\ token = EXU
    BY ExbInitInv DEF BusInit, ExuInit, Rra!ArbiterInit, EXU
  <1>2. Busy = {}
    BY DEF BusInit, ExuInit, ExbInit, Busy, Free
  <1> QED
    BY <1>1, <1>2 DEF BusInv, BusTypeOK, NoDuplicate, AtMostOne, ExbInv, Waiting

\* A step in which nothing changes.
LEMMA BusStutterInv == BusInv /\ UNCHANGED busVars => BusInv'
  <1> SUFFICES ASSUME BusInv, UNCHANGED busVars PROVE BusInv'
    OBVIOUS
  <1>1. ExbInv'
    BY ExbStutterInv DEF BusInv, busVars, exuVars
  <1>2. UNCHANGED <<exb_buf, exec, cdbw, token, other>>
    BY DEF busVars, exuVars, exbVars
  <1>3. Busy' = Busy /\ Waiting' = Waiting
    BY <1>2 DEF Busy, Waiting
  <1> QED
    BY <1>1, <1>2, <1>3 DEF BusInv, BusTypeOK, NoDuplicate, Held, ExbInv

\* Every behaviour of the unit satisfies the invariant.
LEMMA BusInvHolds == BusSpec => []BusInv
  <1>1. BusInv /\ [BusNext]_busVars => BusInv'
    BY BusStepInv, BusStutterInv DEF BusNext, BusStep
  <1> QED
    BY BusInitInv, <1>1, PTL DEF BusSpec

-----------------------------------------------------------------------------
(***************************************************************************)
(* For every size and under any contention, an operation is in one entry,  *)
(* at the output of the ALU or at the bus, never in two of them (exb.vhd,  *)
(* exu.vhd: issue and cdbw move on their own conditions).                  *)
(***************************************************************************)
THEOREM OneCopyOfEachOperation == BusSpec => []NoDuplicate
  <1>1. BusInv => NoDuplicate
    BY DEF BusInv
  <1> QED
    BY <1>1, BusInvHolds, PTL

(***************************************************************************)
(* For every size an operation leaves the unit only over the bus, but for  *)
(* the result at the output of the ALU while the unit is not ready, which  *)
(* may be lost (exu.vhd, exec_rdy and p_cdbw_handler).                     *)
(***************************************************************************)
THEOREM OperationsLeaveOverBus == BusSpec => LeavesOverBus
  <1> DEFINE Keeps == Held \ cdbr \subseteq Held' \cup (IF exec_rdy(cdbw_ack(EXU)) THEN {} ELSE exec)
  <1>1. ASSUME BusInv, BusNext PROVE Keeps
    <2>1. PICK op \in Dispatch : BusStep(op)
      BY <1>1 DEF BusNext, BusStep
    <2>2. cdbw_ack(EXU) => cdbr = cdbw
      BY DEF cdbr
    <2>3. CASE exec_rdy(cdbw_ack(EXU))
      BY <1>1, <2>1, <2>2, <2>3, HeldAfterStep
    <2>4. CASE ~exec_rdy(cdbw_ack(EXU))
      <3>1. cdbw' = cdbw /\ Taken = {}
        <4>1. cdbw # {} /\ ~cdbw_ack(EXU)
          BY <2>4 DEF exec_rdy, cdbw_req
        <4>2. cdbw' = cdbw
          BY <2>1, <4>1, OutputAfterStep
        <4>3. Taken = {}
          BY <2>4 DEF Taken
        <4> QED
          BY <4>2, <4>3
      <3>2. Waiting \subseteq Waiting'
        BY <1>1, <2>1, <3>1, WaitingAfterStep
      <3> QED
        BY <2>4, <3>1, <3>2 DEF Held
    <2> QED
      BY <2>3, <2>4
  <1>2. BusInv /\ [BusNext]_busVars => [Keeps]_busVars
    BY <1>1
  <1> QED
    BY <1>2, BusInvHolds, PTL DEF BusSpec, LeavesOverBus

=============================================================================
