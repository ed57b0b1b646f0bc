-------------------------------- MODULE Exu --------------------------------
(***************************************************************************)
(* The execution unit, hw/src/exu/exu.vhd: the execution buffer issues     *)
(* into the ALU (exu/alu.vhd), whose registered output goes through one    *)
(* more register, cdbw, that holds a result until the common data bus      *)
(* takes it.  A result is represented by its tag.                          *)
(***************************************************************************)
EXTENDS Exb

VARIABLES
  exec,   \* tag at the output of the ALU while exec_done, at most one
  cdbw    \* tag that requests the bus, at most one

exuVars == <<exbVars, exec, cdbw>>

cdbw_req == cdbw # {}
cdbw_lh  == cdbw_req /\ exec # {}

exec_rdy(ack) == ~(cdbw_req /\ ~ack /\ exec # {})

ExuInit == ExbInit /\ exec = {} /\ cdbw = {}

\* Mutant: the valid input of the ALU is not gated by exec_rdy.
Issued_Ungated(ack) == IF issue_we THEN {exb_buf[issue_ptr].tq} ELSE {}

\* What the ALU takes at this edge.
Issued(ack) == IF issue_we /\ exec_rdy(ack) THEN {exb_buf[issue_ptr].tq} ELSE {}

\* Mutants: the register is emptied when the bus takes it though the ALU has
\* the next result; it is not emptied at all.
NextCdbw_DropsNext(ack) == IF ~cdbw_req THEN exec ELSE IF ack THEN {} ELSE cdbw
NextCdbw_Stays(ack)     == IF exec # {} THEN exec ELSE cdbw

NextCdbw(ack) == IF ~cdbw_req \/ ack THEN exec ELSE cdbw

\* A clock edge: ack grants the bus to cdbw, bus is the tag broadcast.
ExuEdge(op, ack, bus) ==
  /\ ExbEdge(op, exec_rdy(ack), bus)
  /\ exec' = Issued(ack)
  /\ cdbw' = NextCdbw(ack)

\* Tags of the operations that are in the unit, wherever they are.
Waiting == {exb_buf[i].tq : i \in Busy}
Held    == Waiting \cup exec \cup cdbw

=============================================================================
