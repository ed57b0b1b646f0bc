-------------------------------- MODULE Core --------------------------------
(***************************************************************************)
(* The whole of hw/src/core.vhd: system unit, register and re-order unit,  *)
(* execution unit, load and store unit and the common data bus, for every  *)
(* program of the instructions that dec.vhd takes.                         *)
(*                                                                         *)
(* Here a tag is a pair of a unit and an address, as tag_format makes it,  *)
(* since more than one unit is on the bus.                                 *)
(***************************************************************************)
EXTENDS Rgu, Exu, Sys, LsuParams

CONSTANTS
  LDU_SIZE,   \* loads in the load buffer, 2**LDU_LEN
  Kinds,      \* the kinds of instruction of a program, all or some of Kind
  Inputs      \* what happens at the ports of the core, all or some of Input

VARIABLES
  token,                                     \* the arbiter's
  ldu_buf, ldu_matrix, ldu_col,              \* load buffer and its age matrix
  stb, stu_wr_ptr, stu_rd_ptr,               \* store buffer
  rd_grp, wr_grp                             \* groups

\* Words are addresses too; the history variables are not used.
LSU == INSTANCE Lsu
         WITH MATRIX_SIZE <- LDU_SIZE, age_matrix <- ldu_matrix, wr_col <- ldu_col,
              Addr <- Val, DataTag <- Tag, older <- << >>, hit <- {}, stray <- {}

Rra == INSTANCE Arbiter WITH N <- 2

coreVars == <<rguVars, exuVars, sysVars, token, LSU!unitVars>>

RobTag(s)   == <<"UNIT_RGU_ROB", s>>
TagAddr(t)  == t[2]
-----------------------------------------------------------------------------
\* Instructions: "alu" is OP, OP_IMM, LUI, AUIPC, JAL and JALR, where an
\* operand that is an immediate or the pc is there at once, as x0 is.
Kind == {"alu", "load", "store", "fence", "branch", "ebreak", "ecall"}

Instruction == [kind : Kinds, rd : Reg, rs1 : Reg, rs2 : Reg]
Bubble      == [kind |-> "none", rd |-> 0, rs1 |-> 0, rs2 |-> 0]

\* reg_wb of rgu.vhd.
WritesRegister(i) == i.kind \in {"alu", "load"}

\* exu_tq: an instruction of neither unit has an undefined one.
TagOf(i) ==
  CASE i.kind = "alu"   -> {RobTag(wr_ptr)}
    [] i.kind = "load"  -> {LSU!LduTag(LSU!ldu_disp_ptr)}
    [] i.kind = "store" -> {LSU!StuTag(stu_wr_ptr)}
    [] OTHER            -> Tag

\* The tag that an operand awaits in the execution unit, none if it is there.
Awaited(rs) == {RobTag(s) : s \in Operand(rs)}

\* Every valid instruction goes to the execution unit.
OpOf(i, tq) ==
  IF i = Bubble THEN Free ELSE
  [busy |-> TRUE, tq |-> tq, tj |-> Awaited(i.rs1),
   tk |-> IF i.kind \in {"alu", "branch"} THEN Awaited(i.rs2) ELSE {}]

\* lsu_ra and lsu_rd: the address of x0 and an immediate a is there, any
\* other comes from the execution unit; the data of x0 is there, any other
\* is awaited from the slot in the register file, ready or not.
LoadOf(i, tq, a) ==
  LSU!Load(IF i.rs1 = 0 THEN {a} ELSE {}, IF i.rs1 = 0 THEN {} ELSE {tq},
           RobTag(wr_ptr), wr_grp, LSU!stu_deps)

StoreOf(i, tq, a) ==
  LSU!Store(IF i.rs1 = 0 THEN {a} ELSE {}, IF i.rs1 = 0 THEN {} ELSE {tq},
            IF i.rs2 = 0 THEN {} ELSE {RobTag(x_src[i.rs2])}, wr_grp)
-----------------------------------------------------------------------------
EXU == 0     \* the initiators of the common data bus
LDU == 1

lsu_request == {ldu_buf[i].tq : i \in LSU!retire_flags \cap {LSU!retire_ptr}}

cdbw_reqs == {i \in {EXU, LDU} : IF i = EXU THEN cdbw_req ELSE lsu_request # {}}
cdbw_ack(i) == i \in Rra!granted(cdbw_reqs)

cdbr == IF cdbw_ack(EXU) THEN cdbw ELSE IF cdbw_ack(LDU) THEN lsu_request ELSE {}

\* i_wb of the re-order buffer: the lower bits of whatever tag is on the bus.
WriteBack(v) ==
  IF cdbr = {} THEN NoResult
  ELSE [valid |-> TRUE, result |-> v,
        addr |-> (CHOOSE a \in {TagAddr(t) : t \in cdbr} : TRUE) % ROB_SIZE]

\* dmem_ptr is looped back: an answer is for the load that asks now.
Answered(dvalid) == IF dvalid THEN {LSU!issue_ptr(rd_grp)} ELSE {}

sys_full  == full \/ exb_full \/ LSU!ldu_full \/ LSU!stu_full \/ LSU!grp_full
-----------------------------------------------------------------------------
CoreInit == RguInit /\ ExuInit /\ SysInit /\ LSU!UnitInit /\ Rra!ArbiterInit

(***************************************************************************)
(* One clock edge with the instruction i, tagged tq, or the bubble; v is   *)
(* the word on the bus, a the immediate of an address, in says what the    *)
(* inputs of the core are.                                                 *)
(***************************************************************************)
CoreEdge(i, tq, v, a, in) ==
  LET only(kind, e) == IF i.kind = kind THEN {e} ELSE {}
  IN  /\ RguEdge(WritesRegister(i), i.rd, WriteBack(v))
      /\ ExuEdge(OpOf(i, tq), cdbw_ack(EXU), cdbr)
      /\ LSU!LsuEdge(only("load", LoadOf(i, tq, a)), only("store", StoreOf(i, tq, a)),
                     i.kind = "fence", {[tq |-> t, vq |-> v] : t \in cdbr},
                     Answered(in.dvalid), in.wrdy, in.rrdy, cdbw_ack(LDU))
      /\ SysEdge(i.kind = "ebreak", i.kind = "ecall", in.en, in.step, in.restart, sys_full)
      /\ Rra!ArbiterEdge(cdbw_reqs)

\* Enable (i_en or i_imem_rdy), step and restart, and what the data memory
\* does.
Input == [en : BOOLEAN, step : BOOLEAN, restart : BOOLEAN,
          dvalid : BOOLEAN, wrdy : BOOLEAN, rrdy : BOOLEAN]

\* A stalled instruction is not valid; nothing is dispatched either when the
\* instruction memory has nothing or the instruction is illegal.
CoreNext ==
  \E v, a \in Val, in \in Inputs :
    \/ CoreEdge(Bubble, {}, v, a, in)
    \/ /\ ~pc_stall(in.en, in.step, sys_full)
       /\ \E i \in Instruction : \E tq \in TagOf(i) : CoreEdge(i, tq, v, a, in)

CoreSpec == CoreInit /\ [][CoreNext]_coreVars

-----------------------------------------------------------------------------
\* The tags whose instruction is still to be executed, in any unit.
Executing == Held \cup {ldu_buf[i].tq : i \in LSU!LduBusy}

(***************************************************************************)
(* rob.vhd:54 calls what the bus addresses there a "Write back rob         *)
(* address": a slot gets its result from its own instruction and no other. *)
(* So the instruction of a slot that has its result is not waiting in      *)
(* another unit any more.                                                  *)
(***************************************************************************)
ResultIsFromOwn == \A s \in Slot : rob_busy[s] /\ rob_valid[s] => RobTag(s) \notin Executing

=============================================================================
