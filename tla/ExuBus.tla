------------------------------- MODULE ExuBus -------------------------------
(***************************************************************************)
(* The execution unit on the common data bus of core.vhd:468-502, beside   *)
(* the other initiator (the load and store unit), of which only the bus    *)
(* requests are kept.  Contended says whether that one requests at all:    *)
(* it does not while no load or store is in flight.                        *)
(***************************************************************************)
EXTENDS Exu

CONSTANT Contended

ASSUME ContentionAssumption == Contended \in BOOLEAN

VARIABLES
  token,    \* the arbiter's
  other     \* tag the other initiator puts on the bus, at most one

busVars == <<exuVars, token, other>>

Rra == INSTANCE Arbiter WITH N <- 2

\* Initiators 0 and 1 of core.vhd.
EXU == 0
LSU == 1

cdbw_reqs == {i \in {EXU, LSU} : IF i = EXU THEN cdbw_req ELSE other # {}}
cdbw_ack(i) == i \in Rra!granted(cdbw_reqs)

\* What the bus carries to the reservation entries and the registers.
cdbr == IF cdbw_ack(EXU) THEN cdbw ELSE IF cdbw_ack(LSU) THEN other ELSE {}

BusInit == ExuInit /\ Rra!ArbiterInit /\ other = {}

\* The load and store unit holds its result until it is granted (o_cdbw_req of
\* ldu.vhd: a load that is done stays until the bus takes it); the tag is any.
OtherInitiator ==
  other' \in IF other = {} \/ cdbw_ack(LSU)
             THEN {{}} \cup (IF Contended THEN AtMostOne(Tag \ Held') ELSE {})
             ELSE {other}

BusEdge(op) ==
  /\ ExuEdge(op, cdbw_ack(EXU), cdbr)
  /\ Rra!ArbiterEdge(cdbw_reqs)
  /\ OtherInitiator

\* A tag belongs to one instruction in flight (it is a re-order buffer slot).
BusNext ==
  \E op \in Dispatch :
    /\ op.busy => op.tq \notin Held \cup other
    /\ BusEdge(op)

BusSpec == BusInit /\ [][BusNext]_busVars

BusFairSpec == BusSpec /\ WF_busVars(BusNext)

-----------------------------------------------------------------------------
BusTypeOK ==
  /\ ExbTypeOK
  /\ exec \in AtMostOne(Tag)
  /\ cdbw \in AtMostOne(Tag)
  /\ other \in AtMostOne(Tag)
  /\ token \in {EXU, LSU}

(***************************************************************************)
(* An operation is in one place at a time: waiting in one entry, at the    *)
(* output of the ALU or at the bus.  Issue frees the entry and cdbw takes  *)
(* over from the ALU at the same edge, each on its own condition.          *)
(***************************************************************************)
NoDuplicate ==
  /\ \A i, j \in Busy : exb_buf[i].tq = exb_buf[j].tq => i = j
  /\ exec \cap (Waiting \cup cdbw) = {}
  /\ cdbw \cap Waiting = {}

(***************************************************************************)
(* An operation leaves the unit only over the bus.  At an edge at which    *)
(* the unit is not ready (exec_rdy: the bus is denied and a second result  *)
(* is at the output of the ALU) that second result may go, which is what   *)
(* LookAheadKeepsBoth is about, and nothing else: neither the result that  *)
(* requests the bus nor an operation that waits, also one just chosen.     *)
(***************************************************************************)
LeavesOverBus ==
  [][Held \ cdbr \subseteq Held' \cup (IF exec_rdy(cdbw_ack(EXU)) THEN {} ELSE exec)]_busVars

(***************************************************************************)
(* The bus is not left idle for good while somebody requests it: the       *)
(* rotation and its inverse (arbiter.vhd, rotl_req and rotr_req) bring the *)
(* token to an initiator that does request.                                *)
(***************************************************************************)
BusIsGranted == cdbw_reqs # {} ~> Rra!granted(cdbw_reqs) # {}

(***************************************************************************)
(* What exu.vhd:38 says of the look-ahead flag: "there are at least 2      *)
(* values that are ready".  The two are then kept until the bus has taken  *)
(* them, one after the other.                                              *)
(***************************************************************************)
LookAheadKeepsBoth == [][cdbw_lh => (exec \cup cdbw) \ cdbr \subseteq Held']_busVars

=============================================================================
