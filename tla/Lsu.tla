-------------------------------- MODULE Lsu --------------------------------
(***************************************************************************)
(* The load and store unit, hw/src/lsu/lsu.vhd: the load buffer, the store *)
(* buffer and the groups at one edge, with the ports connected as lsu.vhd  *)
(* does and the operands as core.vhd:400-407 gives them.                   *)
(*                                                                         *)
(* The address of a load or store is computed by the execution unit and    *)
(* comes over the bus with the tag of its own buffer entry; the data of a  *)
(* store comes with the tag of the re-order buffer slot that produces it.  *)
(***************************************************************************)
EXTENDS Ldu, Stu, Grp

CONSTANTS
  Addr,     \* memory addresses
  DataTag   \* re-order buffer tags: a load's own, the one a store's data awaits

ASSUME AddressAssumption == Addr # {}

VARIABLES
  older,    \* history: for each load the stores before it that have not left
  hit,      \* history: loads to whose address one of these has left
  stray     \* history: loads dispatched at an edge at which memory was asked for their entry

history == <<older, hit, stray>>

unitVars == <<lduVars, stuVars, grpVars>>
lsuVars  == <<unitVars, history>>

LduTag(i) == <<"UNIT_LSU_LDU", i>>
StuTag(s) == <<"UNIT_LSU_STU", s>>

None == {}

\* An address is the immediate with rs1 = x0, else it is awaited.
Operand(tag) ==
  {[addr |-> {}, ta |-> {tag}]} \cup {[addr |-> {a}, ta |-> {}] : a \in Addr}

DispatchedLoad ==
  UNION {{Load(o.addr, o.ta, tq, wr_grp, stu_deps) : o \in Operand(LduTag(ldu_disp_ptr))}
           : tq \in DataTag}

\* The data of a store is x0, or the tag of its producer is awaited.
DispatchedStore ==
  UNION {{Store(o.addr, o.ta, td, wr_grp) : o \in Operand(StuTag(stu_wr_ptr))}
           : td \in {{}} \cup {{t} : t \in DataTag}}

UnitInit == GrpInit /\ StuInit /\ LduInit

LsuInit ==
  /\ UnitInit
  /\ older = [i \in LduSlot |-> {}]
  /\ hit = {} /\ stray = {}

\* The store that leaves at an edge, its slot and its address.
Leaving(wr_rdy) ==
  IF wr_rdy /\ store_rdy(rd_grp)
  THEN {[buf |-> stu_rd_ptr, addr |-> CHOOSE a \in stb[stu_rd_ptr].addr : TRUE]}
  ELSE {}

(***************************************************************************)
(* One edge: a load, a store, a fence or nothing is dispatched (loads and  *)
(* stores are sets of at most one), the bus carries a word or none, the    *)
(* memory takes a store (wr_rdy), takes a load (rd_rdy) and answers one    *)
(* (resp), the bus takes a result (ack).                                   *)
(***************************************************************************)
LsuEdge(loads, stores, fence, bus, resp, wr_rdy, rd_rdy, ack) ==
  /\ GrpEdge(fence, stu_rd_grp_match(rd_grp), ldu_rd_grp_match(rd_grp))
  /\ StuEdge(stores, bus, wr_rdy, rd_grp)
  /\ LduEdge(loads, bus, resp, Leaving(wr_rdy), rd_rdy, ack, rd_grp)

\* What the properties remember of that edge.
HistoryEdge(loads, wr_rdy, rd_rdy) ==
  LET issued  == Leaving(wr_rdy)
      left    == {m.buf : m \in issued}
      waiting == StuBusy \ left
      overtaken(i) == i \in LduBusy /\ \E m \in issued :
                        m.buf \in older[i] /\ ldu_buf[i].addr = {m.addr}
      placed(i) == loads # {} /\ ~ldu_full /\ i = ldu_disp_ptr
  IN  /\ older' = [i \in LduSlot |->
                     IF placed(i) THEN waiting
                     ELSE IF ldu_buf'[i].busy THEN older[i] \ left ELSE {}]
      /\ hit' = {i \in LduSlot : ~placed(i) /\ ldu_buf'[i].busy /\ (i \in hit \/ overtaken(i))}
      /\ stray' = {i \in LduSlot :
                     /\ ldu_buf'[i].busy
                     /\ IF placed(i) THEN i \in Requested(rd_rdy, rd_grp) ELSE i \in stray}

\* The inputs that make a difference in this state.  The word of a store's
\* data is left out, so with its tag comes no particular one.
BusWords ==
  LET tas == UNION {ldu_buf[i].ta : i \in LduBusy} \cup UNION {stb[s].ta : s \in StuBusy}
      tds == UNION {stb[s].td : s \in StuBusy}
  IN  [tq : tas, vq : Addr] \cup [tq : tds, vq : {CHOOSE a \in Addr : TRUE}]

\* Memory answers a request once, also when a store has served the load since.
Answerable == {i \in LduBusy : ldu_buf[i].commited /\ ldu_buf[i].data # "memory"}

LsuInputs(loads, stores, fence) ==
  \E bus \in {{}} \cup {{m} : m \in BusWords},
     resp \in {{}} \cup {{i} : i \in Answerable},
     wr_rdy \in {FALSE, store_rdy(rd_grp)},
     rd_rdy \in {FALSE, commit_flags # {}},
     ack \in {FALSE, retire_flags # {}} :
    /\ LsuEdge(loads, stores, fence, bus, resp, wr_rdy, rd_rdy, ack)
    /\ HistoryEdge(loads, wr_rdy, rd_rdy)

\* What comes to a full unit is not taken: such an edge is a quiet one.
LsuDispatch ==
  \/ ~ldu_full /\ \E l \in DispatchedLoad : LsuInputs({l}, None, FALSE)
  \/ ~stu_full /\ \E s \in DispatchedStore : LsuInputs(None, {s}, FALSE)
  \/ ~grp_full /\ LsuInputs(None, None, TRUE)

LsuQuiet == LsuInputs(None, None, FALSE)

LsuNext == LsuDispatch \/ LsuQuiet

LsuSpec == LsuInit /\ [][LsuNext]_lsuVars

-----------------------------------------------------------------------------
AtMost1(S) == Cardinality(S) <= 1

LsuTypeOK ==
  /\ GrpTypeOK /\ MatrixTypeOK
  /\ stu_wr_ptr \in StuSlot /\ stu_rd_ptr \in StuSlot
  /\ \A s \in StuBusy :
       /\ stb[s].addr \in SUBSET Addr /\ AtMost1(stb[s].addr \cup stb[s].ta)
       /\ stb[s].td \subseteq DataTag
  /\ \A i \in LduBusy :
       /\ ldu_buf[i].addr \in SUBSET Addr /\ AtMost1(ldu_buf[i].addr \cup ldu_buf[i].ta)
       /\ ldu_buf[i].st_dep \subseteq StuSlot
       /\ ldu_buf[i].done <=> ldu_buf[i].data # "none"

(***************************************************************************)
(* The stores that wait are the ones between the two pointers of stu.vhd,  *)
(* and from the head on their groups come in the order in which grp.vhd    *)
(* opened them, though the numbers wrap: the head is the oldest store, so  *)
(* stores go to memory in program order and a fence between two holds.     *)
(***************************************************************************)
StoreRing ==
  LET at(k) == (stu_rd_ptr + k) % STU_SIZE
      n     == Cardinality(StuBusy)
  IN  /\ StuBusy = {at(k) : k \in 0 .. n - 1}
      /\ stu_wr_ptr = at(n)
      /\ \A k, l \in 0 .. n - 1 : \A g \in stb[at(k)].grp, h \in stb[at(l)].grp :
           k <= l => Distance(g) <= Distance(h)

(***************************************************************************)
(* The read group never passes a load or store that still waits in it,     *)
(* though both units compare entries that are not busy and fences come at  *)
(* the same edge (grp.vhd:59): every group in use is still to be read.     *)
(***************************************************************************)
NobodyLeftBehind ==
  \A e \in {ldu_buf[i] : i \in LduBusy} \cup {stb[s] : s \in StuBusy} :
    \A g \in e.grp : Distance(g) <= Distance(wr_grp)

(***************************************************************************)
(* ldu.vhd:6, "wait until all stores are cleared to send the result to     *)
(* cdb", for a load that memory was asked for: it does not offer its       *)
(* result while a store from before it is in the store buffer, whichever   *)
(* load the request was meant for.  Two kinds of loads do not wait in the  *)
(* code and are excepted (see the README): those that a store served       *)
(* before memory was asked, and those dispatched into an entry at the edge *)
(* of a request for it, whose mark is set from what the entry held before. *)
(***************************************************************************)
WaitsForOlderStores ==
  \A i \in retire_flags \ stray : ldu_buf[i].commited => older[i] = {}

(***************************************************************************)
(* When a store from before a load has left to the load's address, the     *)
(* load has a word of a store, whether memory answered it before, answers  *)
(* it at that edge or answers it later (ldu.vhd:229-247).                  *)
(***************************************************************************)
StoreBeatsMemory == \A i \in hit \cap LduBusy : ldu_buf[i].done /\ ldu_buf[i].data = "store"

=============================================================================
