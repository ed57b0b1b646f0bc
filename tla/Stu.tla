-------------------------------- MODULE Stu --------------------------------
(***************************************************************************)
(* The store buffer, hw/src/lsu/stu.vhd: a ring of stores that wait for    *)
(* their address and their data and go to memory in program order, each in *)
(* its group.                                                              *)
(*                                                                         *)
(* An address is a set of at most one, empty while addr_rdy = '0'; tags    *)
(* that are waited for are sets in the same way.  Words and widths only    *)
(* pass through and are left out, so the data field is the tag it awaits.  *)
(* Of an entry that is not busy only the group is read: o_rd_grp_match     *)
(* looks at the head whether it is busy or not.  The group of an entry     *)
(* that was never written ('U') equals none: {}.                            *)
(***************************************************************************)
EXTENDS LsuParams

VARIABLES stb, stu_wr_ptr, stu_rd_ptr

stuVars == <<stb, stu_wr_ptr, stu_rd_ptr>>

\* Mutant: the pointers do not wrap.
StuInc_NoWrap(p) == p + 1

StuInc(p) == (p + 1) % STU_SIZE

StuBusy  == {s \in StuSlot : stb[s].busy}

\* Mutant: a store is written into a full buffer.
stu_full_Never == FALSE

stu_full == StuBusy = StuSlot

\* commited and busy of an entry are never set together, so the stores a
\* new load depends on are the busy ones.
stu_deps == StuBusy

Store(addr, ta, td, grp) ==
  [busy |-> TRUE, addr |-> addr, ta |-> ta, td |-> td, grp |-> {grp}]

StoreLeft(e) == [busy |-> FALSE, grp |-> e.grp]

stu_rd_grp_match(rd_grp) == stb[stu_rd_ptr].grp = {rd_grp}

store_rdy(rd_grp) ==
  LET head == stb[stu_rd_ptr]
  IN  head.busy /\ head.addr # {} /\ head.td = {} /\ stu_rd_grp_match(rd_grp)

StuInit ==
  /\ stb = [s \in StuSlot |-> [busy |-> FALSE, grp |-> {}]]
  /\ stu_wr_ptr = 0 /\ stu_rd_ptr = 0

(***************************************************************************)
(* One clock edge.  new is the dispatched store, a set of at most one; bus *)
(* the words on the common data bus, records of a tag tq and a word vq, at *)
(* most one; rdy says that the memory takes a store.                       *)
(***************************************************************************)
StuEdge(new, bus, rdy, rd_grp) ==
  LET write  == new # {} /\ ~stu_full
      commit == rdy /\ store_rdy(rd_grp)
      heard(e) ==
        LET words == {m.vq : m \in {b \in bus : b.tq \in e.ta}}
            tags  == {m.tq : m \in bus}
        IN  [e EXCEPT !.addr = @ \cup words, !.ta = @ \ tags, !.td = @ \ tags]
      next(s) == IF s = stu_rd_ptr /\ commit THEN StoreLeft(stb[s])
                 ELSE IF s = stu_wr_ptr /\ write THEN CHOOSE e \in new : TRUE
                 ELSE IF s \in StuBusy THEN heard(stb[s]) ELSE stb[s]
  IN  /\ stb' = [s \in StuSlot |-> next(s)]
      /\ stu_wr_ptr' = IF write THEN StuInc(stu_wr_ptr) ELSE stu_wr_ptr
      /\ stu_rd_ptr' = IF commit THEN StuInc(stu_rd_ptr) ELSE stu_rd_ptr

=============================================================================
