-------------------------------- MODULE Ldu --------------------------------
(***************************************************************************)
(* The load buffer, hw/src/lsu/ldu.vhd.  A load goes to memory while older *)
(* stores are still waiting and is speculative until the last of them has  *)
(* left; a store that leaves to the address of a load hands it its word.   *)
(* The age matrix picks the load that goes to memory next.                 *)
(*                                                                         *)
(* What is kept of a load's data is where it came from, memory or a store, *)
(* and tq, the tag it is for.  addr, ta and grp are sets of at most one,   *)
(* as in Stu.  Of an entry that is not busy the group and the dependency   *)
(* bits are still read.                                                    *)
(***************************************************************************)
EXTENDS AgeMatrix, LsuParams

VARIABLE ldu_buf

lduVars == <<ldu_buf, matrixVars>>

LduSlot == Row                     \* LDU_SIZE entries, one matrix row each

\* Never written: 'U' equals no group, and it differs from no dependencies.
Idle == [busy |-> FALSE, grp |-> {}, st_dep |-> StuSlot]

LoadLeft(e) == [Idle EXCEPT !.grp = e.grp, !.st_dep = e.st_dep]

Load(addr, ta, tq, grp, st_dep) ==
  [busy |-> TRUE, addr |-> addr, ta |-> ta, tq |-> tq, grp |-> {grp},
   commited |-> FALSE, done |-> FALSE, data |-> "none", st_spec |-> FALSE,
   st_dep |-> st_dep]

LduBusy  == {i \in LduSlot : ldu_buf[i].busy}
ldu_full == LduBusy = LduSlot

commit_flags == {i \in LduBusy : ~ldu_buf[i].commited /\ ~ldu_buf[i].done}

retire_flags == {i \in LduBusy : ldu_buf[i].done /\ ~ldu_buf[i].st_spec}
load_rdy(rd_grp) == {i \in commit_flags : ldu_buf[i].grp = {rd_grp}}

\* Every entry is compared, the ones that are not busy too.
ldu_rd_grp_match(rd_grp) == \E i \in LduSlot : ldu_buf[i].grp = {rd_grp}

\* priority_encoder: the highest position; 'X', which to_integer makes 0,
\* where there is none.
Encoded(flags) == IF flags = {} THEN 0 ELSE Max(flags)

ldu_disp_ptr == Encoded(LduSlot \ LduBusy)
retire_ptr   == Encoded(retire_flags)

(***************************************************************************)
(* The mask that the age matrix is given.  load_rdy counts upwards and     *)
(* i_rd_mask downwards, and the port map (ldu.vhd:325) joins them from     *)
(* left to right: the bit of load i arrives at the other end.              *)
(***************************************************************************)
i_rd_mask(rd_grp) == {MATRIX_SIZE - 1 - i : i \in load_rdy(rd_grp)}

(***************************************************************************)
(* The entry the age matrix selects.  With no entry of the mask in it, or  *)
(* no single one in the column, the encoders give 'X', which to_integer    *)
(* makes 0: so the column, and then the entry.                             *)
(***************************************************************************)
issue_ptr(rd_grp) ==
  LET cols   == ColMask(i_rd_mask(rd_grp))
      column == IF cols = {} THEN 0 ELSE Min(cols)
      row    == {i \in Row : <<i, column>> \in age_matrix}
  IN  IF Cardinality(row) = 1 THEN CHOOSE i \in row : TRUE ELSE 0

LduInit == ldu_buf = [i \in LduSlot |-> Idle] /\ MatrixInit
-----------------------------------------------------------------------------
(***************************************************************************)
(* What one edge does to a load, in the order of the process: each takes   *)
(* the entry e as assigned so far and reads the values of before the edge  *)
(* in ldu_buf[i].                                                          *)
(***************************************************************************)
\* The loop over the entries has the bounds of the store buffer.
CdbWriteBack(i, e, bus) ==
  LET old   == ldu_buf[i]
      words == {m \in bus : m.tq \in old.ta}
  IN  IF i \in StuSlot /\ old.busy /\ ~old.commited /\ words # {}
      THEN [e EXCEPT !.addr = {m.vq : m \in words}, !.ta = {}]
      ELSE e

\* Mutant: an answer of the memory also replaces a word that is there.
DataWriteBack_Late(i, e, resp) ==
  IF i \in resp /\ ldu_buf[i].busy /\ ldu_buf[i].commited
  THEN [e EXCEPT !.data = "memory", !.done = TRUE]
  ELSE e

\* resp: the entry that the memory answers, at most one.
DataWriteBack(i, e, resp) ==
  IF i \in resp /\ ldu_buf[i].busy /\ ldu_buf[i].commited /\ ~ldu_buf[i].done
  THEN [e EXCEPT !.data = "memory", !.done = TRUE]
  ELSE e

\* Mutant: the first store that leaves ends the speculation.
StDependencies_First(i, e, issued) ==
  LET mine == {m \in issued : ldu_buf[i].busy /\ m.buf \in ldu_buf[i].st_dep}
      fwd  == \E m \in mine : ldu_buf[i].addr = {m.addr}
  IN  IF mine = {} THEN e
      ELSE [e EXCEPT !.data = IF fwd THEN "store" ELSE @, !.done = @ \/ fwd,
                     !.st_spec = FALSE, !.st_dep = @ \ {m.buf : m \in mine}]

\* issued: the store that leaves, its slot and its address, at most one.
StDependencies(i, e, issued) ==
  LET mine == {m \in issued : ldu_buf[i].busy /\ m.buf \in ldu_buf[i].st_dep}
      fwd  == \E m \in mine : ldu_buf[i].addr = {m.addr}
      last == Cardinality(ldu_buf[i].st_dep) = 1
  IN  IF mine = {} THEN e
      ELSE [e EXCEPT !.data = IF fwd THEN "store" ELSE @, !.done = @ \/ fwd,
                     !.st_spec = @ /\ ~last, !.st_dep = @ \ {m.buf : m \in mine}]

LoadSchedule(i, e, sent) ==
  IF i \in sent /\ e.busy
  THEN [e EXCEPT !.commited = TRUE, !.st_spec = @ \/ ldu_buf[i].st_dep # {}]
  ELSE e

LoadRetire(i, e, retired) == IF i \in retired THEN LoadLeft(e) ELSE e

(***************************************************************************)
(* One clock edge.  new: the dispatched load, at most one; rdy: the memory *)
(* takes a load; ack: the common data bus takes a result.  A request is    *)
(* made when some load waits and some entry has the read group; it is for  *)
(* the entry that the matrix gives, whatever this entry holds.             *)
(***************************************************************************)
LduCommit(rdy, rd_grp) == rdy /\ ldu_rd_grp_match(rd_grp) /\ commit_flags # {}

\* The entry that memory is asked for at an edge, at most one.
Requested(rdy, rd_grp) == IF LduCommit(rdy, rd_grp) THEN {issue_ptr(rd_grp)} ELSE {}

LduEdge(new, bus, resp, issued, rdy, ack, rd_grp) ==
  LET dispatch == new # {} /\ ~ldu_full
      sent     == Requested(rdy, rd_grp)
      retired  == IF ack /\ retire_flags # {} THEN {retire_ptr} ELSE {}
      written(i) == IF dispatch /\ i = ldu_disp_ptr THEN CHOOSE e \in new : TRUE
                    ELSE ldu_buf[i]
      next(i) ==
        LET heard    == CdbWriteBack(i, written(i), bus)
            answered == DataWriteBack(i, heard, resp)
            settled  == StDependencies(i, answered, issued)
            asked    == LoadSchedule(i, settled, sent)
        IN  LoadRetire(i, asked, retired)
  IN  /\ ldu_buf' = [i \in LduSlot |-> next(i)]
      /\ MatrixEdge(dispatch, ldu_disp_ptr, LduCommit(rdy, rd_grp), i_rd_mask(rd_grp))

=============================================================================
