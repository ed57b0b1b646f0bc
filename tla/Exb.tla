-------------------------------- MODULE Exb --------------------------------
(***************************************************************************)
(* The execution buffer, hw/src/exu/exb.vhd: dispatched operations wait    *)
(* here for their operands, watch the common data bus for them, and are    *)
(* issued oldest first among the ready ones.  The order is kept by the age *)
(* matrix, which has a row for each entry.                                 *)
(*                                                                         *)
(* Operand words and operation codes only pass through and are left out.   *)
(* What is kept of an operand is whether it is there: it awaits a set of   *)
(* at most one tag ("tj while rj = '0'").  The fields of a free entry are  *)
(* all overwritten before they are read, so a free entry is just Free.     *)
(***************************************************************************)
EXTENDS AgeMatrix

CONSTANT Tag

VARIABLE exb_buf

exbVars == <<exb_buf, matrixVars>>

Entry == Row                       \* 2**EXB_LEN entries, one matrix row each

Free == [busy |-> FALSE]

\* Sets that carry at most one tag: an awaited operand, a bus, a register.
AtMostOne(tags) == {{}} \cup {{t} : t \in tags}

\* What a dispatch writes: the tags its operands await and its own.
Operation(tags) == [busy : {TRUE}, tj : AtMostOne(tags), tk : AtMostOne(tags), tq : tags]

\* The dispatch port: an operation or none.
Dispatch == {Free} \cup Operation(Tag)

Busy    == {i \in Entry : exb_buf[i].busy}
op_rdy  == {i \in Busy : exb_buf[i].tj = {} /\ exb_buf[i].tk = {}}
exb_full == Busy = Entry

disp_ptr  == Min(Entry \ Busy)
issue_we  == op_rdy # {}

\* Mutant: the first ready entry instead of the scheduler's.
issue_ptr_First == Min(op_rdy)

issue_ptr == CHOOSE i \in RdRow(op_rdy) : TRUE

ExbInit == exb_buf = [i \in Entry |-> Free] /\ MatrixInit

(***************************************************************************)
(* One clock edge.  op is the dispatched operation, or Free when there is  *)
(* none, written unless the buffer is full; issue_rdy says that the unit   *)
(* takes the selected entry; bus is the tag on the common data bus, which  *)
(* reaches the entries that were busy before the edge and no other.        *)
(***************************************************************************)
ExbEdge(op, issue_rdy, bus) ==
  LET disp_we  == op.busy /\ ~exb_full
      issue_re == issue_rdy /\ issue_we
      snooped(e) == [e EXCEPT !.tj = @ \ bus, !.tk = @ \ bus]
      next(i) == IF disp_we /\ i = disp_ptr THEN op
                 ELSE IF i \notin Busy \/ (issue_re /\ i = issue_ptr) THEN Free
                 ELSE snooped(exb_buf[i])
  IN  /\ exb_buf' = [i \in Entry |-> next(i)]
      /\ MatrixEdge(disp_we, disp_ptr, issue_re, op_rdy)

ExbNext ==
  \E op \in Dispatch, rdy \in BOOLEAN, bus \in AtMostOne(Tag) : ExbEdge(op, rdy, bus)

ExbSpec == ExbInit /\ [][ExbNext]_exbVars

\* The unit keeps taking operations.
ExbFairSpec ==
  /\ ExbSpec
  /\ WF_exbVars(\E op \in Dispatch, bus \in AtMostOne(Tag) : ExbEdge(op, TRUE, bus))

-----------------------------------------------------------------------------
ExbTypeOK ==
  /\ exb_buf \in [Entry -> Dispatch]
  /\ MatrixTypeOK

(***************************************************************************)
(* The buffer and the matrix, which count their entries apart (busy bits   *)
(* here, columns there), agree on what is waiting.                         *)
(***************************************************************************)
MatrixTracksBuffer ==
  /\ Present = Busy
  /\ wr_col = Cardinality(Busy)
  /\ matrix_full <=> exb_full

\* The selected row is always one ready entry: o_rd_addr is never 'X'
\* while something is issued, and what is issued has both its operands.
IssuesAReadyEntry == issue_we => \E i \in op_rdy : RdRow(op_rdy) = {i}

\* The entries in the order of their columns.
EntryAt(j) == CHOOSE i \in Row : <<i, j>> \in age_matrix
ArrivalOrder == [k \in 1 .. wr_col |-> EntryAt(k - 1)]

Schedule == INSTANCE OldestReady
              WITH Capacity <- MATRIX_SIZE, order <- ArrivalOrder, ready <- op_rdy

\* Buffer and matrix implement the issue buffer: what is issued is the
\* oldest ready operation and the others keep their order, while a dispatch
\* and wake-ups happen at the same edge.
IssuesOldestReady == Schedule!OSpec

\* An entry whose operands are there is issued in the end, however many
\* operations come after it: the reason the matrix exists.
ReadyIsIssued == \A i \in Entry : i \in op_rdy ~> i \notin Busy

=============================================================================
