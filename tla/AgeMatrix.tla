----------------------------- MODULE AgeMatrix -----------------------------
(***************************************************************************)
(* The oldest-first scheduler, hw/src/dispatcher.vhd (architecture         *)
(* age_matrix).  A cell at row i and column j says that entry i came j-th. *)
(* The execution buffer, the load unit and the store unit each have one.   *)
(*                                                                         *)
(* The matrix is kept as the set of its cells that hold '1', the one-hot   *)
(* vector wr_col as the position of its bit.                               *)
(***************************************************************************)
EXTENDS Integers, FiniteSets, FiniteSetsExt

CONSTANT MATRIX_SIZE

ASSUME MatrixSizeAssumption == MATRIX_SIZE \in Nat \ {0}

VARIABLES
  age_matrix,  \* the cells <<row, column>> that are set
  wr_col       \* column of the next write, MATRIX_SIZE when there is none

matrixVars == <<age_matrix, wr_col>>

Row == 0 .. MATRIX_SIZE - 1
Col == 0 .. MATRIX_SIZE - 1

matrix_empty == wr_col = 0
matrix_full  == wr_col = MATRIX_SIZE

\* Mutant: the youngest column of the mask counts.
ColMask_Youngest(mask) ==
  LET cols == {j \in Col : \E i \in mask : <<i, j>> \in age_matrix}
  IN  IF cols = {} THEN {} ELSE {Max(cols)}

\* The columns that hold an entry of the mask; the lowest is the oldest.
ColMask(mask) == {j \in Col : \E i \in mask : <<i, j>> \in age_matrix}

\* Mutants: the youngest column of the mask, the youngest column of all.
ColAddr_Youngest(mask) == Max(ColMask(mask))
ColAddr_Last(mask)     == IF matrix_empty THEN 0 ELSE wr_col - 1

ColAddr(mask) == Min(ColMask(mask))

\* The row vector that o_rd_addr decodes: one entry if the matrix is sound.
RdRow(mask) == {i \in Row : <<i, ColAddr(mask)>> \in age_matrix}

\* Mutant: a write takes the next column though a read shifts it down.
WriteColumn_NoShift(re) == wr_col

\* The column that a write fills, after the shift of a read.
WriteColumn(re) == IF re THEN wr_col - 1 ELSE wr_col

MatrixInit == age_matrix = {} /\ wr_col = 0

(***************************************************************************)
(* One clock edge.  A read drops the selected column and moves the younger *)
(* ones one column down; a write fills the next free column, one lower     *)
(* when a read frees it at the same edge.                                  *)
(***************************************************************************)
MatrixEdge(i_we, wr_addr, i_re, mask) ==
  LET we == i_we /\ ~matrix_full
      re == i_re /\ ~matrix_empty
      shift_en(j) == re /\ \E c \in ColMask(mask) : c <= j
      cell(i, j) ==
        \/ we /\ i = wr_addr /\ j = WriteColumn(re)
        \/ shift_en(j) /\ <<i, j + 1>> \in age_matrix
        \/ ~shift_en(j) /\ <<i, j>> \in age_matrix
  IN  /\ age_matrix' = {c \in Row \X Col : cell(c[1], c[2])}
      /\ wr_col' = CASE re /\ ~we -> wr_col - 1
                     [] we /\ ~re -> wr_col + 1
                     [] OTHER -> wr_col

-----------------------------------------------------------------------------
Present == {i \in Row : \E j \in Col : <<i, j>> \in age_matrix}

(***************************************************************************)
(* How the buffers drive it: an entry is written while it is free, a read  *)
(* comes with a mask of entries in the buffer and at least one of them.    *)
(***************************************************************************)
MatrixNext ==
  \E we, re \in BOOLEAN, a \in Row, mask \in SUBSET Present :
    /\ we => a \notin Present
    /\ re <=> mask # {}
    /\ MatrixEdge(we, a, re, mask)

MatrixSpec == MatrixInit /\ [][MatrixNext]_matrixVars

-----------------------------------------------------------------------------
MatrixTypeOK ==
  /\ age_matrix \subseteq Row \X Col
  /\ wr_col \in 0 .. MATRIX_SIZE

(***************************************************************************)
(* The columns below wr_col hold one entry each, the others none, and no   *)
(* entry is in two columns: shifting and writing at one edge (p_next_age_  *)
(* matrix) neither loses nor duplicates an entry.                          *)
(***************************************************************************)
OneEntryPerColumn ==
  /\ \A c \in age_matrix : c[2] < wr_col
  /\ \A j \in 0 .. wr_col - 1 : \E i \in Row : <<i, j>> \in age_matrix
  /\ \A c, d \in age_matrix : c[1] = d[1] <=> c[2] = d[2]

(***************************************************************************)
(* Whatever the mask, the row that is read is in the mask and no other     *)
(* entry of the mask came before it: the step from mask to age priority    *)
(* that the FIXME of dispatcher.vhd:164 doubts.                            *)
(***************************************************************************)
ReadsOldestOfMask ==
  \A mask \in (SUBSET Present) \ {{}} :
    \E oldest \in mask :
      /\ RdRow(mask) = {oldest}
      /\ \A i \in mask, j, k \in Col :
           <<oldest, j>> \in age_matrix /\ <<i, k>> \in age_matrix => j <= k

=============================================================================
