----------------------------- MODULE ExbProofs -----------------------------
(***************************************************************************)
(* The execution buffer for every number of entries and every set of tags. *)
(* Buffer and matrix are updated from the same signals but each counts its *)
(* own entries; that the two agree is what makes the selected row one      *)
(* ready entry, and that in turn is why they go on agreeing.               *)
(***************************************************************************)
EXTENDS Exb, AgeMatrixProofs, SequenceTheorems

ExbInv == ExbTypeOK /\ OneEntryPerColumn /\ Present = Busy

\* What a waiting entry becomes while the bus carries a tag.
Snooped(e, bus) == [e EXCEPT !.tj = @ \ bus, !.tk = @ \ bus]

\* An edge, spelled out: what is assumed of the inputs.
ExbStep(op, rdy, bus) == op \in Dispatch /\ rdy \in BOOLEAN /\ ExbEdge(op, rdy, bus)

\* An entry is an operation while it is busy and Free otherwise.
LEMMA EntryShape ==
  ASSUME NEW e \in Dispatch
  PROVE  /\ e.busy \in BOOLEAN
         /\ e.busy <=> e \in Operation(Tag)
         /\ ~e.busy <=> e = Free
  <1>1. \A o \in Operation(Tag) : o.busy = TRUE
    BY DEF Operation
  <1>2. Free.busy = FALSE
    BY DEF Free
  <1> QED
    BY <1>1, <1>2 DEF Dispatch

\* Snooping the bus leaves an operation an operation.
LEMMA SnoopedIsOperation ==
  ASSUME NEW e \in Operation(Tag), NEW bus
  PROVE  Snooped(e, bus) \in Operation(Tag)
  <1>1. \A t \in AtMostOne(Tag) : t \ bus \in AtMostOne(Tag)
    BY DEF AtMostOne
  <1> QED
    BY <1>1 DEF Operation, Snooped

\* What is issued is one ready entry, and an entry is written while it is free.
LEMMA PointersAreRight ==
  ASSUME ExbInv
  PROVE  /\ issue_we => /\ RdRow(op_rdy) = {issue_ptr}
                        /\ issue_ptr \in op_rdy
         /\ ~exb_full => disp_ptr \in Entry \ Busy
  <1>1. MatrixInv
    BY DEF ExbInv, ExbTypeOK, MatrixInv
  <1>2. op_rdy \in SUBSET Present
    BY DEF ExbInv, op_rdy
  <1>3. issue_we => \E oldest \in op_rdy : RdRow(op_rdy) = {oldest}
    BY <1>1, <1>2, OldestIsRead DEF issue_we
  <1>4. issue_we => RdRow(op_rdy) = {issue_ptr} /\ issue_ptr \in op_rdy
    BY <1>3 DEF issue_ptr
  <1>5. ~exb_full => disp_ptr \in Entry \ Busy
    <2>1. Entry \ Busy \in SUBSET Nat
      BY ColsAreNumbers DEF Entry
    <2>2. ~exb_full => Entry \ Busy # {}
      BY DEF exb_full, Busy
    <2> QED
      BY <2>1, <2>2, MinIsLeast DEF disp_ptr
  <1> QED
    BY <1>4, <1>5

\* The buffer at an edge: the entry that is dispatched, the one that is
\* issued, and what the bus does to the others.
LEMMA BufferAfterStep ==
  ASSUME ExbInv, NEW op, NEW rdy, NEW bus, ExbStep(op, rdy, bus)
  PROVE  /\ exb_buf' \in [Entry -> Dispatch]
         /\ \A i \in Entry :
              exb_buf'[i] =
                IF op.busy /\ ~exb_full /\ i = disp_ptr THEN op
                ELSE IF i \notin Busy \/ (rdy /\ issue_we /\ i = issue_ptr) THEN Free
                ELSE Snooped(exb_buf[i], bus)
  <1>1. exb_buf \in [Entry -> Dispatch]
    BY DEF ExbInv, ExbTypeOK
  <1>2. \A i \in Entry :
          exb_buf'[i] =
            IF op.busy /\ ~exb_full /\ i = disp_ptr THEN op
            ELSE IF i \notin Busy \/ (rdy /\ issue_we /\ i = issue_ptr) THEN Free
            ELSE Snooped(exb_buf[i], bus)
    BY DEF ExbStep, ExbEdge, Snooped
  <1>3. ASSUME NEW i \in Busy
        PROVE  Snooped(exb_buf[i], bus) \in Operation(Tag)
    BY <1>1, SnoopedIsOperation, EntryShape DEF Busy
  <1>4. \A i \in Entry : exb_buf'[i] \in Dispatch
    BY <1>2, <1>3 DEF ExbStep, Dispatch
  <1>5. exb_buf' = [i \in Entry |-> exb_buf'[i]]
    BY DEF ExbStep, ExbEdge, Snooped
  <1> QED
    BY <1>2, <1>4, <1>5

\* The busy entries after an edge.
LEMMA BusyAfterStep ==
  ASSUME ExbInv, NEW op, NEW rdy, NEW bus, ExbStep(op, rdy, bus)
  PROVE  Busy' = (Busy \ (IF rdy /\ issue_we THEN {issue_ptr} ELSE {}))
                   \cup (IF op.busy /\ ~exb_full THEN {disp_ptr} ELSE {})
  <1>1. exb_buf \in [Entry -> Dispatch]
    BY DEF ExbInv, ExbTypeOK
  <1>2. ~exb_full => disp_ptr \in Entry \ Busy
    BY PointersAreRight
  <1>3. ASSUME NEW i \in Entry
        PROVE  exb_buf'[i].busy <=>
                 \/ op.busy /\ ~exb_full /\ i = disp_ptr
                 \/ i \in Busy /\ ~(rdy /\ issue_we /\ i = issue_ptr)
    <2>1. CASE op.busy /\ ~exb_full /\ i = disp_ptr
      BY <2>1, BufferAfterStep
    <2>2. CASE /\ ~(op.busy /\ ~exb_full /\ i = disp_ptr)
               /\ i \notin Busy \/ (rdy /\ issue_we /\ i = issue_ptr)
      <3>1. exb_buf'[i] = IF op.busy /\ ~exb_full /\ i = disp_ptr THEN op
                          ELSE IF i \notin Busy \/ (rdy /\ issue_we /\ i = issue_ptr) THEN Free
                          ELSE Snooped(exb_buf[i], bus)
        BY BufferAfterStep
      <3>2. exb_buf'[i] = Free
        BY <2>2, <3>1, Zenon
      <3>3. ~exb_buf'[i].busy
        BY <3>2 DEF Free
      <3> QED
        BY <2>2, <3>3
    <2>3. CASE /\ ~(op.busy /\ ~exb_full /\ i = disp_ptr)
               /\ ~(i \notin Busy \/ (rdy /\ issue_we /\ i = issue_ptr))
      <3>1. exb_buf'[i] = Snooped(exb_buf[i], bus)
        BY <2>3, BufferAfterStep
      <3>2. exb_buf[i] \in Operation(Tag)
        BY <1>1, <2>3, EntryShape DEF Busy
      <3>3. exb_buf'[i] \in Operation(Tag)
        BY <3>1, <3>2, SnoopedIsOperation
      <3>4. exb_buf'[i].busy
        BY <3>3 DEF Operation
      <3> QED
        BY <2>3, <3>4
    <2> QED
      BY <2>1, <2>2, <2>3
  <1> QED
    BY <1>2, <1>3 DEF Busy

\* The invariant is inductive.
LEMMA ExbStepInv ==
  ASSUME ExbInv, NEW op, NEW rdy, NEW bus, ExbStep(op, rdy, bus)
  PROVE  ExbInv'
  <1> DEFINE we   == op.busy /\ ~exb_full
             re   == rdy /\ issue_we
             mask == IF re THEN op_rdy ELSE {}
             a    == IF we THEN disp_ptr ELSE 0
  <1>1. MatrixInv /\ Present = Busy
    BY DEF ExbInv, ExbTypeOK, MatrixInv
  <1>2. we \in BOOLEAN /\ re \in BOOLEAN
    BY EntryShape DEF ExbStep, issue_we
  <1>3. ~exb_full => disp_ptr \in Entry \ Busy
    BY PointersAreRight
  <1>4. a \in Row /\ (we => a \notin Present)
    BY <1>1, <1>3, MatrixSizeAssumption DEF Entry, Row
  <1>5. mask \in SUBSET Present /\ (re <=> mask # {})
    BY <1>1 DEF op_rdy, issue_we
  <1>6. MatrixEdge(we, a, re, mask)
    <2>1. MatrixEdge(we, disp_ptr, re, op_rdy)
      BY DEF ExbStep, ExbEdge
    <2>2. MatrixEdge(we, disp_ptr, re, mask)
      <3>1. CASE re
        BY <2>1, <3>1
      <3>2. CASE ~re
        <4>1. MatrixEdge(we, disp_ptr, FALSE, op_rdy)
          BY <2>1, <3>2, <1>2
        <4>2. MatrixEdge(we, disp_ptr, FALSE, {})
          BY <4>1, MaskWithoutRead
        <4> QED
          BY <4>2, <3>2, <1>2
      <3> QED
        BY <3>1, <3>2
    <2> QED
      BY <2>2, <1>2 DEF MatrixEdge
  <1>7. MatrixInv'
    BY <1>1, <1>2, <1>4, <1>5, <1>6, MatrixEdgeInv
  <1>8. Present' = (Present \ (IF re THEN RdRow(mask) ELSE {}))
                     \cup (IF we /\ ~matrix_full THEN {a} ELSE {})
    BY <1>1, <1>2, <1>4, <1>5, <1>6, PresentAfterEdge
  <1>9. we => ~matrix_full
    BY <1>1, ColumnsCountEntries DEF exb_full, Entry
  <1>10. re => RdRow(mask) = {issue_ptr}
    BY PointersAreRight
  <1>11. Busy' = (Busy \ (IF re THEN {issue_ptr} ELSE {})) \cup (IF we THEN {disp_ptr} ELSE {})
    BY BusyAfterStep
  <1>12. Present' = Busy'
    BY <1>1, <1>8, <1>9, <1>10, <1>11
  <1>13. exb_buf' \in [Entry -> Dispatch]
    BY BufferAfterStep
  <1> QED
    BY <1>7, <1>12, <1>13 DEF ExbInv, ExbTypeOK, MatrixInv

\* The empty buffer.
LEMMA ExbInitInv == ExbInit => ExbInv
  <1> SUFFICES ASSUME ExbInit PROVE ExbInv
    OBVIOUS
  <1>1. MatrixInv
    BY MatrixInitInv DEF ExbInit
  <1>2. exb_buf \in [Entry -> Dispatch]
    BY DEF ExbInit, Dispatch
  <1>3. Present = {}
    BY DEF ExbInit, MatrixInit, Present
  <1>4. Busy = {}
    BY DEF ExbInit, Busy, Free
  <1> QED
    BY <1>1, <1>2, <1>3, <1>4 DEF ExbInv, ExbTypeOK, MatrixInv

\* A step in which nothing changes.
LEMMA ExbStutterInv == ExbInv /\ UNCHANGED exbVars => ExbInv'
  BY DEF ExbInv, ExbTypeOK, MatrixTypeOK, OneEntryPerColumn, Present, Busy, exbVars, matrixVars

\* Every behaviour of the buffer satisfies the invariant.
LEMMA ExbInvHolds == ExbSpec => []ExbInv
  <1>1. ExbInv /\ [ExbNext]_exbVars => ExbInv'
    BY ExbStepInv, ExbStutterInv DEF ExbNext, ExbStep
  <1> QED
    BY ExbInitInv, <1>1, PTL DEF ExbSpec

-----------------------------------------------------------------------------
\* What the invariant says of the two counts.
LEMMA InvTracks == ExbInv => MatrixTracksBuffer
  <1> SUFFICES ASSUME ExbInv PROVE MatrixTracksBuffer
    OBVIOUS
  <1>1. MatrixInv /\ Present = Busy
    BY DEF ExbInv, ExbTypeOK, MatrixInv
  <1> QED
    BY <1>1, ColumnsCountEntries DEF MatrixTracksBuffer, exb_full, Entry

(***************************************************************************)
(* For every size, the busy bits of exb.vhd and the columns of its age     *)
(* matrix say the same of what is waiting, and both are full at once.      *)
(***************************************************************************)
THEOREM BufferAndMatrixAgree == ExbSpec => []MatrixTracksBuffer
  BY InvTracks, ExbInvHolds, PTL

(***************************************************************************)
(* For every size, whenever something is issued the row that the matrix    *)
(* reads is exactly one ready entry (exb.vhd, issue_ptr).                  *)
(***************************************************************************)
THEOREM OneReadyEntryIsIssued == ExbSpec => []IssuesAReadyEntry
  <1>1. ExbInv => IssuesAReadyEntry
    BY PointersAreRight DEF IssuesAReadyEntry
  <1> QED
    BY <1>1, ExbInvHolds, PTL

-----------------------------------------------------------------------------
(***************************************************************************)
(* The order of arrival.                                                   *)
(***************************************************************************)

\* The element at c leaves, and those behind it move one place up.
LEMMA RemoveAtProperties ==
  ASSUME NEW S, NEW s \in Seq(S), NEW c \in 1 .. Len(s)
  PROVE  /\ Schedule!RemoveAt(s, c) \in Seq(S)
         /\ Len(Schedule!RemoveAt(s, c)) = Len(s) - 1
         /\ \A k \in 1 .. Len(s) - 1 :
              Schedule!RemoveAt(s, c)[k] = IF k < c THEN s[k] ELSE s[k + 1]
  <1> DEFINE low == SubSeq(s, 1, c - 1)
             high == SubSeq(s, c + 1, Len(s))
  <1>1. Len(s) \in Nat /\ c \in Int /\ c >= 1 /\ c <= Len(s) /\ \A k \in 1 .. Len(s) : s[k] \in S
    BY ElementOfSeq, LenProperties
  <1>2. /\ low \in Seq(S) /\ Len(low) = c - 1
        /\ \A k \in 1 .. c - 1 : low[k] = s[k]
    <2>1. \A k \in 1 .. c - 1 : s[k] \in S
      BY <1>1
    <2>2. /\ low \in Seq(S)
          /\ Len(low) = IF 1 <= c - 1 THEN (c - 1) - 1 + 1 ELSE 0
          /\ \A k \in 1 .. (c - 1) - 1 + 1 : low[k] = s[1 + k - 1]
      BY <1>1, <2>1, SubSeqProperties
    <2> HIDE DEF low
    <2> QED
      BY <1>1, <2>2
  <1>3. /\ high \in Seq(S) /\ Len(high) = Len(s) - c
        /\ \A k \in 1 .. Len(s) - c : high[k] = s[c + k]
    <2>1. \A k \in c + 1 .. Len(s) : s[k] \in S
      BY <1>1
    <2>2. /\ high \in Seq(S)
          /\ Len(high) = IF c + 1 <= Len(s) THEN Len(s) - (c + 1) + 1 ELSE 0
          /\ \A k \in 1 .. Len(s) - (c + 1) + 1 : high[k] = s[c + 1 + k - 1]
      BY <1>1, <2>1, SubSeqProperties
    <2> HIDE DEF high
    <2> QED
      BY <1>1, <2>2
  <1>4. Schedule!RemoveAt(s, c) = low \o high
    BY DEF Schedule!RemoveAt
  <1> HIDE DEF low, high
  <1>5. /\ low \o high \in Seq(S)
        /\ Len(low \o high) = Len(low) + Len(high)
        /\ \A k \in 1 .. Len(low) + Len(high) :
             (low \o high)[k] = IF k <= Len(low) THEN low[k] ELSE high[k - Len(low)]
    BY <1>2, <1>3, ConcatProperties
  <1>6. ASSUME NEW k \in 1 .. Len(s) - 1
        PROVE  (low \o high)[k] = IF k < c THEN s[k] ELSE s[k + 1]
    <2>1. k \in 1 .. Len(low) + Len(high)
      BY <1>1, <1>2, <1>3
    <2>2. (low \o high)[k] = IF k <= Len(low) THEN low[k] ELSE high[k - Len(low)]
      BY <1>5, <2>1
    <2>3. CASE k < c
      BY <1>1, <1>2, <2>2, <2>3
    <2>4. CASE ~(k < c)
      <3>1. k - (c - 1) \in 1 .. Len(s) - c /\ c + (k - (c - 1)) = k + 1
        BY <1>1, <2>4
      <3>2. (low \o high)[k] = high[k - (c - 1)]
        BY <1>1, <1>2, <2>2, <2>4
      <3> QED
        BY <1>3, <2>4, <3>1, <3>2
    <2> QED
      BY <2>3, <2>4
  <1> QED
    BY <1>1, <1>2, <1>3, <1>4, <1>5, <1>6

\* The columns in use hold the busy entries, each once.
OrderShape ==
  /\ wr_col \in Nat /\ wr_col <= MATRIX_SIZE
  /\ \A j \in 0 .. wr_col - 1 : /\ j \in Col /\ EntryAt(j) \in Row
                                /\ \A i \in Row : <<i, j>> \in age_matrix <=> i = EntryAt(j)
  /\ ArrivalOrder \in Seq(Row) /\ Len(ArrivalOrder) = wr_col
  /\ \A k \in 1 .. wr_col : ArrivalOrder[k] = EntryAt(k - 1)
  /\ Schedule!ToSet(ArrivalOrder) = Busy

LEMMA OrderIsShaped == ExbInv => OrderShape
  <1> SUFFICES ASSUME ExbInv PROVE OrderShape
    OBVIOUS
  <1>1. /\ wr_col \in 0 .. MATRIX_SIZE /\ age_matrix \subseteq Row \X Col
        /\ wr_col \in Nat /\ wr_col <= MATRIX_SIZE
    BY MatrixSizeAssumption DEF ExbInv, ExbTypeOK, MatrixTypeOK
  <1>2. /\ \A c \in age_matrix : c[2] < wr_col
        /\ \A j \in 0 .. wr_col - 1 : \E i \in Row : <<i, j>> \in age_matrix
        /\ \A i, m \in Row, j \in Col :
             <<i, j>> \in age_matrix /\ <<m, j>> \in age_matrix => i = m
    BY DEF ExbInv, OneEntryPerColumn
  <1>3. ASSUME NEW j \in 0 .. wr_col - 1
        PROVE  /\ j \in Col /\ EntryAt(j) \in Row
               /\ \A i \in Row : <<i, j>> \in age_matrix <=> i = EntryAt(j)
    <2>1. j \in Col
      BY <1>1, MatrixSizeAssumption DEF Col
    <2>2. EntryAt(j) \in Row /\ <<EntryAt(j), j>> \in age_matrix
      BY <1>2 DEF EntryAt
    <2> QED
      BY <1>2, <2>1, <2>2
  <1>4. \A k \in 1 .. wr_col : k - 1 \in 0 .. wr_col - 1
    BY <1>1
  <1>5. /\ ArrivalOrder \in Seq(Row) /\ Len(ArrivalOrder) = wr_col
        /\ DOMAIN ArrivalOrder = 1 .. wr_col
        /\ \A k \in 1 .. wr_col : ArrivalOrder[k] = EntryAt(k - 1)
    <2>1. \A k \in 1 .. wr_col : EntryAt(k - 1) \in Row
      BY <1>3, <1>4
    <2>2. ArrivalOrder \in Seq(Row)
      BY <1>1, <2>1 DEF ArrivalOrder
    <2> QED
      BY <1>1, <2>2 DEF ArrivalOrder
  <1>6. Schedule!ToSet(ArrivalOrder) = {EntryAt(k - 1) : k \in 1 .. wr_col}
    BY <1>5 DEF Schedule!ToSet
  <1>7. Present = {EntryAt(k - 1) : k \in 1 .. wr_col}
    <2>1. ASSUME NEW i \in Present
          PROVE  \E k \in 1 .. wr_col : i = EntryAt(k - 1)
      <3>1. PICK j \in Col : i \in Row /\ <<i, j>> \in age_matrix
        BY DEF Present
      <3>2. j < wr_col
        BY <1>2, <3>1
      <3>3. j \in 0 .. wr_col - 1 /\ j + 1 \in 1 .. wr_col /\ (j + 1) - 1 = j
        BY <1>1, <3>2, ColsAreNumbers
      <3> QED
        BY <1>3, <3>1, <3>3
    <2>2. ASSUME NEW k \in 1 .. wr_col
          PROVE  EntryAt(k - 1) \in Present
      BY <1>3, <1>4 DEF Present
    <2> QED
      BY <2>1, <2>2
  <1> QED
    BY <1>1, <1>3, <1>5, <1>6, <1>7 DEF OrderShape, ExbInv

LEMMA OrderShapeNext == ExbInv' => OrderShape'
  <1>1. (ExbInv => OrderShape)'
    BY OrderIsShaped, PTL
  <1> QED
    BY <1>1

\* The position of the selected column is the first ready one of the order.
LEMMA OldestIsColAddr ==
  ASSUME ExbInv, issue_we
  PROVE  /\ ColAddr(op_rdy) \in 0 .. wr_col - 1
         /\ Schedule!Oldest = ColAddr(op_rdy) + 1
  <1> DEFINE I == {k \in 1 .. Len(ArrivalOrder) : ArrivalOrder[k] \in op_rdy}
  <1>1. OrderShape
    BY OrderIsShaped
  <1>2. op_rdy \in SUBSET Present /\ op_rdy # {} /\ MatrixInv
    BY DEF ExbInv, ExbTypeOK, MatrixInv, op_rdy, issue_we
  <1>3. /\ ColAddr(op_rdy) \in ColMask(op_rdy)
        /\ ColAddr(op_rdy) \in Col /\ ColAddr(op_rdy) < wr_col
        /\ \A c \in ColMask(op_rdy) : ColAddr(op_rdy) <= c
    BY <1>2, ColAddrIsLowest
  <1>4. ColAddr(op_rdy) \in 0 .. wr_col - 1
    <2>1. ColAddr(op_rdy) \in Nat /\ wr_col \in Nat
      BY <1>1, <1>3, ColsAreNumbers DEF OrderShape
    <2> QED
      BY <1>3, <2>1
  <1>5. PICK c \in 0 .. wr_col - 1 : c = ColAddr(op_rdy)
    BY <1>4
  <1>6. op_rdy \subseteq Row
    BY <1>2 DEF Present
  <1>7. \A j \in 0 .. wr_col - 1 : j \in ColMask(op_rdy) <=> EntryAt(j) \in op_rdy
    BY <1>1, <1>6 DEF OrderShape, ColMask
  <1>8. I = {k \in 1 .. wr_col : EntryAt(k - 1) \in op_rdy}
    BY <1>1 DEF OrderShape
  <1>9. c + 1 \in I
    <2>1. c + 1 \in 1 .. wr_col /\ (c + 1) - 1 = c
      BY <1>1 DEF OrderShape
    <2> QED
      BY <1>3, <1>5, <1>7, <1>8, <2>1
  <1>10. ASSUME NEW k \in I
         PROVE  c + 1 <= k
    <2>1. k \in 1 .. wr_col /\ k - 1 \in 0 .. wr_col - 1 /\ EntryAt(k - 1) \in op_rdy
      BY <1>1, <1>8 DEF OrderShape
    <2>2. c <= k - 1
      BY <1>3, <1>5, <1>7, <2>1
    <2> QED
      BY <2>1, <2>2
  <1>11. I \in SUBSET Nat
    BY <1>1, <1>8 DEF OrderShape
  <1>12. Schedule!Oldest = Min(I)
    BY <1>9 DEF Schedule!Oldest, Schedule!SelectInSeq, Schedule!Min, Min
  <1> HIDE DEF I
  <1>13. Min(I) \in I /\ \A k \in I : Min(I) <= k
    BY <1>9, <1>11, MinIsLeast
  <1>14. Min(I) = c + 1
    <2>1. c + 1 \in Nat /\ Min(I) \in Nat
      BY <1>9, <1>11, <1>13
    <2>2. c + 1 <= Min(I) /\ Min(I) <= c + 1
      BY <1>9, <1>10, <1>13
    <2> QED
      BY <2>1, <2>2
  <1> QED
    BY <1>4, <1>5, <1>12, <1>14

\* Whether an entry is written at the edge, whether one is issued, and
\* whether column j takes what is in the next one.
Writes(op)     == op.busy /\ ~exb_full
Reads(rdy)     == rdy /\ issue_we
Shifts(rdy, j) == Reads(rdy) /\ ColAddr(op_rdy) <= j

ColumnsAfterStep(op, rdy) ==
  /\ wr_col' = (IF Writes(op) THEN wr_col + 1 ELSE wr_col) - (IF Reads(rdy) THEN 1 ELSE 0)
  /\ Reads(rdy) => wr_col # 0
  /\ Writes(op) \in BOOLEAN /\ Reads(rdy) \in BOOLEAN

\* The matrix at an edge of the buffer.
LEMMA CellsAfterStep ==
  ASSUME ExbInv, NEW op, NEW rdy, NEW bus, ExbStep(op, rdy, bus),
         NEW i \in Row, NEW j \in Col
  PROVE  /\ <<i, j>> \in age_matrix' <=>
              \/ Writes(op) /\ i = disp_ptr /\ j = WriteColumn(Reads(rdy))
              \/ Shifts(rdy, j) /\ <<i, j + 1>> \in age_matrix
              \/ ~Shifts(rdy, j) /\ <<i, j>> \in age_matrix
         /\ ColumnsAfterStep(op, rdy)
  <1> DEFINE c == ColAddr(op_rdy)
             on == Reads(rdy) /\ ~matrix_empty /\ \E k \in ColMask(op_rdy) : k <= j
             re1 == Reads(rdy) /\ ~matrix_empty
             we1 == Writes(op) /\ ~matrix_full
  <1>1. MatrixInv
    BY DEF ExbInv, ExbTypeOK, MatrixInv
  <1>2. op_rdy \in SUBSET Present
    BY DEF ExbInv, op_rdy
  <1>3. Reads(rdy) => /\ c \in ColMask(op_rdy) /\ c < wr_col
                      /\ \A k \in ColMask(op_rdy) : c <= k
    BY <1>1, <1>2, ColAddrIsLowest DEF issue_we, Reads
  <1>4. wr_col \in Nat /\ \A k \in ColMask(op_rdy) : k \in Nat
    BY <1>1, MatrixSizeAssumption, ColsAreNumbers DEF MatrixInv, MatrixTypeOK, ColMask
  <1> HIDE DEF c
  <1>5. Reads(rdy) => wr_col # 0
    BY <1>3, <1>4
  <1>6. Writes(op) => ~matrix_full
    BY <1>1, ColumnsCountEntries DEF exb_full, Entry, ExbInv, Writes
  <1>7. MatrixEdge(Writes(op), disp_ptr, Reads(rdy), op_rdy)
    BY Zenon DEF ExbStep, ExbEdge, Writes, Reads
  <1>8. Writes(op) \in BOOLEAN /\ Reads(rdy) \in BOOLEAN
    BY EntryShape DEF ExbStep, issue_we, Writes, Reads
  <1>9. <<i, j>> \in age_matrix' <=>
          \/ we1 /\ i = disp_ptr /\ j = WriteColumn(re1)
          \/ on /\ <<i, j + 1>> \in age_matrix
          \/ ~on /\ <<i, j>> \in age_matrix
    BY <1>7 DEF MatrixEdge
  <1>10. wr_col' = CASE re1 /\ ~we1 -> wr_col - 1
                     [] we1 /\ ~re1 -> wr_col + 1
                     [] OTHER -> wr_col
    BY <1>7 DEF MatrixEdge
  <1>11. re1 = Reads(rdy) /\ we1 = Writes(op)
    BY <1>5, <1>6, <1>8 DEF matrix_empty
  <1>12. on <=> Shifts(rdy, j)
    <2>1. ASSUME Reads(rdy), NEW k \in ColMask(op_rdy), k <= j
          PROVE  c <= j
      <3>1. c \in Nat /\ k \in Nat /\ j \in Nat
        BY <1>3, <1>4, <2>1, ColsAreNumbers
      <3> QED
        BY <1>3, <2>1, <3>1
    <2> QED
      BY <1>3, <1>5, <2>1 DEF matrix_empty, Shifts, c
  <1> HIDE DEF on, re1, we1
  <1>13. ColumnsAfterStep(op, rdy)
    BY <1>4, <1>5, <1>8, <1>10, <1>11 DEF ColumnsAfterStep
  <1> QED
    BY <1>9, <1>11, <1>12, <1>13

\* The entry in a column after an edge: the one that is written, or the one
\* that was there or in the column above.
LEMMA EntryAtAfterStep ==
  ASSUME ExbInv, ExbInv', NEW op, NEW rdy, NEW bus, ExbStep(op, rdy, bus),
         NEW j \in 0 .. wr_col' - 1
  PROVE  EntryAt(j)' = IF Writes(op) /\ j = wr_col' - 1 THEN disp_ptr
                       ELSE IF Shifts(rdy, j) THEN EntryAt(j + 1) ELSE EntryAt(j)
  <1>1. OrderShape /\ OrderShape'
    BY OrderIsShaped, OrderShapeNext
  <1>2. j \in Col /\ \A i \in Row : <<i, j>> \in age_matrix' <=> i = EntryAt(j)'
    BY <1>1 DEF OrderShape
  <1>3. \A i \in Row : <<i, j>> \in age_matrix' <=>
          \/ Writes(op) /\ i = disp_ptr /\ j = WriteColumn(Reads(rdy))
          \/ Shifts(rdy, j) /\ <<i, j + 1>> \in age_matrix
          \/ ~Shifts(rdy, j) /\ <<i, j>> \in age_matrix
    BY <1>2, CellsAfterStep
  <1>4. ColumnsAfterStep(op, rdy)
    <2>1. 0 \in Row
      BY MatrixSizeAssumption DEF Row
    <2> QED
      BY <1>2, <2>1, CellsAfterStep
  <1>5. wr_col \in Nat /\ wr_col' \in Nat /\ wr_col <= MATRIX_SIZE
    BY <1>1 DEF OrderShape
  <1>6. PICK x \in Row : x = EntryAt(j)' /\ <<x, j>> \in age_matrix'
    BY <1>1, <1>2 DEF OrderShape
  <1>7. WriteColumn(Reads(rdy)) = IF Reads(rdy) THEN wr_col - 1 ELSE wr_col
    BY DEF WriteColumn
  <1>8. Writes(op) => (j = wr_col' - 1 <=> j = WriteColumn(Reads(rdy)))
    BY <1>4, <1>5, <1>7 DEF ColumnsAfterStep
  <1>9. CASE Writes(op) /\ j = wr_col' - 1
    <2>1. disp_ptr \in Row
      BY <1>9, PointersAreRight DEF Entry, Writes
    <2>2. <<disp_ptr, j>> \in age_matrix'
      BY <1>3, <1>8, <1>9, <2>1
    <2> QED
      BY <1>2, <1>9, <2>1, <2>2
  <1>10. CASE ~(Writes(op) /\ j = wr_col' - 1)
    <2>1. j < (IF Reads(rdy) THEN wr_col - 1 ELSE wr_col) \/ (~Reads(rdy) /\ j < wr_col)
      BY <1>4, <1>5, <1>10 DEF ColumnsAfterStep
    <2>2. CASE Shifts(rdy, j)
      <3>1. <<x, j + 1>> \in age_matrix
        BY <1>3, <1>6, <1>8, <1>10, <2>2
      <3>2. j + 1 \in 0 .. wr_col - 1
        BY <1>5, <2>1, <2>2 DEF Shifts
      <3>3. x = EntryAt(j + 1)
        BY <1>1, <3>1, <3>2 DEF OrderShape
      <3> QED
        BY <1>6, <1>10, <2>2, <3>3
    <2>3. CASE ~Shifts(rdy, j)
      <3>1. <<x, j>> \in age_matrix
        BY <1>3, <1>6, <1>8, <1>10, <2>3
      <3>2. j \in 0 .. wr_col - 1
        BY <1>5, <2>1
      <3>3. x = EntryAt(j)
        BY <1>1, <3>1, <3>2 DEF OrderShape
      <3> QED
        BY <1>6, <1>10, <2>3, <3>3
    <2> QED
      BY <2>2, <2>3
  <1> QED
    BY <1>9, <1>10

\* What stays of the order at an edge.
Kept(rdy) ==
  IF Reads(rdy) THEN Schedule!RemoveAt(ArrivalOrder, Schedule!Oldest) ELSE ArrivalOrder

LEMMA KeptOrder ==
  ASSUME ExbInv, NEW rdy, Reads(rdy) \in BOOLEAN
  PROVE  \E m \in Nat :
           /\ m = wr_col - (IF Reads(rdy) THEN 1 ELSE 0)
           /\ Kept(rdy) \in Seq(Row) /\ Len(Kept(rdy)) = m
           /\ \A k \in 1 .. m :
                Kept(rdy)[k] = IF Shifts(rdy, k - 1) THEN EntryAt(k) ELSE EntryAt(k - 1)
  <1>1. OrderShape
    BY OrderIsShaped
  <1>2. CASE Reads(rdy)
    <2>1. PICK c \in 0 .. wr_col - 1 : c = ColAddr(op_rdy) /\ Schedule!Oldest = c + 1
      BY <1>2, OldestIsColAddr DEF Reads
    <2>2. /\ ArrivalOrder \in Seq(Row) /\ Len(ArrivalOrder) = wr_col /\ wr_col \in Nat
          /\ c + 1 \in 1 .. Len(ArrivalOrder)
      BY <1>1 DEF OrderShape
    <2>3. /\ Kept(rdy) \in Seq(Row) /\ Len(Kept(rdy)) = wr_col - 1
          /\ \A k \in 1 .. wr_col - 1 :
               Kept(rdy)[k] = IF k < c + 1 THEN ArrivalOrder[k] ELSE ArrivalOrder[k + 1]
      BY <1>2, <2>1, <2>2, RemoveAtProperties DEF Kept
    <2>4. ASSUME NEW k \in 1 .. wr_col - 1
          PROVE  Kept(rdy)[k] = IF Shifts(rdy, k - 1) THEN EntryAt(k) ELSE EntryAt(k - 1)
      <3>1. k \in 1 .. wr_col /\ k + 1 \in 1 .. wr_col /\ (k + 1) - 1 = k
        BY <2>2
      <3>2. ArrivalOrder[k] = EntryAt(k - 1) /\ ArrivalOrder[k + 1] = EntryAt(k)
        <4>1. ArrivalOrder[k + 1] = EntryAt((k + 1) - 1)
          BY <1>1, <3>1 DEF OrderShape
        <4> QED
          BY <1>1, <3>1, <4>1 DEF OrderShape
      <3>3. Shifts(rdy, k - 1) <=> ~(k < c + 1)
        <4>1. Shifts(rdy, k - 1) <=> c <= k - 1
          BY <1>2, <2>1 DEF Shifts
        <4>2. c \in Int /\ k \in Int
          BY <2>2
        <4> QED
          BY <4>1, <4>2
      <3> QED
        BY <2>3, <3>2, <3>3
    <2>5. wr_col - 1 \in Nat
      BY <2>2
    <2> QED
      BY <1>2, <2>3, <2>4, <2>5
  <1>3. CASE ~Reads(rdy)
    <2>1. Kept(rdy) = ArrivalOrder /\ \A k : ~Shifts(rdy, k)
      BY <1>3 DEF Kept, Shifts
    <2>2. wr_col - 0 = wr_col
      BY <1>1 DEF OrderShape
    <2> QED
      BY <1>1, <1>3, <2>1, <2>2 DEF OrderShape
  <1> QED
    BY <1>2, <1>3

\* An edge takes the oldest ready entry out of the order and puts the
\* dispatched one behind it.
LEMMA OrderAfterStep ==
  ASSUME ExbInv, ExbInv', NEW op, NEW rdy, NEW bus, ExbStep(op, rdy, bus)
  PROVE  ArrivalOrder' = Kept(rdy) \o (IF Writes(op) THEN <<disp_ptr>> ELSE <<>>)
  <1> DEFINE arrival == IF Writes(op) THEN <<disp_ptr>> ELSE <<>>
  <1>1. OrderShape /\ OrderShape'
    BY OrderIsShaped, OrderShapeNext
  <1>2. ColumnsAfterStep(op, rdy)
    <2>1. 0 \in Row /\ 0 \in Col
      BY MatrixSizeAssumption DEF Row, Col
    <2> QED
      BY <2>1, CellsAfterStep
  <1>3. PICK m \in Nat :
          /\ m = wr_col - (IF Reads(rdy) THEN 1 ELSE 0)
          /\ Kept(rdy) \in Seq(Row) /\ Len(Kept(rdy)) = m
          /\ \A k \in 1 .. m :
               Kept(rdy)[k] = IF Shifts(rdy, k - 1) THEN EntryAt(k) ELSE EntryAt(k - 1)
    BY <1>2, KeptOrder DEF ColumnsAfterStep
  <1>4. wr_col' = IF Writes(op) THEN m + 1 ELSE m
    BY <1>1, <1>2, <1>3 DEF ColumnsAfterStep, OrderShape
  <1>5. /\ arrival \in Seq(Row)
        /\ Len(arrival) = IF Writes(op) THEN 1 ELSE 0
        /\ Writes(op) => arrival[1] = disp_ptr
    <2>1. CASE Writes(op)
      <3>1. disp_ptr \in Row
        BY <2>1, PointersAreRight DEF Writes, Entry
      <3>2. arrival = <<disp_ptr>>
        BY <2>1
      <3> QED
        BY <2>1, <3>1, <3>2
    <2>2. CASE ~Writes(op)
      <3>1. arrival = <<>>
        BY <2>2
      <3> QED
        BY <2>2, <3>1, EmptySeq
    <2> QED
      BY <2>1, <2>2
  <1> HIDE DEF arrival
  <1>6. /\ Kept(rdy) \o arrival \in Seq(Row)
        /\ Len(Kept(rdy) \o arrival) = m + Len(arrival)
        /\ \A k \in 1 .. m + Len(arrival) :
             (Kept(rdy) \o arrival)[k] = IF k <= m THEN Kept(rdy)[k] ELSE arrival[k - m]
    <2> DEFINE kept == Kept(rdy)
    <2> HIDE DEF kept
    <2>1. kept \in Seq(Row) /\ Len(kept) = m
      BY <1>3 DEF kept
    <2>2. /\ kept \o arrival \in Seq(Row)
          /\ Len(kept \o arrival) = Len(kept) + Len(arrival)
          /\ \A k \in 1 .. Len(kept) + Len(arrival) :
               (kept \o arrival)[k] = IF k <= Len(kept) THEN kept[k] ELSE arrival[k - Len(kept)]
      BY <1>5, <2>1, ConcatProperties
    <2> QED
      BY <2>1, <2>2 DEF kept
  <1>7. /\ ArrivalOrder' \in Seq(Row) /\ Len(ArrivalOrder') = wr_col'
        /\ \A k \in 1 .. wr_col' : ArrivalOrder'[k] = EntryAt(k - 1)'
    BY <1>1 DEF OrderShape
  <1>8. m + Len(arrival) = wr_col'
    BY <1>2, <1>4, <1>5 DEF ColumnsAfterStep
  <1>9. ASSUME NEW k \in 1 .. wr_col'
        PROVE  ArrivalOrder'[k] = (Kept(rdy) \o arrival)[k]
    <2>1. PICK j \in 0 .. wr_col' - 1 : j = k - 1
      BY <1>4, <1>2 DEF ColumnsAfterStep
    <2>2. ArrivalOrder'[k] = EntryAt(j)'
      <3>1. ArrivalOrder'[k] = EntryAt(k - 1)'
        BY <1>7
      <3> QED
        BY <2>1, <3>1 DEF EntryAt
    <2>3. EntryAt(j)' = IF Writes(op) /\ j = wr_col' - 1 THEN disp_ptr
                        ELSE IF Shifts(rdy, j) THEN EntryAt(j + 1) ELSE EntryAt(j)
      BY EntryAtAfterStep
    <2>4. (Kept(rdy) \o arrival)[k] = IF k <= m THEN Kept(rdy)[k] ELSE arrival[k - m]
      BY <1>6, <1>8
    <2>5. CASE k <= m
      <3>1. k \in 1 .. m /\ ~(Writes(op) /\ j = wr_col' - 1) /\ j + 1 = k
        BY <1>4, <2>1, <2>5
      <3>2. Kept(rdy)[k] = IF Shifts(rdy, j) THEN EntryAt(j + 1) ELSE EntryAt(j)
        BY <1>3, <2>1, <3>1
      <3> QED
        BY <2>2, <2>3, <2>4, <2>5, <3>1, <3>2
    <2>6. CASE ~(k <= m)
      <3>1. Writes(op) /\ j = wr_col' - 1 /\ k - m = 1
        BY <1>2, <1>4, <2>1, <2>6 DEF ColumnsAfterStep
      <3> QED
        BY <1>5, <2>2, <2>3, <2>4, <2>6, <3>1
    <2> QED
      BY <2>5, <2>6
  <1>10. ArrivalOrder' = Kept(rdy) \o arrival
    BY <1>6, <1>7, <1>8, <1>9, SeqEqual
  <1> QED
    BY <1>10 DEF arrival

\* A ready entry that is not issued stays ready.
LEMMA ReadyStays ==
  ASSUME ExbInv, NEW op, NEW rdy, NEW bus, ExbStep(op, rdy, bus),
         NEW i \in op_rdy, i \in Busy'
  PROVE  i \in op_rdy'
  <1>1. i \in Busy /\ i \in Entry /\ exb_buf[i].tj = {} /\ exb_buf[i].tk = {}
    BY DEF op_rdy, Busy
  <1>2. exb_buf[i] \in Operation(Tag)
    BY <1>1, EntryShape DEF ExbInv, ExbTypeOK, Busy
  <1>3. exb_buf'[i] = IF op.busy /\ ~exb_full /\ i = disp_ptr THEN op
                      ELSE IF i \notin Busy \/ (rdy /\ issue_we /\ i = issue_ptr) THEN Free
                      ELSE Snooped(exb_buf[i], bus)
    BY <1>1, BufferAfterStep
  <1>4. ~(op.busy /\ ~exb_full /\ i = disp_ptr)
    BY <1>1, PointersAreRight
  <1>5. exb_buf'[i] # Free
    BY DEF Busy, Free
  <1>6. exb_buf'[i] = Snooped(exb_buf[i], bus)
    BY <1>1, <1>3, <1>4, <1>5, Zenon
  <1>7. Snooped(exb_buf[i], bus).tj = {} /\ Snooped(exb_buf[i], bus).tk = {}
    BY <1>1, <1>2 DEF Snooped, Operation
  <1> QED
    BY <1>6, <1>7 DEF op_rdy

LEMMA ExbStepSchedules ==
  ASSUME ExbInv, ExbInv', NEW op, NEW rdy, NEW bus, ExbStep(op, rdy, bus)
  PROVE  Schedule!ONext
  <1> DEFINE arrival == IF Writes(op) THEN <<disp_ptr>> ELSE <<>>
             leaves == Reads(rdy)
  <1>1. OrderShape /\ OrderShape'
    BY OrderIsShaped, OrderShapeNext
  <1>2. arrival \in Schedule!Arrivals
    <2>1. CASE Writes(op)
      <3>1. disp_ptr \in Entry \ Schedule!ToSet(ArrivalOrder)
        BY <1>1, <2>1, PointersAreRight DEF Writes, OrderShape
      <3>2. arrival = <<disp_ptr>>
        BY <2>1
      <3> QED
        BY <3>1, <3>2 DEF Schedule!Arrivals
    <2>2. CASE ~Writes(op)
      <3>1. arrival = <<>>
        BY <2>2
      <3> QED
        BY <3>1 DEF Schedule!Arrivals
    <2> QED
      BY <2>1, <2>2
  <1>3. leaves \in BOOLEAN /\ (leaves => op_rdy # {})
    BY DEF ExbStep, Reads, issue_we
  <1>4. arrival # <<>> => Len(ArrivalOrder) < MATRIX_SIZE
    <2>1. arrival # <<>> => Writes(op)
      OBVIOUS
    <2>2. Writes(op) => wr_col # MATRIX_SIZE
      BY InvTracks DEF MatrixTracksBuffer, Writes, matrix_full
    <2> QED
      BY <1>1, <2>1, <2>2, MatrixSizeAssumption DEF OrderShape
  <1>5. ArrivalOrder' = (IF leaves THEN Schedule!RemoveAt(ArrivalOrder, Schedule!Oldest)
                         ELSE ArrivalOrder) \o arrival
    BY OrderAfterStep DEF Kept
  <1>6. op_rdy' \subseteq Schedule!ToSet(ArrivalOrder')
    BY <1>1 DEF OrderShape, op_rdy
  <1>7. op_rdy \cap Schedule!ToSet(ArrivalOrder') \subseteq op_rdy'
    BY <1>1, ReadyStays DEF OrderShape
  <1> HIDE DEF arrival, leaves
  <1> QED
    BY <1>2, <1>3, <1>4, <1>5, <1>6, <1>7, Zenon DEF Schedule!ONext

(***************************************************************************)
(* For every size and every set of tags, buffer and matrix implement the   *)
(* abstract issue buffer: operations wait in the order they came, and the  *)
(* one that leaves is the oldest that has its operands (exb.vhd with       *)
(* dispatcher.vhd).                                                        *)
(***************************************************************************)
THEOREM OldestReadyIsIssued == ExbSpec => IssuesOldestReady
  <1>1. ExbInit => Schedule!OInit
    <2> SUFFICES ASSUME ExbInit PROVE ArrivalOrder = <<>> /\ op_rdy = {}
      BY DEF Schedule!OInit
    <2>1. Busy = {}
      BY DEF ExbInit, Busy, Free
    <2>2. 1 .. wr_col = {}
      BY DEF ExbInit, MatrixInit
    <2> QED
      BY <2>1, <2>2 DEF ArrivalOrder, op_rdy
  <1>2. ExbInv /\ ExbInv' /\ [ExbNext]_exbVars => [Schedule!ONext]_<<ArrivalOrder, op_rdy>>
    <2>1. UNCHANGED exbVars => UNCHANGED <<ArrivalOrder, op_rdy>>
      BY DEF exbVars, matrixVars, ArrivalOrder, EntryAt, op_rdy, Busy
    <2>2. ASSUME ExbInv, ExbInv', ExbNext PROVE Schedule!ONext
      BY <2>2, ExbStepSchedules DEF ExbNext, ExbStep
    <2> QED
      BY <2>1, <2>2
  <1> QED
    BY <1>1, <1>2, ExbInvHolds, PTL DEF ExbSpec, IssuesOldestReady, Schedule!OSpec

=============================================================================
