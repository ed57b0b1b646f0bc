-------------------------- MODULE AgeMatrixProofs --------------------------
(***************************************************************************)
(* The age matrix stays a one-to-one map from the columns in use to the    *)
(* waiting entries, for every MATRIX_SIZE.                                 *)
(***************************************************************************)
EXTENDS AgeMatrix, FiniteSetTheorems, TLAPS

\* The library states this of an operator for the order; here it is a set.
LEMMA LessIsWellFounded == IsWellFoundedOn({p \in Nat \X Nat : p[1] < p[2]}, Nat)
  BY NatLessThanWellFounded, Zenon DEF OpToRel

\* Min of FiniteSetsExt, which the encoders of the code are modelled by.
LEMMA MinIsLeast ==
  ASSUME NEW S \in SUBSET Nat, S # {}
  PROVE  Min(S) \in S /\ \A y \in S : Min(S) <= y
  <1>1. PICK x \in S : \A y \in S : ~(<<y, x>> \in {p \in Nat \X Nat : p[1] < p[2]})
    BY LessIsWellFounded, WFMin
  <1>2. \A y \in S : x <= y
    <2> SUFFICES ASSUME NEW y \in S PROVE x <= y
      OBVIOUS
    <2>1. x \in Nat /\ y \in Nat
      OBVIOUS
    <2>2. ~(y < x)
      BY <1>1, <2>1
    <2> QED
      BY <2>1, <2>2
  <1> QED
    BY <1>2 DEF Min

MatrixInv == MatrixTypeOK /\ OneEntryPerColumn

\* The three effects of an edge on a cell, without the inputs that are
\* gated off.  s is the set of shifted columns.
LEMMA CellAfterEdge ==
  ASSUME MatrixInv, NEW we \in BOOLEAN, NEW a \in Row, NEW re \in BOOLEAN,
         NEW mask \in SUBSET Present, re <=> mask # {},
         MatrixEdge(we, a, re, mask)
  PROVE  \E s \in SUBSET Col :
           /\ s # {} <=> re
           /\ s # {} => wr_col - 1 \in s
           /\ \A j \in s : \A k \in Col : k >= j => k \in s
           /\ wr_col' = (IF we /\ wr_col # MATRIX_SIZE THEN wr_col + 1 ELSE wr_col)
                          - (IF re THEN 1 ELSE 0)
           /\ \A i \in Row, j \in Col : <<i, j>> \in age_matrix' <=>
                \/ we /\ wr_col # MATRIX_SIZE /\ i = a
                      /\ j = (IF re THEN wr_col - 1 ELSE wr_col)
                \/ j \in s /\ <<i, j + 1>> \in age_matrix
                \/ j \notin s /\ <<i, j>> \in age_matrix
  <1> DEFINE s == {j \in Col : re /\ wr_col # 0 /\ \E c \in ColMask(mask) : c <= j}
  <1>1. \A c \in ColMask(mask) : c \in Col /\ c < wr_col
    BY DEF ColMask, MatrixInv, OneEntryPerColumn
  <1>2. re => ColMask(mask) # {}
    BY DEF Present, ColMask
  <1>3. re => wr_col # 0 /\ wr_col - 1 \in Col
    <2> SUFFICES ASSUME re PROVE wr_col # 0 /\ wr_col - 1 \in Col
      OBVIOUS
    <2>1. PICK c \in ColMask(mask) : c \in Col /\ c < wr_col
      BY <1>1, <1>2
    <2> QED
      BY <2>1, MatrixSizeAssumption DEF MatrixInv, MatrixTypeOK, Col
  <1>4. s # {} => re
    OBVIOUS
  <1>5. re => wr_col - 1 \in s
    BY <1>1, <1>2, <1>3 DEF MatrixInv, MatrixTypeOK, Col
  <1>6. \A j \in s : \A k \in Col : k >= j => k \in s
    BY <1>1 DEF Col
  <1>7. wr_col' = (IF we /\ wr_col # MATRIX_SIZE THEN wr_col + 1 ELSE wr_col)
                    - (IF re THEN 1 ELSE 0)
    BY <1>3, MatrixSizeAssumption
       DEF MatrixEdge, matrix_full, matrix_empty, MatrixInv, MatrixTypeOK
  <1>8. \A i \in Row, j \in Col : <<i, j>> \in age_matrix' <=>
          \/ we /\ wr_col # MATRIX_SIZE /\ i = a
                /\ j = (IF re THEN wr_col - 1 ELSE wr_col)
          \/ j \in s /\ <<i, j + 1>> \in age_matrix
          \/ j \notin s /\ <<i, j>> \in age_matrix
    BY <1>3, MatrixSizeAssumption
       DEF MatrixEdge, WriteColumn, matrix_full, matrix_empty, MatrixInv, MatrixTypeOK, Row, Col
  <1> QED
    <2>1. s \in SUBSET Col
      OBVIOUS
    <2> HIDE DEF s
    <2> QED
      BY <2>1, <1>4, <1>5, <1>6, <1>7, <1>8

\* An edge keeps the type of the matrix.
LEMMA MatrixEdgeType ==
  ASSUME MatrixInv, NEW we \in BOOLEAN, NEW a \in Row, NEW re \in BOOLEAN,
         NEW mask \in SUBSET Present, re <=> mask # {},
         MatrixEdge(we, a, re, mask)
  PROVE  MatrixTypeOK'
  <1>1. age_matrix' \subseteq Row \X Col
    BY DEF MatrixEdge
  <1>2. PICK s \in SUBSET Col :
          /\ s # {} <=> re
          /\ s # {} => wr_col - 1 \in s
          /\ wr_col' = (IF we /\ wr_col # MATRIX_SIZE THEN wr_col + 1 ELSE wr_col)
                         - (IF re THEN 1 ELSE 0)
    BY CellAfterEdge
  <1>3. wr_col' \in 0 .. MATRIX_SIZE
    BY <1>2, MatrixSizeAssumption DEF MatrixInv, MatrixTypeOK, Col
  <1> QED
    BY <1>1, <1>3 DEF MatrixTypeOK

\* Shifting and writing keep the map one-to-one and without holes.
LEMMA MatrixEdgeColumns ==
  ASSUME MatrixInv, NEW we \in BOOLEAN, NEW a \in Row, NEW re \in BOOLEAN,
         NEW mask \in SUBSET Present, re <=> mask # {}, we => a \notin Present,
         MatrixEdge(we, a, re, mask)
  PROVE  OneEntryPerColumn'
  <1> DEFINE put == we /\ wr_col # MATRIX_SIZE
             top == IF re THEN wr_col - 1 ELSE wr_col
  <1>1. PICK s \in SUBSET Col :
          /\ s # {} <=> re
          /\ s # {} => wr_col - 1 \in s
          /\ \A j \in s : \A k \in Col : k >= j => k \in s
          /\ wr_col' = (IF put THEN wr_col + 1 ELSE wr_col) - (IF re THEN 1 ELSE 0)
          /\ \A i \in Row, j \in Col : <<i, j>> \in age_matrix' <=>
               \/ put /\ i = a /\ j = top
               \/ j \in s /\ <<i, j + 1>> \in age_matrix
               \/ j \notin s /\ <<i, j>> \in age_matrix
    BY CellAfterEdge
  <1>2. /\ age_matrix \subseteq Row \X Col /\ age_matrix' \subseteq Row \X Col
        /\ wr_col \in 0 .. MATRIX_SIZE /\ wr_col' \in 0 .. MATRIX_SIZE
    BY MatrixEdgeType DEF MatrixInv, MatrixTypeOK
  \* the columns of an entry, old and new
  <1>3. \A i \in Row, j \in Int : <<i, j>> \in age_matrix => j \in Col /\ j < wr_col
    BY <1>2 DEF MatrixInv, OneEntryPerColumn
  <1>4. \A i, k \in Row, j, l \in Col :
          <<i, j>> \in age_matrix /\ <<k, l>> \in age_matrix => (i = k <=> j = l)
    BY DEF MatrixInv, OneEntryPerColumn
  <1>5. we => \A j \in Int : <<a, j>> \notin age_matrix
    BY <1>3 DEF Present
  <1>6. \A i \in Row, j \in Col : <<i, j>> \in age_matrix' => j < wr_col'
    <2> SUFFICES ASSUME NEW i \in Row, NEW j \in Col, <<i, j>> \in age_matrix'
                 PROVE  j < wr_col'
      OBVIOUS
    <2>1. CASE put /\ i = a /\ j = top
      BY <1>1, <1>2, <2>1 DEF Col
    <2>2. CASE j \in s /\ <<i, j + 1>> \in age_matrix
      <3>1. j + 1 < wr_col
        BY <1>3, <2>2 DEF Col
      <3> QED
        BY <1>1, <1>2, <3>1 DEF Col
    <2>3. CASE j \notin s /\ <<i, j>> \in age_matrix
      <3>1. j < wr_col
        BY <1>3, <2>3 DEF Col
      <3>2. re => j # wr_col - 1
        BY <1>1, <2>3
      <3> QED
        BY <1>1, <1>2, <3>1, <3>2 DEF Col
    <2> QED
      BY <1>1, <2>1, <2>2, <2>3
  <1> DEFINE next == wr_col'
  <1>n. next \in 0 .. MATRIX_SIZE /\ next = (IF put THEN wr_col + 1 ELSE wr_col) - (IF re THEN 1 ELSE 0)
    BY <1>1, <1>2
  <1> HIDE DEF next
  <1>7. ASSUME NEW j \in 0 .. next - 1
        PROVE  \E i \in Row : <<i, j>> \in age_matrix'
    <2>1. j \in Col
      BY <1>n, MatrixSizeAssumption DEF Col
    <2>2. \A k \in 0 .. wr_col - 1 : \E i \in Row : <<i, k>> \in age_matrix
      BY DEF MatrixInv, OneEntryPerColumn
    <2>3. CASE put /\ j = top
      <3>1. <<a, j>> \in age_matrix'
        BY <1>1, <2>1, <2>3
      <3> QED
        BY <3>1
    <2>4. CASE ~(put /\ j = top) /\ j \in s
      <3>1. j + 1 \in 0 .. wr_col - 1
        BY <1>1, <1>2, <1>n, <2>1, <2>4 DEF Col
      <3> QED
        BY <1>1, <2>1, <2>2, <2>4, <3>1
    <2>5. CASE ~(put /\ j = top) /\ j \notin s
      <3>1. j \in 0 .. wr_col - 1
        BY <1>1, <1>2, <1>n, <2>1, <2>5 DEF Col
      <3> QED
        BY <1>1, <2>1, <2>2, <2>5, <3>1
    <2> QED
      BY <2>3, <2>4, <2>5
  \* a cell that is not the written one was there before, one column up if shifted
  <1>8. ASSUME NEW i \in Row, NEW j \in Col, <<i, j>> \in age_matrix',
               ~(put /\ i = a /\ j = top)
        PROVE  /\ \E p \in Col : <<i, p>> \in age_matrix /\ p = (IF j \in s THEN j + 1 ELSE j)
               /\ j # top
               /\ put => i # a
    <2>1. PICK p \in Int : <<i, p>> \in age_matrix /\ p = (IF j \in s THEN j + 1 ELSE j)
      BY <1>1, <1>8 DEF Col
    <2>2. p \in Col /\ p < wr_col
      BY <1>3, <2>1
    <2>3. j # top
      BY <1>1, <1>2, <2>1, <2>2 DEF Col
    <2>4. put => i # a
      BY <1>5, <2>1
    <2> QED
      BY <2>1, <2>2, <2>3, <2>4
  <1>9. ASSUME NEW i \in Row, NEW j \in Col, NEW k \in Row, NEW l \in Col,
               <<i, j>> \in age_matrix', <<k, l>> \in age_matrix'
        PROVE  i = k <=> j = l
    <2>1. CASE (put /\ i = a /\ j = top) /\ (put /\ k = a /\ l = top)
      BY <2>1
    <2>2. CASE (put /\ i = a /\ j = top) /\ ~(put /\ k = a /\ l = top)
      BY <1>8, <1>9, <2>2
    <2>3. CASE (put /\ k = a /\ l = top) /\ ~(put /\ i = a /\ j = top)
      BY <1>8, <1>9, <2>3
    <2>4. CASE ~(put /\ i = a /\ j = top) /\ ~(put /\ k = a /\ l = top)
      <3>1. PICK p \in Col : <<i, p>> \in age_matrix /\ p = (IF j \in s THEN j + 1 ELSE j)
        BY <1>8, <1>9, <2>4
      <3>2. PICK q \in Col : <<k, q>> \in age_matrix /\ q = (IF l \in s THEN l + 1 ELSE l)
        BY <1>8, <1>9, <2>4
      <3>3. i = k <=> p = q
        BY <1>4, <3>1, <3>2
      <3>4. p = q <=> j = l
        BY <1>1, <3>1, <3>2 DEF Col
      <3> QED
        BY <3>3, <3>4
    <2> QED
      BY <2>1, <2>2, <2>3, <2>4
  <1>10. \A c \in age_matrix' : c = <<c[1], c[2]>> /\ c[1] \in Row /\ c[2] \in Col
    BY <1>2
  <1>11. \A c \in age_matrix' : c[2] < wr_col'
    BY <1>6, <1>10
  <1>12. \A c, d \in age_matrix' : c[1] = d[1] <=> c[2] = d[2]
    <2> SUFFICES ASSUME NEW c \in age_matrix', NEW d \in age_matrix'
                 PROVE  c[1] = d[1] <=> c[2] = d[2]
      OBVIOUS
    <2>1. /\ c[1] \in Row /\ c[2] \in Col /\ <<c[1], c[2]>> \in age_matrix'
          /\ d[1] \in Row /\ d[2] \in Col /\ <<d[1], d[2]>> \in age_matrix'
      BY <1>10
    <2> QED
      BY <1>9, <2>1
  <1> QED
    BY <1>7, <1>11, <1>12 DEF OneEntryPerColumn, next

-----------------------------------------------------------------------------
\* Rows and columns are numbers.
LEMMA ColsAreNumbers == Col \in SUBSET Nat /\ Row \in SUBSET Nat
  BY MatrixSizeAssumption DEF Col, Row

\* The selected column is the lowest that holds an entry of the mask.
LEMMA ColAddrIsLowest ==
  ASSUME MatrixInv, NEW mask \in SUBSET Present, mask # {}
  PROVE  /\ ColAddr(mask) \in ColMask(mask)
         /\ ColAddr(mask) \in Col /\ ColAddr(mask) < wr_col
         /\ \A c \in ColMask(mask) : ColAddr(mask) <= c
  <1>1. ColMask(mask) # {}
    BY DEF ColMask, Present
  <1>2. ColMask(mask) \in SUBSET Nat /\ \A c \in ColMask(mask) : c \in Col
    BY ColsAreNumbers DEF ColMask
  <1>3. \A c \in ColMask(mask) : c < wr_col
    BY DEF ColMask, MatrixInv, OneEntryPerColumn
  <1> QED
    BY <1>1, <1>2, <1>3, MinIsLeast DEF ColAddr

\* One entry is read, it is in the mask and no other of the mask is older.
LEMMA OldestIsRead ==
  ASSUME MatrixInv, NEW mask \in SUBSET Present, mask # {}
  PROVE  \E oldest \in mask :
           /\ RdRow(mask) = {oldest}
           /\ <<oldest, ColAddr(mask)>> \in age_matrix
           /\ \A i \in mask, j, k \in Col :
                <<oldest, j>> \in age_matrix /\ <<i, k>> \in age_matrix => j <= k
  <1> DEFINE c == ColAddr(mask)
  <1>1. c \in ColMask(mask) /\ c \in Col /\ \A k \in ColMask(mask) : c <= k
    BY ColAddrIsLowest
  <1>2. PICK oldest \in mask : <<oldest, c>> \in age_matrix
    BY <1>1 DEF ColMask
  <1>3. mask \subseteq Row
    BY DEF Present
  <1>4. \A i, m \in Row, j, k \in Col :
          <<i, j>> \in age_matrix /\ <<m, k>> \in age_matrix => (i = m <=> j = k)
    BY DEF MatrixInv, OneEntryPerColumn
  <1>5. RdRow(mask) = {oldest}
    BY <1>1, <1>2, <1>3, <1>4 DEF RdRow
  <1>6. ASSUME NEW i \in mask, NEW j \in Col, NEW k \in Col,
               <<oldest, j>> \in age_matrix, <<i, k>> \in age_matrix
        PROVE  j <= k
    <2>1. j = c
      BY <1>1, <1>2, <1>3, <1>4, <1>6
    <2>2. k \in ColMask(mask)
      BY <1>6 DEF ColMask
    <2> QED
      BY <1>1, <2>1, <2>2
  <1> QED
    BY <1>2, <1>5, <1>6

\* An edge takes the row that is read out of the matrix, puts the written one
\* in and leaves every other entry where it is or one column lower.
LEMMA PresentAfterEdge ==
  ASSUME MatrixInv, NEW we \in BOOLEAN, NEW a \in Row, NEW re \in BOOLEAN,
         NEW mask \in SUBSET Present, re <=> mask # {}, we => a \notin Present,
         MatrixEdge(we, a, re, mask)
  PROVE  Present' = (Present \ (IF re THEN RdRow(mask) ELSE {}))
                      \cup (IF we /\ ~matrix_full THEN {a} ELSE {})
  <1> DEFINE shifted(j) == re /\ ColAddr(mask) <= j
             read       == IF re THEN RdRow(mask) ELSE {}
             put        == we /\ ~matrix_full
             top        == IF re THEN wr_col - 1 ELSE wr_col
  <1>1. wr_col \in 0 .. MATRIX_SIZE /\ age_matrix \subseteq Row \X Col
    BY DEF MatrixInv, MatrixTypeOK
  <1>2. re => ColAddr(mask) \in Col /\ ColAddr(mask) < wr_col
    BY ColAddrIsLowest
  <1>3. \A j \in Col : shifted(j) <=> re /\ ~matrix_empty /\ \E c \in ColMask(mask) : c <= j
    <2> SUFFICES ASSUME NEW j \in Col
                 PROVE  shifted(j) <=> re /\ ~matrix_empty /\ \E c \in ColMask(mask) : c <= j
      OBVIOUS
    <2>1. re => ~matrix_empty
      BY <1>1, <1>2 DEF matrix_empty, Col
    <2>2. ASSUME re, NEW c \in ColMask(mask), c <= j PROVE ColAddr(mask) <= j
      <3>1. ColAddr(mask) \in Nat /\ c \in Nat /\ j \in Nat
        BY <1>2, <2>2, ColsAreNumbers DEF ColMask
      <3> QED
        BY <2>2, <3>1, ColAddrIsLowest
    <2>3. ASSUME re, ColAddr(mask) <= j PROVE \E c \in ColMask(mask) : c <= j
      BY <2>3, ColAddrIsLowest
    <2> QED
      BY <2>1, <2>2, <2>3
  <1>4. put => top \in Col
    BY <1>1, <1>2, MatrixSizeAssumption DEF Col, matrix_full
  <1>5. \A i \in Row, j \in Col : <<i, j>> \in age_matrix' <=>
          \/ put /\ i = a /\ j = top
          \/ shifted(j) /\ <<i, j + 1>> \in age_matrix
          \/ ~shifted(j) /\ <<i, j>> \in age_matrix
    <2> SUFFICES ASSUME NEW i \in Row, NEW j \in Col
                 PROVE  <<i, j>> \in age_matrix' <=>
                          \/ put /\ i = a /\ j = top
                          \/ shifted(j) /\ <<i, j + 1>> \in age_matrix
                          \/ ~shifted(j) /\ <<i, j>> \in age_matrix
      OBVIOUS
    <2> DEFINE on == re /\ ~matrix_empty /\ \E c \in ColMask(mask) : c <= j
               re1 == re /\ ~matrix_empty
    <2>1. <<i, j>> \in age_matrix' <=>
            \/ put /\ i = a /\ j = WriteColumn(re1)
            \/ on /\ <<i, j + 1>> \in age_matrix
            \/ ~on /\ <<i, j>> \in age_matrix
      BY DEF MatrixEdge
    <2>2. re1 <=> re
      BY <1>1, <1>2 DEF matrix_empty, Col
    <2>3. WriteColumn(re1) = top
      BY <2>2 DEF WriteColumn
    <2>4. on <=> shifted(j)
      BY <1>3
    <2> QED
      BY <2>1, <2>3, <2>4
  <1>6. \A i \in Row : i \in read <=> re /\ <<i, ColAddr(mask)>> \in age_matrix
    BY DEF RdRow
  <1>7. \A i \in Row, j, k \in Col :
          <<i, j>> \in age_matrix /\ <<i, k>> \in age_matrix => j = k
    BY DEF MatrixInv, OneEntryPerColumn
  <1> HIDE DEF shifted, read, put, top
  <1>8. ASSUME NEW i \in Row, NEW j \in Col, <<i, j>> \in age_matrix'
        PROVE  i \in (Present \ read) \cup (IF put THEN {a} ELSE {})
    <2>1. CASE put /\ i = a /\ j = top
      BY <2>1
    <2>2. CASE shifted(j) /\ <<i, j + 1>> \in age_matrix
      <3>1. j + 1 \in Col
        BY <1>1, <2>2
      <3>2. i \in Present
        BY <2>2, <3>1 DEF Present
      <3>3. i \notin read
        <4> SUFFICES ASSUME i \in read PROVE FALSE
          OBVIOUS
        <4>1. ColAddr(mask) = j + 1
          BY <1>2, <1>6, <1>7, <2>2, <3>1
        <4> QED
          BY <2>2, <4>1, ColsAreNumbers DEF shifted
      <3> QED
        BY <3>2, <3>3
    <2>3. CASE ~shifted(j) /\ <<i, j>> \in age_matrix
      <3>1. i \in Present
        BY <2>3 DEF Present
      <3>2. i \notin read
        <4> SUFFICES ASSUME i \in read PROVE FALSE
          OBVIOUS
        <4>1. re /\ ColAddr(mask) = j
          BY <1>2, <1>6, <1>7, <2>3
        <4> QED
          BY <2>3, <4>1, ColsAreNumbers DEF shifted
      <3> QED
        BY <3>1, <3>2
    <2> QED
      BY <1>5, <1>8, <2>1, <2>2, <2>3
  <1>9. ASSUME NEW i \in Present \ read
        PROVE  \E j \in Col : <<i, j>> \in age_matrix'
    <2>1. PICK k \in Col : <<i, k>> \in age_matrix
      BY DEF Present
    <2>2. i \in Row
      BY DEF Present
    <2>3. CASE ~shifted(k)
      BY <1>5, <2>1, <2>2, <2>3
    <2>4. CASE shifted(k)
      <3>1. ColAddr(mask) < k
        BY <1>2, <1>6, <1>9, <2>1, <2>2, <2>4 DEF shifted, Col
      <3>2. k - 1 \in Col /\ (k - 1) + 1 = k
        BY <1>2, <2>4, <3>1, MatrixSizeAssumption DEF shifted, Col
      <3>3. shifted(k - 1)
        BY <1>2, <2>4, <3>1, <3>2 DEF shifted, Col
      <3> QED
        BY <1>5, <2>1, <2>2, <3>2, <3>3
    <2> QED
      BY <2>3, <2>4
  <1>10. put => \E j \in Col : <<a, j>> \in age_matrix'
    BY <1>4, <1>5
  <1>11. Present' \subseteq (Present \ read) \cup (IF put THEN {a} ELSE {})
    BY <1>8 DEF Present
  <1>12. (Present \ read) \cup (IF put THEN {a} ELSE {}) \subseteq Present'
    BY <1>9, <1>10 DEF Present
  <1> QED
    BY <1>11, <1>12 DEF read, put

\* As many entries are in the matrix as columns are in use.
LEMMA ColumnsCountEntries ==
  ASSUME MatrixInv
  PROVE  /\ IsFiniteSet(Present) /\ Cardinality(Present) = wr_col
         /\ matrix_full <=> Present = Row
  <1>1. wr_col \in 0 .. MATRIX_SIZE /\ age_matrix \subseteq Row \X Col
    BY DEF MatrixInv, MatrixTypeOK
  <1>2. \A j \in 0 .. wr_col - 1 : j \in Col
    BY <1>1, MatrixSizeAssumption DEF Col
  <1> DEFINE used == 0 .. wr_col - 1
             at   == [j \in used |-> CHOOSE i \in Row : <<i, j>> \in age_matrix]
  <1>3. \A j \in used : at[j] \in Row /\ <<at[j], j>> \in age_matrix
    BY DEF MatrixInv, OneEntryPerColumn
  <1>4. \A j, k \in used : at[j] = at[k] => j = k
    <2> HIDE DEF at
    <2> QED
      BY <1>2, <1>3 DEF MatrixInv, OneEntryPerColumn
  <1>5. \A i \in Present : \E j \in used : at[j] = i
    <2> SUFFICES ASSUME NEW i \in Present PROVE \E j \in used : at[j] = i
      OBVIOUS
    <2>1. PICK j \in Col : <<i, j>> \in age_matrix
      BY DEF Present
    <2>2. j \in used
      BY <1>1, <2>1 DEF MatrixInv, OneEntryPerColumn, Col
    <2> HIDE DEF at
    <2>3. at[j] = i
      BY <1>3, <2>1, <2>2 DEF MatrixInv, OneEntryPerColumn
    <2> QED
      BY <2>2, <2>3
  <1>6. at \in Bijection(used, Present)
    <2>1. at \in [used -> Present]
      BY <1>2, <1>3 DEF Present
    <2> HIDE DEF at
    <2> QED
      BY <2>1, <1>4, <1>5 DEF Bijection, Injection, Surjection, IsInjective
  <1>7. IsFiniteSet(used) /\ Cardinality(used) = wr_col
    BY <1>1, FS_Interval
  <1>8. IsFiniteSet(Present) /\ Cardinality(Present) = wr_col
    <2>1. ExistsBijection(used, Present)
      BY <1>6 DEF ExistsBijection
    <2> HIDE DEF used
    <2> QED
      BY <1>7, <2>1, FS_Bijection
  <1>9. IsFiniteSet(Row) /\ Cardinality(Row) = MATRIX_SIZE
    BY FS_Interval, MatrixSizeAssumption DEF Row
  <1>10. Present \subseteq Row
    BY DEF Present
  <1> QED
    BY <1>8, <1>9, <1>10, FS_Subset DEF matrix_full

-----------------------------------------------------------------------------
\* The empty matrix.
LEMMA MatrixInitInv == MatrixInit => MatrixInv
  <1> SUFFICES ASSUME MatrixInit PROVE MatrixInv
    OBVIOUS
  <1>1. MatrixTypeOK
    BY MatrixSizeAssumption DEF MatrixInit, MatrixTypeOK
  <1>2. 0 .. wr_col - 1 = {} /\ age_matrix = {}
    BY DEF MatrixInit
  <1> QED
    BY <1>1, <1>2 DEF MatrixInv, OneEntryPerColumn

\* An edge keeps the invariant.
LEMMA MatrixEdgeInv ==
  ASSUME MatrixInv, NEW we \in BOOLEAN, NEW a \in Row, NEW re \in BOOLEAN,
         NEW mask \in SUBSET Present, re <=> mask # {}, we => a \notin Present,
         MatrixEdge(we, a, re, mask)
  PROVE  MatrixInv'
  BY MatrixEdgeType, MatrixEdgeColumns DEF MatrixInv

\* The mask counts only while something is read.
LEMMA MaskWithoutRead ==
  ASSUME NEW we, NEW a, NEW mask, MatrixEdge(we, a, FALSE, mask)
  PROVE  MatrixEdge(we, a, FALSE, {})
  BY DEF MatrixEdge

\* Every behaviour of the matrix satisfies the invariant.
LEMMA MatrixInvHolds == MatrixSpec => []MatrixInv
  <1>1. MatrixInv /\ [MatrixNext]_matrixVars => MatrixInv'
    <2>1. ASSUME MatrixInv, MatrixNext PROVE MatrixInv'
      <3>1. PICK we \in BOOLEAN, re \in BOOLEAN, a \in Row, mask \in SUBSET Present :
              /\ we => a \notin Present
              /\ re <=> mask # {}
              /\ MatrixEdge(we, a, re, mask)
        BY <2>1 DEF MatrixNext
      <3> QED
        BY <2>1, <3>1, MatrixEdgeInv
    <2>2. MatrixInv /\ UNCHANGED matrixVars => MatrixInv'
      BY DEF MatrixInv, MatrixTypeOK, OneEntryPerColumn, matrixVars
    <2> QED
      BY <2>1, <2>2
  <1> QED
    BY MatrixInitInv, <1>1, PTL DEF MatrixSpec

(***************************************************************************)
(* For every size, the matrix maps the columns in use to the waiting       *)
(* entries one to one, whatever is written and read at the same edges      *)
(* (dispatcher.vhd, p_next_age_matrix and p_wr_col).                       *)
(***************************************************************************)
THEOREM AgeMatrixIsOneToOne == MatrixSpec => []OneEntryPerColumn
  <1>1. MatrixInv => OneEntryPerColumn
    BY DEF MatrixInv
  <1> QED
    BY <1>1, MatrixInvHolds, PTL

(***************************************************************************)
(* For every size and every mask, the row that is read is one entry of the *)
(* mask, and no other entry of the mask came before it (dispatcher.vhd,    *)
(* age_col and age_pri).                                                   *)
(***************************************************************************)
THEOREM OldestOfMaskIsRead == MatrixSpec => []ReadsOldestOfMask
  <1>1. ASSUME MatrixInv PROVE ReadsOldestOfMask
    <2>1. ASSUME NEW mask \in SUBSET Present, mask # {}
          PROVE  \E oldest \in mask :
                   /\ RdRow(mask) = {oldest}
                   /\ \A i \in mask, j, k \in Col :
                        <<oldest, j>> \in age_matrix /\ <<i, k>> \in age_matrix => j <= k
      <3>1. PICK oldest \in mask :
              /\ RdRow(mask) = {oldest}
              /\ <<oldest, ColAddr(mask)>> \in age_matrix
              /\ \A i \in mask, j, k \in Col :
                   <<oldest, j>> \in age_matrix /\ <<i, k>> \in age_matrix => j <= k
        BY <1>1, <2>1, OldestIsRead, Zenon
      <3> QED
        BY <3>1, Zenon
    <2>2. \A mask \in (SUBSET Present) \ {{}} : mask \in SUBSET Present /\ mask # {}
      OBVIOUS
    <2> QED
      BY <2>1, <2>2, Zenon DEF ReadsOldestOfMask
  <1> QED
    BY <1>1, MatrixInvHolds, PTL

=============================================================================
