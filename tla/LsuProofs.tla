----------------------------- MODULE LsuProofs -----------------------------
(***************************************************************************)
(* The load and store unit for every size of its buffers, every number of  *)
(* groups, every set of addresses and any memory.  The invariant has one   *)
(* part for the store buffer's ring, one for the loads, and one that ties  *)
(* the history of a load to its dependency bits; the groups need the ring, *)
(* since it is the head alone that answers for the stores of a group.      *)
(***************************************************************************)
EXTENDS Lsu, AgeMatrixProofs

\* What an entry of the buffers may be.
LsuTag  == {LduTag(i) : i \in LduSlot} \cup {StuTag(s) : s \in StuSlot}
InGroup == {{g} : g \in Group}

StoreEntry ==
  [busy : {TRUE}, addr : SUBSET Addr, ta : SUBSET LsuTag, td : SUBSET DataTag, grp : InGroup]

StoreFree == [busy : {FALSE}, grp : {{}} \cup InGroup]

LoadEntry ==
  [busy : {TRUE}, addr : SUBSET Addr, ta : SUBSET LsuTag, tq : DataTag, grp : InGroup,
   commited : BOOLEAN, done : BOOLEAN, data : {"none", "memory", "store"},
   st_spec : BOOLEAN, st_dep : SUBSET StuSlot]

LoadFree == [busy : {FALSE}, grp : {{}} \cup InGroup, st_dep : SUBSET StuSlot]

\* An entry has its address, awaits it, or will never have it.
OneAddress(e) ==
  \/ e.ta = {} /\ (e.addr = {} \/ \E a \in e.addr : e.addr = {a})
  \/ e.addr = {} /\ \E t \in e.ta : e.ta = {t}

\* The k-th slot of the ring from the head on.
At(k) == (stu_rd_ptr + k) % STU_SIZE

\* n stores wait, and from the head on no group comes after a later one.
Ring(n) ==
  /\ StuBusy = {At(k) : k \in 0 .. n - 1}
  /\ stu_wr_ptr = At(n)
  /\ \A k, l \in 0 .. n - 1 : \A g \in stb[At(k)].grp, h \in stb[At(l)].grp :
       k <= l => Distance(g) <= Distance(h)

StuInv ==
  /\ stu_wr_ptr \in StuSlot /\ stu_rd_ptr \in StuSlot
  /\ \A s \in StuSlot : stb[s] \in StoreEntry \cup StoreFree
  /\ \A s \in StuBusy : OneAddress(stb[s])
  /\ \E n \in 0 .. STU_SIZE : Ring(n)

LduInv ==
  /\ \A i \in LduSlot : ldu_buf[i] \in LoadEntry \cup LoadFree
  /\ \A i \in LduBusy : OneAddress(ldu_buf[i]) /\ (ldu_buf[i].done <=> ldu_buf[i].data # "none")

\* The dependency bits of a load cover the stores from before it, and only
\* a speculative load has been sent to memory while there are any.
HistoryInv ==
  /\ \A i \in LduBusy : older[i] \subseteq ldu_buf[i].st_dep
  /\ \A i \in LduBusy \ stray :
       ldu_buf[i].commited /\ ~ldu_buf[i].st_spec => older[i] = {}

LsuInv ==
  /\ GrpTypeOK /\ MatrixTypeOK
  /\ StuInv /\ LduInv /\ NobodyLeftBehind
  /\ HistoryInv /\ StoreBeatsMemory

\* An edge, spelled out: what is assumed of the inputs.
AtMostOneOf(S) == {{}} \cup {{x} : x \in S}

LsuStep(loads, stores, fence, bus, resp, wr_rdy, rd_rdy, ack) ==
  /\ loads \in AtMostOneOf(DispatchedLoad) /\ (loads # {} => ~ldu_full)
  /\ stores \in AtMostOneOf(DispatchedStore) /\ (stores # {} => ~stu_full)
  /\ bus \in AtMostOneOf(BusWords)
  /\ LsuEdge(loads, stores, fence, bus, resp, wr_rdy, rd_rdy, ack)
  /\ HistoryEdge(loads, wr_rdy, rd_rdy)

-----------------------------------------------------------------------------
(***************************************************************************)
(* Groups.                                                                 *)
(***************************************************************************)

\* Whether the read group advances at an edge.
Advances == ReadGroupIsOver(stu_rd_grp_match(rd_grp), ldu_rd_grp_match(rd_grp)) /\ rd_grp # wr_grp

\* Distance and successor, without the remainder.
LEMMA GroupArithmetic ==
  ASSUME NEW r \in Group, NEW g \in Group
  PROVE  /\ (g - r) % 2^GRP_LEN = IF g >= r THEN g - r ELSE g - r + 2^GRP_LEN
         /\ NextGroup(g) = IF g = 2^GRP_LEN - 1 THEN 0 ELSE g + 1
         /\ NextGroup(g) \in Group
  <1>1. PICK m \in Nat \ {0} : m = 2^GRP_LEN
    BY GroupCountAssumption
  <1>2. g \in 0 .. m - 1 /\ r \in 0 .. m - 1
    BY <1>1 DEF Group
  <1>3. (g - r) % m = IF g >= r THEN g - r ELSE g - r + m
    BY <1>2
  <1>4. (g + 1) % m = IF g = m - 1 THEN 0 ELSE g + 1
    BY <1>2
  <1>5. NextGroup(g) = (g + 1) % m
    BY <1>1 DEF NextGroup
  <1> QED
    BY <1>1, <1>2, <1>3, <1>4, <1>5 DEF Group

\* The groups in use stay in use, in their order, at an edge at which no
\* entry of the read group is left behind.
LEMMA GroupsAfterStep ==
  ASSUME GrpTypeOK, NEW fence,
         GrpEdge(fence, stu_rd_grp_match(rd_grp), ldu_rd_grp_match(rd_grp))
  PROVE  /\ GrpTypeOK'
         /\ \A g \in Group : Advances => Distance(g) = 0 \/ Distance(g)' = Distance(g) - 1
         /\ \A g \in Group : ~Advances => Distance(g)' = Distance(g)
         /\ \A g \in Group : Distance(g) \in Nat /\ (Distance(g) = 0 <=> g = rd_grp)
         /\ Advances => Distance(wr_grp) # 0
         /\ Distance(wr_grp)' >= IF Advances THEN Distance(wr_grp) - 1 ELSE Distance(wr_grp)
  <1>1. PICK m \in Nat \ {0} : m = 2^GRP_LEN
    BY GroupCountAssumption
  <1>2. Group = 0 .. m - 1 /\ rd_grp \in Group /\ wr_grp \in Group
    BY <1>1 DEF Group, GrpTypeOK
  <1>3. /\ rd_grp' = IF Advances THEN NextGroup(rd_grp) ELSE rd_grp
        /\ wr_grp' = IF fence /\ rd_grp # NextGroup(wr_grp) THEN NextGroup(wr_grp) ELSE wr_grp
    BY DEF GrpEdge, Advances, grp_full
  <1>4. \A g \in Group : /\ NextGroup(g) = IF g = m - 1 THEN 0 ELSE g + 1
                         /\ NextGroup(g) \in Group
    BY <1>1, GroupArithmetic
  <1>5. rd_grp' \in Group /\ wr_grp' \in Group
    BY <1>2, <1>3, <1>4
  <1>6. \A g \in Group : Distance(g) = IF g >= rd_grp THEN g - rd_grp ELSE g - rd_grp + m
    BY <1>1, <1>2, GroupArithmetic DEF Distance
  <1>7. \A g \in Group : Distance(g)' = IF g >= rd_grp' THEN g - rd_grp' ELSE g - rd_grp' + m
    <2> SUFFICES ASSUME NEW g \in Group
                 PROVE  Distance(g)' = IF g >= rd_grp' THEN g - rd_grp' ELSE g - rd_grp' + m
      OBVIOUS
    <2>1. Distance(g)' = (g - rd_grp') % 2^GRP_LEN
      BY DEF Distance
    <2> QED
      BY <1>1, <1>5, <2>1, GroupArithmetic
  <1>8. Distance(wr_grp)' = IF wr_grp' >= rd_grp' THEN wr_grp' - rd_grp' ELSE wr_grp' - rd_grp' + m
    <2>1. Distance(wr_grp)' = (wr_grp' - rd_grp') % 2^GRP_LEN
      BY DEF Distance
    <2> QED
      BY <1>1, <1>5, <2>1, GroupArithmetic
  <1>9. Advances => rd_grp # wr_grp
    BY DEF Advances
  <1>10. \A g \in Group : Distance(g) \in Nat /\ (Distance(g) = 0 <=> g = rd_grp)
    BY <1>2, <1>6
  <1>11. \A g \in Group : Advances => Distance(g) = 0 \/ Distance(g)' = Distance(g) - 1
    <2> SUFFICES ASSUME NEW g \in Group, Advances, g # rd_grp
                 PROVE  Distance(g)' = Distance(g) - 1
      BY <1>10
    <2>1. rd_grp' = IF rd_grp = m - 1 THEN 0 ELSE rd_grp + 1
      BY <1>2, <1>3, <1>4
    <2>2. Distance(g) = IF g >= rd_grp THEN g - rd_grp ELSE g - rd_grp + m
      BY <1>6
    <2>3. Distance(g)' = IF g >= rd_grp' THEN g - rd_grp' ELSE g - rd_grp' + m
      BY <1>7
    <2> QED
      BY <1>2, <2>1, <2>2, <2>3
  <1>12. \A g \in Group : ~Advances => Distance(g)' = Distance(g)
    BY <1>2, <1>3, <1>6, <1>7
  <1>13. Distance(wr_grp)' >= IF Advances THEN Distance(wr_grp) - 1 ELSE Distance(wr_grp)
    <2>1. rd_grp' = IF Advances THEN (IF rd_grp = m - 1 THEN 0 ELSE rd_grp + 1) ELSE rd_grp
      BY <1>2, <1>3, <1>4
    <2>2. Distance(wr_grp) = IF wr_grp >= rd_grp THEN wr_grp - rd_grp ELSE wr_grp - rd_grp + m
      BY <1>2, <1>6
    <2>3. CASE wr_grp' = wr_grp
      BY <1>2, <1>5, <1>8, <1>9, <2>1, <2>2, <2>3
    <2>4. CASE wr_grp' = NextGroup(wr_grp) /\ rd_grp # NextGroup(wr_grp)
      <3>1. wr_grp' = IF wr_grp = m - 1 THEN 0 ELSE wr_grp + 1
        BY <1>2, <1>4, <2>4
      <3>2. rd_grp # wr_grp'
        BY <2>4
      <3> QED
        BY <1>2, <1>5, <1>8, <1>9, <2>1, <2>2, <3>1, <3>2
    <2> QED
      BY <1>3, <2>3, <2>4
  <1> QED
    BY <1>2, <1>5, <1>9, <1>10, <1>11, <1>12, <1>13 DEF GrpTypeOK

\* The same for two entries, and for an entry and the write group.
LEMMA GroupOrderKept ==
  ASSUME GrpTypeOK, NEW fence,
         GrpEdge(fence, stu_rd_grp_match(rd_grp), ldu_rd_grp_match(rd_grp)),
         NEW g \in Group, Advances => Distance(g) # 0
  PROVE  /\ \A h \in Group : Distance(g) <= Distance(h) => Distance(g)' <= Distance(h)'
         /\ Distance(g) <= Distance(wr_grp) => (Distance(g) <= Distance(wr_grp))'
  <1>1. wr_grp' \in Group /\ rd_grp' \in Group /\ wr_grp \in Group
    BY GroupsAfterStep DEF GrpTypeOK
  <1>2. \A h \in Group : Distance(h) \in Nat
    BY GroupsAfterStep
  <1>3. Distance(g)' = IF Advances THEN Distance(g) - 1 ELSE Distance(g)
    BY GroupsAfterStep
  <1>4. ASSUME NEW h \in Group, Distance(g) <= Distance(h)
        PROVE  Distance(g)' <= Distance(h)'
    <2>1. Advances => Distance(h) # 0
      BY <1>2, <1>4
    <2>2. Distance(h)' = IF Advances THEN Distance(h) - 1 ELSE Distance(h)
      BY <2>1, GroupsAfterStep
    <2> QED
      BY <1>2, <1>3, <1>4, <2>2
  <1>5. Distance(wr_grp)' \in Int
    <2>1. Distance(wr_grp)' = (wr_grp' - rd_grp') % 2^GRP_LEN
      BY DEF Distance
    <2> QED
      BY <1>1, <2>1, GroupArithmetic, GroupCountAssumption DEF Group
  <1>6. Distance(wr_grp)' >= IF Advances THEN Distance(wr_grp) - 1 ELSE Distance(wr_grp)
    BY GroupsAfterStep
  <1>7. Distance(g) <= Distance(wr_grp) => Distance(g)' <= Distance(wr_grp)'
    BY <1>1, <1>2, <1>3, <1>5, <1>6
  <1> QED
    BY <1>4, <1>7

-----------------------------------------------------------------------------
(***************************************************************************)
(* The ring of the store buffer.                                           *)
(***************************************************************************)

\* Positions of the ring, without the remainder.
AtIsSum ==
  \A k \in 0 .. STU_SIZE :
    At(k) = IF stu_rd_ptr + k < STU_SIZE THEN stu_rd_ptr + k ELSE stu_rd_ptr + k - STU_SIZE

LEMMA AtWraps == stu_rd_ptr \in StuSlot => AtIsSum
  <1> SUFFICES ASSUME stu_rd_ptr \in StuSlot, NEW k \in 0 .. STU_SIZE
               PROVE  At(k) = IF stu_rd_ptr + k < STU_SIZE THEN stu_rd_ptr + k
                              ELSE stu_rd_ptr + k - STU_SIZE
    BY DEF AtIsSum
  <1>1. PICK x \in 0 .. 2 * STU_SIZE - 1 : x = stu_rd_ptr + k
    BY LsuSizeAssumption DEF StuSlot
  <1>2. At(k) = x % STU_SIZE
    BY <1>1 DEF At
  <1>3. x < STU_SIZE => x % STU_SIZE = x
    BY LsuSizeAssumption
  <1>4. ~(x < STU_SIZE) => x % STU_SIZE = x - STU_SIZE
    BY LsuSizeAssumption
  <1> QED
    BY <1>1, <1>2, <1>3, <1>4, LsuSizeAssumption DEF StuSlot

\* A pointer moves on by one.
LEMMA StuIncWraps ==
  \A p \in StuSlot : StuInc(p) \in StuSlot /\ StuInc(p) = IF p = STU_SIZE - 1 THEN 0 ELSE p + 1
  BY LsuSizeAssumption DEF StuSlot, StuInc

LEMMA RingArithmetic ==
  ASSUME stu_rd_ptr \in StuSlot
  PROVE  /\ \A k \in 0 .. STU_SIZE : At(k) \in StuSlot
         /\ \A k, l \in 0 .. STU_SIZE - 1 : At(k) = At(l) => k = l
         /\ \A s \in StuSlot : \E k \in 0 .. STU_SIZE - 1 : At(k) = s
         /\ At(0) = stu_rd_ptr
         /\ \A k \in 0 .. STU_SIZE - 1 : At(k + 1) = StuInc(At(k))
  <1>1. \A k \in 0 .. STU_SIZE :
          At(k) = IF stu_rd_ptr + k < STU_SIZE THEN stu_rd_ptr + k
                  ELSE stu_rd_ptr + k - STU_SIZE
    BY AtWraps DEF AtIsSum
  <1>2. \A k \in 0 .. STU_SIZE : At(k) \in StuSlot
    BY <1>1, LsuSizeAssumption DEF StuSlot
  <1>3. \A k, l \in 0 .. STU_SIZE - 1 : At(k) = At(l) => k = l
    BY <1>1, LsuSizeAssumption DEF StuSlot
  <1>4. ASSUME NEW s \in StuSlot
        PROVE  \E k \in 0 .. STU_SIZE - 1 : At(k) = s
    <2>1. CASE s >= stu_rd_ptr
      <3>1. s - stu_rd_ptr \in 0 .. STU_SIZE - 1
        BY <2>1, LsuSizeAssumption DEF StuSlot
      <3>2. At(s - stu_rd_ptr) = s
        BY <1>1, <2>1, <3>1, LsuSizeAssumption DEF StuSlot
      <3> QED
        BY <3>1, <3>2
    <2>2. CASE ~(s >= stu_rd_ptr)
      <3>1. s - stu_rd_ptr + STU_SIZE \in 0 .. STU_SIZE - 1
        BY <2>2, LsuSizeAssumption DEF StuSlot
      <3>2. At(s - stu_rd_ptr + STU_SIZE) = s
        BY <1>1, <2>2, <3>1, LsuSizeAssumption DEF StuSlot
      <3> QED
        BY <3>1, <3>2
    <2> QED
      BY <2>1, <2>2
  <1>5. At(0) = stu_rd_ptr
    BY <1>1, LsuSizeAssumption DEF StuSlot
  <1>6. ASSUME NEW k \in 0 .. STU_SIZE - 1
        PROVE  At(k + 1) = StuInc(At(k))
    <2>1. k \in 0 .. STU_SIZE /\ k + 1 \in 0 .. STU_SIZE
      BY LsuSizeAssumption
    <2>2. StuInc(At(k)) = IF At(k) = STU_SIZE - 1 THEN 0 ELSE At(k) + 1
      BY <1>2, <2>1, StuIncWraps
    <2>3. At(k + 1) = IF stu_rd_ptr + (k + 1) < STU_SIZE THEN stu_rd_ptr + (k + 1)
                      ELSE stu_rd_ptr + (k + 1) - STU_SIZE
      BY <1>1, <2>1
    <2>4. At(k) = IF stu_rd_ptr + k < STU_SIZE THEN stu_rd_ptr + k
                  ELSE stu_rd_ptr + k - STU_SIZE
      BY <1>1, <2>1
    <2> QED
      BY <2>2, <2>3, <2>4, LsuSizeAssumption DEF StuSlot
  <1> QED
    BY <1>2, <1>3, <1>4, <1>5, <1>6

\* When the head leaves, every position is one further.
LEMMA AtAfterCommit ==
  ASSUME stu_rd_ptr \in StuSlot, stu_rd_ptr' = StuInc(stu_rd_ptr), NEW k \in 0 .. STU_SIZE - 1
  PROVE  At(k)' = At(k + 1)
  <1>1. stu_rd_ptr' \in StuSlot
    BY StuIncWraps
  <1>2. k \in 0 .. STU_SIZE /\ k + 1 \in 0 .. STU_SIZE
    BY LsuSizeAssumption
  <1>3. At(k)' = IF stu_rd_ptr' + k < STU_SIZE THEN stu_rd_ptr' + k
                 ELSE stu_rd_ptr' + k - STU_SIZE
    <2>1. (stu_rd_ptr \in StuSlot => AtIsSum)'
      BY AtWraps, PTL
    <2> QED
      BY <1>1, <1>2, <2>1 DEF AtIsSum
  <1>4. At(k + 1) = IF stu_rd_ptr + (k + 1) < STU_SIZE THEN stu_rd_ptr + (k + 1)
                    ELSE stu_rd_ptr + (k + 1) - STU_SIZE
    BY <1>2, AtWraps DEF AtIsSum
  <1>5. stu_rd_ptr' = IF stu_rd_ptr = STU_SIZE - 1 THEN 0 ELSE stu_rd_ptr + 1
    BY StuIncWraps
  <1> QED
    BY <1>3, <1>4, <1>5, LsuSizeAssumption DEF StuSlot

\* The ring counts its stores, and is full when it counts STU_SIZE.
LEMMA RingCounts ==
  ASSUME stu_rd_ptr \in StuSlot, NEW n \in 0 .. STU_SIZE, Ring(n)
  PROVE  /\ Cardinality(StuBusy) = n
         /\ stu_full <=> n = STU_SIZE
  <1> DEFINE positions == 0 .. n - 1
             at        == [k \in positions |-> At(k)]
  <1>1. \A k \in positions : k \in 0 .. STU_SIZE - 1 /\ k \in 0 .. STU_SIZE /\ at[k] = At(k)
    BY LsuSizeAssumption
  <1>2. StuBusy = {At(k) : k \in positions}
    BY DEF Ring
  <1>3. at \in [positions -> StuBusy]
    BY <1>2
  <1> HIDE DEF at
  <1>4. \A k, l \in positions : at[k] = at[l] => k = l
    BY <1>1, RingArithmetic
  <1>5. \A s \in StuBusy : \E k \in positions : at[k] = s
    BY <1>1, <1>2
  <1>6. ExistsBijection(positions, StuBusy)
    <2>1. at \in Bijection(positions, StuBusy)
      BY <1>3, <1>4, <1>5 DEF Bijection, Injection, Surjection, IsInjective
    <2> QED
      BY <2>1 DEF ExistsBijection
  <1>7. IsFiniteSet(positions) /\ Cardinality(positions) = n
    BY LsuSizeAssumption, FS_Interval
  <1>8. Cardinality(StuBusy) = n
    <2> HIDE DEF positions
    <2> QED
      BY <1>6, <1>7, FS_Bijection
  <1>9. IsFiniteSet(StuSlot) /\ Cardinality(StuSlot) = STU_SIZE
    BY LsuSizeAssumption, FS_Interval DEF StuSlot
  <1>10. stu_full => n = STU_SIZE
    BY <1>8, <1>9 DEF stu_full
  <1>11. n = STU_SIZE => stu_full
    <2> SUFFICES ASSUME n = STU_SIZE, NEW s \in StuSlot PROVE s \in StuBusy
      BY DEF stu_full, StuBusy
    <2>1. PICK k \in 0 .. STU_SIZE - 1 : At(k) = s
      BY RingArithmetic
    <2> QED
      BY <1>2, <2>1
  <1> QED
    BY <1>8, <1>10, <1>11

-----------------------------------------------------------------------------
(***************************************************************************)
(* The pointers of the load buffer, the bus and what is dispatched.        *)
(***************************************************************************)

\* Max of FiniteSetsExt, on slots.
LEMMA MaxIsOne ==
  ASSUME NEW S \in SUBSET LduSlot, S # {}
  PROVE  Max(S) \in S
  <1> DEFINE above == {MATRIX_SIZE - x : x \in S}
  <1>1. \A x \in S : x \in 0 .. MATRIX_SIZE - 1
    BY DEF LduSlot, Row
  <1>2. above \in SUBSET Nat /\ above # {}
    BY <1>1, MatrixSizeAssumption
  <1>3. Min(above) \in above /\ \A y \in above : Min(above) <= y
    <2> HIDE DEF above
    <2> QED
      BY <1>2, MinIsLeast
  <1>4. PICK x \in S : Min(above) = MATRIX_SIZE - x
    BY <1>3
  <1>5. \A y \in S : MATRIX_SIZE - x <= MATRIX_SIZE - y
    BY <1>3, <1>4
  <1>6. \A y \in S : x >= y
    BY <1>1, <1>5, MatrixSizeAssumption
  <1> QED
    BY <1>6 DEF Max

LEMMA PointersOfLoads ==
  /\ ~ldu_full => ldu_disp_ptr \in LduSlot \ LduBusy
  /\ retire_flags # {} => retire_ptr \in retire_flags
  <1>1. LduSlot \ LduBusy \in SUBSET LduSlot /\ retire_flags \in SUBSET LduSlot
    BY DEF retire_flags, LduBusy
  <1>2. ~ldu_full => LduSlot \ LduBusy # {}
    BY DEF ldu_full, LduBusy
  <1>3. ~ldu_full => ldu_disp_ptr \in LduSlot \ LduBusy
    BY <1>1, <1>2, MaxIsOne DEF ldu_disp_ptr, Encoded
  <1>4. retire_flags # {} => retire_ptr \in retire_flags
    BY <1>1, MaxIsOne DEF retire_ptr, Encoded
  <1> QED
    BY <1>3, <1>4

\* The bus carries no word or one, with an address.
LEMMA WordOnBus ==
  ASSUME NEW bus \in AtMostOneOf(BusWords), bus # {}
  PROVE  \E m : bus = {m} /\ m.vq \in Addr
  <1>1. PICK m \in BusWords : bus = {m}
    BY DEF AtMostOneOf
  <1>2. (CHOOSE a \in Addr : TRUE) \in Addr
    BY AddressAssumption
  <1>3. m.vq \in Addr
    BY <1>2 DEF BusWords
  <1> QED
    BY <1>1, <1>3

\* An operand is a known address or an awaited one.
LEMMA OperandShape ==
  ASSUME NEW t \in LsuTag, NEW o \in Operand(t)
  PROVE  o.addr \in SUBSET Addr /\ o.ta \in SUBSET LsuTag /\ OneAddress(o)
  BY DEF Operand, OneAddress

LEMMA StoreIsEntry ==
  ASSUME GrpTypeOK, stu_wr_ptr \in StuSlot, NEW e \in DispatchedStore
  PROVE  e \in StoreEntry /\ OneAddress(e) /\ e.grp = {wr_grp}
  <1>1. {wr_grp} \in InGroup /\ StuTag(stu_wr_ptr) \in LsuTag
    BY DEF GrpTypeOK, InGroup, LsuTag
  <1>2. PICK td \in {{}} \cup {{t} : t \in DataTag} :
          e \in {Store(o.addr, o.ta, td, wr_grp) : o \in Operand(StuTag(stu_wr_ptr))}
    BY Zenon DEF DispatchedStore
  <1>3. PICK o \in Operand(StuTag(stu_wr_ptr)) : e = Store(o.addr, o.ta, td, wr_grp)
    BY <1>2, Zenon
  <1>4. o.addr \in SUBSET Addr /\ o.ta \in SUBSET LsuTag /\ OneAddress(o)
    BY <1>1, OperandShape
  <1>5. td \in SUBSET DataTag
    OBVIOUS
  <1> QED
    BY <1>1, <1>3, <1>4, <1>5 DEF Store, StoreEntry, OneAddress

LEMMA LoadIsEntry ==
  ASSUME GrpTypeOK, ldu_disp_ptr \in LduSlot, NEW e \in DispatchedLoad
  PROVE  /\ e \in LoadEntry /\ OneAddress(e) /\ e.grp = {wr_grp}
         /\ e.st_dep = StuBusy /\ ~e.commited /\ ~e.done /\ e.data = "none" /\ ~e.st_spec
  <1>1. {wr_grp} \in InGroup /\ LduTag(ldu_disp_ptr) \in LsuTag
    BY DEF GrpTypeOK, InGroup, LsuTag
  <1>2. StuBusy \in SUBSET StuSlot
    BY DEF StuBusy
  <1>3. PICK tq \in DataTag :
          e \in {Load(o.addr, o.ta, tq, wr_grp, StuBusy) : o \in Operand(LduTag(ldu_disp_ptr))}
    BY Zenon DEF DispatchedLoad, stu_deps
  <1>4. PICK o \in Operand(LduTag(ldu_disp_ptr)) : e = Load(o.addr, o.ta, tq, wr_grp, StuBusy)
    BY <1>3, Zenon
  <1>5. o.addr \in SUBSET Addr /\ o.ta \in SUBSET LsuTag /\ OneAddress(o)
    BY <1>1, OperandShape
  <1> QED
    BY <1>1, <1>2, <1>4, <1>5 DEF Load, LoadEntry, OneAddress

-----------------------------------------------------------------------------
(***************************************************************************)
(* The store buffer at an edge.                                            *)
(***************************************************************************)

\* What a waiting store hears of the bus.
HeardStore(e, bus) ==
  [e EXCEPT !.addr = @ \cup {m.vq : m \in {b \in bus : b.tq \in e.ta}},
            !.ta = @ \ {m.tq : m \in bus}, !.td = @ \ {m.tq : m \in bus}]

Commits(wr_rdy) == wr_rdy /\ store_rdy(rd_grp)

\* The part of a step that concerns the stores.
StuStep(stores, bus, wr_rdy) ==
  /\ stores \in AtMostOneOf(DispatchedStore) /\ (stores # {} => ~stu_full)
  /\ bus \in AtMostOneOf(BusWords)
  /\ StuEdge(stores, bus, wr_rdy, rd_grp)

\* It hears its address or goes on waiting for it.
LEMMA HeardStoreIsEntry ==
  ASSUME NEW e \in StoreEntry, OneAddress(e), NEW bus \in AtMostOneOf(BusWords)
  PROVE  /\ HeardStore(e, bus) \in StoreEntry /\ OneAddress(HeardStore(e, bus))
         /\ HeardStore(e, bus).grp = e.grp
  <1> DEFINE words == {m.vq : m \in {b \in bus : b.tq \in e.ta}}
             tags  == {m.tq : m \in bus}
             h     == HeardStore(e, bus)
  <1>1. /\ h.addr = e.addr \cup words /\ h.ta = e.ta \ tags
        /\ h.grp = e.grp
    BY DEF HeardStore, StoreEntry
  <1>2. words \in SUBSET Addr
    BY WordOnBus
  <1>3. h \in StoreEntry
    <2>1. /\ e.addr \cup words \in SUBSET Addr /\ e.ta \ tags \in SUBSET LsuTag
          /\ e.td \ tags \in SUBSET DataTag
      BY <1>2 DEF StoreEntry
    <2>2. h = [e EXCEPT !.addr = @ \cup words, !.ta = @ \ tags, !.td = @ \ tags]
      BY DEF HeardStore
    <2> HIDE DEF words, tags, h
    <2> QED
      BY <2>1, <2>2 DEF StoreEntry
  <1>4. OneAddress(h)
    <2> HIDE DEF h
    <2>1. CASE bus = {}
      BY <1>1, <2>1 DEF OneAddress
    <2>2. CASE bus # {}
      <3>1. PICK m : bus = {m}
        BY <2>2, WordOnBus
      <3>2. tags = {m.tq}
        BY <3>1
      <3>3. m.tq \in e.ta => words = {m.vq}
        BY <3>1
      <3>4. m.tq \notin e.ta => words = {}
        BY <3>1
      <3> HIDE DEF words, tags
      <3>5. CASE m.tq \in e.ta
        <4>1. e.addr = {} /\ e.ta = {m.tq}
          BY <3>5 DEF OneAddress
        <4>2. h.ta = {} /\ h.addr = {m.vq}
          BY <1>1, <3>2, <3>3, <3>5, <4>1
        <4> QED
          BY <4>2 DEF OneAddress
      <3>6. CASE m.tq \notin e.ta
        <4>1. h.ta = e.ta /\ h.addr = e.addr
          BY <1>1, <3>2, <3>4, <3>6
        <4> QED
          BY <4>1 DEF OneAddress
      <3> QED
        BY <3>5, <3>6
    <2> QED
      BY <2>1, <2>2
  <1> QED
    BY <1>1, <1>3, <1>4

\* Slot by slot: the head leaves, a store is written, the others hear the bus.
LEMMA StoresAfterStep ==
  ASSUME GrpTypeOK, StuInv, NEW stores, NEW bus, NEW wr_rdy, StuStep(stores, bus, wr_rdy)
  PROVE  /\ stu_wr_ptr' = IF stores # {} THEN StuInc(stu_wr_ptr) ELSE stu_wr_ptr
         /\ stu_rd_ptr' = IF Commits(wr_rdy) THEN StuInc(stu_rd_ptr) ELSE stu_rd_ptr
         /\ Commits(wr_rdy) => stu_rd_ptr \in StuBusy /\ ~stb'[stu_rd_ptr].busy
         /\ \A s \in StuSlot :
              /\ stb'[s] \in StoreEntry \cup StoreFree
              /\ stb'[s].busy => OneAddress(stb'[s])
              /\ ~(s = stu_wr_ptr /\ stores # {}) => stb'[s].grp = stb[s].grp
              /\ s = stu_wr_ptr /\ stores # {} /\ ~(s = stu_rd_ptr /\ Commits(wr_rdy)) =>
                   stb'[s].busy /\ stb'[s].grp = {wr_grp}
              /\ ~(s = stu_rd_ptr /\ Commits(wr_rdy)) /\ ~(s = stu_wr_ptr /\ stores # {}) =>
                   (stb'[s].busy <=> stb[s].busy)
  <1> DEFINE commit == Commits(wr_rdy)
             write  == stores # {}
  <1>1. write => ~stu_full
    BY DEF StuStep
  <1>2. \A s \in StuSlot :
          stb'[s] = IF s = stu_rd_ptr /\ commit THEN StoreLeft(stb[s])
                    ELSE IF s = stu_wr_ptr /\ write THEN CHOOSE e \in stores : TRUE
                    ELSE IF s \in StuBusy THEN HeardStore(stb[s], bus) ELSE stb[s]
    <2>1. write <=> stores # {} /\ ~stu_full
      BY <1>1
    <2>2. stb' = [s \in StuSlot |->
             IF s = stu_rd_ptr /\ commit THEN StoreLeft(stb[s])
             ELSE IF s = stu_wr_ptr /\ stores # {} /\ ~stu_full THEN CHOOSE e \in stores : TRUE
             ELSE IF s \in StuBusy THEN HeardStore(stb[s], bus) ELSE stb[s]]
      BY Zenon DEF StuStep, StuEdge, Commits, HeardStore
    <2> HIDE DEF commit, write
    <2> QED
      BY <2>1, <2>2
  <1>3. /\ stu_wr_ptr' = IF write THEN StuInc(stu_wr_ptr) ELSE stu_wr_ptr
        /\ stu_rd_ptr' = IF commit THEN StuInc(stu_rd_ptr) ELSE stu_rd_ptr
    <2>1. stu_wr_ptr' = IF stores # {} /\ ~stu_full THEN StuInc(stu_wr_ptr) ELSE stu_wr_ptr
      BY Zenon DEF StuStep, StuEdge
    <2>2. stu_rd_ptr' = IF commit THEN StuInc(stu_rd_ptr) ELSE stu_rd_ptr
      BY Zenon DEF StuStep, StuEdge, Commits
    <2> QED
      BY <1>1, <2>1, <2>2, Zenon
  <1>4. commit => stu_rd_ptr \in StuBusy
    BY DEF Commits, store_rdy, StuBusy, StuInv
  <1>5. write => /\ (CHOOSE e \in stores : TRUE) \in StoreEntry
                 /\ OneAddress(CHOOSE e \in stores : TRUE)
                 /\ (CHOOSE e \in stores : TRUE).grp = {wr_grp}
    <2> SUFFICES ASSUME write
                 PROVE  /\ (CHOOSE e \in stores : TRUE) \in StoreEntry
                        /\ OneAddress(CHOOSE e \in stores : TRUE)
                        /\ (CHOOSE e \in stores : TRUE).grp = {wr_grp}
      OBVIOUS
    <2>1. PICK e \in DispatchedStore : stores = {e}
      BY DEF StuStep, AtMostOneOf
    <2>2. (CHOOSE x \in stores : TRUE) = e
      BY <2>1
    <2>3. e \in StoreEntry /\ OneAddress(e) /\ e.grp = {wr_grp}
      BY StoreIsEntry DEF StuInv
    <2> QED
      BY <2>2, <2>3
  <1>6. bus \in AtMostOneOf(BusWords)
    BY DEF StuStep
  <1>7. \A e \in StoreEntry : e.busy
    BY DEF StoreEntry
  <1>8. \A e \in StoreFree : ~e.busy
    BY DEF StoreFree
  <1>9. ASSUME NEW s \in StuSlot
        PROVE  /\ stb'[s] \in StoreEntry \cup StoreFree
               /\ stb'[s].busy => OneAddress(stb'[s])
               /\ s = stu_rd_ptr /\ commit => ~stb'[s].busy
               /\ ~(s = stu_wr_ptr /\ write) => stb'[s].grp = stb[s].grp
               /\ s = stu_wr_ptr /\ write /\ ~(s = stu_rd_ptr /\ commit) =>
                    stb'[s].busy /\ stb'[s].grp = {wr_grp}
               /\ ~(s = stu_rd_ptr /\ commit) /\ ~(s = stu_wr_ptr /\ write) =>
                    (stb'[s].busy <=> stb[s].busy)
    <2>1. stb[s] \in StoreEntry \cup StoreFree
      BY DEF StuInv
    <2> HIDE DEF commit, write
    <2>2. CASE s = stu_rd_ptr /\ commit
      <3>1. stb'[s] = StoreLeft(stb[s])
        BY <1>2, <2>2, Zenon
      <3>2. stb[s].grp \in {{}} \cup InGroup
        BY <2>1 DEF StoreEntry, StoreFree
      <3>3. stb'[s] \in StoreFree /\ stb'[s].grp = stb[s].grp
        BY <3>1, <3>2 DEF StoreLeft, StoreFree
      <3> QED
        BY <1>8, <2>2, <3>3
    <2>3. CASE ~(s = stu_rd_ptr /\ commit) /\ s = stu_wr_ptr /\ write
      <3>1. stb'[s] = CHOOSE e \in stores : TRUE
        BY <1>2, <2>3, Zenon
      <3> QED
        BY <1>5, <1>7, <2>3, <3>1
    <2>4. CASE ~(s = stu_rd_ptr /\ commit) /\ ~(s = stu_wr_ptr /\ write) /\ s \in StuBusy
      <3>1. stb'[s] = HeardStore(stb[s], bus)
        BY <1>2, <2>4, Zenon
      <3>2. stb[s] \in StoreEntry /\ OneAddress(stb[s])
        BY <1>8, <2>1, <2>4 DEF StuInv, StuBusy
      <3>3. /\ stb'[s] \in StoreEntry /\ OneAddress(stb'[s])
            /\ stb'[s].grp = stb[s].grp
        BY <1>6, <3>1, <3>2, HeardStoreIsEntry
      <3> QED
        BY <1>7, <2>4, <3>2, <3>3
    <2>5. CASE ~(s = stu_rd_ptr /\ commit) /\ ~(s = stu_wr_ptr /\ write) /\ s \notin StuBusy
      <3>1. stb'[s] = stb[s] /\ ~stb[s].busy
        BY <1>2, <2>5, Zenon DEF StuBusy
      <3> QED
        BY <2>1, <2>5, <3>1
    <2> QED
      BY <2>2, <2>3, <2>4, <2>5
  <1>10. stu_rd_ptr \in StuSlot
    BY DEF StuInv
  <1> QED
    BY <1>3, <1>4, <1>9, <1>10

\* While the read group moves on, nobody waits in it: the loads are looked
\* at one by one, the head of the ring answers for the stores behind it.
LEMMA NobodyIsInOldGroup ==
  ASSUME GrpTypeOK, StuInv, LduInv, Advances, NEW fence,
         GrpEdge(fence, stu_rd_grp_match(rd_grp), ldu_rd_grp_match(rd_grp))
  PROVE  /\ \A s \in StuBusy : \A g \in stb[s].grp : Distance(g) # 0
         /\ \A i \in LduBusy : \A g \in ldu_buf[i].grp : Distance(g) # 0
  <1>1. \A g \in Group : Distance(g) \in Nat /\ (Distance(g) = 0 <=> g = rd_grp)
    BY GroupsAfterStep
  <1>2. ASSUME NEW i \in LduBusy, NEW g \in ldu_buf[i].grp
        PROVE  Distance(g) # 0
    <2>1. i \in LduSlot /\ ldu_buf[i].grp \in InGroup
      BY DEF LduInv, LduBusy, LoadEntry, LoadFree
    <2>2. ldu_buf[i].grp = {g} /\ g \in Group
      BY <1>2, <2>1 DEF InGroup
    <2>3. ldu_buf[i].grp # {rd_grp}
      BY <2>1 DEF Advances, ReadGroupIsOver, ldu_rd_grp_match
    <2> QED
      BY <1>1, <2>2, <2>3
  <1>3. ASSUME NEW s \in StuBusy, NEW g \in stb[s].grp
        PROVE  Distance(g) # 0
    <2>1. \A x \in StuBusy : x \in StuSlot /\ stb[x].grp \in InGroup
      BY DEF StuInv, StuBusy, StoreEntry, StoreFree
    <2>2. PICK n \in 0 .. STU_SIZE : Ring(n)
      BY DEF StuInv
    <2>3. PICK k \in 0 .. n - 1 : s = At(k)
      BY <2>2 DEF Ring
    <2>4. 0 \in 0 .. n - 1 /\ 0 <= k
      BY <2>2, <2>3, LsuSizeAssumption
    <2>5. At(0) = stu_rd_ptr
      BY RingArithmetic DEF StuInv
    <2>6. stu_rd_ptr \in StuBusy
      BY <2>2, <2>4, <2>5 DEF Ring
    <2>7. PICK h \in Group : stb[stu_rd_ptr].grp = {h}
      BY <2>1, <2>6 DEF InGroup
    <2>8. h # rd_grp
      BY <2>7 DEF Advances, ReadGroupIsOver, stu_rd_grp_match
    <2>9. Distance(h) <= Distance(g)
      BY <1>3, <2>2, <2>3, <2>4, <2>5, <2>7 DEF Ring
    <2>10. g \in Group
      BY <1>3, <2>1 DEF InGroup
    <2> QED
      BY <1>1, <2>7, <2>8, <2>9, <2>10
  <1> QED
    BY <1>2, <1>3

\* The ring at an edge: one store less at the head, one more at the end.
LEMMA RingAfterStep ==
  ASSUME GrpTypeOK, StuInv, LduInv, NobodyLeftBehind,
         NEW stores, NEW bus, NEW wr_rdy, StuStep(stores, bus, wr_rdy), NEW fence,
         GrpEdge(fence, stu_rd_grp_match(rd_grp), ldu_rd_grp_match(rd_grp)),
         NEW n \in 0 .. STU_SIZE, Ring(n)
  PROVE  \E m \in 0 .. STU_SIZE : Ring(m)'
  <1> DEFINE c == IF Commits(wr_rdy) THEN 1 ELSE 0
             w == IF stores # {} THEN 1 ELSE 0
  <1>1. stu_rd_ptr \in StuSlot
    BY DEF StuInv
  <1>2. w = 1 => n < STU_SIZE
    BY <1>1, RingCounts, LsuSizeAssumption DEF StuStep
  <1>3. /\ \A k \in 0 .. STU_SIZE : At(k) \in StuSlot
        /\ \A k, l \in 0 .. STU_SIZE - 1 : At(k) = At(l) => k = l
        /\ \A s \in StuSlot : \E k \in 0 .. STU_SIZE - 1 : At(k) = s
        /\ At(0) = stu_rd_ptr
        /\ \A k \in 0 .. STU_SIZE - 1 : At(k + 1) = StuInc(At(k))
    BY <1>1, RingArithmetic
  <1>4. c = 1 => n >= 1
    <2> SUFFICES ASSUME Commits(wr_rdy) PROVE n >= 1
      OBVIOUS
    <2>1. stu_rd_ptr \in StuBusy
      BY StoresAfterStep
    <2> QED
      BY <2>1, LsuSizeAssumption DEF Ring
  <1>5. c \in 0 .. 1 /\ w \in 0 .. 1
    OBVIOUS
  <1>6. n - c + w \in 0 .. STU_SIZE
    BY <1>2, <1>4, LsuSizeAssumption
  <1>7. \A k \in 0 .. STU_SIZE : c = 0 \/ k < STU_SIZE => At(k)' = At(k + c)
    <2> SUFFICES ASSUME NEW k \in 0 .. STU_SIZE, c = 0 \/ k < STU_SIZE
                 PROVE  At(k)' = At(k + c)
      OBVIOUS
    <2>1. CASE Commits(wr_rdy)
      <3>1. stu_rd_ptr' = StuInc(stu_rd_ptr)
        BY <2>1, StoresAfterStep
      <3>2. k \in 0 .. STU_SIZE - 1
        BY <2>1, LsuSizeAssumption
      <3> QED
        BY <1>1, <2>1, <3>1, <3>2, AtAfterCommit
    <2>2. CASE ~Commits(wr_rdy)
      <3>1. stu_rd_ptr' = stu_rd_ptr
        BY <2>2, StoresAfterStep
      <3>2. k + 0 = k
        OBVIOUS
      <3> QED
        BY <2>2, <3>1, <3>2 DEF At
    <2> QED
      BY <2>1, <2>2
  <1>8. stu_wr_ptr' = At(n + w)
    <2>1. CASE stores # {}
      <3>1. stu_wr_ptr' = StuInc(stu_wr_ptr)
        BY <2>1, StoresAfterStep
      <3>2. n \in 0 .. STU_SIZE - 1
        BY <1>2, <2>1, LsuSizeAssumption
      <3> QED
        BY <1>3, <2>1, <3>1, <3>2 DEF Ring
    <2>2. CASE stores = {}
      <3>1. stu_wr_ptr' = stu_wr_ptr
        BY <2>2, StoresAfterStep
      <3>2. n + 0 = n
        OBVIOUS
      <3> QED
        BY <2>2, <3>1, <3>2 DEF Ring
    <2> QED
      BY <2>1, <2>2
  <1> DEFINE m == n - c + w
  <1>9. PICK x \in 0 .. STU_SIZE : x = m
    BY <1>6
  <1>13. stu_wr_ptr' = At(x)'
    <2>1. c = 0 \/ x < STU_SIZE
      BY <1>2, <1>4, <1>9, LsuSizeAssumption
    <2>2. x + c = n + w
      BY <1>5, <1>9
    <2>3. At(x)' = At(x + c)
      BY <1>7, <2>1
    <2> QED
      BY <1>8, <2>2, <2>3, Zenon
  \* The slots that wait afterwards, by their position before.
  <1>10. ASSUME NEW j \in 0 .. STU_SIZE - 1
         PROVE  /\ stb'[At(j)].busy <=> c <= j /\ j < n + w
                /\ j < n => stb'[At(j)].grp = stb[At(j)].grp /\ At(j) \in StuBusy
                /\ j = n /\ w = 1 => stb'[At(j)].grp = {wr_grp}
    <2>1. At(j) \in StuSlot
      BY <1>3, LsuSizeAssumption
    <2>2. stb[At(j)].busy <=> j < n
      <3>1. stb[At(j)].busy => \E k \in 0 .. n - 1 : At(j) = At(k)
        BY <2>1 DEF StuBusy, Ring
      <3>2. j < n => At(j) \in StuBusy
        BY DEF Ring
      <3> QED
        BY <1>3, <3>1, <3>2, LsuSizeAssumption DEF StuBusy
    <2>3. At(j) = stu_rd_ptr <=> j = 0
      BY <1>3, LsuSizeAssumption
    <2>4. stores # {} => (At(j) = stu_wr_ptr <=> j = n)
      <3>1. stu_wr_ptr = At(n)
        BY DEF Ring
      <3> QED
        BY <1>2, <1>3, <3>1, LsuSizeAssumption
    <2>5. /\ ~(At(j) = stu_wr_ptr /\ stores # {}) => stb'[At(j)].grp = stb[At(j)].grp
          /\ At(j) = stu_wr_ptr /\ stores # {} /\ ~(At(j) = stu_rd_ptr /\ Commits(wr_rdy)) =>
               stb'[At(j)].busy /\ stb'[At(j)].grp = {wr_grp}
          /\ ~(At(j) = stu_rd_ptr /\ Commits(wr_rdy)) /\ ~(At(j) = stu_wr_ptr /\ stores # {}) =>
               (stb'[At(j)].busy <=> stb[At(j)].busy)
          /\ Commits(wr_rdy) => ~stb'[stu_rd_ptr].busy
      BY <2>1, StoresAfterStep
    <2>6. j < n => At(j) \in StuBusy
      BY DEF Ring
    <2>7. Commits(wr_rdy) => n >= 1
      BY <1>4
    <2> QED
      BY <2>2, <2>3, <2>4, <2>5, <2>6, <2>7
  <1>11. StuBusy' = {At(k)' : k \in 0 .. m - 1}
    <2>1. \A k \in 0 .. m - 1 : /\ k + c \in 0 .. STU_SIZE - 1 /\ c <= k + c /\ k + c < n + w
                               /\ k \in 0 .. STU_SIZE /\ k < STU_SIZE
      BY <1>2, <1>4, <1>5, <1>6, LsuSizeAssumption
    <2>2. \A k \in 0 .. m - 1 : At(k)' = At(k + c) /\ At(k)' \in StuSlot
      BY <1>3, <1>7, <2>1, LsuSizeAssumption
    <2>3. \A k \in 0 .. m - 1 : At(k)' \in StuBusy'
      BY <1>10, <2>1, <2>2 DEF StuBusy
    <2>4. ASSUME NEW s \in StuBusy'
          PROVE  \E k \in 0 .. m - 1 : s = At(k)'
      <3>1. s \in StuSlot /\ stb'[s].busy
        BY <2>4 DEF StuBusy
      <3>2. PICK j \in 0 .. STU_SIZE - 1 : At(j) = s
        BY <1>3, <3>1
      <3>3. c <= j /\ j < n + w
        BY <1>10, <3>1, <3>2
      <3>4. PICK k \in 0 .. m - 1 : k + c = j
        <4>1. j - c \in 0 .. m - 1 /\ j - c + c = j
          BY <1>5, <3>3, LsuSizeAssumption
        <4> QED
          BY <4>1
      <3>5. At(k)' = At(k + c)
        BY <2>2
      <3> QED
        BY <3>2, <3>4, <3>5, Zenon
    <2> QED
      BY <2>3, <2>4
  <1>12. ASSUME NEW k \in 0 .. m - 1, NEW l \in 0 .. m - 1, k <= l,
                NEW g \in stb'[At(k)'].grp, NEW h \in stb'[At(l)'].grp
         PROVE  Distance(g)' <= Distance(h)'
    <2>1. /\ k + c \in 0 .. STU_SIZE - 1 /\ l + c \in 0 .. STU_SIZE - 1
          /\ k + c < n + w /\ l + c < n + w
          /\ k \in 0 .. STU_SIZE - 1 /\ l \in 0 .. STU_SIZE - 1
      BY <1>2, <1>4, <1>5, <1>6, LsuSizeAssumption
    <2>2. At(k)' = At(k + c) /\ At(l)' = At(l + c)
      BY <1>7, <2>1, LsuSizeAssumption
    <2>3. \A s \in StuBusy : \A e \in stb[s].grp :
            e \in Group /\ Distance(e) <= Distance(wr_grp) /\ (Advances => Distance(e) # 0)
      <3>1. \A s \in StuBusy : stb[s].grp \in InGroup
        BY DEF StuInv, StuBusy, StoreEntry, StoreFree
      <3>2. \A s \in StuBusy : \A e \in stb[s].grp : e \in Group
        BY <3>1 DEF InGroup
      <3>3. \A s \in StuBusy : \A e \in stb[s].grp : Distance(e) <= Distance(wr_grp)
        BY Zenon DEF NobodyLeftBehind
      <3>4. Advances => \A s \in StuBusy : \A e \in stb[s].grp : Distance(e) # 0
        BY NobodyIsInOldGroup
      <3> QED
        BY <3>2, <3>3, <3>4
    <2>4. /\ wr_grp \in Group /\ Distance(wr_grp) \in Nat
          /\ Advances => Distance(wr_grp) # 0
      BY GroupsAfterStep DEF GrpTypeOK
    <2>5. /\ k + c < n => g \in stb[At(k + c)].grp /\ At(k + c) \in StuBusy
          /\ l + c < n => h \in stb[At(l + c)].grp /\ At(l + c) \in StuBusy
          /\ ~(k + c < n) => g = wr_grp
          /\ ~(l + c < n) => h = wr_grp
      BY <1>5, <1>10, <1>12, <2>1, <2>2, LsuSizeAssumption
    <2>6. g \in Group /\ h \in Group /\ (Advances => Distance(g) # 0)
      BY <2>3, <2>4, <2>5
    <2>7. Distance(g) <= Distance(h)
      <3>1. CASE l + c < n
        <4>1. k + c < n /\ k + c <= l + c
          BY <1>5, <1>12, <3>1, <2>1
        <4>2. k + c \in 0 .. n - 1 /\ l + c \in 0 .. n - 1
          BY <2>1, <3>1, <4>1, LsuSizeAssumption
        <4> QED
          BY <2>5, <3>1, <4>1, <4>2 DEF Ring
      <3>2. CASE ~(l + c < n)
        BY <2>3, <2>4, <2>5, <3>2
      <3> QED
        BY <3>1, <3>2
    <2> QED
      BY <2>6, <2>7, GroupOrderKept
  <1>14. StuBusy' = {At(k)' : k \in 0 .. x - 1}
    <2> HIDE DEF m
    <2> QED
      BY <1>9, <1>11
  <1>15. \A k, l \in 0 .. x - 1 : \A g \in stb'[At(k)'].grp, h \in stb'[At(l)'].grp :
           k <= l => Distance(g)' <= Distance(h)'
    <2> HIDE DEF m
    <2> QED
      BY <1>9, <1>12
  <1>16. Ring(x)'
    BY <1>13, <1>14, <1>15, Zenon DEF Ring
  <1> QED
    BY <1>16

\* The store buffer's part of the invariant is inductive.
LEMMA StuStepInv ==
  ASSUME GrpTypeOK, StuInv, LduInv, NobodyLeftBehind,
         NEW stores, NEW bus, NEW wr_rdy, StuStep(stores, bus, wr_rdy), NEW fence,
         GrpEdge(fence, stu_rd_grp_match(rd_grp), ldu_rd_grp_match(rd_grp))
  PROVE  StuInv'
  <1>1. \E m \in 0 .. STU_SIZE : Ring(m)'
    <2>1. PICK n \in 0 .. STU_SIZE : Ring(n)
      BY DEF StuInv
    <2> QED
      BY <2>1, RingAfterStep
  <1>2. stu_wr_ptr' \in StuSlot /\ stu_rd_ptr' \in StuSlot
    BY StoresAfterStep, StuIncWraps DEF StuInv
  <1>3. \A s \in StuSlot : stb'[s] \in StoreEntry \cup StoreFree
    BY StoresAfterStep
  <1>4. \A s \in StuBusy' : OneAddress(stb'[s])
    BY StoresAfterStep DEF StuBusy
  <1> QED
    BY <1>1, <1>2, <1>3, <1>4 DEF StuInv, OneAddress

-----------------------------------------------------------------------------
(***************************************************************************)
(* The stages of a load, one after the other.                              *)
(***************************************************************************)

\* A load has a word exactly when it is done.
HasWord(e) == e.done <=> e.data # "none"

\* The entries hold the same load, but for its word and its state in memory.
SameLoad(e, f) == f.grp = e.grp /\ f.addr = e.addr /\ f.ta = e.ta /\ f.tq = e.tq

LEMMA CdbStage ==
  ASSUME NEW i, NEW e \in LoadEntry, e = ldu_buf[i], OneAddress(e), HasWord(e),
         NEW bus \in AtMostOneOf(BusWords)
  PROVE  LET f == CdbWriteBack(i, e, bus)
         IN  /\ f \in LoadEntry /\ OneAddress(f) /\ HasWord(f) /\ f.grp = e.grp
             /\ f.commited = e.commited /\ f.done = e.done /\ f.data = e.data
             /\ f.st_spec = e.st_spec /\ f.st_dep = e.st_dep
  <1> DEFINE words == {m \in bus : m.tq \in e.ta}
             heard == {m.vq : m \in words}
             f     == CdbWriteBack(i, e, bus)
  <1>1. CASE i \in StuSlot /\ e.busy /\ ~e.commited /\ words # {}
    <2>1. PICK m : bus = {m} /\ m.vq \in Addr
      BY <1>1, WordOnBus
    <2>2. heard = {m.vq}
      BY <1>1, <2>1
    <2>3. f = [e EXCEPT !.addr = heard, !.ta = {}]
      BY <1>1 DEF CdbWriteBack
    <2>4. heard \in SUBSET Addr /\ {} \in SUBSET LsuTag
      BY <2>1, <2>2
    <2> HIDE DEF words, heard, f
    <2>5. /\ f \in LoadEntry /\ f.addr = heard /\ f.ta = {} /\ f.grp = e.grp
          /\ f.commited = e.commited /\ f.done = e.done /\ f.data = e.data
          /\ f.st_spec = e.st_spec /\ f.st_dep = e.st_dep
      BY <2>3, <2>4 DEF LoadEntry
    <2>6. OneAddress(f) /\ HasWord(f)
      BY <2>2, <2>5 DEF OneAddress, HasWord
    <2> QED
      BY <2>5, <2>6 DEF f
  <1>2. CASE ~(i \in StuSlot /\ e.busy /\ ~e.commited /\ words # {})
    <2>1. f = e
      BY <1>2 DEF CdbWriteBack
    <2> HIDE DEF f
    <2> QED
      BY <2>1 DEF f
  <1> QED
    BY <1>1, <1>2

LEMMA AnswerStage ==
  ASSUME NEW i \in LduBusy, NEW e \in LoadEntry, HasWord(e), NEW resp,
         ldu_buf[i].done = e.done, ldu_buf[i].commited = e.commited
  PROVE  LET f == DataWriteBack(i, e, resp)
         IN  /\ f \in LoadEntry /\ SameLoad(e, f) /\ HasWord(f)
             /\ f.commited = e.commited /\ f.st_spec = e.st_spec /\ f.st_dep = e.st_dep
             /\ e.done => f = e
  <1> DEFINE f == DataWriteBack(i, e, resp)
  <1>1. CASE i \in resp /\ ldu_buf[i].busy /\ ldu_buf[i].commited /\ ~ldu_buf[i].done
    <2>1. f = [e EXCEPT !.data = "memory", !.done = TRUE]
      BY <1>1 DEF DataWriteBack
    <2> HIDE DEF f
    <2>2. /\ f \in LoadEntry /\ SameLoad(e, f) /\ f.data = "memory" /\ f.done = TRUE
          /\ f.commited = e.commited /\ f.st_spec = e.st_spec /\ f.st_dep = e.st_dep
      BY <2>1 DEF LoadEntry, SameLoad
    <2> QED
      BY <1>1, <2>2 DEF f, HasWord
  <1>2. CASE ~(i \in resp /\ ldu_buf[i].busy /\ ldu_buf[i].commited /\ ~ldu_buf[i].done)
    <2>1. f = e
      BY <1>2 DEF DataWriteBack
    <2> HIDE DEF f
    <2> QED
      BY <2>1 DEF f, SameLoad
  <1> QED
    BY <1>1, <1>2

\* A store that leaves, if any: its bit goes, its word comes when the addresses are
\* the same, and the last one ends the speculation.
StoreSeen(i, e, f, issued, a) ==
  /\ f \in LoadEntry /\ SameLoad(e, f) /\ HasWord(f)
  /\ f.commited = e.commited
  /\ e.done => f.done
  /\ e.data = "store" => f.data = "store"
  /\ e.st_dep \ {m.buf : m \in issued} \subseteq f.st_dep
  /\ issued # {} /\ stu_rd_ptr \in e.st_dep /\ ldu_buf[i].addr = {a} =>
       f.done /\ f.data = "store"
  /\ e.st_spec /\ ~f.st_spec => issued # {} /\ e.st_dep = {stu_rd_ptr}

LEMMA StoreStage ==
  ASSUME NEW i \in LduBusy, NEW e \in LoadEntry, HasWord(e),
         ldu_buf[i].st_dep = e.st_dep, NEW issued, NEW a,
         issued = {} \/ issued = {[buf |-> stu_rd_ptr, addr |-> a]}
  PROVE  StoreSeen(i, e, StDependencies(i, e, issued), issued, a)
  <1> DEFINE mine == {m \in issued : ldu_buf[i].busy /\ m.buf \in ldu_buf[i].st_dep}
             fwd  == \E m \in mine : ldu_buf[i].addr = {m.addr}
             last == Cardinality(ldu_buf[i].st_dep) = 1
             bufs == {m.buf : m \in mine}
             f    == StDependencies(i, e, issued)
  <1>1. ldu_buf[i].busy /\ e.st_dep \in SUBSET StuSlot
    BY DEF LduBusy, LoadEntry
  <1>2. CASE mine = {}
    <2>1. f = e
      BY <1>2 DEF StDependencies
    <2>2. ~(issued # {} /\ stu_rd_ptr \in e.st_dep)
      BY <1>1, <1>2
    <2> HIDE DEF f
    <2> QED
      BY <2>1, <2>2 DEF f, SameLoad, StoreSeen
  <1>3. CASE mine # {}
    <2>1. issued = {[buf |-> stu_rd_ptr, addr |-> a]} /\ stu_rd_ptr \in e.st_dep
      BY <1>3
    <2>2. mine = issued
      BY <1>1, <2>1
    <2>3. bufs = {stu_rd_ptr} /\ {m.buf : m \in issued} = {stu_rd_ptr}
      BY <2>1, <2>2
    <2>4. fwd <=> ldu_buf[i].addr = {a}
      <3>1. \A m \in issued : m.addr = a
        BY <2>1
      <3>2. fwd <=> \E m \in issued : ldu_buf[i].addr = {m.addr}
        BY <2>2
      <3> QED
        BY <2>1, <3>1, <3>2
    <2>5. last => e.st_dep = {stu_rd_ptr}
      <3> SUFFICES ASSUME last PROVE e.st_dep = {stu_rd_ptr}
        OBVIOUS
      <3>1. IsFiniteSet(StuSlot)
        BY LsuSizeAssumption, FS_Interval DEF StuSlot
      <3>2. IsFiniteSet(e.st_dep)
        BY <1>1, <3>1, FS_Subset
      <3>3. PICK x : e.st_dep = {x}
        BY <3>2, FS_Singleton
      <3> QED
        BY <2>1, <3>3
    <2>6. f = [e EXCEPT !.data = IF fwd THEN "store" ELSE @, !.done = @ \/ fwd,
                        !.st_spec = @ /\ ~last, !.st_dep = @ \ bufs]
      BY <1>3, Zenon DEF StDependencies
    <2>7. fwd \in BOOLEAN /\ last \in BOOLEAN /\ bufs \in SUBSET StuSlot
      BY <1>1, <2>1, <2>3
    <2> HIDE DEF f, mine, fwd, last, bufs
    <2>8. /\ f \in LoadEntry /\ SameLoad(e, f) /\ f.commited = e.commited
          /\ f.data = IF fwd THEN "store" ELSE e.data
          /\ f.done <=> (e.done \/ fwd)
          /\ f.st_spec <=> (e.st_spec /\ ~last)
          /\ f.st_dep = e.st_dep \ bufs
      BY <2>6, <2>7 DEF LoadEntry, SameLoad
    <2>9. HasWord(f)
      BY <2>8 DEF HasWord
    <2> QED
      BY <2>1, <2>3, <2>4, <2>5, <2>8, <2>9 DEF f, StoreSeen
  <1> QED
    BY <1>2, <1>3

LEMMA ScheduleStage ==
  ASSUME NEW i, NEW e \in LoadEntry, HasWord(e), NEW sent
  PROVE  LET f == LoadSchedule(i, e, sent)
         IN  /\ f \in LoadEntry /\ SameLoad(e, f) /\ HasWord(f)
             /\ f.done = e.done /\ f.data = e.data /\ f.st_dep = e.st_dep
             /\ f.commited => e.commited \/ i \in sent
             /\ i \in sent /\ ldu_buf[i].st_dep # {} => f.st_spec
             /\ e.st_spec => f.st_spec
  <1> DEFINE f == LoadSchedule(i, e, sent)
  <1>1. e.busy
    BY DEF LoadEntry
  <1>2. CASE i \in sent
    <2> DEFINE waits == ldu_buf[i].st_dep # {}
    <2>1. f = [e EXCEPT !.commited = TRUE, !.st_spec = @ \/ waits] /\ waits \in BOOLEAN
      BY <1>1, <1>2 DEF LoadSchedule
    <2> HIDE DEF f, waits
    <2>2. /\ f \in LoadEntry /\ SameLoad(e, f)
          /\ f.done = e.done /\ f.data = e.data /\ f.st_dep = e.st_dep
          /\ f.st_spec <=> (e.st_spec \/ waits)
      BY <2>1 DEF LoadEntry, SameLoad
    <2> QED
      BY <1>2, <2>2 DEF f, HasWord, waits
  <1>3. CASE i \notin sent
    <2>1. f = e
      BY <1>3 DEF LoadSchedule
    <2> HIDE DEF f
    <2> QED
      BY <1>3, <2>1 DEF f, SameLoad
  <1> QED
    BY <1>2, <1>3

\* All of them, for the entry e of slot i.
Stages(i, e, bus, resp, issued, sent) ==
  LoadSchedule(i, StDependencies(i, DataWriteBack(i, CdbWriteBack(i, e, bus), resp), issued), sent)

\* What has become of a load e of slot i that stays in the buffer.
Settled(i, e, f, issued, sent) ==
  /\ f \in LoadEntry /\ OneAddress(f) /\ HasWord(f) /\ f.grp = e.grp
  /\ e.done => f.done
  /\ e.data = "store" => f.data = "store"
  /\ e.st_dep \ {m.buf : m \in issued} \subseteq f.st_dep
  /\ \A m \in issued : m.buf \in e.st_dep /\ e.addr = {m.addr} => f.done /\ f.data = "store"
  /\ f.commited => e.commited \/ i \in sent
  /\ i \in sent /\ e.st_dep # {} => f.st_spec
  /\ e.st_spec /\ ~f.st_spec => \E m \in issued : e.st_dep = {m.buf}

LEMMA LoadSettles ==
  ASSUME NEW i \in LduBusy, NEW e \in LoadEntry, e = ldu_buf[i], OneAddress(e), HasWord(e),
         NEW bus \in AtMostOneOf(BusWords), NEW resp, NEW sent, NEW issued, NEW a,
         issued = {} \/ issued = {[buf |-> stu_rd_ptr, addr |-> a]}
  PROVE  Settled(i, e, Stages(i, e, bus, resp, issued, sent), issued, sent)
  <1> DEFINE h == CdbWriteBack(i, e, bus)
             w == DataWriteBack(i, h, resp)
             s == StDependencies(i, w, issued)
             f == LoadSchedule(i, s, sent)
  <1>1. /\ h \in LoadEntry /\ OneAddress(h) /\ HasWord(h) /\ h.grp = e.grp
        /\ h.commited = e.commited /\ h.done = e.done /\ h.data = e.data
        /\ h.st_spec = e.st_spec /\ h.st_dep = e.st_dep
    BY CdbStage
  <1> HIDE DEF h
  <1>2. /\ w \in LoadEntry /\ SameLoad(h, w) /\ HasWord(w)
        /\ w.commited = h.commited /\ w.st_spec = h.st_spec /\ w.st_dep = h.st_dep
        /\ h.done => w = h
    <2>1. ldu_buf[i].done = h.done /\ ldu_buf[i].commited = h.commited
      BY <1>1
    <2> QED
      BY <1>1, <2>1, AnswerStage, Zenon
  <1> HIDE DEF w
  <1>3. StoreSeen(i, w, s, issued, a)
    <2>1. ldu_buf[i].st_dep = w.st_dep
      BY <1>1, <1>2
    <2> QED
      BY <1>2, <2>1, StoreStage
  <1> HIDE DEF s
  <1>4. /\ f \in LoadEntry /\ SameLoad(s, f) /\ HasWord(f)
        /\ f.done = s.done /\ f.data = s.data /\ f.st_dep = s.st_dep
        /\ f.commited => s.commited \/ i \in sent
        /\ i \in sent /\ ldu_buf[i].st_dep # {} => f.st_spec
        /\ s.st_spec => f.st_spec
    BY <1>3, ScheduleStage, Zenon DEF StoreSeen
  <1> HIDE DEF f
  <1>5. OneAddress(f) /\ f.grp = e.grp
    BY <1>1, <1>2, <1>3, <1>4 DEF SameLoad, OneAddress, StoreSeen
  <1>6. e.data = "store" => e.done
    BY DEF HasWord
  <1>7. /\ e.done => f.done
        /\ e.data = "store" => f.data = "store"
        /\ e.st_dep \ {m.buf : m \in issued} \subseteq f.st_dep
    BY <1>1, <1>2, <1>3, <1>4, <1>6 DEF StoreSeen
  <1>8. /\ f.commited => e.commited \/ i \in sent
        /\ i \in sent /\ e.st_dep # {} => f.st_spec
    BY <1>1, <1>2, <1>3, <1>4 DEF StoreSeen
  <1>9. \A m \in issued : m.buf = stu_rd_ptr /\ m.addr = a
    OBVIOUS
  <1>10. \A m \in issued : m.buf \in e.st_dep /\ e.addr = {m.addr} => f.done /\ f.data = "store"
    BY <1>1, <1>2, <1>3, <1>4, <1>9 DEF StoreSeen
  <1>11. e.st_spec /\ ~f.st_spec => \E m \in issued : e.st_dep = {m.buf}
    BY <1>1, <1>2, <1>3, <1>4, <1>9 DEF StoreSeen
  <1>12. f = Stages(i, e, bus, resp, issued, sent)
    BY DEF Stages, h, w, s, f
  <1> QED
    BY <1>4, <1>5, <1>7, <1>8, <1>10, <1>11, <1>12 DEF Settled

-----------------------------------------------------------------------------
(***************************************************************************)
(* The load buffer at an edge.                                             *)
(***************************************************************************)
Sent(rd_rdy) == Requested(rd_rdy, rd_grp)
Retired(ack) == IF ack /\ retire_flags # {} THEN {retire_ptr} ELSE {}

Placed(loads, i) == loads # {} /\ i = ldu_disp_ptr

\* The part of a step that concerns the loads.
LduStep(loads, bus, resp, wr_rdy, rd_rdy, ack) ==
  /\ loads \in AtMostOneOf(DispatchedLoad) /\ (loads # {} => ~ldu_full)
  /\ bus \in AtMostOneOf(BusWords)
  /\ LduEdge(loads, bus, resp, Leaving(wr_rdy), rd_rdy, ack, rd_grp)

\* A slot without a load is left alone by every stage.
LEMMA StagesOfNone ==
  ASSUME NEW i, NEW e, ~ldu_buf[i].busy, NEW bus, NEW resp, NEW issued, NEW sent
  PROVE  Stages(i, e, bus, resp, issued, sent) = LoadSchedule(i, e, sent)
  <1>1. CdbWriteBack(i, e, bus) = e
    BY DEF CdbWriteBack
  <1>2. DataWriteBack(i, e, resp) = e
    BY DEF DataWriteBack
  <1>3. StDependencies(i, e, issued) = e
    BY DEF StDependencies
  <1> QED
    BY <1>1, <1>2, <1>3 DEF Stages

\* Slot by slot: a load is placed, settles, or leaves with its result.
LEMMA LoadsAfterStep ==
  ASSUME GrpTypeOK, LduInv, NEW loads, NEW bus, NEW resp, NEW wr_rdy, NEW rd_rdy, NEW ack,
         LduStep(loads, bus, resp, wr_rdy, rd_rdy, ack), NEW i \in LduSlot
  PROVE  /\ Placed(loads, i) =>
              /\ i \notin LduBusy
              /\ ldu_buf'[i] \in LoadEntry /\ OneAddress(ldu_buf'[i]) /\ HasWord(ldu_buf'[i])
              /\ ldu_buf'[i].grp = {wr_grp} /\ ldu_buf'[i].st_dep = StuBusy
              /\ ldu_buf'[i].commited => i \in Sent(rd_rdy)
         /\ ~Placed(loads, i) /\ ldu_buf'[i].busy =>
              /\ i \in LduBusy
              /\ Settled(i, ldu_buf[i], ldu_buf'[i], Leaving(wr_rdy), Sent(rd_rdy))
         /\ ~ldu_buf'[i].busy => ldu_buf'[i] \in LoadFree
  <1> DEFINE issued  == Leaving(wr_rdy)
             written == IF Placed(loads, i) THEN CHOOSE e \in loads : TRUE ELSE ldu_buf[i]
             staged(e) == Stages(i, e, bus, resp, issued, Sent(rd_rdy))
  <1>1. ldu_buf'[i] = LoadRetire(i, staged(written), Retired(ack))
    <2>1. /\ loads # {} /\ ~ldu_full <=> loads # {}
          /\ LduEdge(loads, bus, resp, issued, rd_rdy, ack, rd_grp)
      BY DEF LduStep
    <2>2. written = IF (loads # {} /\ ~ldu_full) /\ i = ldu_disp_ptr
                    THEN CHOOSE e \in loads : TRUE ELSE ldu_buf[i]
      BY <2>1 DEF Placed
    <2> HIDE DEF issued
    <2>3. ldu_buf'[i] =
            LoadRetire(i, staged(IF (loads # {} /\ ~ldu_full) /\ i = ldu_disp_ptr
                                 THEN CHOOSE e \in loads : TRUE ELSE ldu_buf[i]), Retired(ack))
      BY <2>1, Zenon DEF LduEdge, Stages, Sent, Retired
    <2> QED
      BY <2>2, <2>3, Zenon
  <1>2. ldu_buf[i] \in LoadEntry \cup LoadFree
    BY DEF LduInv
  <1>3. (\A e \in LoadEntry : e.busy) /\ (\A e \in LoadFree : ~e.busy)
    BY DEF LoadEntry, LoadFree
  <1>4. retire_flags # {} => retire_ptr \in LduBusy
    BY PointersOfLoads DEF retire_flags
  <1>5. CASE Placed(loads, i)
    <2>1. i \notin LduBusy /\ ldu_disp_ptr \in LduSlot
      BY <1>5, PointersOfLoads DEF Placed, LduStep
    <2>2. PICK e \in DispatchedLoad : loads = {e}
      BY <1>5 DEF Placed, LduStep, AtMostOneOf
    <2>3. written = e
      BY <1>5, <2>2
    <2>4. /\ e \in LoadEntry /\ OneAddress(e) /\ e.grp = {wr_grp}
          /\ e.st_dep = StuBusy /\ ~e.commited /\ ~e.done /\ e.data = "none" /\ ~e.st_spec
      BY <2>1, LoadIsEntry
    <2>5. HasWord(e)
      BY <2>4 DEF HasWord
    <2>6. ~ldu_buf[i].busy
      BY <2>1 DEF LduBusy
    <2>7. staged(e) = LoadSchedule(i, e, Sent(rd_rdy))
      BY <2>6, StagesOfNone, Zenon
    <2> DEFINE f == LoadSchedule(i, e, Sent(rd_rdy))
    <2>8. /\ f \in LoadEntry /\ SameLoad(e, f) /\ HasWord(f) /\ f.st_dep = e.st_dep
          /\ f.commited => e.commited \/ i \in Sent(rd_rdy)
      BY <2>4, <2>5, ScheduleStage, Zenon
    <2>9. i \notin Retired(ack)
      BY <1>4, <2>1 DEF Retired
    <2>10. ldu_buf'[i] = f
      BY <1>1, <2>3, <2>7, <2>9, Zenon DEF LoadRetire
    <2> HIDE DEF f
    <2>11. OneAddress(f)
      BY <2>4, <2>8 DEF OneAddress, SameLoad
    <2> QED
      BY <1>3, <1>5, <2>1, <2>4, <2>8, <2>10, <2>11 DEF SameLoad
  <1>6. CASE ~Placed(loads, i) /\ i \notin LduBusy
    <2>1. ~ldu_buf[i].busy /\ ldu_buf[i] \in LoadFree
      BY <1>2, <1>3, <1>6 DEF LduBusy
    <2>2. staged(ldu_buf[i]) = LoadSchedule(i, ldu_buf[i], Sent(rd_rdy))
      BY <2>1, StagesOfNone, Zenon
    <2>3. LoadSchedule(i, ldu_buf[i], Sent(rd_rdy)) = ldu_buf[i]
      BY <2>1 DEF LoadSchedule
    <2>4. i \notin Retired(ack)
      BY <1>4, <1>6 DEF Retired
    <2>5. written = ldu_buf[i]
      BY <1>6
    <2>6. ldu_buf'[i] = ldu_buf[i]
      BY <1>1, <2>2, <2>3, <2>4, <2>5, Zenon DEF LoadRetire
    <2> QED
      BY <1>6, <2>1, <2>6
  <1>7. CASE ~Placed(loads, i) /\ i \in LduBusy
    <2>1. ldu_buf[i] \in LoadEntry /\ OneAddress(ldu_buf[i]) /\ HasWord(ldu_buf[i])
      BY <1>2, <1>3, <1>7 DEF LduBusy, LduInv, HasWord
    <2>2. Settled(i, ldu_buf[i], staged(ldu_buf[i]), issued, Sent(rd_rdy))
      <3>1. bus \in AtMostOneOf(BusWords)
        BY DEF LduStep
      <3>2. \E a : issued = {} \/ issued = {[buf |-> stu_rd_ptr, addr |-> a]}
        BY DEF Leaving
      <3> HIDE DEF issued
      <3> QED
        BY <1>7, <2>1, <3>1, <3>2, LoadSettles
    <2>3. written = ldu_buf[i]
      BY <1>7
    <2>4. CASE i \in Retired(ack)
      <3>1. ldu_buf'[i] = LoadLeft(staged(ldu_buf[i]))
        BY <1>1, <2>3, <2>4, Zenon DEF LoadRetire
      <3>2. staged(ldu_buf[i]) \in LoadEntry
        BY <2>2 DEF Settled
      <3>3. \A e \in LoadEntry : LoadLeft(e) \in LoadFree
        BY DEF LoadLeft, Idle, LoadEntry, LoadFree
      <3>4. ldu_buf'[i] \in LoadFree
        <4> HIDE DEF staged
        <4> QED
          BY <3>1, <3>2, <3>3
      <3> QED
        BY <1>3, <1>7, <3>4
    <2>5. CASE i \notin Retired(ack)
      <3>1. ldu_buf'[i] = staged(ldu_buf[i])
        BY <1>1, <2>3, <2>5, Zenon DEF LoadRetire
      <3>2. ldu_buf'[i] \in LoadEntry
        BY <2>2, <3>1 DEF Settled
      <3> QED
        BY <1>3, <1>7, <2>2, <3>1, <3>2
    <2> QED
      BY <2>4, <2>5
  <1> QED
    BY <1>5, <1>6, <1>7

-----------------------------------------------------------------------------
(***************************************************************************)
(* The unit as a whole.                                                    *)
(***************************************************************************)

\* The parts of a step.
LEMMA StepParts ==
  ASSUME NEW loads, NEW stores, NEW fence, NEW bus, NEW resp, NEW wr_rdy, NEW rd_rdy, NEW ack,
         LsuStep(loads, stores, fence, bus, resp, wr_rdy, rd_rdy, ack)
  PROVE  /\ GrpEdge(fence, stu_rd_grp_match(rd_grp), ldu_rd_grp_match(rd_grp))
         /\ StuStep(stores, bus, wr_rdy)
         /\ LduStep(loads, bus, resp, wr_rdy, rd_rdy, ack)
         /\ HistoryEdge(loads, wr_rdy, rd_rdy)
  BY DEF LsuStep, LsuEdge, StuStep, LduStep

\* The matrix keeps its shape, whatever it is asked for.
LEMMA MatrixStaysMatrix ==
  ASSUME MatrixTypeOK, NEW loads, NEW bus, NEW resp, NEW wr_rdy, NEW rd_rdy, NEW ack,
         LduStep(loads, bus, resp, wr_rdy, rd_rdy, ack)
  PROVE  MatrixTypeOK'
  <1>1. PICK we, a, re, mask : MatrixEdge(we, a, re, mask)
    BY DEF LduStep, LduEdge
  <1>2. age_matrix' \subseteq Row \X Col
    BY <1>1 DEF MatrixEdge
  <1>3. wr_col' \in 0 .. MATRIX_SIZE
    <2> DEFINE put  == we /\ ~matrix_full
               read == re /\ ~matrix_empty
    <2>1. wr_col' = CASE read /\ ~put -> wr_col - 1
                      [] put /\ ~read -> wr_col + 1
                      [] OTHER -> wr_col
      BY <1>1, Zenon DEF MatrixEdge
    <2>2. put => wr_col # MATRIX_SIZE
      BY DEF matrix_full
    <2>3. read => wr_col # 0
      BY DEF matrix_empty
    <2> HIDE DEF put, read
    <2> QED
      BY <2>1, <2>2, <2>3, MatrixSizeAssumption DEF MatrixTypeOK
  <1> QED
    BY <1>2, <1>3 DEF MatrixTypeOK

LEMMA LduStepInv ==
  ASSUME GrpTypeOK, LduInv, NEW loads, NEW bus, NEW resp, NEW wr_rdy, NEW rd_rdy, NEW ack,
         LduStep(loads, bus, resp, wr_rdy, rd_rdy, ack)
  PROVE  LduInv'
  <1>1. ASSUME NEW i \in LduSlot
        PROVE  /\ ldu_buf'[i] \in LoadEntry \cup LoadFree
               /\ ldu_buf'[i].busy => OneAddress(ldu_buf'[i]) /\ HasWord(ldu_buf'[i])
    BY LoadsAfterStep DEF Settled
  <1> QED
    BY <1>1 DEF LduInv, LduBusy, OneAddress, HasWord

\* No group in use falls behind the read group.
LEMMA NobodyFallsBehind ==
  ASSUME GrpTypeOK, StuInv, LduInv, NobodyLeftBehind,
         NEW loads, NEW stores, NEW fence, NEW bus, NEW resp, NEW wr_rdy, NEW rd_rdy, NEW ack,
         LsuStep(loads, stores, fence, bus, resp, wr_rdy, rd_rdy, ack)
  PROVE  NobodyLeftBehind'
  <1>1. /\ GrpEdge(fence, stu_rd_grp_match(rd_grp), ldu_rd_grp_match(rd_grp))
        /\ StuStep(stores, bus, wr_rdy)
        /\ LduStep(loads, bus, resp, wr_rdy, rd_rdy, ack)
    BY StepParts, Zenon
  <1>2. ASSUME NEW g \in Group, Distance(g) <= Distance(wr_grp), Advances => Distance(g) # 0
        PROVE  (Distance(g) <= Distance(wr_grp))'
    BY <1>1, <1>2, GroupOrderKept, Zenon
  <1>3. \A g \in {wr_grp} : (Distance(g) <= Distance(wr_grp))'
    <2>1. wr_grp \in Group /\ Distance(wr_grp) \in Nat /\ (Advances => Distance(wr_grp) # 0)
      BY <1>1, GroupsAfterStep DEF GrpTypeOK
    <2>2. PICK g \in Group : g = wr_grp
      BY <2>1
    <2>3. Distance(g) <= Distance(wr_grp) /\ (Advances => Distance(g) # 0)
      BY <2>1, <2>2
    <2> QED
      BY <1>2, <2>2, <2>3
  <1>4. ASSUME NEW s \in StuBusy'
        PROVE  \A g \in stb'[s].grp : (Distance(g) <= Distance(wr_grp))'
    <2>1. s \in StuSlot /\ stb'[s].busy
      BY <1>4 DEF StuBusy
    <2>2. \/ stb'[s].grp = {wr_grp}
          \/ s \in StuBusy /\ stb'[s].grp = stb[s].grp
      BY <1>1, <2>1, StoresAfterStep DEF StuBusy
    <2>3. ASSUME s \in StuBusy, NEW g \in stb[s].grp
          PROVE  (Distance(g) <= Distance(wr_grp))'
      <3>1. stb[s].grp \in InGroup
        BY <2>3 DEF StuInv, StuBusy, StoreEntry, StoreFree
      <3>2. g \in Group
        BY <2>3, <3>1 DEF InGroup
      <3>3. Distance(g) <= Distance(wr_grp)
        BY <2>3, Zenon DEF NobodyLeftBehind
      <3>4. Advances => Distance(g) # 0
        BY <1>1, <2>3, NobodyIsInOldGroup
      <3> QED
        BY <1>2, <3>2, <3>3, <3>4
    <2> QED
      BY <1>3, <2>2, <2>3
  <1>5. ASSUME NEW i \in LduBusy'
        PROVE  \A g \in ldu_buf'[i].grp : (Distance(g) <= Distance(wr_grp))'
    <2>1. i \in LduSlot /\ ldu_buf'[i].busy
      BY <1>5 DEF LduBusy
    <2>2. \/ ldu_buf'[i].grp = {wr_grp}
          \/ i \in LduBusy /\ ldu_buf'[i].grp = ldu_buf[i].grp
      BY <1>1, <2>1, LoadsAfterStep DEF Settled
    <2>3. ASSUME i \in LduBusy, NEW g \in ldu_buf[i].grp
          PROVE  (Distance(g) <= Distance(wr_grp))'
      <3>1. ldu_buf[i].grp \in InGroup
        BY <2>3 DEF LduInv, LduBusy, LoadEntry, LoadFree
      <3>2. g \in Group
        BY <2>3, <3>1 DEF InGroup
      <3>3. Distance(g) <= Distance(wr_grp)
        BY <2>3, Zenon DEF NobodyLeftBehind
      <3>4. Advances => Distance(g) # 0
        BY <1>1, <2>3, NobodyIsInOldGroup
      <3> QED
        BY <1>2, <3>2, <3>3, <3>4
    <2> QED
      BY <1>3, <2>2, <2>3
  <1> QED
    BY <1>4, <1>5, Zenon DEF NobodyLeftBehind

\* The history at an edge, read off HistoryEdge.
LEMMA HistoryAfterStep ==
  ASSUME NEW loads, NEW bus, NEW resp, NEW wr_rdy, NEW rd_rdy, NEW ack,
         LduStep(loads, bus, resp, wr_rdy, rd_rdy, ack), HistoryEdge(loads, wr_rdy, rd_rdy),
         NEW i \in LduSlot, ldu_buf'[i].busy
  PROVE  /\ Placed(loads, i) =>
              /\ older'[i] \subseteq StuBusy
              /\ i \notin hit'
              /\ i \in Sent(rd_rdy) => i \in stray'
         /\ ~Placed(loads, i) =>
              /\ older'[i] = older[i] \ {m.buf : m \in Leaving(wr_rdy)}
              /\ i \in stray => i \in stray'
              /\ i \in hit' => i \in hit \/ \E m \in Leaving(wr_rdy) :
                                      m.buf \in older[i] /\ ldu_buf[i].addr = {m.addr}
  <1> DEFINE left == {m.buf : m \in Leaving(wr_rdy)}
             placed == loads # {} /\ ~ldu_full /\ i = ldu_disp_ptr
             overtaken == i \in LduBusy /\ \E m \in Leaving(wr_rdy) :
                            m.buf \in older[i] /\ ldu_buf[i].addr = {m.addr}
  <1>1. placed <=> Placed(loads, i)
    BY DEF LduStep, Placed
  <1>2. older'[i] = IF placed THEN StuBusy \ left
                    ELSE IF ldu_buf'[i].busy THEN older[i] \ left ELSE {}
    BY Zenon DEF HistoryEdge
  <1>3. i \in hit' <=> ~placed /\ ldu_buf'[i].busy /\ (i \in hit \/ overtaken)
    BY Zenon DEF HistoryEdge
  <1>4. i \in stray' <=> ldu_buf'[i].busy /\ IF placed THEN i \in Sent(rd_rdy) ELSE i \in stray
    BY Zenon DEF HistoryEdge, Sent
  <1> HIDE DEF left, placed
  <1>6. CASE placed
    <2>1. older'[i] = StuBusy \ left
      BY <1>2, <1>6
    <2> QED
      BY <1>1, <1>3, <1>4, <1>6, <2>1
  <1>7. CASE ~placed
    <2>1. older'[i] = older[i] \ left
      BY <1>2, <1>7
    <2> QED
      BY <1>1, <1>3, <1>4, <1>7, <2>1 DEF left
  <1> QED
    BY <1>6, <1>7

\* The dependency bits go on covering the older stores, only a speculative
\* load is in memory before they have left, and a word of theirs stays.
LEMMA HistoryStepInv ==
  ASSUME GrpTypeOK, LduInv, HistoryInv, StoreBeatsMemory,
         NEW loads, NEW bus, NEW resp, NEW wr_rdy, NEW rd_rdy, NEW ack,
         LduStep(loads, bus, resp, wr_rdy, rd_rdy, ack), HistoryEdge(loads, wr_rdy, rd_rdy)
  PROVE  HistoryInv' /\ StoreBeatsMemory'
  <1> DEFINE issued == Leaving(wr_rdy)
             left   == {m.buf : m \in issued}
             sent   == Sent(rd_rdy)
  <1>1. ASSUME NEW i \in LduBusy', Placed(loads, i)
        PROVE  /\ older'[i] \subseteq ldu_buf'[i].st_dep
               /\ i \notin stray' => ~ldu_buf'[i].commited
               /\ i \notin hit'
    <2>1. i \in LduSlot /\ ldu_buf'[i].busy
      BY <1>1 DEF LduBusy
    <2>2. /\ i \notin LduBusy /\ ldu_buf'[i].st_dep = StuBusy
          /\ ldu_buf'[i].commited => i \in sent
      BY <1>1, <2>1, LoadsAfterStep
    <2>3. /\ older'[i] \subseteq StuBusy /\ i \notin hit'
          /\ i \in sent => i \in stray'
      BY <1>1, <2>1, HistoryAfterStep, Zenon
    <2> QED
      BY <2>2, <2>3
  <1>2. ASSUME NEW i \in LduBusy', ~Placed(loads, i)
        PROVE  /\ older'[i] \subseteq ldu_buf'[i].st_dep
               /\ i \notin stray' /\ ldu_buf'[i].commited /\ ~ldu_buf'[i].st_spec => older'[i] = {}
               /\ i \in hit' => ldu_buf'[i].done /\ ldu_buf'[i].data = "store"
    <2> DEFINE e == ldu_buf[i]
               f == ldu_buf'[i]
    <2>1. i \in LduSlot /\ f.busy
      BY <1>2 DEF LduBusy
    <2>2. i \in LduBusy /\ Settled(i, e, f, issued, sent)
      BY <1>2, <2>1, LoadsAfterStep
    <2>3. /\ older'[i] = older[i] \ left
          /\ i \in stray => i \in stray'
          /\ i \in hit' => i \in hit \/ \E m \in issued : m.buf \in older[i] /\ e.addr = {m.addr}
      BY <1>2, <2>1, HistoryAfterStep, Zenon
    <2>4. older[i] \subseteq e.st_dep
      BY <2>2 DEF HistoryInv
    <2>5. i \notin stray /\ e.commited /\ ~e.st_spec => older[i] = {}
      BY <2>2 DEF HistoryInv
    <2>6. i \in hit => e.done /\ e.data = "store"
      BY <2>2 DEF StoreBeatsMemory
    <2> HIDE DEF e, f, issued, sent
    <2>7. /\ e.done => f.done
          /\ e.data = "store" => f.data = "store"
          /\ e.st_dep \ left \subseteq f.st_dep
          /\ \A m \in issued : m.buf \in e.st_dep /\ e.addr = {m.addr} => f.done /\ f.data = "store"
          /\ f.commited => e.commited \/ i \in sent
          /\ i \in sent /\ e.st_dep # {} => f.st_spec
          /\ e.st_spec /\ ~f.st_spec => \E m \in issued : e.st_dep = {m.buf}
      BY <2>2, Zenon DEF Settled
    <2>8. older'[i] \subseteq f.st_dep
      BY <2>3, <2>4, <2>7
    <2>9. ASSUME i \notin stray', f.commited, ~f.st_spec
          PROVE  older'[i] = {}
      <3>1. CASE i \in sent
        BY <2>3, <2>4, <2>7, <2>9, <3>1
      <3>2. CASE e.commited /\ ~e.st_spec
        BY <2>3, <2>5, <2>9, <3>2
      <3>3. CASE e.commited /\ e.st_spec
        <4>1. PICK m \in issued : e.st_dep = {m.buf}
          BY <2>7, <2>9, <3>3
        <4>2. m.buf \in left
          OBVIOUS
        <4> QED
          BY <2>3, <2>4, <4>1, <4>2
      <3> QED
        BY <2>7, <2>9, <3>1, <3>2, <3>3
    <2>10. i \in hit' => f.done /\ f.data = "store"
      BY <2>3, <2>4, <2>6, <2>7
    <2> QED
      BY <2>8, <2>9, <2>10 DEF f
  <1>3. \A i \in LduBusy' : older'[i] \subseteq ldu_buf'[i].st_dep
    BY <1>1, <1>2
  <1>4. \A i \in LduBusy' \ stray' :
          ldu_buf'[i].commited /\ ~ldu_buf'[i].st_spec => older'[i] = {}
    BY <1>1, <1>2
  <1>5. \A i \in hit' \cap LduBusy' : ldu_buf'[i].done /\ ldu_buf'[i].data = "store"
    BY <1>1, <1>2
  <1> QED
    BY <1>3, <1>4, <1>5 DEF HistoryInv, StoreBeatsMemory

\* Every step keeps the invariant.
LEMMA LsuStepInv ==
  ASSUME LsuInv, NEW loads, NEW stores, NEW fence, NEW bus, NEW resp,
         NEW wr_rdy, NEW rd_rdy, NEW ack,
         LsuStep(loads, stores, fence, bus, resp, wr_rdy, rd_rdy, ack)
  PROVE  LsuInv'
  <1>1. /\ GrpEdge(fence, stu_rd_grp_match(rd_grp), ldu_rd_grp_match(rd_grp))
        /\ StuStep(stores, bus, wr_rdy)
        /\ LduStep(loads, bus, resp, wr_rdy, rd_rdy, ack)
        /\ HistoryEdge(loads, wr_rdy, rd_rdy)
    BY StepParts, Zenon
  <1>2. /\ GrpTypeOK /\ MatrixTypeOK /\ StuInv /\ LduInv /\ NobodyLeftBehind
        /\ HistoryInv /\ StoreBeatsMemory
    BY DEF LsuInv
  <1>3. GrpTypeOK'
    BY <1>1, <1>2, GroupsAfterStep
  <1>4. MatrixTypeOK'
    BY <1>1, <1>2, MatrixStaysMatrix
  <1>5. StuInv'
    BY <1>1, <1>2, StuStepInv
  <1>6. LduInv'
    BY <1>1, <1>2, LduStepInv
  <1>7. NobodyLeftBehind'
    BY <1>2, NobodyFallsBehind
  <1>8. HistoryInv' /\ StoreBeatsMemory'
    BY <1>1, <1>2, HistoryStepInv
  <1> QED
    BY <1>3, <1>4, <1>5, <1>6, <1>7, <1>8 DEF LsuInv

\* What each alternative of the next-state relation asks of the inputs.
LEMMA NextIsStep ==
  ASSUME LsuNext
  PROVE  \E loads, stores, fence, bus, resp, wr_rdy, rd_rdy, ack :
           LsuStep(loads, stores, fence, bus, resp, wr_rdy, rd_rdy, ack)
  <1>1. ASSUME NEW loads \in AtMostOneOf(DispatchedLoad), loads # {} => ~ldu_full,
               NEW stores \in AtMostOneOf(DispatchedStore), stores # {} => ~stu_full,
               NEW fence, LsuInputs(loads, stores, fence)
        PROVE  \E bus, resp, wr_rdy, rd_rdy, ack :
                 LsuStep(loads, stores, fence, bus, resp, wr_rdy, rd_rdy, ack)
    <2>1. PICK bus, resp, wr_rdy, rd_rdy, ack :
            /\ bus \in {{}} \cup {{m} : m \in BusWords}
            /\ LsuEdge(loads, stores, fence, bus, resp, wr_rdy, rd_rdy, ack)
            /\ HistoryEdge(loads, wr_rdy, rd_rdy)
      BY <1>1, Zenon DEF LsuInputs
    <2> QED
      BY <1>1, <2>1, Zenon DEF LsuStep, AtMostOneOf
  <1>2. None \in AtMostOneOf(DispatchedLoad) /\ None \in AtMostOneOf(DispatchedStore)
    BY DEF None, AtMostOneOf
  <1>3. \A l \in DispatchedLoad : {l} \in AtMostOneOf(DispatchedLoad)
    BY DEF AtMostOneOf
  <1>4. \A s \in DispatchedStore : {s} \in AtMostOneOf(DispatchedStore)
    BY DEF AtMostOneOf
  <1>5. None = {}
    BY DEF None
  <1>6. CASE ~ldu_full /\ \E l \in DispatchedLoad : LsuInputs({l}, None, FALSE)
    <2>1. PICK l \in DispatchedLoad : LsuInputs({l}, None, FALSE)
      BY <1>6
    <2> QED
      BY <1>1, <1>2, <1>3, <1>5, <1>6, <2>1, Zenon
  <1>7. CASE ~stu_full /\ \E s \in DispatchedStore : LsuInputs(None, {s}, FALSE)
    <2>1. PICK s \in DispatchedStore : LsuInputs(None, {s}, FALSE)
      BY <1>7
    <2> QED
      BY <1>1, <1>2, <1>4, <1>5, <1>7, <2>1, Zenon
  <1>8. CASE \E fence : LsuInputs(None, None, fence)
    <2>1. PICK fence : LsuInputs(None, None, fence)
      BY <1>8
    <2> QED
      BY <1>1, <1>2, <1>5, <2>1, Zenon
  <1> QED
    BY <1>6, <1>7, <1>8, Zenon DEF LsuNext, LsuDispatch, LsuQuiet

LEMMA LsuInitInv == LsuInit => LsuInv
  <1> SUFFICES ASSUME LsuInit PROVE LsuInv
    OBVIOUS
  <1>1. /\ stb = [s \in StuSlot |-> [busy |-> FALSE, grp |-> {}]]
        /\ stu_wr_ptr = 0 /\ stu_rd_ptr = 0 /\ rd_grp = 0 /\ wr_grp = 0
        /\ ldu_buf = [i \in LduSlot |-> Idle] /\ MatrixInit
        /\ older = [i \in LduSlot |-> {}] /\ hit = {} /\ stray = {}
    BY DEF LsuInit, UnitInit, GrpInit, StuInit, LduInit
  <1>2. StuBusy = {} /\ LduBusy = {}
    BY <1>1 DEF StuBusy, LduBusy, Idle
  <1>3. GrpTypeOK
    BY <1>1, GroupCountAssumption DEF GrpTypeOK, Group
  <1>4. MatrixTypeOK
    BY <1>1, MatrixInitInv DEF MatrixInv
  <1>5. StuInv
    <2>1. stu_wr_ptr \in StuSlot /\ stu_rd_ptr \in StuSlot
      BY <1>1, LsuSizeAssumption DEF StuSlot
    <2>2. \A s \in StuSlot : stb[s] \in StoreFree
      BY <1>1 DEF StoreFree
    <2>3. 0 \in 0 .. STU_SIZE /\ 0 .. 0 - 1 = {}
      BY LsuSizeAssumption
    <2>4. At(0) = 0
      BY <1>1, <2>1, RingArithmetic
    <2>5. Ring(0)
      BY <1>1, <1>2, <2>3, <2>4 DEF Ring
    <2> QED
      BY <1>2, <2>1, <2>2, <2>3, <2>5 DEF StuInv
  <1>6. LduInv
    <2>1. Idle \in LoadFree
      BY DEF Idle, LoadFree
    <2> QED
      BY <1>1, <1>2, <2>1 DEF LduInv
  <1>7. NobodyLeftBehind /\ HistoryInv /\ StoreBeatsMemory
    BY <1>2 DEF NobodyLeftBehind, HistoryInv, StoreBeatsMemory
  <1> QED
    BY <1>3, <1>4, <1>5, <1>6, <1>7 DEF LsuInv

LEMMA LsuInvHolds == LsuSpec => []LsuInv
  <1>1. LsuInv /\ [LsuNext]_lsuVars => LsuInv'
    <2>1. ASSUME LsuInv, LsuNext PROVE LsuInv'
      BY <2>1, NextIsStep, LsuStepInv
    <2>2. ASSUME LsuInv, UNCHANGED lsuVars PROVE LsuInv'
      <3>1. /\ UNCHANGED <<stb, stu_wr_ptr, stu_rd_ptr, rd_grp, wr_grp, ldu_buf>>
            /\ UNCHANGED <<age_matrix, wr_col, older, hit, stray>>
        BY <2>2 DEF lsuVars, unitVars, history, lduVars, stuVars, grpVars, matrixVars
      <3>2. GrpTypeOK' /\ MatrixTypeOK'
        BY <2>2, <3>1 DEF LsuInv, GrpTypeOK, MatrixTypeOK
      <3>3. StuInv'
        <4>1. \A n \in 0 .. STU_SIZE : Ring(n) => Ring(n)'
          BY <3>1 DEF Ring, At, StuBusy, Distance
        <4> QED
          BY <2>2, <3>1, <4>1 DEF LsuInv, StuInv, StuBusy, OneAddress
      <3>4. LduInv' /\ HistoryInv' /\ StoreBeatsMemory'
        BY <2>2, <3>1 DEF LsuInv, LduInv, HistoryInv, StoreBeatsMemory, LduBusy, OneAddress
      <3>5. NobodyLeftBehind'
        BY <2>2, <3>1 DEF LsuInv, NobodyLeftBehind, LduBusy, StuBusy, Distance
      <3> QED
        BY <3>2, <3>3, <3>4, <3>5 DEF LsuInv
    <2> QED
      BY <2>1, <2>2
  <1> QED
    BY <1>1, LsuInitInv, PTL DEF LsuSpec

(***************************************************************************)
(* Types of the unit: an entry never has two addresses, nor an address and *)
(* a tag to wait for, and a load has a word exactly when it is done.       *)
(***************************************************************************)
THEOREM LsuTypeCorrect == LsuSpec => []LsuTypeOK
  <1>1. ASSUME LsuInv PROVE LsuTypeOK
    <2>1. ASSUME NEW e, OneAddress(e)
          PROVE  AtMost1(e.addr \cup e.ta)
      <3>1. e.addr \cup e.ta = {} \/ \E x : e.addr \cup e.ta = {x}
        BY <2>1 DEF OneAddress
      <3>2. Cardinality({}) = 0 /\ \A x : Cardinality({x}) = 1
        BY FS_EmptySet, FS_Singleton
      <3> QED
        BY <3>1, <3>2 DEF AtMost1
    <2>2. ASSUME NEW s \in StuBusy
          PROVE  /\ stb[s].addr \in SUBSET Addr /\ AtMost1(stb[s].addr \cup stb[s].ta)
                 /\ stb[s].td \subseteq DataTag
      <3>1. stb[s] \in StoreEntry /\ OneAddress(stb[s])
        BY <1>1, <2>2 DEF LsuInv, StuInv, StuBusy, StoreFree
      <3> QED
        BY <2>1, <3>1 DEF StoreEntry
    <2>3. ASSUME NEW i \in LduBusy
          PROVE  /\ ldu_buf[i].addr \in SUBSET Addr /\ AtMost1(ldu_buf[i].addr \cup ldu_buf[i].ta)
                 /\ ldu_buf[i].st_dep \subseteq StuSlot
                 /\ ldu_buf[i].done <=> ldu_buf[i].data # "none"
      <3>1. /\ ldu_buf[i] \in LoadEntry /\ OneAddress(ldu_buf[i])
            /\ ldu_buf[i].done <=> ldu_buf[i].data # "none"
        BY <1>1, <2>3 DEF LsuInv, LduInv, LduBusy, LoadFree
      <3> QED
        BY <2>1, <3>1 DEF LoadEntry
    <2> QED
      BY <1>1, <2>2, <2>3 DEF LsuTypeOK, LsuInv, StuInv
  <1> QED
    BY <1>1, LsuInvHolds, PTL

(***************************************************************************)
(* Stores wait between the two pointers, in program order, and their       *)
(* groups come in the order of the fences though the numbers wrap          *)
(* (stu.vhd, grp.vhd): the head is the oldest store.                       *)
(***************************************************************************)
THEOREM StoresAreInOrder == LsuSpec => []StoreRing
  <1>1. ASSUME LsuInv PROVE StoreRing
    <2>1. PICK n \in 0 .. STU_SIZE : Ring(n)
      BY <1>1 DEF LsuInv, StuInv
    <2>2. Cardinality(StuBusy) = n
      BY <1>1, <2>1, RingCounts DEF LsuInv, StuInv
    <2> QED
      BY <2>1, <2>2 DEF StoreRing, Ring, At
  <1> QED
    BY <1>1, LsuInvHolds, PTL

\* The read group never passes a load or store that waits in it (grp.vhd:59).
THEOREM NoGroupIsPassed == LsuSpec => []NobodyLeftBehind
  <1>1. LsuInv => NobodyLeftBehind
    BY DEF LsuInv
  <1> QED
    BY <1>1, LsuInvHolds, PTL

(***************************************************************************)
(* A load that memory was asked for offers its result only when no store   *)
(* from before it is left (ldu.vhd:6), whichever load the request was      *)
(* meant for and in whatever order the memory takes and answers requests.  *)
(* The one exception is a load dispatched at the edge of a request for its *)
(* entry; a load that a store serves before memory is asked is not spoken  *)
(* of, it does not wait.                                                   *)
(***************************************************************************)
THEOREM LoadsWaitForStores == LsuSpec => []WaitsForOlderStores
  <1>1. LsuInv => WaitsForOlderStores
    BY DEF LsuInv, HistoryInv, WaitsForOlderStores, retire_flags
  <1> QED
    BY <1>1, LsuInvHolds, PTL

\* When a store from before a load leaves to the load's address, known by then,
\* the load takes its word and keeps it whatever memory answers (ldu.vhd:229-247),
\* also when the request went to another load than the one that was ready.
THEOREM StoreWordIsKept == LsuSpec => []StoreBeatsMemory
  <1>1. LsuInv => StoreBeatsMemory
    BY DEF LsuInv
  <1> QED
    BY <1>1, LsuInvHolds, PTL

=============================================================================
