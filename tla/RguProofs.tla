----------------------------- MODULE RguProofs -----------------------------
(***************************************************************************)
(* The ring of the re-order buffer keeps its shape and register renaming   *)
(* is right for every buffer size, register count and set of data words.   *)
(* The inductive invariant of the unit is the ring's own (slots are        *)
(* reused, so "youngest" means nothing unless the busy slots form one      *)
(* window) together with SrcIsYoungestWriter itself.                       *)
(***************************************************************************)
EXTENDS Rgu, SequenceTheorems, FiniteSetTheorems, TLAPS

RobInv == RobTypeOK /\ RingWindow

\* A broadcast is nothing, or a word for an instruction in flight.
LEMMA BroadcastShape ==
  ASSUME NEW wb \in Broadcast
  PROVE  /\ wb.valid \in BOOLEAN
         /\ wb.valid => wb.addr \in Unfinished /\ wb.result \in Val
  <1>1. CASE wb = NoResult
    <2>1. wb.valid = FALSE
      BY <1>1 DEF NoResult
    <2> QED
      BY <2>1
  <1>2. CASE wb \in ResultFor(Unfinished)
    <2>1. wb.valid = TRUE /\ wb.addr \in Unfinished /\ wb.result \in Val
      BY <1>2 DEF ResultFor
    <2> QED
      BY <2>1
  <1> QED
    BY <1>1, <1>2 DEF Broadcast

\* Inc stays inside the ring.
LEMMA IncInRing == \A p \in Slot : Inc(p) \in Slot
  BY SizeAssumption DEF Slot, Inc

\* The initial ring is well typed and empty.
LEMMA RobInitInv == RobInit => RobInv
  <1> SUFFICES ASSUME RobInit PROVE RobInv
    OBVIOUS
  <1>1. 0 \in Slot
    BY SizeAssumption DEF Slot
  <1>2. RobTypeOK
    BY <1>1 DEF RobInit, RobTypeOK
  <1>3. ~full
    BY <1>1 DEF RobInit, full
  <1>4. \A i \in Slot : Age(i) >= 0 /\ Age(wr_ptr) = 0
    BY SizeAssumption DEF RobInit, Age, Slot
  <1>5. \A i \in Slot : ~rob_busy[i] /\ ~(Age(i) < Age(wr_ptr))
    BY <1>4, SizeAssumption DEF RobInit, Age, Slot
  <1> QED
    BY <1>2, <1>3, <1>5 DEF RobInv, RingWindow

\* An edge assigns every field a value of its type.
LEMMA RobEdgeType ==
  ASSUME RobTypeOK, NEW disp \in BOOLEAN, NEW rd \in Reg, NEW wb \in Broadcast,
         RobEdge(disp, rd, wb)
  PROVE  RobTypeOK'
  <1>1. /\ rob_rd' \in [Slot -> Reg]
        /\ rob_valid' \in [Slot -> BOOLEAN]
        /\ rob_busy' \in [Slot -> BOOLEAN]
    BY BroadcastShape DEF RobTypeOK, RobEdge, full
  <1>2. rob_result' \in [Slot -> Val]
    BY BroadcastShape DEF RobTypeOK, RobEdge, Unfinished
  <1>3. wr_ptr' \in Slot /\ rd_ptr' \in Slot
    BY IncInRing DEF RobTypeOK, RobEdge
  <1> QED
    BY <1>1, <1>2, <1>3 DEF RobTypeOK

-----------------------------------------------------------------------------
\* Ages number the slots from 0 to ROB_SIZE - 1, starting at rd_ptr.
LEMMA AgeRange ==
  ASSUME rd_ptr \in Slot
  PROVE  /\ \A i \in Slot : Age(i) \in Slot
         /\ \A i, j \in Slot : Age(i) = Age(j) => i = j
         /\ Age(rd_ptr) = 0
  BY SizeAssumption DEF Slot, Age

\* The next slot round the ring is one older than this one.
LEMMA AgeOfNext ==
  ASSUME rd_ptr \in Slot, NEW p \in Slot
  PROVE  Age(Inc(p)) = IF Age(p) = ROB_SIZE - 1 THEN 0 ELSE Age(p) + 1
  BY SizeAssumption DEF Slot, Age, Inc

\* When the oldest slot retires every other slot grows one place older and
\* the freed slot becomes the youngest.
LEMMA AgeAfterCommit ==
  ASSUME rd_ptr \in Slot, rd_ptr' = Inc(rd_ptr), NEW i \in Slot
  PROVE  Age(i)' = IF i = rd_ptr THEN ROB_SIZE - 1 ELSE Age(i) - 1
  BY SizeAssumption DEF Slot, Age, Inc

\* Without a retirement no slot changes its age.
LEMMA AgeUnchanged ==
  ASSUME rd_ptr' = rd_ptr, NEW i
  PROVE  Age(i)' = Age(i)
  BY DEF Age

-----------------------------------------------------------------------------
\* Dispatch, commit, both or neither: at an edge the window of busy slots
\* grows at wr_ptr and shrinks at rd_ptr.
LEMMA RobEdgeWindow ==
  ASSUME RobInv, RobTypeOK', NEW disp \in BOOLEAN, NEW rd \in Reg,
         NEW wb \in Broadcast, RobEdge(disp, rd, wb)
  PROVE  RingWindow'
  <1> DEFINE alloc == disp /\ ~full
  <1>1. /\ rd_ptr \in Slot /\ wr_ptr \in Slot
        /\ rd_ptr' \in Slot /\ wr_ptr' \in Slot
        /\ rob_busy \in [Slot -> BOOLEAN]
    BY DEF RobInv, RobTypeOK
  <1>2. \A i \in Slot : rob_busy'[i] <=> /\ ~(commit /\ i = rd_ptr)
                                         /\ rob_busy[i] \/ (alloc /\ i = wr_ptr)
    BY <1>1 DEF RobEdge
  <1>3. /\ wr_ptr' = IF alloc THEN Inc(wr_ptr) ELSE wr_ptr
        /\ rd_ptr' = IF commit THEN Inc(rd_ptr) ELSE rd_ptr
    BY DEF RobEdge
  <1>4. commit => rob_busy[rd_ptr]
    BY DEF commit
  <1>5. ~full => \A i \in Slot : rob_busy[i] <=> Age(i) < Age(wr_ptr)
    BY DEF RobInv, RingWindow
  <1>6. full => wr_ptr = rd_ptr
    BY DEF RobInv, RingWindow
  <1>7. \A i \in Slot : Age(i) \in Slot
    BY <1>1, AgeRange
  <1>8. \A i, j \in Slot : Age(i) = Age(j) => i = j
    BY <1>1, AgeRange
  <1>9. Age(rd_ptr) = 0
    BY <1>1, AgeRange
  <1>10. CASE ~alloc /\ ~commit
    <2>1. \A i \in Slot : (rob_busy'[i] <=> rob_busy[i]) /\ Age(i)' = Age(i)
      BY <1>2, <1>3, <1>10, AgeUnchanged
    <2>2. Age(wr_ptr)' = Age(wr_ptr)
      BY <1>3, <1>10 DEF Age
    <2>3. full' <=> full
      BY <2>1 DEF full
    <2> QED
      BY <2>1, <2>2, <2>3, <1>3, <1>5, <1>6, <1>10 DEF RingWindow
  <1>11. CASE alloc /\ ~commit
    <2>1. Age(wr_ptr)' = IF Age(wr_ptr) = ROB_SIZE - 1 THEN 0 ELSE Age(wr_ptr) + 1
      <3>1. Age(wr_ptr)' = Age(Inc(wr_ptr))
        BY <1>3, <1>11 DEF Age
      <3> QED
        BY <3>1, <1>1, AgeOfNext
    <2>2. \A i \in Slot : rob_busy'[i] <=> Age(i) <= Age(wr_ptr)
      <3> SUFFICES ASSUME NEW i \in Slot
                   PROVE  rob_busy'[i] <=> Age(i) <= Age(wr_ptr)
        OBVIOUS
      <3>1. rob_busy'[i] <=> rob_busy[i] \/ i = wr_ptr
        BY <1>2, <1>11
      <3>2. rob_busy[i] <=> Age(i) < Age(wr_ptr)
        BY <1>5, <1>11
      <3>3. Age(i) = Age(wr_ptr) <=> i = wr_ptr
        BY <1>1, <1>8
      <3>4. Age(i) \in Int /\ Age(wr_ptr) \in Int
        BY <1>1, <1>7 DEF Slot
      <3> QED
        BY <3>1, <3>2, <3>3, <3>4
    <2>3. \A i \in Slot : Age(i)' = Age(i)
      BY <1>3, <1>11, AgeUnchanged
    <2>4. CASE Age(wr_ptr) = ROB_SIZE - 1
      <3>1. full'
        BY <2>2, <2>4, <1>7, SizeAssumption DEF full, Slot
      <3>2. wr_ptr' = rd_ptr'
        BY <2>1, <2>3, <2>4, <1>1, <1>3, <1>8, <1>9, <1>11, IncInRing, AgeUnchanged DEF Age
      <3> QED
        BY <3>1, <3>2 DEF RingWindow
    <2>5. CASE Age(wr_ptr) # ROB_SIZE - 1
      <3>1. \A i \in Slot : rob_busy'[i] <=> Age(i)' < Age(wr_ptr)'
        <4> SUFFICES ASSUME NEW i \in Slot
                     PROVE  rob_busy'[i] <=> Age(i)' < Age(wr_ptr)'
          OBVIOUS
        <4>1. Age(i) \in Int /\ Age(wr_ptr) \in Int
          BY <1>1, <1>7 DEF Slot
        <4>2. Age(i)' = Age(i) /\ Age(wr_ptr)' = Age(wr_ptr) + 1
          BY <2>1, <2>3, <2>5
        <4>3. rob_busy'[i] <=> Age(i) <= Age(wr_ptr)
          BY <2>2
        <4> QED
          BY <4>1, <4>2, <4>3
      <3>2. ~full'
        BY <3>1, <1>1, <1>7, <2>1, <2>5 DEF full, Slot, Age
      <3> QED
        BY <3>1, <3>2 DEF RingWindow
    <2> QED
      BY <2>4, <2>5
  <1>12. CASE commit
    <2>1. ~full'
      BY <1>1, <1>2, <1>12 DEF full
    <2>2. \A i \in Slot : Age(i)' = IF i = rd_ptr THEN ROB_SIZE - 1 ELSE Age(i) - 1
      BY <1>1, <1>3, <1>12, AgeAfterCommit
    <2>3. CASE ~alloc
      <3>1. Age(wr_ptr)' = IF wr_ptr = rd_ptr THEN ROB_SIZE - 1 ELSE Age(wr_ptr) - 1
        BY <1>1, <1>3, <2>2, <2>3 DEF Age
      <3>2. CASE full
        <4>1. \A i \in Slot : rob_busy'[i] <=> i # rd_ptr
          BY <1>2, <1>12, <2>3, <3>2 DEF full
        <4>2. \A i \in Slot : i # rd_ptr <=> Age(i)' < Age(wr_ptr)'
          <5> SUFFICES ASSUME NEW i \in Slot
                       PROVE  i # rd_ptr <=> Age(i)' < Age(wr_ptr)'
            OBVIOUS
          <5>1. Age(i) \in 0 .. ROB_SIZE - 1
            BY <1>7 DEF Slot
          <5>2. Age(wr_ptr)' = ROB_SIZE - 1
            BY <3>1, <3>2, <1>6
          <5>3. Age(i)' = IF i = rd_ptr THEN ROB_SIZE - 1 ELSE Age(i) - 1
            BY <2>2
          <5> QED
            BY <5>1, <5>2, <5>3, SizeAssumption
        <4> QED
          BY <4>1, <4>2, <2>1 DEF RingWindow
      <3>3. CASE ~full
        <4>1. wr_ptr # rd_ptr
          BY <1>1, <1>4, <1>5, <1>12, <3>3, <1>9
        <4>2. \A i \in Slot : rob_busy'[i] <=> Age(i)' < Age(wr_ptr)'
          <5> SUFFICES ASSUME NEW i \in Slot
                       PROVE  rob_busy'[i] <=> Age(i)' < Age(wr_ptr)'
            OBVIOUS
          <5>1. Age(i) \in 0 .. ROB_SIZE - 1 /\ Age(wr_ptr) \in 0 .. ROB_SIZE - 1
            BY <1>1, <1>7 DEF Slot
          <5>2. Age(wr_ptr)' = Age(wr_ptr) - 1
            BY <3>1, <4>1
          <5>3. Age(i)' = IF i = rd_ptr THEN ROB_SIZE - 1 ELSE Age(i) - 1
            BY <2>2
          <5>4. rob_busy'[i] <=> i # rd_ptr /\ Age(i) < Age(wr_ptr)
            BY <1>2, <1>5, <1>12, <2>3, <3>3
          <5> QED
            BY <5>1, <5>2, <5>3, <5>4, SizeAssumption
        <4> QED
          BY <4>2, <2>1 DEF RingWindow
      <3> QED
        BY <3>2, <3>3
    <2>4. CASE alloc
      <3>1. wr_ptr # rd_ptr
        BY <1>1, <1>4, <1>5, <1>12, <2>4, <1>9
      <3>2. Age(wr_ptr)' = Age(wr_ptr)
        <4>1. Age(Inc(wr_ptr)) = IF Age(wr_ptr) = ROB_SIZE - 1 THEN 0 ELSE Age(wr_ptr) + 1
          BY <1>1, AgeOfNext
        <4>2. wr_ptr' = Inc(wr_ptr) /\ rd_ptr' = Inc(rd_ptr)
          BY <1>3, <1>12, <2>4
        <4> QED
          BY <4>2, <3>1, <1>1, SizeAssumption DEF Age, Inc, Slot
      <3>3. \A i \in Slot : rob_busy'[i] <=> Age(i)' < Age(wr_ptr)'
        <4> SUFFICES ASSUME NEW i \in Slot
                     PROVE  rob_busy'[i] <=> Age(i)' < Age(wr_ptr)'
          OBVIOUS
        <4>1. Age(i) \in 0 .. ROB_SIZE - 1 /\ Age(wr_ptr) \in 0 .. ROB_SIZE - 1
          BY <1>1, <1>7 DEF Slot
        <4>2. Age(i)' = IF i = rd_ptr THEN ROB_SIZE - 1 ELSE Age(i) - 1
          BY <2>2
        <4>3. rob_busy[i] <=> Age(i) < Age(wr_ptr)
          BY <1>5, <2>4
        <4>4. rob_busy'[i] <=> i # rd_ptr /\ (rob_busy[i] \/ i = wr_ptr)
          BY <1>2, <1>12, <2>4
        <4>5. Age(i) = Age(wr_ptr) <=> i = wr_ptr
          BY <1>1, <1>8
        <4> QED
          BY <3>2, <4>1, <4>2, <4>3, <4>4, <4>5, SizeAssumption
      <3> QED
        BY <3>3, <2>1 DEF RingWindow
    <2> QED
      BY <2>3, <2>4
  <1> QED
    BY <1>10, <1>11, <1>12

-----------------------------------------------------------------------------
\* A flush leaves an empty ring whose pointers meet.
LEMMA RobFlushInv ==
  ASSUME RobInv, RobFlush
  PROVE  RobInv'
  <1>1. 0 \in Slot
    BY SizeAssumption DEF Slot
  <1>2. RobTypeOK'
    BY <1>1 DEF RobInv, RobFlush, RobTypeOK
  <1>3. ~full'
    BY <1>1 DEF RobFlush, full
  <1>4. \A i \in Slot : ~rob_busy'[i] /\ ~(Age(i)' < Age(wr_ptr)')
    BY SizeAssumption DEF RobFlush, Age, Slot
  <1> QED
    BY <1>2, <1>3, <1>4 DEF RobInv, RingWindow

\* An edge keeps the invariant.
LEMMA RobEdgeInv ==
  ASSUME RobInv, NEW disp \in BOOLEAN, NEW rd \in Reg, NEW wb \in Broadcast,
         RobEdge(disp, rd, wb)
  PROVE  RobInv'
  <1>1. RobTypeOK'
    BY RobEdgeType DEF RobInv
  <1>2. RingWindow'
    BY <1>1, RobEdgeWindow
  <1> QED
    BY <1>1, <1>2 DEF RobInv

(***************************************************************************)
(* For every size of the buffer, the busy slots are those between the two  *)
(* pointers, and every field keeps its type (rob.vhd, p_rob_buf).          *)
(***************************************************************************)
THEOREM RingWindowHolds == RobSpec => [](RobTypeOK /\ RingWindow)
  <1>1. RobInit => RobInv
    BY RobInitInv
  <1>2. RobInv /\ [RobNext]_robVars => RobInv'
    <2> SUFFICES ASSUME RobInv, [RobNext]_robVars
                 PROVE  RobInv'
      OBVIOUS
    <2>1. CASE RobFlush
      BY <2>1, RobFlushInv
    <2>2. CASE \E disp \in BOOLEAN, rd \in Reg, wb \in Broadcast : RobEdge(disp, rd, wb)
      BY <2>2, RobEdgeInv
    <2>3. CASE UNCHANGED robVars
      BY <2>3 DEF RobInv, RobTypeOK, RingWindow, full, Age, robVars
    <2> QED
      BY <2>1, <2>2, <2>3 DEF RobNext
  <1> QED
    BY <1>1, <1>2, PTL DEF RobSpec, RobInv

-----------------------------------------------------------------------------
\* Position k of the ring, without the remainder.
NthIsSum ==
  \A k \in 1 .. ROB_SIZE :
    Nth(k) = IF rd_ptr + k - 1 < ROB_SIZE THEN rd_ptr + k - 1
             ELSE rd_ptr + k - 1 - ROB_SIZE

LEMMA NthWraps == rd_ptr \in Slot => NthIsSum
  <1> SUFFICES ASSUME rd_ptr \in Slot, NEW k \in 1 .. ROB_SIZE
               PROVE  Nth(k) = IF rd_ptr + k - 1 < ROB_SIZE THEN rd_ptr + k - 1
                               ELSE rd_ptr + k - 1 - ROB_SIZE
    BY DEF NthIsSum
  <1>1. PICK x \in 0 .. 2 * ROB_SIZE - 1 : x = rd_ptr + k - 1
    BY SizeAssumption DEF Slot
  <1>2. Nth(k) = x % ROB_SIZE
    BY <1>1 DEF Nth
  <1>3. x < ROB_SIZE => x % ROB_SIZE = x
    BY SizeAssumption
  <1>4. ~(x < ROB_SIZE) => x % ROB_SIZE = x - ROB_SIZE
    BY SizeAssumption
  <1> QED
    BY <1>1, <1>2, <1>3, <1>4, SizeAssumption DEF Slot

\* Once the oldest slot has left, every position is one further.
LEMMA NthAfterCommit ==
  ASSUME rd_ptr \in Slot, rd_ptr' = Inc(rd_ptr), NEW k \in 1 .. ROB_SIZE - 1
  PROVE  Nth(k)' = Nth(k + 1)
  <1>1. rd_ptr' \in Slot
    BY IncInRing
  <1>2. k \in 1 .. ROB_SIZE /\ k + 1 \in 1 .. ROB_SIZE
    BY SizeAssumption
  <1>3. Nth(k)' = IF rd_ptr' + k - 1 < ROB_SIZE THEN rd_ptr' + k - 1
                  ELSE rd_ptr' + k - 1 - ROB_SIZE
    <2>1. (rd_ptr \in Slot => NthIsSum)'
      BY NthWraps, PTL
    <2> QED
      BY <1>1, <1>2, <2>1 DEF NthIsSum
  <1>4. Nth(k + 1) = IF rd_ptr + (k + 1) - 1 < ROB_SIZE THEN rd_ptr + (k + 1) - 1
                     ELSE rd_ptr + (k + 1) - 1 - ROB_SIZE
    BY <1>2, NthWraps DEF NthIsSum
  <1> QED
    BY <1>3, <1>4, SizeAssumption DEF Slot, Inc

\* The ring as a sequence: position k is the slot whose age is k - 1.
LEMMA NthIsByAge ==
  ASSUME rd_ptr \in Slot
  PROVE  /\ \A k \in 1 .. ROB_SIZE : Nth(k) \in Slot /\ Age(Nth(k)) = k - 1
         /\ \A i \in Slot : Age(i) + 1 \in 1 .. ROB_SIZE /\ Nth(Age(i) + 1) = i
  <1>1. \A k \in 1 .. ROB_SIZE :
          Nth(k) = IF rd_ptr + k - 1 < ROB_SIZE THEN rd_ptr + k - 1
                   ELSE rd_ptr + k - 1 - ROB_SIZE
    BY NthWraps DEF NthIsSum
  <1>2. \A k \in 1 .. ROB_SIZE : Nth(k) \in Slot /\ Age(Nth(k)) = k - 1
    BY <1>1, SizeAssumption DEF Slot, Age
  <1>3. \A i \in Slot : Age(i) + 1 \in 1 .. ROB_SIZE
    BY SizeAssumption DEF Slot, Age
  <1>4. \A i \in Slot : Nth(Age(i) + 1) = i
    BY <1>2, <1>3, AgeRange DEF Slot
  <1> QED
    BY <1>2, <1>3, <1>4

\* How many instructions are in flight.
Allocated == {i \in Slot : rob_busy[i]}
Number    == IF full THEN ROB_SIZE ELSE Age(wr_ptr)

\* The busy slots are the first Number ones, and Number counts them.
LEMMA NumberCounts ==
  ASSUME RobInv
  PROVE  /\ Number \in 0 .. ROB_SIZE
         /\ Allocated = {i \in Slot : Age(i) < Number}
         /\ IsFiniteSet(Allocated) /\ Cardinality(Allocated) = Number
         /\ ~full => Number < ROB_SIZE /\ Nth(Number + 1) = wr_ptr
  <1>1. rd_ptr \in Slot /\ wr_ptr \in Slot
    BY DEF RobInv, RobTypeOK
  <1>2. \A i \in Slot : Age(i) \in Slot
    BY <1>1, AgeRange
  <1>3. Number \in 0 .. ROB_SIZE
    BY <1>1, <1>2, SizeAssumption DEF Number, Slot
  <1>4. Allocated = {i \in Slot : Age(i) < Number}
    <2>1. CASE full
      <3>1. Number = ROB_SIZE /\ Allocated = Slot
        BY <2>1 DEF full, Allocated, Number
      <3>2. \A i \in Slot : Age(i) < ROB_SIZE
        BY <1>2, SizeAssumption DEF Slot
      <3> QED
        BY <3>1, <3>2
    <2>2. CASE ~full
      BY <2>2 DEF RobInv, RingWindow, Allocated, Number
    <2> QED
      BY <2>1, <2>2
  <1>5. ~full => Number < ROB_SIZE /\ Nth(Number + 1) = wr_ptr
    <2>1. Age(wr_ptr) < ROB_SIZE
      BY <1>1, <1>2, SizeAssumption DEF Slot
    <2>2. Nth(Age(wr_ptr) + 1) = wr_ptr
      BY <1>1, NthIsByAge
    <2> QED
      BY <2>1, <2>2 DEF Number
  <1> DEFINE positions == 1 .. Number
             at        == [k \in positions |-> Nth(k)]
  <1>6. \A k \in positions : k \in 1 .. ROB_SIZE /\ at[k] = Nth(k)
    BY <1>3, SizeAssumption
  <1> HIDE DEF at
  <1>7. at \in [positions -> Allocated]
    <2>1. \A k \in positions : Nth(k) \in Slot /\ Age(Nth(k)) < Number
      BY <1>1, <1>3, <1>6, NthIsByAge
    <2> QED
      BY <1>4, <2>1 DEF at
  <1>8. \A k, l \in positions : at[k] = at[l] => k = l
    <2> SUFFICES ASSUME NEW k \in positions, NEW l \in positions, at[k] = at[l] PROVE k = l
      OBVIOUS
    <2>1. k - 1 = l - 1
      BY <1>1, <1>6, NthIsByAge
    <2> QED
      BY <2>1
  <1>9. \A i \in Allocated : \E k \in positions : at[k] = i
    <2> SUFFICES ASSUME NEW i \in Slot, Age(i) < Number
                 PROVE  \E k \in positions : at[k] = i
      BY <1>4
    <2>1. Age(i) + 1 \in positions
      BY <1>2, <1>3 DEF Slot
    <2>2. at[Age(i) + 1] = i
      BY <1>1, <1>6, <2>1, NthIsByAge
    <2> QED
      BY <2>1, <2>2
  <1>10. ExistsBijection(positions, Allocated)
    <2>1. at \in Bijection(positions, Allocated)
      BY <1>7, <1>8, <1>9 DEF Bijection, Injection, Surjection, IsInjective
    <2> QED
      BY <2>1 DEF ExistsBijection
  <1>11. IsFiniteSet(positions) /\ Cardinality(positions) = Number
    BY <1>3, FS_Interval
  <1>12. IsFiniteSet(Allocated) /\ Cardinality(Allocated) = Number
    <2> HIDE DEF positions
    <2> QED
      BY <1>10, <1>11, FS_Bijection
  <1> QED
    BY <1>3, <1>4, <1>5, <1>12

\* A slot as an entry of the queue.
QueueEntry(i) == [rd     |-> rob_rd[i],
                  result |-> IF rob_valid[i] THEN {rob_result[i]} ELSE {}]

\* The queue: its length and its elements.
QueueShape ==
  /\ Number \in 0 .. ROB_SIZE
  /\ IsFiniteSet(Allocated) /\ Cardinality(Allocated) = Number
  /\ InFlight \in Seq([rd : Reg, result : SUBSET Val])
  /\ Len(InFlight) = Number
  /\ \A k \in 1 .. Number : InFlight[k] = QueueEntry(Nth(k))
  /\ \A k \in 1 .. ROB_SIZE : Nth(k) \in Slot
  /\ \A k, l \in 1 .. ROB_SIZE : Nth(k) = Nth(l) => k = l

LEMMA InFlightIsQueue == RobInv => QueueShape
  <1> SUFFICES ASSUME RobInv PROVE QueueShape
    OBVIOUS
  <1>1. /\ Number \in 0 .. ROB_SIZE
        /\ IsFiniteSet(Allocated) /\ Cardinality(Allocated) = Number
    BY NumberCounts
  <1>2. rd_ptr \in Slot
    BY DEF RobInv, RobTypeOK
  <1>3. \A k \in 1 .. ROB_SIZE : Nth(k) \in Slot /\ Age(Nth(k)) = k - 1
    BY <1>2, NthIsByAge
  <1>4. \A k, l \in 1 .. ROB_SIZE : Nth(k) = Nth(l) => k = l
    <2> SUFFICES ASSUME NEW k \in 1 .. ROB_SIZE, NEW l \in 1 .. ROB_SIZE, Nth(k) = Nth(l)
                 PROVE  k = l
      OBVIOUS
    <2>1. k - 1 = l - 1
      BY <1>3
    <2> QED
      BY <2>1, SizeAssumption
  <1>5. InFlight = [k \in 1 .. Number |-> QueueEntry(Nth(k))]
    BY <1>1 DEF InFlight, QueueEntry, Allocated
  <1>6. \A k \in 1 .. Number : k \in 1 .. ROB_SIZE
    BY <1>1, SizeAssumption
  <1>7. \A i \in Slot : QueueEntry(i) \in [rd : Reg, result : SUBSET Val]
    BY DEF QueueEntry, RobInv, RobTypeOK
  <1>8. \A k \in 1 .. Number : QueueEntry(Nth(k)) \in [rd : Reg, result : SUBSET Val]
    BY <1>3, <1>6, <1>7
  <1> HIDE DEF QueueShape
  <1> QED
    BY <1>1, <1>3, <1>4, <1>5, <1>8 DEF QueueShape
----------------------------------------------------------------------------
RguInv == RobInv /\ RguTypeOK /\ SrcIsYoungestWriter

\* A step of the unit, spelled out: what is assumed of the inputs.
RguStep(disp, rd, wb) ==
  /\ disp \in BOOLEAN /\ rd \in Reg /\ wb \in Broadcast
  /\ disp => ~full
  /\ RguEdge(disp, rd, wb)

LEMMA RguInitInv == RguInit => RguInv
  <1> SUFFICES ASSUME RguInit PROVE RguInv
    OBVIOUS
  <1>1. RobInv
    BY RobInitInv DEF RguInit
  <1>2. RguTypeOK
    BY <1>1 DEF RguInit, RegInit, RguTypeOK, RobInv
  <1>3. \A r \in Reg : Hits(r) = {}
    BY DEF RguInit, RobInit, Hits
  <1> QED
    BY <1>1, <1>2, <1>3 DEF RguInv, SrcIsYoungestWriter

\* The register file's fields keep their types.
LEMMA RguStepType ==
  ASSUME RguInv, NEW disp, NEW rd, NEW wb, RguStep(disp, rd, wb)
  PROVE  RobInv' /\ RguTypeOK'
  <1>1. RobInv'
    BY RobEdgeInv DEF RguInv, RguStep, RguEdge
  <1>2. wr_ptr \in Slot /\ rd_ptr \in Slot /\ rob_result[rd_ptr] \in Val
    BY DEF RguInv, RobInv, RobTypeOK
  <1>3. x_data' \in [Reg -> Val]
    BY <1>2 DEF RguInv, RguTypeOK, RguStep, RguEdge, RegEdge, Selects, AwaitedBy
  <1>4. x_src' \in [Reg -> Slot] /\ x_ready' \in [Reg -> BOOLEAN]
    BY <1>2 DEF RguInv, RguTypeOK, RguStep, RguEdge, RegEdge, Selects, AwaitedBy
  <1> QED
    BY <1>1, <1>3, <1>4 DEF RguTypeOK, RobInv

\* The slot of the next instruction is not one in flight.
LEMMA NextIsNotBusy ==
  ASSUME RguInv, ~full
  PROVE  wr_ptr \in Slot /\ ~rob_busy[wr_ptr]
  <1>1. wr_ptr \in Slot /\ rd_ptr \in Slot
    BY DEF RguInv, RobInv, RobTypeOK
  <1>2. Age(wr_ptr) \in Int
    BY <1>1, AgeRange DEF Slot
  <1> QED
    BY <1>1, <1>2 DEF RguInv, RobInv, RingWindow

\* The slots that write r after a step: those before it, the dispatched one
\* if it writes r, less the one that retired.
LEMMA HitsAfterStep ==
  ASSUME RguInv, NEW disp, NEW rd, NEW wb, RguStep(disp, rd, wb), NEW r \in Reg
  PROVE  /\ Hits(r)' = (Hits(r) \cup (IF disp /\ rd = r THEN {wr_ptr} ELSE {}))
                         \ (IF commit THEN {rd_ptr} ELSE {})
         /\ disp => wr_ptr \notin Hits(r)
         /\ disp /\ commit => wr_ptr # rd_ptr
  <1>1. rob_busy \in [Slot -> BOOLEAN] /\ rd_ptr \in Slot /\ wr_ptr \in Slot
    BY DEF RguInv, RobInv, RobTypeOK
  <1>2. disp => ~rob_busy[wr_ptr]
    BY NextIsNotBusy DEF RguStep
  <1>3. disp => wr_ptr \notin Hits(r)
    BY <1>2 DEF Hits
  <1>4. disp /\ commit => wr_ptr # rd_ptr
    BY <1>2 DEF commit
  <1>5. \A i \in Slot : i \in Hits(r)' <=>
          /\ ~(commit /\ i = rd_ptr)
          /\ \/ i \in Hits(r)
             \/ disp /\ rd = r /\ i = wr_ptr
    <2> SUFFICES ASSUME NEW i \in Slot
                 PROVE  i \in Hits(r)' <=>
                          /\ ~(commit /\ i = rd_ptr)
                          /\ \/ i \in Hits(r)
                             \/ disp /\ rd = r /\ i = wr_ptr
      OBVIOUS
    <2>1. rob_busy'[i] <=> ~(commit /\ i = rd_ptr) /\ (rob_busy[i] \/ (disp /\ i = wr_ptr))
      BY <1>1 DEF RguStep, RguEdge, RobEdge
    <2>2. rob_rd'[i] = IF disp /\ i = wr_ptr THEN rd ELSE rob_rd[i]
      BY DEF RguStep, RguEdge, RobEdge
    <2> QED
      BY <2>1, <2>2, <1>2 DEF Hits
  <1> QED
    BY <1>1, <1>3, <1>4, <1>5 DEF Hits

\* Among slots that stay allocated a step never swaps older and younger.
LEMMA AgeOrderKept ==
  ASSUME RguInv, NEW disp, NEW rd, NEW wb, RguStep(disp, rd, wb),
         NEW i \in Slot, NEW j \in Slot,
         commit => i # rd_ptr /\ j # rd_ptr,
         Age(i) <= Age(j)
  PROVE  (Age(i) <= Age(j))'
  <1>1. rd_ptr \in Slot
    BY DEF RguInv, RobInv, RobTypeOK
  <1>2. Age(i) \in Int /\ Age(j) \in Int
    BY <1>1, AgeRange DEF Slot
  <1>3. CASE commit
    <2>1. rd_ptr' = Inc(rd_ptr)
      BY <1>3 DEF RguStep, RguEdge, RobEdge
    <2>2. Age(i)' = Age(i) - 1 /\ Age(j)' = Age(j) - 1
      BY <1>1, <1>3, <2>1, AgeAfterCommit
    <2> QED
      BY <1>2, <2>2
  <1>4. CASE ~commit
    <2>1. rd_ptr' = rd_ptr
      BY <1>4 DEF RguStep, RguEdge, RobEdge
    <2> QED
      BY <2>1, AgeUnchanged
  <1> QED
    BY <1>3, <1>4

\* A dispatched instruction is younger than everything in flight.
LEMMA NewcomerIsYoungest ==
  ASSUME RguInv, ~full, NEW i \in Slot, rob_busy[i]
  PROVE  Age(i) <= Age(wr_ptr)
  <1>1. rd_ptr \in Slot /\ wr_ptr \in Slot
    BY DEF RguInv, RobInv, RobTypeOK
  <1>2. Age(i) < Age(wr_ptr)
    BY DEF RguInv, RobInv, RingWindow
  <1> QED
    BY <1>1, <1>2, AgeRange DEF Slot

-----------------------------------------------------------------------------
\* Renaming of one register across one step.
LEMMA RenamingStep ==
  ASSUME RguInv, NEW disp, NEW rd, NEW wb, RguStep(disp, rd, wb),
         NEW r \in Reg \ {0}, Hits(r)' # {}
  PROVE  (/\ ~x_ready[r]
          /\ x_src[r] \in Hits(r)
          /\ \A i \in Hits(r) : Age(i) <= Age(x_src[r]))'
  <1>1. /\ rd_ptr \in Slot /\ wr_ptr \in Slot
        /\ x_ready \in [Reg -> BOOLEAN] /\ x_src \in [Reg -> Slot]
    BY DEF RguInv, RobInv, RobTypeOK, RguTypeOK
  <1>2. Hits(r)' = (Hits(r) \cup (IF disp /\ rd = r THEN {wr_ptr} ELSE {}))
                     \ (IF commit THEN {rd_ptr} ELSE {})
    BY HitsAfterStep
  <1>3. Hits(r) \subseteq Slot
    BY DEF Hits
  <1>4. CASE disp /\ rd = r
    <2>1. PICK w \in Slot : w = wr_ptr
      BY <1>1
    <2>2. x_src'[r] = w /\ ~x_ready'[r]
      BY <1>1, <1>4, <2>1 DEF RguStep, RguEdge, RegEdge, Selects, AwaitedBy
    <2>3. w \in Hits(r)' /\ (commit => w # rd_ptr)
      BY <1>2, <1>4, <2>1, HitsAfterStep
    <2>4. ASSUME NEW i \in Hits(r)'
          PROVE  (Age(i) <= Age(w))'
      <3>1. i \in Slot /\ (commit => i # rd_ptr) /\ (i = w \/ i \in Hits(r))
        BY <1>1, <1>2, <1>3, <2>1
      <3>2. Age(i) <= Age(w)
        <4>1. Age(w) <= Age(w)
          BY <1>1, AgeRange DEF Slot
        <4>2. i \in Hits(r) => Age(i) <= Age(w)
          BY <1>4, <2>1, <3>1, NewcomerIsYoungest DEF Hits, RguStep
        <4> QED
          BY <4>1, <4>2, <3>1
      <3> QED
        BY <3>1, <3>2, <2>3, AgeOrderKept
    <2>5. (Age(x_src[r]))' = (Age(w))'
      BY <2>2 DEF Age
    <2> QED
      BY <2>2, <2>3, <2>4, <2>5
  <1>5. CASE ~(disp /\ rd = r)
    <2>1. Hits(r) # {}
      BY <1>2, <1>5
    <2>2. PICK s \in Hits(r) : s = x_src[r]
      BY <2>1 DEF RguInv, SrcIsYoungestWriter
    <2>3. ~x_ready[r] /\ \A i \in Hits(r) : Age(i) <= Age(s)
      BY <2>1, <2>2 DEF RguInv, SrcIsYoungestWriter
    <2>4. ASSUME commit
          PROVE  s # rd_ptr
      <3> SUFFICES ASSUME s = rd_ptr PROVE FALSE
        OBVIOUS
      <3>1. PICK i \in Hits(r) : i # rd_ptr
        BY <1>2, <1>5, <2>4
      <3>2. Age(i) <= 0 /\ i \in Slot
        BY <1>1, <1>3, <2>3, AgeRange
      <3>3. Age(i) = Age(rd_ptr)
        BY <1>1, <3>2, AgeRange DEF Slot
      <3> QED
        BY <1>1, <3>1, <3>2, <3>3, AgeRange
    <2>5. s \in Hits(r)'
      BY <1>2, <1>5, <2>4
    <2>6. x_src'[r] = s /\ ~x_ready'[r]
      BY <1>1, <1>5, <2>2, <2>3, <2>4 DEF RguStep, RguEdge, RegEdge, Selects, AwaitedBy
    <2>7. ASSUME NEW i \in Hits(r)'
          PROVE  (Age(i) <= Age(s))'
      <3>1. i \in Hits(r) /\ i \in Slot /\ s \in Slot /\ (commit => i # rd_ptr)
        BY <1>2, <1>3, <1>5
      <3> QED
        BY <3>1, <2>3, <2>4, AgeOrderKept
    <2>8. (Age(x_src[r]))' = (Age(s))'
      BY <2>6 DEF Age
    <2> QED
      BY <2>5, <2>6, <2>7, <2>8
  <1> QED
    BY <1>4, <1>5

\* The invariant is inductive.
LEMMA RguStepInv ==
  ASSUME RguInv, NEW disp, NEW rd, NEW wb, RguStep(disp, rd, wb)
  PROVE  RguInv'
  <1>1. RobInv' /\ RguTypeOK'
    BY RguStepType
  <1>2. SrcIsYoungestWriter'
    BY RenamingStep DEF SrcIsYoungestWriter
  <1> QED
    BY <1>1, <1>2 DEF RguInv

\* The same across a stuttering step.
LEMMA RguStutterInv == RguInv /\ UNCHANGED rguVars => RguInv'
  BY DEF RguInv, RobInv, RobTypeOK, RingWindow, full, Age, Hits, RguTypeOK,
         SrcIsYoungestWriter, rguVars, robVars, regVars

\* Every behaviour of the unit satisfies the invariant.
LEMMA RguInvHolds == RguSpec => []RguInv
  <1>1. RguInit => RguInv
    BY RguInitInv
  <1>2. RguInv /\ [RguNext]_rguVars => RguInv'
    <2>1. ASSUME RguInv, RguNext PROVE RguInv'
      <3>1. PICK disp \in BOOLEAN, rd \in Reg, wb \in Broadcast :
              (disp => ~full) /\ RguEdge(disp, rd, wb)
        BY <2>1 DEF RguNext
      <3> QED
        BY <2>1, <3>1, RguStepInv DEF RguStep
    <2> QED
      BY <2>1, RguStutterInv
  <1> QED
    BY <1>1, <1>2, PTL DEF RguSpec

-----------------------------------------------------------------------------
(***************************************************************************)
(* Every field of the unit keeps its type (rgu.vhd, rob.vhd, reg.vhd).     *)
(***************************************************************************)
THEOREM RguTypeCorrect == RguSpec => []RguTypeOK
  <1>1. RguInv => RguTypeOK
    BY DEF RguInv
  <1> QED
    BY <1>1, RguInvHolds, PTL

(***************************************************************************)
(* A register with a writer in flight is not ready and names the youngest  *)
(* of its writers (reg.vhd p_reg together with rob.vhd p_rob_buf).         *)
(***************************************************************************)
THEOREM RenamingIsRight == RguSpec => []SrcIsYoungestWriter
  <1>1. RguInv => SrcIsYoungestWriter
    BY DEF RguInv
  <1> QED
    BY <1>1, RguInvHolds, PTL

(***************************************************************************)
(* A register becomes ready exactly when its last writer in flight retires *)
(* and stays so until it is renamed (reg.vhd:88-90).                       *)
(***************************************************************************)
THEOREM ReadyWhenSettled == RguSpec => ReadyOnceWritersRetire
  <1> DEFINE Settles == \A r \in Reg \ {0} :
               (Hits(r) # {} \/ x_ready[r]) /\ Hits(r)' = {} => x_ready'[r]
  <1>1. ASSUME RguInv, RguNext PROVE Settles
    <2> SUFFICES ASSUME NEW r \in Reg \ {0}, Hits(r) # {} \/ x_ready[r], Hits(r)' = {}
                 PROVE  x_ready'[r]
      OBVIOUS
    <2>1. PICK disp \in BOOLEAN, rd \in Reg, wb \in Broadcast :
            (disp => ~full) /\ RguEdge(disp, rd, wb)
      BY <1>1 DEF RguNext
    <2>2. RguStep(disp, rd, wb)
      BY <2>1 DEF RguStep
    <2>3. /\ Hits(r)' = (Hits(r) \cup (IF disp /\ rd = r THEN {wr_ptr} ELSE {}))
                           \ (IF commit THEN {rd_ptr} ELSE {})
          /\ disp /\ commit => wr_ptr # rd_ptr
      BY <1>1, <2>2, HitsAfterStep
    <2>4. ~(disp /\ rd = r)
      BY <2>3
    <2>5. x_ready \in [Reg -> BOOLEAN]
      BY <1>1 DEF RguInv, RguTypeOK
    <2>6. CASE x_ready[r]
      BY <2>1, <2>4, <2>5, <2>6 DEF RguEdge, RegEdge, Selects, AwaitedBy
    <2>7. CASE Hits(r) # {}
      <3>1. x_src[r] \in Hits(r)
        BY <1>1, <2>7 DEF RguInv, SrcIsYoungestWriter
      <3>2. commit /\ x_src[r] = rd_ptr
        BY <2>3, <2>4, <3>1
      <3>3. rob_rd[rd_ptr] = r
        BY <3>1, <3>2 DEF Hits
      <3> QED
        BY <2>1, <2>4, <3>2, <3>3 DEF RguEdge, RegEdge, Selects, AwaitedBy
    <2> QED
      BY <2>6, <2>7
  <1>2. RguInv /\ [RguNext]_rguVars => [Settles]_rguVars
    BY <1>1
  <1> QED
    BY <1>2, RguInvHolds, PTL DEF RguSpec, ReadyOnceWritersRetire

-----------------------------------------------------------------------------
(***************************************************************************)
(* Refinement.  The queue is a sequence of Number elements, the busy slots *)
(* from rd_ptr on; an edge fills one element, appends one and drops the    *)
(* head, and the lemmas below say so of the length and of each element.    *)
(***************************************************************************)

\* A sequence with the elements of an appended one, all of them or all but
\* the first, is the appended one or its tail.
LEMMA Appended ==
  ASSUME NEW E, NEW s \in Seq(E), NEW new \in Seq(E), NEW r \in Seq(E),
         NEW n \in Nat, Len(s) = n, Len(r) = n + Len(new),
         \A i \in 1 .. Len(r) : r[i] = IF i <= n THEN s[i] ELSE new[i - n]
  PROVE  r = s \o new
  <1> DEFINE t == s \o new
  <1>1. t \in Seq(E) /\ Len(t) = n + Len(new)
    BY ConcatProperties
  <1>2. \A i \in 1 .. n + Len(new) : t[i] = IF i <= n THEN s[i] ELSE new[i - n]
    BY ConcatProperties
  <1> HIDE DEF t
  <1>3. r = t
    BY <1>1, <1>2, SeqEqual
  <1> QED
    BY <1>3 DEF t

LEMMA AppendedAndShortened ==
  ASSUME NEW E, NEW s \in Seq(E), NEW new \in Seq(E), NEW r \in Seq(E),
         NEW n \in Nat, n # 0, Len(s) = n, Len(r) = n + Len(new) - 1,
         \A i \in 1 .. Len(r) : r[i] = IF i + 1 <= n THEN s[i + 1] ELSE new[i + 1 - n]
  PROVE  r = Tail(s \o new)
  <1> DEFINE t == s \o new
  <1>1. t \in Seq(E) /\ Len(t) = n + Len(new) /\ Len(new) \in Nat
    BY ConcatProperties, LenProperties
  <1>2. \A i \in 1 .. n + Len(new) : t[i] = IF i <= n THEN s[i] ELSE new[i - n]
    BY ConcatProperties
  <1> HIDE DEF t
  <1>3. t # << >>
    BY <1>1
  <1>4. Tail(t) \in Seq(E) /\ Len(Tail(t)) = n + Len(new) - 1
    BY <1>1, <1>3, HeadTailProperties
  <1>5. \A i \in 1 .. n + Len(new) - 1 : Tail(t)[i] = t[i + 1]
    BY <1>1, <1>3, <1>4, HeadTailProperties
  <1>6. ASSUME NEW i \in 1 .. Len(r)
        PROVE  r[i] = Tail(t)[i]
    <2>1. i \in 1 .. n + Len(new) - 1 /\ i + 1 \in 1 .. n + Len(new)
      BY <1>1
    <2>2. r[i] = t[i + 1]
      BY <1>2, <2>1
    <2> QED
      BY <1>5, <2>1, <2>2
  <1>7. r = Tail(t)
    BY <1>4, <1>6, SeqEqual
  <1> QED
    BY <1>7 DEF t

\* The queue grows by a dispatch and shrinks by a commit.
LEMMA NumberAfterStep ==
  ASSUME RguInv, NEW disp, NEW rd, NEW wb, RguStep(disp, rd, wb)
  PROVE  /\ Number' = Number + (IF disp THEN 1 ELSE 0) - (IF commit THEN 1 ELSE 0)
         /\ commit => Number # 0
         /\ QueueShape /\ QueueShape'
  <1>1. QueueShape /\ QueueShape'
    <2>1. RobInv /\ RobInv'
      BY RguStepType DEF RguInv
    <2> QED
      BY <2>1, InFlightIsQueue, PTL
  <1>2. /\ rd_ptr \in Slot /\ wr_ptr \in Slot
        /\ rob_busy \in [Slot -> BOOLEAN]
    BY DEF RguInv, RobInv, RobTypeOK
  <1>3. disp \in BOOLEAN /\ (disp => ~full)
    BY DEF RguStep
  <1>4. disp => ~rob_busy[wr_ptr]
    BY <1>3, NextIsNotBusy
  <1>5. commit => rd_ptr \in Allocated
    BY <1>2 DEF commit, Allocated
  <1>6. disp => wr_ptr \notin Allocated
    BY <1>4 DEF Allocated
  <1> DEFINE grown == IF disp THEN Allocated \cup {wr_ptr} ELSE Allocated
  <1>7. Allocated' = IF commit THEN grown \ {rd_ptr} ELSE grown
    <2>1. \A i \in Slot : rob_busy'[i] <=> /\ ~(commit /\ i = rd_ptr)
                                           /\ rob_busy[i] \/ (disp /\ i = wr_ptr)
      BY <1>2, <1>3 DEF RguStep, RguEdge, RobEdge
    <2> QED
      BY <1>2, <2>1 DEF Allocated
  <1>8. /\ IsFiniteSet(grown)
        /\ Cardinality(grown) = Number + (IF disp THEN 1 ELSE 0)
    <2>1. CASE disp
      BY <1>1, <1>6, <2>1, FS_AddElement DEF QueueShape
    <2>2. CASE ~disp
      BY <1>1, <2>2, SizeAssumption DEF QueueShape
    <2> QED
      BY <2>1, <2>2
  <1>9. commit => rd_ptr \in grown
    BY <1>5
  <1> HIDE DEF grown
  <1>10. Cardinality(Allocated') = Number + (IF disp THEN 1 ELSE 0) - (IF commit THEN 1 ELSE 0)
    BY <1>1, <1>7, <1>8, <1>9, FS_RemoveElement DEF QueueShape
  <1>11. commit => Number # 0
    BY <1>1, <1>5, FS_EmptySet DEF QueueShape
  <1> QED
    BY <1>1, <1>10, <1>11 DEF QueueShape

\* What an edge makes of a slot, seen as an entry of the queue.
LEMMA EntryAfterStep ==
  ASSUME RguInv, NEW disp, NEW rd, NEW wb, RguStep(disp, rd, wb), NEW i \in Slot
  PROVE  /\ disp /\ i = wr_ptr => QueueEntry(i)' = [rd |-> rd, result |-> {}]
         /\ ~(disp /\ i = wr_ptr) /\ wb.valid /\ i = wb.addr =>
              QueueEntry(i)' = [rd |-> rob_rd[i], result |-> {wb.result}]
         /\ ~(disp /\ i = wr_ptr) /\ ~(wb.valid /\ i = wb.addr) =>
              QueueEntry(i)' = QueueEntry(i)
  <1>1. /\ rob_valid \in [Slot -> BOOLEAN] /\ rob_busy \in [Slot -> BOOLEAN]
        /\ wr_ptr \in Slot
    BY DEF RguInv, RobInv, RobTypeOK
  <1>2. wb.valid \in BOOLEAN /\ (wb.valid => wb.addr \in Unfinished)
    BY BroadcastShape DEF RguStep
  <1>3. disp \in BOOLEAN /\ (disp => ~full) /\ (disp => ~rob_busy[wr_ptr])
    BY NextIsNotBusy DEF RguStep
  <1>4. wb.valid => rob_busy[wb.addr]
    BY <1>2 DEF Unfinished
  <1>5. /\ rob_rd'[i] = IF disp /\ i = wr_ptr THEN rd ELSE rob_rd[i]
        /\ rob_result'[i] = IF wb.valid /\ i = wb.addr THEN wb.result ELSE rob_result[i]
        /\ rob_valid'[i] <=> \/ wb.valid /\ i = wb.addr
                             \/ rob_valid[i] /\ ~(disp /\ i = wr_ptr)
    BY <1>1, <1>3 DEF RguStep, RguEdge, RobEdge
  <1>6. QueueEntry(i)' = [rd |-> rob_rd'[i],
                          result |-> IF rob_valid'[i] THEN {rob_result'[i]} ELSE {}]
    BY DEF QueueEntry
  <1>7. disp /\ i = wr_ptr => ~(wb.valid /\ i = wb.addr)
    BY <1>3, <1>4
  <1> QED
    BY <1>5, <1>6, <1>7 DEF QueueEntry

\* Which slot a position of the queue is after an edge.
LEMMA PositionAfterStep ==
  ASSUME RguInv, NEW disp, NEW rd, NEW wb, RguStep(disp, rd, wb),
         NEW k \in 1 .. ROB_SIZE, commit => k < ROB_SIZE
  PROVE  Nth(k)' = Nth(IF commit THEN k + 1 ELSE k)
  <1>1. rd_ptr \in Slot
    BY DEF RguInv, RobInv, RobTypeOK
  <1>2. rd_ptr' = IF commit THEN Inc(rd_ptr) ELSE rd_ptr
    BY DEF RguStep, RguEdge, RobEdge
  <1>3. CASE commit
    <2>1. k \in 1 .. ROB_SIZE - 1
      BY <1>3, SizeAssumption
    <2> QED
      BY <1>1, <1>2, <1>3, <2>1, NthAfterCommit
  <1>4. CASE ~commit
    BY <1>2, <1>4 DEF Nth
  <1> QED
    BY <1>3, <1>4

\* The elements of the queue before the edge, with the result that arrives.
LEMMA FilledQueue ==
  ASSUME RguInv, NEW wb \in Broadcast
  PROVE  \E k \in {0} \cup Architecture!Pending, w \in Val :
           /\ Architecture!Filled(k, w) \in Seq([rd : Reg, result : SUBSET Val])
           /\ Len(Architecture!Filled(k, w)) = Number
           /\ \A j \in 1 .. Number :
                Architecture!Filled(k, w)[j] =
                  IF wb.valid /\ Nth(j) = wb.addr
                  THEN [rd |-> rob_rd[Nth(j)], result |-> {wb.result}]
                  ELSE QueueEntry(Nth(j))
  <1> DEFINE E == [rd : Reg, result : SUBSET Val]
  <1>1. QueueShape /\ Number \in 0 .. ROB_SIZE /\ \A j \in 1 .. Number : j \in 1 .. ROB_SIZE
    BY InFlightIsQueue, SizeAssumption DEF RguInv, QueueShape
  <1>2. /\ InFlight \in Seq(E) /\ Len(InFlight) = Number
        /\ \A j \in 1 .. Number : InFlight[j] = QueueEntry(Nth(j))
    BY <1>1 DEF QueueShape
  <1>3. CASE ~wb.valid
    <2>1. Architecture!Filled(0, 0) = InFlight
      BY DEF Architecture!Filled
    <2> QED
      BY <1>2, <1>3, <2>1, ValAssumption
  <1>4. CASE wb.valid
    <2>1. wb.addr \in Unfinished /\ wb.result \in Val
      BY <1>4, BroadcastShape
    <2>2. wb.addr \in Allocated /\ wb.addr \in Slot
      BY <2>1 DEF Unfinished, Allocated
    <2>3. PICK k \in 1 .. Number : Nth(k) = wb.addr
      <3>1. Age(wb.addr) + 1 \in 1 .. ROB_SIZE /\ Nth(Age(wb.addr) + 1) = wb.addr
        BY <2>2, NthIsByAge DEF RguInv, RobInv, RobTypeOK
      <3>2. Age(wb.addr) < Number /\ Age(wb.addr) \in Nat
        BY <2>2, NumberCounts, AgeRange, SizeAssumption DEF RguInv, RobInv, RobTypeOK, Slot
      <3>3. Age(wb.addr) + 1 \in 1 .. Number
        BY <1>1, <3>2
      <3> QED
        BY <3>1, <3>3
    <2>4. InFlight[k] = [rd |-> rob_rd[wb.addr], result |-> {}]
      BY <1>2, <2>1, <2>3 DEF QueueEntry, Unfinished
    <2>5. k \in Architecture!Pending
      <3>1. k \in DOMAIN InFlight
        BY <1>2, <2>3
      <3>2. InFlight[k].result = {}
        BY <2>4
      <3> QED
        BY <3>1, <3>2 DEF Architecture!Pending
    <2> DEFINE filled == [rd |-> rob_rd[wb.addr], result |-> {wb.result}]
    <2>6. Architecture!Filled(k, wb.result) = [InFlight EXCEPT ![k] = filled]
      <3>1. k # 0
        BY <1>1
      <3>2. [InFlight[k] EXCEPT !.result = {wb.result}] = filled
        BY <2>4
      <3> QED
        BY <3>1, <3>2 DEF Architecture!Filled
    <2>7. filled \in E
      BY <2>1, <2>2 DEF RguInv, RobInv, RobTypeOK
    <2> HIDE DEF filled
    <2>8. /\ [InFlight EXCEPT ![k] = filled] \in Seq(E)
          /\ Len([InFlight EXCEPT ![k] = filled]) = Number
          /\ \A j \in 1 .. Number :
               [InFlight EXCEPT ![k] = filled][j] = IF j = k THEN filled ELSE InFlight[j]
      <3> HIDE DEF E
      <3> QED
        BY <1>2, <2>3, <2>7, ExceptSeq
    <2>9. \A j \in 1 .. Number : Nth(j) = wb.addr <=> j = k
      BY <1>1, <2>3 DEF QueueShape
    <2>10. \A j \in 1 .. Number :
             Architecture!Filled(k, wb.result)[j] =
               IF wb.valid /\ Nth(j) = wb.addr
               THEN [rd |-> rob_rd[Nth(j)], result |-> {wb.result}]
               ELSE QueueEntry(Nth(j))
      BY <1>2, <1>4, <2>6, <2>8, <2>9 DEF filled
    <2>11. k \in {0} \cup Architecture!Pending /\ wb.result \in Val
      BY <2>1, <2>5
    <2>12. /\ Architecture!Filled(k, wb.result) \in Seq(E)
           /\ Len(Architecture!Filled(k, wb.result)) = Number
      BY <2>6, <2>8
    <2> QED
      BY <2>10, <2>11, <2>12, Zenon
  <1> QED
    BY <1>3, <1>4, BroadcastShape

\* What retires is the head of the queue.
LEMMA HeadRetires ==
  ASSUME RguInv
  PROVE  /\ Architecture!Retires <=> commit
         /\ commit => Head(InFlight) = QueueEntry(rd_ptr) /\ InFlight # <<>>
  <1>1. QueueShape /\ rd_ptr \in Slot
    BY InFlightIsQueue DEF RguInv, RobInv, RobTypeOK
  <1>2. InFlight # <<>> <=> Number # 0
    BY <1>1, EmptySeq DEF QueueShape
  <1>3. rd_ptr \in Allocated <=> Number # 0
    BY <1>1, NumberCounts, AgeRange, SizeAssumption DEF RguInv, QueueShape
  <1>4. Nth(1) = rd_ptr
    <2>1. 1 \in 1 .. ROB_SIZE
      BY SizeAssumption
    <2> QED
      BY <1>1, <2>1, NthWraps, SizeAssumption DEF NthIsSum, Slot
  <1>5. Number # 0 => Head(InFlight) = QueueEntry(rd_ptr)
    <2>1. Number # 0 => 1 \in 1 .. Number
      BY <1>1, SizeAssumption DEF QueueShape
    <2>2. Head(InFlight) = InFlight[1]
      OBVIOUS
    <2> QED
      BY <1>1, <1>4, <2>1, <2>2 DEF QueueShape
  <1>6. QueueEntry(rd_ptr).result # {} <=> rob_valid[rd_ptr]
    BY DEF QueueEntry
  <1>7. rd_ptr \in Allocated <=> rob_busy[rd_ptr]
    BY <1>1 DEF Allocated
  <1> QED
    BY <1>2, <1>3, <1>5, <1>6, <1>7 DEF Architecture!Retires, commit

\* An edge of the unit is an edge of the queue.
LEMMA QueueEdge ==
  ASSUME RguInv, NEW disp, NEW rd, NEW wb, RguStep(disp, rd, wb)
  PROVE  \E new \in Architecture!Newcomers, k \in {0} \cup Architecture!Pending, w \in Val :
           Architecture!QEdge(new, k, w)
  <1> DEFINE E   == [rd : Reg, result : SUBSET Val]
             new == IF disp THEN <<Architecture!Entry(rd)>> ELSE <<>>
  <1>1. PICK k \in {0} \cup Architecture!Pending, w \in Val :
          /\ Architecture!Filled(k, w) \in Seq(E)
          /\ Len(Architecture!Filled(k, w)) = Number
          /\ \A j \in 1 .. Number :
               Architecture!Filled(k, w)[j] =
                 IF wb.valid /\ Nth(j) = wb.addr
                 THEN [rd |-> rob_rd[Nth(j)], result |-> {wb.result}]
                 ELSE QueueEntry(Nth(j))
    BY FilledQueue DEF RguStep
  <1>2. /\ Number' = Number + (IF disp THEN 1 ELSE 0) - (IF commit THEN 1 ELSE 0)
        /\ commit => Number # 0
        /\ QueueShape /\ QueueShape'
    BY NumberAfterStep
  <1>3. /\ disp \in BOOLEAN /\ rd \in Reg /\ (disp => ~full) /\ commit \in BOOLEAN
        /\ Number \in Nat /\ Number <= ROB_SIZE
    <2>1. commit \in BOOLEAN
      BY DEF RguInv, RobInv, RobTypeOK, commit
    <2> QED
      BY <1>2, <2>1, SizeAssumption DEF RguStep, QueueShape
  <1>4. new \in Architecture!Newcomers
    BY <1>3 DEF Architecture!Newcomers
  <1>5. /\ new \in Seq(E)
        /\ Len(new) = IF disp THEN 1 ELSE 0
        /\ disp => new[1] = [rd |-> rd, result |-> {}]
    <2>1. Architecture!Entry(rd) \in E
      BY <1>3 DEF Architecture!Entry
    <2>2. CASE disp
      <3>1. new = <<Architecture!Entry(rd)>>
        BY <2>2
      <3> QED
        BY <2>1, <2>2, <3>1 DEF Architecture!Entry
    <2>3. CASE ~disp
      <3>1. new = <<>>
        BY <2>3
      <3> QED
        BY <2>3, <3>1, EmptySeq
    <2> QED
      BY <1>3, <2>2, <2>3
  <1>6. disp => Number < ROB_SIZE /\ Nth(Number + 1) = wr_ptr
    BY <1>3, NumberCounts DEF RguInv
  <1>7. InFlight' \in Seq(E) /\ Len(InFlight') = Number'
    BY <1>2 DEF QueueShape
  <1> HIDE DEF new
  <1>8. ASSUME NEW i \in 1 .. Len(InFlight')
        PROVE  /\ commit => InFlight'[i] = IF i + 1 <= Number
                                           THEN Architecture!Filled(k, w)[i + 1]
                                           ELSE new[i + 1 - Number]
               /\ ~commit => InFlight'[i] = IF i <= Number
                                            THEN Architecture!Filled(k, w)[i]
                                            ELSE new[i - Number]
    <2>1. PICK j \in 1 .. ROB_SIZE :
            /\ j = IF commit THEN i + 1 ELSE i
            /\ j <= Number + (IF disp THEN 1 ELSE 0)
      BY <1>2, <1>3, <1>6, <1>7, SizeAssumption
    <2>2. i \in 1 .. ROB_SIZE /\ i \in 1 .. Number' /\ (commit => i < ROB_SIZE)
      BY <1>7, <2>1, SizeAssumption
    <2>3. PICK p \in Slot : p = Nth(j)
      BY <1>2 DEF QueueShape
    <2>4. Nth(i)' = p
      BY <2>1, <2>2, <2>3, PositionAfterStep
    <2>5. InFlight'[i] = QueueEntry(p)'
      <3>1. InFlight'[i] = QueueEntry(Nth(i))'
        BY <1>2, <2>2 DEF QueueShape
      <3> QED
        BY <2>4, <3>1 DEF QueueEntry
    <2>6. CASE j <= Number
      <3>1. disp => p # wr_ptr
        <4>1. disp => Number + 1 \in 1 .. ROB_SIZE /\ j # Number + 1
          BY <1>3, <1>6, <2>6, SizeAssumption
        <4> QED
          BY <1>2, <1>6, <2>3, <4>1 DEF QueueShape
      <3>2. QueueEntry(p)' = IF wb.valid /\ p = wb.addr
                             THEN [rd |-> rob_rd[p], result |-> {wb.result}]
                             ELSE QueueEntry(p)
        BY <3>1, EntryAfterStep
      <3>3. j \in 1 .. Number
        BY <1>3, <2>6
      <3>4. Architecture!Filled(k, w)[j] = QueueEntry(p)'
        BY <1>1, <2>3, <3>2, <3>3
      <3> QED
        BY <2>1, <2>5, <2>6, <3>4
    <2>7. CASE ~(j <= Number)
      <3>1. disp /\ j = Number + 1 /\ j - Number = 1
        BY <1>3, <2>1, <2>7
      <3>2. p = wr_ptr
        BY <1>6, <2>3, <3>1
      <3>3. QueueEntry(p)' = [rd |-> rd, result |-> {}]
        BY <3>1, <3>2, EntryAfterStep
      <3>4. new[1] = InFlight'[i]
        BY <1>5, <2>5, <3>1, <3>3
      <3>5. /\ commit => ~(i + 1 <= Number) /\ i + 1 - Number = 1
            /\ ~commit => ~(i <= Number) /\ i - Number = 1
        BY <1>3, <2>1, <2>7, <3>1
      <3> QED
        BY <3>4, <3>5
    <2> QED
      BY <2>6, <2>7
  <1>9. InFlight' = IF commit THEN Tail(Architecture!Filled(k, w) \o new)
                    ELSE Architecture!Filled(k, w) \o new
    <2> DEFINE s == Architecture!Filled(k, w)
               r == InFlight'
    <2>1. s \in Seq(E) /\ r \in Seq(E) /\ new \in Seq(E) /\ Len(s) = Number /\ Number \in Nat
      BY <1>1, <1>3, <1>5, <1>7
    <2>2. Len(r) = Number + Len(new) - (IF commit THEN 1 ELSE 0)
      BY <1>2, <1>5, <1>7
    <2>3. CASE commit
      <3>1. \A i \in 1 .. Len(r) :
              r[i] = IF i + 1 <= Number THEN s[i + 1] ELSE new[i + 1 - Number]
        BY <1>8, <2>3
      <3>2. Number # 0 /\ Len(r) = Number + Len(new) - 1
        BY <1>2, <2>2, <2>3
      <3> HIDE DEF s, r, E
      <3>3. r = Tail(s \o new)
        BY <2>1, <3>1, <3>2, AppendedAndShortened
      <3> QED
        BY <2>3, <3>3 DEF s, r
    <2>4. CASE ~commit
      <3>1. \A i \in 1 .. Len(r) : r[i] = IF i <= Number THEN s[i] ELSE new[i - Number]
        BY <1>8, <2>4
      <3>2. Len(r) = Number + Len(new)
        BY <1>3, <1>5, <2>2, <2>4
      <3> HIDE DEF s, r, E
      <3>3. r = s \o new
        BY <2>1, <3>1, <3>2, Appended
      <3> QED
        BY <2>4, <3>3 DEF s, r
    <2> QED
      BY <2>3, <2>4
  <1>10. Len(InFlight) = ROB_SIZE => new = <<>>
    <2>1. Len(InFlight) = Number
      BY <1>2 DEF QueueShape
    <2> QED
      BY <1>3, <1>6, <2>1 DEF new
  <1>11. Architecture!QEdge(new, k, w)
    BY <1>9, <1>10, HeadRetires DEF Architecture!QEdge
  <1> QED
    BY <1>4, <1>11

\* The registers change with the queue: the head writes its destination.
LEMMA RguStepRefines ==
  ASSUME RguInv, NEW disp, NEW rd, NEW wb, RguStep(disp, rd, wb)
  PROVE  Architecture!INext
  <1>1. PICK new \in Architecture!Newcomers, k \in {0} \cup Architecture!Pending, w \in Val :
          Architecture!QEdge(new, k, w)
    BY QueueEdge
  <1>2. /\ x_data \in [Reg -> Val] /\ x_data' \in [Reg -> Val]
        /\ rd_ptr \in Slot /\ rob_rd[rd_ptr] \in Reg
    BY RguStepType DEF RguInv, RguTypeOK, RobInv, RobTypeOK
  <1>3. \A r \in Reg : x_data'[r] = IF commit /\ r = rob_rd[rd_ptr] /\ r # 0
                                    THEN rob_result[rd_ptr] ELSE x_data[r]
    BY DEF RguStep, RguEdge, RegEdge, Selects
  <1>4. x_data' = IF commit /\ rob_rd[rd_ptr] # 0
                  THEN [x_data EXCEPT ![rob_rd[rd_ptr]] = rob_result[rd_ptr]]
                  ELSE x_data
    BY <1>2, <1>3
  <1>5. commit => /\ Head(InFlight).rd = rob_rd[rd_ptr]
                  /\ Head(InFlight).result = {rob_result[rd_ptr]}
    BY HeadRetires DEF QueueEntry, commit
  <1>6. commit => (CHOOSE v \in Head(InFlight).result : TRUE) = rob_result[rd_ptr]
    BY <1>5
  <1>7. x_data' = IF Architecture!Retires /\ Head(InFlight).rd # 0
                  THEN [x_data EXCEPT ![Head(InFlight).rd] =
                          CHOOSE v \in Head(InFlight).result : TRUE]
                  ELSE x_data
    BY <1>4, <1>5, <1>6, HeadRetires
  <1>8. Architecture!IEdge(new, k, w)
    BY <1>1, <1>7 DEF Architecture!IEdge
  <1> QED
    BY <1>1, <1>8 DEF Architecture!INext

(***************************************************************************)
(* For every size, the unit implements in-order retirement: with InFlight  *)
(* as the queue and the register data as the registers, every step of the  *)
(* out-of-order unit is one step of the in-order machine or a stutter      *)
(* (rob.vhd, reg.vhd; the promise of rgu.vhd to the rest of the core).     *)
(***************************************************************************)
THEOREM RguImplementsInOrder == RguSpec => RegistersChangeInOrder
  <1>1. RguInit => Architecture!IInit
    <2> SUFFICES ASSUME RguInit PROVE Architecture!IInit
      OBVIOUS
    <2>1. Allocated = {}
      BY DEF RguInit, RobInit, Allocated
    <2>2. Cardinality(Allocated) = 0
      BY <2>1, FS_EmptySet
    <2>3. InFlight = <<>>
      <3>1. 1 .. Cardinality(Allocated) = {}
        BY <2>2
      <3> QED
        BY <3>1 DEF InFlight, Allocated
    <2> QED
      BY <2>3 DEF RguInit, RegInit, Architecture!IInit, Architecture!QInit
  <1>2. RguInv /\ [RguNext]_rguVars => [Architecture!INext]_<<InFlight, x_data>>
    <2>1. ASSUME RguInv, RguNext PROVE Architecture!INext
      <3>1. PICK disp \in BOOLEAN, rd \in Reg, wb \in Broadcast :
              (disp => ~full) /\ RguEdge(disp, rd, wb)
        BY <2>1 DEF RguNext
      <3> QED
        BY <2>1, <3>1, RguStepRefines DEF RguStep
    <2>2. UNCHANGED rguVars => UNCHANGED <<InFlight, x_data>>
      BY DEF rguVars, robVars, regVars, InFlight, Nth
    <2> QED
      BY <2>1, <2>2
  <1> QED
    BY <1>1, <1>2, RguInvHolds, PTL DEF RguSpec, RegistersChangeInOrder, Architecture!ISpec

=============================================================================
