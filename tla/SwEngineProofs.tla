--------------------------- MODULE SwEngineProofs ---------------------------
(***************************************************************************)
(* The cycle of the C simulator for every size of its parts.  An operation *)
(* is never in two places, and whoever holds one or waits for one, holds   *)
(* or waits for an instruction in the re-order buffer that has no result   *)
(* yet; from that follow the refinement, and that an operation disappears  *)
(* only where there is no place for it.                                    *)
(***************************************************************************)
EXTENDS SwEngine, SequenceTheorems, FiniteSetTheorems, TLAPS

\* The library states this of an operator for the order; here it is a set.
LEMMA LessIsWellFounded == IsWellFoundedOn({p \in Nat \X Nat : p[1] < p[2]}, Nat)
  BY NatLessThanWellFounded, Zenon DEF OpToRel

\* Min of FiniteSetsExt, the first index a scan of the array finds.
LEMMA MinIsLeast ==
  ASSUME NEW S \in SUBSET Nat, S # {}
  PROVE  Min(S) \in S /\ \A y \in S : Min(S) <= y
  <1>1. PICK x \in S : \A y \in S : ~(<<y, x>> \in {p \in Nat \X Nat : p[1] < p[2]})
    BY LessIsWellFounded, WFMin
  <1>2. \A y \in S : x <= y
    <2> SUFFICES ASSUME NEW y \in S PROVE x <= y
      OBVIOUS
    <2>1. x \in Nat /\ y \in Nat
      OBVIOUS
    <2>2. ~(y < x)
      BY <1>1, <2>1
    <2> QED
      BY <2>1, <2>2
  <1> QED
    BY <1>2 DEF Min

-----------------------------------------------------------------------------
(***************************************************************************)
(* The ring of the re-order buffer.                                        *)
(***************************************************************************)

\* Position k of the ring, without the remainder.
NthIsSum ==
  \A k \in 1 .. RobSize + 1 :
    Nth(k) = IF commit_ptr + k - 1 < RobSize THEN commit_ptr + k - 1
             ELSE commit_ptr + k - 1 - RobSize

LEMMA NthWraps == commit_ptr \in Slot => NthIsSum
  <1> SUFFICES ASSUME commit_ptr \in Slot, NEW k \in 1 .. RobSize + 1
               PROVE  Nth(k) = IF commit_ptr + k - 1 < RobSize THEN commit_ptr + k - 1
                               ELSE commit_ptr + k - 1 - RobSize
    BY DEF NthIsSum
  <1>1. PICK x \in 0 .. 2 * RobSize - 1 : x = commit_ptr + k - 1
    BY SwSizeAssumption DEF Slot
  <1>2. Nth(k) = x % RobSize
    BY <1>1 DEF Nth
  <1>3. x < RobSize => x % RobSize = x
    BY SwSizeAssumption
  <1>4. ~(x < RobSize) => x % RobSize = x - RobSize
    BY SwSizeAssumption
  <1> QED
    BY <1>1, <1>2, <1>3, <1>4, SwSizeAssumption DEF Slot

LEMMA NextPtrWraps ==
  \A p \in Slot : NextPtr(p) \in Slot /\ NextPtr(p) = IF p = RobSize - 1 THEN 0 ELSE p + 1
  BY SwSizeAssumption DEF Slot, NextPtr

LEMMA RingPositions ==
  ASSUME commit_ptr \in Slot
  PROVE  /\ \A k \in 1 .. RobSize + 1 : Nth(k) \in Slot
         /\ \A k, l \in 1 .. RobSize : Nth(k) = Nth(l) => k = l
         /\ Nth(1) = commit_ptr
         /\ \A k \in 1 .. RobSize : Nth(k + 1) = NextPtr(Nth(k))
  <1>1. \A k \in 1 .. RobSize + 1 :
          Nth(k) = IF commit_ptr + k - 1 < RobSize THEN commit_ptr + k - 1
                   ELSE commit_ptr + k - 1 - RobSize
    BY NthWraps DEF NthIsSum
  <1>2. \A k \in 1 .. RobSize + 1 : Nth(k) \in Slot
    BY <1>1, SwSizeAssumption DEF Slot
  <1>3. \A k, l \in 1 .. RobSize : Nth(k) = Nth(l) => k = l
    BY <1>1, SwSizeAssumption DEF Slot
  <1>4. Nth(1) = commit_ptr
    BY <1>1, SwSizeAssumption DEF Slot
  <1>5. ASSUME NEW k \in 1 .. RobSize
        PROVE  Nth(k + 1) = NextPtr(Nth(k))
    <2>1. k \in 1 .. RobSize + 1 /\ k + 1 \in 1 .. RobSize + 1
      BY SwSizeAssumption
    <2>2. NextPtr(Nth(k)) = IF Nth(k) = RobSize - 1 THEN 0 ELSE Nth(k) + 1
      BY <1>2, <2>1, NextPtrWraps
    <2>3. Nth(k + 1) = IF commit_ptr + (k + 1) - 1 < RobSize THEN commit_ptr + (k + 1) - 1
                       ELSE commit_ptr + (k + 1) - 1 - RobSize
      BY <1>1, <2>1
    <2>4. Nth(k) = IF commit_ptr + k - 1 < RobSize THEN commit_ptr + k - 1
                   ELSE commit_ptr + k - 1 - RobSize
      BY <1>1, <2>1
    <2> QED
      BY <2>2, <2>3, <2>4, SwSizeAssumption DEF Slot
  <1> QED
    BY <1>2, <1>3, <1>4, <1>5

\* Once the oldest entry has left, every position is one further.
LEMMA NthAfterCommit ==
  ASSUME commit_ptr \in Slot, commit_ptr' = NextPtr(commit_ptr), NEW k \in 1 .. RobSize
  PROVE  Nth(k)' = Nth(k + 1)
  <1>1. commit_ptr' \in Slot
    BY NextPtrWraps
  <1>2. k \in 1 .. RobSize + 1 /\ k + 1 \in 1 .. RobSize + 1
    BY SwSizeAssumption
  <1>3. Nth(k)' = IF commit_ptr' + k - 1 < RobSize THEN commit_ptr' + k - 1
                  ELSE commit_ptr' + k - 1 - RobSize
    <2>1. (commit_ptr \in Slot => NthIsSum)'
      BY NthWraps, PTL
    <2> QED
      BY <1>1, <1>2, <2>1 DEF NthIsSum
  <1>4. Nth(k + 1) = IF commit_ptr + (k + 1) - 1 < RobSize THEN commit_ptr + (k + 1) - 1
                     ELSE commit_ptr + (k + 1) - 1 - RobSize
    BY <1>2, NthWraps DEF NthIsSum
  <1>5. commit_ptr' = IF commit_ptr = RobSize - 1 THEN 0 ELSE commit_ptr + 1
    BY NextPtrWraps
  <1> QED
    BY <1>3, <1>4, <1>5, SwSizeAssumption DEF Slot

\* The entry that is issued next is the one behind the youngest.
Ring ==
  /\ commit_ptr \in Slot /\ issue_ptr \in Slot /\ cnt \in 0 .. RobSize
  /\ issue_ptr = Nth(cnt + 1)

\* rob_commit takes the oldest entry out of the ring.
LEMMA RingAfterCommit ==
  ASSUME Ring, rob_commit
  PROVE  /\ Ring'
         /\ commit_ptr \in InRob /\ InRob' = InRob \ {commit_ptr}
  <1>1. /\ cnt \in 1 .. RobSize /\ cnt' = cnt - 1
        /\ commit_ptr' = NextPtr(commit_ptr) /\ issue_ptr' = issue_ptr
    BY SwSizeAssumption DEF rob_commit, CanCommit, Ring
  <1>2. commit_ptr \in Slot /\ commit_ptr' \in Slot /\ issue_ptr' \in Slot
    BY <1>1, NextPtrWraps DEF Ring
  <1>3. /\ \A k, l \in 1 .. RobSize : Nth(k) = Nth(l) => k = l
        /\ Nth(1) = commit_ptr
    BY <1>2, RingPositions
  <1>4. PICK n \in 0 .. RobSize - 1 : n = cnt - 1
    BY <1>1, SwSizeAssumption
  <1>5. \A k \in 1 .. RobSize : Nth(k)' = Nth(k + 1)
    BY <1>1, <1>2, NthAfterCommit
  <1>6. issue_ptr' = Nth(cnt + 1)'
    <2>1. n + 1 \in 1 .. RobSize /\ n + 1 + 1 = cnt + 1
      BY <1>1, <1>4, SwSizeAssumption
    <2>2. Nth(n + 1)' = Nth(n + 1 + 1)
      BY <1>5, <2>1
    <2>3. Nth(cnt + 1)' = Nth(n + 1)'
      BY <1>1, <1>4 DEF Nth
    <2> QED
      BY <1>1, <2>1, <2>2, <2>3 DEF Ring
  <1>7. Ring'
    BY <1>1, <1>2, <1>6, SwSizeAssumption DEF Ring
  <1>8. commit_ptr \in InRob
    BY <1>1, <1>3, SwSizeAssumption DEF InRob
  <1>9. InRob' = {Nth(k)' : k \in 1 .. n}
    BY <1>1, <1>4 DEF InRob
  <1>10. ASSUME NEW s \in InRob, s # commit_ptr
         PROVE  \E k \in 1 .. n : s = Nth(k)'
    <2>1. PICK l \in 1 .. cnt : s = Nth(l)
      BY DEF InRob
    <2>2. l # 1
      BY <1>3, <1>10, <2>1
    <2>3. l - 1 \in 1 .. n /\ l - 1 \in 1 .. RobSize /\ l - 1 + 1 = l
      BY <1>1, <1>4, <2>2, SwSizeAssumption
    <2>4. Nth(l - 1)' = Nth(l - 1 + 1)
      BY <1>5, <2>3
    <2>5. Nth(l - 1)' = s
      BY <2>1, <2>3, <2>4
    <2> QED
      BY <2>3, <2>5
  <1>11. ASSUME NEW k \in 1 .. n
         PROVE  Nth(k)' \in InRob /\ Nth(k)' # commit_ptr
    <2>1. k \in 1 .. RobSize /\ k + 1 \in 1 .. cnt /\ k + 1 \in 1 .. RobSize /\ 1 \in 1 .. RobSize
          /\ k + 1 # 1
      BY <1>1, <1>4, SwSizeAssumption
    <2>2. Nth(k)' = Nth(k + 1)
      BY <1>5, <2>1
    <2>3. Nth(k + 1) # Nth(1)
      BY <1>3, <2>1
    <2> QED
      BY <1>3, <2>1, <2>2, <2>3 DEF InRob
  <1> QED
    BY <1>7, <1>8, <1>9, <1>10, <1>11

\* rob_issue puts one behind the youngest.
LEMMA RingAfterIssue ==
  ASSUME Ring, NEW dest, rob_issue(dest)
  PROVE  /\ Ring'
         /\ issue_ptr \notin InRob /\ InRob' = InRob \cup {issue_ptr}
  <1>1. /\ cnt \in 0 .. RobSize - 1 /\ cnt' = cnt + 1
        /\ commit_ptr' = commit_ptr /\ issue_ptr' = NextPtr(issue_ptr)
    BY SwSizeAssumption DEF rob_issue, rob_full, Ring
  <1>2. commit_ptr \in Slot /\ issue_ptr' \in Slot
    BY <1>1, NextPtrWraps DEF Ring
  <1>3. /\ \A k, l \in 1 .. RobSize : Nth(k) = Nth(l) => k = l
        /\ \A k \in 1 .. RobSize : Nth(k + 1) = NextPtr(Nth(k))
    BY <1>2, RingPositions
  <1>4. PICK n \in 1 .. RobSize : n = cnt + 1
    BY <1>1, SwSizeAssumption
  <1>5. issue_ptr = Nth(n)
    BY <1>4 DEF Ring
  <1>6. issue_ptr' = Nth(cnt + 1)'
    <2>1. Nth(cnt + 1)' = Nth(n + 1)
      BY <1>1, <1>4 DEF Nth
    <2>2. Nth(n + 1) = NextPtr(Nth(n))
      BY <1>3
    <2> QED
      BY <1>1, <1>5, <2>1, <2>2
  <1>7. Ring'
    BY <1>1, <1>2, <1>6, SwSizeAssumption DEF Ring
  <1>8. InRob' = {Nth(k) : k \in 1 .. n}
    BY <1>1, <1>4 DEF InRob, Nth
  <1>9. InRob = {Nth(k) : k \in 1 .. n - 1}
    BY <1>1, <1>4 DEF InRob
  <1>10. \A k \in 1 .. n : k \in 1 .. RobSize /\ (k \in 1 .. n - 1 <=> k # n)
    BY SwSizeAssumption
  <1>11. issue_ptr \notin InRob
    BY <1>3, <1>5, <1>9, <1>10
  <1>12. InRob' = InRob \cup {issue_ptr}
    BY <1>5, <1>8, <1>9, <1>10
  <1> QED
    BY <1>7, <1>11, <1>12

LEMMA RingUnchanged ==
  ASSUME Ring, UNCHANGED <<commit_ptr, issue_ptr, cnt>>
  PROVE  Ring' /\ InRob' = InRob
  BY DEF Ring, InRob, Nth

LEMMA InRobIsSlots == Ring => InRob \subseteq Slot
  <1> SUFFICES ASSUME Ring, NEW k \in 1 .. cnt PROVE Nth(k) \in Slot
    BY DEF InRob
  <1>1. k \in 1 .. RobSize + 1
    BY SwSizeAssumption DEF Ring
  <1> QED
    BY <1>1, RingPositions DEF Ring

-----------------------------------------------------------------------------
(***************************************************************************)
(* The lists that a scan of an array builds.                               *)
(***************************************************************************)

\* An index of the list has its own position, and every position is taken.
LEMMA RankIsPosition ==
  ASSUME NEW S \in SUBSET Nat, IsFiniteSet(S)
  PROVE  /\ \A i \in S : Rank(S, i) \in 0 .. Cardinality(S) - 1
         /\ \A i, j \in S : Rank(S, i) = Rank(S, j) => i = j
         /\ \A l \in 0 .. Cardinality(S) - 1 : \E i \in S : Rank(S, i) = l
  <1> DEFINE below(i) == {k \in S : k < i}
  <1>1. \A T \in SUBSET S : IsFiniteSet(T) /\ Cardinality(T) \in Nat
    BY FS_Subset, FS_CardinalityType
  <1>2. \A i \in S : below(i) \in SUBSET S /\ i \notin below(i)
    OBVIOUS
  <1>3. ASSUME NEW i \in S, NEW T \in SUBSET S, below(i) \subseteq T, i \in T
        PROVE  Cardinality(below(i)) < Cardinality(T)
    <2> HIDE DEF below
    <2>1. IsFiniteSet(T) /\ IsFiniteSet(T \ {i}) /\ Cardinality(T) \in Nat
      BY <1>1
    <2>2. Cardinality(T \ {i}) = Cardinality(T) - 1
      BY <1>3, <2>1, FS_RemoveElement
    <2>3. below(i) \subseteq T \ {i}
      BY <1>2, <1>3
    <2>4. Cardinality(below(i)) <= Cardinality(T \ {i})
      BY <2>1, <2>3, FS_Subset
    <2>5. Cardinality(below(i)) \in Nat
      BY <1>1, <1>2
    <2> QED
      BY <2>1, <2>2, <2>4, <2>5
  <1>4. \A i \in S : Rank(S, i) = Cardinality(below(i))
    BY DEF Rank
  <1>5. ASSUME NEW i \in S
        PROVE  Rank(S, i) \in 0 .. Cardinality(S) - 1
    <2>1. Cardinality(below(i)) < Cardinality(S)
      BY <1>2, <1>3
    <2>2. Cardinality(below(i)) \in Nat /\ Cardinality(S) \in Nat
      BY <1>1, <1>2
    <2> HIDE DEF below
    <2> QED
      BY <1>4, <2>1, <2>2
  <1>6. ASSUME NEW i \in S, NEW j \in S, Rank(S, i) = Rank(S, j)
        PROVE  i = j
    <2>1. ASSUME NEW x \in S, NEW y \in S, x < y
          PROVE  Rank(S, x) < Rank(S, y)
      <3>1. below(x) \subseteq below(y) /\ x \in below(y) /\ below(y) \in SUBSET S
        <4>1. \A k \in S : k \in Nat
          OBVIOUS
        <4>2. \A k \in S : k < x => k < y
          BY <2>1, <4>1
        <4> QED
          BY <2>1, <4>2
      <3> HIDE DEF below
      <3>2. Cardinality(below(x)) < Cardinality(below(y))
        BY <1>3, <3>1
      <3> QED
        BY <1>4, <3>2
    <2>2. Rank(S, i) \in Int
      BY <1>5
    <2>3. i \in Nat /\ j \in Nat
      OBVIOUS
    <2>4. ~(i < j) /\ ~(j < i)
      BY <1>6, <2>1, <2>2
    <2> QED
      BY <2>3, <2>4
  <1>7. ASSUME NEW l \in 0 .. Cardinality(S) - 1, \A i \in S : Rank(S, i) # l
        PROVE  FALSE
    <2> DEFINE n == Cardinality(S)
               others == (0 .. n - 1) \ {l}
               rank   == [i \in S |-> Rank(S, i)]
    <2>1. n \in Nat
      BY <1>1
    <2>2. IsFiniteSet(0 .. n - 1) /\ Cardinality(0 .. n - 1) = n
      BY <2>1, FS_Interval
    <2>3. IsFiniteSet(others) /\ Cardinality(others) = n - 1
      BY <2>2, FS_RemoveElement
    <2>4. rank \in [S -> others]
      BY <1>5, <1>7
    <2> HIDE DEF others
    <2>5. Cardinality(others) < Cardinality(S)
      BY <2>1, <2>3
    <2>6. \E x, y \in S : x # y /\ rank[x] = rank[y]
      <3> HIDE DEF rank
      <3> QED
        BY <2>3, <2>4, <2>5, FS_PigeonHole
    <2> QED
      BY <1>6, <2>6
  <1> QED
    BY <1>5, <1>6, <1>7

-----------------------------------------------------------------------------
(***************************************************************************)
(* The invariant.                                                          *)
(***************************************************************************)
ExbEntry  == [busy : {TRUE}, qr : Slot, cycles : Latency, j : OperandType, k : OperandType]
UnitEntry == [busy : {TRUE}, qr : Slot, left : Nat, result : Word]
LaneEntry == [busy : {TRUE}, qr : Slot, result : Word]

PlacesTyped ==
  /\ exb \in [EntryId -> {None} \cup ExbEntry]
  /\ units \in [Unit -> {None} \cup UnitEntry]
  /\ lane \in [Lane -> {None} \cup LaneEntry]

\* A dirty register waits for an instruction in flight that writes it.
DirtyIsInFlight ==
  \A r \in Reg : reg_d[r] => r # 0 /\ reg_s[r] \in InRob /\ rob_dest[reg_s[r]] = r

\* The instructions that have no result yet.
Undone == {s \in InRob : ~rob_done[s]}

Waits(e) == e.j.q \cup e.k.q

\* Before the first write-back the lanes hold what malloc left there.
Fresh ==
  cnt = 0 /\ Busy(exb) = {} /\ Busy(units) = {} /\ phase \in {"commit", "write_back"}

Holding ==
  /\ \A i \in Busy(exb) : exb[i].qr \in Undone /\ Waits(exb[i]) \subseteq Undone
  /\ \A u \in Busy(units) : units[u].qr \in Undone
  /\ Fresh \/ \A l \in Busy(lane) : lane[l].qr \in Undone

\* No two places hold the same instruction, and what is on the bus has been
\* heard by all who wait for it.
Apart ==
  /\ \A i, m \in Busy(exb) : exb[i].qr = exb[m].qr => i = m
  /\ \A u, v \in Busy(units) : units[u].qr = units[v].qr => u = v
  /\ Fresh \/ \A l, m \in Busy(lane) : lane[l].qr = lane[m].qr => l = m
  /\ \A i \in Busy(exb), u \in Busy(units) : exb[i].qr # units[u].qr
  /\ \A i \in Busy(exb), l \in Busy(lane) : lane[l].qr \notin {exb[i].qr} \cup Waits(exb[i])
  /\ \A u \in Busy(units), l \in Busy(lane) : units[u].qr # lane[l].qr

EngInv ==
  /\ SwRobTypeOK /\ PlacesTyped
  /\ Ring /\ DirtyIsInFlight
  /\ Holding /\ Apart

\* A place is busy exactly when there is something in it.
PlacesShape ==
  /\ \A i : i \in Busy(exb)   <=> i \in EntryId /\ exb[i] \in ExbEntry
  /\ \A u : u \in Busy(units) <=> u \in Unit /\ units[u] \in UnitEntry
  /\ \A l : l \in Busy(lane)  <=> l \in Lane /\ lane[l] \in LaneEntry
  /\ \A i \in EntryId \ Busy(exb) : exb[i] = None
  /\ \A u \in Unit \ Busy(units) : units[u] = None

LEMMA OnlyEntriesAreBusy ==
  /\ ~None.busy
  /\ \A e \in ExbEntry : e.busy
  /\ \A e \in UnitEntry : e.busy
  /\ \A e \in LaneEntry : e.busy
  /\ None \notin ExbEntry /\ None \notin UnitEntry /\ None \notin LaneEntry
  <1>1. ~None.busy
    BY DEF None
  <1>2. \A e \in ExbEntry : e.busy
    BY DEF ExbEntry
  <1>3. \A e \in UnitEntry : e.busy
    BY DEF UnitEntry
  <1>4. \A e \in LaneEntry : e.busy
    BY DEF LaneEntry
  <1> QED
    BY <1>1, <1>2, <1>3, <1>4

LEMMA PlacesAreShaped == PlacesTyped => PlacesShape
  <1> SUFFICES ASSUME PlacesTyped PROVE PlacesShape
    OBVIOUS
  <1>1. \A i : i \in Busy(exb) <=> i \in EntryId /\ exb[i] \in ExbEntry
    BY OnlyEntriesAreBusy DEF PlacesTyped, Busy
  <1>2. \A u : u \in Busy(units) <=> u \in Unit /\ units[u] \in UnitEntry
    BY OnlyEntriesAreBusy DEF PlacesTyped, Busy
  <1>3. \A l : l \in Busy(lane) <=> l \in Lane /\ lane[l] \in LaneEntry
    BY OnlyEntriesAreBusy DEF PlacesTyped, Busy
  <1>4. \A i \in EntryId \ Busy(exb) : exb[i] = None
    BY <1>1 DEF PlacesTyped
  <1>5. \A u \in Unit \ Busy(units) : units[u] = None
    BY <1>2 DEF PlacesTyped
  <1> QED
    BY <1>1, <1>2, <1>3, <1>4, <1>5 DEF PlacesShape

LEMMA PlacesShapeNext == PlacesTyped' => PlacesShape'
  <1>1. (PlacesTyped => PlacesShape)'
    BY PlacesAreShaped, PTL
  <1> QED
    BY <1>1

LEMMA EngineInitInv == EngineInit => EngInv
  <1> SUFFICES ASSUME EngineInit PROVE EngInv
    OBVIOUS
  <1>1. 0 \in Slot
    BY SwSizeAssumption DEF Slot
  <1>2. SwRobTypeOK
    BY <1>1, SwSizeAssumption, WordAssumption
       DEF EngineInit, RobInit, RegInit, SwRobTypeOK
  <1>3. PlacesTyped
    BY DEF EngineInit, PlacesTyped, LaneEntry
  <1>4. Busy(exb) = {} /\ Busy(units) = {}
    BY DEF EngineInit, Busy, None
  <1>5. Fresh
    BY <1>4 DEF Fresh, EngineInit, RobInit
  <1>6. Ring
    <2>1. commit_ptr = 0 /\ cnt = 0 /\ issue_ptr = 0 /\ commit_ptr \in Slot
      BY <1>1 DEF EngineInit, RobInit
    <2>2. Nth(1) = commit_ptr
      BY <2>1, RingPositions
    <2> QED
      BY <1>2, <2>1, <2>2 DEF Ring, SwRobTypeOK
  <1>7. DirtyIsInFlight
    BY DEF EngineInit, RegInit, DirtyIsInFlight
  <1>8. Holding /\ Apart
    BY <1>4, <1>5 DEF Holding, Apart
  <1> QED
    BY <1>2, <1>3, <1>6, <1>7, <1>8 DEF EngInv

-----------------------------------------------------------------------------
(***************************************************************************)
(* The stages.                                                             *)
(***************************************************************************)

\* commit() finds nobody who waits for what it commits.
LEMMA NothingToForward ==
  ASSUME EngInv, CanCommit, NEW w
  PROVE  ForwardCommit([qr |-> commit_ptr, result |-> w]) = exb
  <1> DEFINE word == [qr |-> commit_ptr, result |-> w]
             waiting == {i \in Busy(exb) : word.qr \in exb[i].j.q \/ word.qr \in exb[i].k.q}
  <1>1. commit_ptr \notin Undone
    BY DEF CanCommit, Undone
  <1>2. waiting = {}
    BY <1>1 DEF EngInv, Holding, Waits
  <1> QED
    BY <1>2, Zenon DEF ForwardCommit

LEMMA CommitKeeps ==
  ASSUME EngInv, Commit
  PROVE  EngInv'
  <1>1. CASE ~CanCommit
    <2>1. UNCHANGED <<robVars, regVars, exb, units, lane>> /\ phase' = "write_back"
          /\ phase = "commit"
      BY <1>1 DEF Commit
    <2>2. /\ UNCHANGED <<rob_dest, rob_data, rob_done, commit_ptr, issue_ptr, cnt>>
          /\ UNCHANGED <<reg_x, reg_s, reg_d, exb, units, lane>>
      BY <2>1 DEF robVars, regVars
    <2>3. Fresh => Fresh'
      BY <2>1, <2>2 DEF Fresh, Busy
    <2>4. SwRobTypeOK' /\ PlacesTyped' /\ Ring' /\ InRob' = InRob
      BY <2>2, RingUnchanged DEF EngInv, SwRobTypeOK, PlacesTyped
    <2>5. DirtyIsInFlight' /\ Undone' = Undone
      BY <2>2, <2>4 DEF EngInv, DirtyIsInFlight, Undone
    <2>6. Holding' /\ Apart'
      BY <2>2, <2>3, <2>5 DEF EngInv, Holding, Apart, Busy, Waits
    <2> QED
      BY <2>4, <2>5, <2>6 DEF EngInv
  <1>2. CASE CanCommit
    <2>1. /\ rob_commit
          /\ reg_write_data(rob_dest[commit_ptr], rob_data[commit_ptr])
          /\ UNCHANGED <<exb, units, lane>>
      BY <1>2, NothingToForward DEF Commit
    <2>2. UNCHANGED <<rob_dest, rob_data, rob_done>>
      BY <2>1 DEF rob_commit
    <2>3. Ring' /\ commit_ptr \in InRob /\ InRob' = InRob \ {commit_ptr}
      BY <2>1, RingAfterCommit DEF EngInv
    <2>4. Undone' = Undone
      BY <1>2, <2>2, <2>3 DEF Undone, CanCommit
    <2>5. commit_ptr \in Slot
      BY DEF EngInv, Ring
    <2>6. SwRobTypeOK'
      BY <2>1, <2>2, <2>3, <2>5 DEF EngInv, SwRobTypeOK, reg_write_data, Ring
    <2>7. DirtyIsInFlight'
      <3>1. ASSUME NEW r \in Reg, reg_d'[r]
            PROVE  r # 0 /\ reg_s'[r] \in InRob' /\ rob_dest'[reg_s'[r]] = r
        <4>1. reg_d[r] /\ (r # rob_dest[commit_ptr] \/ r = 0) /\ reg_s' = reg_s
          BY <2>1, <3>1 DEF reg_write_data
        <4>2. r # 0 /\ reg_s[r] \in InRob /\ rob_dest[reg_s[r]] = r
          BY <4>1 DEF EngInv, DirtyIsInFlight
        <4> QED
          BY <2>2, <2>3, <4>1, <4>2
      <3> QED
        BY <3>1 DEF DirtyIsInFlight
    <2>8. ~Fresh
      BY <1>2 DEF CanCommit, Fresh
    <2>9. PlacesTyped' /\ Holding' /\ Apart'
      BY <2>1, <2>4, <2>8 DEF EngInv, PlacesTyped, Holding, Apart, Busy, Waits
    <2> QED
      BY <2>3, <2>6, <2>7, <2>9 DEF EngInv
  <1> QED
    BY <1>1, <1>2

LEMMA ExecuteKeeps ==
  ASSUME EngInv, Execute
  PROVE  EngInv'
  <1>1. /\ UNCHANGED <<rob_dest, rob_data, rob_done, commit_ptr, issue_ptr, cnt>>
        /\ UNCHANGED <<reg_x, reg_s, reg_d, exb, lane>>
        /\ phase = "execute"
    BY DEF Execute, robVars, regVars
  <1>2. PlacesShape
    BY PlacesAreShaped DEF EngInv
  <1>3. ASSUME NEW u \in Unit
        PROVE  /\ units'[u] \in {None} \cup UnitEntry
               /\ units'[u] \in UnitEntry => u \in Busy(units) /\ units'[u].qr = units[u].qr
    <2>1. CASE units[u].busy /\ units[u].left # 0
      <3>1. units'[u] = [units[u] EXCEPT !.left = @ - 1]
        BY <2>1 DEF Execute
      <3>2. u \in Busy(units) /\ units[u] \in UnitEntry
        BY <1>2, <2>1 DEF EngInv, PlacesTyped, Busy, PlacesShape
      <3>3. units[u].left \in Nat /\ units[u].left # 0
        BY <2>1, <3>2 DEF UnitEntry
      <3>4. units[u].left - 1 \in Nat
        BY <3>3
      <3> QED
        BY <3>1, <3>2, <3>4 DEF UnitEntry
    <2>2. CASE ~(units[u].busy /\ units[u].left # 0)
      <3>1. units'[u] = units[u]
        BY <2>2 DEF Execute
      <3> QED
        BY <1>2, <3>1 DEF EngInv, PlacesTyped, PlacesShape
    <2> QED
      BY <2>1, <2>2
  <1>4. PlacesTyped'
    <2>1. units' = [u \in Unit |-> units'[u]]
      BY DEF Execute
    <2> QED
      BY <1>1, <1>3, <2>1 DEF EngInv, PlacesTyped
  <1>5. \A u \in Busy(units') : u \in Busy(units) /\ units'[u].qr = units[u].qr
    BY <1>3, <1>4, PlacesShapeNext DEF PlacesShape
  <1>6. SwRobTypeOK' /\ Ring' /\ InRob' = InRob
    BY <1>1, RingUnchanged DEF EngInv, SwRobTypeOK
  <1>7. DirtyIsInFlight' /\ Undone' = Undone
    BY <1>1, <1>6 DEF EngInv, DirtyIsInFlight, Undone
  <1>8. ~Fresh
    BY <1>1 DEF Fresh
  <1>9. Holding'
    BY <1>1, <1>5, <1>7, <1>8 DEF EngInv, Holding, Waits
  <1>10. Apart'
    BY <1>1, <1>5, <1>8 DEF EngInv, Apart, Waits
  <1> QED
    BY <1>4, <1>6, <1>7, <1>9, <1>10 DEF EngInv

-----------------------------------------------------------------------------
(***************************************************************************)
(* The write-back.                                                         *)
(***************************************************************************)

\* An operand that hears the bus stays an operand, and waits no longer for
\* what is on it.
LEMMA ReceiveKeeps ==
  ASSUME NEW o \in OperandType, NEW words, \A w \in words : w.result \in Word
  PROVE  /\ Receive(o, words) \in OperandType
         /\ Receive(o, words).q \subseteq o.q
         /\ \A w \in words : w.qr \notin Receive(o, words).q
  <1>1. CASE \E w \in words : w.qr \in o.q
    <2> DEFINE x == CHOOSE w \in words : w.qr \in o.q
    <2>1. x \in words
      BY <1>1
    <2>2. Receive(o, words) = [q |-> {}, v |-> {x.result}]
      BY <1>1 DEF Receive
    <2> HIDE DEF x
    <2>3. x.result \in Word
      BY <2>1
    <2> QED
      BY <2>2, <2>3 DEF OperandType
  <1>2. CASE ~ \E w \in words : w.qr \in o.q
    <2>1. Receive(o, words) = o
      BY <1>2 DEF Receive
    <2> QED
      BY <1>2, <2>1
  <1> QED
    BY <1>1, <1>2

\* An entry of the execution buffer that hears the bus.
Received(e, words) ==
  [e EXCEPT !.j = Receive(@, words), !.k = Receive(@, words)]

LEMMA ReceivedKeeps ==
  ASSUME NEW e \in ExbEntry, NEW words, \A w \in words : w.result \in Word
  PROVE  /\ Received(e, words) \in ExbEntry
         /\ Received(e, words).qr = e.qr
         /\ Waits(Received(e, words)) \subseteq Waits(e)
         /\ \A w \in words : w.qr \notin Waits(Received(e, words))
  <1>1. e.j \in OperandType /\ e.k \in OperandType
    BY DEF ExbEntry
  <1> DEFINE jj == Receive(e.j, words)
             kk == Receive(e.k, words)
             half == [e EXCEPT !.j = jj]
  <1>2. /\ jj \in OperandType /\ jj.q \subseteq e.j.q
        /\ \A w \in words : w.qr \notin jj.q
    BY <1>1, ReceiveKeeps
  <1>3. /\ kk \in OperandType /\ kk.q \subseteq e.k.q
        /\ \A w \in words : w.qr \notin kk.q
    BY <1>1, ReceiveKeeps
  <1>4. half \in ExbEntry /\ half.qr = e.qr /\ half.j = jj /\ half.k = e.k
    <2> HIDE DEF jj
    <2> QED
      BY <1>2 DEF ExbEntry
  <1>5. Received(e, words) = [half EXCEPT !.k = kk]
    <2>1. Received(e, words) = [half EXCEPT !.k = Receive(@, words)]
      BY DEF Received
    <2> HIDE DEF half, jj
    <2> QED
      BY <1>4, <2>1
  <1>6. /\ Received(e, words) \in ExbEntry /\ Received(e, words).qr = e.qr
        /\ Received(e, words).j = jj /\ Received(e, words).k = kk
    <2> HIDE DEF half, jj, kk
    <2> QED
      BY <1>3, <1>4, <1>5 DEF ExbEntry
  <1> HIDE DEF half, jj, kk
  <1> QED
    BY <1>2, <1>3, <1>6 DEF Waits

\* The word of a unit that has finished.
WordOf(u) == [busy |-> TRUE, qr |-> units[u].qr, result |-> units[u].result]

\* A lane carries the word of one finished unit, which no other lane does.
LaneWordsSpread ==
  /\ \A l \in Lane : \/ LaneWord(l) = None
                     \/ \E u \in Done : Rank(Done, u) = l /\ LaneWord(l) = WordOf(u)
  /\ \A u \in Done : Rank(Done, u) \in Lane => LaneWord(Rank(Done, u)) = WordOf(u)
  /\ \A u \in Done : Rank(Done, u) \in 0 .. Cardinality(Done) - 1
  /\ IsFiniteSet(Done) /\ Done \in SUBSET Unit

LEMMA LaneWords == PlacesTyped => LaneWordsSpread
  <1> SUFFICES ASSUME PlacesTyped PROVE LaneWordsSpread
    OBVIOUS
  <1>1. Done \in SUBSET Unit /\ Done \in SUBSET Nat /\ IsFiniteSet(Done)
    <2>1. Done \subseteq Unit
      BY PlacesAreShaped DEF Done, PlacesShape
    <2>2. IsFiniteSet(Unit)
      BY EngineAssumption, FS_Interval DEF Unit
    <2>3. Unit \subseteq Nat
      BY DEF Unit
    <2> QED
      BY <2>1, <2>2, <2>3, FS_Subset
  <1>2. /\ \A u \in Done : Rank(Done, u) \in 0 .. Cardinality(Done) - 1
        /\ \A u, v \in Done : Rank(Done, u) = Rank(Done, v) => u = v
        /\ \A l \in 0 .. Cardinality(Done) - 1 : \E u \in Done : Rank(Done, u) = l
    BY <1>1, RankIsPosition
  <1>3. Cardinality(Done) \in Nat
    BY <1>1, FS_CardinalityType
  <1>4. ASSUME NEW u \in Done, NEW l, l = Rank(Done, u)
        PROVE  LaneWord(l) = WordOf(u)
    <2> DEFINE v == CHOOSE v \in Done : Rank(Done, v) = l
    <2>1. v \in Done /\ Rank(Done, v) = l
      BY <1>4
    <2>2. v = u
      BY <1>2, <1>4, <2>1
    <2>3. l < Cardinality(Done)
      BY <1>2, <1>3, <1>4
    <2>4. LaneWord(l) = WordOf(v)
      BY <2>3 DEF LaneWord, WordOf
    <2> QED
      BY <2>2, <2>4
  <1>5. ASSUME NEW l \in Lane, LaneWord(l) # None
        PROVE  \E u \in Done : Rank(Done, u) = l
    <2>1. l < Cardinality(Done)
      BY <1>5 DEF LaneWord
    <2>2. l \in 0 .. Cardinality(Done) - 1
      BY <1>3, <2>1, EngineAssumption DEF Lane
    <2> QED
      BY <1>2, <2>2
  <1> QED
    BY <1>1, <1>2, <1>4, <1>5 DEF LaneWordsSpread

\* The words on the bus are marked done; nobody else is.
LEMMA UndoneAfterWrite ==
  ASSUME EngInv, rob_write(Words(lane))
  PROVE  /\ rob_data' \in [Slot -> Word] /\ rob_done' \in [Slot -> BOOLEAN]
         /\ Undone' = {s \in Undone : \A l \in Busy(lane) : lane[l].qr # s}
  <1>1. PlacesShape
    BY PlacesAreShaped DEF EngInv
  <1>2. \A w \in Words(lane) : w.result \in Word
    BY <1>1 DEF Words, PlacesShape, LaneEntry
  <1>3. rob_data' \in [Slot -> Word]
    <2>1. ASSUME NEW s \in Slot
          PROVE  rob_data'[s] \in Word
      <3>1. CASE \E w \in Words(lane) : w.qr = s
        <4> DEFINE x == CHOOSE w \in Words(lane) : w.qr = s
        <4>1. x \in Words(lane)
          BY <3>1
        <4>2. rob_data'[s] = x.result
          BY <3>1 DEF rob_write
        <4> HIDE DEF x
        <4> QED
          BY <1>2, <4>1, <4>2
      <3>2. CASE ~ \E w \in Words(lane) : w.qr = s
        <4>1. rob_data'[s] = rob_data[s]
          BY <3>2 DEF rob_write
        <4> QED
          BY <4>1 DEF EngInv, SwRobTypeOK
      <3> QED
        BY <3>1, <3>2
    <2>2. rob_data' = [s \in Slot |-> rob_data'[s]]
      BY Zenon DEF rob_write
    <2> QED
      BY <2>1, <2>2
  <1>4. rob_done' \in [Slot -> BOOLEAN]
    BY Zenon DEF rob_write
  <1>5. \A s \in Slot : rob_done'[s] <=> rob_done[s] \/ \E l \in Busy(lane) : lane[l].qr = s
    BY DEF rob_write, Words
  <1>6. InRob' = InRob /\ InRob \subseteq Slot
    BY RingUnchanged, InRobIsSlots DEF EngInv, rob_write
  <1> QED
    BY <1>3, <1>4, <1>5, <1>6 DEF Undone

LEMMA WriteBackKeeps ==
  ASSUME EngInv, WriteBack
  PROVE  EngInv'
  <1>1. PlacesShape /\ LaneWordsSpread
    BY PlacesAreShaped, LaneWords DEF EngInv
  <1>2. /\ rob_write(Words(lane)) /\ UNCHANGED <<reg_x, reg_s, reg_d>>
        /\ phase = "write_back" /\ phase' = "execute"
        /\ lane' = [l \in Lane |-> LaneWord(l)]
        /\ units' = [u \in Unit |-> IF u \in Done THEN None ELSE units[u]]
        /\ exb' = [i \in EntryId |-> IF i \in Busy(exb) THEN Received(exb[i], Words(lane'))
                                     ELSE exb[i]]
    BY Zenon DEF WriteBack, regVars, Received
  <1>3. Ring' /\ InRob' = InRob
    BY <1>2, RingUnchanged DEF EngInv, rob_write
  <1>4. /\ rob_data' \in [Slot -> Word] /\ rob_done' \in [Slot -> BOOLEAN]
        /\ Undone' = {s \in Undone : \A l \in Busy(lane) : lane[l].qr # s}
    BY <1>2, UndoneAfterWrite
  <1>5. SwRobTypeOK' /\ DirtyIsInFlight'
    BY <1>2, <1>3, <1>4 DEF EngInv, SwRobTypeOK, rob_write, Ring, DirtyIsInFlight
  <1>6. ASSUME NEW u \in Unit
        PROVE  /\ units'[u] \in {None} \cup UnitEntry
               /\ units'[u] \in UnitEntry => u \in Busy(units) \ Done /\ units'[u] = units[u]
    <2>1. CASE u \in Done
      <3>1. units'[u] = None
        BY <1>2, <2>1
      <3> QED
        BY <3>1, OnlyEntriesAreBusy
    <2>2. CASE u \notin Done
      <3>1. units'[u] = units[u]
        BY <1>2, <2>2
      <3> QED
        BY <1>1, <2>2, <3>1 DEF EngInv, PlacesTyped, PlacesShape
    <2> QED
      BY <2>1, <2>2
  <1>7. ASSUME NEW u \in Done
        PROVE  u \in Busy(units) /\ WordOf(u) \in LaneEntry /\ WordOf(u).qr = units[u].qr
    <2>1. u \in Busy(units) /\ units[u] \in UnitEntry
      BY <1>1 DEF Done, PlacesShape
    <2> QED
      BY <2>1 DEF UnitEntry, LaneEntry, WordOf
  <1>8. ASSUME NEW l \in Lane
        PROVE  /\ lane'[l] \in {None} \cup LaneEntry
               /\ lane'[l] \in LaneEntry => \E u \in Done : Rank(Done, u) = l /\ lane'[l].qr = units[u].qr
    <2>1. lane'[l] = LaneWord(l)
      BY <1>2, Zenon
    <2> QED
      BY <1>1, <1>7, <2>1, OnlyEntriesAreBusy DEF LaneWordsSpread
  <1>9. lane' \in [Lane -> {None} \cup LaneEntry]
    <2>1. lane' = [l \in Lane |-> lane'[l]]
      BY <1>2, Zenon
    <2> QED
      BY <1>8, <2>1
  <1>10. \A w \in Words(lane') : w.result \in Word
    <2>1. \A l \in Busy(lane') : lane'[l] \in LaneEntry
      BY <1>9, OnlyEntriesAreBusy DEF Busy
    <2> QED
      BY <2>1 DEF Words, LaneEntry
  <1>11. ASSUME NEW i \in EntryId
         PROVE  /\ exb'[i] \in {None} \cup ExbEntry
                /\ exb'[i] \in ExbEntry =>
                     /\ i \in Busy(exb) /\ exb'[i].qr = exb[i].qr
                     /\ Waits(exb'[i]) \subseteq Waits(exb[i])
                     /\ \A w \in Words(lane') : w.qr \notin Waits(exb'[i])
    <2>1. CASE i \in Busy(exb)
      <3>1. exb'[i] = Received(exb[i], Words(lane')) /\ exb[i] \in ExbEntry
        BY <1>1, <1>2, <2>1 DEF PlacesShape
      <3> QED
        BY <1>10, <2>1, <3>1, ReceivedKeeps
    <2>2. CASE i \notin Busy(exb)
      <3>1. exb'[i] = exb[i] /\ exb[i] = None
        BY <1>1, <1>2, <2>2 DEF PlacesShape
      <3> QED
        BY <3>1, OnlyEntriesAreBusy
    <2> QED
      BY <2>1, <2>2
  <1>12. PlacesTyped'
    <2>1. /\ units' = [u \in Unit |-> units'[u]]
          /\ exb' = [i \in EntryId |-> exb'[i]]
      BY <1>2, Zenon
    <2> QED
      BY <1>6, <1>9, <1>11, <2>1 DEF PlacesTyped
  <1>13. PlacesShape'
    BY <1>12, PlacesShapeNext
  <1>14. \A i \in Busy(exb') : /\ i \in Busy(exb) /\ exb'[i].qr = exb[i].qr
                               /\ Waits(exb'[i]) \subseteq Waits(exb[i])
                               /\ \A l \in Busy(lane') : lane'[l].qr \notin Waits(exb'[i])
    BY <1>11, <1>13 DEF PlacesShape, Words
  <1>15. \A u \in Busy(units') : u \in Busy(units) \ Done /\ units'[u].qr = units[u].qr
    BY <1>6, <1>13 DEF PlacesShape
  <1>16. \A l \in Busy(lane') : \E u \in Done : Rank(Done, u) = l /\ lane'[l].qr = units[u].qr
    BY <1>8, <1>13 DEF PlacesShape
  <1>17. \A u \in Done : u \in Busy(units)
    BY <1>7
  <1>18. Holding'
    <2>1. \A i \in Busy(exb) : exb[i].qr \in Undone' /\ Waits(exb[i]) \subseteq Undone'
      BY <1>4 DEF EngInv, Holding, Apart
    <2>2. \A u \in Busy(units) : units[u].qr \in Undone'
      BY <1>4 DEF EngInv, Holding, Apart
    <2>3. \A i \in Busy(exb') : exb'[i].qr \in Undone' /\ Waits(exb'[i]) \subseteq Undone'
      BY <1>14, <2>1
    <2>4. \A u \in Busy(units') : units'[u].qr \in Undone'
      BY <1>15, <2>2
    <2>5. \A l \in Busy(lane') : lane'[l].qr \in Undone'
      BY <1>16, <1>17, <2>2
    <2> QED
      BY <2>3, <2>4, <2>5 DEF Holding
  <1>19. Apart'
    <2>1. /\ \A i, m \in Busy(exb) : exb[i].qr = exb[m].qr => i = m
          /\ \A u, v \in Busy(units) : units[u].qr = units[v].qr => u = v
          /\ \A i \in Busy(exb), u \in Busy(units) : exb[i].qr # units[u].qr
      BY DEF EngInv, Apart
    <2>2. \A i, m \in Busy(exb') : exb'[i].qr = exb'[m].qr => i = m
      BY <1>14, <2>1
    <2>3. \A u, v \in Busy(units') : units'[u].qr = units'[v].qr => u = v
      BY <1>15, <2>1
    <2>4. \A l, m \in Busy(lane') : lane'[l].qr = lane'[m].qr => l = m
      BY <1>16, <1>17, <2>1
    <2>5. \A i \in Busy(exb'), u \in Busy(units') : exb'[i].qr # units'[u].qr
      BY <1>14, <1>15, <2>1
    <2>6. \A i \in Busy(exb'), l \in Busy(lane') : lane'[l].qr \notin {exb'[i].qr} \cup Waits(exb'[i])
      BY <1>14, <1>16, <1>17, <2>1
    <2>7. \A u \in Busy(units'), l \in Busy(lane') : units'[u].qr # lane'[l].qr
      BY <1>15, <1>16, <1>17, <2>1
    <2> QED
      BY <2>2, <2>3, <2>4, <2>5, <2>6, <2>7 DEF Apart
  <1> QED
    BY <1>3, <1>5, <1>12, <1>18, <1>19 DEF EngInv

-----------------------------------------------------------------------------
(***************************************************************************)
(* The issue: entry i goes to unit u when they have the same position, one *)
(* among the ready entries and the other among the idle units.             *)
(***************************************************************************)
Ready == {i \in Busy(exb) : exb[i].j.q = {} /\ exb[i].k.q = {}}
Idle  == Unit \ Busy(units)

Taken(i, u) == i \in Ready /\ u \in Idle /\ Rank(Ready, i) = Rank(Idle, u)

Loaded(e, w) == [busy |-> TRUE, qr |-> e.qr, left |-> e.cycles, result |-> w]

LEMMA TakenOnce ==
  ASSUME PlacesTyped, NEW i, NEW m, NEW u, NEW v, Taken(i, u), Taken(m, v)
  PROVE  i = m <=> u = v
  <1>1. Ready \in SUBSET Nat /\ IsFiniteSet(Ready)
    <2>1. Ready \subseteq EntryId
      BY PlacesAreShaped DEF Ready, PlacesShape
    <2>2. IsFiniteSet(EntryId) /\ EntryId \subseteq Nat
      BY EngineAssumption, FS_Interval DEF EntryId
    <2> QED
      BY <2>1, <2>2, FS_Subset
  <1>2. Idle \in SUBSET Nat /\ IsFiniteSet(Idle)
    <2>1. Idle \subseteq Unit
      BY DEF Idle
    <2>2. IsFiniteSet(Unit) /\ Unit \subseteq Nat
      BY EngineAssumption, FS_Interval DEF Unit
    <2> QED
      BY <2>1, <2>2, FS_Subset
  <1>3. \A a, b \in Ready : Rank(Ready, a) = Rank(Ready, b) => a = b
    BY <1>1, RankIsPosition
  <1>4. \A a, b \in Idle : Rank(Idle, a) = Rank(Idle, b) => a = b
    BY <1>2, RankIsPosition
  <1> QED
    BY <1>3, <1>4 DEF Taken

LEMMA IssueKeeps ==
  ASSUME EngInv, Issue
  PROVE  EngInv'
  <1>1. PlacesShape
    BY PlacesAreShaped DEF EngInv
  <1>2. /\ UNCHANGED <<rob_dest, rob_data, rob_done, commit_ptr, issue_ptr, cnt>>
        /\ UNCHANGED <<reg_x, reg_s, reg_d, lane>>
        /\ phase = "issue"
        /\ exb' = [i \in EntryId |-> IF \E u \in Unit : Taken(i, u) THEN None ELSE exb[i]]
    BY Zenon DEF Issue, robVars, regVars, Taken, Ready, Idle
  <1>3. PICK word \in [Unit -> Word] :
          units' = [u \in Unit |-> IF \E i \in EntryId : Taken(i, u)
                      THEN Loaded(exb[CHOOSE i \in EntryId : Taken(i, u)], word[u])
                      ELSE units[u]]
    BY Zenon DEF Issue, Taken, Ready, Idle, Loaded
  <1>4. ASSUME NEW u \in Unit
        PROVE  /\ units'[u] \in {None} \cup UnitEntry
               /\ units'[u] \in UnitEntry =>
                    \/ u \in Busy(units) /\ units'[u].qr = units[u].qr
                    \/ \E i \in Busy(exb) : Taken(i, u) /\ units'[u].qr = exb[i].qr
    <2>1. CASE \E i \in EntryId : Taken(i, u)
      <3> DEFINE x == CHOOSE i \in EntryId : Taken(i, u)
      <3>1. x \in EntryId /\ Taken(x, u)
        BY <2>1
      <3>2. units'[u] = Loaded(exb[x], word[u])
        BY <1>3, <2>1, Zenon
      <3> HIDE DEF x
      <3>3. x \in Busy(exb) /\ exb[x] \in ExbEntry
        BY <1>1, <3>1 DEF Taken, Ready, PlacesShape
      <3>4. Loaded(exb[x], word[u]) \in UnitEntry /\ Loaded(exb[x], word[u]).qr = exb[x].qr
        BY <1>3, <3>3, EngineAssumption DEF Loaded, UnitEntry, ExbEntry
      <3> QED
        BY <3>1, <3>2, <3>3, <3>4
    <2>2. CASE ~ \E i \in EntryId : Taken(i, u)
      <3>1. units'[u] = units[u]
        BY <1>3, <2>2, Zenon
      <3> QED
        BY <1>1, <3>1 DEF EngInv, PlacesTyped, PlacesShape
    <2> QED
      BY <2>1, <2>2
  <1>5. ASSUME NEW i \in EntryId
        PROVE  /\ exb'[i] \in {None} \cup ExbEntry
               /\ exb'[i] \in ExbEntry =>
                    i \in Busy(exb) /\ exb'[i] = exb[i] /\ ~ \E u \in Unit : Taken(i, u)
    <2>1. CASE \E u \in Unit : Taken(i, u)
      <3>1. exb'[i] = None
        BY <1>2, <2>1, Zenon
      <3> QED
        BY <3>1, OnlyEntriesAreBusy
    <2>2. CASE ~ \E u \in Unit : Taken(i, u)
      <3>1. exb'[i] = exb[i]
        BY <1>2, <2>2, Zenon
      <3> QED
        BY <1>1, <2>2, <3>1 DEF EngInv, PlacesTyped, PlacesShape
    <2> QED
      BY <2>1, <2>2
  <1>6. PlacesTyped'
    <2>1. units' = [u \in Unit |-> units'[u]]
      BY <1>3, Zenon
    <2>2. exb' = [i \in EntryId |-> exb'[i]]
      BY <1>2, Zenon
    <2> QED
      BY <1>2, <1>4, <1>5, <2>1, <2>2 DEF EngInv, PlacesTyped
  <1>7. \A u \in Busy(units') :
          /\ u \in Unit
          /\ \/ u \in Busy(units) /\ units'[u].qr = units[u].qr
             \/ \E i \in Busy(exb) : Taken(i, u) /\ units'[u].qr = exb[i].qr
    BY <1>4, <1>6, PlacesShapeNext DEF PlacesShape
  <1>8. \A i \in Busy(exb') : /\ i \in Busy(exb) /\ exb'[i] = exb[i]
                              /\ ~ \E u \in Unit : Taken(i, u)
    BY <1>5, <1>6, PlacesShapeNext DEF PlacesShape
  <1>9. SwRobTypeOK' /\ Ring' /\ InRob' = InRob
    BY <1>2, RingUnchanged DEF EngInv, SwRobTypeOK
  <1>10. DirtyIsInFlight' /\ Undone' = Undone
    BY <1>2, <1>9 DEF EngInv, DirtyIsInFlight, Undone
  <1>11. ~Fresh /\ Busy(lane') = Busy(lane)
    BY <1>2 DEF Fresh
  <1>12. Holding'
    <2>1. /\ \A i \in Busy(exb) : exb[i].qr \in Undone /\ Waits(exb[i]) \subseteq Undone
          /\ \A u \in Busy(units) : units[u].qr \in Undone
          /\ \A l \in Busy(lane) : lane[l].qr \in Undone
      BY <1>11 DEF EngInv, Holding
    <2>2. \A i \in Busy(exb') : exb'[i].qr \in Undone /\ Waits(exb'[i]) \subseteq Undone
      BY <1>8, <2>1
    <2>3. \A u \in Busy(units') : units'[u].qr \in Undone
      BY <1>7, <2>1
    <2> QED
      BY <1>2, <1>10, <2>1, <2>2, <2>3 DEF Holding
  <1>13. Apart'
    <2>1. /\ \A i, m \in Busy(exb) : exb[i].qr = exb[m].qr => i = m
          /\ \A u, v \in Busy(units) : units[u].qr = units[v].qr => u = v
          /\ \A l, m \in Busy(lane) : lane[l].qr = lane[m].qr => l = m
          /\ \A i \in Busy(exb), u \in Busy(units) : exb[i].qr # units[u].qr
          /\ \A i \in Busy(exb), l \in Busy(lane) : lane[l].qr \notin {exb[i].qr} \cup Waits(exb[i])
          /\ \A u \in Busy(units), l \in Busy(lane) : units[u].qr # lane[l].qr
      BY <1>11 DEF EngInv, Apart
    <2>2. \A i, m \in Busy(exb') : exb'[i].qr = exb'[m].qr => i = m
      BY <1>8, <2>1
    <2>3. ASSUME NEW u \in Busy(units'), NEW v \in Busy(units'), units'[u].qr = units'[v].qr
          PROVE  u = v
      <3>1. CASE u \in Busy(units) /\ units'[u].qr = units[u].qr
        <4>1. \A i \in Busy(exb) : exb[i].qr # units'[u].qr
          BY <2>1, <3>1
        <4>2. v \in Busy(units) /\ units'[v].qr = units[v].qr
          BY <1>7, <2>3, <4>1
        <4> QED
          BY <2>1, <2>3, <3>1, <4>2
      <3>2. CASE v \in Busy(units) /\ units'[v].qr = units[v].qr
        <4>1. \A i \in Busy(exb) : exb[i].qr # units'[v].qr
          BY <2>1, <3>2
        <4>2. u \in Busy(units) /\ units'[u].qr = units[u].qr
          BY <1>7, <2>3, <4>1
        <4> QED
          BY <2>1, <2>3, <3>2, <4>2
      <3>3. CASE /\ \E i \in Busy(exb) : Taken(i, u) /\ units'[u].qr = exb[i].qr
                 /\ \E i \in Busy(exb) : Taken(i, v) /\ units'[v].qr = exb[i].qr
        <4>1. PICK i \in Busy(exb) : Taken(i, u) /\ units'[u].qr = exb[i].qr
          BY <3>3
        <4>2. PICK m \in Busy(exb) : Taken(m, v) /\ units'[v].qr = exb[m].qr
          BY <3>3
        <4>3. i = m
          BY <2>1, <2>3, <4>1, <4>2
        <4> QED
          BY <4>1, <4>2, <4>3, TakenOnce DEF EngInv
      <3> QED
        BY <1>7, <3>1, <3>2, <3>3
    <2>4. \A i \in Busy(exb'), u \in Busy(units') : exb'[i].qr # units'[u].qr
      BY <1>7, <1>8, <2>1
    <2>5. \A i \in Busy(exb'), l \in Busy(lane) : lane[l].qr \notin {exb'[i].qr} \cup Waits(exb'[i])
      BY <1>8, <2>1
    <2>6. \A u \in Busy(units'), l \in Busy(lane) : units'[u].qr # lane[l].qr
      BY <1>7, <2>1
    <2> QED
      BY <1>2, <1>11, <2>1, <2>2, <2>3, <2>4, <2>5, <2>6 DEF Apart
  <1> QED
    BY <1>6, <1>9, <1>10, <1>12, <1>13 DEF EngInv

-----------------------------------------------------------------------------
(***************************************************************************)
(* The dispatch.                                                           *)
(***************************************************************************)
AtMostAWord == {{}} \cup {{w} : w \in Word}

\* What a lookup of an operand may return: it waits for at most one entry,
\* which has no result and is not on the bus.
Lookup ==
  {o \in [q : {{}} \cup {{s} : s \in Slot}, v : AtMostAWord, rob : AtMostAWord] :
     /\ o.v = {} \/ o.rob = {}
     /\ o.q \subseteq Undone
     /\ \A l \in Busy(lane) : lane[l].qr \notin o.q}

LEMMA OperandIsLookup ==
  ASSUME EngInv, issue_ptr \notin InRob, NEW rs \in Reg
  PROVE  Operand(rs) \in Lookup
  <1> DEFINE s == reg_s[rs]
  <1>1. s \in Slot /\ reg_x[rs] \in Word /\ rob_data[s] \in Word
    BY DEF EngInv, SwRobTypeOK
  <1>2. \A w \in OnBus(s) : w.result \in Word
    <2>1. \A w \in Words(lane) : w.result \in Word
      BY PlacesAreShaped DEF EngInv, Words, PlacesShape, LaneEntry
    <2> QED
      BY <2>1 DEF OnBus
  <1>3. CASE ~reg_d[rs]
    <2>1. Operand(rs) = [q |-> {}, v |-> {reg_x[rs]}, rob |-> {}]
      BY <1>3 DEF Operand
    <2> QED
      BY <1>1, <2>1 DEF Lookup, AtMostAWord
  <1>4. CASE reg_d[rs] /\ OnBus(s) # {}
    <2> DEFINE x == CHOOSE w \in OnBus(s) : TRUE
    <2>1. x \in OnBus(s)
      BY <1>4
    <2>2. Operand(rs) = [q |-> {}, v |-> {x.result}, rob |-> {}]
      BY <1>4 DEF Operand
    <2> HIDE DEF x
    <2>3. x.result \in Word
      BY <1>2, <2>1
    <2> QED
      BY <2>2, <2>3 DEF Lookup, AtMostAWord
  <1>5. CASE reg_d[rs] /\ OnBus(s) = {}
    <2>1. Operand(rs) = [q   |-> IF rob_done[s] /\ s # issue_ptr THEN {} ELSE {s},
                         v   |-> {}, rob |-> {rob_data[s]}]
      BY <1>5 DEF Operand
    <2>2. s \in InRob
      BY <1>5 DEF EngInv, DirtyIsInFlight
    <2>3. \A l \in Busy(lane) : lane[l].qr # s
      BY <1>5 DEF OnBus, Words
    <2>4. CASE rob_done[s]
      <3>1. Operand(rs) = [q |-> {}, v |-> {}, rob |-> {rob_data[s]}]
        BY <2>1, <2>2, <2>4
      <3> QED
        BY <1>1, <3>1 DEF Lookup, AtMostAWord
    <2>5. CASE ~rob_done[s]
      <3>1. Operand(rs) = [q |-> {s}, v |-> {}, rob |-> {rob_data[s]}]
        BY <2>1, <2>5
      <3>2. s \in Undone
        BY <2>2, <2>5 DEF Undone
      <3> HIDE DEF s
      <3> QED
        BY <1>1, <2>3, <3>1, <3>2 DEF Lookup, AtMostAWord
    <2> QED
      BY <2>4, <2>5
  <1> QED
    BY <1>3, <1>4, <1>5

LEMMA ImmediateIsLookup == Immediate \in Lookup
  BY WordAssumption DEF Immediate, Lookup, AtMostAWord

\* The operands that are stored with the operation.
LEMMA OperandsAreTyped ==
  ASSUME NEW rs1, Operand(rs1) \in Lookup, NEW k \in Lookup
  PROVE  /\ OperandJ(rs1, k) \in OperandType /\ OperandK(k) \in OperandType
         /\ OperandJ(rs1, k).q = Operand(rs1).q /\ OperandK(k).q = k.q
  <1> DEFINE o == Operand(rs1)
             v == IF k.rob # {} THEN k.rob ELSE o.v \cup o.rob
  <1>1. OperandJ(rs1, k) = [q |-> o.q, v |-> v]
    BY DEF OperandJ
  <1> HIDE DEF o
  <1>2. v \in AtMostAWord
    <2>1. o.v \cup o.rob \in AtMostAWord /\ k.rob \in AtMostAWord
      <3>1. o.v \cup o.rob = o.v \/ o.v \cup o.rob = o.rob
        BY DEF o, Lookup
      <3>2. o.v \in AtMostAWord /\ o.rob \in AtMostAWord /\ k.rob \in AtMostAWord
        BY DEF o, Lookup
      <3> QED
        BY <3>1, <3>2
    <2> QED
      BY <2>1
  <1> HIDE DEF v
  <1>3. o.q \in {{}} \cup {{s} : s \in Slot} /\ k.q \in {{}} \cup {{s} : s \in Slot}
        /\ k.v \in AtMostAWord
    BY DEF o, Lookup
  <1> QED
    BY <1>1, <1>2, <1>3 DEF OperandK, OperandType, AtMostAWord, o

\* The operation takes a free entry, or is dropped when there is none.
LEMMA InsertInFree ==
  ASSUME PlacesTyped, NEW op
  PROVE  \/ Busy(exb) = EntryId /\ Insert(op) = exb
         \/ \E m \in EntryId \ Busy(exb) : Insert(op) = [exb EXCEPT ![m] = op]
  <1>1. CASE Busy(exb) = EntryId
    BY <1>1 DEF Insert
  <1>2. CASE Busy(exb) # EntryId
    <2>1. Busy(exb) \subseteq EntryId
      BY PlacesAreShaped DEF PlacesShape
    <2>2. EntryId \subseteq Nat
      BY DEF EntryId
    <2>3. EntryId \ Busy(exb) \in SUBSET Nat /\ EntryId \ Busy(exb) # {}
      BY <1>2, <2>1, <2>2
    <2>4. Min(EntryId \ Busy(exb)) \in EntryId \ Busy(exb)
      BY <2>3, MinIsLeast
    <2> QED
      BY <1>2, <2>4 DEF Insert
  <1> QED
    BY <1>1, <1>2

LEMMA DispatchKeeps ==
  ASSUME EngInv, Dispatch
  PROVE  EngInv'
  <1>1. /\ UNCHANGED <<units, lane>>
        /\ phase = "dispatch"
    BY DEF Dispatch
  <1>2. PICK rd \in Reg, rs1 \in Reg, k \in {Immediate} \cup {Operand(rs2) : rs2 \in Reg}, n \in Latency :
          /\ rob_issue(rd)
          /\ reg_write_src(rd, issue_ptr)
          /\ exb' = Insert([busy |-> TRUE, qr |-> issue_ptr, cycles |-> n,
                            j |-> OperandJ(rs1, k), k |-> OperandK(k)])
    BY Zenon DEF Dispatch
  <1>3. Ring' /\ issue_ptr \notin InRob /\ InRob' = InRob \cup {issue_ptr}
    BY <1>2, RingAfterIssue DEF EngInv
  <1>4. issue_ptr \in Slot /\ InRob \subseteq Slot /\ InRob' \subseteq Slot
    BY <1>3, InRobIsSlots DEF EngInv, Ring
  <1>5. /\ rob_dest' = [rob_dest EXCEPT ![issue_ptr] = rd]
        /\ rob_done' = [rob_done EXCEPT ![issue_ptr] = FALSE]
        /\ rob_data' = rob_data
        /\ reg_s' = [r \in Reg |-> IF r = rd /\ r # 0 THEN issue_ptr ELSE reg_s[r]]
        /\ reg_d' = [r \in Reg |-> reg_d[r] \/ (r = rd /\ r # 0)]
        /\ reg_x' = reg_x
    BY <1>2, Zenon DEF rob_issue, reg_write_src
  <1>6. SwRobTypeOK'
    <2>1. reg_s' \in [Reg -> Slot]
      BY <1>4, <1>5 DEF EngInv, SwRobTypeOK
    <2>2. reg_d' \in [Reg -> BOOLEAN]
      BY <1>5, Zenon
    <2>3. rob_dest' \in [Slot -> Reg] /\ rob_done' \in [Slot -> BOOLEAN]
      BY <1>4, <1>5 DEF EngInv, SwRobTypeOK
    <2> QED
      BY <1>3, <1>5, <2>1, <2>2, <2>3 DEF EngInv, SwRobTypeOK, Ring
  <1>7. DirtyIsInFlight'
    <2> SUFFICES ASSUME NEW r \in Reg, reg_d'[r]
                 PROVE  r # 0 /\ reg_s'[r] \in InRob' /\ rob_dest'[reg_s'[r]] = r
      BY DEF DirtyIsInFlight
    <2>1. CASE r = rd /\ r # 0
      BY <1>3, <1>4, <1>5, <2>1 DEF EngInv, SwRobTypeOK
    <2>2. CASE ~(r = rd /\ r # 0)
      <3>1. reg_d[r] /\ reg_s'[r] = reg_s[r]
        BY <1>5, <2>2
      <3>2. r # 0 /\ reg_s[r] \in InRob /\ rob_dest[reg_s[r]] = r
        BY <3>1 DEF EngInv, DirtyIsInFlight
      <3>3. rob_dest'[reg_s[r]] = rob_dest[reg_s[r]]
        BY <1>3, <1>4, <1>5, <3>2 DEF EngInv, SwRobTypeOK
      <3> QED
        BY <1>3, <3>1, <3>2, <3>3
    <2> QED
      BY <2>1, <2>2
  <1>8. Undone' = Undone \cup {issue_ptr} /\ issue_ptr \notin Undone
    <2>1. \A s \in InRob : rob_done'[s] = rob_done[s]
      BY <1>3, <1>4, <1>5 DEF EngInv, SwRobTypeOK
    <2>2. ~rob_done'[issue_ptr]
      BY <1>4, <1>5 DEF EngInv, SwRobTypeOK
    <2> QED
      BY <1>3, <2>1, <2>2 DEF Undone
  <1> DEFINE op == [busy |-> TRUE, qr |-> issue_ptr, cycles |-> n,
                    j |-> OperandJ(rs1, k), k |-> OperandK(k)]
  <1>9. Operand(rs1) \in Lookup /\ k \in Lookup
    BY <1>3, OperandIsLookup, ImmediateIsLookup
  <1>10. /\ OperandJ(rs1, k) \in OperandType /\ OperandK(k) \in OperandType
         /\ OperandJ(rs1, k).q = Operand(rs1).q /\ OperandK(k).q = k.q
    BY <1>9, OperandsAreTyped
  <1>11. op \in ExbEntry /\ op.qr = issue_ptr /\ op.j = OperandJ(rs1, k) /\ op.k = OperandK(k)
    BY <1>4, <1>10 DEF ExbEntry
  <1>12. exb' = Insert(op)
    BY <1>2
  <1> HIDE DEF op
  <1>13. Waits(op) \subseteq Undone /\ \A l \in Busy(lane) : lane[l].qr \notin Waits(op)
    <2>1. Waits(op) = Operand(rs1).q \cup k.q
      BY <1>10, <1>11 DEF Waits
    <2> QED
      BY <1>9, <2>1 DEF Lookup
  <1>14. /\ Busy(units') = Busy(units) /\ Busy(lane') = Busy(lane) /\ ~Fresh
         /\ Holding /\ Apart /\ PlacesTyped
    BY <1>1 DEF Fresh, EngInv
  <1>15. CASE exb' = exb
    <2>1. PlacesTyped'
      BY <1>1, <1>14, <1>15 DEF PlacesTyped
    <2>2. Holding'
      BY <1>1, <1>8, <1>14, <1>15 DEF Holding
    <2>3. Apart'
      BY <1>1, <1>14, <1>15 DEF Apart
    <2> QED
      BY <1>3, <1>6, <1>7, <2>1, <2>2, <2>3 DEF EngInv
  <1>16. ASSUME NEW m \in EntryId \ Busy(exb), exb' = [exb EXCEPT ![m] = op]
         PROVE  EngInv'
    <2>1. PlacesTyped'
      BY <1>1, <1>11, <1>14, <1>16 DEF PlacesTyped
    <2>2. /\ exb'[m] = op
          /\ \A i \in Busy(exb') : i # m => i \in Busy(exb) /\ exb'[i] = exb[i]
      <3>1. exb \in [EntryId -> {None} \cup ExbEntry]
        BY <1>14 DEF PlacesTyped
      <3>2. exb'[m] = op /\ \A i \in EntryId : i # m => exb'[i] = exb[i]
        BY <1>16, <3>1
      <3>3. \A i \in Busy(exb') : i \in EntryId /\ exb'[i] \in ExbEntry
        BY <2>1, PlacesShapeNext DEF PlacesShape
      <3>4. \A i \in EntryId : exb[i] \in ExbEntry => i \in Busy(exb)
        BY <1>14, PlacesAreShaped DEF PlacesShape
      <3> QED
        BY <3>2, <3>3, <3>4
    <2>3. /\ \A i \in Busy(exb) : exb[i].qr \in Undone /\ Waits(exb[i]) \subseteq Undone
          /\ \A u \in Busy(units) : units[u].qr \in Undone
          /\ \A l \in Busy(lane) : lane[l].qr \in Undone
      BY <1>14 DEF Holding
    <2>4. Holding'
      <3>1. \A i \in Busy(exb') : exb'[i].qr \in Undone' /\ Waits(exb'[i]) \subseteq Undone'
        BY <1>8, <1>11, <1>13, <2>2, <2>3
      <3> QED
        BY <1>1, <1>8, <1>14, <2>3, <3>1 DEF Holding
    <2>5. Apart'
      <3>1. /\ \A i, e \in Busy(exb) : exb[i].qr = exb[e].qr => i = e
            /\ \A u, v \in Busy(units) : units[u].qr = units[v].qr => u = v
            /\ \A l, e \in Busy(lane) : lane[l].qr = lane[e].qr => l = e
            /\ \A i \in Busy(exb), u \in Busy(units) : exb[i].qr # units[u].qr
            /\ \A i \in Busy(exb), l \in Busy(lane) : lane[l].qr \notin {exb[i].qr} \cup Waits(exb[i])
            /\ \A u \in Busy(units), l \in Busy(lane) : units[u].qr # lane[l].qr
        BY <1>14 DEF Apart
      <3>2. \A i, e \in Busy(exb') : exb'[i].qr = exb'[e].qr => i = e
        <4>1. \A i \in Busy(exb') : i # m => exb'[i].qr # issue_ptr
          BY <1>8, <2>2, <2>3
        <4>2. exb'[m].qr = issue_ptr
          BY <1>11, <2>2
        <4> QED
          BY <2>2, <3>1, <4>1, <4>2
      <3>3. \A i \in Busy(exb'), u \in Busy(units) : exb'[i].qr # units[u].qr
        BY <1>8, <1>11, <2>2, <2>3, <3>1
      <3>4. \A i \in Busy(exb'), l \in Busy(lane) : lane[l].qr \notin {exb'[i].qr} \cup Waits(exb'[i])
        BY <1>8, <1>11, <1>13, <2>2, <2>3, <3>1
      <3> QED
        BY <1>1, <1>14, <3>1, <3>2, <3>3, <3>4 DEF Apart
    <2> QED
      BY <1>3, <1>6, <1>7, <2>1, <2>4, <2>5 DEF EngInv
  <1> QED
    BY <1>12, <1>14, <1>15, <1>16, InsertInFree

LEMMA NothingKeeps ==
  ASSUME EngInv, DispatchNothing \/ UNCHANGED engineVars
  PROVE  EngInv'
  <1>1. /\ UNCHANGED <<rob_dest, rob_data, rob_done, commit_ptr, issue_ptr, cnt>>
        /\ UNCHANGED <<reg_x, reg_s, reg_d, exb, units, lane>>
        /\ phase = "dispatch" \/ phase' = phase
    BY DEF DispatchNothing, engineVars, robVars, regVars
  <1>2. SwRobTypeOK' /\ PlacesTyped' /\ Ring' /\ InRob' = InRob
    BY <1>1, RingUnchanged DEF EngInv, SwRobTypeOK, PlacesTyped
  <1>3. DirtyIsInFlight' /\ Undone' = Undone
    BY <1>1, <1>2 DEF EngInv, DirtyIsInFlight, Undone
  <1>4. Fresh => Fresh'
    BY <1>1 DEF Fresh
  <1>5. Holding' /\ Apart'
    BY <1>1, <1>3, <1>4 DEF EngInv, Holding, Apart
  <1> QED
    BY <1>2, <1>3, <1>5 DEF EngInv

\* Every stage keeps the invariant.
LEMMA EngineStep == EngInv /\ [EngineNext]_engineVars => EngInv'
  BY CommitKeeps, WriteBackKeeps, ExecuteKeeps, IssueKeeps, DispatchKeeps, NothingKeeps
     DEF EngineNext

LEMMA EngInvHolds == EngineSpec => []EngInv
  BY EngineInitInv, EngineStep, PTL DEF EngineSpec

(***************************************************************************)
(* The types of everything the simulator keeps, for every number of        *)
(* entries, units, lanes and latencies (engine.c, rob.c, reg.c).           *)
(***************************************************************************)
THEOREM EngineTypeCorrect == EngineSpec => []EngineTypeOK
  <1>1. EngInv => EngineTypeOK
    <2> SUFFICES ASSUME EngInv PROVE EngineTypeOK
      OBVIOUS
    <2>1. \A u \in Unit : units[u] = None \/
            /\ units[u].qr \in Slot /\ units[u].result \in Word /\ units[u].left \in Nat
      BY DEF EngInv, PlacesTyped, UnitEntry
    <2>2. \A l \in Lane : lane[l] = None \/ (lane[l].qr \in Slot /\ lane[l].result \in Word)
      BY DEF EngInv, PlacesTyped, LaneEntry
    <2> QED
      BY <2>1, <2>2, Zenon DEF EngInv, PlacesTyped, ExbEntry, EngineTypeOK
  <1> QED
    BY <1>1, EngInvHolds, PTL

(***************************************************************************)
(* Nobody waits for an entry that has its result or has left, whatever the *)
(* sizes: write_back tells everybody, dispatch looks on the bus, and what  *)
(* commit forwards to the execution buffer never finds a reader.           *)
(***************************************************************************)
THEOREM WaitersWaitForUndone == EngineSpec => []NobodyWaitsForDone
  <1>1. EngInv => NobodyWaitsForDone
    BY DEF EngInv, Holding, Waits, Undone, NobodyWaitsForDone
  <1> QED
    BY <1>1, EngInvHolds, PTL

-----------------------------------------------------------------------------
(***************************************************************************)
(* The refinement.                                                         *)
(***************************************************************************)

\* Entry s as an element of the abstract queue.
QueueEntry(s) == [rd |-> rob_dest[s], result |-> IF rob_done[s] THEN {rob_data[s]} ELSE {}]

QueueShape ==
  /\ InFlight \in Seq([rd : Reg, result : SUBSET Word])
  /\ Len(InFlight) = cnt /\ DOMAIN InFlight = 1 .. cnt
  /\ \A k \in 1 .. cnt : Nth(k) \in Slot /\ Nth(k) \in InRob /\ InFlight[k] = QueueEntry(Nth(k))

LEMMA InFlightIsQueue == Ring /\ SwRobTypeOK => QueueShape
  <1> SUFFICES ASSUME Ring, SwRobTypeOK PROVE QueueShape
    OBVIOUS
  <1>1. cnt \in Nat
    BY SwSizeAssumption DEF Ring
  <1>2. InFlight = [k \in 1 .. cnt |-> QueueEntry(Nth(k))]
    BY DEF InFlight, QueueEntry
  <1>3. \A k \in 1 .. cnt : Nth(k) \in Slot /\ Nth(k) \in InRob
    BY InRobIsSlots DEF InRob
  <1>4. \A s \in Slot : QueueEntry(s) \in [rd : Reg, result : SUBSET Word]
    BY DEF QueueEntry, SwRobTypeOK
  <1>5. InFlight \in Seq([rd : Reg, result : SUBSET Word])
    BY <1>1, <1>2, <1>3, <1>4
  <1>6. Len(InFlight) = cnt /\ DOMAIN InFlight = 1 .. cnt
    BY <1>1, <1>2, <1>5
  <1> QED
    BY <1>2, <1>3, <1>5, <1>6 DEF QueueShape

LEMMA QueueShapes == EngInv /\ EngInv' => QueueShape /\ QueueShape'
  <1>1. (Ring /\ SwRobTypeOK => QueueShape)'
    BY InFlightIsQueue, PTL
  <1> QED
    BY <1>1, InFlightIsQueue DEF EngInv

LEMMA CommitLeaves ==
  ASSUME EngInv, EngInv', Commit
  PROVE  Retirement!Leave \/ UNCHANGED InFlight
  <1>1. CASE ~CanCommit
    <2>1. UNCHANGED <<rob_dest, rob_data, rob_done, commit_ptr, cnt>>
      BY <1>1 DEF Commit, robVars
    <2> QED
      BY <2>1 DEF InFlight, Nth
  <1>2. CASE CanCommit
    <2>1. /\ commit_ptr' = NextPtr(commit_ptr) /\ cnt' = cnt - 1 /\ cnt \in 1 .. RobSize
          /\ UNCHANGED <<rob_dest, rob_data, rob_done>>
      BY <1>2, SwSizeAssumption DEF Commit, rob_commit, CanCommit, EngInv, Ring
    <2>2. commit_ptr \in Slot
      BY DEF EngInv, Ring
    <2>3. QueueShape /\ QueueShape'
      BY QueueShapes
    <2>4. 1 \in 1 .. cnt /\ InFlight # <<>> /\ Head(InFlight) = InFlight[1]
      BY <2>1, <2>3 DEF QueueShape
    <2>5. Head(InFlight) = QueueEntry(commit_ptr)
      BY <2>2, <2>3, <2>4, RingPositions DEF QueueShape
    <2>6. Head(InFlight).result # {}
      BY <1>2, <2>5 DEF QueueEntry, CanCommit
    <2>7. /\ Tail(InFlight) \in Seq([rd : Reg, result : SUBSET Word])
          /\ Len(Tail(InFlight)) = cnt - 1
          /\ \A i \in 1 .. cnt - 1 : Tail(InFlight)[i] = InFlight[i + 1]
      BY <2>3, <2>4, HeadTailProperties DEF QueueShape
    <2>8. ASSUME NEW i \in 1 .. cnt - 1
          PROVE  InFlight'[i] = Tail(InFlight)[i]
      <3>1. i \in 1 .. RobSize /\ i \in 1 .. cnt' /\ i + 1 \in 1 .. cnt
        BY <2>1, SwSizeAssumption
      <3>2. PICK p \in Slot : p = Nth(i + 1)
        BY <2>3, <3>1 DEF QueueShape
      <3>3. Nth(i)' = p
        BY <2>1, <2>2, <3>1, <3>2, NthAfterCommit
      <3>4. InFlight'[i] = QueueEntry(p)'
        <4>1. InFlight'[i] = QueueEntry(Nth(i))'
          BY <2>3, <3>1 DEF QueueShape
        <4> QED
          BY <3>3, <4>1 DEF QueueEntry
      <3>5. InFlight[i + 1] = QueueEntry(p)
        BY <2>3, <3>1, <3>2 DEF QueueShape
      <3> QED
        BY <2>1, <2>7, <3>4, <3>5 DEF QueueEntry
    <2>9. InFlight' = Tail(InFlight)
      <3>1. /\ InFlight' \in Seq([rd : Reg, result : SUBSET Word])
            /\ Len(InFlight') = cnt - 1
        BY <2>1, <2>3 DEF QueueShape
      <3> QED
        BY <2>7, <2>8, <3>1, SeqEqual
    <2> QED
      BY <2>4, <2>6, <2>9 DEF Retirement!Leave, Retirement!Retires
  <1> QED
    BY <1>1, <1>2

LEMMA WriteBackFills ==
  ASSUME EngInv, EngInv', WriteBack
  PROVE  Retirement!Fill
  <1> DEFINE onBus(s) == \E l \in Busy(lane) : lane[l].qr = s
             filled == {k \in 1 .. cnt : onBus(Nth(k))}
             w == [k \in filled |-> rob_data'[Nth(k)]]
             new == [k \in DOMAIN InFlight |->
                       IF k \in filled THEN [InFlight[k] EXCEPT !.result = {w[k]}]
                       ELSE InFlight[k]]
  <1>1. QueueShape /\ QueueShape'
    BY QueueShapes
  <1>2. /\ rob_write(Words(lane))
        /\ phase = "write_back"
    BY Zenon DEF WriteBack
  <1>3. UNCHANGED <<rob_dest, commit_ptr, cnt>>
    BY <1>2 DEF rob_write
  <1>4. ASSUME NEW s \in Slot
        PROVE  /\ rob_done'[s] <=> rob_done[s] \/ onBus(s)
               /\ ~onBus(s) => rob_data'[s] = rob_data[s]
               /\ rob_data'[s] \in Word
    <2>1. rob_done'[s] <=> rob_done[s] \/ onBus(s)
      BY <1>2 DEF rob_write, Words
    <2>2. ~onBus(s) => rob_data'[s] = rob_data[s]
      <3>1. ~onBus(s) => ~ \E x \in Words(lane) : x.qr = s
        BY DEF Words
      <3> QED
        BY <1>2, <3>1, Zenon DEF rob_write
    <2>3. rob_data'[s] \in Word
      BY DEF EngInv, SwRobTypeOK
    <2> QED
      BY <2>1, <2>2, <2>3
  <1>5. ASSUME NEW k \in 1 .. cnt
        PROVE  Nth(k)' = Nth(k) /\ Nth(k) \in Slot /\ Nth(k) \in InRob
    BY <1>1, <1>3 DEF Nth, QueueShape
  <1>6. filled \in SUBSET Retirement!Pending
    <2>1. ASSUME NEW k \in filled
          PROVE  InFlight[k].result = {}
      <3>1. cnt # 0
        BY <2>1
      <3>2. Nth(k) \in Undone
        BY <3>1 DEF EngInv, Holding, Fresh
      <3>3. ~rob_done[Nth(k)]
        BY <3>2 DEF Undone
      <3>4. InFlight[k] = QueueEntry(Nth(k))
        BY <1>1 DEF QueueShape
      <3> QED
        BY <3>3, <3>4 DEF QueueEntry
    <2> QED
      BY <1>1, <2>1 DEF Retirement!Pending, QueueShape
  <1>7. w \in [filled -> Word]
    BY <1>4, <1>5
  <1>8. ASSUME NEW k \in 1 .. cnt
        PROVE  InFlight'[k] = new[k]
    <2>1. PICK p \in Slot : p = Nth(k)
      BY <1>5
    <2>2. Nth(k)' = p
      BY <1>5, <2>1
    <2>3. InFlight'[k] = QueueEntry(p)'
      <3>1. InFlight'[k] = QueueEntry(Nth(k))'
        BY <1>1, <1>3 DEF QueueShape
      <3> QED
        BY <2>2, <3>1 DEF QueueEntry
    <2>4. InFlight[k] = QueueEntry(p)
      BY <1>1, <2>1 DEF QueueShape
    <2>5. k \in filled <=> onBus(p)
      BY <2>1
    <2>6. k \in filled => w[k] = rob_data'[p]
      BY <2>1
    <2>7. new[k] = IF k \in filled THEN [InFlight[k] EXCEPT !.result = {w[k]}] ELSE InFlight[k]
      BY <1>1 DEF QueueShape
    <2>8. (rob_done'[p] <=> rob_done[p] \/ onBus(p)) /\ (~onBus(p) => rob_data'[p] = rob_data[p])
      BY <1>4
    <2> HIDE DEF onBus, filled, w, new
    <2>9. CASE onBus(p)
      <3>1. new[k] = [rd |-> rob_dest[p], result |-> {rob_data'[p]}]
        BY <2>4, <2>5, <2>6, <2>7, <2>9 DEF QueueEntry
      <3>2. QueueEntry(p)' = [rd |-> rob_dest[p], result |-> {rob_data'[p]}]
        BY <1>3, <2>8, <2>9 DEF QueueEntry
      <3> QED
        BY <2>3, <3>1, <3>2
    <2>10. CASE ~onBus(p)
      <3>1. new[k] = QueueEntry(p)
        BY <2>4, <2>5, <2>7, <2>10
      <3>2. QueueEntry(p)' = QueueEntry(p)
        BY <1>3, <2>8, <2>10 DEF QueueEntry
      <3> QED
        BY <2>3, <3>1, <3>2
    <2> QED
      BY <2>9, <2>10
  <1>9. InFlight' = new
    <2>1. DOMAIN InFlight' = 1 .. cnt /\ DOMAIN new = 1 .. cnt
      BY <1>1, <1>3 DEF QueueShape
    <2>2. InFlight' = [k \in 1 .. cnt |-> InFlight'[k]]
      BY <1>1, <1>3 DEF QueueShape
    <2>3. new = [k \in 1 .. cnt |-> new[k]]
      BY <1>1 DEF QueueShape
    <2> HIDE DEF new
    <2> QED
      BY <1>8, <2>2, <2>3
  <1> QED
    BY <1>6, <1>7, <1>9, Zenon DEF Retirement!Fill

LEMMA DispatchAppends ==
  ASSUME EngInv, EngInv', Dispatch
  PROVE  Retirement!Append1
  <1>1. PICK rd \in Reg : rob_issue(rd)
    BY Zenon DEF Dispatch
  <1>2. /\ rob_dest' = [rob_dest EXCEPT ![issue_ptr] = rd]
        /\ rob_done' = [rob_done EXCEPT ![issue_ptr] = FALSE]
        /\ rob_data' = rob_data /\ commit_ptr' = commit_ptr
        /\ cnt' = cnt + 1 /\ cnt \in 0 .. RobSize - 1
    BY <1>1, SwSizeAssumption DEF rob_issue, rob_full, EngInv, Ring
  <1>3. QueueShape /\ QueueShape'
    BY QueueShapes
  <1>4. issue_ptr \in Slot /\ issue_ptr \notin InRob /\ Nth(cnt + 1) = issue_ptr
    BY <1>1, RingAfterIssue DEF EngInv, Ring
  <1> DEFINE E == [rd : Reg, result : SUBSET Word]
             e == Retirement!Entry(rd)
             new == Append(InFlight, e)
  <1>5. e \in E /\ e = [rd |-> rd, result |-> {}]
    BY DEF Retirement!Entry
  <1>6. PICK n \in Nat : n = cnt
    BY <1>2
  <1>7. /\ new \in Seq(E) /\ Len(new) = n + 1
        /\ \A i \in 1 .. n : new[i] = InFlight[i]
        /\ new[n + 1] = e
    <2> HIDE DEF e, E
    <2>1. InFlight \in Seq(E) /\ Len(InFlight) = n
      BY <1>3, <1>6 DEF QueueShape, E
    <2> QED
      BY <1>5, <2>1, AppendProperties
  <1>8. ASSUME NEW i \in 1 .. n + 1
        PROVE  InFlight'[i] = new[i]
    <2>1. InFlight'[i] = QueueEntry(Nth(i))'
      BY <1>2, <1>3, <1>6 DEF QueueShape
    <2>2. PICK p : p = Nth(i)
      OBVIOUS
    <2>3. Nth(i)' = p
      BY <1>2, <2>2 DEF Nth
    <2>4. InFlight'[i] = QueueEntry(p)'
      BY <2>1, <2>3 DEF QueueEntry
    <2>5. CASE i \in 1 .. n
      <3>1. p \in Slot /\ p # issue_ptr /\ InFlight[i] = QueueEntry(p)
        BY <1>3, <1>4, <1>6, <2>2, <2>5 DEF QueueShape
      <3>2. QueueEntry(p)' = QueueEntry(p)
        BY <1>2, <1>4, <3>1 DEF QueueEntry, EngInv, SwRobTypeOK
      <3> QED
        BY <1>7, <2>4, <2>5, <3>1, <3>2
    <2>6. CASE i = n + 1
      <3>1. p = issue_ptr
        BY <1>4, <1>6, <2>2, <2>6
      <3>2. QueueEntry(p)' = [rd |-> rd, result |-> {}]
        BY <1>2, <1>4, <3>1 DEF QueueEntry, EngInv, SwRobTypeOK
      <3> QED
        BY <1>5, <1>7, <2>4, <2>6, <3>2
    <2> HIDE DEF new
    <2>7. i \in 1 .. n \/ i = n + 1
      BY <1>6
    <2> QED
      BY <2>5, <2>6, <2>7
  <1>9. InFlight' = new
    <2>1. InFlight' \in Seq(E) /\ Len(InFlight') = n + 1
      BY <1>2, <1>3, <1>6 DEF QueueShape
    <2> HIDE DEF new, E
    <2> QED
      BY <1>7, <1>8, <2>1, SeqEqual
  <1>10. Len(InFlight) < RobSize
    BY <1>2, <1>3, SwSizeAssumption DEF QueueShape
  <1> QED
    BY <1>9, <1>10 DEF Retirement!Append1

(***************************************************************************)
(* For every size, and whether operations are dropped or not, the          *)
(* re-order buffer of the simulator is the abstract queue: instructions    *)
(* enter behind the youngest, each receives one result while it has none,  *)
(* and they leave from the front once they have it (rob.c; the same        *)
(* promise as rob.vhd's).                                                  *)
(***************************************************************************)
THEOREM RetiresInOrder == EngineSpec => SwRetiresInOrder
  <1>1. EngineInit => Retirement!QInit
    <2> SUFFICES ASSUME EngineInit PROVE InFlight = <<>>
      BY DEF Retirement!QInit
    <2>1. cnt = 0
      BY DEF EngineInit, RobInit
    <2>2. 1 .. cnt = {}
      BY <2>1
    <2> QED
      BY <2>2 DEF InFlight
  <1>2. EngInv /\ EngInv' /\ [EngineNext]_engineVars
          => [Retirement!Append1 \/ Retirement!Fill \/ Retirement!Leave]_InFlight
    <2> SUFFICES ASSUME EngInv, EngInv', [EngineNext]_engineVars
                 PROVE  [Retirement!Append1 \/ Retirement!Fill \/ Retirement!Leave]_InFlight
      OBVIOUS
    <2>1. ASSUME Execute \/ Issue \/ DispatchNothing \/ UNCHANGED engineVars
          PROVE  UNCHANGED InFlight
      <3>1. UNCHANGED robVars
        BY <2>1, Zenon DEF Execute, Issue, DispatchNothing, engineVars
      <3> QED
        BY <3>1 DEF robVars, InFlight, Nth
    <2> QED
      BY <2>1, CommitLeaves, WriteBackFills, DispatchAppends DEF EngineNext
  <1> QED
    BY <1>1, <1>2, EngInvHolds, PTL DEF EngineSpec, SwRetiresInOrder, Retirement!SeparateSpec

-----------------------------------------------------------------------------
(***************************************************************************)
(* Where the operations are.                                               *)
(***************************************************************************)
Held(s) ==
  \/ \E i \in Busy(exb) : exb[i].qr = s
  \/ \E u \in Busy(units) : units[u].qr = s
  \/ \E l \in Busy(lane) : lane[l].qr = s

\* The unit that has finished s comes after those that take all the lanes.
FindsNoLane(s) == \E u \in Done : units[u].qr = s /\ Rank(Done, u) \notin Lane

\* The operation of s is being dispatched and every entry is busy.
FindsNoEntry(s) == s = issue_ptr /\ Busy(exb) = EntryId

LEMMA HoldersAreOne ==
  ASSUME EngInv, NEW s \in Undone
  PROVE  /\ \A a, b \in Holders(s) : a = b
         /\ Held(s) => Holders(s) # {}
  <1>1. Apart /\ ~Fresh
    <2>1. cnt # 0
      BY DEF Undone, InRob, EngInv, Ring
    <2> QED
      BY <2>1 DEF EngInv, Fresh
  <1> DEFINE X == {i \in Busy(exb) : exb[i].qr = s}
             U == {u \in Busy(units) : units[u].qr = s}
             L == {l \in Busy(lane) : lane[l].qr = s}
  <1>2. /\ \A i, m \in X : i = m
        /\ \A u, v \in U : u = v
        /\ \A l, m \in L : l = m
        /\ \A i \in X, u \in U : FALSE
        /\ \A i \in X, l \in L : FALSE
        /\ \A u \in U, l \in L : FALSE
    BY <1>1 DEF Apart
  <1>3. Held(s) <=> X # {} \/ U # {} \/ L # {}
    BY DEF Held
  <1>4. Holders(s) = {<<"exb", i>> : i \in X} \cup {<<"unit", u>> : u \in U} \cup {<<"lane", l>> : l \in L}
    BY Zenon DEF Holders
  <1> HIDE DEF X, U, L
  <1>5. \A a \in Holders(s) : \/ \E i \in X : a = <<"exb", i>>
                              \/ \E u \in U : a = <<"unit", u>>
                              \/ \E l \in L : a = <<"lane", l>>
    BY <1>4
  <1>6. \A a, b \in Holders(s) : a = b
    BY <1>2, <1>5
  <1>7. Held(s) => Holders(s) # {}
    BY <1>3, <1>4
  <1> QED
    BY <1>6, <1>7

LEMMA OneHolder ==
  ASSUME EngInv, NEW s \in Undone
  PROVE  /\ IsFiniteSet(Holders(s)) /\ Cardinality(Holders(s)) <= 1
         /\ Held(s) => Cardinality(Holders(s)) = 1
  <1>1. CASE Holders(s) = {}
    <2>1. ~Held(s)
      BY <1>1, HoldersAreOne
    <2> QED
      BY <1>1, <2>1, FS_EmptySet
  <1>2. CASE Holders(s) # {}
    <2>1. PICK a : a \in Holders(s)
      BY <1>2
    <2>2. Holders(s) = {a}
      BY <2>1, HoldersAreOne
    <2>3. IsFiniteSet({a}) /\ Cardinality({a}) = 1
      BY FS_Singleton
    <2> QED
      BY <2>2, <2>3
  <1> QED
    BY <1>1, <1>2

\* No operation is in two places.
NeverInTwoPlaces == \A s \in InRob : ~rob_done[s] => Cardinality(Holders(s)) <= 1

(***************************************************************************)
(* For every size an instruction without a result has its operation in at  *)
(* most one place of the execution buffer, the units and the lanes: no     *)
(* stage of engine.c copies one, so none is executed twice.                *)
(***************************************************************************)
THEOREM OperationsAreNotCopied == EngineSpec => []NeverInTwoPlaces
  <1>1. EngInv => NeverInTwoPlaces
    BY OneHolder DEF NeverInTwoPlaces, Undone
  <1> QED
    BY <1>1, EngInvHolds, PTL

LEMMA HeldThroughWriteBack ==
  ASSUME EngInv, EngInv', WriteBack,
         NEW s \in Undone', s \in Undone => Held(s), ~FindsNoLane(s)
  PROVE  Held(s)'
  <1>1. PlacesShape /\ PlacesShape' /\ LaneWordsSpread
    BY PlacesAreShaped, PlacesShapeNext, LaneWords DEF EngInv
  <1>2. /\ rob_write(Words(lane))
        /\ lane' = [l \in Lane |-> LaneWord(l)]
        /\ units' = [u \in Unit |-> IF u \in Done THEN None ELSE units[u]]
        /\ exb' = [i \in EntryId |-> IF i \in Busy(exb) THEN Received(exb[i], Words(lane'))
                                     ELSE exb[i]]
    BY Zenon DEF WriteBack, Received
  <1>3. s \in Undone /\ \A l \in Busy(lane) : lane[l].qr # s
    BY <1>2, UndoneAfterWrite
  <1>4. CASE \E i \in Busy(exb) : exb[i].qr = s
    <2>1. PICK i \in Busy(exb) : exb[i].qr = s
      BY <1>4
    <2>2. i \in EntryId /\ exb[i] \in ExbEntry
      BY <1>1, <2>1 DEF PlacesShape
    <2>3. exb'[i] = Received(exb[i], Words(lane'))
      BY <1>2, <2>1, <2>2
    <2>4. \A w \in Words(lane') : w.result \in Word
      BY <1>1 DEF Words, PlacesShape, LaneEntry
    <2>5. exb'[i] \in ExbEntry /\ exb'[i].qr = s
      BY <2>1, <2>2, <2>3, <2>4, ReceivedKeeps
    <2> QED
      BY <1>1, <2>2, <2>5 DEF PlacesShape, Held
  <1>5. CASE \E u \in Busy(units) : units[u].qr = s
    <2>1. PICK u \in Busy(units) : units[u].qr = s
      BY <1>5
    <2>2. u \in Unit /\ units[u] \in UnitEntry
      BY <1>1, <2>1 DEF PlacesShape
    <2>3. CASE u \notin Done
      <3>1. units'[u] = units[u]
        BY <1>2, <2>2, <2>3
      <3> QED
        BY <1>1, <2>1, <2>2, <3>1 DEF PlacesShape, Held
    <2>4. CASE u \in Done
      <3>1. PICK l : l = Rank(Done, u)
        OBVIOUS
      <3>4. l \in Lane
        BY <2>1, <2>4, <3>1 DEF FindsNoLane
      <3>5. lane'[l] = WordOf(u)
        BY <1>1, <1>2, <2>4, <3>1, <3>4 DEF LaneWordsSpread
      <3>6. WordOf(u) \in LaneEntry /\ WordOf(u).qr = s
        BY <2>1, <2>2 DEF UnitEntry, LaneEntry, WordOf
      <3> QED
        BY <1>1, <3>4, <3>5, <3>6 DEF PlacesShape, Held
    <2> QED
      BY <2>3, <2>4
  <1> QED
    BY <1>3, <1>4, <1>5 DEF Held

LEMMA HeldThroughExecute ==
  ASSUME EngInv, EngInv', Execute, NEW s \in Undone', s \in Undone => Held(s)
  PROVE  Held(s)'
  <1>1. /\ UNCHANGED <<rob_done, commit_ptr, cnt, exb, lane>>
        /\ units' = [u \in Unit |-> IF units[u].busy /\ units[u].left # 0
                                    THEN [units[u] EXCEPT !.left = @ - 1] ELSE units[u]]
    BY Zenon DEF Execute, robVars
  <1>2. Undone' = Undone
    BY <1>1 DEF Undone, InRob, Nth
  <1>3. PlacesShape /\ PlacesShape'
    BY PlacesAreShaped, PlacesShapeNext DEF EngInv
  <1>4. ASSUME NEW u \in Busy(units)
        PROVE  u \in Busy(units') /\ units'[u].qr = units[u].qr
    <2>1. u \in Unit /\ units[u] \in UnitEntry
      BY <1>3 DEF PlacesShape
    <2>2. CASE units[u].left # 0
      <3>1. units'[u] = [units[u] EXCEPT !.left = @ - 1]
        BY <1>1, <2>1, <2>2, OnlyEntriesAreBusy
      <3>2. units'[u].busy /\ units'[u].qr = units[u].qr
        BY <2>1, <3>1 DEF UnitEntry
      <3> QED
        BY <1>1, <2>1, <3>2 DEF Busy
    <2>3. CASE units[u].left = 0
      <3>1. units'[u] = units[u]
        BY <1>1, <2>1, <2>3
      <3> QED
        BY <1>3, <2>1, <3>1 DEF PlacesShape
    <2> QED
      BY <2>2, <2>3
  <1> QED
    BY <1>1, <1>2, <1>4 DEF Held

LEMMA HeldThroughIssue ==
  ASSUME EngInv, EngInv', Issue, NEW s \in Undone', s \in Undone => Held(s)
  PROVE  Held(s)'
  <1>1. /\ UNCHANGED <<rob_done, commit_ptr, cnt, lane>>
        /\ exb' = [i \in EntryId |-> IF \E u \in Unit : Taken(i, u) THEN None ELSE exb[i]]
    BY Zenon DEF Issue, robVars, Taken, Ready, Idle
  <1>2. PICK word \in [Unit -> Word] :
          units' = [u \in Unit |-> IF \E i \in EntryId : Taken(i, u)
                      THEN Loaded(exb[CHOOSE i \in EntryId : Taken(i, u)], word[u])
                      ELSE units[u]]
    BY Zenon DEF Issue, Taken, Ready, Idle, Loaded
  <1>3. Undone' = Undone
    BY <1>1 DEF Undone, InRob, Nth
  <1>4. PlacesShape /\ PlacesShape'
    BY PlacesAreShaped, PlacesShapeNext DEF EngInv
  <1>5. ASSUME NEW u \in Busy(units)
        PROVE  u \in Busy(units') /\ units'[u].qr = units[u].qr
    <2>1. u \in Unit /\ units[u] \in UnitEntry /\ ~ \E i \in EntryId : Taken(i, u)
      BY <1>4 DEF PlacesShape, Taken, Idle
    <2>2. units'[u] = units[u]
      BY <1>2, <2>1, Zenon
    <2> QED
      BY <1>4, <2>1, <2>2 DEF PlacesShape
  <1>6. ASSUME NEW i \in Busy(exb)
        PROVE  \/ i \in Busy(exb') /\ exb'[i].qr = exb[i].qr
               \/ \E u \in Busy(units') : units'[u].qr = exb[i].qr
    <2>1. i \in EntryId /\ exb[i] \in ExbEntry
      BY <1>4 DEF PlacesShape
    <2>2. CASE ~ \E u \in Unit : Taken(i, u)
      <3>1. exb'[i] = exb[i]
        BY <1>1, <2>1, <2>2, Zenon
      <3> QED
        BY <1>4, <2>1, <3>1 DEF PlacesShape
    <2>3. CASE \E u \in Unit : Taken(i, u)
      <3>1. PICK u \in Unit : Taken(i, u)
        BY <2>3
      <3> DEFINE x == CHOOSE m \in EntryId : Taken(m, u)
      <3>2. x \in EntryId /\ Taken(x, u)
        BY <2>1, <3>1
      <3>3. x = i
        BY <3>1, <3>2, TakenOnce DEF EngInv
      <3>4. units'[u] = Loaded(exb[x], word[u])
        BY <1>2, <2>1, <3>1, Zenon
      <3>5. units'[u] = Loaded(exb[i], word[u])
        BY <3>3, <3>4
      <3> HIDE DEF x
      <3>6. units'[u].busy /\ units'[u].qr = exb[i].qr
        BY <3>5 DEF Loaded
      <3>7. u \in Busy(units')
        BY <1>2, <3>1, <3>6 DEF Busy
      <3> QED
        BY <3>6, <3>7
    <2> QED
      BY <2>2, <2>3
  <1>7. CASE \E i \in Busy(exb) : exb[i].qr = s
    BY <1>6, <1>7 DEF Held
  <1>8. CASE \E u \in Busy(units) : units[u].qr = s
    BY <1>5, <1>8 DEF Held
  <1>9. CASE \E l \in Busy(lane) : lane[l].qr = s
    BY <1>1, <1>9 DEF Held
  <1> QED
    BY <1>3, <1>7, <1>8, <1>9 DEF Held

LEMMA HeldThroughDispatch ==
  ASSUME EngInv, EngInv', Dispatch,
         NEW s \in Undone', s \in Undone => Held(s), ~FindsNoEntry(s)
  PROVE  Held(s)'
  <1>1. UNCHANGED <<units, lane>>
    BY DEF Dispatch
  <1>2. PICK rd, op :
          /\ rd \in Reg /\ rob_issue(rd)
          /\ exb' = Insert(op)
          /\ op.busy /\ op.qr = issue_ptr
    <2>1. PICK rd \in Reg, rs1 \in Reg, k \in {Immediate} \cup {Operand(rs2) : rs2 \in Reg}, n \in Latency :
            /\ rob_issue(rd)
            /\ exb' = Insert([busy |-> TRUE, qr |-> issue_ptr, cycles |-> n,
                              j |-> OperandJ(rs1, k), k |-> OperandK(k)])
      BY Zenon DEF Dispatch
    <2> DEFINE new == [busy |-> TRUE, qr |-> issue_ptr, cycles |-> n,
                       j |-> OperandJ(rs1, k), k |-> OperandK(k)]
    <2>2. new.busy /\ new.qr = issue_ptr
      OBVIOUS
    <2> HIDE DEF new
    <2> QED
      BY <2>1, <2>2 DEF new
  <1>3. issue_ptr \notin InRob /\ InRob' = InRob \cup {issue_ptr}
    BY <1>2, RingAfterIssue DEF EngInv
  <1>4. exb \in [EntryId -> {None} \cup ExbEntry]
    BY DEF EngInv, PlacesTyped
  <1>5. \A i \in Busy(exb) : i \in Busy(exb') /\ exb'[i] = exb[i]
    <2>1. CASE Busy(exb) = EntryId
      BY <1>2, <2>1 DEF Insert
    <2>2. CASE Busy(exb) # EntryId
      <3>1. PICK m \in EntryId \ Busy(exb) : exb' = [exb EXCEPT ![m] = op]
        BY <1>2, <2>2, InsertInFree DEF EngInv
      <3> QED
        BY <1>4, <3>1 DEF Busy
    <2> QED
      BY <2>1, <2>2
  <1>6. s = issue_ptr \/ s \in Undone
    <2>1. rob_done' = [rob_done EXCEPT ![issue_ptr] = FALSE]
      BY <1>2 DEF rob_issue
    <2>2. InRob \subseteq Slot
      BY InRobIsSlots DEF EngInv
    <2>3. \A t \in InRob : rob_done'[t] = rob_done[t]
      BY <1>3, <2>1, <2>2 DEF EngInv, SwRobTypeOK
    <2> QED
      BY <1>3, <2>3 DEF Undone
  <1>7. CASE s \in Undone
    BY <1>1, <1>5, <1>7 DEF Held
  <1>8. CASE s = issue_ptr
    <2>1. PICK m \in EntryId \ Busy(exb) : exb' = [exb EXCEPT ![m] = op]
      BY <1>2, <1>8, InsertInFree DEF EngInv, FindsNoEntry
    <2>2. m \in Busy(exb') /\ exb'[m].qr = issue_ptr
      BY <1>2, <1>4, <2>1 DEF Busy
    <2> QED
      BY <1>8, <2>2 DEF Held
  <1> QED
    BY <1>6, <1>7, <1>8

(***************************************************************************)
(* An instruction without a result has its operation in the execution      *)
(* buffer, a unit or a lane after every step, unless it was lost before    *)
(* the step, or the step is one of the two at which engine.c drops it:     *)
(* dispatch with no free entry (engine.c:262), write_back of a unit for    *)
(* which there is no lane (engine.c:392).                                  *)
(***************************************************************************)
LostOnlyWhereFull ==
  \A s \in Undone' :
    \/ Held(s)'
    \/ s \in Undone /\ ~Held(s)
    \/ Dispatch /\ FindsNoEntry(s)
    \/ WriteBack /\ FindsNoLane(s)

LEMMA HeldStep == EngInv /\ EngInv' /\ [EngineNext]_engineVars => LostOnlyWhereFull
  <1> SUFFICES ASSUME EngInv, EngInv', [EngineNext]_engineVars,
                      NEW s \in Undone', s \in Undone => Held(s),
                      ~(Dispatch /\ FindsNoEntry(s)), ~(WriteBack /\ FindsNoLane(s))
               PROVE  Held(s)'
    BY DEF LostOnlyWhereFull
  <1>1. ASSUME DispatchNothing \/ UNCHANGED engineVars
        PROVE  Held(s)'
    <2>1. UNCHANGED <<rob_done, commit_ptr, cnt, exb, units, lane>>
      BY <1>1 DEF DispatchNothing, engineVars, robVars
    <2>2. Undone' = Undone
      BY <2>1 DEF Undone, InRob, Nth
    <2> QED
      BY <2>1, <2>2 DEF Held
  <1>2. ASSUME Commit
        PROVE  Held(s)'
    <2>1. UNCHANGED <<exb, units, lane>>
      BY <1>2, NothingToForward, Zenon DEF Commit
    <2>2. Undone' = Undone
      <3>1. CASE CanCommit
        <4>1. rob_commit
          BY <1>2, <3>1 DEF Commit
        <4>2. InRob' = InRob \ {commit_ptr} /\ rob_done' = rob_done
          BY <4>1, RingAfterCommit DEF EngInv, rob_commit
        <4> QED
          BY <3>1, <4>2 DEF Undone, CanCommit
      <3>2. CASE ~CanCommit
        <4>1. UNCHANGED <<rob_done, commit_ptr, cnt>>
          BY <1>2, <3>2 DEF Commit, robVars
        <4> QED
          BY <4>1 DEF Undone, InRob, Nth
      <3> QED
        BY <3>1, <3>2
    <2> QED
      BY <2>1, <2>2 DEF Held
  <1> QED
    BY <1>1, <1>2, HeldThroughWriteBack, HeldThroughExecute, HeldThroughIssue, HeldThroughDispatch
       DEF EngineNext

(***************************************************************************)
(* Whatever the sizes, the operation of an instruction without a result    *)
(* disappears at no other step than the two at which engine.c has no room  *)
(* for it, and of the operations at hand at such a step only the one that  *)
(* finds no room.                                                          *)
(***************************************************************************)
THEOREM OperationsAreLostOnlyWhereFull == EngineSpec => [][LostOnlyWhereFull]_engineVars
  BY HeldStep, EngInvHolds, PTL DEF EngineSpec

=============================================================================
