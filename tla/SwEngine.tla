------------------------------ MODULE SwEngine ------------------------------
(***************************************************************************)
(* The cycle of the C simulator, sw/src/engine.c.  engine_run calls the    *)
(* stages back to front, commit first, and each stage is an action; phase  *)
(* is the stage that runs next.                                            *)
(*                                                                         *)
(* An operand has q, the set of at most one entry it waits for (rj and rk  *)
(* are q = {}), and v, the set of at most one word assigned to it: a word  *)
(* that is read while v = {} is an uninitialised variable of dispatch.     *)
(* The result of an operation is any word, its latency any of Latency.     *)
(***************************************************************************)
EXTENDS SwRob

CONSTANTS
  ExbSize, NbUnits, NbLanes,   \* engine_parameters
  Latency                      \* what alu_get_cycle may return

ASSUME EngineAssumption ==
  /\ ExbSize \in Nat \ {0} /\ NbUnits \in Nat \ {0} /\ NbLanes \in Nat \ {0}
  /\ Latency \subseteq Nat

VARIABLES
  exb,     \* the execution buffer
  units,   \* the execution units
  lane,    \* the lanes of the common data bus
  phase    \* the next call of engine_run

engineVars == <<robVars, regVars, exb, units, lane, phase>>

EntryId == 0 .. ExbSize - 1
Unit    == 0 .. NbUnits - 1
Lane    == 0 .. NbLanes - 1

None == [busy |-> FALSE]           \* a free entry, an idle unit, no word

Busy(f)    == {i \in DOMAIN f : f[i].busy}
Words(bus) == {bus[l] : l \in Busy(bus)}

\* Position of an index in the list that a scan of the array would build.
Rank(S, i) == Cardinality({k \in S : k < i})

\* malloc leaves the lanes as they were; the first write-back clears them.
EngineInit ==
  /\ RobInit /\ RegInit
  /\ exb = [i \in EntryId |-> None]
  /\ units = [u \in Unit |-> None]
  /\ lane \in [Lane -> {None} \cup [busy : {TRUE}, qr : Slot, result : Word]]
  /\ phase = "commit"

-----------------------------------------------------------------------------
\* An operand that waits for the entry of one of the words receives it.
Receive(o, words) ==
  IF \E w \in words : w.qr \in o.q
  THEN [q |-> {}, v |-> {(CHOOSE w \in words : w.qr \in o.q).result}]
  ELSE o

\* commit() stops at the first operand that waits for the entry.
ForwardCommit(word) ==
  LET hit(o)  == word.qr \in o.q
      waiting == {i \in Busy(exb) : hit(exb[i].j) \/ hit(exb[i].k)}
      i == Min(waiting)
  IN  IF waiting = {} THEN exb
      ELSE IF hit(exb[i].j) THEN [exb EXCEPT ![i].j = Receive(@, {word})]
      ELSE [exb EXCEPT ![i].k = Receive(@, {word})]

Commit ==
  /\ phase = "commit" /\ phase' = "write_back"
  /\ IF CanCommit
     THEN /\ rob_commit
          /\ reg_write_data(rob_dest[commit_ptr], rob_data[commit_ptr])
          /\ exb' = ForwardCommit([qr |-> commit_ptr, result |-> rob_data[commit_ptr]])
     ELSE UNCHANGED <<robVars, regVars, exb>>
  /\ UNCHANGED <<units, lane>>

\* Mutant: a unit is done one cycle too early.
Done_OneLeft == {u \in Busy(units) : units[u].left = 1}

\* The units that have finished; the k-th of them uses lane k.  A unit is
\* freed whether its lane exists or not: what is stored past the last lane
\* is never read.
Done == {u \in Busy(units) : units[u].left = 0}

LaneWord(l) ==
  IF l < Cardinality(Done)
  THEN LET u == CHOOSE u \in Done : Rank(Done, u) = l
       IN  [busy |-> TRUE, qr |-> units[u].qr, result |-> units[u].result]
  ELSE None

WriteBack ==
  /\ phase = "write_back" /\ phase' = "execute"
  /\ rob_write(Words(lane))
  /\ lane' = [l \in Lane |-> LaneWord(l)]
  /\ units' = [u \in Unit |-> IF u \in Done THEN None ELSE units[u]]
  /\ exb' = [i \in EntryId |->
       IF i \in Busy(exb)
       THEN [exb[i] EXCEPT !.j = Receive(@, Words(lane')), !.k = Receive(@, Words(lane'))]
       ELSE exb[i]]
  /\ UNCHANGED regVars

Execute ==
  /\ phase = "execute" /\ phase' = "issue"
  /\ units' = [u \in Unit |-> IF units[u].busy /\ units[u].left # 0
                              THEN [units[u] EXCEPT !.left = @ - 1] ELSE units[u]]
  /\ UNCHANGED <<robVars, regVars, exb, lane>>

\* The first ready entries go to the first idle units.
Issue ==
  LET ready == {i \in Busy(exb) : exb[i].j.q = {} /\ exb[i].k.q = {}}
      idle  == Unit \ Busy(units)
      taken(i, u) == i \in ready /\ u \in idle /\ Rank(ready, i) = Rank(idle, u)
      loaded(e, w) == [busy |-> TRUE, qr |-> e.qr, left |-> e.cycles, result |-> w]
  IN  /\ phase = "issue" /\ phase' = "dispatch"
      /\ \E word \in [Unit -> Word] :
           units' = [u \in Unit |-> IF \E i \in EntryId : taken(i, u)
                       THEN loaded(exb[CHOOSE i \in EntryId : taken(i, u)], word[u])
                       ELSE units[u]]
      /\ exb' = [i \in EntryId |-> IF \E u \in Unit : taken(i, u) THEN None ELSE exb[i]]
      /\ UNCHANGED <<robVars, regVars, lane>>

-----------------------------------------------------------------------------
\* Mutant: an operand is not looked for on the bus.
OnBus_Nothing(q) == {}

OnBus(q) == {w \in Words(lane) : w.qr = q}

(***************************************************************************)
(* dispatch().  An operand is taken from the register when that is not     *)
(* dirty, from the bus, or from the re-order buffer.  rob_read stores the  *)
(* entry's data whether it is done or not, and the code that looks for     *)
(* operand K stores it in vj (engine.c:249).                               *)
(***************************************************************************)
Operand(rs) ==
  LET q == reg_s[rs]
  IN  IF ~reg_d[rs] THEN [q |-> {}, v |-> {reg_x[rs]}, rob |-> {}]
      ELSE IF OnBus(q) # {} THEN [q |-> {}, v |-> {(CHOOSE w \in OnBus(q) : TRUE).result}, rob |-> {}]
      ELSE [q |-> IF rob_done[q] /\ q # issue_ptr THEN {} ELSE {q},
            v |-> {}, rob |-> {rob_data[q]}]

OperandJ(rs1, k) ==
  LET o == Operand(rs1)
  IN  [q |-> o.q, v |-> IF k.rob # {} THEN k.rob ELSE o.v \cup o.rob]

OperandK(k) == [q |-> k.q, v |-> k.v]

Immediate == [q |-> {}, v |-> {0}, rob |-> {}]

\* Mutant: the operation is always stored in the first entry.
Insert_First(op) == [exb EXCEPT ![0] = op]

\* The operation is stored in the first free entry, and nowhere when there
\* is none.
Insert(op) ==
  IF Busy(exb) = EntryId THEN exb
  ELSE [exb EXCEPT ![Min(EntryId \ Busy(exb))] = op]

Dispatch ==
  /\ phase = "dispatch" /\ phase' = "commit"
  /\ \E rd, rs1 \in Reg, k \in {Immediate} \cup {Operand(rs2) : rs2 \in Reg}, n \in Latency :
       /\ rob_issue(rd)
       /\ reg_write_src(rd, issue_ptr)
       /\ exb' = Insert([busy |-> TRUE, qr |-> issue_ptr, cycles |-> n,
                         j |-> OperandJ(rs1, k), k |-> OperandK(k)])
  /\ UNCHANGED <<units, lane>>

\* A zero word, or any instruction while the re-order buffer is full.
DispatchNothing ==
  /\ phase = "dispatch" /\ phase' = "commit"
  /\ UNCHANGED <<robVars, regVars, exb, units, lane>>

EngineNext == Commit \/ WriteBack \/ Execute \/ Issue \/ Dispatch \/ DispatchNothing

EngineSpec == EngineInit /\ [][EngineNext]_engineVars

\* main() calls engine_run over and over.
EngineFairSpec == EngineSpec /\ WF_engineVars(EngineNext)

-----------------------------------------------------------------------------
OperandType == [q : {{}} \cup {{s} : s \in Slot}, v : {{}} \cup {{w} : w \in Word}]

EngineTypeOK ==
  /\ SwRobTypeOK
  /\ \A i \in EntryId : exb[i] = None \/
       exb[i] \in [busy : {TRUE}, qr : Slot, cycles : Latency, j : OperandType, k : OperandType]
  /\ \A u \in Unit : units[u] = None \/
       /\ units[u].qr \in Slot /\ units[u].result \in Word /\ units[u].left \in Nat
  /\ \A l \in Lane : lane[l] = None \/ (lane[l].qr \in Slot /\ lane[l].result \in Word)

-----------------------------------------------------------------------------
InFlight ==
  [k \in 1 .. cnt |->
     [rd     |-> rob_dest[Nth(k)],
      result |-> IF rob_done[Nth(k)] THEN {rob_data[Nth(k)]} ELSE {}]]

Retirement == INSTANCE RetireQueue
                WITH Dest <- Reg, Word <- Word, Depth <- RobSize, queue <- InFlight

\* The buffer implements the same queue as the hardware's, with its three
\* operations at separate times: instructions leave in program order, each
\* with the one result that was written for it.
SwRetiresInOrder == Retirement!SeparateSpec

(***************************************************************************)
(* The operation of an instruction without a result is in one place: the   *)
(* execution buffer, a unit or a lane.  One that is nowhere blocks the     *)
(* commit for ever.                                                        *)
(***************************************************************************)
Holders(s) ==
  {<<"exb", i>>  : i \in {e \in Busy(exb) : exb[e].qr = s}} \cup
  {<<"unit", u>> : u \in {e \in Busy(units) : units[e].qr = s}} \cup
  {<<"lane", l>> : l \in {e \in Busy(lane) : lane[e].qr = s}}

EveryUndoneIsHeld ==
  \A s \in InRob : ~rob_done[s] => Cardinality(Holders(s)) = 1

\* Nobody waits for an entry that has its result: what commit() forwards to
\* the execution buffer has been forwarded by write_back() before.
NobodyWaitsForDone ==
  \A i \in Busy(exb) : \A s \in exb[i].j.q \cup exb[i].k.q : s \in InRob /\ ~rob_done[s]

\* The oldest instruction gets its result, so the buffer keeps moving and
\* every instruction that enters it is committed in its turn.
OldestGetsDone == cnt # 0 ~> CanCommit

=============================================================================
