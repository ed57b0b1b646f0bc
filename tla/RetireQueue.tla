---------------------------- MODULE RetireQueue ----------------------------
(***************************************************************************)
(* What a re-order buffer promises: a bounded queue of instructions in     *)
(* program order.  A result reaches its instruction at any time and once;  *)
(* the oldest instruction leaves when its result is there.  An entry's     *)
(* result is a set of at most one word.                                    *)
(***************************************************************************)
EXTENDS Integers, Sequences

CONSTANTS Dest, Word, Depth

VARIABLE queue

Pending == {k \in DOMAIN queue : queue[k].result = {}}

Entry(rd) == [rd |-> rd, result |-> {}]

Retires == queue # <<>> /\ Head(queue).result # {}

\* Entry k receives the word w; k = 0 when no result arrives.
Filled(k, w) == IF k = 0 THEN queue ELSE [queue EXCEPT ![k].result = {w}]

QInit == queue = <<>>

\* newcomers: the dispatched instruction, or nobody.
QEdge(newcomers, k, w) ==
  /\ Len(queue) = Depth => newcomers = <<>>
  /\ LET grown == Filled(k, w) \o newcomers
     IN  queue' = IF Retires THEN Tail(grown) ELSE grown

Newcomers == {<<>>} \cup {<<Entry(rd)>> : rd \in Dest}

(***************************************************************************)
(* The same promise for a buffer whose operations are separate calls: one  *)
(* step appends an instruction, gives pending ones their result, or lets   *)
(* the oldest leave.                                                       *)
(***************************************************************************)
Append1 == Len(queue) < Depth /\ \E rd \in Dest : queue' = Append(queue, Entry(rd))

Fill ==
  \E filled \in SUBSET Pending : \E w \in [filled -> Word] :
    queue' = [k \in DOMAIN queue |->
                IF k \in filled THEN [queue[k] EXCEPT !.result = {w[k]}] ELSE queue[k]]

Leave == Retires /\ queue' = Tail(queue)

SeparateSpec == QInit /\ [][Append1 \/ Fill \/ Leave]_queue

=============================================================================
