---------------------------- MODULE OldestReady ----------------------------
(***************************************************************************)
(* What an issue buffer promises: operations wait in the order they came,  *)
(* become ready at any time and stay so, and the one that leaves is the    *)
(* oldest of the ready ones.                                               *)
(***************************************************************************)
EXTENDS Integers, Sequences, SequencesExt

CONSTANTS Entry, Capacity

VARIABLES
  order,   \* the entries that wait, oldest first
  ready    \* those that may leave

OInit == order = <<>> /\ ready = {}

Oldest == SelectInSeq(order, LAMBDA e : e \in ready)

Arrivals == {<<>>} \cup {<<e>> : e \in Entry \ ToSet(order)}

ONext ==
  \E arrival \in Arrivals, leaves \in BOOLEAN :
    /\ arrival # <<>> => Len(order) < Capacity
    /\ leaves => ready # {}
    /\ order' = (IF leaves THEN RemoveAt(order, Oldest) ELSE order) \o arrival
    /\ ready' \subseteq ToSet(order')
    /\ ready \cap ToSet(order') \subseteq ready'

OSpec == OInit /\ [][ONext]_<<order, ready>>

=============================================================================
