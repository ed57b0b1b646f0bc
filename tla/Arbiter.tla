------------------------------ MODULE Arbiter ------------------------------
(***************************************************************************)
(* The arbiter of the common data bus, hw/src/arbiter.vhd (architecture    *)
(* round_robin): one token among N initiators; the one that holds it is    *)
(* granted while it requests.  The one-hot token is kept as the position   *)
(* of its bit.                                                             *)
(***************************************************************************)
EXTENDS Integers

CONSTANT N        \* number of initiators, at least one

VARIABLE token

granted(req) == {token} \cap req

\* Where the rotation by one more than the token puts bit i.
Rotated(i) == (i + token + 1) % N

ArbiterInit == token = 0

\* Mutant: the selected position is not rotated back.
NextToken_NotRotatedBack(req) ==
  CHOOSE p \in {Rotated(i) : i \in req} : \A k \in req : Rotated(k) <= p

\* The token goes to the requester that the rotation puts highest.
NextToken(req) == CHOOSE i \in req : \A k \in req : Rotated(k) <= Rotated(i)

ArbiterEdge(req) == token' = IF req = {} THEN token ELSE NextToken(req)

=============================================================================
