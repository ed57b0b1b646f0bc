------------------------------- MODULE MCLsu -------------------------------
(* The load and store unit with short programs and any memory. *)
EXTENDS Lsu, TLC

CONSTANT MaxOps    \* loads, stores and fences of a program

VARIABLE ops

MCInit == LsuInit /\ ops = 0

MCNext ==
  \/ ops < MaxOps /\ LsuDispatch /\ ops' = ops + 1
  \/ LsuQuiet /\ UNCHANGED ops

MCSpec == MCInit /\ [][MCNext]_<<lsuVars, ops>>

MCSymmetry == Permutations(Addr)

=============================================================================
