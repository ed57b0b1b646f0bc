----------------------------- MODULE LsuParams -----------------------------
(***************************************************************************)
(* The generics that the parts of the load and store unit share            *)
(* (hw/src/lsu/lsu.vhd, where GRP_LEN is the constant 4).                  *)
(***************************************************************************)
EXTENDS Integers

CONSTANTS
  STU_SIZE,   \* stores in the store buffer, 2**STU_LEN
  GRP_LEN     \* width of a group number

ASSUME LsuSizeAssumption == STU_SIZE \in Nat \ {0} /\ GRP_LEN \in Nat \ {0}

\* Follows from the above; the proofs need it said.
ASSUME GroupCountAssumption == 2^GRP_LEN \in Nat \ {0}

StuSlot == 0 .. STU_SIZE - 1
Group   == 0 .. 2^GRP_LEN - 1

=============================================================================
