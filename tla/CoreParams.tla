----------------------------- MODULE CoreParams -----------------------------
(***************************************************************************)
(* The generics the re-order buffer and the register file share            *)
(* (hw/src/rgu/rgu.vhd, hw/src/common/tag_pkg.vhd).                        *)
(***************************************************************************)
EXTENDS Integers

CONSTANTS
  ROB_LEN,    \* width of a re-order buffer address
  ROB_SIZE,   \* slots of the re-order buffer
  REG_SIZE,   \* registers of the register file
  Val         \* data words

ASSUME SizeAssumption ==
  /\ ROB_LEN \in Nat \ {0}
  /\ ROB_SIZE \in Nat \ {0}
  /\ ROB_SIZE = 2^ROB_LEN
  /\ REG_SIZE \in Nat \ {0}

ASSUME ValAssumption == 0 \in Val

Slot == 0 .. ROB_SIZE - 1
Reg  == 0 .. REG_SIZE - 1

\* Mutant: the address does not wrap.
Inc_NoWrap(p) == p + 1

\* A slot address is ROB_LEN bits wide, so it wraps.
Inc(p) == IF p = ROB_SIZE - 1 THEN 0 ELSE p + 1

=============================================================================
