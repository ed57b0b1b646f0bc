----------------------------- MODULE Immediates -----------------------------
(***************************************************************************)
(* immediate.c: the immediate of each format, as the 32-bit word the       *)
(* operand structure receives.  The positions are the masks and offsets of *)
(* desassembly.h.                                                          *)
(***************************************************************************)
EXTENDS Decoder

\* Mutant: the offset's lowest field is not put one bit up.
getBTypeImmediate_Unshifted(w) ==
  Put(w, 31, 31, 12) \cup Put(w, 7, 7, 11) \cup Put(w, 30, 25, 5)
    \cup Put(w, 11, 8, 0) \cup Extend(w, 31, 13)

\* Clearing bit 30 for SRAI comes after the shift, so that bit 10 of the
\* immediate, which tells SRAI from SRLI, stays in the shift count.
getITypeImmediate(w) ==
  LET shifted == Put(w, 31, 20, 0) \cup Extend(w, 31, 12)
  IN  (IF decodeInstruction(w) = "RV32E_SRAI" THEN shifted \ {30} ELSE shifted)
        \cup Extend(w, 31, 12)

getSTypeImmediate(w) ==
  Put(w, 31, 25, 5) \cup Put(w, 11, 7, 0) \cup Extend(w, 31, 12)

getBTypeImmediate(w) ==
  Put(w, 31, 31, 12) \cup Put(w, 7, 7, 11) \cup Put(w, 30, 25, 5)
    \cup Put(w, 11, 8, 1) \cup Extend(w, 31, 13)

getUTypeImmediate(w) == w \cap (12 .. 31)

getJTypeImmediate(w) ==
  Put(w, 31, 31, 20) \cup Put(w, 19, 12, 12) \cup Put(w, 20, 20, 11)
    \cup Put(w, 30, 21, 1) \cup Extend(w, 31, 21)

\* The CI_IMM5 and CI_IMM4_0 fields side by side.
Imm6(w) == Put(w, 12, 12, 5) \cup Put(w, 6, 2, 0)

getCiImmediate(w) ==
  LET name == decodeInstruction(w) IN
  CASE name = "C_SLLI" -> Imm6(w)
    [] name \in {"C_NOP", "C_ADDI", "C_LI", "C_LUI"} -> Imm6(w) \cup Extend(w, 12, 6)
    [] name = "C_LWSP" -> Put(w, 3, 2, 6) \cup Put(w, 12, 12, 5) \cup Put(w, 6, 4, 2)
    [] name = "C_ADDI16SP" ->
         Put(w, 12, 12, 9) \cup Put(w, 4, 3, 7) \cup Put(w, 5, 5, 6)
           \cup Put(w, 2, 2, 5) \cup Put(w, 6, 6, 4) \cup Extend(w, 12, 10)
    [] OTHER -> Zero

getCssImmediate(w) ==
  IF decodeInstruction(w) = "C_SWSP"
  THEN Put(w, 8, 7, 6) \cup Put(w, 12, 9, 2)
  ELSE Zero

\* The high field is shifted by four for the two bits of the next one, so that
\* it lands at 8 to 11 where the format has 6 to 9.
getCiwImmediate(w) ==
  IF decodeInstruction(w) = "C_ADDI4SPN"
  THEN Put(w, 10, 7, 8) \cup Put(w, 12, 11, 4) \cup Put(w, 5, 5, 3) \cup Put(w, 6, 6, 2)
  ELSE Zero

\* The offset of C_LW and C_SW.
WordOffset(w) == Put(w, 5, 5, 6) \cup Put(w, 12, 10, 3) \cup Put(w, 6, 6, 2)

getClImmediate(w) == IF decodeInstruction(w) = "C_LW" THEN WordOffset(w) ELSE Zero
getCsImmediate(w) == IF decodeInstruction(w) = "C_SW" THEN WordOffset(w) ELSE Zero

getCbImmediate(w) ==
  LET name == decodeInstruction(w) IN
  CASE name \in {"C_BEQZ", "C_BNEZ"} ->
         Put(w, 12, 12, 8) \cup Put(w, 6, 5, 6) \cup Put(w, 2, 2, 5)
           \cup Put(w, 11, 10, 3) \cup Put(w, 4, 3, 1) \cup Extend(w, 12, 9)
    [] name \in {"C_SRLI", "C_SRAI"} -> Imm6(w)
    [] name = "C_ANDI" -> Imm6(w) \cup Extend(w, 12, 6)
    [] OTHER -> Zero

getCjImmediate(w) ==
  IF decodeInstruction(w) \in {"C_JAL", "C_J"}
  THEN Put(w, 12, 12, 11) \cup Put(w, 8, 8, 10) \cup Put(w, 10, 9, 8)
         \cup Put(w, 6, 6, 7) \cup Put(w, 7, 7, 6) \cup Put(w, 2, 2, 5)
         \cup Put(w, 11, 11, 4) \cup Put(w, 5, 3, 1) \cup Extend(w, 12, 12)
  ELSE Zero

=============================================================================
