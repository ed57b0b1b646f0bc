------------------------------- MODULE Words -------------------------------
(***************************************************************************)
(* The 32-bit words of the instruction set simulator and the C operators   *)
(* its code applies to them.  A word is the set of the positions of its    *)
(* one bits, so that all of them are exact: unsigned and two's complement  *)
(* arithmetic is the same, and only comparisons and right shifts differ.   *)
(***************************************************************************)
EXTENDS Integers

XLEN == 32
Bit  == 0 .. XLEN - 1
Word == SUBSET Bit
Byte == SUBSET (0 .. 7)

Sign == XLEN - 1
Zero == {}
One  == {0}
Two  == {1}
Four == {2}

\* (w & mask) >> lo, where the mask covers bits hi down to lo.
Field(w, hi, lo) == {i - lo : i \in w \cap (lo .. hi)}

\* The same field, moved to position to.
Put(w, hi, lo, to) == {i - lo + to : i \in w \cap (lo .. hi)}

\* The number a field holds, from its highest bit down; the callers have at
\* most 24 bits.
Num(w, hi, lo) ==
  LET upper[n \in 0 .. hi + 1 - lo] ==
        IF n = 0 THEN 0 ELSE 2 * upper[n - 1] + IF hi + 1 - n \in w THEN 1 ELSE 0
  IN  upper[hi + 1 - lo]

\* The word of a small number.
Lit(n) == {i \in 0 .. 15 : (n \div 2^i) % 2 = 1}

Not(a) == Bit \ a
Xor(a, b) == (a \ b) \cup (b \ a)

\* Bits high and above are ones when bit b of w is one.
Extend(w, b, high) == IF b \in w THEN high .. Sign ELSE {}

\* A carry reaches bit i when some bit below generates one (or it comes in
\* from outside) and all the bits between pass it on.
Carry(a, b, in, i) ==
  \/ in /\ 0 .. i - 1 \subseteq a \cup b
  \/ \E j \in 0 .. i - 1 : j \in a \cap b /\ j + 1 .. i - 1 \subseteq a \cup b

Adder(a, b, in) == {i \in Bit : (i \in Xor(a, b)) # Carry(a, b, in, i)}

Add(a, b) == Adder(a, b, FALSE)
Sub(a, b) == Adder(a, Not(b), TRUE)

\* abs of the C library; the absolute value of the least int is itself.
Abs(a) == IF Sign \in a THEN Sub(Zero, a) ELSE a

\* The highest bit in which two words differ decides a comparison.
LessUnsigned(a, b) == \E i \in b \ a : \A j \in i + 1 .. Sign : (j \in a) = (j \in b)
Less(a, b) == LessUnsigned(Xor(a, {Sign}), Xor(b, {Sign}))

\* Shift counts of 32 and more are undefined in C; the machine instruction
\* the compiler emits takes the count modulo 32.
ShiftCount(a) == Num(a, 4, 0)
ShiftLeft(a, k) == {i + ShiftCount(k) : i \in a} \cap Bit
ShiftRight(a, k) == {i - ShiftCount(k) : i \in a} \cap Bit
ShiftRightArith(a, k) ==
  ShiftRight(a, k) \cup Extend(a, Sign, XLEN - ShiftCount(k))

=============================================================================
