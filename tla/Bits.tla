-------------------------------- MODULE Bits --------------------------------
(***************************************************************************)
(* The puzzles of lab1/bits.c.  A word of W bits, 32 in the code, is the    *)
(* set of the positions of its ones, and the position 31 of the sign is     *)
(* W - 1.  An overflow wraps around, as the build makes it: the code relies *)
(* on it in x + ~y + 1 and ~x + 1.                                          *)
(***************************************************************************)
EXTENDS Integers

CONSTANT W
WidthAssumption == W \in Nat \ {0}

Bit == 0 .. W - 1
Word == SUBSET Bit

\* The operators of C.
Not(x) == Bit \ x
ExclusiveOr(x, y) == (x \ y) \cup (y \ x)
Shl(x, k) == {i \in Bit : i >= k /\ i - k \in x}
Sar(x, k) == {i \in Bit : IF i + k < W THEN i + k \in x ELSE W - 1 \in x}
LNot(x) == IF x = {} THEN {0} ELSE {}

\* A carry comes from a position where both are one, through positions where
\* one of them is.
Carry(x, y, i) == \E j \in x \cap y : j < i /\ (j + 1) .. (i - 1) \subseteq x \cup y
Add(x, y) == {i \in Bit : ~(i \in ExclusiveOr(x, y) <=> Carry(x, y, i))}
-----------------------------------------------------------------------------
abs(x) == Add(ExclusiveOr(Sar(x, W - 1), x), LNot(LNot(Sar(x, W - 1))))

bitAnd(x, y) == Not(Not(x) \cup Not(y))

\* The arguments are positions.
bitMask(highbit, lowbit) ==
  LET mask1 == Not(Shl(Shl(Not({}), highbit), 1))
      mask2 == Not(Shl(Not({}), lowbit))
  IN ExclusiveOr(mask1, mask2) \cap mask1

bitXor(x, y) == Not(x \cap y) \cap Not(Not(x) \cap Not(y))

conditional(x, y, z) ==
  LET sign == Sar(Shl(LNot(LNot(x)), W - 1), W - 1)
  IN (y \cap sign) \cup (z \cap Not(sign))

evenBits ==
  LET even == {0, 2, 4, 6}
  IN Add(Add(Add(even, Shl(even, 8)), Shl(even, 16)), Shl(even, 24))

isEqual(x, y) == LNot(ExclusiveOr(x, y))

\* A mutant: the sign of the difference alone.
LessByDifference(x, y) == Sar(Add(Add(x, Not(y)), {0}), W - 1) \cap {0}

isLess(x, y) ==
  LET xNeg_yPos == (Sar(x, W - 1) \cap {0}) \cap ExclusiveOr(Sar(y, W - 1), {0})
      xPos_yNeg == ExclusiveOr(Sar(x, W - 1), {0}) \cap (Sar(y, W - 1) \cap {0})
      less == Sar(Add(Add(x, Not(y)), {0}), W - 1)
  IN LNot(xPos_yNeg) \cap (xNeg_yPos \cup less)

isNegative(x) == LNot(ExclusiveOr(Not(Sar(x, W - 1)), {}))

isNonZero(x) == Sar(x \cup Add(Not(x), {0}), W - 1) \cap {0}

isPower2(x) ==
  (LNot(ExclusiveOr(x, x \cap Add(Not(x), {0}))) \cap LNot(Sar(x, W - 1))) \cap LNot(LNot(x))

leastBitPos(x) == x \cap Add(Not(x), {0})

logicalNeg(x) == Add(Sar(x \cup Add(Not(x), {0}), W - 1), {0})

reverseBytes(x) ==
  LET byte == 0 .. 7
  IN (byte \cap Sar(x, 24)) \cup Shl(byte \cap Sar(x, 16), 8)
     \cup Shl(byte \cap Sar(x, 8), 16) \cup Shl(byte \cap x, 24)

sum3(x, y, z) ==
  LET word1 == ExclusiveOr(ExclusiveOr(x, y), z)
      word2 == Shl((x \cap y) \cup (y \cap z) \cup (z \cap x), 1)
  IN Add(word1, word2)
=============================================================================
