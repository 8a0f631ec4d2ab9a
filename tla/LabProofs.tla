----------------------------- MODULE LabProofs -----------------------------
(***************************************************************************)
(* The theorems of the two small laboratories.  The puzzles of Bits.tla give *)
(* the right result for every word, of any width where the code does not     *)
(* count on 32 bits.  The cache simulator of Csim.tla, for any number of     *)
(* sets and lines and any trace, keeps its types, distinct tags and          *)
(* timestamps in a set, and its counts, and replaces the least recently used *)
(* tag.                                                                      *)
(***************************************************************************)
EXTENDS Btest, Csim, LeastNumber, FiniteSetTheorems

\* Positions of a word are numbers below its width.
LEMMA PositionsAreBits ==
  ASSUME WidthAssumption
  PROVE  /\ W \in Nat /\ W - 1 \in Nat /\ W - 1 \in Bit /\ 0 \in Bit
         /\ \A k \in Bit : k \in Nat /\ 0 <= k /\ k < W /\ k <= W - 1
BY DEF WidthAssumption, Bit

\* x >> 31 is all ones or all zeros.
LEMMA SignSpreads ==
  ASSUME WidthAssumption, NEW x \in Word
  PROVE  Sar(x, W - 1) = IF W - 1 \in x THEN Bit ELSE {}
<1>1. \A k \in Bit : k \in Sar(x, W - 1) <=> W - 1 \in x
  BY PositionsAreBits DEF Sar
<1>2. \A k \in Sar(x, W - 1) : k \in Bit
  BY DEF Sar
<1> QED
  BY <1>1, <1>2

\* Nothing is carried into the lowest position; with no position where both
\* are one nothing is carried at all.
LEMMA NoCarry ==
  ASSUME WidthAssumption, NEW x \in Word, NEW y \in Word
  PROVE  /\ ~Carry(x, y, 0)
         /\ x \cap y = {} => Add(x, y) = x \cup y
<1>1. \A j \in x : j \in Bit
  BY DEF Word
<1>2. \A j \in y : j \in Bit
  BY DEF Word
<1>3. ~Carry(x, y, 0)
  BY <1>1, PositionsAreBits DEF Carry
<1>4. ASSUME x \cap y = {} PROVE Add(x, y) = x \cup y
  <2>1. \A k : ~Carry(x, y, k)
    BY <1>4 DEF Carry
  <2> QED
    BY <1>1, <1>2, <1>4, <2>1 DEF Add, ExclusiveOr
<1> QED
  BY <1>3, <1>4

\* ~x + 1 is -x.
LEMMA NegationByComplement ==
  ASSUME WidthAssumption, NEW x \in Word
  PROVE  Add(Not(x), {0}) = Minus(x)
<1>1. \A j \in x : j \in Bit
  BY DEF Word
<1>2. \A k \in Bit : Carry(Not(x), {0}, k) <=> 0 < k /\ \A j \in Bit : j < k => j \notin x
  <2> TAKE k \in Bit
  <2>1. Carry(Not(x), {0}, k) <=> 0 \in Not(x) /\ 0 < k /\ 1 .. k - 1 \subseteq Not(x) \cup {0}
    BY DEF Carry
  <2>2. 1 .. k - 1 \subseteq Not(x) \cup {0} <=> \A j \in 1 .. k - 1 : j \notin x
    BY PositionsAreBits DEF Not, Bit
  <2>3. 0 \in Not(x) <=> 0 \notin x
    BY PositionsAreBits DEF Not
  <2>4. \A j \in Bit : j < k <=> (j = 0 /\ 0 < k) \/ j \in 1 .. k - 1
    BY PositionsAreBits
  <2>5. \A j \in 1 .. k - 1 : j \in Bit /\ j < k
    BY PositionsAreBits DEF Bit
  <2> QED
    BY <2>1, <2>2, <2>3, <2>4, <2>5, PositionsAreBits
<1>3. \A k \in Bit : k \in ExclusiveOr(Not(x), {0}) <=> (IF k = 0 THEN k \in x ELSE k \notin x)
  BY PositionsAreBits DEF ExclusiveOr, Not
<1>4. \A k \in Bit : (\E j \in x : j < k) <=> ~(\A j \in Bit : j < k => j \notin x)
  BY <1>1
<1>5. \A k \in Bit : k \in Add(Not(x), {0}) <=> k \in Minus(x)
  <2> TAKE k \in Bit
  <2>1. k \in Minus(x) <=> ~(k \in x <=> \E j \in x : j < k)
    BY DEF Minus
  <2>2. k \in Add(Not(x), {0}) <=> ~(k \in ExclusiveOr(Not(x), {0}) <=> Carry(Not(x), {0}, k))
    BY DEF Add
  <2>3. CASE k = 0
    <3>1. ~(\E j \in x : j < k)
      <4> SUFFICES ASSUME NEW j \in x, j < 0 PROVE FALSE
        BY <2>3
      <4> QED
        BY <1>1, PositionsAreBits
    <3>2. ~Carry(Not(x), {0}, k)
      BY <1>2, <2>3
    <3> QED
      BY <1>3, <2>1, <2>2, <2>3, <3>1, <3>2, Zenon
  <2>4. CASE k # 0
    <3>1. 0 < k
      BY <2>4, PositionsAreBits
    <3>2. Carry(Not(x), {0}, k) <=> ~(\E j \in x : j < k)
      BY <1>2, <1>4, <3>1
    <3>3. k \in ExclusiveOr(Not(x), {0}) <=> k \notin x
      BY <1>3, <2>4
    <3> QED
      BY <2>1, <2>2, <3>2, <3>3, Zenon
  <2> QED
    BY <2>3, <2>4
<1> QED
  <2>1. \A k \in Add(Not(x), {0}) : k \in Bit
    BY DEF Add
  <2>2. \A k \in Minus(x) : k \in Bit
    BY DEF Minus
  <2> QED
    BY <1>5, <2>1, <2>2
-----------------------------------------------------------------------------
\* A word is below 0 exactly when its highest bit is set.
LEMMA SignIsGreatest ==
  ASSUME WidthAssumption, NEW x \in Word
  PROVE  Less(x, {}) <=> W - 1 \in x
<1>1. ExclusiveOr(x, {}) = x
  BY DEF ExclusiveOr
<1>2. \A j \in x : j \in Bit
  BY DEF Word
<1>3. ASSUME W - 1 \in x PROVE Less(x, {})
  BY <1>1, <1>2, <1>3, PositionsAreBits DEF Less
<1>4. ASSUME Less(x, {}) PROVE W - 1 \in x
  BY <1>1, <1>4 DEF Less
<1> QED
  BY <1>3, <1>4

\* abs gives -x for a negative x and x otherwise.
LEMMA AbsRight ==
  ASSUME WidthAssumption, NEW x \in Word
  PROVE  abs(x) = test_abs(x)
<1>1. CASE W - 1 \in x
  <2>1. ExclusiveOr(Bit, x) = Not(x)
    BY DEF ExclusiveOr, Not, Word
  <2>2. LNot(LNot(Bit)) = {0}
    BY PositionsAreBits DEF LNot
  <2> QED
    BY <1>1, <2>1, <2>2, SignSpreads, SignIsGreatest, NegationByComplement DEF abs, test_abs
<1>2. CASE W - 1 \notin x
  <2>1. ExclusiveOr({}, x) = x
    BY DEF ExclusiveOr
  <2>2. LNot(LNot({})) = {}
    BY DEF LNot
  <2>3. Add(x, {}) = x
    BY NoCarry DEF Word
  <2> QED
    BY <1>2, <2>1, <2>2, <2>3, SignSpreads, SignIsGreatest DEF abs, test_abs
<1> QED
  BY <1>1, <1>2

\* bitAnd and bitXor are & and ^, and isEqual is equality.
LEMMA BitwiseRight ==
  ASSUME NEW x \in Word, NEW y \in Word
  PROVE  /\ bitAnd(x, y) = x \cap y
         /\ bitXor(x, y) = ExclusiveOr(x, y)
         /\ isEqual(x, y) = Int01(x = y)
<1>1. \A j : (j \in x => j \in Bit) /\ (j \in y => j \in Bit)
  BY DEF Word
<1>2. bitAnd(x, y) = x \cap y
  BY <1>1 DEF bitAnd, Not
<1>3. bitXor(x, y) = ExclusiveOr(x, y)
  BY <1>1 DEF bitXor, Not, ExclusiveOr
<1>4. ExclusiveOr(x, y) = {} <=> x = y
  BY DEF ExclusiveOr
<1> QED
  BY <1>2, <1>3, <1>4 DEF isEqual, LNot, Int01

\* The mask of the positions from lowbit to highbit, none when they are out of
\* order; a shift by 32, which C leaves undefined, is avoided.
LEMMA MaskRight ==
  ASSUME WidthAssumption, NEW highbit \in Bit, NEW lowbit \in Bit
  PROVE  bitMask(highbit, lowbit) = lowbit .. highbit
<1>1. \A k : k \in Shl(Not({}), lowbit) <=> k \in Bit /\ k >= lowbit
  BY PositionsAreBits DEF Shl, Not, Bit
<1>2. \A k : k \in Shl(Not({}), highbit) <=> k \in Bit /\ k >= highbit
  BY PositionsAreBits DEF Shl, Not, Bit
<1>3. \A k : k \in Shl(Shl(Not({}), highbit), 1) <=> k \in Bit /\ k >= highbit + 1
  BY <1>2, PositionsAreBits DEF Shl, Bit
<1>4. \A k : k \in Not(Shl(Shl(Not({}), highbit), 1)) <=> k \in Bit /\ k <= highbit
  BY <1>3, PositionsAreBits DEF Not, Bit
<1>5. \A k : k \in Not(Shl(Not({}), lowbit)) <=> k \in Bit /\ k < lowbit
  BY <1>1, PositionsAreBits DEF Not, Bit
<1>6. \A k : k \in bitMask(highbit, lowbit) <=> k \in Bit /\ k <= highbit /\ ~(k < lowbit)
  BY <1>4, <1>5 DEF bitMask, ExclusiveOr
<1>7. \A k : k \in lowbit .. highbit <=> k \in Bit /\ k <= highbit /\ ~(k < lowbit)
  BY PositionsAreBits DEF Bit
<1> QED
  BY <1>6, <1>7

\* conditional gives y when x is not 0, else z.
LEMMA ConditionalRight ==
  ASSUME WidthAssumption, NEW x \in Word, NEW y \in Word, NEW z \in Word
  PROVE  conditional(x, y, z) = IF x # {} THEN y ELSE z
<1>1. \A j : (j \in y => j \in Bit) /\ (j \in z => j \in Bit)
  BY DEF Word
<1>2. LNot(LNot(x)) = IF x # {} THEN {0} ELSE {}
  BY DEF LNot
<1>3. Shl({0}, W - 1) = {W - 1} /\ Shl({}, W - 1) = {}
  BY PositionsAreBits DEF Shl
<1>4. {W - 1} \in Word /\ {} \in Word
  BY PositionsAreBits DEF Word
<1>5. Sar(Shl(LNot(LNot(x)), W - 1), W - 1) = IF x # {} THEN Bit ELSE {}
  BY <1>2, <1>3, <1>4, SignSpreads
<1>6. (y \cap Bit) \cup (z \cap Not(Bit)) = y /\ (y \cap {}) \cup (z \cap Not({})) = z
  BY <1>1 DEF Not
<1> QED
  BY <1>5, <1>6 DEF conditional

\* isNegative gives the sign.
LEMMA NegativeRight ==
  ASSUME WidthAssumption, NEW x \in Word
  PROVE  isNegative(x) = Int01(Less(x, {}))
<1>1. Not(Bit) = {} /\ Not({}) = Bit
  BY DEF Not
<1>2. \A y : ExclusiveOr(y, {}) = y
  BY DEF ExclusiveOr
<1>3. Bit # {}
  BY PositionsAreBits
<1> QED
  BY <1>1, <1>2, <1>3, SignSpreads, SignIsGreatest DEF isNegative, LNot, Int01

\* Of x and -x one is negative unless x is 0.
LEMMA ZeroTest ==
  ASSUME WidthAssumption, NEW x \in Word
  PROVE  Sar(x \cup Add(Not(x), {0}), W - 1) = IF x = {} THEN {} ELSE Bit
<1>1. \A j \in x : j \in Bit
  BY DEF Word
<1>2. x \cup Minus(x) \in Word
  BY DEF Minus, Word
<1>3. W - 1 \in x \cup Minus(x) <=> x # {}
  <2>1. ASSUME NEW j \in x, W - 1 \notin x PROVE W - 1 \in Minus(x)
    <3>1. j \in Bit /\ j # W - 1
      BY <1>1, <2>1
    <3>2. j < W - 1
      BY <3>1, PositionsAreBits
    <3> QED
      BY <2>1, <3>2, PositionsAreBits DEF Minus
  <2>2. ASSUME x = {} PROVE W - 1 \notin x \cup Minus(x)
    BY <2>2 DEF Minus
  <2> QED
    BY <2>1, <2>2
<1> QED
  BY <1>2, <1>3, SignSpreads, NegationByComplement

\* isNonZero and logicalNeg tell whether a word is 0.
LEMMA NonZeroRight ==
  ASSUME WidthAssumption, NEW x \in Word
  PROVE  /\ isNonZero(x) = Int01(x # {})
         /\ logicalNeg(x) = Int01(x = {})
<1>1. {} \cap {0} = {} /\ Bit \cap {0} = {0}
  BY PositionsAreBits
<1>2. isNonZero(x) = Int01(x # {})
  BY <1>1, ZeroTest DEF isNonZero, Int01
<1>3. {} \in Word /\ {0} \in Word
  BY PositionsAreBits DEF Word
<1>4. Add({}, {0}) = {0}
  BY <1>3, NoCarry
<1>5. Add(Bit, {0}) = {}
  <2>1. Not({}) = Bit
    BY DEF Not
  <2>2. Minus({}) = {}
    BY DEF Minus
  <2> QED
    BY <1>3, <2>1, <2>2, NegationByComplement
<1>6. logicalNeg(x) = Int01(x = {})
  BY <1>4, <1>5, ZeroTest DEF logicalNeg, Int01
<1> QED
  BY <1>2, <1>6

\* x & -x keeps the lowest one.
LEMMA LeastRight ==
  ASSUME WidthAssumption, NEW x \in Word
  PROVE  leastBitPos(x) = test_leastBitPos(x)
<1>1. \A j \in x : j \in Bit
  BY DEF Word
<1>2. \A k : k \in x \cap Minus(x) <=> k \in x /\ ~\E j \in x : j < k
  BY <1>1 DEF Minus
<1>3. \A k \in x : (~\E j \in x : j < k) <=> \A j \in x : k <= j
  BY <1>1, PositionsAreBits
<1>4. \A k : k \in x \cap Minus(x) <=> k \in test_leastBitPos(x)
  BY <1>2, <1>3 DEF test_leastBitPos
<1>5. x \cap Minus(x) = test_leastBitPos(x)
  BY <1>4
<1> QED
  BY <1>5, NegationByComplement DEF leastBitPos

\* A power of two is its own lowest one, and not the sign.
LEMMA PowerRight ==
  ASSUME WidthAssumption, NEW x \in Word
  PROVE  isPower2(x) = Int01(\E k \in 0 .. W - 2 : x = {k})
<1>1. \A j \in x : j \in Bit /\ j \in Nat
  BY PositionsAreBits DEF Word
<1>2. LNot(ExclusiveOr(x, x \cap Add(Not(x), {0}))) = Int01(x = test_leastBitPos(x))
  BY LeastRight DEF leastBitPos, ExclusiveOr, LNot, Int01
<1>3. LNot(Sar(x, W - 1)) = Int01(W - 1 \notin x)
  BY SignSpreads, PositionsAreBits DEF LNot, Int01
<1>4. LNot(LNot(x)) = Int01(x # {})
  BY DEF LNot, Int01
<1>5. isPower2(x) = Int01(x = test_leastBitPos(x) /\ W - 1 \notin x /\ x # {})
  BY <1>2, <1>3, <1>4 DEF isPower2, Int01
<1>6. ASSUME x = test_leastBitPos(x), W - 1 \notin x, x # {}
      PROVE  \E k \in 0 .. W - 2 : x = {k}
  <2>1. PICK k \in x : TRUE
    BY <1>6
  <2>2. \A j \in x : j = k
    BY <1>1, <1>6 DEF test_leastBitPos
  <2>3. k \in 0 .. W - 2
    BY <1>1, <1>6, <2>1, PositionsAreBits
  <2> QED
    BY <2>1, <2>2, <2>3
<1>7. ASSUME NEW k \in 0 .. W - 2, x = {k}
      PROVE  x = test_leastBitPos(x) /\ W - 1 \notin x /\ x # {}
  <2>1. W - 1 # k /\ k <= k
    BY PositionsAreBits
  <2> QED
    BY <1>7, <2>1 DEF test_leastBitPos
<1> QED
  BY <1>5, <1>6, <1>7 DEF Int01
-----------------------------------------------------------------------------
\* Two words that differ have a highest position where they do.
LEMMA HighestDifference ==
  ASSUME WidthAssumption, NEW x \in Word, NEW y \in Word, x # y
  PROVE  \E k \in ExclusiveOr(x, y) : \A j \in ExclusiveOr(x, y) : j <= k
<1> DEFINE Down == {n \in Nat : n < W /\ W - 1 - n \in ExclusiveOr(x, y)}
<1>1. \A j \in ExclusiveOr(x, y) : j \in Bit
  BY DEF ExclusiveOr, Word
<1>2. \A j \in ExclusiveOr(x, y) : W - 1 - j \in Down
  BY <1>1, PositionsAreBits
<1>3. Down # {}
  <2>1. ExclusiveOr(x, y) # {}
    BY DEF ExclusiveOr
  <2> QED
    BY <1>2, <2>1
<1>4. PICK n \in Down : \A m \in Down : n <= m
  <2>1. Down \in SUBSET Nat
    OBVIOUS
  <2> HIDE DEF Down
  <2> QED
    BY <1>3, <2>1, LeastOfSet
<1>5. \A j \in ExclusiveOr(x, y) : j <= W - 1 - n
  <2> TAKE j \in ExclusiveOr(x, y)
  <2>1. n <= W - 1 - j
    BY <1>2, <1>4
  <2> QED
    BY <1>1, <1>4, <2>1, PositionsAreBits
<1> QED
  BY <1>4, <1>5

\* The lowest position where a sum generates a carry holds a zero.
LEMMA GeneratorIsZero ==
  ASSUME WidthAssumption, NEW x \in Word, NEW y \in Word, NEW j \in x \cap y
  PROVE  \E k \in Bit : k <= j /\ k \notin Add(x, y)
<1>1. \A k \in x \cap y : k \in Bit /\ k \in Nat
  BY PositionsAreBits DEF Word
<1>2. PICK k \in x \cap y : \A m \in x \cap y : k <= m
  <2>1. x \cap y \in SUBSET Nat /\ x \cap y # {}
    BY <1>1
  <2> QED
    BY <2>1, LeastOfSet
<1>3. ~Carry(x, y, k)
  BY <1>1, <1>2 DEF Carry
<1>4. k \notin ExclusiveOr(x, y)
  BY DEF ExclusiveOr
<1> QED
  BY <1>1, <1>2, <1>3, <1>4 DEF Add

\* For words of one sign, x + ~y + 1 is negative when x < y: the borrow of the
\* highest difference decides.
LEMMA DifferenceSign ==
  ASSUME WidthAssumption, NEW x \in Word, NEW y \in Word, W - 1 \in x <=> W - 1 \in y
  PROVE  W - 1 \in Add(Add(x, Not(y)), {0}) <=> Less(x, y)
<1> DEFINE n == Not(y)
           sum == Add(x, n)
           top == W - 1
<1>1. n \in Word /\ sum \in Word /\ {0} \in Word
  BY PositionsAreBits DEF Not, Add, Word
<1>2. top \in ExclusiveOr(x, n)
  BY PositionsAreBits DEF ExclusiveOr, Not
<1>3. top \in sum <=> ~Carry(x, n, top)
  BY <1>2, PositionsAreBits DEF Add
<1>4. ASSUME NEW k \in Bit, k < top, k \notin sum PROVE top \in Add(sum, {0}) <=> top \in sum
  <2>1. top # 0 /\ top \in Bit
    BY <1>4, PositionsAreBits
  <2>2. ~Carry(sum, {0}, top)
    <3> SUFFICES ASSUME Carry(sum, {0}, top) PROVE FALSE
      OBVIOUS
    <3>1. 0 \in sum /\ 1 .. top - 1 \subseteq sum \cup {0}
      BY DEF Carry
    <3>2. k = 0 \/ k \in 1 .. top - 1
      BY <1>4, PositionsAreBits
    <3> QED
      BY <1>4, <3>1, <3>2
  <2>3. top \in ExclusiveOr(sum, {0}) <=> top \in sum
    BY <2>1 DEF ExclusiveOr
  <2> QED
    BY <2>1, <2>2, <2>3 DEF Add
<1>5. CASE x = y
  <2>1. x \cap n = {}
    BY <1>5 DEF Not
  <2>2. sum = Bit
    <3>1. sum = x \cup n
      BY <1>1, <2>1, NoCarry
    <3> QED
      BY <1>5, <3>1 DEF Not, Word
  <2>3. Add(sum, {0}) = {}
    <3>1. Not({}) = Bit /\ Minus({}) = {} /\ {} \in Word
      BY DEF Not, Minus, Word
    <3> QED
      BY <2>2, <3>1, NegationByComplement
  <2>4. ExclusiveOr(x, y) = {}
    BY <1>5 DEF ExclusiveOr
  <2> QED
    BY <2>3, <2>4 DEF Less
<1>6. CASE x # y
  <2>1. PICK m \in ExclusiveOr(x, y) : \A j \in ExclusiveOr(x, y) : j <= m
    BY <1>6, HighestDifference
  <2>2. m \in Bit /\ m # top /\ m < top
    <3>1. m \in Bit
      BY DEF ExclusiveOr, Word
    <3>2. m # top
      BY DEF ExclusiveOr
    <3> QED
      BY <3>1, <3>2, PositionsAreBits
  <2>3. \A k \in ExclusiveOr(x, y) : (\A j \in ExclusiveOr(x, y) : j <= k) => k = m
    <3>1. \A k \in ExclusiveOr(x, y) : k \in Bit
      BY DEF ExclusiveOr, Word
    <3> QED
      BY <2>1, <2>2, <3>1, PositionsAreBits
  <2>4. Less(x, y) <=> m \in y
    BY <2>1, <2>2, <2>3 DEF Less
  <2>5. \A k \in Bit : k > m => (k \in x <=> k \in y)
    <3>1. \A k \in Bit : k > m => k \notin ExclusiveOr(x, y)
      BY <2>1, <2>2, PositionsAreBits
    <3> QED
      BY <3>1 DEF ExclusiveOr
  <2>6. CASE m \in x
    <3>1. m \in x \cap n /\ m \notin y
      BY <2>2, <2>6 DEF ExclusiveOr, Not
    <3>2. (m + 1) .. (top - 1) \subseteq x \cup n
      <4>1. \A k \in (m + 1) .. (top - 1) : k \in Bit /\ k > m
        BY <2>2, PositionsAreBits DEF Bit
      <4> QED
        BY <2>5, <4>1 DEF Not
    <3>3. top \notin sum
      BY <1>3, <2>2, <3>1, <3>2 DEF Carry
    <3>4. PICK k \in Bit : k <= m /\ k \notin sum
      BY <1>1, <3>1, GeneratorIsZero
    <3>5. k < top
      BY <2>2, <3>4, PositionsAreBits
    <3> QED
      BY <1>4, <2>4, <3>1, <3>3, <3>4, <3>5
  <2>7. CASE m \notin x
    <3>1. m \in y /\ m \notin x \cup n
      BY <2>7 DEF ExclusiveOr, Not
    <3>2. ~Carry(x, n, top)
      <4> SUFFICES ASSUME NEW j \in x \cap n, j < top, (j + 1) .. (top - 1) \subseteq x \cup n
                   PROVE  FALSE
        BY DEF Carry
      <4>1. j \in Bit /\ j # m /\ j \notin y
        BY <3>1 DEF Word, Not
      <4>2. ~(j > m)
        BY <2>5, <4>1
      <4>3. m \in (j + 1) .. (top - 1)
        BY <2>2, <4>1, <4>2, PositionsAreBits
      <4> QED
        BY <3>1, <4>3
    <3>3. top \in sum
      BY <1>3, <3>2
    <3>4. \E k \in Bit : k < top /\ k \notin sum
      <4>1. CASE \E j \in x \cap n : j < m
        <5>1. PICK j \in x \cap n : j < m
          BY <4>1
        <5>2. PICK k \in Bit : k <= j /\ k \notin sum
          BY <1>1, GeneratorIsZero
        <5>3. j \in Bit
          BY DEF Word
        <5> QED
          BY <2>2, <5>1, <5>2, <5>3, PositionsAreBits
      <4>2. CASE ~\E j \in x \cap n : j < m
        <5>1. ~Carry(x, n, m)
          BY <4>2 DEF Carry
        <5>2. m \notin ExclusiveOr(x, n)
          BY <3>1 DEF ExclusiveOr
        <5> QED
          BY <2>2, <5>1, <5>2 DEF Add
      <4> QED
        BY <4>1, <4>2
    <3> QED
      BY <1>4, <2>4, <3>1, <3>3, <3>4
  <2> QED
    BY <2>6, <2>7
<1> QED
  BY <1>5, <1>6

\* isLess decides by the signs when they differ, and else by the difference,
\* which then does not overflow.
LEMMA LessRight ==
  ASSUME WidthAssumption, NEW x \in Word, NEW y \in Word
  PROVE  isLess(x, y) = Int01(Less(x, y))
<1> DEFINE d == Add(Add(x, Not(y)), {0})
           top == W - 1
<1>1. d \in Word
  BY DEF Add, Word
<1>2. Sar(d, top) = IF top \in d THEN Bit ELSE {}
  BY <1>1, SignSpreads
<1>3. 0 \in Bit
  BY PositionsAreBits
<1>4. CASE top \in x /\ top \notin y
  <2>1. Less(x, y)
    <3>1. top \in ExclusiveOr(x, y) /\ \A j \in ExclusiveOr(x, y) : j <= top
      BY <1>4, PositionsAreBits DEF ExclusiveOr, Word
    <3> QED
      BY <1>4, <3>1 DEF Less
  <2>2. Sar(x, top) = Bit /\ Sar(y, top) = {}
    BY <1>4, SignSpreads
  <2>3. (Sar(x, top) \cap {0}) \cap ExclusiveOr(Sar(y, top), {0}) = {0}
    BY <1>3, <2>2 DEF ExclusiveOr
  <2>4. ExclusiveOr(Sar(x, top), {0}) \cap (Sar(y, top) \cap {0}) = {}
    BY <2>2
  <2> HIDE DEF d
  <2>5. LNot({}) \cap ({0} \cup Sar(d, top)) = {0}
    BY DEF LNot
  <2> QED
    BY <2>1, <2>3, <2>4, <2>5 DEF isLess, Int01, d
<1>5. CASE top \notin x /\ top \in y
  <2>1. ~Less(x, y)
    <3> SUFFICES ASSUME NEW k \in ExclusiveOr(x, y), \A j \in ExclusiveOr(x, y) : j <= k,
                        k \in (IF k = top THEN x ELSE y)
                 PROVE  FALSE
      BY DEF Less
    <3>1. top \in ExclusiveOr(x, y)
      BY <1>5 DEF ExclusiveOr
    <3>2. k \in Bit
      BY DEF ExclusiveOr, Word
    <3>3. k = top
      BY <3>1, <3>2, PositionsAreBits
    <3> QED
      BY <1>5, <3>3
  <2>2. Sar(x, top) = {} /\ Sar(y, top) = Bit
    BY <1>5, SignSpreads
  <2>3. ExclusiveOr(Sar(x, top), {0}) \cap (Sar(y, top) \cap {0}) = {0}
    BY <1>3, <2>2 DEF ExclusiveOr
  <2>4. LNot({0}) = {}
    BY DEF LNot
  <2> QED
    BY <2>1, <2>3, <2>4 DEF isLess, Int01
<1>6. CASE top \in x <=> top \in y
  <2>1. top \in d <=> Less(x, y)
    BY <1>6, DifferenceSign
  <2>2. Sar(x, top) = Sar(y, top) /\ (Sar(x, top) = Bit \/ Sar(x, top) = {})
    BY <1>6, SignSpreads
  <2>3. (Sar(x, top) \cap {0}) \cap ExclusiveOr(Sar(y, top), {0}) = {}
    BY <1>3, <2>2 DEF ExclusiveOr
  <2>4. ExclusiveOr(Sar(x, top), {0}) \cap (Sar(y, top) \cap {0}) = {}
    BY <1>3, <2>2 DEF ExclusiveOr
  <2> HIDE DEF d
  <2>5. LNot({}) \cap ({} \cup Sar(d, top)) = Int01(top \in d)
    BY <1>2, <1>3 DEF LNot, Int01
  <2> QED
    BY <2>1, <2>3, <2>4, <2>5 DEF isLess, Int01, d
<1> QED
  BY <1>4, <1>5, <1>6
-----------------------------------------------------------------------------
\* A carry passes to the next position when two of three are one.
LEMMA CarryStep ==
  ASSUME WidthAssumption, NEW x \in Word, NEW y \in Word, NEW k \in Bit
  PROVE  Carry(x, y, k + 1) <=>
           \/ k \in x /\ k \in y
           \/ (k \in x \/ k \in y) /\ Carry(x, y, k)
<1>1. \A j \in x \cap y : j \in Bit /\ j \in Nat
  BY PositionsAreBits DEF Word
<1>2. k \in Nat
  BY PositionsAreBits
<1>3. ASSUME k \in x /\ k \in y PROVE Carry(x, y, k + 1)
  BY <1>2, <1>3 DEF Carry
<1>4. ASSUME k \in x \cup y, Carry(x, y, k) PROVE Carry(x, y, k + 1)
  <2>1. PICK j \in x \cap y : j < k /\ (j + 1) .. (k - 1) \subseteq x \cup y
    BY <1>4 DEF Carry
  <2>2. (j + 1) .. k \subseteq x \cup y
    BY <1>1, <1>2, <1>4, <2>1
  <2> QED
    BY <1>1, <1>2, <2>1, <2>2 DEF Carry
<1>5. ASSUME Carry(x, y, k + 1), ~(k \in x /\ k \in y) PROVE k \in x \cup y /\ Carry(x, y, k)
  <2>1. PICK j \in x \cap y : j < k + 1 /\ (j + 1) .. k \subseteq x \cup y
    BY <1>2, <1>5 DEF Carry
  <2>2. j # k
    BY <1>5
  <2>3. j < k /\ k \in (j + 1) .. k /\ (j + 1) .. (k - 1) \subseteq x \cup y
    BY <1>1, <1>2, <2>1, <2>2
  <2> QED
    BY <2>1, <2>3 DEF Carry
<1> QED
  BY <1>3, <1>4, <1>5

\* Two ways to add three bits and two carries leave the same two carries.
LEMMA TwoCarries ==
  ASSUME NEW X \in BOOLEAN, NEW Y \in BOOLEAN, NEW Z \in BOOLEAN, NEW a \in BOOLEAN,
         NEW e \in BOOLEAN, NEW c \in BOOLEAN, NEW d \in BOOLEAN, NEW sum \in BOOLEAN, NEW w \in BOOLEAN,
         a /\ e <=> c /\ d, a \/ e <=> c \/ d,
         sum <=> ~(~(X <=> Y) <=> a), w <=> ~(~(X <=> Y) <=> Z)
  PROVE  LET p == (X /\ Y) \/ ((X \/ Y) /\ a)
             q == (sum /\ Z) \/ ((sum \/ Z) /\ e)
             r == (X /\ Y) \/ (Y /\ Z) \/ (Z /\ X)
             t == (w /\ c) \/ ((w \/ c) /\ d)
         IN /\ p /\ q <=> r /\ t
            /\ p \/ q <=> r \/ t
            /\ ~(~(sum <=> Z) <=> e) <=> ~(~(w <=> c) <=> d)
OBVIOUS

\* sum3 adds three words with one +: the word of the sums without carries and
\* the word of the carries.
LEMMA SumRight ==
  ASSUME WidthAssumption, NEW x \in Word, NEW y \in Word, NEW z \in Word
  PROVE  sum3(x, y, z) = Add(Add(x, y), z)
<1> DEFINE sum == Add(x, y)
           w1 == ExclusiveOr(ExclusiveOr(x, y), z)
           M == (x \cap y) \cup (y \cap z) \cup (z \cap x)
           w2 == Shl(M, 1)
           P(k) == /\ Carry(x, y, k) /\ Carry(sum, z, k) <=> k \in w2 /\ Carry(w1, w2, k)
                   /\ Carry(x, y, k) \/ Carry(sum, z, k) <=> k \in w2 \/ Carry(w1, w2, k)
<1>1. sum \in Word /\ w1 \in Word /\ w2 \in Word
  BY DEF Add, ExclusiveOr, Shl, Word
<1>2. P(0)
  <2>1. 0 \notin w2
    BY PositionsAreBits DEF Shl
  <2> QED
    BY <1>1, <2>1, NoCarry
<1>3. \A k \in Bit : /\ k \in sum <=> ~(~(k \in x <=> k \in y) <=> Carry(x, y, k))
                     /\ k \in w1 <=> ~(~(k \in x <=> k \in y) <=> k \in z)
  BY DEF Add, ExclusiveOr
<1>4. \A k \in Bit : k + 1 \in Bit => (k + 1 \in w2 <=> k \in M)
  BY PositionsAreBits DEF Shl
<1>5. ASSUME NEW k \in Bit, P(k)
      PROVE  /\ k + 1 \in Bit => P(k + 1)
             /\ k \in Add(w1, w2) <=> k \in Add(sum, z)
  <2> DEFINE p == (k \in x /\ k \in y) \/ ((k \in x \/ k \in y) /\ Carry(x, y, k))
             q == (k \in sum /\ k \in z) \/ ((k \in sum \/ k \in z) /\ Carry(sum, z, k))
             r == (k \in x /\ k \in y) \/ (k \in y /\ k \in z) \/ (k \in z /\ k \in x)
             t == (k \in w1 /\ k \in w2) \/ ((k \in w1 \/ k \in w2) /\ Carry(w1, w2, k))
  <2>1. /\ p /\ q <=> r /\ t
        /\ p \/ q <=> r \/ t
        /\ ~(~(k \in sum <=> k \in z) <=> Carry(sum, z, k)) <=> ~(~(k \in w1 <=> k \in w2) <=> Carry(w1, w2, k))
    <3> HIDE DEF sum, w1, w2
    <3>1. \A u, v : Carry(u, v, k) \in BOOLEAN
      BY DEF Carry
    <3> QED
      BY <1>3, <1>5, <3>1, TwoCarries
  <2>2. k + 1 \in Bit => (k + 1 \in w2 <=> r)
    BY <1>4
  <2>3. /\ Carry(x, y, k + 1) <=> p
        /\ Carry(sum, z, k + 1) <=> q
        /\ Carry(w1, w2, k + 1) <=> t
    <3> HIDE DEF sum, w1, w2
    <3> QED
      BY <1>1, CarryStep
  <2>4. k + 1 \in Bit => P(k + 1)
    BY <2>1, <2>2, <2>3
  <2>5. k \in Add(w1, w2) <=> k \in Add(sum, z)
    <3> HIDE DEF sum, w1, w2
    <3> QED
      BY <2>1 DEF Add, ExclusiveOr
  <2> QED
    BY <2>4, <2>5
<1>6. \A k \in Bit : P(k)
  <2> SUFFICES ASSUME {k \in Bit : ~P(k)} # {} PROVE FALSE
    OBVIOUS
  <2> HIDE DEF P
  <2>1. {k \in Bit : ~P(k)} \in SUBSET Nat
    BY PositionsAreBits
  <2>2. PICK k \in {k \in Bit : ~P(k)} : \A m \in {l \in Bit : ~P(l)} : k <= m
    BY <2>1, LeastOfSet
  <2>3. k # 0
    BY <1>2, <2>2
  <2>4. k - 1 \in Bit /\ (k - 1) + 1 = k
    BY <2>2, <2>3, PositionsAreBits DEF Bit
  <2>5. P(k - 1)
    BY <2>2, <2>4, PositionsAreBits
  <2> QED
    BY <1>5, <2>2, <2>4, <2>5
<1>7. Add(w1, w2) = Add(sum, z)
  <2>1. \A k \in Bit : k \in Add(w1, w2) <=> k \in Add(sum, z)
    BY <1>5, <1>6
  <2>2. \A u, v : Add(u, v) \subseteq Bit
    BY DEF Add
  <2> HIDE DEF sum, w1, w2
  <2> QED
    BY <2>1, <2>2
<1> QED
  BY <1>7 DEF sum3
-----------------------------------------------------------------------------
\* evenBits has ones at the even positions.
LEMMA EvenRight ==
  ASSUME W = 32
  PROVE  evenBits = {k \in 0 .. 31 : k % 2 = 0}
<1> DEFINE even == {0, 2, 4, 6}
           b0 == {0, 2, 4, 6}
           b1 == {8, 10, 12, 14}
           b2 == {16, 18, 20, 22}
           b3 == {24, 26, 28, 30}
<1>1. Bit = 0 .. 31 /\ WidthAssumption
  BY DEF Bit, WidthAssumption
<1>2. Shl(even, 8) = b1
  BY <1>1 DEF Shl
<1>3. Shl(even, 16) = b2
  BY <1>1 DEF Shl
<1>4. Shl(even, 24) = b3
  BY <1>1 DEF Shl
<1>5. b0 \in Word /\ b1 \in Word /\ b2 \in Word /\ b3 \in Word
  BY <1>1 DEF Word
<1>6. Add(b0, b1) = b0 \cup b1 /\ b0 \cup b1 \in Word
  <2>1. b0 \cap b1 = {}
    OBVIOUS
  <2> QED
    BY <1>1, <1>5, <2>1, NoCarry DEF Word
<1>7. Add(b0 \cup b1, b2) = b0 \cup b1 \cup b2 /\ b0 \cup b1 \cup b2 \in Word
  <2>1. (b0 \cup b1) \cap b2 = {}
    OBVIOUS
  <2> QED
    BY <1>1, <1>5, <1>6, <2>1, NoCarry DEF Word
<1>8. Add(b0 \cup b1 \cup b2, b3) = b0 \cup b1 \cup b2 \cup b3
  <2>1. (b0 \cup b1 \cup b2) \cap b3 = {}
    OBVIOUS
  <2> QED
    BY <1>1, <1>5, <1>7, <2>1, NoCarry DEF Word
<1>9. b0 \cup b1 \cup b2 \cup b3 = {k \in 0 .. 31 : k % 2 = 0}
  <2>1. \A k \in 0 .. 31 : k % 2 = 0 <=> k \in b0 \cup b1 \cup b2 \cup b3
    OBVIOUS
  <2>2. \A k \in b0 \cup b1 \cup b2 \cup b3 : k \in 0 .. 31
    OBVIOUS
  <2> HIDE DEF b0, b1, b2, b3
  <2> QED
    BY <2>1, <2>2
<1> QED
  <2>1. evenBits = Add(Add(Add(b0, Shl(even, 8)), Shl(even, 16)), Shl(even, 24))
    BY DEF evenBits
  <2> HIDE DEF b1, b2, b3
  <2> QED
    BY <1>2, <1>3, <1>4, <1>6, <1>7, <1>8, <1>9, <2>1

\* reverseBytes swaps the four bytes.
LEMMA ReverseRight ==
  ASSUME W = 32, NEW x \in Word
  PROVE  reverseBytes(x) = test_reverseBytes(x)
<1> DEFINE byte == 0 .. 7
<1>1. Bit = 0 .. 31
  BY DEF Bit
<1>2. \A k \in Bit : 8 * (3 - k \div 8) + (k % 8) =
        (CASE k \in 0 .. 7 -> k + 24 [] k \in 8 .. 15 -> k + 8 [] k \in 16 .. 23 -> k - 8 [] k \in 24 .. 31 -> k - 24)
  BY <1>1
<1>3. \A k \in Bit : k \in byte \cap Sar(x, 24) <=> k \in 0 .. 7 /\ k + 24 \in x
  BY <1>1 DEF Sar
<1>4. \A k \in Bit : k \in Shl(byte \cap Sar(x, 16), 8) <=> k \in 8 .. 15 /\ k + 8 \in x
  <2> TAKE k \in Bit
  <2>1. k \in Shl(byte \cap Sar(x, 16), 8) <=> k >= 8 /\ k - 8 \in byte /\ k - 8 \in Sar(x, 16)
    BY DEF Shl
  <2>2. k - 8 \in byte => (k - 8 \in Sar(x, 16) <=> k + 8 \in x)
    <3> SUFFICES ASSUME k - 8 \in byte PROVE k - 8 \in Sar(x, 16) <=> k + 8 \in x
      OBVIOUS
    <3>1. k - 8 \in Bit /\ (k - 8) + 16 = k + 8 /\ (k - 8) + 16 < W
      BY <1>1
    <3> QED
      BY <3>1 DEF Sar
  <2> QED
    BY <1>1, <2>1, <2>2
<1>5. \A k \in Bit : k \in Shl(byte \cap Sar(x, 8), 16) <=> k \in 16 .. 23 /\ k - 8 \in x
  <2> TAKE k \in Bit
  <2>1. k \in Shl(byte \cap Sar(x, 8), 16) <=> k >= 16 /\ k - 16 \in byte /\ k - 16 \in Sar(x, 8)
    BY DEF Shl
  <2>2. k - 16 \in byte => (k - 16 \in Sar(x, 8) <=> k - 8 \in x)
    <3> SUFFICES ASSUME k - 16 \in byte PROVE k - 16 \in Sar(x, 8) <=> k - 8 \in x
      OBVIOUS
    <3>1. k - 16 \in Bit /\ (k - 16) + 8 = k - 8 /\ (k - 16) + 8 < W
      BY <1>1
    <3> QED
      BY <3>1 DEF Sar
  <2> QED
    BY <1>1, <2>1, <2>2
<1>6. \A k \in Bit : k \in Shl(byte \cap x, 24) <=> k \in 24 .. 31 /\ k - 24 \in x
  BY <1>1 DEF Shl
<1>7. \A k \in Bit : k \in reverseBytes(x) <=> k \in test_reverseBytes(x)
  <2> TAKE k \in Bit
  <2>1. k \in reverseBytes(x) <=> \/ k \in 0 .. 7 /\ k + 24 \in x
                                  \/ k \in 8 .. 15 /\ k + 8 \in x
                                  \/ k \in 16 .. 23 /\ k - 8 \in x
                                  \/ k \in 24 .. 31 /\ k - 24 \in x
    BY <1>3, <1>4, <1>5, <1>6 DEF reverseBytes
  <2>2. k \in test_reverseBytes(x) <=> 8 * (3 - k \div 8) + (k % 8) \in x
    BY DEF test_reverseBytes
  <2>3. k \in 0 .. 7 \/ k \in 8 .. 15 \/ k \in 16 .. 23 \/ k \in 24 .. 31
    BY <1>1
  <2> QED
    BY <1>2, <2>1, <2>2, <2>3
<1>8. reverseBytes(x) \subseteq Bit /\ test_reverseBytes(x) \subseteq Bit
  BY <1>1 DEF reverseBytes, test_reverseBytes, Shl
<1> QED
  BY <1>7, <1>8
-----------------------------------------------------------------------------
\* The arguments the functions of a test are called with.
Arguments(t) == [1 .. t.args -> IF t.name = "bitMask" THEN Bit ELSE Word]

\* What the puzzles return is what the functions of tests.c return.
LEMMA SolutionsRight ==
  ASSUME W = 32, NEW n \in DOMAIN test_set, NEW a \in Arguments(test_set[n])
  PROVE  solution_funct(test_set[n].name, a) = test_funct(test_set[n].name, a)
<1>1. WidthAssumption
  BY DEF WidthAssumption
<1>2. n \in 1 .. 15
  BY DEF test_set
<1>3. CASE n = 1
  <2>1. test_set[n].name = "abs" /\ test_set[n].args = 1
    BY <1>3 DEF test_set
  <2>2. a[1] \in Word
    BY <2>1 DEF Arguments
  <2>3. /\ solution_funct("abs", a) = abs(a[1])
        /\ test_funct("abs", a) = (test_abs(a[1]))
    BY DEF solution_funct, test_funct
  <2> QED
    BY <1>1, <2>1, <2>2, <2>3, AbsRight
<1>4. CASE n = 2
  <2>1. test_set[n].name = "bitAnd" /\ test_set[n].args = 2
    BY <1>4 DEF test_set
  <2>2. a[1] \in Word /\ a[2] \in Word
    BY <2>1 DEF Arguments
  <2>3. /\ solution_funct("bitAnd", a) = bitAnd(a[1], a[2])
        /\ test_funct("bitAnd", a) = (a[1] \cap a[2])
    BY DEF solution_funct, test_funct
  <2>4. bitAnd(a[1], a[2]) = a[1] \cap a[2]
    BY <2>2, BitwiseRight
  <2> QED
    BY <1>4, <2>1, <2>3, <2>4
<1>5. CASE n = 3
  <2>1. test_set[n].name = "bitMask" /\ test_set[n].args = 2
    BY <1>5 DEF test_set
  <2>2. a[1] \in Bit /\ a[2] \in Bit
    BY <2>1 DEF Arguments
  <2>3. /\ solution_funct("bitMask", a) = bitMask(a[1], a[2])
        /\ test_funct("bitMask", a) = (a[2] .. a[1])
    BY DEF solution_funct, test_funct
  <2> QED
    BY <1>1, <2>1, <2>2, <2>3, MaskRight
<1>6. CASE n = 4
  <2>1. test_set[n].name = "bitXor" /\ test_set[n].args = 2
    BY <1>6 DEF test_set
  <2>2. a[1] \in Word /\ a[2] \in Word
    BY <2>1 DEF Arguments
  <2>3. /\ solution_funct("bitXor", a) = bitXor(a[1], a[2])
        /\ test_funct("bitXor", a) = (ExclusiveOr(a[1], a[2]))
    BY DEF solution_funct, test_funct
  <2> QED
    BY <1>1, <2>1, <2>2, <2>3, BitwiseRight
<1>7. CASE n = 5
  <2>1. test_set[n].name = "conditional" /\ test_set[n].args = 3
    BY <1>7 DEF test_set
  <2>2. a[1] \in Word /\ a[2] \in Word /\ a[3] \in Word
    BY <2>1 DEF Arguments
  <2>3. /\ solution_funct("conditional", a) = conditional(a[1], a[2], a[3])
        /\ test_funct("conditional", a) = (IF a[1] # {} THEN a[2] ELSE a[3])
    BY DEF solution_funct, test_funct
  <2> QED
    BY <1>1, <2>1, <2>2, <2>3, ConditionalRight
<1>8. CASE n = 6
  <2>1. test_set[n].name = "evenBits" /\ test_set[n].args = 0
    BY <1>8 DEF test_set
  <2>2. /\ solution_funct("evenBits", a) = evenBits
        /\ test_funct("evenBits", a) = ({k \in 0 .. 31 : k % 2 = 0})
    BY DEF solution_funct, test_funct
  <2> QED
    BY <1>1, <2>1, <2>2, EvenRight
<1>9. CASE n = 7
  <2>1. test_set[n].name = "isEqual" /\ test_set[n].args = 2
    BY <1>9 DEF test_set
  <2>2. a[1] \in Word /\ a[2] \in Word
    BY <2>1 DEF Arguments
  <2>3. /\ solution_funct("isEqual", a) = isEqual(a[1], a[2])
        /\ test_funct("isEqual", a) = (Int01(a[1] = a[2]))
    BY DEF solution_funct, test_funct
  <2> QED
    BY <1>1, <2>1, <2>2, <2>3, BitwiseRight
<1>10. CASE n = 8
  <2>1. test_set[n].name = "isLess" /\ test_set[n].args = 2
    BY <1>10 DEF test_set
  <2>2. a[1] \in Word /\ a[2] \in Word
    BY <2>1 DEF Arguments
  <2>3. /\ solution_funct("isLess", a) = isLess(a[1], a[2])
        /\ test_funct("isLess", a) = (Int01(Less(a[1], a[2])))
    BY DEF solution_funct, test_funct
  <2> QED
    BY <1>1, <2>1, <2>2, <2>3, LessRight
<1>11. CASE n = 9
  <2>1. test_set[n].name = "isNegative" /\ test_set[n].args = 1
    BY <1>11 DEF test_set
  <2>2. a[1] \in Word
    BY <2>1 DEF Arguments
  <2>3. /\ solution_funct("isNegative", a) = isNegative(a[1])
        /\ test_funct("isNegative", a) = (Int01(Less(a[1], {})))
    BY DEF solution_funct, test_funct
  <2> QED
    BY <1>1, <2>1, <2>2, <2>3, NegativeRight
<1>12. CASE n = 10
  <2>1. test_set[n].name = "isNonZero" /\ test_set[n].args = 1
    BY <1>12 DEF test_set
  <2>2. a[1] \in Word
    BY <2>1 DEF Arguments
  <2>3. /\ solution_funct("isNonZero", a) = isNonZero(a[1])
        /\ test_funct("isNonZero", a) = (Int01(a[1] # {}))
    BY DEF solution_funct, test_funct
  <2> QED
    BY <1>1, <2>1, <2>2, <2>3, NonZeroRight
<1>13. CASE n = 11
  <2>1. test_set[n].name = "isPower2" /\ test_set[n].args = 1
    BY <1>13 DEF test_set
  <2>2. a[1] \in Word
    BY <2>1 DEF Arguments
  <2>3. /\ solution_funct("isPower2", a) = isPower2(a[1])
        /\ test_funct("isPower2", a) = (Int01(\E k \in 0 .. 30 : a[1] = {k}))
    BY DEF solution_funct, test_funct
  <2>4. W - 2 = 30
    OBVIOUS
  <2> QED
    BY <1>1, <2>1, <2>2, <2>3, <2>4, PowerRight
<1>14. CASE n = 12
  <2>1. test_set[n].name = "leastBitPos" /\ test_set[n].args = 1
    BY <1>14 DEF test_set
  <2>2. a[1] \in Word
    BY <2>1 DEF Arguments
  <2>3. /\ solution_funct("leastBitPos", a) = leastBitPos(a[1])
        /\ test_funct("leastBitPos", a) = (test_leastBitPos(a[1]))
    BY DEF solution_funct, test_funct
  <2> QED
    BY <1>1, <2>1, <2>2, <2>3, LeastRight
<1>15. CASE n = 13
  <2>1. test_set[n].name = "logicalNeg" /\ test_set[n].args = 1
    BY <1>15 DEF test_set
  <2>2. a[1] \in Word
    BY <2>1 DEF Arguments
  <2>3. /\ solution_funct("logicalNeg", a) = logicalNeg(a[1])
        /\ test_funct("logicalNeg", a) = (Int01(a[1] = {}))
    BY DEF solution_funct, test_funct
  <2> QED
    BY <1>1, <2>1, <2>2, <2>3, NonZeroRight
<1>16. CASE n = 14
  <2>1. test_set[n].name = "reverseBytes" /\ test_set[n].args = 1
    BY <1>16 DEF test_set
  <2>2. a[1] \in Word
    BY <2>1 DEF Arguments
  <2>3. /\ solution_funct("reverseBytes", a) = reverseBytes(a[1])
        /\ test_funct("reverseBytes", a) = (test_reverseBytes(a[1]))
    BY DEF solution_funct, test_funct
  <2> QED
    BY <1>1, <2>1, <2>2, <2>3, ReverseRight
<1>17. CASE n = 15
  <2>1. test_set[n].name = "sum3" /\ test_set[n].args = 3
    BY <1>17 DEF test_set
  <2>2. a[1] \in Word /\ a[2] \in Word /\ a[3] \in Word
    BY <2>1 DEF Arguments
  <2>3. /\ solution_funct("sum3", a) = sum3(a[1], a[2], a[3])
        /\ test_funct("sum3", a) = (Add(Add(a[1], a[2]), a[3]))
    BY DEF solution_funct, test_funct
  <2> QED
    BY <1>1, <2>1, <2>2, <2>3, SumRight
<1> QED
  BY <1>2, <1>3, <1>4, <1>5, <1>6, <1>7, <1>8, <1>9, <1>10, <1>11, <1>12, <1>13, <1>14, <1>15, <1>16, <1>17

\* gen_vals draws words, and positions for bitMask.
LEMMA ValuesGenerated ==
  ASSUME TestAssumption, NEW name, NEW arg \in 1 .. 3
  PROVE  gen_vals(name, arg) \in IF name = "bitMask" THEN [1 .. W -> Bit]
                                 ELSE [1 .. 4 * TEST_RANGE -> Word]
<1>1. W = 32 /\ TEST_RANGE \in 1 .. 32 /\ Random[arg] \in [1 .. TEST_RANGE -> Word]
  BY DEF TestAssumption
<1>2. \A m : Num(m) \in Word
  BY <1>1 DEF Num, Not, Word, Bit
<1>3. CASE name = "bitMask"
  BY <1>1, <1>3 DEF gen_vals, Bit
<1>4. CASE name # "bitMask"
  <2> SUFFICES ASSUME NEW n \in 1 .. 4 * TEST_RANGE
               PROVE  gen_vals(name, arg)[n] \in Word
    BY <1>4 DEF gen_vals
  <2> DEFINE k == (n - 1) \div 4
             min == {W - 1} \cup Num(k)
  <2>1. k \in Nat /\ k + 1 \in 1 .. TEST_RANGE
    BY <1>1
  <2>2. Random[arg][k + 1] \in Word
    BY <1>1, <2>1
  <2>3. min \in Word /\ Not(min) \in Word
    <3>1. W - 1 \in Bit
      BY <1>1 DEF Bit
    <3> QED
      BY <1>2, <3>1 DEF Word, Not
  <2>4. n % 4 \in {0, 1, 2, 3}
    BY <1>1
  <2>5. gen_vals(name, arg)[n] = CASE n % 4 = 1 -> min
                                   [] n % 4 = 2 -> Not(min)
                                   [] n % 4 = 3 -> Num(k - (1 + TEST_RANGE) \div 2)
                                   [] n % 4 = 0 -> Random[arg][k + 1]
    BY <1>4 DEF gen_vals
  <2> HIDE DEF k, min
  <2> QED
    BY <1>2, <2>2, <2>3, <2>4, <2>5
<1> QED
  BY <1>3, <1>4

\* test_function counts no error for a puzzle.
LEMMA NoTestFails ==
  ASSUME TestAssumption, NEW n \in DOMAIN test_set
  PROVE  test_function(test_set[n]) = 0
<1> DEFINE t == test_set[n]
           test_vals == [arg \in 1 .. t.args |-> gen_vals(t.name, arg)]
           places == 1 .. IF t.name = "bitMask" THEN W ELSE 4 * TEST_RANGE
<1>1. W = 32
  BY DEF TestAssumption
<1>2. t.args \in {0, 1, 2, 3}
  BY DEF test_set
<1> HIDE DEF t
<1>3. ASSUME NEW at \in [1 .. t.args -> places]
      PROVE  [arg \in 1 .. t.args |-> test_vals[arg][at[arg]]] \in Arguments(t)
  <2> SUFFICES ASSUME NEW arg \in 1 .. t.args
               PROVE  test_vals[arg][at[arg]] \in IF t.name = "bitMask" THEN Bit ELSE Word
    BY DEF Arguments
  <2>1. arg \in 1 .. 3
    BY <1>2
  <2>2. gen_vals(t.name, arg) \in IF t.name = "bitMask" THEN [1 .. W -> Bit]
                                  ELSE [1 .. 4 * TEST_RANGE -> Word]
    BY <2>1, ValuesGenerated
  <2>3. at[arg] \in places
    OBVIOUS
  <2> QED
    BY <2>2, <2>3
<1>4. \A at \in [1 .. t.args -> places] :
        ~(solution_funct(t.name, [arg \in 1 .. t.args |-> test_vals[arg][at[arg]]])
          # test_funct(t.name, [arg \in 1 .. t.args |-> test_vals[arg][at[arg]]]))
  BY <1>1, <1>3, SolutionsRight DEF t
<1>5. test_function(t) = Cardinality({})
  <2> DEFINE fails == {at \in [1 .. t.args -> places] :
          solution_funct(t.name, [arg \in 1 .. t.args |-> test_vals[arg][at[arg]]])
          # test_funct(t.name, [arg \in 1 .. t.args |-> test_vals[arg][at[arg]]])}
  <2>1. test_function(t) = Cardinality(fails)
    BY DEF test_function
  <2>2. fails = {}
    BY <1>4
  <2> QED
    BY <2>1, <2>2
<1> QED
  BY <1>5, FS_EmptySet DEF t

\* Every test of btest finds the right results and gives all of its points,
\* whatever random_val gives.
THEOREM FullScore == ASSUME TestAssumption PROVE BtestSpec => []PuzzlesRight
<1> DEFINE Inv == test \in Nat \ {0} /\ points \in Nat /\ max_points \in Nat /\ PuzzlesRight
<1>1. BtestInit => Inv
  BY DEF BtestInit, PuzzlesRight
<1>2. Inv /\ [BtestNext]_btestVars => Inv'
  <2> SUFFICES ASSUME Inv, [BtestNext]_btestVars PROVE Inv'
    OBVIOUS
  <2>1. CASE BtestNext
    <3>1. test \in DOMAIN test_set
      BY <2>1 DEF BtestNext, run_tests, test_set
    <3>2. test_function(test_set[test]) = 0
      BY <3>1, NoTestFails
    <3>3. test_set[test].rating \in Nat
      BY <3>1 DEF test_set
    <3>4. tscore(test_set[test], 0) = 2
      BY DEF tscore
    <3>5. /\ all_errors' = all_errors + 0
          /\ points' = points + test_set[test].rating * 2
          /\ max_points' = max_points + test_set[test].rating
          /\ test' = test + 1
      BY <2>1, <3>2, <3>4 DEF BtestNext, run_tests
    <3> QED
      BY <3>3, <3>5 DEF PuzzlesRight
  <2>2. CASE UNCHANGED btestVars
    BY <2>2 DEF btestVars, PuzzlesRight
  <2> QED
    BY <2>1, <2>2
<1>3. Inv => PuzzlesRight
  OBVIOUS
<1> QED
  BY <1>1, <1>2, <1>3, PTL DEF BtestSpec

-----------------------------------------------------------------------------
(* The cache simulator. *)

Line == [valid : BOOLEAN, tag : Tags \cup {0}, timestamp : Nat]
Simulator ==
  [sets : [Sets -> [Lines -> Line]], time : Nat, hits : Nat, misses : Nat, evictions : Nat]

Filled(c) == {p \in Sets \X Lines : c.sets[p[1]][p[2]].valid}

Stamped(c) == \A x \in Sets : \A i \in Lines : c.sets[x][i].timestamp <= c.time

Distinct(c) ==
  \A x \in Sets : \A i, j \in Lines :
    LET u == c.sets[x][i]  v == c.sets[x][j] IN
    i # j /\ u.valid /\ v.valid => u.tag # v.tag /\ u.timestamp # v.timestamp

\* A line is empty as long as it has no timestamp.
Clocked(c) == \A x \in Sets : \A i \in Lines : c.sets[x][i].valid <=> c.sets[x][i].timestamp > 0

Counted(c) ==
  /\ c.hits + c.misses = c.time
  /\ c.misses = c.evictions + Cardinality(Filled(c))

\* The inductive invariant: the stamps of a set stay distinct because none is
\* ahead of the clock.
Good(c) == c \in Simulator /\ Stamped(c) /\ Clocked(c) /\ Distinct(c) /\ Counted(c)

\* The state d is c with the access to a written to line i of its set, where
\* the tag was found, or where no line had it and i is the oldest.
Stored(c, d, a, i) ==
  /\ d \in Simulator /\ d.time = c.time + 1
  /\ d.sets = [c.sets EXCEPT ![SetOf(a)][i] = [valid |-> TRUE, tag |-> TagOf(a), timestamp |-> c.time + 1]]
Found(c, d, a, i) ==
  /\ c.sets[SetOf(a)][i].valid /\ c.sets[SetOf(a)][i].tag = TagOf(a)
  /\ d.hits = c.hits + 1 /\ d.misses = c.misses /\ d.evictions = c.evictions
Missed(c, d, a, i) ==
  /\ \A j \in Lines : ~(c.sets[SetOf(a)][j].valid /\ c.sets[SetOf(a)][j].tag = TagOf(a))
  /\ \A j \in Lines : c.sets[SetOf(a)][i].timestamp <= c.sets[SetOf(a)][j].timestamp
  /\ d.hits = c.hits /\ d.misses = c.misses + 1
  /\ d.evictions = c.evictions + IF c.sets[SetOf(a)][i].valid THEN 1 ELSE 0
-----------------------------------------------------------------------------
\* An address falls into a set of the cache.
LEMMA SetRange ==
  ASSUME NEW a \in Addrs
  PROVE  SetOf(a) \in Sets /\ TagOf(a) \in Tags
<1> DEFINE p == 2^s
           q == 2^b
<1>1. p \in Nat \ {0} /\ q \in Nat \ {0} /\ a \in Nat
  BY PowerAssumption, CsimAssumption
<1>2. SetOf(a) = (a \div q) % p /\ Sets = 0..p - 1
  BY DEF SetOf, Sets
<1> HIDE DEF p, q
<1>3. (a \div q) \in Int
  BY <1>1
<1>4. (a \div q) % p \in 0..p - 1
  BY <1>1, <1>3
<1> QED
  BY <1>2, <1>4 DEF Tags

\* There are finitely many lines.
LEMMA FiniteCache == IsFiniteSet(Sets \X Lines)
<1>1. IsFiniteSet(Lines)
  BY CsimAssumption, FS_Interval DEF Lines
<1>2. IsFiniteSet(Sets)
  <2> DEFINE p == 2^s
  <2>1. p \in Nat /\ Sets = 0..p - 1
    BY PowerAssumption DEF Sets
  <2> HIDE DEF p
  <2> QED
    BY <2>1, FS_Interval
<1> QED
  BY <1>1, <1>2, FS_Product

\* The search for the victim finds a line, and none is older.
LEMMA VictimIsOldest ==
  ASSUME NEW set \in [Lines -> Line]
  PROVE  /\ Victim(set) \in Lines
         /\ \A j \in Lines : set[Victim(set)].timestamp <= set[j].timestamp
<1>1. Lines \subseteq Nat /\ 1 \in Lines
  BY CsimAssumption DEF Lines
<1>2. \A i \in Lines : set[i].timestamp \in Nat
  BY DEF Line
<1> DEFINE stamps == {set[i].timestamp : i \in Lines}
<1>3. PICK t \in stamps : \A u \in stamps : t <= u
  <2>1. stamps \in SUBSET Nat /\ stamps # {}
    BY <1>1, <1>2
  <2> HIDE DEF stamps
  <2> QED
    BY <2>1, LeastOfSet
<1> DEFINE oldest == {i \in Lines : set[i].timestamp = t}
<1>4. PICK m \in oldest : \A i \in oldest : m <= i
  <2>1. oldest \in SUBSET Nat /\ oldest # {}
    BY <1>1, <1>3
  <2> HIDE DEF oldest
  <2> QED
    BY <2>1, LeastOfSet
<1>5. ASSUME NEW j \in Lines
      PROVE  \/ set[m].timestamp < set[j].timestamp
             \/ set[m].timestamp = set[j].timestamp /\ m <= j
  <2>1. m \in Lines /\ set[m].timestamp = t /\ set[j].timestamp \in stamps
    BY <1>4
  <2>2. t <= set[j].timestamp /\ t \in Nat /\ set[j].timestamp \in Nat
    BY <1>2, <1>3, <2>1
  <2>3. set[j].timestamp = t => m <= j
    BY <1>4
  <2> QED
    BY <2>1, <2>2, <2>3
<1> QED
  <2> DEFINE P(i) ==
        \A j \in Lines :
          \/ set[i].timestamp < set[j].timestamp
          \/ set[i].timestamp = set[j].timestamp /\ i <= j
  <2>1. m \in Lines /\ P(m)
    BY <1>4, <1>5
  <2>2. Victim(set) = CHOOSE i \in Lines : P(i)
    BY DEF Victim
  <2>3. ASSUME NEW i \in Lines, P(i)
        PROVE  \A j \in Lines : set[i].timestamp <= set[j].timestamp
    BY <1>2, <2>3
  <2> HIDE DEF P
  <2> QED
    BY <2>1, <2>2, <2>3

\* One more line is filled, or a filled one is filled again.
LEMMA FillLine ==
  ASSUME NEW c \in Simulator, NEW d \in Simulator, NEW x \in Sets, NEW i \in Lines, NEW line \in Line,
         line.valid, d.sets = [c.sets EXCEPT ![x][i] = line]
  PROVE  /\ Cardinality(Filled(c)) \in Nat
         /\ Cardinality(Filled(d)) =
              Cardinality(Filled(c)) + IF c.sets[x][i].valid THEN 0 ELSE 1
<1>1. IsFiniteSet(Filled(c))
  BY FiniteCache, FS_Subset DEF Filled
<1>2. Filled(d) = Filled(c) \cup {<<x, i>>}
  BY DEF Filled, Simulator
<1>3. <<x, i>> \in Filled(c) <=> c.sets[x][i].valid
  BY DEF Filled
<1>4. Cardinality(Filled(c)) \in Nat
  BY <1>1, FS_CardinalityType
<1>5. CASE c.sets[x][i].valid
  <2>1. Filled(d) = Filled(c)
    BY <1>2, <1>3, <1>5
  <2> QED
    BY <1>4, <1>5, <2>1
<1>6. CASE ~c.sets[x][i].valid
  <2>1. Cardinality(Filled(c) \cup {<<x, i>>}) = Cardinality(Filled(c)) + 1
    BY <1>1, <1>3, <1>6, FS_AddElement
  <2> QED
    BY <1>2, <1>4, <1>6, <2>1
<1> QED
  BY <1>4, <1>5, <1>6

\* A line whose tag no other line of the set holds and whose stamp is new
\* keeps the lines of the set distinct.
LEMMA StampLine ==
  ASSUME NEW c, Good(c), NEW d \in Simulator, NEW x \in Sets, NEW i \in Lines, NEW line \in Line,
         d.sets = [c.sets EXCEPT ![x][i] = line], d.time = c.time + 1, line.timestamp = c.time + 1,
         line.valid, \A j \in Lines \ {i} : c.sets[x][j].valid => c.sets[x][j].tag # line.tag
  PROVE  Stamped(d) /\ Clocked(d) /\ Distinct(d)
<1>1. \A y \in Sets : \A j \in Lines :
        d.sets[y][j] = IF y = x /\ j = i THEN line ELSE c.sets[y][j]
  BY DEF Good, Simulator
<1>2. \A y \in Sets : \A j \in Lines : c.sets[y][j].timestamp \in Nat /\ c.sets[y][j].timestamp <= c.time
  BY DEF Good, Simulator, Stamped, Line
<1>3. c.time \in Nat
  BY DEF Good, Simulator
<1>4. Stamped(d)
  BY <1>1, <1>2, <1>3 DEF Stamped
<1>5. Distinct(d)
  <2> SUFFICES ASSUME NEW y \in Sets, NEW j \in Lines, NEW k \in Lines, j # k,
                      d.sets[y][j].valid, d.sets[y][k].valid
               PROVE  d.sets[y][j].tag # d.sets[y][k].tag
                      /\ d.sets[y][j].timestamp # d.sets[y][k].timestamp
    BY DEF Distinct
  <2>1. CASE y = x /\ j = i
    BY <1>1, <1>2, <1>3, <2>1
  <2>2. CASE y = x /\ k = i
    BY <1>1, <1>2, <1>3, <2>2
  <2>3. CASE ~(y = x /\ j = i) /\ ~(y = x /\ k = i)
    BY <1>1, <2>3 DEF Good, Distinct
  <2> QED
    BY <2>1, <2>2, <2>3
<1>6. Clocked(d)
  BY <1>1, <1>3 DEF Good, Clocked
<1> QED
  BY <1>4, <1>5, <1>6

\* What an access does.
LEMMA AccessShape ==
  ASSUME NEW c, Good(c), NEW a \in Addrs
  PROVE  \E i \in Lines : /\ Stored(c, access_cache(c, a), a, i)
                          /\ Found(c, access_cache(c, a), a, i) \/ Missed(c, access_cache(c, a), a, i)
<1> DEFINE x == SetOf(a)
           set == c.sets[x]
           tag == TagOf(a)
           now == c.time + 1
           line == [valid |-> TRUE, tag |-> tag, timestamp |-> now]
           d == access_cache(c, a)
<1>1. x \in Sets /\ tag \in Tags
  BY SetRange
<1>2. c \in Simulator /\ now \in Nat /\ set \in [Lines -> Line]
  BY <1>1 DEF Good, Simulator
<1>3. line \in Line
  BY <1>1, <1>2 DEF Line
<1>4. ASSUME NEW i \in Lines PROVE [c.sets EXCEPT ![x][i] = line] \in [Sets -> [Lines -> Line]]
  BY <1>1, <1>2, <1>3 DEF Simulator
<1>5. CASE Matching(set, tag) # {}
  <2> DEFINE i == CHOOSE i \in Matching(set, tag) : \A j \in Matching(set, tag) : i <= j
  <2>1. Matching(set, tag) \subseteq Lines /\ Matching(set, tag) \subseteq Nat
    BY CsimAssumption DEF Matching, Lines
  <2>2. i \in Matching(set, tag)
    BY <1>5, <2>1, LeastOfSet
  <2> HIDE DEF i
  <2>3. i \in Lines /\ set[i].valid /\ set[i].tag = tag
    BY <2>2 DEF Matching
  <2> USE DEF i
  <2>4. d = [c EXCEPT !.time = now, !.hits = @ + 1, !.sets[x][i] = line]
    BY <1>5 DEF access_cache
  <2> HIDE DEF i, set, tag, x, now, line, d
  <2>5. d = [sets |-> [c.sets EXCEPT ![x][i] = line], time |-> now, hits |-> c.hits + 1,
             misses |-> c.misses, evictions |-> c.evictions]
    BY <1>2, <2>4 DEF Simulator
  <2>6. c.hits + 1 \in Nat /\ c.misses \in Nat /\ c.evictions \in Nat
    BY <1>2 DEF Simulator
  <2>7. d \in Simulator /\ d.sets = [c.sets EXCEPT ![x][i] = line] /\ d.time = now
        /\ d.hits = c.hits + 1 /\ d.misses = c.misses /\ d.evictions = c.evictions
    BY <1>2, <1>4, <2>3, <2>5, <2>6 DEF Simulator
  <2>8. Stored(c, d, a, i) /\ Found(c, d, a, i)
    BY <2>3, <2>7 DEF Stored, Found, x, set, tag, line, now
  <2> QED
    BY <2>3, <2>8 DEF d
<1>6. CASE Matching(set, tag) = {}
  <2> DEFINE v == Victim(set)
             more == IF set[v].valid THEN 1 ELSE 0
  <2>1. v \in Lines /\ \A j \in Lines : set[v].timestamp <= set[j].timestamp
    BY <1>2, VictimIsOldest
  <2>2. d = [c EXCEPT !.time = now, !.misses = @ + 1, !.evictions = @ + more, !.sets[x][v] = line]
    BY <1>6 DEF access_cache
  <2>3. more \in Nat
    OBVIOUS
  <2>4. \A j \in Lines : ~(set[j].valid /\ set[j].tag = tag)
    BY <1>6 DEF Matching
  <2> HIDE DEF v, set, tag, x, now, line, d, more
  <2>5. d = [sets |-> [c.sets EXCEPT ![x][v] = line], time |-> now, hits |-> c.hits,
             misses |-> c.misses + 1, evictions |-> c.evictions + more]
    BY <1>2, <2>2 DEF Simulator
  <2>6. c.hits \in Nat /\ c.misses + 1 \in Nat /\ c.evictions + more \in Nat
    BY <1>2, <2>3 DEF Simulator
  <2>7. d \in Simulator /\ d.sets = [c.sets EXCEPT ![x][v] = line] /\ d.time = now
        /\ d.hits = c.hits /\ d.misses = c.misses + 1 /\ d.evictions = c.evictions + more
    BY <1>2, <1>4, <2>1, <2>5, <2>6 DEF Simulator
  <2>8. Stored(c, d, a, v) /\ Missed(c, d, a, v)
    BY <2>1, <2>4, <2>7 DEF Stored, Missed, x, set, tag, line, now, more
  <2> QED
    BY <2>1, <2>8 DEF d
<1> QED
  BY <1>5, <1>6

\* No other line of the set has the tag.
LEMMA OnlyLine ==
  ASSUME NEW c, Good(c), NEW d, NEW a \in Addrs, NEW i \in Lines, Found(c, d, a, i) \/ Missed(c, d, a, i)
  PROVE  \A j \in Lines \ {i} : c.sets[SetOf(a)][j].valid => c.sets[SetOf(a)][j].tag # TagOf(a)
BY SetRange DEF Good, Distinct, Found, Missed

\* An access keeps the invariant.
LEMMA AccessKept ==
  ASSUME NEW c, Good(c), NEW a \in Addrs
  PROVE  Good(access_cache(c, a))
<1> DEFINE x == SetOf(a)
           line == [valid |-> TRUE, tag |-> TagOf(a), timestamp |-> c.time + 1]
           d == access_cache(c, a)
<1>1. PICK i \in Lines : Stored(c, d, a, i) /\ (Found(c, d, a, i) \/ Missed(c, d, a, i))
  BY AccessShape
<1>2. x \in Sets /\ TagOf(a) \in Tags /\ c \in Simulator /\ c.time \in Nat
  BY SetRange DEF Good, Simulator
<1>3. line \in Line /\ line.valid /\ line.timestamp = c.time + 1 /\ line.tag = TagOf(a)
  BY <1>2 DEF Line
<1>4. \A j \in Lines \ {i} : c.sets[x][j].valid => c.sets[x][j].tag # TagOf(a)
  BY <1>1, OnlyLine
<1>5. d \in Simulator /\ d.time = c.time + 1 /\ d.sets = [c.sets EXCEPT ![x][i] = line]
  BY <1>1 DEF Stored
<1> HIDE DEF line, x, d
<1>6. Stamped(d) /\ Clocked(d) /\ Distinct(d)
  BY <1>2, <1>3, <1>4, <1>5, StampLine
<1>7. /\ Cardinality(Filled(c)) \in Nat
      /\ Cardinality(Filled(d)) = Cardinality(Filled(c)) + IF c.sets[x][i].valid THEN 0 ELSE 1
  BY <1>2, <1>3, <1>5, FillLine
<1>8. Counted(d)
  <2>1. c.hits \in Nat /\ c.misses \in Nat /\ c.evictions \in Nat /\ Counted(c)
    BY <1>2 DEF Good, Simulator
  <2>2. CASE Found(c, d, a, i)
    <3>1. Cardinality(Filled(d)) = Cardinality(Filled(c)) /\ d.hits = c.hits + 1
          /\ d.misses = c.misses /\ d.evictions = c.evictions
      BY <1>7, <2>2 DEF Found, x
    <3> QED
      BY <1>2, <1>5, <1>7, <2>1, <3>1 DEF Counted
  <2>3. CASE Missed(c, d, a, i)
    <3>1. d.hits = c.hits /\ d.misses = c.misses + 1
          /\ d.evictions = c.evictions + IF c.sets[x][i].valid THEN 1 ELSE 0
      BY <2>3 DEF Missed, x
    <3> QED
      BY <1>2, <1>5, <1>7, <2>1, <3>1 DEF Counted
  <2> QED
    BY <1>1, <2>2, <2>3
<1> QED
  BY <1>5, <1>6, <1>8 DEF Good, d

\* The empty cache.
LEMMA EmptyCache ==
  ASSUME Init
  PROVE  Good(sim)
<1>1. sim \in Simulator /\ sim.time = 0 /\ sim.hits = 0 /\ sim.misses = 0 /\ sim.evictions = 0
  BY DEF Init, init_simulator, init_cache, Simulator, Line
<1>2. \A x \in Sets : \A i \in Lines : ~sim.sets[x][i].valid /\ sim.sets[x][i].timestamp = 0
  BY DEF Init, init_simulator, init_cache
<1>3. Filled(sim) = {}
  BY <1>2 DEF Filled
<1> QED
  BY <1>1, <1>2, <1>3, FS_EmptySet DEF Good, Stamped, Clocked, Distinct, Counted

CsimInv == addr \subseteq Addrs /\ Good(sim)

\* Every line of a trace keeps the invariant.
LEMMA StepKept ==
  ASSUME CsimInv, [Next]_vars
  PROVE  CsimInv'
<1>1. CASE UNCHANGED vars
  BY <1>1 DEF vars, CsimInv
<1>2. CASE Instruction
  BY <1>2 DEF Instruction, vars, CsimInv
<1>3. ASSUME NEW a \in Addrs, LoadOrStore(a)
      PROVE  CsimInv'
  BY <1>3, AccessKept DEF LoadOrStore, CsimInv
<1>4. ASSUME NEW a \in Addrs, Modify(a)
      PROVE  CsimInv'
  <2>1. Good(access_cache(access_cache(sim, a), a))
    BY AccessKept DEF CsimInv
  <2> QED
    BY <1>4, <2>1 DEF Modify, CsimInv
<1> QED
  BY <1>1, <1>2, <1>3, <1>4 DEF Next
-----------------------------------------------------------------------------
(* The refinement: an access is a hit, a fill or a replacement.              *)

\* The tags in the lines other than i.
Others(set, i) == {set[j].tag : j \in {k \in Lines \ {i} : set[k].valid}}

\* What an access with extra more hits must do to the abstract cache.
Maps(c, d, a, extra) ==
  LET x == SetOf(a)
      t == TagOf(a)
      h == HeldIn(c.sets[x])
      o == OlderIn(c.sets[x])
  IN /\ \A y \in Sets \ {x} : d.sets[y] = c.sets[y]
     /\ \/ /\ t \in h
           /\ HeldIn(d.sets[x]) = h
           /\ OlderIn(d.sets[x]) = Lru!Used(h, o, t)
           /\ d.hits = c.hits + 1 + extra /\ d.misses = c.misses /\ d.evictions = c.evictions
        \/ /\ t \notin h /\ Cardinality(h) < E
           /\ HeldIn(d.sets[x]) = h \cup {t}
           /\ OlderIn(d.sets[x]) = Lru!Used(h, o, t)
           /\ d.hits = c.hits + extra /\ d.misses = c.misses + 1 /\ d.evictions = c.evictions
        \/ /\ t \notin h /\ Cardinality(h) = E
           /\ \E v \in h :
                /\ \A u \in h \ {v} : <<v, u>> \in o
                /\ HeldIn(d.sets[x]) = (h \ {v}) \cup {t}
                /\ OlderIn(d.sets[x]) = Lru!Used(h \ {v}, o, t)
           /\ d.hits = c.hits + extra /\ d.misses = c.misses + 1 /\ d.evictions = c.evictions + 1

\* The line that is written becomes the youngest of its set.
LEMMA Restamped ==
  ASSUME NEW c, Good(c), NEW d, NEW a \in Addrs, NEW i \in Lines, Stored(c, d, a, i),
         NEW set, set = c.sets[SetOf(a)], NEW new, new = d.sets[SetOf(a)],
         \A j \in Lines \ {i} : set[j].valid => set[j].tag # TagOf(a)
  PROVE  /\ \A y \in Sets \ {SetOf(a)} : d.sets[y] = c.sets[y]
         /\ TagOf(a) \notin Others(set, i)
         /\ HeldIn(new) = Others(set, i) \cup {TagOf(a)}
         /\ OlderIn(new) = Lru!Used(Others(set, i), OlderIn(set), TagOf(a))
<1> DEFINE tag == TagOf(a)
           kept == Others(set, i)
           line == [valid |-> TRUE, tag |-> tag, timestamp |-> c.time + 1]
<1>1. SetOf(a) \in Sets /\ tag \in Tags /\ c \in Simulator /\ set \in [Lines -> Line] /\ c.time \in Nat
  BY SetRange DEF Good, Simulator
<1>2. /\ \A y \in Sets \ {SetOf(a)} : d.sets[y] = c.sets[y]
      /\ new = [set EXCEPT ![i] = line]
  BY <1>1 DEF Stored, Simulator
<1>3. \A j \in Lines : new[j] = IF j = i THEN line ELSE set[j]
  BY <1>1, <1>2
<1>4. \A j \in Lines : set[j].timestamp \in Nat /\ set[j].timestamp < c.time + 1
  BY <1>1 DEF Good, Stamped, Line
<1>5. tag \notin kept
  BY DEF Others
<1>6. HeldIn(new) = kept \cup {tag}
  BY <1>3 DEF HeldIn, Others
<1>7. ASSUME NEW t \in kept, NEW u \in kept
      PROVE  <<t, u>> \in OlderIn(new) <=> <<t, u>> \in OlderIn(set)
  <2>1. \A j \in Lines : (new[j].valid /\ new[j].tag \in kept) <=> (j # i /\ set[j].valid)
    BY <1>3, <1>5 DEF Others
  <2>2. \A j \in Lines : (set[j].valid /\ set[j].tag \in kept) <=> (j # i /\ set[j].valid)
    <3>1. \A j \in Lines \ {i} : set[i].valid /\ set[j].valid => set[i].tag # set[j].tag
      BY <1>1 DEF Good, Distinct
    <3> QED
      BY <3>1 DEF Others
  <2>3. kept \subseteq HeldIn(new) /\ kept \subseteq HeldIn(set)
    BY <1>6 DEF Others, HeldIn
  <2> HIDE DEF kept
  <2>4. <<t, u>> \in OlderIn(new) <=>
          \E j, k \in Lines : /\ new[j].valid /\ new[j].tag = t /\ new[k].valid /\ new[k].tag = u
                              /\ new[j].timestamp < new[k].timestamp
    BY <2>3 DEF OlderIn
  <2>5. <<t, u>> \in OlderIn(set) <=>
          \E j, k \in Lines : /\ set[j].valid /\ set[j].tag = t /\ set[k].valid /\ set[k].tag = u
                              /\ set[j].timestamp < set[k].timestamp
    BY <2>3 DEF OlderIn
  <2> QED
    BY <1>3, <2>1, <2>2, <2>4, <2>5
<1>8. ASSUME NEW t \in kept
      PROVE  <<t, tag>> \in OlderIn(new)
  <2>1. PICK j \in Lines \ {i} : set[j].valid /\ set[j].tag = t
    BY DEF Others
  <2>2. new[j].valid /\ new[j].tag = t /\ new[i].valid /\ new[i].tag = tag
        /\ new[j].timestamp < new[i].timestamp
    BY <1>3, <1>4, <2>1
  <2>3. <<t, tag>> \in HeldIn(new) \X HeldIn(new)
    BY <1>6
  <2> HIDE DEF kept, tag
  <2> QED
    BY <2>2, <2>3 DEF OlderIn
<1>9. ASSUME NEW u \in HeldIn(new)
      PROVE  <<tag, u>> \notin OlderIn(new)
  <2> SUFFICES ASSUME NEW j \in Lines, NEW k \in Lines, new[j].valid, new[j].tag = tag, new[k].valid,
                      new[j].timestamp < new[k].timestamp
               PROVE  FALSE
    BY DEF OlderIn
  <2>1. j = i
    BY <1>3
  <2>2. new[j].timestamp = c.time + 1 /\ new[k].timestamp \in Nat /\ new[k].timestamp <= c.time + 1
    BY <1>1, <1>3, <1>4, <2>1
  <2> QED
    BY <1>1, <2>2
<1>10. OlderIn(new) \subseteq HeldIn(new) \X HeldIn(new)
  BY DEF OlderIn
<1> HIDE DEF tag, kept
<1>11. OlderIn(new) = (OlderIn(set) \cap (kept \X kept)) \cup (kept \X {tag})
  <2>1. ASSUME NEW p \in OlderIn(new)
        PROVE  p \in (OlderIn(set) \cap (kept \X kept)) \cup (kept \X {tag})
    <3>1. PICK t \in kept \cup {tag}, u \in kept \cup {tag} : p = <<t, u>>
      BY <1>6, <1>10, <2>1
    <3>2. t # tag
      BY <1>6, <1>9, <2>1, <3>1
    <3> QED
      BY <1>7, <2>1, <3>1, <3>2
  <2>2. ASSUME NEW p \in (OlderIn(set) \cap (kept \X kept)) \cup (kept \X {tag})
        PROVE  p \in OlderIn(new)
    BY <1>7, <1>8, <2>2
  <2> QED
    BY <2>1, <2>2
<1>12. kept \ {tag} = kept
  BY <1>5 DEF tag, kept
<1> QED
  BY <1>2, <1>5, <1>6, <1>11, <1>12 DEF Lru!Used, tag, kept

\* There are as many tags in a set as filled lines: fewer than E when a line is
\* empty, E when none is.
LEMMA HeldCount ==
  ASSUME NEW c, Good(c), NEW x \in Sets, NEW set, set = c.sets[x]
  PROVE  /\ (\E i \in Lines : ~set[i].valid) => Cardinality(HeldIn(set)) < E
         /\ (\A i \in Lines : set[i].valid) => Cardinality(HeldIn(set)) = E
<1> DEFINE V == {j \in Lines : set[j].valid}
           f == [j \in V |-> set[j].tag]
<1>1. IsFiniteSet(Lines) /\ Cardinality(Lines) = E /\ E \in Nat
  BY CsimAssumption, FS_Interval DEF Lines
<1>2. IsFiniteSet(V) /\ Cardinality(V) \in Nat
  BY <1>1, FS_Subset, FS_CardinalityType
<1>3. f \in Surjection(V, HeldIn(set))
  BY DEF Surjection, HeldIn
<1>4. /\ Cardinality(HeldIn(set)) <= Cardinality(V)
      /\ Cardinality(HeldIn(set)) = Cardinality(V) <=> f \in Injection(V, HeldIn(set))
      /\ Cardinality(HeldIn(set)) \in Nat
  <2> HIDE DEF V, f
  <2> QED
    BY <1>2, <1>3, FS_Surjection, FS_CardinalityType
<1>5. ASSUME NEW i \in Lines, ~set[i].valid
      PROVE  Cardinality(HeldIn(set)) < E
  <2>1. Cardinality(Lines \ {i}) = E - 1 /\ IsFiniteSet(Lines \ {i}) /\ V \in SUBSET (Lines \ {i})
    BY <1>1, <1>5, FS_RemoveElement
  <2>2. Cardinality(V) <= E - 1
    <3> HIDE DEF V
    <3> QED
      BY <2>1, FS_Subset
  <2> QED
    BY <1>1, <1>2, <1>4, <2>2
<1>6. ASSUME \A i \in Lines : set[i].valid
      PROVE  Cardinality(HeldIn(set)) = E
  <2>1. V = Lines
    BY <1>6
  <2>2. f \in Injection(V, HeldIn(set))
    <3>1. \A j, k \in V : f[j] = f[k] => j = k
      BY DEF Good, Distinct
    <3> QED
      BY <1>3, <3>1 DEF Surjection, Injection, IsInjective
  <2> QED
    BY <1>1, <1>4, <2>1, <2>2
<1> QED
  BY <1>5, <1>6

\* An access is a step of the abstract cache: in particular the line with the
\* smallest timestamp holds the tag that was used before all others.
LEMMA AccessMaps ==
  ASSUME NEW c, Good(c), NEW a \in Addrs
  PROVE  Maps(c, access_cache(c, a), a, 0)
<1> DEFINE x == SetOf(a)
           set == c.sets[x]
           tag == TagOf(a)
           d == access_cache(c, a)
<1>1. PICK i \in Lines : Stored(c, d, a, i) /\ (Found(c, d, a, i) \/ Missed(c, d, a, i))
  BY AccessShape
<1>2. x \in Sets /\ c \in Simulator /\ set \in [Lines -> Line] /\ c.hits \in Nat /\ c.evictions \in Nat
  BY SetRange DEF Good, Simulator
<1>3. \A j \in Lines \ {i} : set[j].valid => set[j].tag # tag
  BY <1>1, OnlyLine
<1>4. \A j \in Lines \ {i} : set[i].valid /\ set[j].valid =>
        set[i].tag # set[j].tag /\ set[i].timestamp # set[j].timestamp
  BY <1>2 DEF Good, Distinct
<1>5. \A j \in Lines : set[j].timestamp \in Nat /\ (set[j].valid <=> set[j].timestamp > 0)
  BY <1>2 DEF Good, Clocked, Line
<1> HIDE DEF x, set, tag, d
<1> DEFINE kept == Others(set, i)
<1>6. /\ \A y \in Sets \ {x} : d.sets[y] = c.sets[y]
      /\ tag \notin kept
      /\ HeldIn(d.sets[x]) = kept \cup {tag}
      /\ OlderIn(d.sets[x]) = Lru!Used(kept, OlderIn(set), tag)
  BY <1>1, <1>3, Restamped DEF x, set, tag
<1>7. HeldIn(set) = IF set[i].valid THEN kept \cup {set[i].tag} ELSE kept
  BY DEF HeldIn, Others
<1>8. set[i].valid => set[i].tag \notin kept
  BY <1>4 DEF Others
<1> HIDE DEF kept
<1>9. CASE Found(c, d, a, i)
  <2>1. set[i].valid /\ set[i].tag = tag
        /\ d.hits = c.hits + 1 /\ d.misses = c.misses /\ d.evictions = c.evictions
    BY <1>9 DEF Found, x, set, tag
  <2>2. tag \in HeldIn(set) /\ HeldIn(d.sets[x]) = HeldIn(set)
    BY <1>6, <1>7, <2>1
  <2>3. HeldIn(set) \ {tag} = kept /\ kept \ {tag} = kept
    BY <1>6, <1>7, <2>1
  <2>4. OlderIn(d.sets[x]) = Lru!Used(HeldIn(set), OlderIn(set), tag)
    BY <1>6, <2>3 DEF Lru!Used
  <2>5. d.hits = c.hits + 1 + 0
    BY <1>2, <2>1
  <2> QED
    BY <1>6, <2>1, <2>2, <2>4, <2>5 DEF Maps, x, set, tag, d
<1>10. CASE Missed(c, d, a, i)
  <2>1. /\ \A j \in Lines : ~(set[j].valid /\ set[j].tag = tag)
        /\ \A j \in Lines : set[i].timestamp <= set[j].timestamp
        /\ d.hits = c.hits /\ d.misses = c.misses + 1
        /\ d.evictions = c.evictions + IF set[i].valid THEN 1 ELSE 0
    BY <1>10 DEF Missed, x, set, tag
  <2>2. tag \notin HeldIn(set) /\ d.hits = c.hits + 0
    BY <1>2, <2>1 DEF HeldIn
  <2>3. CASE ~set[i].valid
    <3>1. Cardinality(HeldIn(set)) < E
      BY <1>2, <2>3, HeldCount DEF set
    <3>2. d.evictions = c.evictions /\ kept = HeldIn(set)
      BY <1>2, <1>7, <2>1, <2>3
    <3> QED
      BY <1>6, <2>1, <2>2, <3>1, <3>2 DEF Maps, x, set, tag, d
  <2>4. CASE set[i].valid
    <3>1. \A j \in Lines : set[j].valid
      BY <1>5, <2>1, <2>4
    <3>2. Cardinality(HeldIn(set)) = E
      BY <1>2, <3>1, HeldCount DEF set
    <3> DEFINE v == set[i].tag
    <3>3. v \in HeldIn(set) /\ kept = HeldIn(set) \ {v}
      BY <1>7, <1>8, <2>4
    <3>4. ASSUME NEW u \in kept
          PROVE  <<v, u>> \in OlderIn(set)
      <4>1. PICK j \in Lines \ {i} : set[j].valid /\ set[j].tag = u
        BY DEF kept, Others
      <4>2. set[i].timestamp < set[j].timestamp
        BY <1>4, <1>5, <2>1, <2>4, <4>1
      <4>3. <<v, u>> \in HeldIn(set) \X HeldIn(set)
        BY <3>3
      <4> QED
        BY <2>4, <4>1, <4>2, <4>3 DEF OlderIn
    <3>5. d.evictions = c.evictions + 1
      BY <2>1, <2>4
    <3> HIDE DEF v
    <3> QED
      BY <1>6, <2>1, <2>2, <3>2, <3>3, <3>4, <3>5 DEF Maps, x, set, tag, d
  <2> QED
    BY <2>3, <2>4
<1> QED
  BY <1>1, <1>9, <1>10

\* The second access of a modify hits and changes nothing but the count.
LEMMA ModifyMaps ==
  ASSUME NEW c, Good(c), NEW a \in Addrs
  PROVE  Maps(c, access_cache(access_cache(c, a), a), a, 1)
<1> DEFINE x == SetOf(a)
           t == TagOf(a)
           d == access_cache(c, a)
           e == access_cache(d, a)
           h == HeldIn(c.sets[x])
           o == OlderIn(c.sets[x])
<1>1. Maps(c, d, a, 0)
  BY AccessMaps
<1>2. Maps(d, e, a, 0) /\ Good(d)
  BY AccessKept, AccessMaps
<1>3. c.hits \in Nat /\ d.hits \in Nat /\ x \in Sets
  BY <1>2, SetRange DEF Good, Simulator
<1> HIDE DEF x, t, d, e
<1>4. t \in HeldIn(d.sets[x])
  BY <1>1 DEF Maps, x, t
<1>5. /\ \A y \in Sets \ {x} : e.sets[y] = d.sets[y]
      /\ HeldIn(e.sets[x]) = HeldIn(d.sets[x])
      /\ OlderIn(e.sets[x]) = Lru!Used(HeldIn(d.sets[x]), OlderIn(d.sets[x]), t)
      /\ e.hits = d.hits + 1 /\ e.misses = d.misses /\ e.evictions = d.evictions
  BY <1>2, <1>3, <1>4 DEF Maps, x, t
<1>6. ASSUME NEW k, HeldIn(d.sets[x]) \ {t} = k \ {t}, OlderIn(d.sets[x]) = Lru!Used(k, o, t)
      PROVE  OlderIn(e.sets[x]) = Lru!Used(k, o, t)
  BY <1>5, <1>6 DEF Lru!Used
<1>7. \A y \in Sets \ {x} : e.sets[y] = c.sets[y]
  BY <1>1, <1>5 DEF Maps, x
<1> HIDE DEF h, o
<1>8. CASE /\ t \in h
           /\ HeldIn(d.sets[x]) = h
           /\ OlderIn(d.sets[x]) = Lru!Used(h, o, t)
           /\ d.hits = c.hits + 1 + 0 /\ d.misses = c.misses /\ d.evictions = c.evictions
  <2>1. OlderIn(e.sets[x]) = Lru!Used(h, o, t)
    BY <1>6, <1>8
  <2>2. e.hits = c.hits + 1 + 1
    BY <1>3, <1>5, <1>8
  <2> QED
    BY <1>5, <1>7, <1>8, <2>1, <2>2 DEF Maps, x, t, h, o, d, e
<1>9. CASE /\ t \notin h /\ Cardinality(h) < E
           /\ HeldIn(d.sets[x]) = h \cup {t}
           /\ OlderIn(d.sets[x]) = Lru!Used(h, o, t)
           /\ d.hits = c.hits + 0 /\ d.misses = c.misses + 1 /\ d.evictions = c.evictions
  <2>1. OlderIn(e.sets[x]) = Lru!Used(h, o, t)
    BY <1>6, <1>9
  <2>2. e.hits = c.hits + 1
    BY <1>3, <1>5, <1>9
  <2> QED
    BY <1>5, <1>7, <1>9, <2>1, <2>2 DEF Maps, x, t, h, o, d, e
<1>10. ASSUME t \notin h, Cardinality(h) = E, NEW v \in h,
              \A u \in h \ {v} : <<v, u>> \in o,
              HeldIn(d.sets[x]) = (h \ {v}) \cup {t},
              OlderIn(d.sets[x]) = Lru!Used(h \ {v}, o, t),
              d.hits = c.hits + 0, d.misses = c.misses + 1, d.evictions = c.evictions + 1
       PROVE  Maps(c, e, a, 1)
  <2>1. OlderIn(e.sets[x]) = Lru!Used(h \ {v}, o, t)
    BY <1>6, <1>10
  <2>2. e.hits = c.hits + 1
    BY <1>3, <1>5, <1>10
  <2> QED
    BY <1>5, <1>7, <1>10, <2>1, <2>2 DEF Maps, x, t, h, o
<1> QED
  BY <1>1, <1>8, <1>9, <1>10 DEF Maps, x, t, h, o, d, e

\* The abstract cache counts with the same operator.
LEMMA SameCount == \A S : Lru!Cardinality(S) = Cardinality(S)
  BY DEF Lru!Cardinality, Cardinality

\* Such a change of the simulator is a step of the abstract cache.
LEMMA LruStep ==
  ASSUME CsimInv, NEW a \in Addrs, NEW extra \in 0..1, Maps(sim, sim', a, extra), addr' = {a},
         sim' \in Simulator
  PROVE  Lru!LruNext
<1> DEFINE x == SetOf(a)
           t == TagOf(a)
           held == [y \in Sets |-> HeldIn(sim.sets[y])]
           older == [y \in Sets |-> OlderIn(sim.sets[y])]
<1>1. x \in Sets /\ t \in Tags
  BY SetRange
<1>2. \A y \in Sets \ {x} : held'[y] = held[y] /\ older'[y] = older[y]
  BY DEF Maps
<1>3. held[x] = HeldIn(sim.sets[x]) /\ older[x] = OlderIn(sim.sets[x])
      /\ held'[x] = HeldIn(sim'.sets[x]) /\ older'[x] = OlderIn(sim'.sets[x])
  BY <1>1
<1>4. ASSUME NEW h, held'[x] = h
      PROVE  held' = [held EXCEPT ![x] = h]
  BY <1>2, <1>4
<1>5. ASSUME NEW o, older'[x] = o
      PROVE  older' = [older EXCEPT ![x] = o]
  BY <1>2, <1>5
<1>6. {<<SetOf(last), TagOf(last)>> : last \in addr'} = {<<x, t>>}
  OBVIOUS
<1>7. CASE /\ t \in held[x]
           /\ held'[x] = held[x]
           /\ older'[x] = Lru!Used(held[x], older[x], t)
           /\ sim'.hits = sim.hits + 1 + extra /\ sim'.misses = sim.misses /\ sim'.evictions = sim.evictions
  <2>1. held' = held
    BY <1>2, <1>7
  <2>2. older' = [older EXCEPT ![x] = Lru!Used(held[x], older[x], t)]
    BY <1>5, <1>7
  <2>3. Lru!Hit(x, t, extra)
    BY <1>7, <2>1, <2>2 DEF Lru!Hit
  <2> QED
    BY <1>1, <1>6, <2>3 DEF Lru!LruNext
<1>8. CASE /\ t \notin held[x] /\ Cardinality(held[x]) < E
           /\ held'[x] = held[x] \cup {t}
           /\ older'[x] = Lru!Used(held[x], older[x], t)
           /\ sim'.hits = sim.hits + extra /\ sim'.misses = sim.misses + 1 /\ sim'.evictions = sim.evictions
  <2>1. held' = [held EXCEPT ![x] = held[x] \cup {t}]
    BY <1>4, <1>8
  <2>2. older' = [older EXCEPT ![x] = Lru!Used(held[x], older[x], t)]
    BY <1>5, <1>8
  <2>3. Lru!Fill(x, t, extra)
    BY <1>8, <2>1, <2>2, SameCount DEF Lru!Fill
  <2> QED
    BY <1>1, <1>6, <2>3 DEF Lru!LruNext
<1>9. ASSUME t \notin held[x], Cardinality(held[x]) = E, NEW v \in held[x],
             \A u \in held[x] \ {v} : <<v, u>> \in older[x],
             held'[x] = (held[x] \ {v}) \cup {t},
             older'[x] = Lru!Used(held[x] \ {v}, older[x], t),
             sim'.hits = sim.hits + extra, sim'.misses = sim.misses + 1,
             sim'.evictions = sim.evictions + 1
      PROVE  Lru!LruNext
  <2>1. held' = [held EXCEPT ![x] = (held[x] \ {v}) \cup {t}]
    BY <1>4, <1>9
  <2>2. older' = [older EXCEPT ![x] = Lru!Used(held[x] \ {v}, older[x], t)]
    BY <1>5, <1>9
  <2>3. Lru!Replace(x, t, extra)
    BY <1>9, <2>1, <2>2, SameCount DEF Lru!Replace
  <2> QED
    BY <1>1, <1>6, <2>3 DEF Lru!LruNext
<1> HIDE DEF held, older
<1>10. \/ /\ t \in held[x]
          /\ held'[x] = held[x]
          /\ older'[x] = Lru!Used(held[x], older[x], t)
          /\ sim'.hits = sim.hits + 1 + extra /\ sim'.misses = sim.misses /\ sim'.evictions = sim.evictions
       \/ /\ t \notin held[x] /\ Cardinality(held[x]) < E
          /\ held'[x] = held[x] \cup {t}
          /\ older'[x] = Lru!Used(held[x], older[x], t)
          /\ sim'.hits = sim.hits + extra /\ sim'.misses = sim.misses + 1 /\ sim'.evictions = sim.evictions
       \/ /\ t \notin held[x] /\ Cardinality(held[x]) = E
          /\ \E v \in held[x] :
               /\ \A u \in held[x] \ {v} : <<v, u>> \in older[x]
               /\ held'[x] = (held[x] \ {v}) \cup {t}
               /\ older'[x] = Lru!Used(held[x] \ {v}, older[x], t)
          /\ sim'.hits = sim.hits + extra /\ sim'.misses = sim.misses + 1
          /\ sim'.evictions = sim.evictions + 1
  BY <1>3 DEF Maps
<1> HIDE DEF x, t
<1> QED
  BY <1>7, <1>8, <1>9, <1>10

\* Every line of a trace is a step of the abstract cache or leaves it alone.
LEMMA LruSimulation ==
  ASSUME CsimInv, [Next]_vars
  PROVE  [Lru!LruNext]_(Lru!lruVars)
<1>1. CASE UNCHANGED vars \/ Instruction
  BY <1>1 DEF vars, Instruction, Lru!lruVars
<1>2. ASSUME NEW a \in Addrs, LoadOrStore(a)
      PROVE  Lru!LruNext
  <2>1. Maps(sim, sim', a, 0) /\ sim' \in Simulator /\ addr' = {a}
    BY <1>2, AccessMaps, AccessKept DEF LoadOrStore, CsimInv, Good
  <2> QED
    BY <2>1, LruStep
<1>3. ASSUME NEW a \in Addrs, Modify(a)
      PROVE  Lru!LruNext
  <2>1. Maps(sim, sim', a, 1) /\ addr' = {a}
    BY <1>3, ModifyMaps DEF Modify, CsimInv
  <2>2. sim' \in Simulator
    BY <1>3, AccessKept DEF Modify, CsimInv, Good
  <2> QED
    BY <2>1, <2>2, LruStep
<1> QED
  BY <1>1, <1>2, <1>3 DEF Next
-----------------------------------------------------------------------------
\* After any trace the simulator is in a state of the invariant.
THEOREM CsimInvariance == Spec => []CsimInv
<1>1. Init => CsimInv
  BY EmptyCache DEF Init, CsimInv
<1>2. CsimInv /\ [Next]_vars => CsimInv'
  BY StepKept
<1> QED
  BY <1>1, <1>2, PTL DEF Spec

\* The counters and the lines keep their types, no stamp is ahead of the clock.
THEOREM TypeCorrect == Spec => []TypeOK
<1>1. CsimInv => TypeOK
  <2> SUFFICES ASSUME CsimInv PROVE TypeOK
    OBVIOUS
  <2>1. sim \in Simulator /\ Stamped(sim) /\ addr \subseteq Addrs
    BY DEF CsimInv, Good
  <2>2. \A x \in Sets : \A i \in Lines :
          sim.sets[x][i] \in [valid : BOOLEAN, tag : Tags \cup {0}, timestamp : 0..sim.time]
    <3> TAKE x \in Sets
    <3> TAKE i \in Lines
    <3>1. sim.sets[x][i] \in Line /\ sim.sets[x][i].timestamp <= sim.time /\ sim.time \in Nat
      BY <2>1 DEF Simulator, Stamped
    <3> QED
      BY <3>1 DEF Line
  <2> QED
    BY <2>1, <2>2 DEF TypeOK, Simulator
<1> QED
  BY <1>1, CsimInvariance, PTL

\* A set never holds a tag twice, and its stamps order its lines.
THEOREM LinesStayDistinct == Spec => []LinesDistinct
<1>1. CsimInv => LinesDistinct
  BY DEF CsimInv, Good, Distinct, LinesDistinct
<1> QED
  BY <1>1, CsimInvariance, PTL

\* Hits and misses add up to the accesses, misses to evictions and filled lines.
THEOREM CountsAgree == Spec => []CountsAddUp
<1>1. CsimInv => CountsAddUp
  BY DEF CsimInv, Good, Counted, CountsAddUp, Filled
<1> QED
  BY <1>1, CsimInvariance, PTL

\* The timestamps implement least-recently-used replacement: hits, misses and
\* evictions are those of a cache that evicts the tag used before all others
\* (csim.c lines 87-145), for every geometry and trace.
THEOREM ReplacesLeastRecent == Spec => ImplementsLru
<1>1. Init => Lru!LruInit
  BY DEF Init, init_simulator, init_cache, HeldIn, OlderIn, Lru!LruInit
<1>2. CsimInv /\ [Next]_vars => [Lru!LruNext]_(Lru!lruVars)
  BY LruSimulation
<1> QED
  BY <1>1, <1>2, CsimInvariance, PTL DEF Spec, ImplementsLru, Lru!LruSpec
=============================================================================
