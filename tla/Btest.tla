------------------------------- MODULE Btest --------------------------------
(***************************************************************************)
(* The driver of lab1, btest.c, with its table of tests (decl.c) and the     *)
(* functions the puzzles are compared with (tests.c).  A test runs every     *)
(* combination of the values generated for its arguments.  Options and the  *)
(* printing of errors are left out; points are counted in halves.            *)
(***************************************************************************)
EXTENDS Bits, FiniteSets, Sequences

CONSTANTS
  TEST_RANGE,   \* values taken at each boundary, 5 in the code
  Random        \* what random_val gives, which is not seeded, for each argument

TestAssumption ==
  /\ W = 32
  /\ TEST_RANGE \in 1 .. 32
  /\ Random \in [1 .. 3 -> [1 .. TEST_RANGE -> Word]]

VARIABLES test, points, max_points, all_errors
btestVars == <<test, points, max_points, all_errors>>

\* What - gives: ones and zeros change above the lowest one.
Minus(x) == {k \in Bit : ~(k \in x <=> \E j \in x : j < k)}
\* The order of words is that of the highest position where they differ.
Less(x, y) ==
  \E k \in ExclusiveOr(x, y) :
    /\ \A j \in ExclusiveOr(x, y) : j <= k
    /\ k \in (IF k = W - 1 THEN x ELSE y)
Int01(b) == IF b THEN {0} ELSE {}

test_abs(x) == IF Less(x, {}) THEN Minus(x) ELSE x
test_leastBitPos(x) == {k \in x : \A j \in x : k <= j}
test_reverseBytes(x) == {k \in Bit : 8 * (3 - k \div 8) + (k % 8) \in x}

test_set == <<
  [name |-> "abs", args |-> 1, rating |-> 4], [name |-> "bitAnd", args |-> 2, rating |-> 1],
  [name |-> "bitMask", args |-> 2, rating |-> 3], [name |-> "bitXor", args |-> 2, rating |-> 2],
  [name |-> "conditional", args |-> 3, rating |-> 3], [name |-> "evenBits", args |-> 0, rating |-> 2],
  [name |-> "isEqual", args |-> 2, rating |-> 2], [name |-> "isLess", args |-> 2, rating |-> 3],
  [name |-> "isNegative", args |-> 1, rating |-> 3], [name |-> "isNonZero", args |-> 1, rating |-> 4],
  [name |-> "isPower2", args |-> 1, rating |-> 4], [name |-> "leastBitPos", args |-> 1, rating |-> 4],
  [name |-> "logicalNeg", args |-> 1, rating |-> 4], [name |-> "reverseBytes", args |-> 1, rating |-> 3],
  [name |-> "sum3", args |-> 3, rating |-> 3]>>

solution_funct(name, a) ==
  CASE name = "abs" -> abs(a[1])
    [] name = "bitAnd" -> bitAnd(a[1], a[2])
    [] name = "bitMask" -> bitMask(a[1], a[2])
    [] name = "bitXor" -> bitXor(a[1], a[2])
    [] name = "conditional" -> conditional(a[1], a[2], a[3])
    [] name = "evenBits" -> evenBits
    [] name = "isEqual" -> isEqual(a[1], a[2])
    [] name = "isLess" -> isLess(a[1], a[2])
    [] name = "isNegative" -> isNegative(a[1])
    [] name = "isNonZero" -> isNonZero(a[1])
    [] name = "isPower2" -> isPower2(a[1])
    [] name = "leastBitPos" -> leastBitPos(a[1])
    [] name = "logicalNeg" -> logicalNeg(a[1])
    [] name = "reverseBytes" -> reverseBytes(a[1])
    [] name = "sum3" -> sum3(a[1], a[2], a[3])

test_funct(name, a) ==
  CASE name = "abs" -> test_abs(a[1])
    [] name = "bitAnd" -> a[1] \cap a[2]
    [] name = "bitMask" -> a[2] .. a[1]
    [] name = "bitXor" -> ExclusiveOr(a[1], a[2])
    [] name = "conditional" -> IF a[1] # {} THEN a[2] ELSE a[3]
    [] name = "evenBits" -> {k \in 0 .. 31 : k % 2 = 0}
    [] name = "isEqual" -> Int01(a[1] = a[2])
    [] name = "isLess" -> Int01(Less(a[1], a[2]))
    [] name = "isNegative" -> Int01(Less(a[1], {}))
    [] name = "isNonZero" -> Int01(a[1] # {})
    [] name = "isPower2" -> Int01(\E k \in 0 .. 30 : a[1] = {k})
    [] name = "leastBitPos" -> test_leastBitPos(a[1])
    [] name = "logicalNeg" -> Int01(a[1] = {})
    [] name = "reverseBytes" -> test_reverseBytes(a[1])
    [] name = "sum3" -> Add(Add(a[1], a[2]), a[3])
-----------------------------------------------------------------------------
\* The word of a small number n.
Num(n) ==
  LET Ones(m) == {k \in 0 .. 5 : (m \div 2 ^ k) % 2 = 1}
  IN IF n >= 0 THEN Ones(n) ELSE Not(Ones(-n - 1))

\* Near the least word, the greatest, the middle, and at random.  The range of
\* bitMask is small enough to be listed.
gen_vals(name, arg) ==
  IF name = "bitMask" THEN [n \in 1 .. W |-> n - 1]
  ELSE [n \in 1 .. 4 * TEST_RANGE |->
          LET k == (n - 1) \div 4
              min == {W - 1} \cup Num(k)
          IN CASE n % 4 = 1 -> min
               [] n % 4 = 2 -> Not(min)
               [] n % 4 = 3 -> Num(k - (1 + TEST_RANGE) \div 2)
               [] n % 4 = 0 -> Random[arg][k + 1]]

test_function(t) ==
  LET test_vals == [arg \in 1 .. t.args |-> gen_vals(t.name, arg)]
      wrong(at) ==
        LET a == [arg \in 1 .. t.args |-> test_vals[arg][at[arg]]]
        IN solution_funct(t.name, a) # test_funct(t.name, a)
  IN Cardinality({at \in [1 .. t.args -> 1 .. IF t.name = "bitMask" THEN W ELSE 4 * TEST_RANGE] : wrong(at)})

\* One wrong result takes half of the points.
tscore(t, terrors) ==
  CASE terrors = 0 -> 2
    [] terrors = 1 /\ t.args > 0 -> 1
    [] OTHER -> 0

run_tests ==
  /\ test <= Len(test_set)
  /\ LET t == test_set[test]
         terrors == test_function(t)
     IN /\ all_errors' = all_errors + terrors
        /\ points' = points + t.rating * tscore(t, terrors)
        /\ max_points' = max_points + t.rating
  /\ test' = test + 1

BtestInit == test = 1 /\ points = 0 /\ max_points = 0 /\ all_errors = 0
BtestNext == run_tests
BtestSpec == BtestInit /\ [][BtestNext]_btestVars
-----------------------------------------------------------------------------
\* Every puzzle gives what the function it is compared with gives, for every
\* combination of the values tested, so that the score is full (btest.c
\* run_tests): one carry or one sign wrong shows at the boundaries only.
PuzzlesRight == all_errors = 0 /\ points = 2 * max_points
=============================================================================
