------------------------------- MODULE Trans -------------------------------
(***************************************************************************)
(* The transposition functions of lab8/trans.c and the cache test-trans.c  *)
(* counts their misses with: 32 lines of 32 bytes.  A step is one iteration *)
(* of an innermost loop; the temporaries live in registers or on the stack, *)
(* whose accesses the test leaves out.                                      *)
(***************************************************************************)
EXTENDS Integers, SequencesExt

VARIABLES
  fn,     \* the function and, for transpose_submit, the size it is called for
  n,      \* the iterations done
  B,      \* the target; B[r][c]
  cache   \* the simulator_t of the measurement

tvars == <<fn, n, B, cache>>

Cache == INSTANCE Csim WITH
  s <- 5, E <- 1, b <- 5, Addrs <- {}, MaxTime <- 0, sim <- cache, addr <- {}

Sizes == [square32 |-> [M |-> 32, N |-> 32], square64 |-> [M |-> 64, N |-> 64],
          other |-> [M |-> 61, N |-> 67], trans |-> [M |-> 3, N |-> 4]]
M == Sizes[fn].M
N == Sizes[fn].N

\* The entries of A are distinct: no function looks at them.
A(r, c) == r * M + c

\* tracegen.c lays out two static arrays of 256 * 256 ints.
AddressA(r, c) == 4 * (r * M + c)
AddressB(r, c) == 4 * (256 * 256 + r * N + c)

LoadA(r, c) == [op |-> "loadA", r |-> r, c |-> c, t |-> 0]
LoadB(r, c) == [op |-> "loadB", r |-> r, c |-> c, t |-> 0]
\* Stores the t-th value loaded in this iteration.
StoreB(r, c, t) == [op |-> "storeB", r |-> r, c |-> c, t |-> t]

Accessed(m, o) ==
  LET address == IF o.op = "loadA" THEN AddressA(o.r, o.c) ELSE AddressB(o.r, o.c)
      measured == [m EXCEPT !.cache = Cache!access_cache(@, address)]
  IN CASE o.op = "loadA"  -> [measured EXCEPT !.t = Append(@, A(o.r, o.c))]
       [] o.op = "loadB"  -> [measured EXCEPT !.t = Append(@, m.B[o.r][o.c])]
       [] o.op = "storeB" -> [measured EXCEPT !.B[o.r][o.c] = m.t[o.t]]

\* The accesses of one iteration in their order.
Iterate(ops) ==
  LET m == FoldLeft(Accessed, [t |-> <<>>, B |-> B, cache |-> cache], ops)
  IN /\ B' = m.B
     /\ cache' = m.cache
     /\ n' = n + 1
     /\ fn' = fn

Square32 ==
  /\ fn = "square32" /\ n < 4 * 32
  /\ LET j == 8 * (n \div 32)
         i == n % 32
     IN Iterate([x \in 1..8 |-> LoadA(i, j + x - 1)] \o [x \in 1..8 |-> StoreB(j + x - 1, i, x)])

\* The block of 8 by 8 of iteration n, and the row in its half.
BlockRow == 8 * (n \div 64)
BlockColumn == 8 * ((n \div 8) % 8)
k == n % 4

\* Four rows of A: the first half of each goes where it belongs, the second
\* is parked beside it.
TopOf64 ==
  /\ fn = "square64" /\ n < 8 * 8 * 8 /\ n % 8 < 4
  /\ LET j == BlockRow
         i == BlockColumn
     IN Iterate([x \in 1..8 |-> LoadA(i + k, j + x - 1)]
                \o [x \in 1..4 |-> StoreB(j + x - 1, i + k, x)]
                \o [x \in 1..4 |-> StoreB(j + x - 1, i + k + 4, x + 4)])

\* A mutant: the parked row is read after its place was filled.
BottomTooLate ==
  /\ fn = "square64" /\ n < 8 * 8 * 8 /\ n % 8 >= 4
  /\ LET j == BlockRow
         i == BlockColumn
     IN Iterate(FlattenSeq([x \in 1..4 |-> <<LoadA(i + x + 3, j + k), StoreB(j + k, i + x + 3, x)>>])
                \o [x \in 1..4 |-> LoadB(j + k, i + x + 3)]
                \o [x \in 1..4 |-> LoadA(i + x + 3, j + k + 4)]
                \o [x \in 1..8 |-> StoreB(j + k + 4, i + x - 1, x + 4)])

\* A parked row is taken out, its place filled from A, and the row below
\* completed.
BottomOf64 ==
  /\ fn = "square64" /\ n < 8 * 8 * 8 /\ n % 8 >= 4
  /\ LET j == BlockRow
         i == BlockColumn
     IN Iterate([x \in 1..4 |-> LoadB(j + k, i + x + 3)]
                \o FlattenSeq([x \in 1..4 |-> <<LoadA(i + x + 3, j + k), StoreB(j + k, i + x + 3, x + 4)>>])
                \o [x \in 1..4 |-> LoadA(i + x + 3, j + k + 4)]
                \o [x \in 1..8 |-> StoreB(j + k + 4, i + x - 1, IF x <= 4 THEN x ELSE x + 4)])

\* Any other size is taken for 61 by 67.
Other ==
  /\ fn = "other" /\ n < 8 * 61
  /\ LET j == 8 * (n \div 61)
         i == n % 61
     IN Iterate([x \in 1..8 |-> LoadA(j + x - 1, i)] \o [x \in 1..8 |-> StoreB(i, j + x - 1, x)])

LastRows ==
  /\ fn = "other" /\ n \in 8 * 61 .. 9 * 61 - 1
  /\ LET i == n - 8 * 61
     IN Iterate([x \in 1..3 |-> LoadA(63 + x, i)] \o [x \in 1..3 |-> StoreB(i, 63 + x, x)])

trans ==
  /\ fn = "trans" /\ n < N * M
  /\ LET i == n \div M
         j == n % M
     IN Iterate(<<LoadA(i, j), StoreB(j, i, 1)>>)

Init ==
  /\ fn \in DOMAIN Sizes
  /\ n = 0
  /\ B = [r \in 0..M - 1 |-> [c \in 0..N - 1 |-> -1]]
  /\ Cache!Init

Next == Square32 \/ TopOf64 \/ BottomOf64 \/ Other \/ LastRows \/ trans

Iterations == [square32 |-> 4 * 32, square64 |-> 8 * 8 * 8, other |-> 9 * 61, trans |-> 12]
MaxMisses == [square32 |-> 300, square64 |-> 1300, other |-> 2000, trans |-> 24]

is_transpose == \A i \in 0..N - 1, j \in 0..M - 1 : A(i, j) = B[j][i]
-----------------------------------------------------------------------------
\* When a function returns, B is the transpose of A (is_transpose), although
\* the one for 64 parks values in parts of B still to be written, and no more
\* misses were counted than earn the full score (driver.py computeMissScore).
Transposed ==
  fn \in DOMAIN Sizes /\ n = Iterations[fn] =>
    /\ is_transpose
    /\ cache.misses <= MaxMisses[fn]
=============================================================================
