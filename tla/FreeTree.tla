------------------------------ MODULE FreeTree ------------------------------
(***************************************************************************)
(* The tree of free blocks of the allocator lab7/mm.c: a search tree of    *)
(* block sizes whose links are kept in the payloads of the free blocks.    *)
(* Blocks of one size form a chain: its first block is the node of the     *)
(* tree, the others have -1 as right child and their predecessor as left   *)
(* child.                                                                  *)
(*                                                                         *)
(* Addresses and sizes are in words of four bytes (WSIZE).  A memory m has *)
(* the words m.mem, the root m.my_tree, the break m.brk, and m.up, which   *)
(* is FALSE after an access outside of the heap.                           *)
(***************************************************************************)
EXTENDS Integers, FiniteSets

Null == 0
NotFirst == -1       \* the right child of a block that is not first in its chain

\* A read outside of the heap: 0. The first write there sets up to FALSE.
GET(m, p) == IF p \in DOMAIN m.mem THEN m.mem[p] ELSE 0
PUT(m, p, val) ==
  IF p \in DOMAIN m.mem THEN [m EXCEPT !.mem[p] = val] ELSE [m EXCEPT !.up = FALSE]

\* The memory m after a write, which is an address and a value, or <<>> for none.
m ## write == IF write = <<>> THEN m ELSE PUT(m, write[1], write[2])

\* The size is even, so that the lowest bit is free for the allocated bit.
PACK(size, alloc) == size + alloc
HEAD(bp) == bp - 1
Size(m, bp)  == 2 * (GET(m, HEAD(bp)) \div 2)
Alloc(m, bp) == GET(m, HEAD(bp)) % 2 = 1
FOOT(m, bp)  == bp + Size(m, bp) - 2
NEXT_BLKP(m, bp) == bp + Size(m, bp)
PREV_BLKP(m, bp) == bp - 2 * (GET(m, bp - 2) \div 2)

LEFT(bp)  == bp
RIGHT(bp) == bp + 1
PRNT(bp)  == bp + 2
BROS(bp)  == bp + 3
Left(m, bp)  == GET(m, LEFT(bp))
Right(m, bp) == GET(m, RIGHT(bp))
Par(m, bp)   == GET(m, PRNT(bp))
Bro(m, bp)   == GET(m, BROS(bp))

-----------------------------------------------------------------------------

\* Where n steps of next lead to from x.
Walk(next, x, n) ==
  LET walk[k \in 0 .. n] == IF k = 0 THEN x ELSE next[walk[k - 1]] IN walk[n]

\* A path of the tree has fewer nodes than the heap has headers and footers, so that a
\* walk of as many steps comes to its end, where it stays.
Longest(m) == Cardinality(DOMAIN m.mem) \div 2

\* A step of find_fit: from the node t, with the smallest block so far that is large enough.
FitStep(m, asize, t, fit) ==
  CASE t = Null                        -> <<Null, fit>>
    [] t # Null /\ asize = Size(m, t)  -> <<Null, t>>
    [] t # Null /\ asize < Size(m, t)  -> <<Left(m, t), t>>
    [] OTHER                           -> <<Right(m, t), fit>>

Fit(m, asize) ==
  Walk([w \in Int \X Int |-> FitStep(m, asize, w[1], w[2])], <<m.my_tree, Null>>, Longest(m))[2]

\* Mutant of find_fit: the first block on the way down that is large enough.
FindFirst(m, asize) ==
  IF m.my_tree # Null /\ Size(m, m.my_tree) >= asize THEN m.my_tree ELSE Fit(m, asize)

\* The smallest block of at least asize words, or Null.
find_fit(m, asize) == Fit(m, asize)

\* The last node from t on along left children.
Leftmost(m, t) ==
  Walk([b \in Int |-> IF Left(m, b) = Null THEN b ELSE Left(m, b)], t, Longest(m))

\* The parent link of x, if there is an x.
Parent(x, p) == IF x = Null THEN <<>> ELSE <<PRNT(x), p>>

\* x takes the place of bp under bp's parent.
Instead(m, bp, x) ==
  <<IF Size(m, bp) > Size(m, Par(m, bp)) THEN RIGHT(Par(m, bp)) ELSE LEFT(Par(m, bp)), x>>

\* The successor of bp leaves its place to its right child and takes over bp's children.
Detach(m, bp, succ) ==
  IF succ = Right(m, bp) THEN m
  ELSE m ## <<LEFT(Par(m, succ)), Right(m, succ)>> ## Parent(Right(m, succ), Par(m, succ))
         ## <<RIGHT(succ), Right(m, bp)>> ## <<PRNT(Right(m, bp)), succ>>
TakeOver(m, bp, succ) ==
  Detach(m, bp, succ) ## <<LEFT(succ), Left(m, bp)>> ## Parent(Left(m, bp), succ)

\* The next block of the chain becomes its first one.
PassOn(m, bp, bro) ==
  m ## <<LEFT(bro), Left(m, bp)>> ## <<RIGHT(bro), Right(m, bp)>>
    ## Parent(Left(m, bp), bro) ## Parent(Right(m, bp), bro)

DeleteRoot(m, bp) ==
  LET bro == Bro(m, bp)  l == Left(m, bp)  r == Right(m, bp)
      Rooted(t) == [m EXCEPT !.my_tree = t]
  IN CASE bro # Null              -> PassOn(Rooted(bro), bp, bro)
       [] bro = Null /\ l = Null  -> Rooted(r)
       [] bro = Null /\ l # Null /\ r = Null -> Rooted(l)
       [] OTHER                   -> TakeOver(Rooted(Leftmost(m, r)), bp, Leftmost(m, r))

\* A block inside a chain.
Unchain(m, bp) ==
  m ## (IF Bro(m, bp) = Null THEN <<>> ELSE <<LEFT(Bro(m, bp)), Left(m, bp)>>)
    ## <<BROS(Left(m, bp)), Bro(m, bp)>>

\* Mutant of DeleteInner: the successor keeps its old parent link.
DeleteInnerKeepsParent(m, bp) ==
  LET bro == Bro(m, bp)  l == Left(m, bp)  r == Right(m, bp)
      Under(x) == m ## Instead(m, bp, x)
  IN CASE r = NotFirst                -> Unchain(m, bp)
       [] r # NotFirst /\ bro # Null  -> PassOn(Under(bro), bp, bro) ## <<PRNT(bro), Par(m, bp)>>
       [] r = Null /\ bro = Null      -> Under(l) ## Parent(l, Par(m, bp))
       [] OTHER                       -> TakeOver(Under(Leftmost(m, r)), bp, Leftmost(m, r))

\* A block that is not the root: inside a chain, first of a chain, alone with no
\* right child, alone with one.
DeleteInner(m, bp) ==
  LET bro == Bro(m, bp)  l == Left(m, bp)  r == Right(m, bp)
      Under(x) == m ## Instead(m, bp, x)
  IN CASE r = NotFirst                -> Unchain(m, bp)
       [] r # NotFirst /\ bro # Null  -> PassOn(Under(bro), bp, bro) ## <<PRNT(bro), Par(m, bp)>>
       [] r = Null /\ bro = Null      -> Under(l) ## Parent(l, Par(m, bp))
       [] OTHER                       -> TakeOver(Under(Leftmost(m, r)), bp, Leftmost(m, r))
                                           ## <<PRNT(Leftmost(m, r)), Par(m, bp)>>

delete_node(m, bp) == IF bp = m.my_tree THEN DeleteRoot(m, bp) ELSE DeleteInner(m, bp)

\* The child of t on the way to the blocks of a size.
Toward(m, t, size) ==
  CASE size < Size(m, t) -> Left(m, t)
    [] size > Size(m, t) -> Right(m, t)
    [] OTHER             -> Null

\* The last node on that way.
Position(m, size) ==
  Walk([t \in Int |-> IF Toward(m, t, size) = Null THEN t ELSE Toward(m, t, size)],
       m.my_tree, Longest(m))

Linked(m, bp, l, r, p, b) ==
  m ## <<LEFT(bp), l>> ## <<RIGHT(bp), r>> ## <<PRNT(bp), p>> ## <<BROS(bp), b>>

\* bp becomes the first block of the chain of t.
Chain(m, bp, t, p) ==
  Linked(m, bp, Left(m, t), Right(m, t), p, t)
    ## Parent(Left(m, t), bp) ## Parent(Right(m, t), bp)
    ## <<LEFT(t), bp>> ## <<RIGHT(t), NotFirst>>

add_node(m, bp) ==
  LET size == Size(m, bp)  t == Position(m, size)
      Rooted == [m EXCEPT !.my_tree = bp]
  IN CASE m.my_tree = Null                        -> Linked(Rooted, bp, Null, Null, Null, Null)
       [] m.my_tree # Null /\ size < Size(m, t)   -> Linked(m ## <<LEFT(t), bp>>, bp, Null, Null, t, Null)
       [] m.my_tree # Null /\ size > Size(m, t)   -> Linked(m ## <<RIGHT(t), bp>>, bp, Null, Null, t, Null)
       [] m.my_tree # Null /\ size = Size(m, t) /\ t = m.my_tree -> Chain(Rooted, bp, t, Null)
       [] OTHER                                   -> Chain(m ## Instead(m, t, bp), bp, t, Par(m, t))

=============================================================================
