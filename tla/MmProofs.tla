------------------------------ MODULE MmProofs ------------------------------
(***************************************************************************)
(* Proofs about the allocator for arenas, extensions and requests of any   *)
(* size and any number of blocks.                                          *)
(***************************************************************************)
EXTENDS Mm, LeastNumber, FiniteSetTheorems

-----------------------------------------------------------------------------
(* Words and walks. *)

Cell == Base .. (Base + MaxHeap - 1)

\* What a word can be: an address or a size with a flag, or what a client writes.
Word == (-1 .. (Base + MaxHeap)) \cup {Pattern(i) : i \in Ids}

Memory == [mem : [Cell -> Word], my_tree : Int, brk : Int, up : BOOLEAN]

\* Words are integers.
LEMMA WordIsInt == Word \subseteq Int
  BY MmAssumption DEF Word, Pattern, Base

\* Addresses and sizes of the arena, with a flag or not, are words.
LEMMA AddressIsWord == \A v \in -1 .. (Base + MaxHeap) : v \in Word
  BY DEF Word

\* A write to a cell changes that cell.
LEMMA WriteCell ==
  ASSUME NEW c \in Memory, NEW p \in Cell, NEW v \in Word, NEW d, d = c ## <<p, v>>
  PROVE  /\ d \in Memory
         /\ d.my_tree = c.my_tree /\ d.brk = c.brk /\ d.up = c.up
         /\ \A q \in Int : GET(d, q) = IF q = p THEN v ELSE GET(c, q)
<1>1. d = [c EXCEPT !.mem[p] = v]
  BY DEF ##, PUT, Memory
<1>2. DOMAIN c.mem = Cell /\ Cell \subseteq Int
  BY DEF Memory, Cell, Base
<1> QED
  BY <1>1, <1>2 DEF Memory, GET

\* A write anywhere keeps the shape of the memory.
LEMMA WriteShape ==
  ASSUME NEW c \in Memory, NEW p, NEW v \in Word, NEW d, d = c ## <<p, v>>
  PROVE  d \in Memory /\ d.my_tree = c.my_tree /\ d.brk = c.brk
<1>1. d = IF p \in Cell THEN [c EXCEPT !.mem[p] = v] ELSE [c EXCEPT !.up = FALSE]
  BY DEF ##, PUT, Memory
<1> QED
  BY <1>1 DEF Memory

\* No write leaves the memory as it is.
LEMMA NoWrite == \A c : c ## <<>> = c
  BY DEF ##

\* The words of a memory are numbers.
LEMMA WordsAreInt == \A c \in Memory : \A q : GET(c, q) \in Word /\ GET(c, q) \in Int
<1> SUFFICES ASSUME NEW c \in Memory, NEW q PROVE GET(c, q) \in Word /\ GET(c, q) \in Int
  OBVIOUS
<1>1. GET(c, q) \in Word
  BY MmAssumption, AddressIsWord DEF GET, Memory, Base
<1> QED
  BY <1>1, WordIsInt

\* The size and the flag in a header or footer.
LEMMA PackedTag ==
  ASSUME NEW size \in Int, size % 2 = 0, NEW alloc \in {0, 1}
  PROVE  PACK(size, alloc) \in Int /\ 2 * (PACK(size, alloc) \div 2) = size /\ PACK(size, alloc) % 2 = alloc
  BY DEF PACK

Steps(w, S, next, x, n) ==
  w \in [0 .. n -> S] /\ w[0] = x /\ \A k \in 1 .. n : w[k] = next[w[k - 1]]

\* A walk is the last of a sequence of steps.
LEMMA WalkSteps ==
  ASSUME NEW S, NEW next, next \in [S -> S], NEW x, x \in S, NEW n, n \in Nat
  PROVE  \E w : Steps(w, S, next, x, n) /\ Walk(next, x, n) = w[n]
<1> DEFINE Path(f, k) == f \in [0 .. k -> S] /\ f[0] = x /\ \A j \in 1 .. k : f[j] = next[f[j - 1]]
           Short == {k \in Nat : ~ \E f : Path(f, k)}
<1>1. Short = {}
  <2> SUFFICES ASSUME Short # {} PROVE FALSE
    OBVIOUS
  <2>1. PICK k \in Short : \A j \in Short : k <= j
    BY LeastOfSet
  <2>2. k # 0
    <3>1. Path([j \in 0 .. 0 |-> x], 0)
      OBVIOUS
    <3> QED
      BY <2>1, <3>1
  <2>3. PICK f : Path(f, k - 1)
    BY <2>1, <2>2
  <2> DEFINE g == [j \in 0 .. k |-> IF j = k THEN next[f[k - 1]] ELSE f[j]]
  <2>4. Path(g, k)
    BY <2>2, <2>3
  <2> QED
    BY <2>1, <2>4
<1>2. PICK f : Path(f, n)
  BY <1>1
<1> DEFINE Fixed(w) == w = [k \in 0 .. n |-> IF k = 0 THEN x ELSE next[w[k - 1]]]
<1>3. Fixed(f)
  BY <1>2
<1> DEFINE w == CHOOSE w : Fixed(w)
<1>4. Fixed(w)
  BY <1>3
<1>5. ASSUME NEW u, Fixed(u) PROVE u = f
  <2> DEFINE Differ == {k \in 0 .. n : u[k] # f[k]}
  <2>1. Differ \in SUBSET Nat
    OBVIOUS
  <2>2. Differ = {}
    <3> SUFFICES ASSUME Differ # {} PROVE FALSE
      OBVIOUS
    <3>1. PICK k \in Differ : \A j \in Differ : k <= j
      <4> HIDE DEF Differ
      <4> QED
        BY <2>1, LeastOfSet
    <3>2. k = 0 \/ u[k - 1] = f[k - 1]
      BY <3>1
    <3> QED
      BY <1>3, <1>5, <3>1, <3>2
  <2> QED
    BY <1>2, <1>5, <2>2
<1>6. Walk(next, x, n) = w[n]
  BY DEF Walk
<1> QED
  <2>1. w = f
    BY <1>4, <1>5
  <2> HIDE DEF w
  <2> QED
    BY <1>2, <1>6, <2>1 DEF Steps

-----------------------------------------------------------------------------
(* Links. The links of the blocks of F are functions on F, which a write to *)
(* a link changes at one point; the size of a block is counted in pairs of  *)
(* words.                                                                   *)

Placed(F) ==
  /\ F \subseteq Int
  /\ \A b \in F : First <= b /\ b + 4 <= Base + MaxHeap
  /\ \A b, k \in F : b < k => b + MIN <= k

\* Addresses of blocks and the two special links are words.
LEMMA PlacedWords ==
  ASSUME NEW F, Placed(F)
  PROVE  F \subseteq Word /\ Null \in Word /\ NotFirst \in Word
<1>1. F \subseteq -1 .. (Base + MaxHeap) /\ Null \in -1 .. (Base + MaxHeap) /\ NotFirst \in -1 .. (Base + MaxHeap)
  BY MmAssumption DEF Placed, First, Base, Null, NotFirst
<1> QED
  BY <1>1, AddressIsWord

Half(c, b) == GET(c, HEAD(b)) \div 2

View(c, F) ==
  [root  |-> c.my_tree,
   left  |-> [b \in F |-> Left(c, b)],
   right |-> [b \in F |-> Right(c, b)],
   par   |-> [b \in F |-> Par(c, b)],
   bro   |-> [b \in F |-> Bro(c, b)],
   size  |-> [b \in F |-> Half(c, b)]]

Views(F) ==
  [root : Int, left : [F -> Int], right : [F -> Int], par : [F -> Int], bro : [F -> Int],
   size : [F -> Int]]

LinkWords(F) == {q \in Int : \E b \in F : q \in b .. (b + 3)}

\* d is c but for links of F.
Edited(c, d, F) ==
  /\ d \in Memory /\ d.brk = c.brk /\ d.up = c.up
  /\ \A q \in Int : q \notin LinkWords(F) => GET(d, q) = GET(c, q)

\* The links of F in a memory are functions to integers.
LEMMA ViewIsTyped == \A c \in Memory, F \in SUBSET Int : View(c, F) \in Views(F)
<1> SUFFICES ASSUME NEW c \in Memory, NEW F \in SUBSET Int PROVE View(c, F) \in Views(F)
  OBVIOUS
<1>1. \A b \in F : /\ Left(c, b) \in Int /\ Right(c, b) \in Int /\ Par(c, b) \in Int
                   /\ Bro(c, b) \in Int /\ Half(c, b) \in Int
  BY WordsAreInt DEF Left, Right, Par, Bro, Half
<1>2. c.my_tree \in Int
  BY DEF Memory
<1> QED
  BY <1>1, <1>2 DEF View, Views

\* A write to the j-th link word of a block changes that link of that block only.
LEMMA WriteLink ==
  ASSUME NEW c \in Memory, NEW F, Placed(F), NEW x \in F, NEW j \in 0 .. 3, NEW v \in Word,
         NEW p, p = x + j, NEW d, d = c ## <<p, v>>
  PROVE  /\ Edited(c, d, F) /\ d.my_tree = c.my_tree
         /\ \A b \in F : /\ Half(d, b) = Half(c, b)
                         /\ \A k \in 0 .. 3 : GET(d, b + k) = IF b = x /\ k = j THEN v ELSE GET(c, b + k)
<1>1. x + j \in Cell /\ x \in Int
  BY MmAssumption DEF Placed, Cell, First, Base
<1>2. /\ d \in Memory /\ d.my_tree = c.my_tree /\ d.brk = c.brk /\ d.up = c.up
      /\ \A q \in Int : GET(d, q) = IF q = x + j THEN v ELSE GET(c, q)
  BY <1>1, WriteCell
<1>3. \A q \in Int : q \notin LinkWords(F) => q # x + j
  BY <1>1 DEF LinkWords
<1>4. \A b \in F : /\ b \in Int /\ b - 1 # x + j
                  /\ \A k \in 0 .. 3 : b + k = x + j <=> b = x /\ k = j
  BY DEF Placed, MIN
<1> QED
  BY <1>2, <1>3, <1>4 DEF Edited, Half, HEAD

\* PUT_LEFT_CHILD changes the function left at one point, and no other link.
LEMMA WriteLeft ==
  ASSUME NEW c \in Memory, NEW F, Placed(F), NEW x \in F, NEW v \in Word, NEW d, d = c ## <<LEFT(x), v>>
  PROVE  LET t == View(c, F)  u == View(d, F)
         IN /\ Edited(c, d, F) /\ u.left = [t.left EXCEPT ![x] = v]
            /\ u.root = t.root /\ u.right = t.right /\ u.par = t.par /\ u.bro = t.bro /\ u.size = t.size
<1>1. LEFT(x) = x + 0 /\ 0 \in 0 .. 3 /\ \A b \in F : b + 0 = b
  BY DEF Placed, LEFT
<1>2. /\ Edited(c, d, F) /\ d.my_tree = c.my_tree
      /\ \A b \in F :
           /\ Half(d, b) = Half(c, b)
           /\ \A k \in 0 .. 3 : GET(d, b + k) = IF b = x /\ k = 0 THEN v ELSE GET(c, b + k)
  BY <1>1, WriteLink
<1>3. \A b \in F :
        /\ Half(d, b) = Half(c, b)
        /\ Left(d, b) = IF b = x THEN v ELSE Left(c, b)
        /\ Right(d, b) = Right(c, b) /\ Par(d, b) = Par(c, b) /\ Bro(d, b) = Bro(c, b)
  BY <1>1, <1>2 DEF Left, Right, Par, Bro, LEFT, RIGHT, PRNT, BROS
<1>4. /\ [b \in F |-> Left(d, b)] = [[b \in F |-> Left(c, b)] EXCEPT ![x] = v]
      /\ [b \in F |-> Right(d, b)] = [b \in F |-> Right(c, b)]
      /\ [b \in F |-> Par(d, b)] = [b \in F |-> Par(c, b)]
      /\ [b \in F |-> Bro(d, b)] = [b \in F |-> Bro(c, b)]
      /\ [b \in F |-> Half(d, b)] = [b \in F |-> Half(c, b)]
  BY <1>3
<1> QED
  BY <1>2, <1>4 DEF View

\* The same for PUT_RIGHT_CHILD.
LEMMA WriteRight ==
  ASSUME NEW c \in Memory, NEW F, Placed(F), NEW x \in F, NEW v \in Word, NEW d, d = c ## <<RIGHT(x), v>>
  PROVE  LET t == View(c, F)  u == View(d, F)
         IN /\ Edited(c, d, F) /\ u.right = [t.right EXCEPT ![x] = v]
            /\ u.root = t.root /\ u.left = t.left /\ u.par = t.par /\ u.bro = t.bro /\ u.size = t.size
<1>1. RIGHT(x) = x + 1 /\ 1 \in 0 .. 3 /\ \A b \in F : b + 0 = b
  BY DEF Placed, RIGHT
<1>2. /\ Edited(c, d, F) /\ d.my_tree = c.my_tree
      /\ \A b \in F :
           /\ Half(d, b) = Half(c, b)
           /\ \A k \in 0 .. 3 : GET(d, b + k) = IF b = x /\ k = 1 THEN v ELSE GET(c, b + k)
  BY <1>1, WriteLink
<1>3. \A b \in F :
        /\ Half(d, b) = Half(c, b)
        /\ Right(d, b) = IF b = x THEN v ELSE Right(c, b)
        /\ Left(d, b) = Left(c, b) /\ Par(d, b) = Par(c, b) /\ Bro(d, b) = Bro(c, b)
  BY <1>1, <1>2 DEF Left, Right, Par, Bro, LEFT, RIGHT, PRNT, BROS
<1>4. /\ [b \in F |-> Right(d, b)] = [[b \in F |-> Right(c, b)] EXCEPT ![x] = v]
      /\ [b \in F |-> Left(d, b)] = [b \in F |-> Left(c, b)]
      /\ [b \in F |-> Par(d, b)] = [b \in F |-> Par(c, b)]
      /\ [b \in F |-> Bro(d, b)] = [b \in F |-> Bro(c, b)]
      /\ [b \in F |-> Half(d, b)] = [b \in F |-> Half(c, b)]
  BY <1>3
<1> QED
  BY <1>2, <1>4 DEF View

\* The same for PUT_PAR.
LEMMA WritePar ==
  ASSUME NEW c \in Memory, NEW F, Placed(F), NEW x \in F, NEW v \in Word, NEW d, d = c ## <<PRNT(x), v>>
  PROVE  LET t == View(c, F)  u == View(d, F)
         IN /\ Edited(c, d, F) /\ u.par = [t.par EXCEPT ![x] = v]
            /\ u.root = t.root /\ u.left = t.left /\ u.right = t.right /\ u.bro = t.bro /\ u.size = t.size
<1>1. PRNT(x) = x + 2 /\ 2 \in 0 .. 3 /\ \A b \in F : b + 0 = b
  BY DEF Placed, PRNT
<1>2. /\ Edited(c, d, F) /\ d.my_tree = c.my_tree
      /\ \A b \in F :
           /\ Half(d, b) = Half(c, b)
           /\ \A k \in 0 .. 3 : GET(d, b + k) = IF b = x /\ k = 2 THEN v ELSE GET(c, b + k)
  BY <1>1, WriteLink
<1>3. \A b \in F :
        /\ Half(d, b) = Half(c, b)
        /\ Par(d, b) = IF b = x THEN v ELSE Par(c, b)
        /\ Left(d, b) = Left(c, b) /\ Right(d, b) = Right(c, b) /\ Bro(d, b) = Bro(c, b)
  BY <1>1, <1>2 DEF Left, Right, Par, Bro, LEFT, RIGHT, PRNT, BROS
<1>4. /\ [b \in F |-> Par(d, b)] = [[b \in F |-> Par(c, b)] EXCEPT ![x] = v]
      /\ [b \in F |-> Left(d, b)] = [b \in F |-> Left(c, b)]
      /\ [b \in F |-> Right(d, b)] = [b \in F |-> Right(c, b)]
      /\ [b \in F |-> Bro(d, b)] = [b \in F |-> Bro(c, b)]
      /\ [b \in F |-> Half(d, b)] = [b \in F |-> Half(c, b)]
  BY <1>3
<1> QED
  BY <1>2, <1>4 DEF View

\* The same for PUT_BRO.
LEMMA WriteBro ==
  ASSUME NEW c \in Memory, NEW F, Placed(F), NEW x \in F, NEW v \in Word, NEW d, d = c ## <<BROS(x), v>>
  PROVE  LET t == View(c, F)  u == View(d, F)
         IN /\ Edited(c, d, F) /\ u.bro = [t.bro EXCEPT ![x] = v]
            /\ u.root = t.root /\ u.left = t.left /\ u.right = t.right /\ u.par = t.par /\ u.size = t.size
<1>1. BROS(x) = x + 3 /\ 3 \in 0 .. 3 /\ \A b \in F : b + 0 = b
  BY DEF Placed, BROS
<1>2. /\ Edited(c, d, F) /\ d.my_tree = c.my_tree
      /\ \A b \in F :
           /\ Half(d, b) = Half(c, b)
           /\ \A k \in 0 .. 3 : GET(d, b + k) = IF b = x /\ k = 3 THEN v ELSE GET(c, b + k)
  BY <1>1, WriteLink
<1>3. \A b \in F :
        /\ Half(d, b) = Half(c, b)
        /\ Bro(d, b) = IF b = x THEN v ELSE Bro(c, b)
        /\ Left(d, b) = Left(c, b) /\ Right(d, b) = Right(c, b) /\ Par(d, b) = Par(c, b)
  BY <1>1, <1>2 DEF Left, Right, Par, Bro, LEFT, RIGHT, PRNT, BROS
<1>4. /\ [b \in F |-> Bro(d, b)] = [[b \in F |-> Bro(c, b)] EXCEPT ![x] = v]
      /\ [b \in F |-> Left(d, b)] = [b \in F |-> Left(c, b)]
      /\ [b \in F |-> Right(d, b)] = [b \in F |-> Right(c, b)]
      /\ [b \in F |-> Par(d, b)] = [b \in F |-> Par(c, b)]
      /\ [b \in F |-> Half(d, b)] = [b \in F |-> Half(c, b)]
  BY <1>3
<1> QED
  BY <1>2, <1>4 DEF View

\* A parent link that is written if there is a child.
LEMMA WriteParent ==
  ASSUME NEW c \in Memory, NEW F, Placed(F), NEW x \in F \cup {Null}, NEW v \in Word,
         NEW d, d = c ## Parent(x, v)
  PROVE  LET t == View(c, F)  u == View(d, F)
         IN /\ Edited(c, d, F) /\ u.par = [t.par EXCEPT ![x] = v]
            /\ u.root = t.root /\ u.left = t.left /\ u.right = t.right /\ u.bro = t.bro /\ u.size = t.size
<1>1. CASE x = Null
  <2>1. Null \notin F
    BY DEF Placed, First, Base, Null
  <2>2. d = c
    BY <1>1, NoWrite DEF Parent
  <2>3. View(c, F).par = [View(c, F).par EXCEPT ![x] = v]
    BY <1>1, <2>1 DEF View
  <2> QED
    BY <2>2, <2>3 DEF Edited
<1>2. CASE x # Null
  <2>1. d = c ## <<PRNT(x), v>> /\ x \in F
    BY <1>2 DEF Parent
  <2> QED
    BY <2>1, WritePar
<1> QED
  BY <1>1, <1>2

\* An assignment to my_tree changes no link.
LEMMA Reroot ==
  ASSUME NEW c \in Memory, NEW F, NEW x \in Int, NEW d, d = [c EXCEPT !.my_tree = x]
  PROVE  LET t == View(c, F)  u == View(d, F)
         IN /\ Edited(c, d, F) /\ u.root = x
            /\ u.left = t.left /\ u.right = t.right /\ u.par = t.par /\ u.bro = t.bro /\ u.size = t.size
<1>1. d \in Memory /\ d.my_tree = x /\ d.brk = c.brk /\ d.up = c.up /\ d.mem = c.mem
  BY DEF Memory
<1>2. \A q : GET(d, q) = GET(c, q)
  BY <1>1 DEF GET
<1> QED
  BY <1>1, <1>2 DEF Edited, View, Left, Right, Par, Bro, Half

\* d is a but for links of F, which are now l, r, p and o, and the root.
Becomes(a, d, F, t, l, r, p, o) ==
  /\ Edited(a, d, F)
  /\ View(d, F).root = t /\ View(d, F).left = l /\ View(d, F).right = r
  /\ View(d, F).par = p /\ View(d, F).bro = o
  /\ View(d, F).size = View(a, F).size

\* Two edits of the links of F are one.
LEMMA EditedTwice ==
  ASSUME NEW c, NEW d, NEW e, NEW F, Edited(c, d, F), Edited(d, e, F)
  PROVE  Edited(c, e, F)
  BY DEF Edited

\* A memory shows its own links.
LEMMA BecomesSelf ==
  ASSUME NEW c \in Memory, NEW F, NEW t, t = View(c, F)
  PROVE  Becomes(c, c, F, t.root, t.left, t.right, t.par, t.bro)
  BY DEF Becomes, Edited

\* One more assignment to my_tree after a sequence of writes.
LEMMA ThenRoot ==
  ASSUME NEW a, NEW c, NEW F, NEW t, NEW l, NEW r, NEW p, NEW o, Becomes(a, c, F, t, l, r, p, o),
         NEW x \in Int, NEW d, d = [c EXCEPT !.my_tree = x]
  PROVE  Becomes(a, d, F, x, l, r, p, o)
<1>1. c \in Memory
  BY DEF Becomes, Edited
<1>2. Edited(a, c, F)
  BY DEF Becomes
<1> QED
  BY <1>1, <1>2, Reroot, EditedTwice DEF Becomes

\* One more write of a left child.
LEMMA ThenLeft ==
  ASSUME NEW a, NEW c, NEW F, NEW t, NEW l, NEW r, NEW p, NEW o, Becomes(a, c, F, t, l, r, p, o),
         Placed(F), NEW x \in F, NEW v \in Word, NEW d, d = c ## <<LEFT(x), v>>
  PROVE  Becomes(a, d, F, t, [l EXCEPT ![x] = v], r, p, o)
<1>1. c \in Memory
  BY DEF Becomes, Edited
<1>2. Edited(a, c, F)
  BY DEF Becomes
<1> QED
  BY <1>1, <1>2, WriteLeft, EditedTwice DEF Becomes

\* One more write of a right child.
LEMMA ThenRight ==
  ASSUME NEW a, NEW c, NEW F, NEW t, NEW l, NEW r, NEW p, NEW o, Becomes(a, c, F, t, l, r, p, o),
         Placed(F), NEW x \in F, NEW v \in Word, NEW d, d = c ## <<RIGHT(x), v>>
  PROVE  Becomes(a, d, F, t, l, [r EXCEPT ![x] = v], p, o)
<1>1. c \in Memory
  BY DEF Becomes, Edited
<1>2. Edited(a, c, F)
  BY DEF Becomes
<1> QED
  BY <1>1, <1>2, WriteRight, EditedTwice DEF Becomes

\* One more write of a parent.
LEMMA ThenPar ==
  ASSUME NEW a, NEW c, NEW F, NEW t, NEW l, NEW r, NEW p, NEW o, Becomes(a, c, F, t, l, r, p, o),
         Placed(F), NEW x \in F, NEW v \in Word, NEW d, d = c ## <<PRNT(x), v>>
  PROVE  Becomes(a, d, F, t, l, r, [p EXCEPT ![x] = v], o)
<1>1. c \in Memory
  BY DEF Becomes, Edited
<1>2. Edited(a, c, F)
  BY DEF Becomes
<1> QED
  BY <1>1, <1>2, WritePar, EditedTwice DEF Becomes

\* One more write of a brother.
LEMMA ThenBro ==
  ASSUME NEW a, NEW c, NEW F, NEW t, NEW l, NEW r, NEW p, NEW o, Becomes(a, c, F, t, l, r, p, o),
         Placed(F), NEW x \in F, NEW v \in Word, NEW d, d = c ## <<BROS(x), v>>
  PROVE  Becomes(a, d, F, t, l, r, p, [o EXCEPT ![x] = v])
<1>1. c \in Memory
  BY DEF Becomes, Edited
<1>2. Edited(a, c, F)
  BY DEF Becomes
<1> QED
  BY <1>1, <1>2, WriteBro, EditedTwice DEF Becomes

\* One more write of a parent, if there is a child.
LEMMA ThenParent ==
  ASSUME NEW a, NEW c, NEW F, NEW t, NEW l, NEW r, NEW p, NEW o, Becomes(a, c, F, t, l, r, p, o),
         Placed(F), NEW x \in F \cup {Null}, NEW v \in Word, NEW d, d = c ## Parent(x, v)
  PROVE  Becomes(a, d, F, t, l, r, [p EXCEPT ![x] = v], o)
<1>1. c \in Memory
  BY DEF Becomes, Edited
<1>2. Edited(a, c, F)
  BY DEF Becomes
<1> QED
  BY <1>1, <1>2, WriteParent, EditedTwice DEF Becomes

\* What is read of the memory then.
LEMMA BecomesFields ==
  ASSUME NEW a, NEW c, NEW F, NEW t, NEW l, NEW r, NEW p, NEW o, Becomes(a, c, F, t, l, r, p, o),
         NEW b \in F
  PROVE  /\ Left(c, b) = l[b] /\ Right(c, b) = r[b] /\ Par(c, b) = p[b] /\ Bro(c, b) = o[b]
         /\ Half(c, b) = View(a, F).size[b] /\ c.my_tree = t /\ c \in Memory
<1>1. /\ View(c, F).left[b] = Left(c, b) /\ View(c, F).right[b] = Right(c, b)
      /\ View(c, F).par[b] = Par(c, b) /\ View(c, F).bro[b] = Bro(c, b)
      /\ View(c, F).size[b] = Half(c, b) /\ View(c, F).root = c.my_tree
  BY DEF View
<1> QED
  BY <1>1 DEF Becomes, Edited

\* The links after PassOn.
LEMMA ThenPassOn ==
  ASSUME NEW a, NEW c, NEW F, NEW t, NEW l, NEW r, NEW p, NEW o, Becomes(a, c, F, t, l, r, p, o),
         Placed(F), NEW bp \in F, NEW bro \in F,
         NEW x \in F \cup {Null}, x = l[bp], NEW y \in F \cup {Null}, y = r[bp],
         NEW d, d = PassOn(c, bp, bro)
  PROVE  Becomes(a, d, F, t, [l EXCEPT ![bro] = x], [r EXCEPT ![bro] = y],
                 [[p EXCEPT ![x] = bro] EXCEPT ![y] = bro], o)
<1>1. F \subseteq Word /\ Null \in Word
  BY PlacedWords
<1>2. x \in Word /\ y \in Word /\ bro \in Word
  BY <1>1
<1>3. Left(c, bp) = x /\ Right(c, bp) = y
  BY BecomesFields
<1> DEFINE c1 == c ## <<LEFT(bro), x>>
           c2 == c1 ## <<RIGHT(bro), y>>
           c3 == c2 ## Parent(x, bro)
<1>4. d = c3 ## Parent(y, bro)
  BY <1>3 DEF PassOn
<1>5. c1 = c ## <<LEFT(bro), x>> /\ c2 = c1 ## <<RIGHT(bro), y>> /\ c3 = c2 ## Parent(x, bro)
  OBVIOUS
<1> HIDE DEF c1, c2, c3
<1>6. Becomes(a, c1, F, t, [l EXCEPT ![bro] = x], r, p, o)
  BY <1>2, <1>5, ThenLeft
<1>7. Becomes(a, c2, F, t, [l EXCEPT ![bro] = x], [r EXCEPT ![bro] = y], p, o)
  BY <1>2, <1>5, <1>6, ThenRight
<1>8. Becomes(a, c3, F, t, [l EXCEPT ![bro] = x], [r EXCEPT ![bro] = y], [p EXCEPT ![x] = bro], o)
  BY <1>2, <1>5, <1>7, ThenParent
<1> QED
  BY <1>2, <1>4, <1>8, ThenParent

\* The size of a block is twice what its half counts.
LEMMA SizeIsTwice ==
  ASSUME NEW c, NEW b PROVE Size(c, b) = 2 * Half(c, b)
  BY DEF Size, Half

\* The links after Instead: which child link of the parent it writes is told by the sizes.
LEMMA ThenInstead ==
  ASSUME NEW a \in Memory, NEW c, NEW F, NEW t, NEW l, NEW r, NEW p, NEW o, Becomes(a, c, F, t, l, r, p, o),
         Placed(F), NEW bp \in F, NEW y \in F, y = p[bp], NEW x \in Word,
         NEW z, z = View(a, F).size, NEW d, d = c ## Instead(c, bp, x)
  PROVE  /\ z[bp] > z[y] => Becomes(a, d, F, t, l, [r EXCEPT ![y] = x], p, o)
         /\ ~(z[bp] > z[y]) => Becomes(a, d, F, t, [l EXCEPT ![y] = x], r, p, o)
<1>1. Par(c, bp) = y /\ Half(c, bp) = z[bp] /\ Half(c, y) = z[y]
  BY BecomesFields
<1>2. z[bp] \in Int /\ z[y] \in Int
  BY WordsAreInt DEF View, Half
<1>3. Size(c, bp) > Size(c, y) <=> z[bp] > z[y]
  BY <1>1, <1>2, SizeIsTwice
<1>4. CASE z[bp] > z[y]
  <2>1. d = c ## <<RIGHT(y), x>>
    BY <1>1, <1>3, <1>4 DEF Instead
  <2> QED
    BY <1>4, <2>1, ThenRight
<1>5. CASE ~(z[bp] > z[y])
  <2>1. d = c ## <<LEFT(y), x>>
    BY <1>1, <1>3, <1>5 DEF Instead
  <2> QED
    BY <1>5, <2>1, ThenLeft
<1> QED
  BY <1>4, <1>5

\* The successor s of bp, which is not its right child, in the place of bp.
LEMMA ThenTakeOverFar ==
  ASSUME NEW a, NEW c, NEW F, NEW t, NEW l, NEW r, NEW p, NEW o, Becomes(a, c, F, t, l, r, p, o),
         Placed(F), NEW bp \in F, NEW s \in F, s # r[bp],
         NEW x \in F \cup {Null}, x = l[bp], NEW y \in F, y = r[bp],
         NEW q \in F, q = p[s], NEW k \in F \cup {Null}, k = r[s],
         NEW d, d = TakeOver(c, bp, s)
  PROVE  Becomes(a, d, F, t, [[l EXCEPT ![q] = k] EXCEPT ![s] = x], [r EXCEPT ![s] = y],
                 [[[p EXCEPT ![k] = q] EXCEPT ![y] = s] EXCEPT ![x] = s], o)
<1>1. F \subseteq Word /\ Null \in Word
  BY PlacedWords
<1>2. x \in Word /\ y \in Word /\ q \in Word /\ k \in Word /\ s \in Word
  BY <1>1
<1>3. Left(c, bp) = x /\ Right(c, bp) = y /\ Par(c, s) = q /\ Right(c, s) = k
  BY BecomesFields
<1> DEFINE c1 == c ## <<LEFT(q), k>>
           c2 == c1 ## Parent(k, q)
           c3 == c2 ## <<RIGHT(s), y>>
           c4 == c3 ## <<PRNT(y), s>>
           c5 == c4 ## <<LEFT(s), x>>
<1>4. d = c5 ## Parent(x, s)
  BY <1>3 DEF TakeOver, Detach
<1>5. /\ c1 = c ## <<LEFT(q), k>> /\ c2 = c1 ## Parent(k, q) /\ c3 = c2 ## <<RIGHT(s), y>>
      /\ c4 = c3 ## <<PRNT(y), s>> /\ c5 = c4 ## <<LEFT(s), x>>
  OBVIOUS
<1> HIDE DEF c1, c2, c3, c4, c5
<1>6. Becomes(a, c1, F, t, [l EXCEPT ![q] = k], r, p, o)
  BY <1>2, <1>5, ThenLeft
<1>7. Becomes(a, c2, F, t, [l EXCEPT ![q] = k], r, [p EXCEPT ![k] = q], o)
  BY <1>2, <1>5, <1>6, ThenParent
<1>8. Becomes(a, c3, F, t, [l EXCEPT ![q] = k], [r EXCEPT ![s] = y], [p EXCEPT ![k] = q], o)
  BY <1>2, <1>5, <1>7, ThenRight
<1>9. Becomes(a, c4, F, t, [l EXCEPT ![q] = k], [r EXCEPT ![s] = y],
              [[p EXCEPT ![k] = q] EXCEPT ![y] = s], o)
  BY <1>2, <1>5, <1>8, ThenPar
<1>10. Becomes(a, c5, F, t, [[l EXCEPT ![q] = k] EXCEPT ![s] = x], [r EXCEPT ![s] = y],
               [[p EXCEPT ![k] = q] EXCEPT ![y] = s], o)
  BY <1>2, <1>5, <1>9, ThenLeft
<1> QED
  BY <1>2, <1>4, <1>10, ThenParent

\* The right child s of bp in its place.
LEMMA ThenTakeOverNear ==
  ASSUME NEW a, NEW c, NEW F, NEW t, NEW l, NEW r, NEW p, NEW o, Becomes(a, c, F, t, l, r, p, o),
         Placed(F), NEW bp \in F, NEW s \in F, s = r[bp],
         NEW x \in F \cup {Null}, x = l[bp], NEW d, d = TakeOver(c, bp, s)
  PROVE  Becomes(a, d, F, t, [l EXCEPT ![s] = x], r, [p EXCEPT ![x] = s], o)
<1>1. F \subseteq Word /\ Null \in Word
  BY PlacedWords
<1>2. x \in Word /\ s \in Word
  BY <1>1
<1>3. Left(c, bp) = x /\ Right(c, bp) = s
  BY BecomesFields
<1> DEFINE c1 == c ## <<LEFT(s), x>>
<1>4. d = c1 ## Parent(x, s)
  BY <1>3 DEF TakeOver, Detach
<1>5. c1 = c ## <<LEFT(s), x>>
  OBVIOUS
<1> HIDE DEF c1
<1>6. Becomes(a, c1, F, t, [l EXCEPT ![s] = x], r, p, o)
  BY <1>2, <1>5, ThenLeft
<1> QED
  BY <1>2, <1>4, <1>6, ThenParent

\* The links after a block has left the inside of a chain.
LEMMA ThenUnchain ==
  ASSUME NEW a, NEW c, NEW F, NEW t, NEW l, NEW r, NEW p, NEW o, Becomes(a, c, F, t, l, r, p, o),
         Placed(F), NEW bp \in F, NEW x \in F, x = l[bp], NEW k \in F \cup {Null}, k = o[bp],
         NEW d, d = Unchain(c, bp)
  PROVE  /\ k # Null => Becomes(a, d, F, t, [l EXCEPT ![k] = x], r, p, [o EXCEPT ![x] = k])
         /\ k = Null => Becomes(a, d, F, t, l, r, p, [o EXCEPT ![x] = k])
<1>1. F \subseteq Word /\ Null \in Word
  BY PlacedWords
<1>2. x \in Word /\ k \in Word
  BY <1>1
<1>3. Left(c, bp) = x /\ Bro(c, bp) = k
  BY BecomesFields
<1>4. CASE k = Null
  <2>1. d = c ## <<BROS(x), k>>
    BY <1>3, <1>4, NoWrite DEF Unchain
  <2> QED
    BY <1>2, <1>4, <2>1, ThenBro
<1>5. CASE k # Null
  <2> DEFINE c1 == c ## <<LEFT(k), x>>
  <2>1. d = c1 ## <<BROS(x), k>> /\ c1 = c ## <<LEFT(k), x>>
    BY <1>3, <1>5 DEF Unchain
  <2> HIDE DEF c1
  <2>2. Becomes(a, c1, F, t, [l EXCEPT ![k] = x], r, p, o)
    BY <1>2, <1>5, <2>1, ThenLeft
  <2> QED
    BY <1>2, <1>5, <2>1, <2>2, ThenBro
<1> QED
  BY <1>4, <1>5

\* The links after add_node has written the four links of its block.
LEMMA ThenLinked ==
  ASSUME NEW a, NEW c, NEW F, NEW t, NEW l, NEW r, NEW p, NEW o, Becomes(a, c, F, t, l, r, p, o),
         Placed(F), NEW bp \in F, NEW vl \in Word, NEW vr \in Word, NEW vp \in Word, NEW vo \in Word,
         NEW d, d = Linked(c, bp, vl, vr, vp, vo)
  PROVE  Becomes(a, d, F, t, [l EXCEPT ![bp] = vl], [r EXCEPT ![bp] = vr], [p EXCEPT ![bp] = vp],
                 [o EXCEPT ![bp] = vo])
<1> DEFINE c1 == c ## <<LEFT(bp), vl>>
           c2 == c1 ## <<RIGHT(bp), vr>>
           c3 == c2 ## <<PRNT(bp), vp>>
<1>1. d = c3 ## <<BROS(bp), vo>>
  BY DEF Linked
<1>2. /\ c1 = c ## <<LEFT(bp), vl>> /\ c2 = c1 ## <<RIGHT(bp), vr>> /\ c3 = c2 ## <<PRNT(bp), vp>>
  OBVIOUS
<1> HIDE DEF c1, c2, c3
<1>3. Becomes(a, c1, F, t, [l EXCEPT ![bp] = vl], r, p, o)
  BY <1>2, ThenLeft
<1>4. Becomes(a, c2, F, t, [l EXCEPT ![bp] = vl], [r EXCEPT ![bp] = vr], p, o)
  BY <1>2, <1>3, ThenRight
<1>5. Becomes(a, c3, F, t, [l EXCEPT ![bp] = vl], [r EXCEPT ![bp] = vr], [p EXCEPT ![bp] = vp], o)
  BY <1>2, <1>4, ThenPar
<1> QED
  BY <1>1, <1>5, ThenBro

\* bp in the place of the node k, whose chain it heads.
LEMMA ThenChain ==
  ASSUME NEW a, NEW c, NEW F, NEW t, NEW l, NEW r, NEW p, NEW o, Becomes(a, c, F, t, l, r, p, o),
         Placed(F), NEW bp \in F, NEW k \in F,
         NEW x \in F \cup {Null}, x = l[k], NEW y \in F \cup {Null}, y = r[k], NEW q \in Word,
         NEW d, d = Chain(c, bp, k, q)
  PROVE  Becomes(a, d, F, t, [[l EXCEPT ![bp] = x] EXCEPT ![k] = bp],
                 [[r EXCEPT ![bp] = y] EXCEPT ![k] = NotFirst],
                 [[[p EXCEPT ![bp] = q] EXCEPT ![x] = bp] EXCEPT ![y] = bp], [o EXCEPT ![bp] = k])
<1>1. F \subseteq Word /\ Null \in Word /\ NotFirst \in Word
  BY PlacedWords
<1>2. x \in Word /\ y \in Word /\ bp \in Word /\ k \in Word
  BY <1>1
<1>3. Left(c, k) = x /\ Right(c, k) = y
  BY BecomesFields
<1> DEFINE c1 == Linked(c, bp, x, y, q, k)
           c2 == c1 ## Parent(x, bp)
           c3 == c2 ## Parent(y, bp)
           c4 == c3 ## <<LEFT(k), bp>>
<1>4. d = c4 ## <<RIGHT(k), NotFirst>>
  BY <1>3 DEF Chain
<1>5. /\ c1 = Linked(c, bp, x, y, q, k) /\ c2 = c1 ## Parent(x, bp) /\ c3 = c2 ## Parent(y, bp)
      /\ c4 = c3 ## <<LEFT(k), bp>>
  OBVIOUS
<1> HIDE DEF c1, c2, c3, c4
<1>6. Becomes(a, c1, F, t, [l EXCEPT ![bp] = x], [r EXCEPT ![bp] = y], [p EXCEPT ![bp] = q],
              [o EXCEPT ![bp] = k])
  BY <1>2, <1>5, ThenLinked
<1>7. Becomes(a, c2, F, t, [l EXCEPT ![bp] = x], [r EXCEPT ![bp] = y],
              [[p EXCEPT ![bp] = q] EXCEPT ![x] = bp], [o EXCEPT ![bp] = k])
  BY <1>2, <1>5, <1>6, ThenParent
<1>8. Becomes(a, c3, F, t, [l EXCEPT ![bp] = x], [r EXCEPT ![bp] = y],
              [[[p EXCEPT ![bp] = q] EXCEPT ![x] = bp] EXCEPT ![y] = bp], [o EXCEPT ![bp] = k])
  BY <1>2, <1>5, <1>7, ThenParent
<1>9. Becomes(a, c4, F, t, [[l EXCEPT ![bp] = x] EXCEPT ![k] = bp], [r EXCEPT ![bp] = y],
              [[[p EXCEPT ![bp] = q] EXCEPT ![x] = bp] EXCEPT ![y] = bp], [o EXCEPT ![bp] = k])
  BY <1>2, <1>5, <1>8, ThenLeft
<1> QED
  BY <1>1, <1>4, <1>9, ThenRight

-----------------------------------------------------------------------------
(* The tree of the blocks of G, whose links are t, l, r, p and o and whose  *)
(* sizes z. The sizes below a node n are between lo[n] and hi[n], and the   *)
(* blocks of a chain are ordered by rk.                                     *)

Top == MaxHeap \div 2

Nodes(G, r) == {b \in G : r[b] # NotFirst}

Linkage(G, t, l, r, p) ==
  /\ t \in Nodes(G, r) \cup {Null} /\ (t = Null => G = {})
  /\ \A n \in Nodes(G, r) : /\ l[n] # Null => l[n] \in Nodes(G, r) /\ l[n] # t /\ p[l[n]] = n
                            /\ r[n] # Null => r[n] \in Nodes(G, r) /\ r[n] # t /\ p[r[n]] = n
  /\ \A n \in Nodes(G, r) : n # t => p[n] \in Nodes(G, r) /\ (l[p[n]] = n \/ r[p[n]] = n)

Ordered(G, t, l, r, z, lo, hi) ==
  /\ t # Null => lo[t] = 0 /\ hi[t] = Top
  /\ \A n \in Nodes(G, r) :
       /\ lo[n] \in Nat /\ hi[n] \in Nat /\ lo[n] < z[n] /\ z[n] < hi[n] /\ hi[n] <= Top
       /\ l[n] # Null => lo[l[n]] = lo[n] /\ hi[l[n]] = z[n]
       /\ r[n] # Null => lo[r[n]] = z[n] /\ hi[r[n]] = hi[n]

Chained(G, l, r, o, z, rk) ==
  \A b \in G :
    /\ rk[b] \in Nat
    /\ b \notin Nodes(G, r) => l[b] \in G /\ o[l[b]] = b /\ z[l[b]] = z[b] /\ rk[l[b]] < rk[b]
    /\ o[b] # Null => o[b] \in G /\ o[b] \notin Nodes(G, r) /\ l[o[b]] = b

\* The blocks are no Null pointers, and their sizes fit in the arena.
Sized(G, z) == G \subseteq Int /\ Null \notin G /\ NotFirst \notin G /\ \A b \in G : z[b] \in 1 .. (Top - 1)

Child(l, r, z, n, s) == IF s < z[n] THEN l[n] ELSE IF s > z[n] THEN r[n] ELSE Null
Around(G, r, lo, hi, s) == {n \in Nodes(G, r) : lo[n] < s /\ s < hi[n]}

\* A search tree, and the way w down this tree to a size.
SearchTree(G, t, l, r, p, z, lo, hi) ==
  Linkage(G, t, l, r, p) /\ Ordered(G, t, l, r, z, lo, hi) /\ Sized(G, z)

Way(w, G, t, l, r, z, s) ==
  /\ w[0] = t
  /\ \A k \in 1 .. Top :
       w[k - 1] \in Nodes(G, r) =>
         w[k] = IF Child(l, r, z, w[k - 1], s) = Null THEN w[k - 1] ELSE Child(l, r, z, w[k - 1], s)

Tree(G, t, l, r, p, o, z, lo, hi, rk) ==
  SearchTree(G, t, l, r, p, z, lo, hi) /\ Chained(G, l, r, o, z, rk)

TreeOver(G, t, l, r, p, o, z) == \E lo, hi, rk : Tree(G, t, l, r, p, o, z, lo, hi, rk)

\* The bound of the sizes is a number.
LEMMA TopIsNat == Top \in Nat
  BY MmAssumption DEF Top

\* The size of a node lies between its bounds, which lie between 0 and the bound of all sizes.
LEMMA NodeBounds ==
  ASSUME NEW G, NEW t, NEW l, NEW r, NEW z, NEW lo, NEW hi, NEW p,
         SearchTree(G, t, l, r, p, z, lo, hi)
  PROVE  \A n \in Nodes(G, r) : /\ n \in Int /\ n # Null /\ n \in G /\ r[n] # NotFirst
                                /\ lo[n] \in Nat /\ hi[n] \in Nat /\ z[n] \in Int
                                /\ lo[n] < z[n] /\ z[n] < hi[n] /\ hi[n] <= Top
  BY DEF SearchTree, Ordered, Sized, Nodes

\* The parent of a node around a size is around it, and the node is on its way.
LEMMA PathUp ==
  ASSUME NEW G, NEW t, NEW l, NEW r, NEW p, NEW z, NEW lo, NEW hi,
         SearchTree(G, t, l, r, p, z, lo, hi),
         NEW s \in Int, NEW c \in Around(G, r, lo, hi, s), c # t
  PROVE  p[c] \in Around(G, r, lo, hi, s) /\ Child(l, r, z, p[c], s) = c
<1>1. PICK n \in Nodes(G, r) : n = p[c] /\ (l[n] = c \/ r[n] = c)
  BY DEF SearchTree, Linkage, Around
<1>2. c \in Nodes(G, r) /\ lo[c] < s /\ s < hi[c]
  BY DEF Around
<1>3. \/ l[n] = c /\ lo[c] = lo[n] /\ hi[c] = z[n]
      \/ r[n] = c /\ lo[c] = z[n] /\ hi[c] = hi[n]
  <2>1. c # Null
    BY <1>2, NodeBounds
  <2> QED
    BY <1>1, <2>1 DEF SearchTree, Ordered
<1>4. lo[n] < s /\ s < hi[n] /\ Child(l, r, z, n, s) = c
  BY <1>2, <1>3, NodeBounds DEF Child
<1> QED
  BY <1>1, <1>4 DEF Around

\* The way to a size ends at the only node that has no child on it.
LEMMA SearchPath ==
  ASSUME NEW G, NEW t, NEW l, NEW r, NEW p, NEW z, NEW lo, NEW hi,
         SearchTree(G, t, l, r, p, z, lo, hi), t # Null,
         NEW s \in 1 .. (Top - 1), NEW w, Way(w, G, t, l, r, z, s)
  PROVE  /\ w[Top] \in Around(G, r, lo, hi, s) /\ Child(l, r, z, w[Top], s) = Null
         /\ \A c \in Around(G, r, lo, hi, s) : Child(l, r, z, c, s) = Null => c = w[Top]
<1> DEFINE A == Around(G, r, lo, hi, s)
           Next1(n) == Child(l, r, z, n, s)
<1> USE TopIsNat
<1>1. t \in A
  BY DEF SearchTree, Linkage, Ordered, Around
<1>2. ASSUME NEW c \in A, Next1(c) # Null
      PROVE  /\ Next1(c) \in A /\ Next1(c) # t /\ p[Next1(c)] = c
             /\ hi[Next1(c)] - lo[Next1(c)] < hi[c] - lo[c]
  BY <1>2 DEF SearchTree, Linkage, Ordered, Around, Child, Sized, Nodes
<1>3. ASSUME NEW c \in A, c # t
      PROVE  p[c] \in A /\ Next1(p[c]) = c
  BY <1>3, PathUp
<1>4. \A c \in A : hi[c] - lo[c] \in 2 .. Top /\ hi[c] \in Nat /\ lo[c] \in Nat
  BY DEF SearchTree, Ordered, Around, Sized, Nodes
<1>w. /\ w[0] = t
      /\ \A k \in 1 .. Top : w[k - 1] \in Nodes(G, r) =>
                               w[k] = IF Next1(w[k - 1]) = Null THEN w[k - 1] ELSE Next1(w[k - 1])
  BY DEF Way
<1> HIDE DEF Next1, A
<1> DEFINE Fine(k) == w[k] \in A /\ (Next1(w[k]) # Null => k + hi[w[k]] - lo[w[k]] <= Top)
           Bad == {k \in 0 .. Top : ~Fine(k)}
<1>5. Bad = {}
  <2> SUFFICES ASSUME Bad # {} PROVE FALSE
    OBVIOUS
  <2>1. PICK k \in Bad : \A j \in Bad : k <= j
    <3>1. Bad \in SUBSET Nat
      OBVIOUS
    <3> HIDE DEF Bad
    <3> QED
      BY <3>1, LeastOfSet
  <2>2. k # 0
    BY <1>1, <1>4, <1>w, <2>1
  <2>3. k - 1 \in 0 .. Top /\ k \in 1 .. Top /\ Fine(k - 1)
    BY <2>1, <2>2
  <2>4. Fine(k)
    <3>1. w[k - 1] \in Nodes(G, r)
      BY <2>3 DEF A, Around
    <3> QED
      BY <1>2, <1>4, <1>w, <2>3, <3>1
  <2> QED
    BY <2>1, <2>4
<1>6. \A k \in 0 .. Top : Fine(k)
  BY <1>5
<1>7. w[Top] \in A /\ Next1(w[Top]) = Null
  BY <1>4, <1>6
<1> DEFINE Off == {c \in A : \A k \in 0 .. Top : w[k] # c}
<1>8. Off = {}
  <2> SUFFICES ASSUME Off # {} PROVE FALSE
    OBVIOUS
  <2> DEFINE Narrow == {Top - (hi[c] - lo[c]) : c \in Off}
  <2>1. Narrow \in SUBSET Nat /\ Narrow # {}
    BY <1>4
  <2>2. PICK c \in Off : \A d \in Off : hi[d] - lo[d] <= hi[c] - lo[c]
    <3>1. PICK v \in Narrow : \A u \in Narrow : v <= u
      <4> HIDE DEF Narrow
      <4> QED
        BY <2>1, LeastOfSet
    <3>2. PICK c \in Off : v = Top - (hi[c] - lo[c])
      BY <3>1
    <3>3. ASSUME NEW d \in Off PROVE hi[d] - lo[d] <= hi[c] - lo[c]
      <4>1. Top - (hi[c] - lo[c]) <= Top - (hi[d] - lo[d])
        BY <3>1, <3>2
      <4>2. hi[c] \in Int /\ lo[c] \in Int /\ hi[d] \in Int /\ lo[d] \in Int
        BY <1>4
      <4> QED
        BY <4>1, <4>2
    <3> QED
      BY <3>3
  <2>3. c # t /\ c \in A
    BY <1>w, <2>2
  <2>4. p[c] \in A /\ Next1(p[c]) = c
    BY <1>3, <2>3
  <2>5. c # Null
    BY <2>3 DEF A, Around, Nodes, SearchTree, Sized
  <2>6. p[c] \notin Off
    BY <1>2, <1>4, <2>2, <2>3, <2>4, <2>5
  <2>7. PICK k \in 0 .. Top : w[k] = p[c]
    BY <2>4, <2>6
  <2>8. k # Top
    BY <1>7, <2>4, <2>5, <2>7
  <2>9. k + 1 \in 1 .. Top /\ w[k + 1] = c
    <3>1. k + 1 \in 1 .. Top /\ (k + 1) - 1 = k /\ w[k] \in Nodes(G, r)
      BY <2>4, <2>7, <2>8 DEF A, Around
    <3> QED
      BY <1>w, <2>4, <2>5, <2>7, <3>1
  <2> QED
    BY <2>2, <2>9
<1>9. ASSUME NEW c \in A, Next1(c) = Null PROVE c = w[Top]
  <2>1. PICK k \in 0 .. Top : w[k] = c
    BY <1>8
  <2> DEFINE Late == {j \in k .. Top : w[j] # c}
  <2>2. Late = {}
    <3> SUFFICES ASSUME Late # {} PROVE FALSE
      OBVIOUS
    <3>1. PICK j \in Late : \A i \in Late : j <= i
      <4>1. Late \in SUBSET Nat
        OBVIOUS
      <4> HIDE DEF Late
      <4> QED
        BY <4>1, LeastOfSet
    <3>2. j \in 1 .. Top /\ j - 1 \in k .. Top /\ w[j - 1] = c
      BY <2>1, <3>1
    <3>3. c \in Nodes(G, r)
      BY DEF A, Around
    <3> QED
      BY <1>9, <1>w, <3>1, <3>2, <3>3
  <2> QED
    BY <2>2
<1> QED
  BY <1>7, <1>9 DEF A, Next1

\* The nodes around a size at which its search can end are one node.
LEMMA OneEnd ==
  ASSUME NEW G, NEW t, NEW l, NEW r, NEW p, NEW z, NEW lo, NEW hi,
         SearchTree(G, t, l, r, p, z, lo, hi),
         NEW s \in 1 .. (Top - 1),
         NEW c \in Around(G, r, lo, hi, s), Child(l, r, z, c, s) = Null,
         NEW d \in Around(G, r, lo, hi, s), Child(l, r, z, d, s) = Null
  PROVE  c = d
<1> DEFINE Go(b) == Child(l, r, z, b, s)
           next == [b \in Int |-> IF b \in Nodes(G, r) /\ Go(b) # Null THEN Go(b) ELSE b]
<1>1. next \in [Int -> Int]
  <2>1. \A b \in Nodes(G, r) : Go(b) # Null => Go(b) \in Int
    BY DEF Child, SearchTree, Linkage, Sized, Nodes
  <2> QED
    BY <2>1
<1>2. t # Null /\ t \in Int
  BY DEF SearchTree, Linkage, Around, Nodes, Sized
<1>3. PICK w : Steps(w, Int, next, t, Top)
  <2> HIDE DEF next
  <2> QED
    BY <1>1, <1>2, TopIsNat, WalkSteps
<1>4. Way(w, G, t, l, r, z, s)
  <2>1. \A k \in 1 .. Top : k - 1 \in 0 .. Top
    BY TopIsNat
  <2> QED
    BY <1>3, <2>1 DEF Way, Steps
<1> QED
  BY <1>2, <1>4, SearchPath

\* No two nodes have the same size.
LEMMA SizesDiffer ==
  ASSUME NEW G, NEW t, NEW l, NEW r, NEW p, NEW z, NEW lo, NEW hi,
         SearchTree(G, t, l, r, p, z, lo, hi),
         NEW c \in Nodes(G, r), NEW d \in Nodes(G, r), z[c] = z[d]
  PROVE  c = d
<1>1. /\ z[c] \in 1 .. (Top - 1) /\ c \in Around(G, r, lo, hi, z[c]) /\ d \in Around(G, r, lo, hi, z[c])
      /\ Child(l, r, z, c, z[c]) = Null /\ Child(l, r, z, d, z[c]) = Null
  <2>1. /\ z[c] \in Int /\ lo[c] < z[c] /\ z[c] < hi[c] /\ lo[d] < z[d] /\ z[d] < hi[d]
        /\ z[c] \in 1 .. (Top - 1)
    BY NodeBounds DEF SearchTree, Sized, Nodes
  <2> QED
    BY <2>1 DEF Around, Child
<1> QED
  BY <1>1, OneEnd

\* A node with no child on the side of d is the last one before d.
LEMMA NothingBetween ==
  ASSUME NEW G, NEW t, NEW l, NEW r, NEW p, NEW z, NEW lo, NEW hi,
         SearchTree(G, t, l, r, p, z, lo, hi),
         NEW c \in Nodes(G, r), NEW d \in Nodes(G, r), z[d] # z[c], lo[c] < z[d], z[d] < hi[c]
  PROVE  Child(l, r, z, c, z[d]) # Null
<1>1. /\ z[d] \in 1 .. (Top - 1) /\ c \in Around(G, r, lo, hi, z[d]) /\ d \in Around(G, r, lo, hi, z[d])
      /\ Child(l, r, z, d, z[d]) = Null /\ c # d
  <2>1. z[d] \in Int /\ lo[d] < z[d] /\ z[d] < hi[d] /\ z[d] \in 1 .. (Top - 1)
    BY NodeBounds DEF SearchTree, Sized, Nodes
  <2> QED
    BY <2>1 DEF Around, Child
<1> QED
  BY <1>1, OneEnd

\* The first block of a chain is the node of its size.
LEMMA ChainHasNode ==
  ASSUME NEW G, NEW l, NEW r, NEW o, NEW z, NEW rk, Chained(G, l, r, o, z, rk), NEW b \in G
  PROVE  \E n \in Nodes(G, r) : z[n] = z[b]
<1> DEFINE Ranks == {rk[k] : k \in {x \in G : z[x] = z[b]}}
<1>1. Ranks \in SUBSET Nat /\ Ranks # {}
  BY DEF Chained
<1>2. PICK k \in G : z[k] = z[b] /\ \A x \in G : z[x] = z[b] => rk[k] <= rk[x]
  <2>1. PICK v \in Ranks : \A u \in Ranks : v <= u
    <3> HIDE DEF Ranks
    <3> QED
      BY <1>1, LeastOfSet
  <2>2. PICK k \in G : z[k] = z[b] /\ rk[k] = v
    BY <2>1
  <2>3. \A x \in G : z[x] = z[b] => rk[k] <= rk[x]
    BY <2>1, <2>2
  <2> QED
    BY <2>2, <2>3
<1>3. k \in Nodes(G, r)
  <2> SUFFICES ASSUME k \notin Nodes(G, r) PROVE FALSE
    OBVIOUS
  <2>1. l[k] \in G /\ z[l[k]] = z[b] /\ rk[l[k]] < rk[k] /\ rk[k] \in Nat /\ rk[l[k]] \in Nat
    BY <1>2 DEF Chained
  <2> QED
    BY <1>2, <2>1
<1> QED
  BY <1>2, <1>3

\* The way down left children from the right child of b ends at the node of the next size.
LEMMA SuccessorPath ==
  ASSUME NEW G, NEW t, NEW l, NEW r, NEW p, NEW z, NEW lo, NEW hi,
         SearchTree(G, t, l, r, p, z, lo, hi),
         NEW b \in Nodes(G, r), r[b] # Null, NEW w, w[0] = r[b],
         \A k \in 1 .. Top :
           w[k - 1] \in Nodes(G, r) => w[k] = IF l[w[k - 1]] = Null THEN w[k - 1] ELSE l[w[k - 1]]
  PROVE  LET s == w[Top] IN
         /\ s \in Nodes(G, r) /\ s # b /\ s # t /\ l[s] = Null
         /\ lo[s] = z[b] /\ hi[s] <= hi[b]
         /\ s = r[b] \/ (s = l[p[s]] /\ p[s] # b)
         /\ \A n \in Nodes(G, r) : z[n] > z[b] => z[n] >= z[s]
<1> USE TopIsNat
<1> DEFINE N == Nodes(G, r)
           Fine(k) == LET s == w[k] IN
                        /\ s \in N /\ lo[s] = z[b] /\ hi[s] <= hi[b] /\ s # b /\ s # t
                        /\ s = r[b] \/ (s = l[p[s]] /\ p[s] # b)
                        /\ l[s] # Null => k + hi[s] - lo[s] <= Top
           Bad == {k \in 0 .. Top : ~Fine(k)}
<1>1. \A n \in N : /\ n \in Int /\ n # Null /\ lo[n] \in Nat /\ hi[n] \in Nat /\ z[n] \in Int
                   /\ lo[n] < z[n] /\ z[n] < hi[n] /\ hi[n] <= Top
  BY NodeBounds
<1>2. Bad = {}
  <2> SUFFICES ASSUME Bad # {} PROVE FALSE
    OBVIOUS
  <2>1. PICK k \in Bad : \A j \in Bad : k <= j
    <3>1. Bad \in SUBSET Nat
      OBVIOUS
    <3> HIDE DEF Bad
    <3> QED
      BY <3>1, LeastOfSet
  <2>2. k # 0
    <3>1. /\ r[b] \in N /\ r[b] # t /\ p[r[b]] = b /\ lo[r[b]] = z[b] /\ hi[r[b]] = hi[b]
      BY DEF SearchTree, Linkage, Ordered
    <3>2. Fine(0)
      BY <1>1, <3>1
    <3> QED
      BY <2>1, <3>2
  <2>3. k - 1 \in 0 .. Top /\ k \in 1 .. Top /\ Fine(k - 1)
    BY <2>1, <2>2
  <2>4. Fine(k)
    <3>1. PICK s \in N : s = w[k - 1]
      BY <2>3
    <3>2. CASE l[s] = Null
      BY <2>3, <3>1, <3>2
    <3>3. CASE l[s] # Null
      <4>1. w[k] = l[s]
        BY <2>3, <3>1, <3>3
      <4>2. /\ l[s] \in N /\ l[s] # t /\ p[l[s]] = s /\ lo[l[s]] = lo[s] /\ hi[l[s]] = z[s]
        BY <3>3 DEF SearchTree, Linkage, Ordered
      <4>3. l[s] # b
        BY <1>1, <2>3, <3>1, <4>2
      <4> QED
        BY <1>1, <2>3, <3>1, <3>3, <4>1, <4>2, <4>3
    <3> QED
      BY <3>2, <3>3
  <2> QED
    BY <2>1, <2>4
<1>3. Fine(Top)
  BY <1>2
<1>4. PICK s \in N : s = w[Top]
  BY <1>3
<1>5. l[s] = Null
  BY <1>1, <1>3, <1>4
<1>6. ASSUME NEW n \in N, z[n] > z[b], ~(z[n] >= z[s]) PROVE FALSE
  <2>1. lo[s] < z[n] /\ z[n] < z[s] /\ z[n] < hi[s] /\ z[n] # z[s]
    BY <1>1, <1>3, <1>4, <1>6
  <2>2. Child(l, r, z, s, z[n]) # Null
    BY <2>1, NothingBetween
  <2> QED
    BY <1>5, <2>1, <2>2 DEF Child
<1> QED
  BY <1>3, <1>4, <1>5, <1>6

-----------------------------------------------------------------------------
(* What delete_node does to the tree. *)

\* b leaves the inside of its chain.
Unchained(H, l, o, b, l2, o2) ==
  /\ \A n \in H : l2[n] = IF n = o[b] THEN l[b] ELSE l[n]
  /\ \A n \in H : o2[n] = IF n = l[b] THEN o[b] ELSE o[n]

\* A tree without one block inside a chain is a tree.
LEMMA TreeUnchain ==
  ASSUME NEW G, NEW t, NEW l, NEW r, NEW p, NEW o, NEW z, NEW lo, NEW hi, NEW rk,
         Tree(G, t, l, r, p, o, z, lo, hi, rk),
         NEW b \in G, b \notin Nodes(G, r), NEW H, H = G \ {b}, NEW l2, NEW o2, Unchained(H, l, o, b, l2, o2)
  PROVE  TreeOver(H, t, l2, r, p, o2, z)
<1>0. /\ \A n \in H : l2[n] = IF n = o[b] THEN l[b] ELSE l[n]
      /\ \A n \in H : o2[n] = IF n = l[b] THEN o[b] ELSE o[n]
  BY DEF Unchained
<1> USE <1>0
<1>1. Linkage(G, t, l, r, p) /\ Ordered(G, t, l, r, z, lo, hi) /\ Sized(G, z) /\ Chained(G, l, r, o, z, rk)
  BY DEF Tree, SearchTree
<1>2. Nodes(H, r) = Nodes(G, r) /\ Nodes(G, r) \subseteq H
  BY DEF Nodes
<1>3. ASSUME NEW n \in Nodes(G, r) PROVE l2[n] = l[n]
  <2>1. n # Null /\ n \in H
    BY <1>1, <1>2 DEF Sized
  <2>2. n # o[b]
    BY <1>1, <2>1 DEF Chained
  <2> QED
    BY <2>1, <2>2
<1>4. Linkage(H, t, l2, r, p)
  BY <1>1, <1>2, <1>3 DEF Linkage
<1>5. Ordered(H, t, l2, r, z, lo, hi)
  BY <1>1, <1>2, <1>3 DEF Ordered
<1>6. Sized(H, z)
  BY <1>1 DEF Sized
<1>7. Chained(H, l2, r, o2, z, rk)
  <2>1. ASSUME NEW n \in H
        PROVE  /\ rk[n] \in Nat
               /\ n \notin Nodes(H, r) => l2[n] \in H /\ o2[l2[n]] = n /\ z[l2[n]] = z[n] /\ rk[l2[n]] < rk[n]
               /\ o2[n] # Null => o2[n] \in H /\ o2[n] \notin Nodes(H, r) /\ l2[o2[n]] = n
    <3>1. /\ l[b] \in G /\ o[l[b]] = b /\ z[l[b]] = z[b] /\ rk[l[b]] < rk[b]
          /\ o[b] # Null => o[b] \in G /\ o[b] \notin Nodes(G, r) /\ l[o[b]] = b
          /\ b # Null /\ rk[b] \in Nat /\ rk[l[b]] \in Nat /\ Null \notin G
      BY <1>1 DEF Chained, Sized
    <3>2. /\ rk[n] \in Nat
          /\ n \notin Nodes(G, r) => l[n] \in G /\ o[l[n]] = n /\ z[l[n]] = z[n] /\ rk[l[n]] < rk[n]
                                     /\ rk[l[n]] \in Nat
          /\ o[n] # Null => o[n] \in G /\ o[n] \notin Nodes(G, r) /\ l[o[n]] = n
      BY <1>1 DEF Chained
    <3>3. CASE n = o[b]
      BY <1>2, <3>1, <3>2, <3>3
    <3>4. CASE n # o[b] /\ n = l[b]
      <4>1. o[b] # Null => o[o[b]] # b /\ o[b] # b
        BY <1>1, <3>1 DEF Chained
      <4> QED
        BY <1>2, <3>1, <3>2, <3>4, <4>1
    <3>5. CASE n # o[b] /\ n # l[b]
      BY <1>2, <3>1, <3>2, <3>5
    <3> QED
      BY <3>3, <3>4, <3>5
  <2> QED
    BY <2>1 DEF Chained
<1> QED
  BY <1>4, <1>5, <1>6, <1>7 DEF Tree, SearchTree, TreeOver

\* The children of a node are nodes with the bounds of their side; other nodes are children.
LEMMA NodeLinks ==
  ASSUME NEW G, NEW t, NEW l, NEW r, NEW p, NEW z, NEW lo, NEW hi, SearchTree(G, t, l, r, p, z, lo, hi),
         NEW n \in Nodes(G, r)
  PROVE  /\ l[n] # Null => /\ l[n] \in Nodes(G, r) /\ l[n] # t /\ p[l[n]] = n
                           /\ lo[l[n]] = lo[n] /\ hi[l[n]] = z[n]
         /\ r[n] # Null => /\ r[n] \in Nodes(G, r) /\ r[n] # t /\ p[r[n]] = n
                           /\ lo[r[n]] = z[n] /\ hi[r[n]] = hi[n]
         /\ n # t => p[n] \in Nodes(G, r) /\ (l[p[n]] = n \/ r[p[n]] = n)
         /\ lo[n] \in Nat /\ hi[n] \in Nat /\ lo[n] < z[n] /\ z[n] < hi[n] /\ hi[n] <= Top
         /\ n # Null /\ n \in G /\ z[n] \in Int /\ t # Null /\ t \in Nodes(G, r) /\ lo[t] = 0 /\ hi[t] = Top
  BY DEF SearchTree, Linkage, Ordered, Sized, Nodes

\* The block k after b in its chain takes the place of b.
PassedOn(H, t, l, r, p, b, k, t2, l2, r2, p2) ==
  /\ t2 = IF t = b THEN k ELSE t
  /\ \A n \in H : l2[n] = IF n = k THEN l[b] ELSE IF l[n] = b THEN k ELSE l[n]
  /\ \A n \in H : r2[n] = IF n = k THEN r[b] ELSE IF r[n] = b THEN k ELSE r[n]
  /\ \A n \in H : n # k => p2[n] = IF n = l[b] \/ n = r[b] THEN k ELSE p[n]
  /\ b # t => p2[k] = p[b]

\* A tree in which the next block of the chain replaces its first is a tree.
LEMMA TreePassOn ==
  ASSUME NEW G, NEW t, NEW l, NEW r, NEW p, NEW o, NEW z, NEW lo, NEW hi, NEW rk,
         Tree(G, t, l, r, p, o, z, lo, hi, rk),
         NEW b \in Nodes(G, r), NEW k, k = o[b], k # Null,
         NEW H, H = G \ {b}, NEW t2, NEW l2, NEW r2, NEW p2, PassedOn(H, t, l, r, p, b, k, t2, l2, r2, p2)
  PROVE  TreeOver(H, t2, l2, r2, p2, o, z)
<1>0. /\ t2 = IF t = b THEN k ELSE t
      /\ \A n \in H : l2[n] = IF n = k THEN l[b] ELSE IF l[n] = b THEN k ELSE l[n]
      /\ \A n \in H : r2[n] = IF n = k THEN r[b] ELSE IF r[n] = b THEN k ELSE r[n]
      /\ \A n \in H : n # k => p2[n] = IF n = l[b] \/ n = r[b] THEN k ELSE p[n]
      /\ b # t => p2[k] = p[b]
  BY DEF PassedOn
<1> USE <1>0
<1>1. Linkage(G, t, l, r, p) /\ Ordered(G, t, l, r, z, lo, hi) /\ Sized(G, z) /\ Chained(G, l, r, o, z, rk)
  BY DEF Tree, SearchTree
<1>2. /\ k \in H /\ k \notin Nodes(G, r) /\ l[k] = b /\ z[k] = z[b]
      /\ b # Null /\ Null \notin G /\ b # NotFirst /\ NotFirst \notin G /\ b \in G
  BY <1>1 DEF Chained, Sized, Nodes
<1> DEFINE N == Nodes(G, r)
           M == Nodes(H, r2)
           lo2 == [n \in H |-> IF n = k THEN lo[b] ELSE lo[n]]
           hi2 == [n \in H |-> IF n = k THEN hi[b] ELSE hi[n]]
<1>3. \A x : (x \in M <=> x = k \/ (x \in N /\ x # b)) /\ (x \in H <=> x \in G /\ x # b)
  BY <1>2 DEF Nodes
<1>4. ASSUME NEW n \in N
      PROVE  /\ l[n] # Null => l[n] \in N /\ l[n] # t /\ p[l[n]] = n
             /\ r[n] # Null => r[n] \in N /\ r[n] # t /\ p[r[n]] = n
             /\ n # t => p[n] \in N /\ (l[p[n]] = n \/ r[p[n]] = n)
             /\ lo[n] \in Nat /\ hi[n] \in Nat /\ lo[n] < z[n] /\ z[n] < hi[n] /\ hi[n] <= Top
             /\ l[n] # Null => lo[l[n]] = lo[n] /\ hi[l[n]] = z[n]
             /\ r[n] # Null => lo[r[n]] = z[n] /\ hi[r[n]] = hi[n]
             /\ n # Null /\ n # k /\ n \in G /\ z[n] \in Int
  BY <1>1, <1>2 DEF Linkage, Ordered, Sized, Nodes
<1>5. l[b] # b /\ r[b] # b /\ b \in N
  BY <1>2, <1>4
<1>w. ASSUME NEW n \in N, n # b
      PROVE  /\ n \in H /\ n # k /\ n \in M
             /\ l2[n] = (IF l[n] = b THEN k ELSE l[n]) /\ r2[n] = (IF r[n] = b THEN k ELSE r[n])
             /\ p2[n] = (IF n = l[b] \/ n = r[b] THEN k ELSE p[n])
  BY <1>2, <1>3, <1>4, <1>w
<1>v. l2[k] = l[b] /\ r2[k] = r[b] /\ k \in M
  BY <1>2, <1>3
<1> HIDE DEF N, M
<1>6. Linkage(H, t2, l2, r2, p2)
  <2>1. t2 \in M \cup {Null} /\ (t2 = Null => H = {})
    BY <1>1, <1>2, <1>3 DEF Linkage, N
  <2>2. ASSUME NEW n \in M, NEW x, x \in {l2[n], r2[n]}, x # Null
        PROVE  x \in M /\ x # t2 /\ p2[x] = n
    <3>1. CASE n = k
      <4>1. x \in N /\ x # t /\ p[x] = b /\ (x = l[b] \/ x = r[b]) /\ x # b
        BY <1>2, <1>4, <1>5, <1>v, <2>2, <3>1
      <4> QED
        BY <1>4, <1>w, <3>1, <4>1
    <3>2. CASE n # k
      <4>1. n \in N /\ n # b
        BY <1>3, <3>2
      <4>2. CASE (l[n] = b \/ r[n] = b) /\ x = k
        <5>1. p[b] = n /\ b # t
          BY <1>2, <1>4, <4>1, <4>2
        <5> QED
          BY <1>4, <1>v, <4>1, <4>2, <5>1, <1>1, <1>2 DEF Linkage, N
      <4>3. CASE x # k
        <5>1. (x = l[n] \/ x = r[n]) /\ x # b
          BY <1>w, <2>2, <4>1, <4>3
        <5>2. x \in N /\ x # t /\ p[x] = n
          BY <1>4, <2>2, <4>1, <5>1
        <5>3. x # l[b] /\ x # r[b]
          BY <1>4, <1>5, <2>2, <4>1, <5>2
        <5> QED
          BY <1>w, <4>3, <5>1, <5>2, <5>3
      <4> QED
        BY <1>w, <1>4, <2>2, <4>1, <4>2, <4>3
    <3> QED
      BY <3>1, <3>2
  <2>3. ASSUME NEW n \in M, n # t2
        PROVE  p2[n] \in M /\ (l2[p2[n]] = n \/ r2[p2[n]] = n)
    <3>1. CASE n = k
      <4>1. b # t /\ p2[k] = p[b]
        BY <2>3, <3>1
      <4>2. p[b] \in N /\ (l[p[b]] = b \/ r[p[b]] = b) /\ p[b] # b
        BY <1>2, <1>4, <1>5, <4>1
      <4> QED
        BY <1>w, <3>1, <4>1, <4>2
    <3>2. CASE n # k /\ (n = l[b] \/ n = r[b])
      <4>1. n \in N /\ n # b
        BY <1>3, <3>2
      <4> QED
        BY <1>v, <1>w, <3>2, <4>1
    <3>3. CASE n # k /\ n # l[b] /\ n # r[b]
      <4>1. n \in N /\ n # b /\ n # t
        BY <1>3, <2>3, <3>3
      <4>2. p2[n] = p[n] /\ p[n] \in N /\ (l[p[n]] = n \/ r[p[n]] = n)
        BY <1>4, <1>w, <3>3, <4>1
      <4>3. p[n] # b
        BY <3>3, <4>2
      <4> QED
        BY <1>w, <4>1, <4>2, <4>3
    <3> QED
      BY <3>1, <3>2, <3>3
  <2>4. \A n \in M : n # t2 => p2[n] \in M /\ (l2[p2[n]] = n \/ r2[p2[n]] = n)
    BY <2>3
  <2> QED
    BY <2>1, <2>2, <2>4 DEF Linkage, M
<1>7. Ordered(H, t2, l2, r2, z, lo2, hi2)
  <2>1. t2 # Null => lo2[t2] = 0 /\ hi2[t2] = Top
    <3>1. t # Null /\ t \in N /\ lo[t] = 0 /\ hi[t] = Top
      BY <1>1, <1>2 DEF Linkage, Ordered, N, Nodes
    <3> QED
      BY <1>2, <1>4, <3>1
  <2>2. ASSUME NEW n \in M
        PROVE  /\ lo2[n] \in Nat /\ hi2[n] \in Nat /\ lo2[n] < z[n] /\ z[n] < hi2[n] /\ hi2[n] <= Top
               /\ l2[n] # Null => lo2[l2[n]] = lo2[n] /\ hi2[l2[n]] = z[n]
               /\ r2[n] # Null => lo2[r2[n]] = z[n] /\ hi2[r2[n]] = hi2[n]
    <3>1. CASE n = k
      <4>1. l2[n] = l[b] /\ r2[n] = r[b] /\ lo2[n] = lo[b] /\ hi2[n] = hi[b]
        BY <1>2, <3>1
      <4>2. \A x \in N \ {b} : lo2[x] = lo[x] /\ hi2[x] = hi[x]
        BY <1>4
      <4> QED
        BY <1>2, <1>4, <1>5, <3>1, <4>1, <4>2
    <3>2. CASE n # k
      <4>1. n \in N /\ n # b /\ n \in H
        BY <1>3, <1>4, <3>2
      <4>2. \A x \in N \ {b} : lo2[x] = lo[x] /\ hi2[x] = hi[x]
        BY <1>4
      <4>3. lo2[k] = lo[b] /\ hi2[k] = hi[b]
        BY <1>2
      <4> HIDE DEF lo2, hi2
      <4>4. l2[n] # Null => lo2[l2[n]] = lo2[n] /\ hi2[l2[n]] = z[n]
        BY <1>2, <1>4, <3>2, <4>1, <4>2, <4>3
      <4>5. r2[n] # Null => lo2[r2[n]] = z[n] /\ hi2[r2[n]] = hi2[n]
        BY <1>2, <1>4, <3>2, <4>1, <4>2, <4>3
      <4> QED
        BY <1>4, <4>1, <4>2, <4>4, <4>5
    <3> QED
      BY <3>1, <3>2
  <2> HIDE DEF lo2, hi2
  <2> QED
    BY <2>1, <2>2 DEF Ordered, M
<1>8. Sized(H, z)
  BY <1>1 DEF Sized
<1>9. Chained(H, l2, r2, o, z, rk)
  <2>1. ASSUME NEW n \in H
        PROVE  /\ rk[n] \in Nat
               /\ n \notin M => l2[n] \in H /\ o[l2[n]] = n /\ z[l2[n]] = z[n] /\ rk[l2[n]] < rk[n]
               /\ o[n] # Null => o[n] \in H /\ o[n] \notin M /\ l2[o[n]] = n
    <3>1. /\ rk[n] \in Nat
          /\ n \notin N => l[n] \in G /\ o[l[n]] = n /\ z[l[n]] = z[n] /\ rk[l[n]] < rk[n]
          /\ o[n] # Null => o[n] \in G /\ o[n] \notin N /\ l[o[n]] = n
      BY <1>1 DEF Chained, N
    <3>2. n \notin M => l2[n] \in H /\ o[l2[n]] = n /\ z[l2[n]] = z[n] /\ rk[l2[n]] < rk[n]
      BY <1>2, <1>3, <3>1
    <3>3. o[n] # Null => o[n] \in H /\ o[n] \notin M /\ l2[o[n]] = n
      BY <1>2, <1>3, <1>5, <3>1
    <3> QED
      BY <3>1, <3>2, <3>3
  <2> QED
    BY <2>1 DEF Chained, M
<1> HIDE DEF lo2, hi2
<1> QED
  BY <1>6, <1>7, <1>8, <1>9 DEF Tree, SearchTree, TreeOver

\* A node b with at most one child gives its place to this child c.
Lifted(H, t, l, r, p, b, c, t2, l2, r2, p2) ==
  /\ t2 = IF t = b THEN c ELSE t
  /\ \A n \in H : l2[n] = IF l[n] = b THEN c ELSE l[n]
  /\ \A n \in H : r2[n] = IF r[n] = b THEN c ELSE r[n]
  /\ \A n \in H : n # c => p2[n] = p[n]
  /\ b # t /\ c # Null => p2[c] = p[b]

\* A tree in which the only child of a node replaces it is a tree.
LEMMA TreeLift ==
  ASSUME NEW G, NEW t, NEW l, NEW r, NEW p, NEW o, NEW z, NEW lo, NEW hi, NEW rk,
         Tree(G, t, l, r, p, o, z, lo, hi, rk),
         NEW b \in Nodes(G, r), o[b] = Null,
         NEW c, (l[b] = Null /\ c = r[b]) \/ (r[b] = Null /\ c = l[b]),
         NEW H, H = G \ {b}, NEW t2, NEW l2, NEW r2, NEW p2, Lifted(H, t, l, r, p, b, c, t2, l2, r2, p2)
  PROVE  TreeOver(H, t2, l2, r2, p2, o, z)
<1>0. /\ t2 = IF t = b THEN c ELSE t
      /\ \A n \in H : l2[n] = IF l[n] = b THEN c ELSE l[n]
      /\ \A n \in H : r2[n] = IF r[n] = b THEN c ELSE r[n]
      /\ \A n \in H : n # c => p2[n] = p[n]
      /\ b # t /\ c # Null => p2[c] = p[b]
  BY DEF Lifted
<1> USE <1>0
<1> DEFINE N == Nodes(G, r)
           M == Nodes(H, r2)
           lo2 == [n \in H |-> IF lo[n] = z[b] /\ l[b] = Null THEN lo[b] ELSE lo[n]]
           hi2 == [n \in H |-> IF hi[n] = z[b] /\ l[b] # Null THEN hi[b] ELSE hi[n]]
<1>1. SearchTree(G, t, l, r, p, z, lo, hi) /\ Chained(G, l, r, o, z, rk) /\ b \in N
  BY DEF Tree
<1>2. Null \notin G /\ b # NotFirst /\ NotFirst \notin G /\ b \in G /\ b # Null
  BY <1>1 DEF SearchTree, Sized, Nodes
<1>4. ASSUME NEW n \in N
      PROVE  /\ l[n] # Null => l[n] \in N /\ l[n] # t /\ p[l[n]] = n /\ lo[l[n]] = lo[n] /\ hi[l[n]] = z[n]
             /\ r[n] # Null => r[n] \in N /\ r[n] # t /\ p[r[n]] = n /\ lo[r[n]] = z[n] /\ hi[r[n]] = hi[n]
             /\ n # t => p[n] \in N /\ (l[p[n]] = n \/ r[p[n]] = n)
             /\ lo[n] \in Nat /\ hi[n] \in Nat /\ lo[n] < z[n] /\ z[n] < hi[n] /\ hi[n] <= Top
             /\ n # Null /\ n \in G /\ z[n] \in Int /\ t # Null /\ t \in N /\ lo[t] = 0 /\ hi[t] = Top
  BY <1>1, NodeLinks
<1>5. c = Null \/ (c \in N /\ c # b /\ c # t /\ p[c] = b)
  BY <1>1, <1>2, <1>4
<1>3. \A x : (x \in M <=> x \in N /\ x # b) /\ (x \in H <=> x \in G /\ x # b)
  <2>1. c # NotFirst
    BY <1>1, <1>2, <1>5 DEF N, Nodes, Null, NotFirst
  <2> QED
    BY <1>2, <2>1 DEF Nodes
<1>6. \A n \in N : n # b => z[n] # z[b]
  BY <1>1, SizesDiffer
<1>w. ASSUME NEW n \in N, n # b
      PROVE  /\ n \in H /\ n \in M
             /\ l2[n] = (IF l[n] = b THEN c ELSE l[n]) /\ r2[n] = (IF r[n] = b THEN c ELSE r[n])
             /\ n # c => p2[n] = p[n]
             /\ lo2[n] = (IF lo[n] = z[b] /\ l[b] = Null THEN lo[b] ELSE lo[n])
             /\ hi2[n] = (IF hi[n] = z[b] /\ l[b] # Null THEN hi[b] ELSE hi[n])
  BY <1>3, <1>4, <1>w
<1> HIDE DEF N, M, lo2, hi2
<1>7. t2 = Null => H = {}
  <2> SUFFICES ASSUME t2 = Null, NEW x \in H PROVE FALSE
    OBVIOUS
  <2>1. t = b /\ c = Null /\ l[b] = Null /\ r[b] = Null
    BY <1>1, <1>4, <1>5
  <2>2. PICK n \in N : z[n] = z[x]
    BY <1>1, <1>3, ChainHasNode DEF N
  <2>3. n # b
    <3> SUFFICES ASSUME n = b PROVE FALSE
      OBVIOUS
    <3>1. x \notin N
      BY <1>3, <1>6, <2>2
    <3>2. rk[x] \in Nat /\ x \in G
      BY <1>1, <1>3 DEF Chained
    <3> DEFINE Ranks == {rk[k] : k \in H}
    <3>3. Ranks \in SUBSET Nat /\ Ranks # {}
      BY <1>1, <1>3 DEF Chained
    <3>4. PICK v \in Ranks : \A u \in Ranks : v <= u
      <4> HIDE DEF Ranks
      <4> QED
        BY <3>3, LeastOfSet
    <3>5. PICK k \in H : \A j \in H : rk[k] <= rk[j]
      BY <3>4
    <3>6. PICK d \in N : z[d] = z[k]
      BY <1>1, <1>3, ChainHasNode DEF N
    <3>7. k \notin N
      <4> SUFFICES ASSUME k \in N PROVE FALSE
        OBVIOUS
      <4>1. k # b /\ z[k] # z[b] /\ lo[b] < z[k] /\ z[k] < hi[b]
        BY <1>3, <1>4, <1>6, <2>1
      <4>2. Child(l, r, z, b, z[k]) # Null
        BY <1>1, <4>1, NothingBetween DEF N
      <4> QED
        BY <2>1, <4>2 DEF Child
    <3>8. l[k] \in G /\ o[l[k]] = k /\ rk[l[k]] < rk[k] /\ rk[k] \in Nat /\ rk[l[k]] \in Nat /\ k # Null
      BY <1>1, <1>2, <1>3, <3>7 DEF Chained, N
    <3>9. l[k] # b
      BY <3>8
    <3> QED
      BY <1>3, <3>5, <3>8, <3>9
  <2>4. z[n] # z[b] /\ lo[b] < z[n] /\ z[n] < hi[b]
    BY <1>4, <1>6, <2>1, <2>3
  <2>5. Child(l, r, z, b, z[n]) # Null
    BY <1>1, <2>4, NothingBetween DEF N
  <2> QED
    BY <2>1, <2>5 DEF Child
<1>8. Linkage(H, t2, l2, r2, p2)
  <2>1. t2 \in M \cup {Null}
    BY <1>1, <1>3, <1>4, <1>5
  <2>2. ASSUME NEW n \in M, NEW x, x \in {l2[n], r2[n]}, x # Null
        PROVE  x \in M /\ x # t2 /\ p2[x] = n
    <3>1. n \in N /\ n # b
      BY <1>3
    <3>2. CASE x = c
      <4>1. (l[n] = b \/ r[n] = b) \/ (l[n] = c \/ r[n] = c)
        BY <1>w, <2>2, <3>1, <3>2
      <4>2. c \in N /\ p[c] = b /\ c # b /\ c # t
        BY <1>5, <2>2, <3>2
      <4>3. l[n] # c /\ r[n] # c
        BY <1>4, <3>1, <4>2, <2>2
      <4>4. p[b] = n /\ b # t
        BY <1>2, <1>4, <3>1, <4>1, <4>3
      <4> QED
        BY <1>3, <3>2, <4>2, <4>4, <2>2
    <3>3. CASE x # c
      <4>1. (x = l[n] \/ x = r[n]) /\ x # b
        BY <1>w, <2>2, <3>1, <3>3
      <4>2. x \in N /\ x # t /\ p[x] = n
        BY <1>4, <2>2, <3>1, <4>1
      <4> QED
        BY <1>w, <3>3, <4>1, <4>2
    <3> QED
      BY <3>2, <3>3
  <2>3. ASSUME NEW n \in M, n # t2
        PROVE  p2[n] \in M /\ (l2[p2[n]] = n \/ r2[p2[n]] = n)
    <3>1. n \in N /\ n # b
      BY <1>3
    <3>2. CASE n = c
      <4>1. b # t /\ p2[c] = p[b]
        BY <1>4, <2>3, <3>1, <3>2
      <4>2. p[b] \in N /\ (l[p[b]] = b \/ r[p[b]] = b) /\ p[b] # b
        BY <1>1, <1>2, <1>4, <1>5, <3>2, <4>1
      <4> QED
        BY <1>w, <3>2, <4>1, <4>2
    <3>3. CASE n # c
      <4>1. n # t
        BY <1>4, <2>3, <3>3, <3>1
      <4>2. p2[n] = p[n] /\ p[n] \in N /\ (l[p[n]] = n \/ r[p[n]] = n)
        BY <1>4, <1>w, <3>1, <3>3, <4>1
      <4>3. p[n] # b
        BY <1>4, <3>1, <3>3, <4>2
      <4> QED
        BY <1>w, <3>1, <4>2, <4>3
    <3> QED
      BY <3>2, <3>3
  <2>4. \A n \in M : n # t2 => p2[n] \in M /\ (l2[p2[n]] = n \/ r2[p2[n]] = n)
    BY <2>3
  <2> QED
    BY <1>7, <2>1, <2>2, <2>4 DEF Linkage, M
<1>9. Ordered(H, t2, l2, r2, z, lo2, hi2)
  <2>1. t2 # Null => lo2[t2] = 0 /\ hi2[t2] = Top
    <3>1. CASE t = b
      <4>1. c # Null => (l[b] = Null /\ lo[c] = z[b] /\ hi[c] = hi[b]) \/ (l[b] # Null /\ lo[c] = lo[b] /\ hi[c] = z[b])
        BY <1>1, <1>4
      <4> QED
        BY <1>1, <1>4, <1>5, <1>w, <3>1, <4>1
    <3>2. CASE t # b
      <4>1. z[b] \in Nat /\ z[b] # 0 /\ z[b] < Top /\ hi[t] = Top /\ lo[t] = 0 /\ t \in N /\ t2 = t /\ Top \in Nat
        BY <1>1, <1>4, <3>2, TopIsNat
      <4> QED
        BY <1>w, <3>2, <4>1
    <3> QED
      BY <3>1, <3>2
  <2>2. ASSUME NEW n \in M
        PROVE  /\ lo2[n] \in Nat /\ hi2[n] \in Nat /\ lo2[n] < z[n] /\ z[n] < hi2[n] /\ hi2[n] <= Top
               /\ l2[n] # Null => lo2[l2[n]] = lo2[n] /\ hi2[l2[n]] = z[n]
               /\ r2[n] # Null => lo2[r2[n]] = z[n] /\ hi2[r2[n]] = hi2[n]
    <3>1. n \in N /\ n # b
      BY <1>3
    <3>2. /\ lo[n] \in Nat /\ hi[n] \in Nat /\ lo[n] < z[n] /\ z[n] < hi[n] /\ hi[n] <= Top /\ z[n] \in Int
          /\ lo[b] \in Nat /\ hi[b] \in Nat /\ lo[b] < z[b] /\ z[b] < hi[b] /\ hi[b] <= Top /\ z[b] \in Int
          /\ z[n] # z[b]
      BY <1>1, <1>4, <1>6, <3>1
    <3>3. /\ lo2[n] \in Nat /\ hi2[n] \in Nat /\ lo2[n] < z[n] /\ z[n] < hi2[n] /\ hi2[n] <= Top
      BY <1>w, <3>1, <3>2
    <3>4. l2[n] # Null => lo2[l2[n]] = lo2[n] /\ hi2[l2[n]] = z[n]
      <4>1. CASE l[n] = b
        <5>1. lo[b] = lo[n] /\ hi[b] = z[n] /\ l2[n] = c
          BY <1>2, <1>4, <1>w, <3>1, <4>1
        <5>2. c # Null => (l[b] = Null /\ lo[c] = z[b] /\ hi[c] = hi[b]) \/ (l[b] # Null /\ lo[c] = lo[b] /\ hi[c] = z[b])
          BY <1>1, <1>4
        <5> QED
          BY <1>5, <1>w, <3>1, <3>2, <5>1, <5>2
      <4>2. CASE l[n] # b
        <5>1. l2[n] = l[n] /\ (l[n] # Null => l[n] \in N /\ lo[l[n]] = lo[n] /\ hi[l[n]] = z[n])
          BY <1>4, <1>w, <3>1, <4>2
        <5> QED
          BY <1>w, <3>1, <3>2, <4>2, <5>1
      <4> QED
        BY <4>1, <4>2
    <3>5. r2[n] # Null => lo2[r2[n]] = z[n] /\ hi2[r2[n]] = hi2[n]
      <4>1. CASE r[n] = b
        <5>1. lo[b] = z[n] /\ hi[b] = hi[n] /\ r2[n] = c
          BY <1>2, <1>4, <1>w, <3>1, <4>1
        <5>2. c # Null => (l[b] = Null /\ lo[c] = z[b] /\ hi[c] = hi[b]) \/ (l[b] # Null /\ lo[c] = lo[b] /\ hi[c] = z[b])
          BY <1>1, <1>4
        <5> QED
          BY <1>5, <1>w, <3>1, <3>2, <5>1, <5>2
      <4>2. CASE r[n] # b
        <5>1. r2[n] = r[n] /\ (r[n] # Null => r[n] \in N /\ lo[r[n]] = z[n] /\ hi[r[n]] = hi[n])
          BY <1>4, <1>w, <3>1, <4>2
        <5> QED
          BY <1>w, <3>1, <3>2, <4>2, <5>1
      <4> QED
        BY <4>1, <4>2
    <3> QED
      BY <3>3, <3>4, <3>5
  <2> QED
    BY <2>1, <2>2 DEF Ordered, M
<1>10. Sized(H, z)
  BY <1>1 DEF SearchTree, Sized
<1>11. Chained(H, l2, r2, o, z, rk)
  <2>1. ASSUME NEW n \in H
        PROVE  /\ rk[n] \in Nat
               /\ n \notin M => l2[n] \in H /\ o[l2[n]] = n /\ z[l2[n]] = z[n] /\ rk[l2[n]] < rk[n]
               /\ o[n] # Null => o[n] \in H /\ o[n] \notin M /\ l2[o[n]] = n
    <3>1. /\ rk[n] \in Nat /\ n # Null
          /\ n \notin N => l[n] \in G /\ o[l[n]] = n /\ z[l[n]] = z[n] /\ rk[l[n]] < rk[n]
          /\ o[n] # Null => o[n] \in G /\ o[n] \notin N /\ l[o[n]] = n
      BY <1>1, <1>2 DEF Chained, N
    <3>2. n \notin M => l2[n] \in H /\ o[l2[n]] = n /\ z[l2[n]] = z[n] /\ rk[l2[n]] < rk[n]
      BY <1>3, <3>1
    <3>3. o[n] # Null => o[n] \in H /\ o[n] \notin M /\ l2[o[n]] = n
      BY <1>1, <1>3, <3>1
    <3> QED
      BY <3>1, <3>2, <3>3
  <2> QED
    BY <2>1 DEF Chained, M
<1> QED
  BY <1>8, <1>9, <1>10, <1>11 DEF Tree, SearchTree, TreeOver

\* The links of b and of the node s of the next size.
LEMMA SuccessorLinks ==
  ASSUME NEW G, NEW t, NEW l, NEW r, NEW p, NEW z, NEW lo, NEW hi,
         SearchTree(G, t, l, r, p, z, lo, hi),
         NEW b \in Nodes(G, r), r[b] # Null,
         NEW s \in Nodes(G, r), s # b, s # t, l[s] = Null, lo[s] = z[b], s = r[b] \/ (s = l[p[s]] /\ p[s] # b)
  PROVE  LET N == Nodes(G, r)  q == p[s] IN
         /\ r[b] \in N /\ r[b] # t /\ p[r[b]] = b /\ lo[r[b]] = z[b] /\ hi[r[b]] = hi[b] /\ r[b] # b
         /\ l[b] # b /\ l[b] # s /\ l[b] # r[b]
         /\ r[s] # b /\ r[s] # s /\ r[s] # r[b] /\ (r[s] # Null => r[s] # l[b])
         /\ l[b] # Null => l[b] \in N /\ l[b] # t /\ p[l[b]] = b /\ lo[l[b]] = lo[b] /\ hi[l[b]] = z[b]
         /\ r[s] # Null => r[s] \in N /\ r[s] # t /\ p[r[s]] = s /\ lo[r[s]] = z[s] /\ hi[r[s]] = hi[s]
         /\ s # r[b] => /\ q \in N /\ q # b /\ q # s /\ l[q] = s /\ lo[q] = z[b] /\ hi[s] = z[q] /\ l[q] # b
                        /\ r[q] # b /\ r[q] # s
<1> DEFINE N == Nodes(G, r)
           q == p[s]
<1>1. b \in N /\ s \in N
  OBVIOUS
<1>2. Null \notin G /\ b # Null /\ s # Null
  BY DEF SearchTree, Sized, Nodes
<1>4. ASSUME NEW n \in N
      PROVE  /\ l[n] # Null => l[n] \in N /\ l[n] # t /\ p[l[n]] = n /\ lo[l[n]] = lo[n] /\ hi[l[n]] = z[n]
             /\ r[n] # Null => r[n] \in N /\ r[n] # t /\ p[r[n]] = n /\ lo[r[n]] = z[n] /\ hi[r[n]] = hi[n]
             /\ n # t => p[n] \in N /\ (l[p[n]] = n \/ r[p[n]] = n)
             /\ lo[n] \in Nat /\ hi[n] \in Nat /\ lo[n] < z[n] /\ z[n] < hi[n] /\ z[n] \in Int
  BY NodeLinks
<1> HIDE DEF N, q
<1>5. /\ r[b] \in N /\ r[b] # t /\ p[r[b]] = b /\ lo[r[b]] = z[b] /\ hi[r[b]] = hi[b] /\ r[b] # b
      /\ l[b] # b /\ l[b] # s /\ l[b] # r[b]
      /\ r[s] # b /\ r[s] # s /\ r[s] # r[b] /\ (r[s] # Null => r[s] # l[b])
      /\ l[b] # Null => l[b] \in N /\ l[b] # t /\ p[l[b]] = b /\ lo[l[b]] = lo[b] /\ hi[l[b]] = z[b]
      /\ r[s] # Null => r[s] \in N /\ r[s] # t /\ p[r[s]] = s /\ lo[r[s]] = z[s] /\ hi[r[s]] = hi[s]
  <2>1. /\ r[b] \in N /\ r[b] # t /\ p[r[b]] = b /\ lo[r[b]] = z[b] /\ hi[r[b]] = hi[b]
        /\ l[b] # Null => l[b] \in N /\ l[b] # t /\ p[l[b]] = b /\ lo[l[b]] = lo[b] /\ hi[l[b]] = z[b]
        /\ r[s] # Null => r[s] \in N /\ r[s] # t /\ p[r[s]] = s /\ lo[r[s]] = z[s] /\ hi[r[s]] = hi[s]
    BY <1>1, <1>4
  <2>2. /\ lo[b] \in Nat /\ hi[b] \in Nat /\ z[b] \in Int /\ lo[b] < z[b] /\ z[b] < hi[b]
        /\ lo[s] \in Nat /\ hi[s] \in Nat /\ z[s] \in Int /\ lo[s] < z[s] /\ z[s] < hi[s]
        /\ lo[s] = z[b]
    BY <1>1, <1>4
  <2> QED
    BY <1>2, <2>1, <2>2
<1>b. s # r[b] => /\ q \in N /\ q # b /\ q # s /\ l[q] = s /\ lo[q] = z[b] /\ hi[s] = z[q] /\ l[q] # b
                  /\ r[q] # b /\ r[q] # s
  <2> SUFFICES ASSUME s # r[b] PROVE /\ q \in N /\ q # b /\ q # s /\ l[q] = s /\ lo[q] = z[b]
                                     /\ hi[s] = z[q] /\ l[q] # b /\ r[q] # b /\ r[q] # s
    OBVIOUS
  <2>1. q \in N /\ q # b /\ l[q] = s
    BY <1>1, <1>4 DEF q
  <2>2. lo[s] = lo[q] /\ hi[s] = z[q]
    BY <1>2, <1>4, <2>1
  <2>3. /\ lo[b] \in Nat /\ hi[b] \in Nat /\ z[b] \in Int /\ lo[b] < z[b] /\ z[b] < hi[b]
        /\ lo[q] \in Nat /\ hi[q] \in Nat /\ z[q] \in Int /\ lo[q] < z[q] /\ z[q] < hi[q]
        /\ lo[s] \in Nat /\ hi[s] \in Nat /\ z[s] \in Int /\ lo[s] < z[s] /\ z[s] < hi[s]
    BY <1>1, <1>4, <2>1
  <2>4. r[q] # Null => lo[r[q]] = z[q]
    BY <1>4, <2>1
  <2> QED
    BY <1>2, <2>1, <2>2, <2>3, <2>4
<1> QED
  BY <1>5, <1>b DEF N, q

\* The node s of the next size takes the place of b, which has a right child.
TakenOver(H, t, l, r, p, b, s, t2, l2, r2, p2) ==
  /\ t2 = IF t = b THEN s ELSE t
  /\ \A n \in H : l2[n] = IF n = s THEN l[b] ELSE IF l[n] = b THEN s
                          ELSE IF n = p[s] THEN r[s] ELSE l[n]
  /\ \A n \in H : r2[n] = IF n = s THEN (IF s = r[b] THEN r[s] ELSE r[b])
                          ELSE IF r[n] = b THEN s ELSE r[n]
  /\ \A n \in H : n # s => p2[n] = IF n = l[b] \/ n = r[b] THEN s
                                   ELSE IF n = r[s] THEN (IF s = r[b] THEN s ELSE p[s]) ELSE p[n]
  /\ b # t => p2[s] = p[b]

\* A tree in which the successor of a node with a right child replaces it is a tree.
LEMMA TreeTakeOver ==
  ASSUME NEW G, NEW t, NEW l, NEW r, NEW p, NEW o, NEW z, NEW lo, NEW hi, NEW rk,
         Tree(G, t, l, r, p, o, z, lo, hi, rk),
         NEW b \in Nodes(G, r), o[b] = Null, r[b] # Null,
         NEW s \in Nodes(G, r), s # b, s # t, l[s] = Null, lo[s] = z[b], hi[s] <= hi[b],
         s = r[b] \/ (s = l[p[s]] /\ p[s] # b), \A n \in Nodes(G, r) : z[n] > z[b] => z[n] >= z[s],
         NEW H, H = G \ {b}, NEW t2, NEW l2, NEW r2, NEW p2, TakenOver(H, t, l, r, p, b, s, t2, l2, r2, p2)
  PROVE  TreeOver(H, t2, l2, r2, p2, o, z)
<1>0. /\ t2 = IF t = b THEN s ELSE t
      /\ \A n \in H : l2[n] = IF n = s THEN l[b] ELSE IF l[n] = b THEN s
                              ELSE IF n = p[s] THEN r[s] ELSE l[n]
      /\ \A n \in H : r2[n] = IF n = s THEN (IF s = r[b] THEN r[s] ELSE r[b])
                              ELSE IF r[n] = b THEN s ELSE r[n]
      /\ \A n \in H : n # s => p2[n] = IF n = l[b] \/ n = r[b] THEN s
                                       ELSE IF n = r[s] THEN (IF s = r[b] THEN s ELSE p[s]) ELSE p[n]
      /\ b # t => p2[s] = p[b]
  BY DEF TakenOver
<1> USE <1>0
<1> DEFINE N == Nodes(G, r)
           M == Nodes(H, r2)
           q == p[s]
           lo2 == [n \in H |-> IF n = s THEN lo[b] ELSE IF lo[n] = z[b] THEN z[s] ELSE lo[n]]
           hi2 == [n \in H |-> IF n = s THEN hi[b] ELSE IF hi[n] = z[b] THEN z[s] ELSE hi[n]]
<1>1. SearchTree(G, t, l, r, p, z, lo, hi) /\ Chained(G, l, r, o, z, rk) /\ b \in N /\ s \in N
  BY DEF Tree
<1>2. Null \notin G /\ b # NotFirst /\ NotFirst \notin G /\ b \in G /\ b # Null /\ s \in G /\ s # Null
  BY <1>1 DEF SearchTree, Sized, Nodes
<1>4. ASSUME NEW n \in N
      PROVE  /\ l[n] # Null => l[n] \in N /\ l[n] # t /\ p[l[n]] = n /\ lo[l[n]] = lo[n] /\ hi[l[n]] = z[n]
             /\ r[n] # Null => r[n] \in N /\ r[n] # t /\ p[r[n]] = n /\ lo[r[n]] = z[n] /\ hi[r[n]] = hi[n]
             /\ n # t => p[n] \in N /\ (l[p[n]] = n \/ r[p[n]] = n)
             /\ lo[n] \in Nat /\ hi[n] \in Nat /\ lo[n] < z[n] /\ z[n] < hi[n] /\ hi[n] <= Top
             /\ n # Null /\ n \in G /\ z[n] \in Int /\ t # Null /\ t \in N /\ lo[t] = 0 /\ hi[t] = Top
  BY <1>1, NodeLinks
<1>6. \A n \in N : n # b => z[n] # z[b]
  BY <1>1, SizesDiffer
<1>a. \A n \in N : n # s => z[n] # z[s]
  BY <1>1, SizesDiffer
<1>5. /\ r[b] \in N /\ r[b] # t /\ p[r[b]] = b /\ lo[r[b]] = z[b] /\ hi[r[b]] = hi[b] /\ r[b] # b
      /\ l[b] # b /\ l[b] # s /\ l[b] # r[b]
      /\ r[s] # b /\ r[s] # s /\ r[s] # r[b] /\ (r[s] # Null => r[s] # l[b])
      /\ l[b] # Null => l[b] \in N /\ l[b] # t /\ p[l[b]] = b /\ lo[l[b]] = lo[b] /\ hi[l[b]] = z[b]
      /\ r[s] # Null => r[s] \in N /\ r[s] # t /\ p[r[s]] = s /\ lo[r[s]] = z[s] /\ hi[r[s]] = hi[s]
      /\ s # r[b] => /\ q \in N /\ q # b /\ q # s /\ l[q] = s /\ lo[q] = z[b] /\ hi[s] = z[q] /\ l[q] # b
                     /\ r[q] # b /\ r[q] # s
  BY <1>1, SuccessorLinks
<1>b. s # r[b] => /\ q \in N /\ q # b /\ q # s /\ l[q] = s /\ lo[q] = z[b] /\ hi[s] = z[q] /\ l[q] # b
                  /\ r[q] # b /\ r[q] # s
  BY <1>5
<1> HIDE DEF N, M, lo2, hi2, q
<1>3. \A x : (x \in M <=> x \in N /\ x # b) /\ (x \in H <=> x \in G /\ x # b)
  <2>1. s # NotFirst /\ r[s] # NotFirst /\ r[b] # NotFirst
    BY <1>1, <1>2 DEF N, Nodes
  <2>2. \A x : x \in H <=> x \in G /\ x # b
    OBVIOUS
  <2>3. \A x \in H : r2[x] = NotFirst <=> r[x] = NotFirst
    BY <1>2, <2>1
  <2> QED
    BY <2>2, <2>3 DEF M, N, Nodes
<1>w. ASSUME NEW n \in N, n # b, n # s
      PROVE  /\ n \in H /\ n \in M
             /\ l2[n] = (IF l[n] = b THEN s ELSE IF n = q THEN r[s] ELSE l[n])
             /\ r2[n] = (IF r[n] = b THEN s ELSE r[n])
             /\ p2[n] = (IF n = l[b] \/ n = r[b] THEN s
                         ELSE IF n = r[s] THEN (IF s = r[b] THEN s ELSE q) ELSE p[n])
             /\ lo2[n] = (IF lo[n] = z[b] THEN z[s] ELSE lo[n])
             /\ hi2[n] = (IF hi[n] = z[b] THEN z[s] ELSE hi[n])
  <2>1. n \in H /\ n \in M
    BY <1>3, <1>4, <1>w
  <2> QED
    BY <1>w, <2>1 DEF q, lo2, hi2
<1>v. /\ s \in M /\ s \in H /\ l2[s] = l[b] /\ r2[s] = (IF s = r[b] THEN r[s] ELSE r[b])
      /\ lo2[s] = lo[b] /\ hi2[s] = hi[b]
  BY <1>1, <1>2, <1>3 DEF lo2, hi2
<1>8. Linkage(H, t2, l2, r2, p2)
  <2>1. t2 \in M \cup {Null} /\ t2 # Null
    BY <1>1, <1>2, <1>3, <1>4
  <2>2. ASSUME NEW n \in M, NEW x, x \in {l2[n], r2[n]}, x # Null
        PROVE  x \in M /\ x # t2 /\ p2[x] = n
    <3>1. n \in N /\ n # b
      BY <1>3
    <3>2. CASE n = s
      <4>1. x = l[b] \/ (s = r[b] /\ x = r[s]) \/ (s # r[b] /\ x = r[b])
        BY <1>v, <2>2, <3>2
      <4>2. x \in N /\ x # b /\ x # t /\ x # s
        BY <1>5, <2>2, <4>1
      <4> QED
        BY <1>5, <1>w, <3>2, <4>1, <4>2
    <3>3. CASE n # s /\ x = s
      <4>1. l[n] = b \/ r[n] = b \/ (n = q /\ r[s] = s) \/ (n # q /\ l[n] = s) \/ r[n] = s
        BY <1>w, <2>2, <3>1, <3>3
      <4>2. l[n] = b \/ r[n] = b
        <5>1. r[n] = s => n = q /\ s = r[b]
          BY <1>2, <1>4, <1>b, <3>1 DEF q
        <5>2. l[n] = s => n = q
          BY <1>2, <1>4, <3>1 DEF q
        <5>3. s = r[b] => q = b
          BY <1>5 DEF q
        <5> QED
          BY <1>5, <3>1, <4>1, <5>1, <5>2, <5>3
      <4>3. p[b] = n /\ b # t
        BY <1>2, <1>4, <3>1, <4>2
      <4> QED
        BY <1>v, <3>3, <4>3
    <3>4. CASE n # s /\ x # s
      <4>1. x # b /\ (x = l[n] \/ x = r[n] \/ (n = q /\ x = r[s]))
        BY <1>w, <2>2, <3>1, <3>4, <1>5
      <4>2. CASE n = q /\ x = r[s]
        <5>1. s # r[b]
          BY <1>5, <3>1, <4>2 DEF q
        <5>2. x \in N /\ x # t /\ x # l[b] /\ x # r[b]
          BY <1>5, <2>2, <4>2
        <5> QED
          BY <1>w, <3>4, <4>1, <4>2, <5>1, <5>2
      <4>3. CASE ~(n = q /\ x = r[s])
        <5>1. x \in N /\ x # t /\ p[x] = n
          BY <1>4, <2>2, <3>1, <4>1, <4>3
        <5>2. x # l[b] /\ x # r[b] /\ x # r[s]
          BY <1>5, <2>2, <3>1, <3>4, <5>1
        <5> QED
          BY <1>w, <3>4, <4>1, <5>1, <5>2
      <4> QED
        BY <4>2, <4>3
    <3> QED
      BY <3>2, <3>3, <3>4
  <2>3. ASSUME NEW n \in M, n # t2
        PROVE  p2[n] \in M /\ (l2[p2[n]] = n \/ r2[p2[n]] = n)
    <3>1. n \in N /\ n # b
      BY <1>3
    <3>2. CASE n = s
      <4>1. b # t /\ p2[s] = p[b]
        BY <2>3, <3>2
      <4>2. p[b] \in N /\ (l[p[b]] = b \/ r[p[b]] = b)
        BY <1>1, <1>4, <4>1
      <4>3. p[b] # b /\ p[b] # s
        BY <1>2, <1>5, <4>2
      <4> QED
        BY <1>w, <3>2, <4>1, <4>2, <4>3
    <3>3. CASE n # s /\ (n = l[b] \/ n = r[b])
      <4>1. p2[n] = s
        BY <1>w, <3>1, <3>3
      <4> QED
        BY <1>v, <3>3, <4>1
    <3>4. CASE n # s /\ n # l[b] /\ n # r[b] /\ n = r[s]
      <4>1. p2[n] = IF s = r[b] THEN s ELSE q
        BY <1>w, <3>1, <3>4
      <4>2. CASE s = r[b]
        BY <1>v, <3>4, <4>1, <4>2
      <4>3. CASE s # r[b]
        BY <1>b, <1>w, <3>4, <4>1, <4>3
      <4> QED
        BY <4>2, <4>3
    <3>5. CASE n # s /\ n # l[b] /\ n # r[b] /\ n # r[s]
      <4>1. n # t
        BY <2>3, <3>1
      <4>2. p2[n] = p[n] /\ p[n] \in N /\ (l[p[n]] = n \/ r[p[n]] = n)
        BY <1>4, <1>w, <3>1, <3>5, <4>1
      <4>3. p[n] # b /\ p[n] # s
        BY <1>4, <3>1, <3>5, <4>2
      <4>4. p[n] = q /\ l[p[n]] = n => FALSE
        BY <1>b, <3>5, <4>3, <1>5 DEF q
      <4> QED
        BY <1>w, <3>1, <4>2, <4>3, <4>4
    <3> QED
      BY <3>2, <3>3, <3>4, <3>5
  <2>4. \A n \in M : n # t2 => p2[n] \in M /\ (l2[p2[n]] = n \/ r2[p2[n]] = n)
    BY <2>3
  <2> QED
    BY <2>1, <2>2, <2>4 DEF Linkage, M
<1>9. Ordered(H, t2, l2, r2, z, lo2, hi2)
  <2>1. lo2[t2] = 0 /\ hi2[t2] = Top
    <3>1. CASE t = b
      BY <1>1, <1>4, <1>v, <3>1
    <3>2. CASE t # b
      <4>1. z[b] \in Nat /\ z[b] # 0 /\ z[b] < Top /\ hi[t] = Top /\ lo[t] = 0 /\ t \in N /\ t2 = t /\ Top \in Nat
        BY <1>1, <1>4, <3>2, TopIsNat
      <4> QED
        BY <1>w, <3>2, <4>1
    <3> QED
      BY <3>1, <3>2
  <2>0. /\ lo[b] \in Nat /\ hi[b] \in Nat /\ lo[b] < z[b] /\ z[b] < hi[b] /\ hi[b] <= Top /\ z[b] \in Int
        /\ lo[s] \in Nat /\ hi[s] \in Nat /\ lo[s] < z[s] /\ z[s] < hi[s] /\ hi[s] <= Top /\ z[s] \in Int
        /\ lo[s] = z[b] /\ hi[s] <= hi[b] /\ Top \in Nat
    BY <1>1, <1>4, TopIsNat
  <2>2. ASSUME NEW n \in M
        PROVE  /\ lo2[n] \in Nat /\ hi2[n] \in Nat /\ lo2[n] < z[n] /\ z[n] < hi2[n] /\ hi2[n] <= Top
               /\ l2[n] # Null => lo2[l2[n]] = lo2[n] /\ hi2[l2[n]] = z[n]
               /\ r2[n] # Null => lo2[r2[n]] = z[n] /\ hi2[r2[n]] = hi2[n]
    <3>1. n \in N /\ n # b
      BY <1>3
    <3>2. /\ lo[n] \in Nat /\ hi[n] \in Nat /\ lo[n] < z[n] /\ z[n] < hi[n] /\ hi[n] <= Top /\ z[n] \in Int
          /\ z[n] # z[b] /\ (n # s => z[n] # z[s]) /\ (z[n] > z[b] => z[n] >= z[s])
      BY <1>1, <1>4, <1>6, <1>a, <3>1 DEF N
    <3>3. /\ lo2[n] \in Nat /\ hi2[n] \in Nat /\ lo2[n] < z[n] /\ z[n] < hi2[n] /\ hi2[n] <= Top
      <4>1. CASE n = s
        BY <1>v, <2>0, <4>1
      <4>2. CASE n # s
        BY <1>w, <2>0, <3>1, <3>2, <4>2
      <4> QED
        BY <4>1, <4>2
    <3>4. CASE n = s
      <4>1. l2[n] # Null => lo2[l2[n]] = lo2[n] /\ hi2[l2[n]] = z[n]
        BY <1>5, <1>v, <1>w, <2>0, <3>4
      <4>2. r2[n] # Null => lo2[r2[n]] = z[n] /\ hi2[r2[n]] = hi2[n]
        <5>1. CASE s = r[b]
          BY <1>5, <1>v, <1>w, <2>0, <3>4, <5>1
        <5>2. CASE s # r[b]
          BY <1>5, <1>v, <1>w, <2>0, <3>4, <5>2
        <5> QED
          BY <5>1, <5>2
      <4> QED
        BY <3>3, <4>1, <4>2
    <3>5. CASE n # s
      <4>0. /\ lo2[n] = (IF lo[n] = z[b] THEN z[s] ELSE lo[n])
            /\ hi2[n] = (IF hi[n] = z[b] THEN z[s] ELSE hi[n])
        BY <1>w, <3>1, <3>5
      <4>1. l2[n] # Null => lo2[l2[n]] = lo2[n] /\ hi2[l2[n]] = z[n]
        <5>1. CASE l[n] = b
          <6>1. lo[b] = lo[n] /\ hi[b] = z[n] /\ l2[n] = s
            BY <1>2, <1>4, <1>w, <3>1, <3>5, <5>1
          <6> QED
            BY <1>v, <2>0, <3>2, <4>0, <6>1
        <5>2. CASE l[n] # b /\ n = q
          <6>1. s # r[b]
            BY <1>5, <3>1, <5>2 DEF q
          <6>2. lo[n] = z[b] /\ hi[s] = z[n] /\ l2[n] = r[s]
            BY <1>b, <1>w, <3>1, <3>5, <5>2, <6>1
          <6> QED
            BY <1>5, <1>w, <2>0, <3>2, <4>0, <6>2
        <5>3. CASE l[n] # b /\ n # q
          <6>1. l2[n] = l[n] /\ (l[n] # Null => l[n] \in N /\ lo[l[n]] = lo[n] /\ hi[l[n]] = z[n] /\ p[l[n]] = n)
            BY <1>4, <1>w, <3>1, <3>5, <5>3
          <6>2. l[n] # s
            BY <1>2, <5>3, <6>1 DEF q
          <6> QED
            BY <1>w, <2>0, <3>2, <4>0, <5>3, <6>1, <6>2
        <5> QED
          BY <5>1, <5>2, <5>3
      <4>2. r2[n] # Null => lo2[r2[n]] = z[n] /\ hi2[r2[n]] = hi2[n]
        <5>1. CASE r[n] = b
          <6>1. lo[b] = z[n] /\ hi[b] = hi[n] /\ r2[n] = s
            BY <1>2, <1>4, <1>w, <3>1, <3>5, <5>1
          <6> QED
            BY <1>v, <2>0, <3>2, <4>0, <6>1
        <5>2. CASE r[n] # b
          <6>1. r2[n] = r[n] /\ (r[n] # Null => r[n] \in N /\ lo[r[n]] = z[n] /\ hi[r[n]] = hi[n] /\ p[r[n]] = n)
            BY <1>4, <1>w, <3>1, <3>5, <5>2
          <6>2. r[n] # s
            BY <1>2, <1>5, <1>b, <3>1, <6>1 DEF q
          <6> QED
            BY <1>w, <2>0, <3>2, <4>0, <5>2, <6>1, <6>2
        <5> QED
          BY <5>1, <5>2
      <4> QED
        BY <3>3, <4>1, <4>2
    <3> QED
      BY <3>4, <3>5
  <2> QED
    BY <2>1, <2>2 DEF Ordered, M
<1>10. Sized(H, z)
  BY <1>1 DEF SearchTree, Sized
<1>11. Chained(H, l2, r2, o, z, rk)
  <2>1. ASSUME NEW n \in H
        PROVE  /\ rk[n] \in Nat
               /\ n \notin M => l2[n] \in H /\ o[l2[n]] = n /\ z[l2[n]] = z[n] /\ rk[l2[n]] < rk[n]
               /\ o[n] # Null => o[n] \in H /\ o[n] \notin M /\ l2[o[n]] = n
    <3>1. /\ rk[n] \in Nat /\ n # Null
          /\ n \notin N => l[n] \in G /\ o[l[n]] = n /\ z[l[n]] = z[n] /\ rk[l[n]] < rk[n]
          /\ o[n] # Null => o[n] \in G /\ o[n] \notin N /\ l[o[n]] = n
      BY <1>1, <1>2 DEF Chained, N
    <3>2. \A x \in H : x \notin N => l2[x] = IF l[x] = b THEN s ELSE l[x]
      <4>1. q \in N
        BY <1>1, <1>4 DEF q
      <4> QED
        BY <1>1, <4>1 DEF q
    <3>3. n \notin M => l2[n] \in H /\ o[l2[n]] = n /\ z[l2[n]] = z[n] /\ rk[l2[n]] < rk[n]
      BY <1>3, <3>1, <3>2
    <3>4. o[n] # Null => o[n] \in H /\ o[n] \notin M /\ l2[o[n]] = n
      BY <1>1, <1>3, <3>1, <3>2
    <3> QED
      BY <3>1, <3>3, <3>4
  <2> QED
    BY <2>1 DEF Chained, M
<1> QED
  BY <1>8, <1>9, <1>10, <1>11 DEF Tree, SearchTree, TreeOver

-----------------------------------------------------------------------------
(* What add_node does to the tree. *)

\* One block is a tree.
LEMMA TreeFirst ==
  ASSUME NEW b \in Int, b # Null, b # NotFirst, NEW l, NEW r, NEW p, NEW o, NEW z, z[b] \in 1 .. (Top - 1),
         l[b] = Null, r[b] = Null, o[b] = Null
  PROVE  TreeOver({b}, b, l, r, p, o, z)
<1> DEFINE lo == [n \in {b} |-> 0]
           hi == [n \in {b} |-> Top]
<1>1. Nodes({b}, r) = {b}
  BY DEF Nodes, Null, NotFirst
<1>2. Linkage({b}, b, l, r, p)
  BY <1>1 DEF Linkage
<1>3. Ordered({b}, b, l, r, z, lo, hi)
  <2>1. lo[b] = 0 /\ hi[b] = Top /\ z[b] \in Int /\ 0 < z[b] /\ z[b] < Top /\ Top \in Nat
    BY TopIsNat
  <2> HIDE DEF lo, hi
  <2> QED
    BY <1>1, <2>1 DEF Ordered
<1>4. Chained({b}, l, r, o, z, lo)
  BY <1>1 DEF Chained
<1>5. Sized({b}, z)
  BY DEF Sized
<1> QED
  BY <1>2, <1>3, <1>4, <1>5 DEF Tree, SearchTree, TreeOver

\* b becomes a child of the node e.
Leafed(H, l, r, p, o, z, b, e, l2, r2, p2, o2) ==
  /\ \A n \in H : l2[n] = IF n = b THEN Null ELSE IF n = e /\ z[b] < z[e] THEN b ELSE l[n]
  /\ \A n \in H : r2[n] = IF n = b THEN Null ELSE IF n = e /\ z[b] > z[e] THEN b ELSE r[n]
  /\ \A n \in H : p2[n] = IF n = b THEN e ELSE p[n]
  /\ \A n \in H : o2[n] = IF n = b THEN Null ELSE o[n]

\* A tree with a new leaf, where the search for its size ends, is a tree.
LEMMA TreeLeaf ==
  ASSUME NEW G, NEW t, NEW l, NEW r, NEW p, NEW o, NEW z, NEW lo, NEW hi, NEW rk,
         Tree(G, t, l, r, p, o, z, lo, hi, rk),
         NEW b \in Int, b \notin G, b # Null, b # NotFirst, z[b] \in 1 .. (Top - 1),
         NEW e \in Nodes(G, r), lo[e] < z[b], z[b] < hi[e], z[b] # z[e], Child(l, r, z, e, z[b]) = Null,
         NEW H, H = G \cup {b}, NEW l2, NEW r2, NEW p2, NEW o2, Leafed(H, l, r, p, o, z, b, e, l2, r2, p2, o2)
  PROVE  TreeOver(H, t, l2, r2, p2, o2, z)
<1>0. /\ \A n \in H : l2[n] = IF n = b THEN Null ELSE IF n = e /\ z[b] < z[e] THEN b ELSE l[n]
      /\ \A n \in H : r2[n] = IF n = b THEN Null ELSE IF n = e /\ z[b] > z[e] THEN b ELSE r[n]
      /\ \A n \in H : p2[n] = IF n = b THEN e ELSE p[n]
      /\ \A n \in H : o2[n] = IF n = b THEN Null ELSE o[n]
  BY DEF Leafed
<1> USE <1>0
<1> DEFINE N == Nodes(G, r)
           M == Nodes(H, r2)
           lo2 == [n \in H |-> IF n = b THEN (IF z[b] < z[e] THEN lo[e] ELSE z[e]) ELSE lo[n]]
           hi2 == [n \in H |-> IF n = b THEN (IF z[b] < z[e] THEN z[e] ELSE hi[e]) ELSE hi[n]]
           rk2 == [n \in H |-> IF n = b THEN 0 ELSE rk[n]]
<1>1. SearchTree(G, t, l, r, p, z, lo, hi) /\ Chained(G, l, r, o, z, rk) /\ e \in N
  BY DEF Tree
<1>2. Null \notin G /\ NotFirst \notin G /\ e \in G /\ Null # NotFirst
  BY <1>1 DEF SearchTree, Sized, Nodes, Null, NotFirst
<1>3. \A x : (x \in M <=> x \in N \/ x = b) /\ (x \in H <=> x \in G \/ x = b)
  BY <1>1, <1>2 DEF Nodes
<1>4. ASSUME NEW n \in N
      PROVE  /\ l[n] # Null => l[n] \in N /\ l[n] # t /\ p[l[n]] = n /\ lo[l[n]] = lo[n] /\ hi[l[n]] = z[n]
             /\ r[n] # Null => r[n] \in N /\ r[n] # t /\ p[r[n]] = n /\ lo[r[n]] = z[n] /\ hi[r[n]] = hi[n]
             /\ n # t => p[n] \in N /\ (l[p[n]] = n \/ r[p[n]] = n)
             /\ lo[n] \in Nat /\ hi[n] \in Nat /\ lo[n] < z[n] /\ z[n] < hi[n] /\ hi[n] <= Top
             /\ n # Null /\ n \in G /\ z[n] \in Int /\ t # Null /\ t \in N /\ lo[t] = 0 /\ hi[t] = Top
  BY <1>1, NodeLinks
<1>5. (z[b] < z[e] /\ l[e] = Null) \/ (z[b] > z[e] /\ r[e] = Null)
  BY <1>1, <1>4 DEF Child
<1>w. ASSUME NEW n \in N
      PROVE  /\ n \in H /\ n \in M /\ n # b
             /\ l2[n] = (IF n = e /\ z[b] < z[e] THEN b ELSE l[n])
             /\ r2[n] = (IF n = e /\ z[b] > z[e] THEN b ELSE r[n])
             /\ p2[n] = p[n] /\ lo2[n] = lo[n] /\ hi2[n] = hi[n]
  BY <1>3, <1>4
<1>v. /\ b \in H /\ b \in M /\ l2[b] = Null /\ r2[b] = Null /\ p2[b] = e
      /\ lo2[b] = (IF z[b] < z[e] THEN lo[e] ELSE z[e]) /\ hi2[b] = (IF z[b] < z[e] THEN z[e] ELSE hi[e])
  BY <1>3
<1> HIDE DEF N, M, lo2, hi2
<1>6. Linkage(H, t, l2, r2, p2)
  <2>1. t \in M /\ t # Null /\ t # b
    BY <1>1, <1>3, <1>4, <1>w
  <2>2. ASSUME NEW n \in M, NEW x, x \in {l2[n], r2[n]}, x # Null
        PROVE  x \in M /\ x # t /\ p2[x] = n
    <3>1. n \in N
      BY <1>3, <1>v, <2>2
    <3>2. CASE x = b
      <4>1. n = e
        BY <1>w, <1>4, <2>2, <3>1, <3>2
      <4> QED
        BY <1>v, <2>1, <3>2, <4>1
    <3>3. CASE x # b
      <4>1. x = l[n] \/ x = r[n]
        BY <1>w, <2>2, <3>1, <3>3
      <4>2. x \in N /\ x # t /\ p[x] = n
        BY <1>4, <2>2, <3>1, <4>1
      <4> QED
        BY <1>w, <4>2
    <3> QED
      BY <3>2, <3>3
  <2>3. ASSUME NEW n \in M, n # t
        PROVE  p2[n] \in M /\ (l2[p2[n]] = n \/ r2[p2[n]] = n)
    <3>1. CASE n = b
      BY <1>1, <1>5, <1>v, <1>w, <3>1
    <3>2. CASE n # b
      <4>1. n \in N
        BY <1>3, <3>2
      <4>2. p2[n] = p[n] /\ p[n] \in N /\ (l[p[n]] = n \/ r[p[n]] = n) /\ n # Null
        BY <1>4, <1>w, <2>3, <4>1
      <4> QED
        BY <1>1, <1>4, <1>5, <1>w, <4>2
    <3> QED
      BY <3>1, <3>2
  <2>4. \A n \in M : n # t => p2[n] \in M /\ (l2[p2[n]] = n \/ r2[p2[n]] = n)
    BY <2>3
  <2> QED
    BY <2>1, <2>2, <2>4 DEF Linkage, M
<1>7. Ordered(H, t, l2, r2, z, lo2, hi2)
  <2>1. lo2[t] = 0 /\ hi2[t] = Top
    BY <1>1, <1>4, <1>w
  <2>2. ASSUME NEW n \in M
        PROVE  /\ lo2[n] \in Nat /\ hi2[n] \in Nat /\ lo2[n] < z[n] /\ z[n] < hi2[n] /\ hi2[n] <= Top
               /\ l2[n] # Null => lo2[l2[n]] = lo2[n] /\ hi2[l2[n]] = z[n]
               /\ r2[n] # Null => lo2[r2[n]] = z[n] /\ hi2[r2[n]] = hi2[n]
    <3>0. /\ lo[e] \in Nat /\ hi[e] \in Nat /\ lo[e] < z[e] /\ z[e] < hi[e] /\ hi[e] <= Top /\ z[e] \in Int
          /\ z[b] \in Nat
      BY <1>1, <1>4, TopIsNat
    <3>1. CASE n = b
      <4>1. lo2[b] \in Nat /\ hi2[b] \in Nat /\ lo2[b] < z[b] /\ z[b] < hi2[b] /\ hi2[b] <= Top
        BY <1>v, <3>0, TopIsNat
      <4> QED
        BY <1>v, <3>1, <4>1
    <3>2. CASE n # b
      <4>1. n \in N
        BY <1>3, <3>2
      <4>2. lo2[n] \in Nat /\ hi2[n] \in Nat /\ lo2[n] < z[n] /\ z[n] < hi2[n] /\ hi2[n] <= Top
        BY <1>4, <1>w, <4>1
      <4>3. l2[n] # Null => lo2[l2[n]] = lo2[n] /\ hi2[l2[n]] = z[n]
        <5>1. CASE n = e /\ z[b] < z[e]
          BY <1>v, <1>w, <3>0, <4>1, <5>1
        <5>2. CASE ~(n = e /\ z[b] < z[e])
          BY <1>4, <1>w, <4>1, <5>2
        <5> QED
          BY <5>1, <5>2
      <4>4. r2[n] # Null => lo2[r2[n]] = z[n] /\ hi2[r2[n]] = hi2[n]
        <5>1. CASE n = e /\ z[b] > z[e]
          BY <1>v, <1>w, <3>0, <4>1, <5>1
        <5>2. CASE ~(n = e /\ z[b] > z[e])
          BY <1>4, <1>w, <4>1, <5>2
        <5> QED
          BY <5>1, <5>2
      <4> QED
        BY <4>2, <4>3, <4>4
    <3> QED
      BY <3>1, <3>2
  <2> QED
    BY <2>1, <2>2 DEF Ordered, M
<1>8. Sized(H, z)
  BY <1>1 DEF SearchTree, Sized
<1>9. Chained(H, l2, r2, o2, z, rk2)
  <2>1. ASSUME NEW n \in H
        PROVE  /\ rk2[n] \in Nat
               /\ n \notin M => l2[n] \in H /\ o2[l2[n]] = n /\ z[l2[n]] = z[n] /\ rk2[l2[n]] < rk2[n]
               /\ o2[n] # Null => o2[n] \in H /\ o2[n] \notin M /\ l2[o2[n]] = n
    <3>1. CASE n = b
      BY <1>v, <3>1
    <3>2. CASE n # b
      <4>1. /\ rk[n] \in Nat /\ n \in G
            /\ n \notin N => l[n] \in G /\ o[l[n]] = n /\ z[l[n]] = z[n] /\ rk[l[n]] < rk[n]
            /\ o[n] # Null => o[n] \in G /\ o[n] \notin N /\ l[o[n]] = n
        BY <1>1, <1>3, <3>2 DEF Chained, N
      <4>2. n \notin M => l2[n] \in H /\ o2[l2[n]] = n /\ z[l2[n]] = z[n] /\ rk2[l2[n]] < rk2[n]
        BY <1>1, <1>3, <3>2, <4>1
      <4>3. o2[n] # Null => o2[n] \in H /\ o2[n] \notin M /\ l2[o2[n]] = n
        BY <1>1, <1>3, <3>2, <4>1
      <4> QED
        BY <3>2, <4>1, <4>2, <4>3
    <3> QED
      BY <3>1, <3>2
  <2> HIDE DEF rk2
  <2> QED
    BY <2>1 DEF Chained, M
<1> HIDE DEF rk2
<1> QED
  BY <1>6, <1>7, <1>8, <1>9 DEF Tree, SearchTree, TreeOver

\* b takes the place of the node e of its size, which becomes the second of the chain.
Headed(H, N, t, l, r, p, o, b, e, t2, l2, r2, p2, o2) ==
  /\ t2 = IF t = e THEN b ELSE t
  /\ \A n \in H : l2[n] = IF n = b THEN l[e] ELSE IF n = e THEN b
                          ELSE IF n \in N /\ l[n] = e THEN b ELSE l[n]
  /\ \A n \in H : r2[n] = IF n = b THEN r[e] ELSE IF n = e THEN NotFirst
                          ELSE IF r[n] = e THEN b ELSE r[n]
  /\ \A n \in H : n # b => p2[n] = IF n = l[e] \/ n = r[e] THEN b ELSE p[n]
  /\ e # t => p2[b] = p[e]
  /\ \A n \in H : o2[n] = IF n = b THEN e ELSE o[n]

\* A tree with a new first block of a chain is a tree.
LEMMA TreeChain ==
  ASSUME NEW G, NEW t, NEW l, NEW r, NEW p, NEW o, NEW z, NEW lo, NEW hi, NEW rk,
         Tree(G, t, l, r, p, o, z, lo, hi, rk),
         NEW b \in Int, b \notin G, b # Null, b # NotFirst, NEW e \in Nodes(G, r), z[b] = z[e],
         NEW H, H = G \cup {b}, NEW t2, NEW l2, NEW r2, NEW p2, NEW o2,
         Headed(H, Nodes(G, r), t, l, r, p, o, b, e, t2, l2, r2, p2, o2)
  PROVE  TreeOver(H, t2, l2, r2, p2, o2, z)
<1>0. /\ t2 = IF t = e THEN b ELSE t
      /\ \A n \in H : l2[n] = IF n = b THEN l[e] ELSE IF n = e THEN b
                              ELSE IF n \in Nodes(G, r) /\ l[n] = e THEN b ELSE l[n]
      /\ \A n \in H : r2[n] = IF n = b THEN r[e] ELSE IF n = e THEN NotFirst
                              ELSE IF r[n] = e THEN b ELSE r[n]
      /\ \A n \in H : n # b => p2[n] = IF n = l[e] \/ n = r[e] THEN b ELSE p[n]
      /\ e # t => p2[b] = p[e]
      /\ \A n \in H : o2[n] = IF n = b THEN e ELSE o[n]
  BY DEF Headed
<1> USE <1>0
<1> DEFINE N == Nodes(G, r)
           M == Nodes(H, r2)
           lo2 == [n \in H |-> IF n = b THEN lo[e] ELSE lo[n]]
           hi2 == [n \in H |-> IF n = b THEN hi[e] ELSE hi[n]]
           rk2 == [n \in H |-> IF n = b THEN 0 ELSE rk[n] + 1]
<1>1. SearchTree(G, t, l, r, p, z, lo, hi) /\ Chained(G, l, r, o, z, rk) /\ e \in N
  BY DEF Tree
<1>2. Null \notin G /\ NotFirst \notin G /\ e \in G /\ Null # NotFirst /\ e # Null /\ e # b
  BY <1>1 DEF SearchTree, Sized, Nodes, Null, NotFirst
<1>3. \A x : (x \in M <=> (x \in N /\ x # e) \/ x = b) /\ (x \in H <=> x \in G \/ x = b)
  BY <1>1, <1>2 DEF Nodes
<1>4. ASSUME NEW n \in N
      PROVE  /\ l[n] # Null => l[n] \in N /\ l[n] # t /\ p[l[n]] = n /\ lo[l[n]] = lo[n] /\ hi[l[n]] = z[n]
             /\ r[n] # Null => r[n] \in N /\ r[n] # t /\ p[r[n]] = n /\ lo[r[n]] = z[n] /\ hi[r[n]] = hi[n]
             /\ n # t => p[n] \in N /\ (l[p[n]] = n \/ r[p[n]] = n)
             /\ lo[n] \in Nat /\ hi[n] \in Nat /\ lo[n] < z[n] /\ z[n] < hi[n] /\ hi[n] <= Top
             /\ n # Null /\ n \in G /\ z[n] \in Int /\ t # Null /\ t \in N /\ lo[t] = 0 /\ hi[t] = Top
  BY <1>1, NodeLinks
<1>5. l[e] # e /\ r[e] # e
  <2>1. /\ lo[e] \in Nat /\ hi[e] \in Nat /\ z[e] \in Int /\ lo[e] < z[e] /\ z[e] < hi[e]
        /\ l[e] # Null => hi[l[e]] = z[e]
        /\ r[e] # Null => lo[r[e]] = z[e]
    BY <1>1, <1>4
  <2> QED
    BY <1>2, <2>1
<1>w. ASSUME NEW n \in N, n # e
      PROVE  /\ n \in H /\ n \in M /\ n # b
             /\ l2[n] = (IF l[n] = e THEN b ELSE l[n])
             /\ r2[n] = (IF r[n] = e THEN b ELSE r[n])
             /\ p2[n] = (IF n = l[e] \/ n = r[e] THEN b ELSE p[n])
             /\ lo2[n] = lo[n] /\ hi2[n] = hi[n]
  BY <1>3, <1>4, <1>w
<1>v. /\ b \in H /\ b \in M /\ l2[b] = l[e] /\ r2[b] = r[e] /\ lo2[b] = lo[e] /\ hi2[b] = hi[e]
  BY <1>3
<1> HIDE DEF N, M, lo2, hi2
<1>6. Linkage(H, t2, l2, r2, p2)
  <2>1. t2 \in M /\ t2 # Null
    BY <1>1, <1>2, <1>4, <1>v, <1>w
  <2>2. ASSUME NEW n \in M, NEW x, x \in {l2[n], r2[n]}, x # Null
        PROVE  x \in M /\ x # t2 /\ p2[x] = n
    <3>1. CASE n = b
      <4>1. x = l[e] \/ x = r[e]
        BY <1>v, <2>2, <3>1
      <4>2. x \in N /\ x # t /\ x # e
        BY <1>1, <1>4, <1>5, <2>2, <4>1
      <4> QED
        BY <1>w, <3>1, <4>1, <4>2
    <3>2. CASE n # b
      <4>1. n \in N /\ n # e
        BY <1>3, <3>2
      <4>2. CASE x = b
        <5>1. l[n] = e \/ r[n] = e
          BY <1>w, <1>4, <4>1, <4>2, <2>2
        <5>2. p[e] = n /\ e # t
          BY <1>2, <1>4, <4>1, <5>1
        <5> QED
          BY <1>1, <1>4, <1>v, <1>w, <4>2, <5>2
      <4>3. CASE x # b
        <5>1. (x = l[n] \/ x = r[n]) /\ x # e
          BY <1>w, <2>2, <4>1, <4>3
        <5>2. x \in N /\ x # t /\ p[x] = n
          BY <1>4, <2>2, <4>1, <5>1
        <5>3. x # l[e] /\ x # r[e]
          BY <1>1, <1>4, <2>2, <4>1, <5>2
        <5> QED
          BY <1>w, <4>3, <5>1, <5>2, <5>3
      <4> QED
        BY <4>2, <4>3
    <3> QED
      BY <3>1, <3>2
  <2>3. ASSUME NEW n \in M, n # t2
        PROVE  p2[n] \in M /\ (l2[p2[n]] = n \/ r2[p2[n]] = n)
    <3>1. CASE n = b
      <4>1. e # t /\ p2[b] = p[e]
        BY <2>3, <3>1
      <4>2. p[e] \in N /\ (l[p[e]] = e \/ r[p[e]] = e) /\ p[e] # e
        BY <1>1, <1>4, <1>5, <4>1
      <4> QED
        BY <1>w, <3>1, <4>1, <4>2
    <3>2. CASE n # b /\ (n = l[e] \/ n = r[e])
      <4>1. n \in N /\ n # e
        BY <1>3, <3>2
      <4> QED
        BY <1>v, <1>w, <3>2, <4>1
    <3>3. CASE n # b /\ n # l[e] /\ n # r[e]
      <4>1. n \in N /\ n # e /\ n # t
        BY <1>3, <2>3, <3>3
      <4>2. p2[n] = p[n] /\ p[n] \in N /\ (l[p[n]] = n \/ r[p[n]] = n)
        BY <1>4, <1>w, <3>3, <4>1
      <4>3. p[n] # e
        BY <3>3, <4>2
      <4> QED
        BY <1>w, <4>1, <4>2, <4>3
    <3> QED
      BY <3>1, <3>2, <3>3
  <2>4. \A n \in M : n # t2 => p2[n] \in M /\ (l2[p2[n]] = n \/ r2[p2[n]] = n)
    BY <2>3
  <2> QED
    BY <2>1, <2>2, <2>4 DEF Linkage, M
<1>7. Ordered(H, t2, l2, r2, z, lo2, hi2)
  <2>1. lo2[t2] = 0 /\ hi2[t2] = Top
    BY <1>1, <1>4, <1>v, <1>w
  <2>2. ASSUME NEW n \in M
        PROVE  /\ lo2[n] \in Nat /\ hi2[n] \in Nat /\ lo2[n] < z[n] /\ z[n] < hi2[n] /\ hi2[n] <= Top
               /\ l2[n] # Null => lo2[l2[n]] = lo2[n] /\ hi2[l2[n]] = z[n]
               /\ r2[n] # Null => lo2[r2[n]] = z[n] /\ hi2[r2[n]] = hi2[n]
    <3>1. CASE n = b
      BY <1>1, <1>4, <1>5, <1>v, <1>w, <3>1
    <3>2. CASE n # b
      <4>1. n \in N /\ n # e
        BY <1>3, <3>2
      <4>2. lo2[n] \in Nat /\ hi2[n] \in Nat /\ lo2[n] < z[n] /\ z[n] < hi2[n] /\ hi2[n] <= Top
        BY <1>4, <1>w, <4>1
      <4>3. l2[n] # Null => lo2[l2[n]] = lo2[n] /\ hi2[l2[n]] = z[n]
        <5>1. CASE l[n] = e
          <6>1. lo[e] = lo[n] /\ hi[e] = z[n] /\ l2[n] = b
            BY <1>2, <1>4, <1>w, <4>1, <5>1
          <6> QED
            BY <1>v, <1>w, <4>1, <6>1
        <5>2. CASE l[n] # e
          BY <1>4, <1>w, <4>1, <5>2
        <5> QED
          BY <5>1, <5>2
      <4>4. r2[n] # Null => lo2[r2[n]] = z[n] /\ hi2[r2[n]] = hi2[n]
        <5>1. CASE r[n] = e
          <6>1. lo[e] = z[n] /\ hi[e] = hi[n] /\ r2[n] = b
            BY <1>2, <1>4, <1>w, <4>1, <5>1
          <6> QED
            BY <1>v, <1>w, <4>1, <6>1
        <5>2. CASE r[n] # e
          BY <1>4, <1>w, <4>1, <5>2
        <5> QED
          BY <5>1, <5>2
      <4> QED
        BY <4>2, <4>3, <4>4
    <3> QED
      BY <3>1, <3>2
  <2> QED
    BY <2>1, <2>2 DEF Ordered, M
<1>8. Sized(H, z)
  BY <1>1, <1>2 DEF SearchTree, Sized
<1>9. Chained(H, l2, r2, o2, z, rk2)
  <2>1. ASSUME NEW n \in H
        PROVE  /\ rk2[n] \in Nat
               /\ n \notin M => l2[n] \in H /\ o2[l2[n]] = n /\ z[l2[n]] = z[n] /\ rk2[l2[n]] < rk2[n]
               /\ o2[n] # Null => o2[n] \in H /\ o2[n] \notin M /\ l2[o2[n]] = n
    <3>0. rk[e] \in Nat
      BY <1>1, <1>2 DEF Chained
    <3>1. CASE n = b
      BY <1>v, <1>2, <1>3, <3>1
    <3>2. CASE n # b
      <4>1. /\ rk[n] \in Nat /\ n \in G
            /\ n \notin N => l[n] \in G /\ o[l[n]] = n /\ z[l[n]] = z[n] /\ rk[l[n]] < rk[n] /\ rk[l[n]] \in Nat
            /\ o[n] # Null => o[n] \in G /\ o[n] \notin N /\ l[o[n]] = n
        BY <1>1, <1>3, <3>2 DEF Chained, N
      <4>2. n \notin M => l2[n] \in H /\ o2[l2[n]] = n /\ z[l2[n]] = z[n] /\ rk2[l2[n]] < rk2[n]
        BY <1>1, <1>2, <1>3, <3>0, <3>2, <4>1 DEF N
      <4>3. o2[n] # Null => o2[n] \in H /\ o2[n] \notin M /\ l2[o2[n]] = n
        BY <1>1, <1>3, <3>2, <4>1 DEF N
      <4> QED
        BY <3>2, <4>1, <4>2, <4>3
    <3> QED
      BY <3>1, <3>2
  <2> HIDE DEF rk2
  <2> QED
    BY <2>1 DEF Chained, M
<1> HIDE DEF rk2
<1> QED
  BY <1>6, <1>7, <1>8, <1>9 DEF Tree, SearchTree, TreeOver

-----------------------------------------------------------------------------
(* The tree in a memory. *)

TreeOn(c, G) ==
  TreeOver(G, c.my_tree, View(c, G).left, View(c, G).right, View(c, G).par, View(c, G).bro, View(c, G).size)

\* The links of c and the tree they make.
Shows(c, G, t, l, r, p, o, z, lo, hi, rk) ==
  /\ Placed(G) /\ c \in Memory /\ Becomes(c, c, G, t, l, r, p, o) /\ z = View(c, G).size
  /\ t \in Int /\ l \in [G -> Int] /\ r \in [G -> Int] /\ p \in [G -> Int] /\ o \in [G -> Int]
  /\ z \in [G -> Int]
  /\ Tree(G, t, l, r, p, o, z, lo, hi, rk)

\* Links and sizes that agree on the blocks make the same tree.
LEMMA TreeSame ==
  ASSUME NEW G, NEW t, NEW l, NEW r, NEW p, NEW o, NEW z, NEW lo, NEW hi, NEW rk,
         Tree(G, t, l, r, p, o, z, lo, hi, rk),
         NEW l2, NEW r2, NEW p2, NEW o2, NEW z2,
         \A n \in G : l2[n] = l[n] /\ r2[n] = r[n] /\ p2[n] = p[n] /\ o2[n] = o[n] /\ z2[n] = z[n]
  PROVE  Tree(G, t, l2, r2, p2, o2, z2, lo, hi, rk)
<1>1. Linkage(G, t, l, r, p) /\ Ordered(G, t, l, r, z, lo, hi) /\ Sized(G, z) /\ Chained(G, l, r, o, z, rk)
  BY DEF Tree, SearchTree
<1>2. Nodes(G, r2) = Nodes(G, r) /\ \A n \in Nodes(G, r) : n \in G
  BY DEF Nodes
<1>3. Linkage(G, t, l2, r2, p2)
  BY <1>1, <1>2 DEF Linkage
<1>4. Ordered(G, t, l2, r2, z2, lo, hi)
  BY <1>1, <1>2 DEF Ordered
<1>5. Sized(G, z2)
  BY <1>1 DEF Sized
<1>6. Chained(G, l2, r2, o2, z2, rk)
  BY <1>1, <1>2 DEF Chained
<1> QED
  BY <1>3, <1>4, <1>5, <1>6 DEF Tree, SearchTree

\* A tree in a memory has functions for its links, its bounds and its ranks.
LEMMA ShowsTree ==
  ASSUME NEW c \in Memory, NEW G, Placed(G), TreeOn(c, G)
  PROVE  \E t, l, r, p, o, z, lo, hi, rk : Shows(c, G, t, l, r, p, o, z, lo, hi, rk) /\ t = c.my_tree
<1> DEFINE v == View(c, G)
<1>1. v \in Views(G)
  BY ViewIsTyped DEF Placed
<1>2. v.root = c.my_tree
  BY DEF View
<1>3. v.root \in Int /\ v.left \in [G -> Int] /\ v.right \in [G -> Int] /\ v.par \in [G -> Int]
      /\ v.bro \in [G -> Int] /\ v.size \in [G -> Int]
  <2> HIDE DEF v
  <2> QED
    BY <1>1 DEF Views
<1>4. Becomes(c, c, G, v.root, v.left, v.right, v.par, v.bro)
  BY BecomesSelf
<1>5. PICK lo, hi, rk : Tree(G, v.root, v.left, v.right, v.par, v.bro, v.size, lo, hi, rk)
  BY <1>2 DEF TreeOn, TreeOver
<1>6. Shows(c, G, v.root, v.left, v.right, v.par, v.bro, v.size, lo, hi, rk)
  BY <1>3, <1>4, <1>5 DEF Shows
<1> QED
  BY <1>2, <1>6

\* If the links after some writes make a tree, the memory holds it.
LEMMA ThenTree ==
  ASSUME NEW c \in Memory, NEW G, NEW d, NEW t, NEW l, NEW r, NEW p, NEW o, NEW z,
         Becomes(c, d, G, t, l, r, p, o), z = View(c, G).size,
         NEW H, H \subseteq G, TreeOver(H, t, l, r, p, o, z)
  PROVE  TreeOn(d, H) /\ Edited(c, d, G) /\ View(d, G).size = View(c, G).size
<1> DEFINE v == View(d, H)
<1>1. /\ Edited(c, d, G) /\ d.my_tree = t
      /\ \A n \in G : /\ View(d, G).left[n] = l[n] /\ View(d, G).right[n] = r[n] /\ View(d, G).par[n] = p[n]
                      /\ View(d, G).bro[n] = o[n] /\ View(d, G).size[n] = z[n]
      /\ View(d, G).size = z
  BY DEF Becomes, View
<1>2. \A n \in H : /\ v.left[n] = View(d, G).left[n] /\ v.right[n] = View(d, G).right[n]
                   /\ v.par[n] = View(d, G).par[n] /\ v.bro[n] = View(d, G).bro[n]
                   /\ v.size[n] = View(d, G).size[n]
  BY DEF View
<1>3. \A n \in H : v.left[n] = l[n] /\ v.right[n] = r[n] /\ v.par[n] = p[n] /\ v.bro[n] = o[n] /\ v.size[n] = z[n]
  BY <1>1, <1>2
<1>4. PICK lo, hi, rk : Tree(H, t, l, r, p, o, z, lo, hi, rk)
  BY DEF TreeOver
<1>5. Tree(H, t, v.left, v.right, v.par, v.bro, v.size, lo, hi, rk)
  <2> HIDE DEF v
  <2> QED
    BY <1>3, <1>4, TreeSame
<1> QED
  BY <1>1, <1>5 DEF TreeOn, TreeOver

\* A tree depends only on the links and the sizes of its blocks.
LEMMA TreeKept ==
  ASSUME NEW c, NEW d, NEW G, TreeOn(c, G), d.my_tree = c.my_tree,
         \A b \in G : /\ Half(d, b) = Half(c, b)
                      /\ Left(d, b) = Left(c, b) /\ Right(d, b) = Right(c, b)
                      /\ Par(d, b) = Par(c, b) /\ Bro(d, b) = Bro(c, b)
  PROVE  TreeOn(d, G)
<1>1. View(d, G) = View(c, G)
  BY DEF View
<1> QED
  BY <1>1 DEF TreeOn

\* Links of blocks lead to blocks, or are Null or NotFirst where the tree says.
LEMMA LinksTyped ==
  ASSUME NEW G, NEW t, NEW l, NEW r, NEW p, NEW o, NEW z, NEW lo, NEW hi, NEW rk,
         Tree(G, t, l, r, p, o, z, lo, hi, rk), NEW n \in G
  PROVE  /\ l[n] \in G \cup {Null} /\ o[n] \in G \cup {Null} /\ r[n] \in G \cup {Null, NotFirst}
         /\ n \notin Nodes(G, r) => l[n] \in G /\ n # t /\ r[n] = NotFirst
         /\ n \in Nodes(G, r) => r[n] \in G \cup {Null} /\ (n # t => p[n] \in G) /\ r[n] # NotFirst
         /\ Null \notin G /\ NotFirst \notin G /\ G \subseteq Int
  BY DEF Tree, SearchTree, Linkage, Chained, Sized, Nodes

\* The links to a node.
LEMMA LinksTo ==
  ASSUME NEW G, NEW t, NEW l, NEW r, NEW p, NEW o, NEW z, NEW lo, NEW hi, NEW rk,
         Tree(G, t, l, r, p, o, z, lo, hi, rk), NEW b \in Nodes(G, r), NEW y, y = p[b]
  PROVE  /\ b = t => \A n \in G : r[n] # b /\ (l[n] = b => n = o[b])
         /\ b # t => /\ y \in Nodes(G, r) /\ y # b /\ y \in G /\ y # o[b]
                     /\ z[b] > z[y] => r[y] = b /\ l[y] # b
                     /\ ~(z[b] > z[y]) => l[y] = b /\ r[y] # b
                     /\ \A n \in G : n # y => r[n] # b /\ (l[n] = b => n = o[b])
<1> DEFINE N == Nodes(G, r)
<1>1. SearchTree(G, t, l, r, p, z, lo, hi) /\ Chained(G, l, r, o, z, rk) /\ b \in N
  BY DEF Tree
<1>2. Null \notin G /\ b # NotFirst /\ b \in G /\ b # Null
  BY <1>1 DEF SearchTree, Sized, Nodes
<1>3. ASSUME NEW n \in N
      PROVE  /\ l[n] # Null => l[n] \in N /\ l[n] # t /\ p[l[n]] = n /\ lo[l[n]] = lo[n] /\ hi[l[n]] = z[n]
             /\ r[n] # Null => r[n] \in N /\ r[n] # t /\ p[r[n]] = n /\ lo[r[n]] = z[n] /\ hi[r[n]] = hi[n]
             /\ n # t => p[n] \in N /\ (l[p[n]] = n \/ r[p[n]] = n)
             /\ lo[n] \in Nat /\ hi[n] \in Nat /\ lo[n] < z[n] /\ z[n] < hi[n] /\ z[n] \in Int /\ n \in G
  BY <1>1, NodeLinks
<1>4. ASSUME NEW n \in G, n \notin N PROVE r[n] # b /\ (l[n] = b => n = o[b])
  BY <1>1, <1>2, <1>4 DEF Chained, Nodes
<1> HIDE DEF N
<1>5. ASSUME NEW n \in N, l[n] = b \/ r[n] = b PROVE b # t /\ n = y
  BY <1>2, <1>3, <1>5
<1>6. CASE b = t
  BY <1>4, <1>5, <1>6
<1>7. CASE b # t
  <2>1. y \in N /\ (l[y] = b \/ r[y] = b) /\ y \in G
    BY <1>1, <1>3, <1>7
  <2>2. /\ lo[b] \in Nat /\ hi[b] \in Nat /\ lo[b] < z[b] /\ z[b] < hi[b] /\ z[b] \in Int
        /\ lo[y] \in Nat /\ hi[y] \in Nat /\ lo[y] < z[y] /\ z[y] < hi[y] /\ z[y] \in Int
        /\ l[y] = b => lo[b] = lo[y] /\ hi[b] = z[y]
        /\ r[y] = b => lo[b] = z[y] /\ hi[b] = hi[y]
    BY <1>1, <1>2, <1>3, <2>1
  <2>3. y # b
    BY <2>1, <2>2
  <2>4. /\ z[b] > z[y] => r[y] = b /\ l[y] # b
        /\ ~(z[b] > z[y]) => l[y] = b /\ r[y] # b
    BY <2>1, <2>2
  <2>5. y # o[b]
    BY <1>1, <1>2, <2>1 DEF Chained, N, Nodes
  <2>6. \A n \in G : n # y => r[n] # b /\ (l[n] = b => n = o[b])
    BY <1>4, <1>5
  <2> QED
    BY <1>7, <2>1, <2>3, <2>4, <2>5, <2>6 DEF N
<1> QED
  BY <1>6, <1>7

\* A walk takes as many steps as there are sizes, in every memory.
LEMMA LongestIsTop == \A c \in Memory : Longest(c) = Top
<1> SUFFICES ASSUME NEW c \in Memory PROVE Longest(c) = Top
  OBVIOUS
<1>1. Cardinality(Base .. (Base + MaxHeap - 1)) = MaxHeap
  BY MmAssumption, FS_Interval DEF Base
<1> QED
  BY <1>1 DEF Longest, Top, Memory, Cell

\* The successor of b.
LEMMA LeftmostIs ==
  ASSUME NEW c, NEW G, NEW t, NEW l, NEW r, NEW p, NEW o, NEW z, NEW lo, NEW hi, NEW rk,
         Shows(c, G, t, l, r, p, o, z, lo, hi, rk),
         NEW b \in Nodes(G, r), r[b] # Null, NEW s, s = Leftmost(c, r[b])
  PROVE  /\ s \in Nodes(G, r) /\ s # b /\ s # t /\ l[s] = Null
         /\ lo[s] = z[b] /\ hi[s] <= hi[b]
         /\ s = r[b] \/ (s = l[p[s]] /\ p[s] # b)
         /\ \A n \in Nodes(G, r) : z[n] > z[b] => z[n] >= z[s]
<1>1. c \in Memory /\ SearchTree(G, t, l, r, p, z, lo, hi) /\ r \in [G -> Int] /\ b \in G
  BY DEF Shows, Tree, Nodes
<1> DEFINE next == [x \in Int |-> IF Left(c, x) = Null THEN x ELSE Left(c, x)]
<1>2. next \in [Int -> Int]
  BY <1>1, WordsAreInt DEF Left
<1>3. r[b] \in Int
  BY <1>1
<1>4. PICK w : Steps(w, Int, next, r[b], Top) /\ Walk(next, r[b], Top) = w[Top]
  <2> HIDE DEF next
  <2> QED
    BY <1>2, <1>3, TopIsNat, WalkSteps
<1>5. s = w[Top]
  BY <1>1, <1>4, LongestIsTop DEF Leftmost
<1>6. \A n \in Nodes(G, r) : n \in Int /\ Left(c, n) = l[n]
  BY <1>1, BecomesFields, NodeBounds DEF Shows, Nodes
<1>7. w[0] = r[b] /\ \A k \in 1 .. Top :
        w[k - 1] \in Nodes(G, r) => w[k] = IF l[w[k - 1]] = Null THEN w[k - 1] ELSE l[w[k - 1]]
  BY <1>4, <1>6 DEF Steps
<1> HIDE DEF next
<1> QED
  BY <1>1, <1>5, <1>7, SuccessorPath

\* The links of b itself.
Own(c, d, b) == \A j \in 0 .. 3 : GET(d, b + j) = GET(c, b + j)

\* A block whose links are the same at the end has them in the memory.
LEMMA ThenOwn ==
  ASSUME NEW c, NEW d, NEW G, Placed(G), NEW t, NEW l, NEW r, NEW p, NEW o, Becomes(c, c, G, t, l, r, p, o),
         NEW t2, NEW l2, NEW r2, NEW p2, NEW o2, Becomes(c, d, G, t2, l2, r2, p2, o2),
         NEW b \in G, l2[b] = l[b], r2[b] = r[b], p2[b] = p[b], o2[b] = o[b]
  PROVE  Own(c, d, b)
<1>1. Left(c, b) = l[b] /\ Right(c, b) = r[b] /\ Par(c, b) = p[b] /\ Bro(c, b) = o[b]
  BY BecomesFields
<1>2. Left(d, b) = l2[b] /\ Right(d, b) = r2[b] /\ Par(d, b) = p2[b] /\ Bro(d, b) = o2[b]
  BY BecomesFields
<1>3. b \in Int /\ \A j \in 0 .. 3 : j = 0 \/ j = 1 \/ j = 2 \/ j = 3
  BY DEF Placed
<1>4. b + 0 = LEFT(b) /\ b + 1 = RIGHT(b) /\ b + 2 = PRNT(b) /\ b + 3 = BROS(b)
  BY <1>3 DEF LEFT, RIGHT, PRNT, BROS
<1> QED
  BY <1>1, <1>2, <1>3, <1>4 DEF Own, Left, Right, Par, Bro

\* No node is its own child.
LEMMA NotOwnChild ==
  ASSUME NEW G, NEW t, NEW l, NEW r, NEW p, NEW o, NEW z, NEW lo, NEW hi, NEW rk,
         Tree(G, t, l, r, p, o, z, lo, hi, rk), NEW b \in Nodes(G, r)
  PROVE  l[b] # b /\ r[b] # b
<1>1. Ordered(G, t, l, r, z, lo, hi) /\ SearchTree(G, t, l, r, p, z, lo, hi)
  BY DEF Tree, SearchTree
<1>2. b # Null /\ lo[b] \in Nat /\ hi[b] \in Nat /\ z[b] \in Int /\ lo[b] < z[b] /\ z[b] < hi[b]
  BY <1>1, NodeBounds
<1> QED
  BY <1>1, <1>2 DEF Ordered

\* delete_node inside a chain.
LEMMA DeleteUnchained ==
  ASSUME NEW c, NEW G, NEW t, NEW l, NEW r, NEW p, NEW o, NEW z, NEW lo, NEW hi, NEW rk,
         Shows(c, G, t, l, r, p, o, z, lo, hi, rk),
         NEW b \in G, b \notin Nodes(G, r), NEW d, d = Unchain(c, b), NEW H, H = G \ {b}
  PROVE  TreeOn(d, H) /\ Edited(c, d, G) /\ View(d, G).size = View(c, G).size /\ Own(c, d, b)
<1>1. /\ Placed(G) /\ c \in Memory /\ Becomes(c, c, G, t, l, r, p, o) /\ z = View(c, G).size
      /\ l \in [G -> Int] /\ o \in [G -> Int] /\ Tree(G, t, l, r, p, o, z, lo, hi, rk)
  BY DEF Shows
<1>2. l[b] \in G /\ o[b] \in G \cup {Null} /\ Null \notin G /\ H \subseteq G
  BY <1>1, LinksTyped
<1>b. l[b] # b /\ o[b] # b
  <2>1. Chained(G, l, r, o, z, rk)
    BY <1>1 DEF Tree
  <2>2. l[b] # b
    BY <2>1 DEF Chained
  <2>3. o[b] # Null => o[b] \in G /\ o[b] \notin Nodes(G, r) /\ l[o[b]] = b
    BY <2>1 DEF Chained
  <2>4. o[b] # Null => o[b] # b
    BY <2>2, <2>3
  <2> QED
    BY <1>2, <2>2, <2>4
<1> DEFINE x == l[b]
           k == o[b]
           o2 == [o EXCEPT ![x] = k]
<1>3. x = l[b] /\ k = o[b] /\ x \in G /\ k \in G \cup {Null}
  BY <1>2
<1>4. \A n \in H : o2[n] = IF n = l[b] THEN o[b] ELSE o[n]
  BY <1>1, <1>2
<1>c. o2[b] = o[b]
  BY <1>1, <1>b
<1> HIDE DEF x, k, o2
<1>5. CASE k # Null
  <2> DEFINE l2 == [l EXCEPT ![k] = x]
  <2>1. Becomes(c, d, G, t, l2, r, p, o2)
    BY <1>1, <1>3, <1>5, ThenUnchain DEF o2
  <2>2. Unchained(H, l, o, b, l2, o2)
    BY <1>1, <1>2, <1>3, <1>4 DEF Unchained
  <2>a. l2[b] = l[b]
    BY <1>1, <1>3, <1>b
  <2> HIDE DEF l2
  <2>3. TreeOver(H, t, l2, r, p, o2, z)
    BY <1>1, <2>2, TreeUnchain
  <2>4. Own(c, d, b)
    BY <1>1, <1>c, <2>1, <2>a, ThenOwn
  <2> QED
    BY <1>1, <1>2, <2>1, <2>3, <2>4, ThenTree
<1>6. CASE k = Null
  <2>1. Becomes(c, d, G, t, l, r, p, o2)
    BY <1>1, <1>3, <1>6, ThenUnchain DEF o2
  <2>2. Unchained(H, l, o, b, l, o2)
    BY <1>2, <1>3, <1>4, <1>6 DEF Unchained
  <2>3. TreeOver(H, t, l, r, p, o2, z)
    BY <1>1, <2>2, TreeUnchain
  <2>4. Own(c, d, b)
    BY <1>1, <1>c, <2>1, ThenOwn
  <2> QED
    BY <1>1, <1>2, <2>1, <2>3, <2>4, ThenTree
<1> QED
  BY <1>5, <1>6

\* b is replaced by the block k after it in its chain.
LEMMA DeletePassedOn ==
  ASSUME NEW c, NEW G, NEW t, NEW l, NEW r, NEW p, NEW o, NEW z, NEW lo, NEW hi, NEW rk,
         Shows(c, G, t, l, r, p, o, z, lo, hi, rk),
         NEW b \in Nodes(G, r), NEW k, k = o[b], k # Null, NEW H, H = G \ {b},
         NEW d, d = IF b = t THEN PassOn([c EXCEPT !.my_tree = k], b, k)
                    ELSE PassOn(c ## Instead(c, b, k), b, k) ## <<PRNT(k), p[b]>>
  PROVE  TreeOn(d, H) /\ Edited(c, d, G) /\ View(d, G).size = View(c, G).size /\ Own(c, d, b)
<1>1. /\ Placed(G) /\ c \in Memory /\ Becomes(c, c, G, t, l, r, p, o) /\ z = View(c, G).size
      /\ t \in Int /\ l \in [G -> Int] /\ r \in [G -> Int] /\ p \in [G -> Int] /\ o \in [G -> Int]
      /\ z \in [G -> Int] /\ Tree(G, t, l, r, p, o, z, lo, hi, rk)
  BY DEF Shows
<1>2. /\ b \in G /\ k \in G /\ k # b /\ H \subseteq G /\ Null \notin G /\ G \subseteq Int
      /\ l[b] \in G \cup {Null} /\ r[b] \in G \cup {Null} /\ k \notin Nodes(G, r) /\ l[k] = b
      /\ G \subseteq Word /\ Null \in Word /\ l[b] # b /\ r[b] # b
  <2>1. b \in G
    BY DEF Nodes
  <2>2. k \in G /\ k \notin Nodes(G, r) /\ l[k] = b
    BY <1>1, <2>1 DEF Tree, Chained
  <2>3. G \subseteq Word /\ Null \in Word
    BY <1>1, PlacedWords
  <2>4. l[b] # b /\ r[b] # b
    BY <1>1, NotOwnChild
  <2> QED
    BY <1>1, <2>1, <2>2, <2>3, <2>4, LinksTyped
<1> DEFINE x == l[b]
           v == r[b]
           p2 == [[p EXCEPT ![x] = k] EXCEPT ![v] = k]
<1>3. x = l[b] /\ v = r[b] /\ x \in G \cup {Null} /\ v \in G \cup {Null}
  BY <1>2
<1>4. /\ p2 \in [G -> Int] /\ \A n \in H : n # k => p2[n] = IF n = l[b] \/ n = r[b] THEN k ELSE p[n]
      /\ p2[b] = p[b]
  BY <1>1, <1>2
<1> HIDE DEF x, v
<1>5. CASE b = t
  <2> DEFINE c1 == [c EXCEPT !.my_tree = k]
             l2 == [l EXCEPT ![k] = x]
             r2 == [r EXCEPT ![k] = v]
  <2>1. Becomes(c, c1, G, k, l, r, p, o)
    BY <1>1, <1>2, ThenRoot
  <2>2. d = PassOn(c1, b, k)
    BY <1>5
  <2> HIDE DEF c1
  <2>3. Becomes(c, d, G, k, l2, r2, p2, o)
    BY <1>1, <1>2, <1>3, <2>1, <2>2, ThenPassOn
  <2>4. \A n \in G : r[n] # b /\ (l[n] = b => n = o[b])
    BY <1>1, <1>5, LinksTo
  <2>5. /\ \A n \in H : l2[n] = IF n = k THEN l[b] ELSE IF l[n] = b THEN k ELSE l[n]
        /\ \A n \in H : r2[n] = IF n = k THEN r[b] ELSE IF r[n] = b THEN k ELSE r[n]
    BY <1>1, <1>2, <1>3, <2>4
  <2>a. l2[b] = l[b] /\ r2[b] = r[b]
    BY <1>1, <1>2
  <2> HIDE DEF l2, r2, p2
  <2>7. PassedOn(H, t, l, r, p, b, k, k, l2, r2, p2)
    BY <1>4, <1>5, <2>5 DEF PassedOn
  <2>6. TreeOver(H, k, l2, r2, p2, o, z)
    BY <1>1, <2>7, TreePassOn
  <2>8. Own(c, d, b)
    BY <1>1, <1>2, <1>4, <2>3, <2>a, ThenOwn
  <2> QED
    BY <1>1, <1>2, <2>3, <2>6, <2>8, ThenTree
<1>6. CASE b # t
  <2> DEFINE y == p[b]
             c1 == c ## Instead(c, b, k)
             c2 == PassOn(c1, b, k)
             l1 == IF z[b] > z[y] THEN l ELSE [l EXCEPT ![y] = k]
             r1 == IF z[b] > z[y] THEN [r EXCEPT ![y] = k] ELSE r
             l2 == [l1 EXCEPT ![k] = x]
             r2 == [r1 EXCEPT ![k] = v]
             p3 == [p2 EXCEPT ![k] = y]
  <2>1. /\ y \in Nodes(G, r) /\ y # b /\ y \in G /\ y # o[b]
        /\ z[b] > z[y] => r[y] = b /\ l[y] # b
        /\ ~(z[b] > z[y]) => l[y] = b /\ r[y] # b
        /\ \A n \in G : n # y => r[n] # b /\ (l[n] = b => n = o[b])
    BY <1>1, <1>6, LinksTo
  <2>2. y = p[b] /\ c1 = c ## Instead(c, b, k) /\ c2 = PassOn(c1, b, k) /\ d = c2 ## <<PRNT(k), y>> /\ y \in Word
    BY <1>2, <1>6, <2>1
  <2>3. l1 \in [G -> Int] /\ r1 \in [G -> Int] /\ l1[b] = x /\ r1[b] = v
    BY <1>1, <1>2, <1>3, <2>1
  <2>4. /\ \A n \in H : l2[n] = IF n = k THEN l[b] ELSE IF l[n] = b THEN k ELSE l[n]
        /\ \A n \in H : r2[n] = IF n = k THEN r[b] ELSE IF r[n] = b THEN k ELSE r[n]
    BY <1>1, <1>2, <1>3, <2>1
  <2>5. p3[k] = p[b] /\ \A n \in H : n # k => p3[n] = IF n = l[b] \/ n = r[b] THEN k ELSE p[n]
    BY <1>2, <1>4
  <2>a. l2[b] = l[b] /\ r2[b] = r[b] /\ p3[b] = p[b]
    <3>1. k # b /\ l2[b] = l1[b] /\ r2[b] = r1[b] /\ p3[b] = p2[b]
      BY <1>2, <1>4, <2>3
    <3> QED
      BY <1>3, <1>4, <2>3, <3>1
  <2> HIDE DEF y, c1, c2
  <2>6. Becomes(c, c1, G, t, l1, r1, p, o)
    BY <1>1, <1>2, <2>1, <2>2, ThenInstead
  <2> HIDE DEF l1, r1
  <2>7. Becomes(c, c2, G, t, l2, r2, p2, o)
    BY <1>1, <1>2, <1>3, <2>2, <2>3, <2>6, ThenPassOn
  <2> HIDE DEF l2, r2, p2
  <2>8. Becomes(c, d, G, t, l2, r2, p3, o)
    BY <1>1, <1>2, <2>2, <2>7, ThenPar
  <2> HIDE DEF p3
  <2>10. PassedOn(H, t, l, r, p, b, k, t, l2, r2, p3)
    BY <1>6, <2>4, <2>5 DEF PassedOn
  <2>9. TreeOver(H, t, l2, r2, p3, o, z)
    BY <1>1, <2>10, TreePassOn
  <2>11. Own(c, d, b)
    BY <1>1, <1>2, <2>8, <2>a, ThenOwn
  <2>12. c \in Memory /\ z = View(c, G).size /\ H \subseteq G
    BY <1>1, <1>2
  <2> QED
    BY <2>8, <2>9, <2>11, <2>12, ThenTree
<1> QED
  BY <1>5, <1>6

\* b, alone in its chain and with at most one child x, is replaced by this child.
LEMMA DeleteLifted ==
  ASSUME NEW c, NEW G, NEW t, NEW l, NEW r, NEW p, NEW o, NEW z, NEW lo, NEW hi, NEW rk,
         Shows(c, G, t, l, r, p, o, z, lo, hi, rk),
         NEW b \in Nodes(G, r), o[b] = Null, NEW H, H = G \ {b},
         NEW x, (l[b] = Null /\ x = r[b]) \/ (r[b] = Null /\ x = l[b]),
         NEW d, d = IF b = t THEN [c EXCEPT !.my_tree = x] ELSE c ## Instead(c, b, x) ## Parent(x, p[b])
  PROVE  TreeOn(d, H) /\ Edited(c, d, G) /\ View(d, G).size = View(c, G).size /\ Own(c, d, b)
<1>1. /\ Placed(G) /\ c \in Memory /\ Becomes(c, c, G, t, l, r, p, o) /\ z = View(c, G).size
      /\ t \in Int /\ l \in [G -> Int] /\ r \in [G -> Int] /\ p \in [G -> Int] /\ o \in [G -> Int]
      /\ z \in [G -> Int] /\ Tree(G, t, l, r, p, o, z, lo, hi, rk)
  BY DEF Shows
<1>2. /\ b \in G /\ x \in G \cup {Null} /\ x \in Int /\ H \subseteq G /\ Null \notin G /\ G \subseteq Int
      /\ x # b /\ x \in Word /\ G \subseteq Word
  <2>1. b \in G
    BY DEF Nodes
  <2>2. r[b] \in G \cup {Null} /\ l[b] \in G \cup {Null} /\ Null \notin G /\ G \subseteq Int
    BY <1>1, <2>1, LinksTyped
  <2>3. G \subseteq Word /\ Null \in Word
    BY <1>1, PlacedWords
  <2>4. l[b] # b /\ r[b] # b
    BY <1>1, NotOwnChild
  <2> QED
    BY <2>1, <2>2, <2>3, <2>4 DEF Null
<1>3. CASE b = t
  <2>1. Becomes(c, d, G, x, l, r, p, o)
    BY <1>1, <1>2, <1>3, ThenRoot
  <2>2. \A n \in G : r[n] # b /\ (l[n] = b => n = o[b])
    BY <1>1, <1>3, LinksTo
  <2>3. Lifted(H, t, l, r, p, b, x, x, l, r, p)
    BY <1>2, <1>3, <2>2 DEF Lifted
  <2>4. TreeOver(H, x, l, r, p, o, z)
    BY <1>1, <2>3, TreeLift
  <2>5. Own(c, d, b)
    BY <1>1, <1>2, <2>1, ThenOwn
  <2>6. c \in Memory /\ z = View(c, G).size /\ H \subseteq G
    BY <1>1, <1>2
  <2> QED
    BY <2>1, <2>4, <2>5, <2>6, ThenTree
<1>4. CASE b # t
  <2> DEFINE y == p[b]
             c1 == c ## Instead(c, b, x)
             l1 == IF z[b] > z[y] THEN l ELSE [l EXCEPT ![y] = x]
             r1 == IF z[b] > z[y] THEN [r EXCEPT ![y] = x] ELSE r
             p2 == [p EXCEPT ![x] = y]
  <2>1. /\ y \in Nodes(G, r) /\ y # b /\ y \in G
        /\ z[b] > z[y] => r[y] = b /\ l[y] # b
        /\ ~(z[b] > z[y]) => l[y] = b /\ r[y] # b
        /\ \A n \in G : n # y => r[n] # b /\ (l[n] = b => n = o[b])
    BY <1>1, <1>4, LinksTo
  <2>2. y = p[b] /\ c1 = c ## Instead(c, b, x) /\ d = c1 ## Parent(x, y) /\ y \in Word
    BY <1>2, <1>4, <2>1
  <2>3. Lifted(H, t, l, r, p, b, x, t, l1, r1, p2)
    <3>1. /\ \A n \in H : l1[n] = IF l[n] = b THEN x ELSE l[n]
          /\ \A n \in H : r1[n] = IF r[n] = b THEN x ELSE r[n]
      BY <1>1, <1>2, <2>1
    <3>2. /\ \A n \in H : n # x => p2[n] = p[n]
          /\ x # Null => p2[x] = p[b]
      BY <1>1, <1>2
    <3> QED
      BY <1>4, <3>1, <3>2 DEF Lifted
  <2>a. l1[b] = l[b] /\ r1[b] = r[b] /\ p2[b] = p[b]
    BY <1>1, <1>2, <2>1
  <2> HIDE DEF y, c1
  <2>4. Becomes(c, c1, G, t, l1, r1, p, o)
    BY <1>1, <1>2, <2>1, <2>2, ThenInstead
  <2> HIDE DEF l1, r1
  <2>5. Becomes(c, d, G, t, l1, r1, p2, o)
    BY <1>1, <1>2, <2>2, <2>4, ThenParent
  <2> HIDE DEF p2
  <2>6. TreeOver(H, t, l1, r1, p2, o, z)
    BY <1>1, <2>3, TreeLift
  <2>7. c \in Memory /\ z = View(c, G).size /\ H \subseteq G
    BY <1>1, <1>2
  <2> HIDE DEF l1, r1, p2, y
  <2>8. Own(c, d, b)
    BY <1>1, <1>2, <2>5, <2>a, ThenOwn
  <2> QED
    BY <2>5, <2>6, <2>7, <2>8, ThenTree
<1> QED
  BY <1>3, <1>4

\* b, alone in its chain and with a right child, is replaced by its successor s.
LEMMA DeleteTakenOver ==
  ASSUME NEW c, NEW G, NEW t, NEW l, NEW r, NEW p, NEW o, NEW z, NEW lo, NEW hi, NEW rk,
         Shows(c, G, t, l, r, p, o, z, lo, hi, rk),
         NEW b \in Nodes(G, r), o[b] = Null, r[b] # Null, NEW H, H = G \ {b},
         NEW s, s = Leftmost(c, r[b]),
         NEW d, d = IF b = t THEN TakeOver([c EXCEPT !.my_tree = s], b, s)
                    ELSE TakeOver(c ## Instead(c, b, s), b, s) ## <<PRNT(s), p[b]>>
  PROVE  TreeOn(d, H) /\ Edited(c, d, G) /\ View(d, G).size = View(c, G).size /\ Own(c, d, b)
<1>1. /\ Placed(G) /\ c \in Memory /\ Becomes(c, c, G, t, l, r, p, o) /\ z = View(c, G).size
      /\ t \in Int /\ l \in [G -> Int] /\ r \in [G -> Int] /\ p \in [G -> Int] /\ o \in [G -> Int]
      /\ z \in [G -> Int] /\ Tree(G, t, l, r, p, o, z, lo, hi, rk)
  BY DEF Shows
<1>2. /\ s \in Nodes(G, r) /\ s # b /\ s # t /\ l[s] = Null /\ lo[s] = z[b] /\ hi[s] <= hi[b]
      /\ s = r[b] \/ (s = l[p[s]] /\ p[s] # b)
      /\ \A n \in Nodes(G, r) : z[n] > z[b] => z[n] >= z[s]
  BY LeftmostIs
<1>3. /\ r[b] # b /\ l[b] # b /\ l[b] # s /\ l[b] # r[b]
      /\ r[s] # b /\ r[s] # s /\ r[s] # r[b] /\ (r[s] # Null => r[s] # l[b])
      /\ p[r[b]] = b /\ (l[b] # Null => p[l[b]] = b) /\ (r[s] # Null => p[r[s]] = s)
      /\ s # r[b] => p[s] \in Nodes(G, r) /\ p[s] # b /\ p[s] # s /\ l[p[s]] = s /\ r[p[s]] # b /\ r[p[s]] # s
  <2>1. SearchTree(G, t, l, r, p, z, lo, hi)
    BY <1>1 DEF Tree
  <2> QED
    BY <1>2, <2>1, SuccessorLinks
<1>4. /\ b \in G /\ s \in G /\ H \subseteq G /\ Null \notin G /\ G \subseteq Int /\ r[b] \in G
      /\ l[b] \in G \cup {Null} /\ r[s] \in G \cup {Null} /\ (s # r[b] => p[s] \in G) /\ G \subseteq Word
  <2>1. b \in G /\ s \in G /\ (s # r[b] => p[s] \in G)
    BY <1>2, <1>3 DEF Nodes
  <2>2. r[b] \in G \cup {Null} /\ l[b] \in G \cup {Null} /\ r[s] \in G \cup {Null} /\ Null \notin G
    BY <1>1, <1>2, <2>1, LinksTyped
  <2>3. G \subseteq Word
    BY <1>1, PlacedWords
  <2> QED
    BY <1>1, <2>1, <2>2, <2>3 DEF Placed
\* The memory with s in the place of b under the parent of b.
<1>5. \E e, t1, l1, r1 :
        /\ Becomes(c, e, G, t1, l1, r1, p, o)
        /\ d = IF b = t THEN TakeOver(e, b, s) ELSE TakeOver(e, b, s) ## <<PRNT(s), p[b]>>
        /\ t1 = IF t = b THEN s ELSE t
        /\ l1 \in [G -> Int] /\ r1 \in [G -> Int]
        /\ \A n \in G : l1[n] = (IF l[n] = b THEN s ELSE l[n]) /\ r1[n] = (IF r[n] = b THEN s ELSE r[n])
  <2>1. CASE b = t
    <3>1. Becomes(c, [c EXCEPT !.my_tree = s], G, s, l, r, p, o)
      BY <1>1, <1>4, ThenRoot
    <3>2. \A n \in G : r[n] # b /\ (l[n] = b => n = o[b])
      BY <1>1, <2>1, LinksTo
    <3> QED
      BY <1>1, <1>4, <2>1, <3>1, <3>2
  <2>2. CASE b # t
    <3> DEFINE y == p[b]
               e == c ## Instead(c, b, s)
               l1 == IF z[b] > z[y] THEN l ELSE [l EXCEPT ![y] = s]
               r1 == IF z[b] > z[y] THEN [r EXCEPT ![y] = s] ELSE r
    <3>1. /\ y \in Nodes(G, r) /\ y # b /\ y \in G
          /\ z[b] > z[y] => r[y] = b /\ l[y] # b
          /\ ~(z[b] > z[y]) => l[y] = b /\ r[y] # b
          /\ \A n \in G : n # y => r[n] # b /\ (l[n] = b => n = o[b])
      BY <1>1, <2>2, LinksTo
    <3>2. y = p[b] /\ e = c ## Instead(c, b, s)
      OBVIOUS
    <3>3. /\ l1 \in [G -> Int] /\ r1 \in [G -> Int]
          /\ \A n \in G : l1[n] = (IF l[n] = b THEN s ELSE l[n]) /\ r1[n] = (IF r[n] = b THEN s ELSE r[n])
      BY <1>1, <1>4, <3>1
    <3>4. Becomes(c, e, G, t, l1, r1, p, o)
      <4> HIDE DEF y, e
      <4> QED
        BY <1>1, <1>4, <3>1, <3>2, ThenInstead
    <3>5. d = TakeOver(e, b, s) ## <<PRNT(s), p[b]>>
      BY <2>2
    <3> HIDE DEF e, l1, r1
    <3> QED
      BY <2>2, <3>3, <3>4, <3>5
  <2> QED
    BY <2>1, <2>2
<1>6. PICK e, t1, l1, r1 :
        /\ Becomes(c, e, G, t1, l1, r1, p, o)
        /\ d = IF b = t THEN TakeOver(e, b, s) ELSE TakeOver(e, b, s) ## <<PRNT(s), p[b]>>
        /\ t1 = IF t = b THEN s ELSE t
        /\ l1 \in [G -> Int] /\ r1 \in [G -> Int]
        /\ \A n \in G : l1[n] = (IF l[n] = b THEN s ELSE l[n]) /\ r1[n] = (IF r[n] = b THEN s ELSE r[n])
  BY <1>5
<1> DEFINE x == l[b]
           v == r[b]
           q == p[s]
           k == r[s]
<1>7. /\ x = l1[b] /\ v = r1[b] /\ k = r1[s] /\ x = l[b] /\ v = r[b] /\ q = p[s] /\ k = r[s]
      /\ x \in G \cup {Null} /\ v \in G /\ k \in G \cup {Null} /\ (s # v => q \in G)
  BY <1>3, <1>4, <1>6
\* The memory with the children of b under s.
<1>8. \E l2, r2, p2 :
        /\ Becomes(c, TakeOver(e, b, s), G, t1, l2, r2, p2, o) /\ p2 \in [G -> Int]
        /\ \A n \in H : l2[n] = IF n = s THEN l[b] ELSE IF l[n] = b THEN s
                                ELSE IF n = p[s] THEN r[s] ELSE l[n]
        /\ \A n \in H : r2[n] = IF n = s THEN (IF s = r[b] THEN r[s] ELSE r[b])
                                ELSE IF r[n] = b THEN s ELSE r[n]
        /\ \A n \in H : n # s => p2[n] = IF n = l[b] \/ n = r[b] THEN s
                                         ELSE IF n = r[s] THEN (IF s = r[b] THEN s ELSE p[s]) ELSE p[n]
        /\ l2[b] = l[b] /\ r2[b] = r[b] /\ p2[b] = p[b]
  <2>1. CASE s = v
    <3> DEFINE l2 == [l1 EXCEPT ![s] = x]
               p2 == [p EXCEPT ![x] = s]
    <3>1. Becomes(c, TakeOver(e, b, s), G, t1, l2, r1, p2, o)
      <4> DEFINE e2 == TakeOver(e, b, s)
      <4>1. e2 = TakeOver(e, b, s)
        OBVIOUS
      <4>2. /\ Becomes(c, e, G, t1, l1, r1, p, o) /\ Placed(G) /\ b \in G /\ s \in G /\ s = r1[b]
            /\ x \in G \cup {Null} /\ x = l1[b]
        BY <1>1, <1>4, <1>6, <1>7, <2>1
      <4> HIDE DEF x, v, q, k, e2
      <4>3. Becomes(c, e2, G, t1, [l1 EXCEPT ![s] = x], r1, [p EXCEPT ![x] = s], o)
        BY <4>1, <4>2, ThenTakeOverNear
      <4> QED
        BY <4>1, <4>3
    <3>2. p2 \in [G -> Int]
      BY <1>1, <1>4
    <3>3. \A n \in H : l2[n] = IF n = s THEN l[b] ELSE IF l[n] = b THEN s
                               ELSE IF n = p[s] THEN r[s] ELSE l[n]
      BY <1>3, <1>4, <1>6, <2>1
    <3>4. \A n \in H : r1[n] = IF n = s THEN (IF s = r[b] THEN r[s] ELSE r[b])
                               ELSE IF r[n] = b THEN s ELSE r[n]
      BY <1>3, <1>4, <1>6, <2>1
    <3>5. \A n \in H : n # s => p2[n] = IF n = l[b] \/ n = r[b] THEN s
                                        ELSE IF n = r[s] THEN (IF s = r[b] THEN s ELSE p[s]) ELSE p[n]
      BY <1>1, <1>3, <1>4, <2>1
    <3>6. l2[b] = l[b] /\ r1[b] = r[b] /\ p2[b] = p[b]
      BY <1>2, <1>3, <1>4, <1>6
    <3> HIDE DEF l2, p2
    <3> QED
      BY <3>1, <3>2, <3>3, <3>4, <3>5, <3>6
  <2>2. CASE s # v
    <3> DEFINE l2 == [[l1 EXCEPT ![q] = k] EXCEPT ![s] = x]
               r2 == [r1 EXCEPT ![s] = v]
               p2 == [[[p EXCEPT ![k] = q] EXCEPT ![v] = s] EXCEPT ![x] = s]
    <3>1. Becomes(c, TakeOver(e, b, s), G, t1, l2, r2, p2, o)
      <4> DEFINE e2 == TakeOver(e, b, s)
      <4>1. e2 = TakeOver(e, b, s)
        OBVIOUS
      <4>2. /\ Becomes(c, e, G, t1, l1, r1, p, o) /\ Placed(G) /\ b \in G /\ s \in G /\ s # r1[b]
            /\ x \in G \cup {Null} /\ x = l1[b] /\ v \in G /\ v = r1[b]
            /\ q \in G /\ q = p[s] /\ k \in G \cup {Null} /\ k = r1[s]
        BY <1>1, <1>4, <1>6, <1>7, <2>2
      <4> HIDE DEF x, v, q, k, e2
      <4>3. Becomes(c, e2, G, t1, [[l1 EXCEPT ![q] = k] EXCEPT ![s] = x], [r1 EXCEPT ![s] = v],
                    [[[p EXCEPT ![k] = q] EXCEPT ![v] = s] EXCEPT ![x] = s], o)
        BY <4>1, <4>2, ThenTakeOverFar
      <4> QED
        BY <4>1, <4>3
    <3>2. p2 \in [G -> Int]
      BY <1>1, <1>4, <2>2
    <3>3. \A n \in H : l2[n] = IF n = s THEN l[b] ELSE IF l[n] = b THEN s
                               ELSE IF n = p[s] THEN r[s] ELSE l[n]
      BY <1>3, <1>4, <1>6, <2>2
    <3>4. \A n \in H : r2[n] = IF n = s THEN (IF s = r[b] THEN r[s] ELSE r[b])
                               ELSE IF r[n] = b THEN s ELSE r[n]
      BY <1>3, <1>4, <1>6, <2>2
    <3>5. \A n \in H : n # s => p2[n] = IF n = l[b] \/ n = r[b] THEN s
                                        ELSE IF n = r[s] THEN (IF s = r[b] THEN s ELSE p[s]) ELSE p[n]
      BY <1>1, <1>3, <1>4, <2>2
    <3>6. l2[b] = l[b] /\ r2[b] = r[b] /\ p2[b] = p[b]
      BY <1>1, <1>2, <1>3, <1>4, <1>6, <2>2
    <3> HIDE DEF l2, r2, p2
    <3> QED
      BY <3>1, <3>2, <3>3, <3>4, <3>5, <3>6
  <2> QED
    BY <2>1, <2>2
<1>9. PICK l2, r2, p2 :
        /\ Becomes(c, TakeOver(e, b, s), G, t1, l2, r2, p2, o) /\ p2 \in [G -> Int]
        /\ \A n \in H : l2[n] = IF n = s THEN l[b] ELSE IF l[n] = b THEN s
                                ELSE IF n = p[s] THEN r[s] ELSE l[n]
        /\ \A n \in H : r2[n] = IF n = s THEN (IF s = r[b] THEN r[s] ELSE r[b])
                                ELSE IF r[n] = b THEN s ELSE r[n]
        /\ \A n \in H : n # s => p2[n] = IF n = l[b] \/ n = r[b] THEN s
                                         ELSE IF n = r[s] THEN (IF s = r[b] THEN s ELSE p[s]) ELSE p[n]
        /\ l2[b] = l[b] /\ r2[b] = r[b] /\ p2[b] = p[b]
  BY <1>8
<1>10. \E p3 : /\ Becomes(c, d, G, t1, l2, r2, p3, o) /\ TakenOver(H, t, l, r, p, b, s, t1, l2, r2, p3)
               /\ p3[b] = p[b]
  <2>1. CASE b = t
    BY <1>6, <1>9, <2>1 DEF TakenOver
  <2>2. CASE b # t
    <3> DEFINE y == p[b]
               p3 == [p2 EXCEPT ![s] = y]
    <3>1. d = TakeOver(e, b, s) ## <<PRNT(s), y>> /\ y \in Word
      <4>1. p[b] \in G
        BY <1>1, <1>4, <2>2, LinksTyped
      <4> QED
        BY <1>4, <1>6, <2>2, <4>1
    <3>2. Becomes(c, d, G, t1, l2, r2, p3, o)
      <4> HIDE DEF y
      <4> QED
        BY <1>1, <1>4, <1>9, <3>1, ThenPar
    <3>3. p3[s] = p[b] /\ p3[b] = p[b] /\ \A n \in H : n # s => p3[n] = p2[n]
      BY <1>2, <1>4, <1>9
    <3> HIDE DEF p3
    <3>4. TakenOver(H, t, l, r, p, b, s, t1, l2, r2, p3)
      BY <1>6, <1>9, <3>3 DEF TakenOver
    <3> QED
      BY <3>2, <3>3, <3>4
  <2> QED
    BY <2>1, <2>2
<1>11. PICK p3 : /\ Becomes(c, d, G, t1, l2, r2, p3, o) /\ TakenOver(H, t, l, r, p, b, s, t1, l2, r2, p3)
                 /\ p3[b] = p[b]
  BY <1>10
<1>12. TreeOver(H, t1, l2, r2, p3, o, z)
  BY <1>1, <1>2, <1>11, TreeTakeOver
<1>13. Own(c, d, b)
  BY <1>1, <1>4, <1>9, <1>11, ThenOwn
<1> QED
  BY <1>1, <1>4, <1>11, <1>12, <1>13, ThenTree

\* A block leaves the tree.
LEMMA DeleteNode ==
  ASSUME NEW c \in Memory, NEW G, Placed(G), TreeOn(c, G), NEW b \in G, NEW H, H = G \ {b},
         NEW d, d = delete_node(c, b)
  PROVE  TreeOn(d, H) /\ Edited(c, d, G) /\ View(d, G).size = View(c, G).size /\ Own(c, d, b)
<1>1. PICK t, l, r, p, o, z, lo, hi, rk : Shows(c, G, t, l, r, p, o, z, lo, hi, rk) /\ t = c.my_tree
  BY ShowsTree
<1>2. /\ Left(c, b) = l[b] /\ Right(c, b) = r[b] /\ Par(c, b) = p[b] /\ Bro(c, b) = o[b]
      /\ Tree(G, t, l, r, p, o, z, lo, hi, rk)
  BY <1>1, BecomesFields DEF Shows
<1>3. CASE b \notin Nodes(G, r)
  <2>1. b # t /\ r[b] = NotFirst
    BY <1>2, <1>3, LinksTyped
  <2>2. d = Unchain(c, b)
    <3>1. d = DeleteInner(c, b)
      BY <1>1, <2>1 DEF delete_node
    <3> QED
      BY <1>2, <2>1, <3>1 DEF DeleteInner, Null, NotFirst
  <2> QED
    BY <1>1, <1>3, <2>2, DeleteUnchained
<1>4. CASE b \in Nodes(G, r)
  <2>0. r[b] # NotFirst
    BY <1>4 DEF Nodes
  <2>1. CASE o[b] # Null
    <3>1. d = IF b = t THEN PassOn([c EXCEPT !.my_tree = o[b]], b, o[b])
              ELSE PassOn(c ## Instead(c, b, o[b]), b, o[b]) ## <<PRNT(o[b]), p[b]>>
      BY <1>1, <1>2, <2>0, <2>1 DEF delete_node, DeleteRoot, DeleteInner
    <3> QED
      BY <1>1, <1>4, <2>1, <3>1, DeletePassedOn
  <2>2. CASE o[b] = Null /\ (r[b] = Null \/ (b = t /\ l[b] = Null))
    <3> DEFINE x == IF b = t /\ l[b] = Null THEN r[b] ELSE l[b]
    <3>1. (l[b] = Null /\ x = r[b]) \/ (r[b] = Null /\ x = l[b])
      BY <2>2
    <3>2. d = IF b = t THEN [c EXCEPT !.my_tree = x] ELSE c ## Instead(c, b, x) ## Parent(x, p[b])
      BY <1>1, <1>2, <2>0, <2>2 DEF delete_node, DeleteRoot, DeleteInner, Null, NotFirst
    <3> HIDE DEF x
    <3> QED
      BY <1>1, <1>4, <2>2, <3>1, <3>2, DeleteLifted
  <2>3. CASE o[b] = Null /\ r[b] # Null /\ ~(b = t /\ l[b] = Null)
    <3> DEFINE s == Leftmost(c, r[b])
    <3>1. d = IF b = t THEN TakeOver([c EXCEPT !.my_tree = s], b, s)
              ELSE TakeOver(c ## Instead(c, b, s), b, s) ## <<PRNT(s), p[b]>>
      BY <1>1, <1>2, <2>0, <2>3 DEF delete_node, DeleteRoot, DeleteInner
    <3>2. s = Leftmost(c, r[b])
      OBVIOUS
    <3>3. Shows(c, G, t, l, r, p, o, z, lo, hi, rk) /\ o[b] = Null /\ r[b] # Null
      BY <1>1, <2>3
    <3> HIDE DEF s
    <3> QED
      BY <1>4, <3>1, <3>2, <3>3, DeleteTakenOver
  <2> QED
    BY <2>1, <2>2, <2>3
<1> QED
  BY <1>3, <1>4

\* The links of the blocks of F in c, and the tree that those of G make.
Holds(c, F, G, t, l, r, p, o, z, lo, hi, rk) ==
  /\ Placed(F) /\ c \in Memory /\ Becomes(c, c, F, t, l, r, p, o) /\ z = View(c, F).size
  /\ t \in Int /\ l \in [F -> Int] /\ r \in [F -> Int] /\ p \in [F -> Int] /\ o \in [F -> Int]
  /\ z \in [F -> Int] /\ G \subseteq F
  /\ Tree(G, t, l, r, p, o, z, lo, hi, rk)

\* A tree over G in a memory, with the links of a larger set F.
LEMMA HoldsTree ==
  ASSUME NEW c \in Memory, NEW F, Placed(F), NEW G, G \subseteq F, TreeOn(c, G)
  PROVE  \E t, l, r, p, o, z, lo, hi, rk : Holds(c, F, G, t, l, r, p, o, z, lo, hi, rk) /\ t = c.my_tree
<1> DEFINE v == View(c, F)
           u == View(c, G)
<1>1. v \in Views(F)
  BY ViewIsTyped DEF Placed
<1>2. v.root = c.my_tree
  BY DEF View
<1>3. v.root \in Int /\ v.left \in [F -> Int] /\ v.right \in [F -> Int] /\ v.par \in [F -> Int]
      /\ v.bro \in [F -> Int] /\ v.size \in [F -> Int]
  <2> HIDE DEF v
  <2> QED
    BY <1>1 DEF Views
<1>4. Becomes(c, c, F, v.root, v.left, v.right, v.par, v.bro)
  BY BecomesSelf
<1>5. PICK lo, hi, rk : Tree(G, v.root, u.left, u.right, u.par, u.bro, u.size, lo, hi, rk)
  BY <1>2 DEF TreeOn, TreeOver
<1>6. \A n \in G : /\ v.left[n] = u.left[n] /\ v.right[n] = u.right[n] /\ v.par[n] = u.par[n]
                   /\ v.bro[n] = u.bro[n] /\ v.size[n] = u.size[n]
  BY DEF View
<1> HIDE DEF v, u
<1>7. Tree(G, v.root, v.left, v.right, v.par, v.bro, v.size, lo, hi, rk)
  BY <1>5, <1>6, TreeSame
<1>8. v.size = View(c, F).size
  BY DEF v
<1>9. Holds(c, F, G, v.root, v.left, v.right, v.par, v.bro, v.size, lo, hi, rk)
  BY <1>3, <1>4, <1>7, <1>8 DEF Holds
<1> QED
  BY <1>2, <1>9

\* The walk is a sequence of steps of its function.
LEMMA TopWalk ==
  ASSUME NEW next, next \in [Int -> Int], NEW x, x \in Int
  PROVE  \E w : Steps(w, Int, next, x, Top) /\ Walk(next, x, Top) = w[Top]
<1> DEFINE S == Int
<1>1. next \in [S -> S] /\ x \in S /\ Top \in Nat
  BY TopIsNat
<1> HIDE DEF S
<1>2. \E w : Steps(w, S, next, x, Top) /\ Walk(next, x, Top) = w[Top]
  BY <1>1, WalkSteps
<1> QED
  BY <1>2 DEF S

\* The node at which the way to the blocks of a size ends.
LEMMA PositionIs ==
  ASSUME NEW c, NEW F, NEW G, NEW t, NEW l, NEW r, NEW p, NEW o, NEW z, NEW lo, NEW hi, NEW rk,
         Holds(c, F, G, t, l, r, p, o, z, lo, hi, rk), t # Null,
         NEW s \in 1 .. (Top - 1), NEW e, e = Position(c, 2 * s)
  PROVE  /\ e \in Around(G, r, lo, hi, s) /\ Child(l, r, z, e, s) = Null
         /\ \A n \in Around(G, r, lo, hi, s) : Child(l, r, z, n, s) = Null => n = e
<1>1. c \in Memory /\ SearchTree(G, t, l, r, p, z, lo, hi) /\ t \in Int /\ c.my_tree = t
  BY DEF Holds, Tree, Becomes, View
<1> DEFINE next == [x \in Int |-> IF Toward(c, x, 2 * s) = Null THEN x ELSE Toward(c, x, 2 * s)]
<1>2. next \in [Int -> Int]
  <2>1. \A x \in Int : Toward(c, x, 2 * s) \in Int
    <3> SUFFICES ASSUME NEW x \in Int PROVE Toward(c, x, 2 * s) \in Int
      OBVIOUS
    <3>1. Size(c, x) \in Int /\ Left(c, x) \in Int /\ Right(c, x) \in Int /\ Null \in Int
      BY <1>1, WordsAreInt DEF Size, Left, Right, Null
    <3> QED
      BY <3>1 DEF Toward
  <2> QED
    BY <2>1
<1>3. t \in Int
  BY <1>1
<1>4. PICK w : Steps(w, Int, next, t, Top) /\ Walk(next, t, Top) = w[Top]
  <2> HIDE DEF next
  <2> QED
    BY <1>2, <1>3, TopWalk
<1>5. e = w[Top]
  BY <1>1, <1>4, LongestIsTop DEF Position
<1>6. \A n \in Nodes(G, r) : n \in Int /\ Toward(c, n, 2 * s) = Child(l, r, z, n, s)
  <2> SUFFICES ASSUME NEW n \in Nodes(G, r) PROVE n \in Int /\ Toward(c, n, 2 * s) = Child(l, r, z, n, s)
    OBVIOUS
  <2>1. n \in F /\ n \in Int /\ z[n] \in Int
    BY <1>1, NodeBounds DEF Holds, Nodes
  <2>2. Left(c, n) = l[n] /\ Right(c, n) = r[n] /\ Size(c, n) = 2 * z[n]
    BY <2>1, BecomesFields, SizeIsTwice DEF Holds
  <2> QED
    BY <2>1, <2>2 DEF Toward, Child
<1>7. w[0] = t /\ \A k \in 1 .. Top :
        w[k - 1] \in Nodes(G, r) =>
          w[k] = IF Child(l, r, z, w[k - 1], s) = Null THEN w[k - 1] ELSE Child(l, r, z, w[k - 1], s)
  BY <1>4, <1>6 DEF Steps
<1>8. Way(w, G, t, l, r, z, s)
  BY <1>7 DEF Way
<1> HIDE DEF next
<1> QED
  BY <1>1, <1>5, <1>8, SearchPath

\* b becomes a leaf.
LEMMA AddLeafed ==
  ASSUME NEW c, NEW F, NEW G, NEW t, NEW l, NEW r, NEW p, NEW o, NEW z, NEW lo, NEW hi, NEW rk,
         Holds(c, F, G, t, l, r, p, o, z, lo, hi, rk),
         NEW b \in F, b \notin G, F = G \cup {b}, z[b] \in 1 .. (Top - 1),
         NEW e \in Around(G, r, lo, hi, z[b]), Child(l, r, z, e, z[b]) = Null, z[b] # z[e],
         NEW d, d = Linked(c ## <<IF z[b] < z[e] THEN LEFT(e) ELSE RIGHT(e), b>>, b, Null, Null, e, Null)
  PROVE  TreeOn(d, F) /\ Edited(c, d, F) /\ View(d, F).size = View(c, F).size
<1>1. /\ Placed(F) /\ c \in Memory /\ Becomes(c, c, F, t, l, r, p, o) /\ z = View(c, F).size
      /\ l \in [F -> Int] /\ r \in [F -> Int] /\ p \in [F -> Int] /\ o \in [F -> Int]
      /\ z \in [F -> Int] /\ Tree(G, t, l, r, p, o, z, lo, hi, rk)
  BY DEF Holds
<1>2. /\ e \in Nodes(G, r) /\ e \in F /\ lo[e] < z[b] /\ z[b] < hi[e] /\ b # e /\ b \in Int /\ e \in Int
      /\ b # Null /\ b # NotFirst /\ Null \in Int /\ z[e] \in Int
      /\ b \in Word /\ e \in Word /\ Null \in Word
  <2>1. e \in Nodes(G, r) /\ e \in G /\ lo[e] < z[b] /\ z[b] < hi[e]
    BY DEF Around, Nodes
  <2>2. b \in Int /\ b # Null /\ b # NotFirst /\ Null \in Int
    BY <1>1 DEF Placed, First, Base, Null, NotFirst
  <2>3. e \in F /\ e \in Int /\ b # e /\ z[e] \in Int
    BY <1>1, <2>1 DEF Placed
  <2>4. F \subseteq Word /\ Null \in Word
    BY <1>1, PlacedWords
  <2> QED
    BY <2>1, <2>2, <2>3, <2>4
<1> DEFINE c1 == c ## <<IF z[b] < z[e] THEN LEFT(e) ELSE RIGHT(e), b>>
           l1 == IF z[b] < z[e] THEN [l EXCEPT ![e] = b] ELSE l
           r1 == IF z[b] < z[e] THEN r ELSE [r EXCEPT ![e] = b]
           l2 == [l1 EXCEPT ![b] = Null]
           r2 == [r1 EXCEPT ![b] = Null]
           p2 == [p EXCEPT ![b] = e]
           o2 == [o EXCEPT ![b] = Null]
<1>3. Leafed(F, l, r, p, o, z, b, e, l2, r2, p2, o2)
  BY <1>1, <1>2 DEF Leafed
<1>4. d = Linked(c1, b, Null, Null, e, Null)
  OBVIOUS
<1>5. Becomes(c, c1, F, t, l1, r1, p, o)
  <2>1. CASE z[b] < z[e]
    <3>1. c1 = c ## <<LEFT(e), b>> /\ l1 = [l EXCEPT ![e] = b] /\ r1 = r
      BY <2>1
    <3> HIDE DEF c1, l1, r1
    <3> QED
      BY <1>1, <1>2, <3>1, ThenLeft
  <2>2. CASE ~(z[b] < z[e])
    <3>1. c1 = c ## <<RIGHT(e), b>> /\ r1 = [r EXCEPT ![e] = b] /\ l1 = l
      BY <2>2
    <3> HIDE DEF c1, l1, r1
    <3> QED
      BY <1>1, <1>2, <3>1, ThenRight
  <2> QED
    BY <2>1, <2>2
<1> HIDE DEF c1, l1, r1
<1>6. Becomes(c, d, F, t, l2, r2, p2, o2)
  <2>1. Becomes(c, c1, F, t, l1, r1, p, o) /\ Placed(F) /\ e \in Word /\ Null \in Word
    BY <1>1, <1>2, <1>5
  <2> QED
    BY <1>4, <2>1, ThenLinked
<1> HIDE DEF l2, r2, p2, o2
<1>7. TreeOver(F, t, l2, r2, p2, o2, z)
  BY <1>1, <1>2, <1>3, TreeLeaf
<1>8. F \subseteq F /\ c \in Memory /\ z = View(c, F).size
  BY <1>1
<1> QED
  BY <1>6, <1>7, <1>8, ThenTree

\* b heads the chain of the node e.
LEMMA AddHeaded ==
  ASSUME NEW c, NEW F, NEW G, NEW t, NEW l, NEW r, NEW p, NEW o, NEW z, NEW lo, NEW hi, NEW rk,
         Holds(c, F, G, t, l, r, p, o, z, lo, hi, rk),
         NEW b \in F, b \notin G, F = G \cup {b},
         NEW e \in Nodes(G, r), z[b] = z[e],
         NEW d, d = IF e = t THEN Chain([c EXCEPT !.my_tree = b], b, e, Null)
                    ELSE Chain(c ## Instead(c, e, b), b, e, p[e])
  PROVE  TreeOn(d, F) /\ Edited(c, d, F) /\ View(d, F).size = View(c, F).size
<1>1. /\ Placed(F) /\ c \in Memory /\ Becomes(c, c, F, t, l, r, p, o) /\ z = View(c, F).size
      /\ l \in [F -> Int] /\ r \in [F -> Int] /\ p \in [F -> Int] /\ o \in [F -> Int]
      /\ z \in [F -> Int] /\ Tree(G, t, l, r, p, o, z, lo, hi, rk)
  BY DEF Holds
<1>2. /\ e \in G /\ e \in F /\ b # e /\ b \in Int /\ e \in Int /\ b # Null /\ b # NotFirst
      /\ F \subseteq Word /\ Null \in Word /\ b \in Word
  <2>1. F \subseteq Word /\ Null \in Word
    BY <1>1, PlacedWords
  <2> QED
    BY <1>1, <2>1 DEF Nodes, Placed, First, Base, Null, NotFirst
<1>3. /\ l[e] \in G \cup {Null} /\ r[e] \in G \cup {Null} /\ Null \notin G /\ Null \notin F
      /\ \A n \in Nodes(G, r) : n \in G /\ n # o[e]
  <2>1. Null \notin F
    BY <1>1 DEF Placed, First, Base, Null
  <2>2. l[e] \in G \cup {Null} /\ r[e] \in G \cup {Null} /\ Null \notin G
    BY <1>1, <1>2, LinksTyped
  <2>3. Nodes(G, r) \subseteq G
    BY DEF Nodes
  <2>4. o[e] \notin Nodes(G, r)
    BY <1>1, <1>2, <2>2, <2>3 DEF Tree, Chained
  <2> QED
    BY <2>1, <2>2, <2>3, <2>4
<1> DEFINE y == p[e]
           c1 == IF e = t THEN [c EXCEPT !.my_tree = b] ELSE c ## Instead(c, e, b)
           t1 == IF e = t THEN b ELSE t
           l1 == IF e = t \/ z[e] > z[y] THEN l ELSE [l EXCEPT ![y] = b]
           r1 == IF e = t \/ ~(z[e] > z[y]) THEN r ELSE [r EXCEPT ![y] = b]
           q == IF e = t THEN Null ELSE y
           x == l[e]
           v == r[e]
           l2 == [[l1 EXCEPT ![b] = x] EXCEPT ![e] = b]
           r2 == [[r1 EXCEPT ![b] = v] EXCEPT ![e] = NotFirst]
           p2 == [[[p EXCEPT ![b] = q] EXCEPT ![x] = b] EXCEPT ![v] = b]
           o2 == [o EXCEPT ![b] = e]
<1>4. /\ e = t => \A n \in G : r[n] # e /\ (l[n] = e => n = o[e])
      /\ e # t => /\ y \in Nodes(G, r) /\ y # e /\ y \in G /\ y # o[e]
                  /\ z[e] > z[y] => r[y] = e /\ l[y] # e
                  /\ ~(z[e] > z[y]) => l[y] = e /\ r[y] # e
                  /\ \A n \in G : n # y => r[n] # e /\ (l[n] = e => n = o[e])
  <2>1. y = p[e]
    OBVIOUS
  <2>2. Tree(G, t, l, r, p, o, z, lo, hi, rk)
    BY <1>1
  <2> HIDE DEF y
  <2>3. CASE e = t
    BY <2>2, <2>3, LinksTo
  <2>4. CASE e # t
    BY <2>1, <2>2, <2>4, LinksTo
  <2> QED
    BY <2>3, <2>4
<1>5. /\ l1 \in [F -> Int] /\ r1 \in [F -> Int] /\ x = l1[e] /\ v = r1[e]
      /\ x \in F \cup {Null} /\ v \in F \cup {Null} /\ q \in Word
  <2>1. e # t => y \in F /\ y \in Int
    BY <1>1, <1>4 DEF Placed
  <2> QED
    BY <1>1, <1>2, <1>3, <1>4, <2>1 DEF Null
<1>6. Headed(F, Nodes(G, r), t, l, r, p, o, b, e, t1, l2, r2, p2, o2)
  <2>1. \A n \in F : l2[n] = IF n = b THEN l[e] ELSE IF n = e THEN b
                             ELSE IF n \in Nodes(G, r) /\ l[n] = e THEN b ELSE l[n]
    BY <1>1, <1>2, <1>3, <1>4, <1>5
  <2>2. \A n \in F : r2[n] = IF n = b THEN r[e] ELSE IF n = e THEN NotFirst
                             ELSE IF r[n] = e THEN b ELSE r[n]
    BY <1>1, <1>2, <1>3, <1>4, <1>5
  <2>3. \A n \in F : n # b => p2[n] = IF n = l[e] \/ n = r[e] THEN b ELSE p[n]
    BY <1>1, <1>2, <1>3
  <2>4. e # t => p2[b] = p[e]
    BY <1>1, <1>2, <1>3
  <2>5. \A n \in F : o2[n] = IF n = b THEN e ELSE o[n]
    BY <1>1, <1>2
  <2> HIDE DEF l2, r2, p2, o2
  <2> QED
    BY <2>1, <2>2, <2>3, <2>4, <2>5 DEF Headed
<1>7. d = Chain(c1, b, e, q)
  OBVIOUS
<1>8. Becomes(c, c1, F, t1, l1, r1, p, o)
  <2>1. CASE e = t
    <3>1. c1 = [c EXCEPT !.my_tree = b] /\ t1 = b /\ l1 = l /\ r1 = r
      BY <2>1
    <3> HIDE DEF c1, t1, l1, r1
    <3> QED
      BY <1>1, <1>2, <3>1, ThenRoot
  <2>2. CASE e # t
    <3>1. /\ c1 = c ## Instead(c, e, b) /\ t1 = t /\ y \in F /\ y = p[e]
          /\ z[e] > z[y] => r1 = [r EXCEPT ![y] = b] /\ l1 = l
          /\ ~(z[e] > z[y]) => l1 = [l EXCEPT ![y] = b] /\ r1 = r
      BY <1>4, <2>2, <1>1
    <3> HIDE DEF c1, t1, l1, r1, y
    <3>2. /\ c \in Memory /\ Becomes(c, c, F, t, l, r, p, o) /\ Placed(F) /\ e \in F /\ b \in Word
          /\ z = View(c, F).size
      BY <1>1, <1>2
    <3>3. /\ z[e] > z[y] => Becomes(c, c1, F, t, l, [r EXCEPT ![y] = b], p, o)
          /\ ~(z[e] > z[y]) => Becomes(c, c1, F, t, [l EXCEPT ![y] = b], r, p, o)
      BY <3>1, <3>2, ThenInstead
    <3> QED
      BY <3>1, <3>3
  <2> QED
    BY <2>1, <2>2
<1> HIDE DEF c1, t1, l1, r1, q, x, v
<1>9. Becomes(c, d, F, t1, l2, r2, p2, o2)
  BY <1>1, <1>2, <1>5, <1>7, <1>8, ThenChain
<1> HIDE DEF l2, r2, p2, o2
<1>10. TreeOver(F, t1, l2, r2, p2, o2, z)
  BY <1>1, <1>2, <1>6, TreeChain
<1>11. F \subseteq F /\ c \in Memory /\ z = View(c, F).size
  BY <1>1
<1> QED
  BY <1>9, <1>10, <1>11, ThenTree

\* A block enters the tree.
LEMMA AddNode ==
  ASSUME NEW c \in Memory, NEW G, NEW b, b \notin G, NEW F, F = G \cup {b}, Placed(F), TreeOn(c, G),
         Half(c, b) \in 1 .. (Top - 1), NEW d, d = add_node(c, b)
  PROVE  TreeOn(d, F) /\ Edited(c, d, F) /\ View(d, F).size = View(c, F).size
<1>1. PICK t, l, r, p, o, z, lo, hi, rk : Holds(c, F, G, t, l, r, p, o, z, lo, hi, rk) /\ t = c.my_tree
  BY HoldsTree
<1>2. /\ Becomes(c, c, F, t, l, r, p, o) /\ z = View(c, F).size /\ Tree(G, t, l, r, p, o, z, lo, hi, rk)
      /\ l \in [F -> Int] /\ r \in [F -> Int] /\ p \in [F -> Int] /\ o \in [F -> Int] /\ z \in [F -> Int]
  BY <1>1 DEF Holds
<1>3. /\ b \in F /\ Half(c, b) = z[b] /\ Size(c, b) = 2 * z[b] /\ z[b] \in 1 .. (Top - 1) /\ z[b] \in Int
      /\ b \in Int /\ b # Null /\ b # NotFirst
  BY <1>2, BecomesFields, SizeIsTwice DEF Placed, First, Base, Null, NotFirst
<1>4. CASE t = Null
  <2> DEFINE c1 == [c EXCEPT !.my_tree = b]
             l2 == [l EXCEPT ![b] = Null]
             r2 == [r EXCEPT ![b] = Null]
             p2 == [p EXCEPT ![b] = Null]
             o2 == [o EXCEPT ![b] = Null]
  <2>1. d = Linked(c1, b, Null, Null, Null, Null) /\ c1 = [c EXCEPT !.my_tree = b] /\ Null \in Word
    BY <1>1, <1>4, PlacedWords DEF add_node
  <2>2. F = {b}
    BY <1>2, <1>4 DEF Tree, SearchTree, Linkage
  <2>3. l2[b] = Null /\ r2[b] = Null /\ o2[b] = Null
    BY <1>2, <1>3
  <2> HIDE DEF c1
  <2>4. Becomes(c, c1, F, b, l, r, p, o)
    BY <1>2, <1>3, <2>1, ThenRoot
  <2>5. Becomes(c, d, F, b, l2, r2, p2, o2)
    BY <1>3, <2>1, <2>4, ThenLinked
  <2> HIDE DEF l2, r2, p2, o2
  <2>6. TreeOver(F, b, l2, r2, p2, o2, z)
    BY <1>3, <2>2, <2>3, TreeFirst
  <2>7. F \subseteq F
    OBVIOUS
  <2> QED
    BY <1>2, <2>5, <2>6, <2>7, ThenTree
<1>5. CASE t # Null
  <2>1. PICK e : e = Position(c, Size(c, b))
    OBVIOUS
  <2>2. e \in Around(G, r, lo, hi, z[b]) /\ Child(l, r, z, e, z[b]) = Null
    BY <1>1, <1>3, <1>5, <2>1, PositionIs
  <2>3. e \in Nodes(G, r) /\ e \in F
    BY <2>2 DEF Around, Nodes
  <2>4. Par(c, e) = p[e] /\ Size(c, e) = 2 * z[e] /\ z[e] \in Int
    <3>1. Par(c, e) = p[e] /\ Half(c, e) = z[e]
      BY <1>2, <2>3, BecomesFields
    <3> QED
      BY <1>2, <2>3, <3>1, SizeIsTwice
  <2>5. CASE z[b] # z[e]
    <3>1. d = Linked(c ## <<IF z[b] < z[e] THEN LEFT(e) ELSE RIGHT(e), b>>, b, Null, Null, e, Null)
      <4>1. CASE z[b] < z[e]
        BY <1>1, <1>3, <1>5, <2>1, <2>4, <4>1 DEF add_node
      <4>2. CASE z[b] > z[e]
        BY <1>1, <1>3, <1>5, <2>1, <2>4, <4>2 DEF add_node
      <4> QED
        BY <1>3, <2>4, <2>5, <4>1, <4>2
    <3> QED
      BY <1>1, <1>3, <2>2, <2>5, <3>1, AddLeafed
  <2>6. CASE z[b] = z[e]
    <3>1. d = IF e = t THEN Chain([c EXCEPT !.my_tree = b], b, e, Null)
              ELSE Chain(c ## Instead(c, e, b), b, e, p[e])
      BY <1>1, <1>3, <1>5, <2>1, <2>4, <2>6 DEF add_node
    <3> QED
      BY <1>1, <1>3, <2>3, <2>6, <3>1, AddHeaded
  <2> QED
    BY <2>5, <2>6
<1> QED
  BY <1>4, <1>5

-----------------------------------------------------------------------------
(* What find_fit finds. *)

\* f is a smallest node of at least a words, or Null when there is none.
Fitting(G, r, z, a, f) ==
  \/ f = Null /\ \A n \in Nodes(G, r) : 2 * z[n] < a
  \/ f \in Nodes(G, r) /\ 2 * z[f] >= a /\ \A n \in Nodes(G, r) : 2 * z[n] >= a => z[n] >= z[f]

\* At the node n with the candidate f: the nodes below the range of n are too small,
\* those above it no better than f.
Midway(G, r, z, lo, hi, a, n, f) ==
  /\ n \in Nodes(G, r) /\ 2 * lo[n] < a
  /\ \/ f = Null /\ hi[n] = Top
     \/ f \in Nodes(G, r) /\ z[f] = hi[n] /\ a < 2 * z[f]

\* A step of find_fit.
LEMMA FitAdvances ==
  ASSUME NEW G, NEW t, NEW l, NEW r, NEW p, NEW z, NEW lo, NEW hi,
         SearchTree(G, t, l, r, p, z, lo, hi),
         NEW a \in Int, NEW n, NEW f, Midway(G, r, z, lo, hi, a, n, f)
  PROVE  /\ a = 2 * z[n] => Fitting(G, r, z, a, n)
         /\ a < 2 * z[n] => IF l[n] = Null THEN Fitting(G, r, z, a, n)
                            ELSE /\ Midway(G, r, z, lo, hi, a, l[n], n)
                                 /\ hi[l[n]] - lo[l[n]] < hi[n] - lo[n]
         /\ a > 2 * z[n] => IF r[n] = Null THEN Fitting(G, r, z, a, f)
                            ELSE /\ Midway(G, r, z, lo, hi, a, r[n], f)
                                 /\ hi[r[n]] - lo[r[n]] < hi[n] - lo[n]
<1> USE TopIsNat
<1> DEFINE N == Nodes(G, r)
<1>1. \A x \in N : /\ lo[x] \in Nat /\ hi[x] \in Nat /\ z[x] \in Int
                   /\ lo[x] < z[x] /\ z[x] < hi[x] /\ hi[x] <= Top
  BY NodeBounds
<1>2. n \in N /\ 2 * lo[n] < a
  BY DEF Midway
<1>3. /\ l[n] # Null => l[n] \in N /\ lo[l[n]] = lo[n] /\ hi[l[n]] = z[n]
      /\ r[n] # Null => r[n] \in N /\ lo[r[n]] = z[n] /\ hi[r[n]] = hi[n]
  BY <1>2 DEF SearchTree, Linkage, Ordered
<1>4. ASSUME NEW x \in N, lo[n] < z[x], z[x] < hi[n], z[x] # z[n] PROVE Child(l, r, z, n, z[x]) # Null
  BY <1>2, <1>4, NothingBetween
<1>5. CASE a = 2 * z[n]
  <2>1. \A x \in N : 2 * z[x] >= a => z[x] >= z[n]
    BY <1>1, <1>2, <1>5
  <2> QED
    BY <1>1, <1>2, <1>5, <2>1 DEF Fitting
<1>6. CASE a < 2 * z[n]
  <2>1. CASE l[n] = Null
    <3>1. ASSUME NEW x \in N, 2 * z[x] >= a PROVE z[x] >= z[n]
      <4> SUFFICES ASSUME z[x] < z[n] PROVE FALSE
        BY <1>1, <1>2
      <4>1. lo[n] < z[x] /\ z[x] < hi[n] /\ z[x] # z[n]
        BY <1>1, <1>2, <3>1
      <4> QED
        BY <1>1, <1>2, <1>4, <2>1, <4>1 DEF Child
    <3> QED
      BY <1>1, <1>2, <1>6, <2>1, <3>1 DEF Fitting
  <2>2. CASE l[n] # Null
    BY <1>1, <1>2, <1>3, <1>6, <2>2 DEF Midway
  <2> QED
    BY <1>1, <1>2, <1>6, <2>1, <2>2
<1>7. CASE a > 2 * z[n]
  <2>1. CASE r[n] = Null
    <3>1. ASSUME NEW x \in N, 2 * z[x] >= a PROVE z[x] >= hi[n]
      <4> SUFFICES ASSUME z[x] < hi[n] PROVE FALSE
        BY <1>1, <1>2
      <4>1. lo[n] < z[x] /\ z[x] < hi[n] /\ z[x] # z[n] /\ ~(z[x] < z[n]) /\ z[x] > z[n]
        BY <1>1, <1>2, <1>7, <3>1
      <4> QED
        BY <1>4, <2>1, <4>1 DEF Child
    <3>2. CASE f = Null
      <4>1. \A x \in N : 2 * z[x] < a
        BY <1>1, <1>2, <3>1, <3>2 DEF Midway, Nodes, SearchTree, Sized
      <4> QED
        BY <1>7, <2>1, <3>2, <4>1, <1>1, <1>2 DEF Fitting
    <3>3. CASE f # Null
      <4>1. f \in N /\ z[f] = hi[n] /\ a < 2 * z[f]
        BY <3>3 DEF Midway
      <4>2. \A x \in N : 2 * z[x] >= a => z[x] >= z[f]
        BY <3>1, <4>1
      <4>3. 2 * z[f] >= a
        BY <1>1, <4>1
      <4>4. Fitting(G, r, z, a, f)
        BY <4>1, <4>2, <4>3 DEF Fitting
      <4> QED
        BY <1>1, <1>2, <1>7, <2>1, <4>4
    <3> QED
      BY <3>2, <3>3
  <2>2. CASE r[n] # Null
    <3>1. Midway(G, r, z, lo, hi, a, r[n], f)
      BY <1>1, <1>2, <1>3, <1>7, <2>2 DEF Midway
    <3> QED
      BY <1>1, <1>2, <1>3, <1>7, <2>2, <3>1
  <2> QED
    BY <2>1, <2>2
<1> QED
  BY <1>1, <1>2, <1>5, <1>6, <1>7

\* What find_fit returns, in terms of the links.
LEMMA FitIs ==
  ASSUME NEW c, NEW G, NEW t, NEW l, NEW r, NEW p, NEW o, NEW z, NEW lo, NEW hi, NEW rk,
         Shows(c, G, t, l, r, p, o, z, lo, hi, rk),
         NEW a \in Int, a > 0, NEW f, f = find_fit(c, a)
  PROVE  Fitting(G, r, z, a, f)
<1> USE TopIsNat
<1>1. c \in Memory /\ SearchTree(G, t, l, r, p, z, lo, hi) /\ t \in Int /\ c.my_tree = t
  BY DEF Shows, Tree, Becomes, View
<1> DEFINE S == Int \X Int
           next == [w \in S |-> FitStep(c, a, w[1], w[2])]
           x == <<c.my_tree, Null>>
<1>2. next \in [S -> S] /\ x \in S
  <2>1. \A w \in S : FitStep(c, a, w[1], w[2]) \in S
    <3> SUFFICES ASSUME NEW u \in Int, NEW v \in Int PROVE FitStep(c, a, u, v) \in S
      OBVIOUS
    <3>1. Size(c, u) \in Int /\ Left(c, u) \in Int /\ Right(c, u) \in Int /\ Null \in Int
      BY <1>1, WordsAreInt DEF Size, Left, Right, Null
    <3> QED
      BY <3>1 DEF FitStep
  <2> QED
    BY <1>1, <2>1 DEF Null
<1>3. PICK w : Steps(w, S, next, x, Top) /\ Walk(next, x, Top) = w[Top]
  <2> HIDE DEF next, S, x
  <2> QED
    BY <1>2, WalkSteps
<1>4. f = w[Top][2]
  BY <1>1, <1>3, LongestIsTop DEF find_fit, Fit
<1>5. w[0] = x /\ \A k \in 1 .. Top : w[k] = FitStep(c, a, w[k - 1][1], w[k - 1][2])
  <2>1. \A k \in 1 .. Top : w[k] = next[w[k - 1]] /\ w[k - 1] \in S
    <3> HIDE DEF next, S, x
    <3> QED
      BY <1>3 DEF Steps
  <2>2. w[0] = x
    BY <1>3 DEF Steps
  <2> HIDE DEF x
  <2> QED
    BY <2>1, <2>2
<1>6. \A n \in Nodes(G, r) : Size(c, n) = 2 * z[n] /\ Left(c, n) = l[n] /\ Right(c, n) = r[n] /\ n # Null
                             /\ z[n] \in Int
  <2> SUFFICES ASSUME NEW n \in Nodes(G, r)
               PROVE  Size(c, n) = 2 * z[n] /\ Left(c, n) = l[n] /\ Right(c, n) = r[n] /\ n # Null /\ z[n] \in Int
    OBVIOUS
  <2>1. n \in G /\ n # Null /\ z[n] \in Int
    BY <1>1, NodeBounds
  <2> QED
    BY <2>1, BecomesFields, SizeIsTwice DEF Shows
<1> DEFINE Fine(k) == \/ w[k][1] = Null /\ Fitting(G, r, z, a, w[k][2])
                      \/ /\ Midway(G, r, z, lo, hi, a, w[k][1], w[k][2])
                         /\ k + hi[w[k][1]] - lo[w[k][1]] <= Top
           Bad == {k \in 0 .. Top : ~Fine(k)}
<1>7. Fine(0)
  <2>1. w[0][1] = t /\ w[0][2] = Null
    BY <1>1, <1>5
  <2>2. CASE t = Null
    <3>1. Nodes(G, r) = {}
      BY <1>1, <2>2 DEF SearchTree, Linkage, Nodes
    <3> QED
      BY <2>1, <2>2, <3>1 DEF Fitting
  <2>3. CASE t # Null
    <3>1. t \in Nodes(G, r) /\ lo[t] = 0 /\ hi[t] = Top
      BY <1>1, <2>3 DEF SearchTree, Linkage, Ordered
    <3> QED
      BY <2>1, <3>1 DEF Midway
  <2> QED
    BY <2>2, <2>3
<1>8. \A n \in Nodes(G, r) : lo[n] \in Nat /\ hi[n] \in Nat /\ hi[n] - lo[n] >= 2
  BY <1>1, NodeBounds
<1>9. ASSUME NEW k \in 1 .. Top, Fine(k - 1) PROVE Fine(k)
  <2> DEFINE n == w[k - 1][1]
             g == w[k - 1][2]
  <2>1. w[k] = FitStep(c, a, n, g)
    BY <1>5
  <2>2. CASE n = Null /\ Fitting(G, r, z, a, g)
    <3>1. w[k] = <<Null, g>>
      BY <2>1, <2>2 DEF FitStep
    <3> QED
      BY <2>2, <3>1
  <2>3. CASE Midway(G, r, z, lo, hi, a, n, g) /\ k - 1 + hi[n] - lo[n] <= Top
    <3>1. n \in Nodes(G, r)
      BY <2>3 DEF Midway
    <3>2. Size(c, n) = 2 * z[n] /\ Left(c, n) = l[n] /\ Right(c, n) = r[n] /\ n # Null /\ z[n] \in Int
      BY <1>6, <3>1
    <3> HIDE DEF n, g
    <3>3. CASE a = 2 * z[n]
      <4>1. w[k] = <<Null, n>>
        BY <2>1, <3>2, <3>3 DEF FitStep
      <4> QED
        BY <1>1, <2>3, <3>3, <4>1, FitAdvances
    <3>4. CASE a < 2 * z[n]
      <4>1. w[k] = <<l[n], n>>
        BY <2>1, <3>2, <3>4 DEF FitStep
      <4>2. IF l[n] = Null THEN Fitting(G, r, z, a, n)
            ELSE Midway(G, r, z, lo, hi, a, l[n], n) /\ hi[l[n]] - lo[l[n]] < hi[n] - lo[n]
        BY <1>1, <2>3, <3>4, FitAdvances
      <4>3. l[n] # Null => l[n] \in Nodes(G, r)
        BY <4>2 DEF Midway
      <4> QED
        BY <1>8, <2>3, <3>1, <4>1, <4>2, <4>3
    <3>5. CASE a > 2 * z[n]
      <4>1. w[k] = <<r[n], g>>
        BY <2>1, <3>2, <3>5 DEF FitStep
      <4>2. IF r[n] = Null THEN Fitting(G, r, z, a, g)
            ELSE Midway(G, r, z, lo, hi, a, r[n], g) /\ hi[r[n]] - lo[r[n]] < hi[n] - lo[n]
        BY <1>1, <2>3, <3>5, FitAdvances
      <4>3. r[n] # Null => r[n] \in Nodes(G, r)
        BY <4>2 DEF Midway
      <4> QED
        BY <1>8, <2>3, <3>1, <4>1, <4>2, <4>3
    <3> QED
      BY <3>2, <3>3, <3>4, <3>5
  <2> QED
    BY <1>9, <2>2, <2>3
<1> HIDE DEF Fine
<1>10. Bad = {}
  <2> SUFFICES ASSUME Bad # {} PROVE FALSE
    OBVIOUS
  <2>1. Bad \in SUBSET Nat
    OBVIOUS
  <2>2. PICK k \in Bad : \A j \in Bad : k <= j
    <3> HIDE DEF Bad
    <3> QED
      BY <2>1, LeastOfSet
  <2>3. k # 0
    BY <1>7, <2>2
  <2>4. k \in 1 .. Top /\ Fine(k - 1)
    BY <2>2, <2>3
  <2> QED
    BY <1>9, <2>2, <2>4
<1>11. Fine(Top)
  BY <1>10
<1>12. ~(Midway(G, r, z, lo, hi, a, w[Top][1], w[Top][2]) /\ Top + hi[w[Top][1]] - lo[w[Top][1]] <= Top)
  BY <1>8 DEF Midway
<1> QED
  BY <1>4, <1>11, <1>12 DEF Fine

\* find_fit returns a free block of the least sufficient size.
LEMMA FitFound ==
  ASSUME NEW c \in Memory, NEW G, Placed(G), TreeOn(c, G), NEW a \in Int, a > 0, NEW f, f = find_fit(c, a)
  PROVE  /\ f = Null => \A b \in G : Size(c, b) < a
         /\ f # Null => f \in G /\ Size(c, f) >= a /\ \A b \in G : Size(c, b) >= a => Size(c, f) <= Size(c, b)
<1>1. PICK t, l, r, p, o, z, lo, hi, rk : Shows(c, G, t, l, r, p, o, z, lo, hi, rk) /\ t = c.my_tree
  BY ShowsTree
<1>2. Fitting(G, r, z, a, f)
  BY <1>1, FitIs
<1>3. Chained(G, l, r, o, z, rk) /\ SearchTree(G, t, l, r, p, z, lo, hi) /\ z \in [G -> Int] /\ Null \notin G
  BY <1>1 DEF Shows, Tree, SearchTree, Sized
<1>4. \A b \in G : /\ Size(c, b) = 2 * z[b] /\ z[b] \in Int
                   /\ \E n \in Nodes(G, r) : z[n] = z[b]
  <2> SUFFICES ASSUME NEW b \in G
               PROVE  Size(c, b) = 2 * z[b] /\ z[b] \in Int /\ \E n \in Nodes(G, r) : z[n] = z[b]
    OBVIOUS
  <2>1. Size(c, b) = 2 * z[b]
    BY <1>1, BecomesFields, SizeIsTwice DEF Shows
  <2> QED
    BY <1>3, <2>1, ChainHasNode
<1>5. Nodes(G, r) \subseteq G
  BY DEF Nodes
<1> QED
  BY <1>2, <1>3, <1>4, <1>5 DEF Fitting

-----------------------------------------------------------------------------
(* The blocks of the heap. B are blocks with headers and footers, which     *)
(* cover the heap from its first block to the break but for the gap between *)
(* x and y; there is no gap when x = y.                                     *)

\* The words around the blocks.
Walls(c) ==
  /\ c.brk \in First .. (Base + MaxHeap)
  /\ GET(c, First - 3) = PACK(2, 1) /\ GET(c, First - 2) = PACK(2, 1)
  /\ GET(c, HEAD(c.brk)) = PACK(0, 1)

Footed(c, B) == \A b \in B : GET(c, FOOT(c, b)) = GET(c, HEAD(b))

Outline(c, B, x, y) ==
  /\ B \subseteq Int /\ x \in Int /\ y \in B \cup {c.brk} /\ First <= x /\ x <= y
  /\ First \in B \cup {c.brk, x}
  /\ \A b \in B : /\ First <= b /\ Size(c, b) >= MIN
                  /\ NEXT_BLKP(c, b) <= c.brk /\ NEXT_BLKP(c, b) \in B \cup {c.brk, x}
                  /\ NEXT_BLKP(c, b) <= x \/ y <= b
  /\ \A b, k \in B : b < k => NEXT_BLKP(c, b) <= k
  /\ \A b \in B \cup {c.brk, x} : \/ b = First \/ (b = y /\ x < y)
                                  \/ \E k \in B : NEXT_BLKP(c, k) = b

Gap(c, B, x, y) == c \in Memory /\ Walls(c) /\ Footed(c, B) /\ Outline(c, B, x, y)

Tiling(c, B) == Gap(c, B, First, First)

\* The words of the blocks of X are the same in d.
Keeps(c, d, X) == \A b \in X : \A q \in HEAD(b) .. FOOT(c, b) : GET(d, q) = GET(c, q)

Idle(c, B) == {b \in B : ~Alloc(c, b)}
Held(c, B) == {b \in B : Alloc(c, b)}

\* Sizes and next blocks are integers in a memory.
LEMMA SizeIsInt == \A c \in Memory : \A b \in Int : Size(c, b) \in Int /\ NEXT_BLKP(c, b) \in Int
  BY WordsAreInt DEF Size, NEXT_BLKP

\* The blocks are apart, and inside of the arena.
LEMMA GapBlocks ==
  ASSUME NEW c, NEW B, NEW x, NEW y, Gap(c, B, x, y)
  PROVE  /\ c \in Memory /\ B \subseteq Int /\ c.brk \in Int /\ First \in Int /\ x \in Int /\ y \in Int
         /\ First <= x /\ x <= y /\ y <= c.brk
         /\ \A b \in B : /\ b \in Int /\ Size(c, b) \in Int /\ Size(c, b) >= MIN /\ First <= b
                         /\ NEXT_BLKP(c, b) = b + Size(c, b) /\ b + Size(c, b) <= c.brk
                         /\ HEAD(b) = b - 1 /\ FOOT(c, b) = b + Size(c, b) - 2
                         /\ b + Size(c, b) <= x \/ y <= b
         /\ \A b, k \in B : b < k => b + Size(c, b) <= k
<1>1. c \in Memory /\ B \subseteq Int /\ c.brk \in Int /\ First \in Int /\ x \in Int /\ First <= x /\ x <= y
  BY DEF Gap, Memory, Outline, First, Base
<1>2. \A b \in B : Size(c, b) \in Int
  BY <1>1, SizeIsInt
<1>3. y \in Int /\ y <= c.brk
  BY <1>1, <1>2 DEF Gap, Outline, NEXT_BLKP, MIN
<1> QED
  BY <1>1, <1>2, <1>3 DEF Gap, Outline, NEXT_BLKP, HEAD, FOOT

\* The blocks of a tiling have room for the links and sizes within the bound.
LEMMA BlocksPlaced ==
  ASSUME NEW c, NEW B, NEW x, NEW y, Gap(c, B, x, y), NEW F, F \subseteq B
  PROVE  Placed(F) /\ \A b \in F : Half(c, b) \in 1 .. (Top - 1) /\ Size(c, b) = 2 * Half(c, b)
<1>1. /\ B \subseteq Int /\ c.brk \in Int /\ c \in Memory
      /\ \A b \in B : Size(c, b) \in Int /\ Size(c, b) >= MIN /\ First <= b /\ b + Size(c, b) <= c.brk
      /\ \A b, k \in B : b < k => b + Size(c, b) <= k
  BY GapBlocks
<1>2. c.brk <= Base + MaxHeap /\ MaxHeap \in Nat
  BY MmAssumption DEF Gap, Walls, First, Base
<1>3. Placed(F)
  BY <1>1, <1>2 DEF Placed, MIN, Base
<1>4. ASSUME NEW b \in F PROVE Half(c, b) \in 1 .. (Top - 1) /\ Size(c, b) = 2 * Half(c, b)
  <2>1. Size(c, b) = 2 * Half(c, b) /\ Half(c, b) \in Int
    BY <1>1, SizeIsTwice, WordsAreInt DEF Half
  <2>2. Size(c, b) >= 6 /\ Size(c, b) <= MaxHeap - 4
    BY <1>1, <1>2 DEF MIN, First, Base
  <2> QED
    BY <1>2, <2>1, <2>2 DEF Top
<1> QED
  BY <1>3, <1>4

\* A memory with the same headers and footers.
LEMMA GapSame ==
  ASSUME NEW c, NEW B, NEW x, NEW y, Gap(c, B, x, y), NEW d \in Memory, d.brk = c.brk,
         GET(d, First - 3) = GET(c, First - 3), GET(d, First - 2) = GET(c, First - 2),
         GET(d, HEAD(c.brk)) = GET(c, HEAD(c.brk)),
         \A b \in B : GET(d, HEAD(b)) = GET(c, HEAD(b)) /\ GET(d, FOOT(c, b)) = GET(c, FOOT(c, b))
  PROVE  /\ Gap(d, B, x, y)
         /\ \A b \in B \cup {c.brk} : /\ Size(d, b) = Size(c, b) /\ (Alloc(d, b) <=> Alloc(c, b))
                                      /\ NEXT_BLKP(d, b) = NEXT_BLKP(c, b)
         /\ Idle(d, B) = Idle(c, B) /\ Held(d, B) = Held(c, B)
<1>1. \A b \in B \cup {c.brk} : /\ Size(d, b) = Size(c, b) /\ (Alloc(d, b) <=> Alloc(c, b))
                                /\ NEXT_BLKP(d, b) = NEXT_BLKP(c, b) /\ FOOT(d, b) = FOOT(c, b)
  BY DEF Size, Alloc, NEXT_BLKP, FOOT
<1>2. Walls(d)
  BY DEF Gap, Walls
<1>3. Footed(d, B)
  BY <1>1 DEF Gap, Footed
<1>4. Outline(d, B, x, y)
  <2>1. Outline(c, B, x, y)
    BY DEF Gap
  <2> QED
    BY <1>1, <2>1 DEF Outline
<1>5. Idle(d, B) = Idle(c, B) /\ Held(d, B) = Held(c, B)
  BY <1>1 DEF Idle, Held
<1> QED
  BY <1>1, <1>2, <1>3, <1>4, <1>5 DEF Gap

\* The headers of the blocks say the same.
Alike(c, d, B) ==
  /\ \A b \in B \cup {c.brk} : /\ Size(d, b) = Size(c, b) /\ (Alloc(d, b) <=> Alloc(c, b))
                               /\ NEXT_BLKP(d, b) = NEXT_BLKP(c, b)
  /\ Idle(d, B) = Idle(c, B) /\ Held(d, B) = Held(c, B)

\* The links of a block are between its header and its footer.
LEMMA GapEdited ==
  ASSUME NEW c, NEW B, NEW x, NEW y, Gap(c, B, x, y), NEW F, F \subseteq B, NEW d, Edited(c, d, F)
  PROVE  Gap(d, B, x, y) /\ Alike(c, d, B) /\ Keeps(c, d, B \ F) /\ d.brk = c.brk /\ d.up = c.up
<1>1. d \in Memory /\ d.brk = c.brk /\ d.up = c.up /\ \A q \in Int : q \notin LinkWords(F) => GET(d, q) = GET(c, q)
  BY DEF Edited
<1>2. /\ c \in Memory /\ B \subseteq Int /\ c.brk \in Int /\ First \in Int
      /\ \A b \in B : /\ b \in Int /\ Size(c, b) \in Int /\ Size(c, b) >= MIN /\ First <= b
                      /\ b + Size(c, b) <= c.brk
                      /\ HEAD(b) = b - 1 /\ FOOT(c, b) = b + Size(c, b) - 2
      /\ \A b, k \in B : b < k => b + Size(c, b) <= k
  BY GapBlocks
<1>3. ASSUME NEW q \in Int, \A f \in F : q < f \/ f + 3 < q PROVE GET(d, q) = GET(c, q)
  <2>1. q \notin LinkWords(F)
    BY <1>2, <1>3 DEF LinkWords
  <2> QED
    BY <1>1, <2>1
<1>4. /\ GET(d, First - 3) = GET(c, First - 3) /\ GET(d, First - 2) = GET(c, First - 2)
      /\ GET(d, HEAD(c.brk)) = GET(c, HEAD(c.brk))
  <2>1. \A f \in F : First - 3 < f /\ First - 2 < f /\ f + 3 < c.brk - 1
    BY <1>2 DEF MIN
  <2> QED
    BY <1>2, <1>3, <2>1 DEF HEAD
<1>5. \A b \in B : GET(d, HEAD(b)) = GET(c, HEAD(b)) /\ GET(d, FOOT(c, b)) = GET(c, FOOT(c, b))
  <2> SUFFICES ASSUME NEW b \in B
               PROVE  GET(d, b - 1) = GET(c, b - 1) /\ GET(d, b + Size(c, b) - 2) = GET(c, b + Size(c, b) - 2)
    BY <1>2
  <2>1. \A f \in F : /\ b - 1 < f \/ f + 3 < b - 1
                     /\ b + Size(c, b) - 2 < f \/ f + 3 < b + Size(c, b) - 2
    BY <1>2 DEF MIN
  <2> QED
    BY <1>2, <1>3, <2>1
<1>6. Keeps(c, d, B \ F)
  <2> SUFFICES ASSUME NEW b \in B \ F, NEW q \in (b - 1) .. (b + Size(c, b) - 2) PROVE GET(d, q) = GET(c, q)
    BY <1>2 DEF Keeps
  <2>1. \A f \in F : q < f \/ f + 3 < q
    BY <1>2 DEF MIN
  <2> QED
    BY <1>2, <1>3, <2>1
<1>7. Gap(d, B, x, y) /\ Alike(c, d, B)
  <2>1. d \in Memory /\ d.brk = c.brk
    BY <1>1
  <2> QED
    BY <1>4, <1>5, <2>1, GapSame DEF Alike
<1> QED
  BY <1>1, <1>6, <1>7

\* Without a gap, its place does not matter.
LEMMA GapMoves ==
  ASSUME NEW c, NEW B, NEW x, Gap(c, B, x, x), NEW y \in B \cup {c.brk}
  PROVE  Gap(c, B, y, y)
<1>1. /\ c \in Memory /\ B \subseteq Int /\ c.brk \in Int /\ First \in Int /\ x \in Int /\ First <= x /\ x <= c.brk
      /\ \A b \in B : /\ b \in Int /\ Size(c, b) \in Int /\ Size(c, b) >= MIN /\ First <= b
                      /\ NEXT_BLKP(c, b) = b + Size(c, b) /\ b + Size(c, b) <= c.brk
      /\ \A b, k \in B : b < k => b + Size(c, b) <= k
  BY GapBlocks
<1>2. Outline(c, B, x, x) /\ x \in B \cup {c.brk}
  BY DEF Gap, Outline
<1>3. First \in B \cup {c.brk, y} /\ y \in Int /\ First <= y
  BY <1>1, <1>2 DEF Outline
<1>4. \A b \in B : NEXT_BLKP(c, b) \in B \cup {c.brk, y} /\ (NEXT_BLKP(c, b) <= y \/ y <= b)
  <2> SUFFICES ASSUME NEW b \in B PROVE NEXT_BLKP(c, b) \in B \cup {c.brk, y} /\ (NEXT_BLKP(c, b) <= y \/ y <= b)
    OBVIOUS
  <2>1. NEXT_BLKP(c, b) \in B \cup {c.brk}
    BY <1>2 DEF Outline
  <2>2. NEXT_BLKP(c, b) <= y \/ y <= b
    BY <1>1, <1>3
  <2> QED
    BY <2>1, <2>2
<1>5. \A b \in B \cup {c.brk, y} : b = First \/ \E k \in B : NEXT_BLKP(c, k) = b
  BY <1>1, <1>2 DEF Outline
<1>6. Outline(c, B, y, y)
  BY <1>1, <1>2, <1>3, <1>4, <1>5 DEF Outline
<1> QED
  BY <1>6 DEF Gap

\* The gap takes the block behind it.
LEMMA GapOpensNext ==
  ASSUME NEW c, NEW B, NEW x, NEW y, Gap(c, B, x, y), y \in B
  PROVE  Gap(c, B \ {y}, x, NEXT_BLKP(c, y)) /\ x < NEXT_BLKP(c, y)
<1> DEFINE z == NEXT_BLKP(c, y)
           D == B \ {y}
<1>1. /\ c \in Memory /\ B \subseteq Int /\ c.brk \in Int /\ First \in Int /\ x \in Int /\ y \in Int
      /\ First <= x /\ x <= y /\ y <= c.brk
      /\ \A b \in B : /\ b \in Int /\ Size(c, b) \in Int /\ Size(c, b) >= MIN /\ First <= b
                      /\ NEXT_BLKP(c, b) = b + Size(c, b) /\ b + Size(c, b) <= c.brk
                      /\ b + Size(c, b) <= x \/ y <= b
      /\ \A b, k \in B : b < k => b + Size(c, b) <= k
  BY GapBlocks
<1>2. z \in Int /\ z > y /\ z <= c.brk /\ z = y + Size(c, y) /\ Size(c, y) >= 6 /\ x < z
  BY <1>1 DEF MIN
<1>3. /\ First \in B \cup {c.brk, x}
      /\ \A b \in B : NEXT_BLKP(c, b) \in B \cup {c.brk, x}
      /\ \A b \in B \cup {c.brk, x} : b = First \/ (b = y /\ x < y) \/ \E k \in B : NEXT_BLKP(c, k) = b
  BY DEF Gap, Outline
<1>4. z \in D \cup {c.brk}
  BY <1>1, <1>2, <1>3
<1>5. First \in D \cup {c.brk, x}
  BY <1>1, <1>3
<1>6. \A b \in D : NEXT_BLKP(c, b) \in D \cup {c.brk, x} /\ (NEXT_BLKP(c, b) <= x \/ z <= b)
  <2> SUFFICES ASSUME NEW b \in D PROVE NEXT_BLKP(c, b) \in D \cup {c.brk, x} /\ (NEXT_BLKP(c, b) <= x \/ z <= b)
    OBVIOUS
  <2>1. NEXT_BLKP(c, b) <= x \/ z <= b
    BY <1>1, <1>2
  <2>2. NEXT_BLKP(c, b) = y => y = x
    BY <1>1, <1>2, <2>1 DEF MIN
  <2> QED
    BY <1>3, <2>1, <2>2
<1>7. \A b \in D \cup {c.brk, x} : b = First \/ (b = z /\ x < z) \/ \E k \in D : NEXT_BLKP(c, k) = b
  <2> SUFFICES ASSUME NEW b \in D \cup {c.brk, x}, b # First, b # z
               PROVE  \E k \in D : NEXT_BLKP(c, k) = b
    BY <1>2
  <2>1. ~(b = y /\ x < y)
    BY <1>1, <1>2
  <2>2. PICK k \in B : NEXT_BLKP(c, k) = b
    BY <1>3, <2>1
  <2> QED
    BY <2>2
<1> HIDE DEF z, D
<1>8. Outline(c, D, x, z)
  <2>1. D \subseteq B
    BY DEF D
  <2> QED
    BY <1>1, <1>2, <1>4, <1>5, <1>6, <1>7, <2>1 DEF Outline
<1>9. Footed(c, D)
  BY DEF Gap, Footed, D
<1> QED
  BY <1>2, <1>8, <1>9 DEF Gap, D, z

\* The gap takes the block before it.
LEMMA GapOpensPrev ==
  ASSUME NEW c, NEW B, NEW x, NEW y, Gap(c, B, x, y), NEW k \in B, NEXT_BLKP(c, k) = x
  PROVE  Gap(c, B \ {k}, k, y) /\ k < y
<1> DEFINE D == B \ {k}
<1>1. /\ c \in Memory /\ B \subseteq Int /\ c.brk \in Int /\ First \in Int /\ x \in Int /\ y \in Int
      /\ First <= x /\ x <= y /\ y <= c.brk
      /\ \A b \in B : /\ b \in Int /\ Size(c, b) \in Int /\ Size(c, b) >= MIN /\ First <= b
                      /\ NEXT_BLKP(c, b) = b + Size(c, b) /\ b + Size(c, b) <= c.brk
                      /\ b + Size(c, b) <= x \/ y <= b
      /\ \A b, j \in B : b < j => b + Size(c, b) <= j
  BY GapBlocks
<1>2. k \in Int /\ x = k + Size(c, k) /\ Size(c, k) >= 6 /\ k < x /\ k < y /\ First <= k
  BY <1>1 DEF MIN
<1>3. /\ y \in B \cup {c.brk} /\ First \in B \cup {c.brk, x}
      /\ \A b \in B : NEXT_BLKP(c, b) \in B \cup {c.brk, x}
      /\ \A b \in B \cup {c.brk, x} : b = First \/ (b = y /\ x < y) \/ \E j \in B : NEXT_BLKP(c, j) = b
  BY DEF Gap, Outline
<1>4. y \in D \cup {c.brk}
  BY <1>2, <1>3
<1>5. First \in D \cup {c.brk, k}
  BY <1>1, <1>2, <1>3
<1>6. \A b \in D : /\ NEXT_BLKP(c, b) <= k \/ y <= b
                   /\ NEXT_BLKP(c, b) # x
  BY <1>1, <1>2 DEF MIN
<1>7. \A b \in D : NEXT_BLKP(c, b) \in D \cup {c.brk, k}
  BY <1>3, <1>6
<1>8. \A b \in D \cup {c.brk, k} : b = First \/ (b = y /\ k < y) \/ \E j \in D : NEXT_BLKP(c, j) = b
  <2> SUFFICES ASSUME NEW b \in D \cup {c.brk, k}, b # First, b # y
               PROVE  \E j \in D : NEXT_BLKP(c, j) = b
    BY <1>2
  <2>1. PICK j \in B : NEXT_BLKP(c, j) = b
    BY <1>3
  <2>2. j # k
    <3>1. ASSUME j = k PROVE FALSE
      <4>1. b = x /\ b # k
        BY <1>2, <2>1, <3>1
      <4>2. b \in B \/ b = c.brk
        BY <4>1
      <4>3. ~(x < y)
        BY <1>1, <1>2, <4>1, <4>2 DEF MIN
      <4> QED
        BY <1>1, <4>1, <4>3
    <3> QED
      BY <3>1
  <2> QED
    BY <2>1, <2>2
<1> HIDE DEF D
<1>9. Outline(c, D, k, y)
  <2>1. D \subseteq B
    BY DEF D
  <2> QED
    BY <1>1, <1>2, <1>4, <1>5, <1>6, <1>7, <1>8, <2>1 DEF Outline
<1>10. Footed(c, D)
  BY DEF Gap, Footed, D
<1> QED
  BY <1>2, <1>9, <1>10 DEF Gap, D

-----------------------------------------------------------------------------
(* Blocks that are cut from the gap, and those next to it. *)

\* Tags are two writes.
LEMMA TaggedWords ==
  ASSUME NEW c \in Memory, NEW x \in Int, NEW s \in Int, MIN <= s, x - 1 \in Cell, x + s - 2 \in Cell,
         NEW a \in {0, 1}, NEW d, d = Tagged(c, x, s, a)
  PROVE  /\ d \in Memory /\ d.my_tree = c.my_tree /\ d.brk = c.brk /\ d.up = c.up
         /\ \A q \in Int : GET(d, q) = IF q = x - 1 \/ q = x + s - 2 THEN PACK(s, a) ELSE GET(c, q)
<1>1. MaxHeap \in Nat
  BY MmAssumption
<1>2. PACK(s, a) \in -1 .. (Base + MaxHeap)
  BY <1>1 DEF PACK, Cell, Base, MIN
<1>3. PACK(s, a) \in Word
  BY <1>2, AddressIsWord
<1> DEFINE e == c ## <<x - 1, PACK(s, a)>>
           p == x + s - 2
<1>4. /\ e \in Memory /\ e.my_tree = c.my_tree /\ e.brk = c.brk /\ e.up = c.up
      /\ \A q \in Int : GET(e, q) = IF q = x - 1 THEN PACK(s, a) ELSE GET(c, q)
  BY <1>3, WriteCell
<1>5. d = e ## <<p, PACK(s, a)>>
  BY DEF Tagged, HEAD
<1> HIDE DEF e
<1>6. /\ d \in Memory /\ d.my_tree = e.my_tree /\ d.brk = e.brk /\ d.up = e.up
      /\ \A q \in Int : GET(d, q) = IF q = p THEN PACK(s, a) ELSE GET(e, q)
  BY <1>3, <1>4, <1>5, WriteCell
<1> QED
  BY <1>4, <1>6

\* d is c but for the header and the footer of a block x of s words, which is none of B.
Cut(c, d, B, x, s) ==
  /\ x \notin B /\ Size(d, x) = s
  /\ \A b \in B \cup {c.brk} : /\ Size(d, b) = Size(c, b) /\ (Alloc(d, b) <=> Alloc(c, b))
                               /\ NEXT_BLKP(d, b) = NEXT_BLKP(c, b)
  /\ \A q \in Int : q # x - 1 /\ q # x + s - 2 => GET(d, q) = GET(c, q)
  /\ Keeps(c, d, B) /\ d.my_tree = c.my_tree /\ d.brk = c.brk /\ d.up = c.up

\* A block of s words at the start of the gap.
LEMMA Cover ==
  ASSUME NEW c, NEW B, NEW x, NEW y, Gap(c, B, x, y),
         NEW s \in Int, s % 2 = 0, MIN <= s, x + s <= y, NEW a \in {0, 1}, NEW d, d = Tagged(c, x, s, a),
         NEW E, E = B \cup {x}
  PROVE  Gap(d, E, x + s, y) /\ (Alloc(d, x) <=> a = 1) /\ Cut(c, d, B, x, s)
<1>1. /\ c \in Memory /\ B \subseteq Int /\ c.brk \in Int /\ First \in Int /\ x \in Int /\ y \in Int
      /\ First <= x /\ x <= y /\ y <= c.brk
      /\ \A b \in B : /\ b \in Int /\ Size(c, b) \in Int /\ Size(c, b) >= MIN /\ First <= b
                      /\ NEXT_BLKP(c, b) = b + Size(c, b) /\ b + Size(c, b) <= c.brk
                      /\ HEAD(b) = b - 1 /\ FOOT(c, b) = b + Size(c, b) - 2
                      /\ b + Size(c, b) <= x \/ y <= b
      /\ \A b, k \in B : b < k => b + Size(c, b) <= k
  BY GapBlocks
<1>2. c.brk <= Base + MaxHeap /\ MaxHeap \in Nat
  BY MmAssumption DEF Gap, Walls, First, Base
<1>3. x - 1 \in Cell /\ x + s - 2 \in Cell
  BY <1>1, <1>2 DEF Cell, First, Base, MIN
<1>4. /\ d \in Memory /\ d.my_tree = c.my_tree /\ d.brk = c.brk /\ d.up = c.up
      /\ \A q \in Int : GET(d, q) = IF q = x - 1 \/ q = x + s - 2 THEN PACK(s, a) ELSE GET(c, q)
  BY <1>1, <1>3, TaggedWords
<1>5. \A q \in Int : q # x - 1 /\ q # x + s - 2 => GET(d, q) = GET(c, q)
  BY <1>4
<1>6. GET(d, x - 1) = PACK(s, a) /\ GET(d, x + s - 2) = PACK(s, a)
  BY <1>1, <1>4
<1>7. Size(d, x) = s /\ (Alloc(d, x) <=> a = 1)
  <2>1. 2 * (PACK(s, a) \div 2) = s /\ PACK(s, a) % 2 = a
    BY PackedTag
  <2> QED
    BY <1>6, <2>1 DEF Size, Alloc, HEAD
<1>8. /\ GET(d, First - 3) = GET(c, First - 3) /\ GET(d, First - 2) = GET(c, First - 2)
      /\ GET(d, HEAD(c.brk)) = GET(c, HEAD(c.brk))
  BY <1>1, <1>5 DEF MIN, HEAD
<1>9. \A b \in B : \A q \in HEAD(b) .. FOOT(c, b) : GET(d, q) = GET(c, q)
  <2> SUFFICES ASSUME NEW b \in B, NEW q \in (b - 1) .. (b + Size(c, b) - 2) PROVE GET(d, q) = GET(c, q)
    BY <1>1
  <2>1. b + Size(c, b) <= x \/ y <= b
    BY <1>1
  <2>2. q # x - 1 /\ q # x + s - 2
    BY <1>1, <2>1 DEF MIN
  <2> QED
    BY <1>5, <2>2
<1>10. \A b \in B : GET(d, HEAD(b)) = GET(c, HEAD(b)) /\ GET(d, FOOT(c, b)) = GET(c, FOOT(c, b))
  <2> SUFFICES ASSUME NEW b \in B PROVE GET(d, HEAD(b)) = GET(c, HEAD(b)) /\ GET(d, FOOT(c, b)) = GET(c, FOOT(c, b))
    OBVIOUS
  <2>1. HEAD(b) \in HEAD(b) .. FOOT(c, b) /\ FOOT(c, b) \in HEAD(b) .. FOOT(c, b)
    BY <1>1 DEF MIN
  <2> QED
    BY <1>9, <2>1
<1>11. /\ Gap(d, B, x, y)
       /\ \A b \in B \cup {c.brk} : /\ Size(d, b) = Size(c, b) /\ (Alloc(d, b) <=> Alloc(c, b))
                                    /\ NEXT_BLKP(d, b) = NEXT_BLKP(c, b)
  <2>1. d \in Memory /\ d.brk = c.brk
    BY <1>4
  <2> QED
    BY <1>8, <1>10, <2>1, GapSame
<1>12. x \notin B
  BY <1>1 DEF MIN
<1> DEFINE z == x + s
<1>13. z \in Int /\ x + 6 <= z /\ z <= y /\ NEXT_BLKP(d, x) = z /\ Size(d, x) = s
  BY <1>1, <1>7 DEF MIN, NEXT_BLKP
<1>14. /\ B \subseteq Int /\ x \in Int /\ y \in B \cup {d.brk} /\ First <= x /\ x <= y
       /\ First \in B \cup {d.brk, x}
       /\ \A b \in B : /\ First <= b /\ Size(d, b) >= MIN /\ NEXT_BLKP(d, b) <= d.brk
                       /\ NEXT_BLKP(d, b) \in B \cup {d.brk, x}
                       /\ NEXT_BLKP(d, b) <= x \/ y <= b
       /\ \A b, k \in B : b < k => NEXT_BLKP(d, b) <= k
       /\ \A b \in B \cup {d.brk, x} : \/ b = First \/ (b = y /\ x < y)
                                       \/ \E k \in B : NEXT_BLKP(d, k) = b
  BY <1>11 DEF Gap, Outline
<1>15. \A b \in B : NEXT_BLKP(d, b) \in Int /\ b < NEXT_BLKP(d, b)
  BY <1>1, <1>11 DEF MIN
<1> HIDE DEF z
<1>16. Outline(d, E, z, y)
  <2>1. E \subseteq Int /\ y \in E \cup {d.brk} /\ First <= z /\ First \in E \cup {d.brk, z}
    BY <1>1, <1>13, <1>14
  <2>2. \A b \in E : /\ First <= b /\ Size(d, b) >= MIN
                     /\ NEXT_BLKP(d, b) <= d.brk /\ NEXT_BLKP(d, b) \in E \cup {d.brk, z}
                     /\ NEXT_BLKP(d, b) <= z \/ y <= b
    <3> SUFFICES ASSUME NEW b \in E
                 PROVE  /\ First <= b /\ Size(d, b) >= MIN
                        /\ NEXT_BLKP(d, b) <= d.brk /\ NEXT_BLKP(d, b) \in E \cup {d.brk, z}
                        /\ NEXT_BLKP(d, b) <= z \/ y <= b
      OBVIOUS
    <3>1. CASE b = x
      BY <1>1, <1>4, <1>13, <3>1
    <3>2. CASE b \in B
      BY <1>1, <1>13, <1>14, <1>15, <3>2
    <3> QED
      BY <3>1, <3>2
  <2>3. ASSUME NEW b \in E, NEW k \in E, b < k PROVE NEXT_BLKP(d, b) <= k
    <3>1. CASE b \in B /\ k \in B
      BY <1>14, <2>3, <3>1
    <3>2. CASE b = x
      BY <1>1, <1>13, <1>14, <1>15, <2>3, <3>2
    <3>3. CASE b \in B /\ k = x
      BY <1>1, <1>14, <1>15, <2>3, <3>3
    <3> QED
      BY <3>1, <3>2, <3>3
  <2>4. ASSUME NEW b \in E \cup {d.brk, z}
        PROVE  b = First \/ (b = y /\ z < y) \/ \E k \in E : NEXT_BLKP(d, k) = b
    <3>1. CASE b = z
      BY <1>13, <3>1
    <3>2. CASE b = y
      BY <1>1, <1>13, <3>2
    <3>3. CASE b # z /\ b # y
      BY <1>14, <3>3
    <3> QED
      BY <3>1, <3>2, <3>3
  <2> QED
    BY <1>13, <2>1, <2>2, <2>3, <2>4 DEF Outline
<1>17. Footed(d, E)
  <2>1. Footed(d, B)
    BY <1>11 DEF Gap
  <2>2. GET(d, FOOT(d, x)) = GET(d, HEAD(x))
    BY <1>6, <1>7 DEF FOOT, HEAD
  <2> QED
    BY <2>1, <2>2 DEF Footed
<1>18. Gap(d, E, x + s, y)
  BY <1>11, <1>16, <1>17 DEF Gap, z
<1> QED
  BY <1>4, <1>5, <1>7, <1>9, <1>11, <1>12, <1>18 DEF Keeps, Cut

\* The footer before a block leads to the block before.
LEMMA AtPrev ==
  ASSUME NEW c, NEW B, NEW x, NEW y, Gap(c, B, x, y),
         NEW b \in B \cup {c.brk, x}, b # First, ~(b = y /\ x < y), NEW p, p = PREV_BLKP(c, b)
  PROVE  p \in B /\ NEXT_BLKP(c, p) = b /\ p < b
<1>1. PICK k \in B : NEXT_BLKP(c, k) = b
  BY DEF Gap, Outline
<1>2. /\ c \in Memory /\ k \in Int /\ Size(c, k) \in Int /\ Size(c, k) >= MIN
      /\ b = k + Size(c, k) /\ FOOT(c, k) = k + Size(c, k) - 2
  BY <1>1, GapBlocks
<1>3. FOOT(c, k) = b - 2
  BY <1>2
<1>4. GET(c, b - 2) = GET(c, HEAD(k))
  BY <1>3 DEF Gap, Footed
<1>5. p = b - Size(c, k)
  BY <1>4 DEF PREV_BLKP, Size
<1>6. p = k
  BY <1>2, <1>5
<1> QED
  BY <1>1, <1>2, <1>6 DEF MIN

\* The block before the first one is the allocated prologue.
LEMMA AtFirst ==
  ASSUME NEW c, Walls(c), NEW p, p = PREV_BLKP(c, First)
  PROVE  Alloc(c, p) /\ p = First - 2
<1>1. GET(c, First - 2) = 3 /\ GET(c, First - 3) = 3
  BY DEF Walls, PACK
<1>2. p = First - 2 * (3 \div 2)
  BY <1>1 DEF PREV_BLKP
<1>3. p = First - 2 /\ HEAD(p) = First - 3
  BY <1>2 DEF HEAD, First, Base
<1> QED
  BY <1>1, <1>3 DEF Alloc

\* The block behind the last one is the allocated epilogue.
LEMMA AtEnd ==
  ASSUME NEW c, Walls(c) PROVE Alloc(c, c.brk)
  BY DEF Walls, Alloc, PACK

\* The tree is in the words of its blocks.
LEMMA TreeStays ==
  ASSUME NEW c, NEW B, NEW x, NEW y, Gap(c, B, x, y), NEW G, G \subseteq B, TreeOn(c, G),
         NEW d, d.my_tree = c.my_tree, Keeps(c, d, B)
  PROVE  TreeOn(d, G)
<1>1. ASSUME NEW b \in G, NEW j \in -1 .. 3 PROVE GET(d, b + j) = GET(c, b + j)
  <2>1. b \in B /\ b \in Int /\ Size(c, b) \in Int /\ Size(c, b) >= MIN /\ HEAD(b) = b - 1
        /\ FOOT(c, b) = b + Size(c, b) - 2
    BY GapBlocks
  <2>2. b + j \in HEAD(b) .. FOOT(c, b)
    BY <2>1 DEF MIN
  <2> QED
    BY <2>1, <2>2 DEF Keeps
<1>2. G \subseteq Int
  BY GapBlocks
<1>3. ASSUME NEW b \in G
      PROVE  /\ Half(d, b) = Half(c, b)
             /\ Left(d, b) = Left(c, b) /\ Right(d, b) = Right(c, b)
             /\ Par(d, b) = Par(c, b) /\ Bro(d, b) = Bro(c, b)
  <2>0. -1 \in -1 .. 3 /\ 0 \in -1 .. 3 /\ 1 \in -1 .. 3 /\ 2 \in -1 .. 3 /\ 3 \in -1 .. 3
    OBVIOUS
  <2>1. /\ GET(d, b + (-1)) = GET(c, b + (-1)) /\ GET(d, b + 0) = GET(c, b + 0) /\ GET(d, b + 1) = GET(c, b + 1)
        /\ GET(d, b + 2) = GET(c, b + 2) /\ GET(d, b + 3) = GET(c, b + 3)
    BY <1>1, <2>0
  <2>2. b + (-1) = b - 1 /\ b + 0 = b
    BY <1>2
  <2> QED
    BY <2>1, <2>2 DEF Half, Left, Right, Par, Bro, HEAD, LEFT, RIGHT, PRNT, BROS
<1> QED
  BY <1>3, TreeKept

-----------------------------------------------------------------------------
(* Blocks join the gap and are cut from it. *)

\* The free blocks are in the tree, no two of them next to each other.
Heap(c, B) ==
  /\ Tiling(c, B) /\ c.up /\ TreeOn(c, Idle(c, B))
  /\ \A b \in Idle(c, B) : Alloc(c, NEXT_BLKP(c, b))

\* The same around a gap, which no free block touches.
Loose(c, B, x, y) ==
  /\ Gap(c, B, x, y) /\ c.up /\ TreeOn(c, Idle(c, B)) /\ Alloc(c, y)
  /\ \A b \in Idle(c, B) : NEXT_BLKP(c, b) # x /\ Alloc(c, NEXT_BLKP(c, b))

\* DeleteIfFree takes a neighbour out of the tree if it is free.
LEMMA DeletedIfFree ==
  ASSUME NEW c, NEW B, NEW x, NEW y, Gap(c, B, x, y), NEW G, G \subseteq Idle(c, B), TreeOn(c, G),
         NEW b, b \in G \/ Alloc(c, b), NEW d, d = DeleteIfFree(c, b), NEW H, H = G \ {b}
  PROVE  TreeOn(d, H) /\ Edited(c, d, G) /\ Own(c, d, b)
<1>1. c \in Memory /\ G \subseteq B /\ \A k \in G : ~Alloc(c, k)
  BY GapBlocks DEF Idle
<1>2. CASE Alloc(c, b)
  <2>1. d = c /\ H = G
    BY <1>1, <1>2 DEF DeleteIfFree
  <2> QED
    BY <1>1, <2>1 DEF Edited, Own
<1>3. CASE ~Alloc(c, b)
  <2>1. d = delete_node(c, b) /\ b \in G
    BY <1>3 DEF DeleteIfFree
  <2>2. Placed(G)
    BY <1>1, BlocksPlaced
  <2> QED
    BY <1>1, <2>1, <2>2, DeleteNode
<1> QED
  BY <1>2, <1>3

\* An edit of the links of F is one of the links of a larger set.
LEMMA EditedMore ==
  ASSUME NEW c, NEW d, NEW F, NEW G, F \subseteq G, Edited(c, d, F)
  PROVE  Edited(c, d, G)
  BY DEF Edited, LinkWords

\* u is c without the block b and its free neighbours, which leave the gap from x to y.
Loosens(c, u, B, E, b, x, y) ==
  /\ Loose(u, E, x, y) /\ y - x = Room(c, b) /\ Room(c, b) % 2 = 0 /\ Room(c, b) >= Size(c, b)
  /\ Held(u, E) = Held(c, B) \ {b} /\ Keeps(c, u, Held(c, B) \cup {b}) /\ u.brk = c.brk
  /\ x = b \/ (x \notin Held(c, B) /\ x \in B)

\* Unlinked turns a block and its free neighbours into a gap that no free block touches.
LEMMA Loosened ==
  ASSUME NEW c, NEW B, NEW z, Gap(c, B, z, z), c.up, NEW b \in B, NEW G, G = Idle(c, B) \ {b}, TreeOn(c, G),
         \A k \in G : NEXT_BLKP(c, k) = b \/ Alloc(c, NEXT_BLKP(c, k)),
         NEW n, n = NEXT_BLKP(c, b), NEW p, p = PREV_BLKP(c, b),
         NEW u, u = Unlinked(c, b), NEW x, x = (IF Alloc(c, p) THEN b ELSE p), NEW y, y = n + FreeSize(c, n)
  PROVE  \E E : Loosens(c, u, B, E, b, x, y)
<1> DEFINE A == Idle(c, B)
           D == B \ {b}
           H == G \ {n, p}
           E == D \ (G \cap {n, p})
<1>1. /\ c \in Memory /\ B \subseteq Int /\ c.brk \in Int /\ First \in Int
      /\ \A k \in B : /\ k \in Int /\ Size(c, k) \in Int /\ Size(c, k) >= MIN /\ First <= k
                      /\ NEXT_BLKP(c, k) = k + Size(c, k) /\ k + Size(c, k) <= c.brk
                      /\ HEAD(k) = k - 1 /\ FOOT(c, k) = k + Size(c, k) - 2
      /\ \A j, k \in B : j < k => j + Size(c, j) <= k
  BY GapBlocks
<1>2. Walls(c) /\ n \in B \cup {c.brk} /\ n = b + Size(c, b) /\ b < n /\ n \in Int
  <2>1. Gap(c, B, b, b)
    BY GapMoves
  <2> QED
    BY <1>1, <2>1 DEF Gap, Outline, MIN
<1>3. (b = First => Alloc(c, p) /\ p = b - 2) /\ (b # First => p \in B /\ NEXT_BLKP(c, p) = b /\ p < b)
  <2>1. CASE b = First
    BY <1>1, <1>2, <2>1, AtFirst
  <2>2. CASE b # First
    <3>1. Gap(c, B, b, b)
      BY GapMoves
    <3> QED
      BY <1>1, <2>2, <3>1, AtPrev
  <2> QED
    BY <2>1, <2>2
<1>4. p < b /\ p # n /\ p \in Int
  <2>1. b \in Int /\ n \in Int /\ b < n
    BY <1>1, <1>2
  <2>2. CASE b = First
    <3>1. p = b - 2
      BY <1>3, <2>2
    <3> QED
      BY <2>1, <3>1
  <2>3. CASE b # First
    <3>1. p \in Int /\ p < b
      BY <1>1, <1>3, <2>3
    <3> QED
      BY <2>1, <3>1
  <2> QED
    BY <2>2, <2>3
<1>5. (n \in G \/ Alloc(c, n)) /\ (n \in G => ~Alloc(c, n)) /\ (p \in G \/ Alloc(c, p)) /\ (p \in G => ~Alloc(c, p))
  BY <1>1, <1>2, <1>3, <1>4, AtEnd DEF Idle
<1> DEFINE v == DeleteIfFree(c, n)
<1>6. TreeOn(v, G \ {n}) /\ Edited(c, v, G)
  <2>1. G \subseteq Idle(c, B)
    OBVIOUS
  <2> QED
    BY <1>5, <2>1, DeletedIfFree
<1>7. /\ Gap(v, B, z, z)
      /\ \A k \in B \cup {c.brk} : Size(v, k) = Size(c, k) /\ (Alloc(v, k) <=> Alloc(c, k))
      /\ Idle(v, B) = Idle(c, B)
  <2>1. G \subseteq B
    BY DEF Idle
  <2>2. Gap(v, B, z, z) /\ Alike(c, v, B)
    BY <1>6, <2>1, GapEdited
  <2> QED
    BY <2>2 DEF Alike
<1>8. PREV_BLKP(c, b) = p /\ u = DeleteIfFree(v, p)
  BY DEF Unlinked
<1>9. p \in G \ {n} \/ Alloc(v, p)
  <2>1. CASE b = First
    <3>1. Walls(v) /\ p = PREV_BLKP(c, First) /\ p = First - 2
      BY <1>3, <1>7, <2>1 DEF Gap
    <3>2. p = PREV_BLKP(v, First)
      <4>1. Walls(c)
        BY <1>2
      <4>2. PREV_BLKP(v, First) = First - 2
        BY <3>1, AtFirst
      <4> QED
        BY <3>1, <4>2
    <3> QED
      BY <3>1, <3>2, AtFirst
  <2>2. CASE b # First
    BY <1>3, <1>4, <1>5, <1>7, <2>2
  <2> QED
    BY <2>1, <2>2
<1> HIDE DEF v
<1>10. TreeOn(u, H) /\ Edited(v, u, G \ {n})
  <2>1. G \ {n} \subseteq Idle(v, B) /\ H = (G \ {n}) \ {p}
    BY <1>7
  <2> QED
    BY <1>6, <1>7, <1>8, <1>9, <2>1, DeletedIfFree
<1>11. Edited(c, u, G)
  <2>1. Edited(v, u, G)
    BY <1>10, EditedMore
  <2> QED
    BY <1>6, <2>1, EditedTwice
<1>12. /\ Gap(u, B, z, z)
       /\ \A k \in B \cup {c.brk} : /\ Size(u, k) = Size(c, k) /\ (Alloc(u, k) <=> Alloc(c, k))
                                    /\ NEXT_BLKP(u, k) = NEXT_BLKP(c, k)
       /\ Idle(u, B) = Idle(c, B) /\ Held(u, B) = Held(c, B)
       /\ Keeps(c, u, B \ G) /\ u.brk = c.brk /\ u.up = c.up
  <2>1. G \subseteq B
    BY DEF Idle
  <2>2. Gap(u, B, z, z) /\ Alike(c, u, B)
    BY <1>11, <2>1, GapEdited
  <2>3. Keeps(c, u, B \ G)
    BY <1>11, <2>1, GapEdited
  <2>4. u.brk = c.brk /\ u.up = c.up
    BY <1>11 DEF Edited
  <2> QED
    BY <2>2, <2>3, <2>4 DEF Alike
<1>13. Gap(u, D, b, n)
  <2>1. Gap(u, B, b, b)
    BY <1>12, GapMoves
  <2> QED
    BY <1>12, <2>1, GapOpensNext
<1>14. y = (IF n \in G THEN NEXT_BLKP(c, n) ELSE n) /\ y - n = FreeSize(c, n) /\ y \in Int /\ n <= y
  BY <1>1, <1>2, <1>5 DEF FreeSize, Idle, NEXT_BLKP, MIN
<1>15. Gap(u, D \ (G \cap {n}), b, y)
  <2>1. CASE n \in G
    <3>1. n \in D /\ NEXT_BLKP(u, n) = y
      BY <1>1, <1>2, <1>12, <1>14, <2>1 DEF Idle
    <3>2. D \ (G \cap {n}) = D \ {n}
      BY <2>1
    <3> QED
      BY <1>13, <3>1, <3>2, GapOpensNext
  <2>2. CASE n \notin G
    <3>1. D \ (G \cap {n}) = D /\ y = n
      BY <1>14, <2>2
    <3> QED
      BY <1>13, <3>1
  <2> QED
    BY <2>1, <2>2
<1>16. x = (IF p \in G THEN p ELSE b) /\ b - x = FreeSize(c, p) /\ x \in Int /\ x <= b
       /\ (x = b \/ (x \notin Held(c, B) /\ x \in B))
  <2>1. CASE p \in G
    <3>1. b # First /\ ~Alloc(c, p) /\ p \in B
      BY <1>3, <1>5, <2>1 DEF Idle
    <3>2. b = p + Size(c, p)
      BY <1>1, <1>3, <3>1
    <3> QED
      BY <1>1, <1>4, <2>1, <3>1, <3>2 DEF FreeSize, Held
  <2>2. CASE p \notin G
    <3>1. Alloc(c, p)
      BY <1>5, <2>2
    <3> QED
      BY <1>1, <2>2, <3>1 DEF FreeSize
  <2> QED
    BY <2>1, <2>2
<1>17. Gap(u, E, x, y)
  <2>1. CASE p \in G
    <3>1. b # First /\ ~Alloc(c, p) /\ p \in B
      BY <1>3, <1>5, <2>1 DEF Idle
    <3>2. p \in D \ (G \cap {n}) /\ NEXT_BLKP(u, p) = b
      BY <1>3, <1>4, <1>12, <3>1
    <3>3. E = (D \ (G \cap {n})) \ {p} /\ x = p
      BY <1>16, <2>1
    <3> QED
      BY <1>15, <3>2, <3>3, GapOpensPrev
  <2>2. CASE p \notin G
    <3>1. E = D \ (G \cap {n}) /\ x = b
      BY <1>16, <2>2
    <3> QED
      BY <1>15, <3>1
  <2> QED
    BY <2>1, <2>2
<1>18. Idle(u, E) = H /\ Held(u, E) = Held(c, B) \ {b}
  BY <1>12 DEF Idle, Held
<1>19. y - x = Room(c, b) /\ Room(c, b) % 2 = 0 /\ Room(c, b) >= Size(c, b)
  <2>1. Room(c, b) = Size(c, b) + FreeSize(c, n) + FreeSize(c, p)
    BY DEF Room
  <2>2. b \in Int /\ Size(c, b) \in Int /\ n \in Int /\ y \in Int /\ x \in Int
    BY <1>1, <1>2, <1>14, <1>16
  <2>3. /\ FreeSize(c, n) = y - n /\ FreeSize(c, p) = b - x /\ n = b + Size(c, b)
        /\ n <= y /\ x <= b
    BY <1>2, <1>14, <1>16
  <2>4. \A k \in Int : Size(c, k) % 2 = 0
    BY <1>1, WordsAreInt DEF Size
  <2>5. Size(c, b) % 2 = 0 /\ FreeSize(c, n) % 2 = 0 /\ FreeSize(c, p) % 2 = 0
    BY <1>4, <2>2, <2>4 DEF FreeSize
  <2>6. (y - n) % 2 = 0 /\ (b - x) % 2 = 0 /\ Room(c, b) = Size(c, b) + (y - n) + (b - x)
    BY <2>1, <2>3, <2>5
  <2>7. Room(c, b) % 2 = 0
    BY <2>2, <2>5, <2>6
  <2>8. y - x = Size(c, b) + (y - n) + (b - x) /\ Size(c, b) + (y - n) + (b - x) >= Size(c, b)
    BY <2>2, <2>3
  <2> QED
    BY <2>6, <2>7, <2>8
<1>20. Alloc(u, y)
  <2>1. CASE n \in G
    <3>1. n \in B /\ NEXT_BLKP(c, n) # b
      BY <1>1, <1>2, <2>1 DEF Idle, MIN
    <3>2. Alloc(c, y)
      BY <1>14, <2>1, <3>1
    <3>3. y \in B \cup {c.brk}
      <4>1. Gap(c, B, b, b)
        BY GapMoves
      <4> QED
        BY <1>14, <2>1, <3>1, <4>1 DEF Gap, Outline
    <3> QED
      BY <1>12, <3>2, <3>3
  <2>2. CASE n \notin G
    <3>1. y = n
      BY <1>14, <2>2
    <3>2. Alloc(c, n) /\ n \in B \cup {c.brk}
      BY <1>2, <1>5, <2>2
    <3>3. Alloc(u, n)
      BY <1>12, <3>2
    <3> QED
      BY <3>1, <3>3
  <2> QED
    BY <2>1, <2>2
<1>21. ASSUME NEW k \in H PROVE NEXT_BLKP(u, k) # x /\ Alloc(u, NEXT_BLKP(u, k))
  <2>1. k \in B /\ k \in G /\ k # p /\ k # n /\ k # b /\ NEXT_BLKP(u, k) = NEXT_BLKP(c, k)
    BY <1>12 DEF Idle
  <2>2. NEXT_BLKP(c, k) # b
    <3>1. ASSUME NEXT_BLKP(c, k) = b PROVE FALSE
      <4>1. b # First
        BY <1>1, <2>1, <3>1 DEF MIN
      <4>2. p \in B /\ NEXT_BLKP(c, p) = b
        BY <1>3, <4>1
      <4> QED
        BY <1>1, <2>1, <3>1, <4>2 DEF MIN
    <3> QED
      BY <3>1
  <2>3. Alloc(c, NEXT_BLKP(c, k))
    BY <2>1, <2>2
  <2>4. NEXT_BLKP(c, k) \in B \cup {c.brk}
    <3>1. Gap(c, B, b, b)
      BY GapMoves
    <3> QED
      BY <2>1, <3>1 DEF Gap, Outline
  <2>5. NEXT_BLKP(c, k) # x
    BY <1>5, <1>16, <2>2, <2>3
  <2> QED
    BY <1>12, <2>1, <2>3, <2>4, <2>5
<1>22. Keeps(c, u, Held(c, B) \cup {b})
  <2>1. Held(c, B) \cup {b} \subseteq B \ G
    BY DEF Held, Idle
  <2> QED
    BY <1>12, <2>1 DEF Keeps
<1>23. Loose(u, E, x, y)
  <2> HIDE DEF E, H
  <2> QED
    BY <1>10, <1>12, <1>17, <1>18, <1>20, <1>21 DEF Loose
<1> HIDE DEF E
<1> QED
  BY <1>12, <1>16, <1>18, <1>19, <1>22, <1>23 DEF Loosens

\* Words kept twice are kept, with their sizes and tags.
LEMMA KeepsTwice ==
  ASSUME NEW c \in Memory, NEW d, NEW e, NEW X, X \subseteq Int, \A b \in X : Size(c, b) >= MIN,
         Keeps(c, d, X), Keeps(d, e, X)
  PROVE  /\ Keeps(c, e, X)
         /\ \A b \in X : Size(d, b) = Size(c, b) /\ (Alloc(d, b) <=> Alloc(c, b)) /\ FOOT(d, b) = FOOT(c, b)
<1>1. \A b \in X : Size(d, b) = Size(c, b) /\ (Alloc(d, b) <=> Alloc(c, b)) /\ FOOT(d, b) = FOOT(c, b)
  <2> SUFFICES ASSUME NEW b \in X
               PROVE  Size(d, b) = Size(c, b) /\ (Alloc(d, b) <=> Alloc(c, b)) /\ FOOT(d, b) = FOOT(c, b)
    OBVIOUS
  <2>1. b \in Int /\ Size(c, b) \in Int /\ Size(c, b) >= 6
    BY SizeIsInt DEF MIN
  <2>2. HEAD(b) \in HEAD(b) .. FOOT(c, b)
    BY <2>1 DEF HEAD, FOOT
  <2>3. GET(d, HEAD(b)) = GET(c, HEAD(b))
    BY <2>2 DEF Keeps
  <2> QED
    BY <2>3 DEF Size, Alloc, FOOT
<1> QED
  BY <1>1 DEF Keeps

\* An allocated block is cut from the gap.
LEMMA CoverHeld ==
  ASSUME NEW c, NEW B, NEW x, NEW y, Loose(c, B, x, y), NEW s \in Int, s % 2 = 0, MIN <= s, x + s <= y,
         NEW d, d = Tagged(c, x, s, 1), NEW E, E = B \cup {x}
  PROVE  /\ x + s < y => Loose(d, E, x + s, y)
         /\ x + s = y => Heap(d, E)
         /\ x \notin B /\ Held(d, E) = Held(c, B) \cup {x} /\ Size(d, x) = s
         /\ Keeps(c, d, B) /\ d.brk = c.brk
         /\ \A q \in Int : q # x - 1 /\ q # x + s - 2 => GET(d, q) = GET(c, q)
<1> DEFINE A == Idle(c, B)
           z == x + s
<1>1. Gap(c, B, x, y) /\ c.up /\ TreeOn(c, A) /\ Alloc(c, y)
      /\ \A b \in A : NEXT_BLKP(c, b) # x /\ Alloc(c, NEXT_BLKP(c, b))
  BY DEF Loose
<1>2. /\ Gap(d, E, z, y) /\ x \notin B /\ Size(d, x) = s /\ Alloc(d, x)
      /\ \A b \in B \cup {c.brk} : /\ Size(d, b) = Size(c, b) /\ (Alloc(d, b) <=> Alloc(c, b))
                                   /\ NEXT_BLKP(d, b) = NEXT_BLKP(c, b)
      /\ \A q \in Int : q # x - 1 /\ q # x + s - 2 => GET(d, q) = GET(c, q)
      /\ Keeps(c, d, B) /\ d.my_tree = c.my_tree /\ d.brk = c.brk /\ d.up = c.up
  <2>1. Gap(d, E, x + s, y) /\ (Alloc(d, x) <=> 1 = 1) /\ Cut(c, d, B, x, s)
    <3>1. Gap(c, B, x, y)
      BY <1>1
    <3> QED
      BY <3>1, Cover
  <2> QED
    BY <2>1 DEF Cut
<1>3. Idle(d, E) = A /\ Held(d, E) = Held(c, B) \cup {x}
  BY <1>2 DEF Idle, Held
<1>4. TreeOn(d, A)
  <2>1. A \subseteq B
    BY DEF Idle
  <2> QED
    BY <1>1, <1>2, <2>1, TreeStays
<1>5. /\ y \in B \cup {c.brk} /\ x \in Int /\ y \in Int /\ First \in E \cup {d.brk, z}
      /\ \A b \in B : /\ NEXT_BLKP(c, b) \in B \cup {c.brk, x} /\ (NEXT_BLKP(c, b) <= x \/ y <= b)
                      /\ NEXT_BLKP(c, b) \in Int /\ b \in Int /\ b < NEXT_BLKP(c, b)
  <2>1. /\ y \in B \cup {c.brk}
        /\ \A b \in B : NEXT_BLKP(c, b) \in B \cup {c.brk, x} /\ (NEXT_BLKP(c, b) <= x \/ y <= b)
    BY <1>1 DEF Gap, Outline
  <2>2. First \in E \cup {d.brk, z}
    BY <1>2 DEF Gap, Outline
  <2>3. /\ x \in Int /\ y \in Int
        /\ \A b \in B : NEXT_BLKP(c, b) \in Int /\ b \in Int /\ b < NEXT_BLKP(c, b)
    BY <1>1, GapBlocks DEF MIN
  <2> QED
    BY <2>1, <2>2, <2>3
<1>6. Alloc(d, y)
  BY <1>1, <1>2, <1>5
<1>7. \A b \in A : Alloc(d, NEXT_BLKP(d, b))
  <2> SUFFICES ASSUME NEW b \in A PROVE Alloc(d, NEXT_BLKP(d, b))
    OBVIOUS
  <2>1. b \in B /\ NEXT_BLKP(d, b) = NEXT_BLKP(c, b)
    BY <1>2 DEF Idle
  <2>2. NEXT_BLKP(c, b) \in B \cup {c.brk} /\ Alloc(c, NEXT_BLKP(c, b))
    BY <1>1, <1>5, <2>1
  <2> QED
    BY <1>2, <2>1, <2>2
<1>8. ASSUME z < y PROVE Loose(d, E, z, y)
  <2>1. ASSUME NEW b \in A PROVE NEXT_BLKP(d, b) # z
    <3>1. b \in B /\ NEXT_BLKP(d, b) = NEXT_BLKP(c, b)
      BY <1>2 DEF Idle
    <3>2. x < z /\ z \in Int
      BY <1>5 DEF MIN
    <3> QED
      BY <1>5, <1>8, <3>1, <3>2
  <2> HIDE DEF A, z
  <2> QED
    BY <1>1, <1>2, <1>3, <1>4, <1>6, <1>7, <2>1 DEF Loose
<1>9. ASSUME z = y PROVE Heap(d, E)
  <2>1. Gap(d, E, z, z)
    BY <1>2, <1>9
  <2>2. First \in E \cup {d.brk}
    BY <1>2, <1>5, <1>9
  <2>3. Tiling(d, E)
    BY <2>1, <2>2, GapMoves DEF Tiling
  <2> HIDE DEF A, z
  <2> QED
    BY <1>1, <1>2, <1>3, <1>4, <1>7, <2>3 DEF Heap
<1> QED
  BY <1>2, <1>3, <1>8, <1>9

\* The gap becomes a free block.
LEMMA CoverIdle ==
  ASSUME NEW c, NEW B, NEW x, NEW y, Loose(c, B, x, y), NEW s, s = y - x, s % 2 = 0, MIN <= s,
         NEW d, d = Tagged(c, x, s, 0), NEW e, e = add_node(d, x), NEW E, E = B \cup {x}
  PROVE  /\ Heap(e, E) /\ x \notin B /\ Held(e, E) = Held(c, B) /\ e.brk = c.brk
         /\ Keeps(c, e, Held(c, B))
<1> DEFINE A == Idle(c, B)
<1>1. Gap(c, B, x, y) /\ c.up /\ TreeOn(c, A) /\ Alloc(c, y)
      /\ \A b \in A : NEXT_BLKP(c, b) # x /\ Alloc(c, NEXT_BLKP(c, b))
  BY DEF Loose
<1>2. x \in Int /\ y \in Int /\ s \in Int /\ x + s = y
  BY <1>1, GapBlocks
<1>3. /\ Gap(d, E, x + s, y) /\ x \notin B /\ Size(d, x) = s /\ (Alloc(d, x) <=> 0 = 1)
      /\ \A b \in B \cup {c.brk} : /\ Size(d, b) = Size(c, b) /\ (Alloc(d, b) <=> Alloc(c, b))
                                   /\ NEXT_BLKP(d, b) = NEXT_BLKP(c, b)
      /\ Keeps(c, d, B) /\ d.my_tree = c.my_tree /\ d.brk = c.brk /\ d.up = c.up
  <2>1. x + s <= y /\ Gap(c, B, x, y) /\ s \in Int
    BY <1>1, <1>2
  <2>2. Gap(d, E, x + s, y) /\ (Alloc(d, x) <=> 0 = 1) /\ Cut(c, d, B, x, s)
    <3> HIDE DEF A
    <3> QED
      BY <2>1, Cover
  <2> QED
    BY <2>2 DEF Cut
<1>4. Idle(d, E) = A \cup {x} /\ Held(d, E) = Held(c, B)
  BY <1>3 DEF Idle, Held
<1>5. TreeOn(d, A)
  <2>1. A \subseteq B
    BY DEF Idle
  <2> QED
    BY <1>1, <1>3, <2>1, TreeStays
<1> DEFINE F == A \cup {x}
<1>6. Gap(d, E, y, y)
  BY <1>2, <1>3
<1>7. F \subseteq E /\ x \notin A
  BY <1>3 DEF Idle
<1>8. Placed(F) /\ Half(d, x) \in 1 .. (Top - 1) /\ d \in Memory
  <2>1. x \in F
    OBVIOUS
  <2> HIDE DEF F
  <2>2. Placed(F) /\ \A b \in F : Half(d, b) \in 1 .. (Top - 1) /\ Size(d, b) = 2 * Half(d, b)
    BY <1>6, <1>7, BlocksPlaced
  <2> QED
    BY <1>6, <2>1, <2>2, GapBlocks
<1>9. TreeOn(e, F) /\ Edited(d, e, F)
  <2> HIDE DEF A
  <2> QED
    BY <1>5, <1>7, <1>8, AddNode DEF F
<1>10. Gap(e, E, y, y) /\ Alike(d, e, E) /\ Keeps(d, e, E \ F) /\ e.brk = d.brk /\ e.up = d.up
  <2> HIDE DEF F
  <2>1. Gap(e, E, y, y) /\ Alike(d, e, E)
    BY <1>6, <1>7, <1>9, GapEdited
  <2>2. Keeps(d, e, E \ F)
    BY <1>6, <1>7, <1>9, GapEdited
  <2> QED
    BY <1>9, <2>1, <2>2 DEF Edited
<1>11. Idle(e, E) = F /\ Held(e, E) = Held(c, B)
  BY <1>4, <1>10 DEF Alike
<1>12. /\ y \in B \cup {c.brk} /\ First \in E \cup {e.brk}
       /\ \A b \in B : NEXT_BLKP(c, b) \in B \cup {c.brk, x}
  <2>1. /\ y \in B \cup {c.brk} /\ \A b \in B : NEXT_BLKP(c, b) \in B \cup {c.brk, x}
    BY <1>1 DEF Gap, Outline
  <2>2. First \in E \cup {e.brk, y}
    BY <1>10 DEF Gap, Outline
  <2> QED
    BY <1>3, <1>10, <2>1, <2>2
<1>13. Tiling(e, E)
  BY <1>10, <1>12, GapMoves DEF Tiling
<1>14. \A b \in B \cup {c.brk} : (Alloc(e, b) <=> Alloc(c, b)) /\ NEXT_BLKP(e, b) = NEXT_BLKP(c, b)
  BY <1>3, <1>10 DEF Alike
<1>15. \A b \in F : Alloc(e, NEXT_BLKP(e, b))
  <2> SUFFICES ASSUME NEW b \in F PROVE Alloc(e, NEXT_BLKP(e, b))
    OBVIOUS
  <2>1. CASE b = x
    <3>1. NEXT_BLKP(e, x) = y
      BY <1>2, <1>3, <1>10 DEF Alike, NEXT_BLKP
    <3> QED
      BY <1>1, <1>12, <1>14, <2>1, <3>1
  <2>2. CASE b \in A
    <3>1. b \in B /\ NEXT_BLKP(e, b) = NEXT_BLKP(c, b)
      BY <1>14, <2>2 DEF Idle
    <3>2. NEXT_BLKP(c, b) \in B \cup {c.brk} /\ Alloc(c, NEXT_BLKP(c, b))
      BY <1>1, <1>12, <2>2, <3>1
    <3> QED
      BY <1>14, <3>1, <3>2
  <2> QED
    BY <2>1, <2>2
<1>16. Heap(e, E)
  <2> HIDE DEF F, A
  <2> QED
    BY <1>1, <1>3, <1>9, <1>10, <1>11, <1>13, <1>15 DEF Heap
<1>17. Keeps(c, e, Held(c, B))
  <2>1. Held(c, B) \subseteq E \ F /\ Held(c, B) \subseteq B
    BY <1>3 DEF Held, Idle
  <2>2. Keeps(c, d, Held(c, B)) /\ Keeps(d, e, Held(c, B))
    BY <1>3, <1>10, <2>1 DEF Keeps
  <2>3. c \in Memory /\ Held(c, B) \subseteq Int /\ \A b \in Held(c, B) : Size(c, b) >= MIN
    BY <1>1, <2>1, GapBlocks
  <2> QED
    BY <2>2, <2>3, KeepsTwice
<1> QED
  BY <1>3, <1>10, <1>11, <1>16, <1>17

\* A block that fills the gap is free, joined with its neighbours.
LEMMA Released ==
  ASSUME NEW c, NEW B, NEW x, NEW y, Gap(c, B, x, y), c.up, TreeOn(c, Idle(c, B)),
         \A k \in Idle(c, B) : NEXT_BLKP(c, k) = x \/ Alloc(c, NEXT_BLKP(c, k)),
         NEW s, s = y - x, s % 2 = 0, MIN <= s, NEW e, e = Release(c, x, s)
  PROVE  \E E : Heap(e, E) /\ Held(e, E) = Held(c, B) /\ Keeps(c, e, Held(c, B)) /\ e.brk = c.brk
<1> DEFINE A == Idle(c, B)
           d == Tagged(c, x, s, 0)
           D == B \cup {x}
           n == NEXT_BLKP(d, x)
           p == PREV_BLKP(d, x)
           u == Unlinked(d, x)
           v == IF Alloc(d, p) THEN x ELSE p
           w == n + FreeSize(d, n)
<1>1. x \in Int /\ y \in Int /\ s \in Int /\ x + s = y /\ c \in Memory
  BY GapBlocks
<1>2. /\ Gap(d, D, x + s, y) /\ x \notin B /\ Size(d, x) = s /\ (Alloc(d, x) <=> 0 = 1)
      /\ \A b \in B \cup {c.brk} : /\ Size(d, b) = Size(c, b) /\ (Alloc(d, b) <=> Alloc(c, b))
                                   /\ NEXT_BLKP(d, b) = NEXT_BLKP(c, b)
      /\ Keeps(c, d, B) /\ d.my_tree = c.my_tree /\ d.brk = c.brk /\ d.up = c.up
  <2>1. x + s <= y /\ s \in Int
    BY <1>1
  <2>2. Gap(d, D, x + s, y) /\ (Alloc(d, x) <=> 0 = 1) /\ Cut(c, d, B, x, s)
    BY <2>1, Cover
  <2> HIDE DEF d, D
  <2> QED
    BY <2>2 DEF Cut
<1> HIDE DEF d
<1>3. A = Idle(d, D) \ {x} /\ Held(d, D) = Held(c, B) /\ x \in D
  BY <1>2 DEF Idle, Held
<1>4. TreeOn(d, A)
  <2>1. A \subseteq B
    BY DEF Idle
  <2> QED
    BY <1>2, <2>1, TreeStays
<1>5. \A k \in A : NEXT_BLKP(d, k) = x \/ Alloc(d, NEXT_BLKP(d, k))
  <2> SUFFICES ASSUME NEW k \in A, NEXT_BLKP(d, k) # x PROVE Alloc(d, NEXT_BLKP(d, k))
    OBVIOUS
  <2>1. k \in B /\ NEXT_BLKP(d, k) = NEXT_BLKP(c, k)
    BY <1>2 DEF Idle
  <2>2. NEXT_BLKP(c, k) \in B \cup {c.brk}
    BY <2>1 DEF Gap, Outline
  <2> QED
    BY <1>2, <2>1, <2>2
<1>6. Gap(d, D, y, y) /\ d.up
  BY <1>1, <1>2
<1> HIDE DEF A, D
<1>7a. n = NEXT_BLKP(d, x) /\ p = PREV_BLKP(d, x)
  OBVIOUS
<1> HIDE DEF n, p
<1>7b. u = Unlinked(d, x) /\ v = (IF Alloc(d, p) THEN x ELSE p) /\ w = n + FreeSize(d, n)
  OBVIOUS
<1> HIDE DEF u, v, w
<1>7c. PICK E : Loosens(d, u, D, E, x, v, w)
  BY <1>3, <1>4, <1>5, <1>6, <1>7a, <1>7b, Loosened
<1>7. /\ Loose(u, E, v, w) /\ w - v = Room(d, x) /\ Room(d, x) % 2 = 0 /\ Room(d, x) >= Size(d, x)
      /\ Held(u, E) = Held(d, D) \ {x} /\ Keeps(d, u, Held(d, D) \cup {x}) /\ u.brk = d.brk
  BY <1>7c DEF Loosens
<1>8. e = add_node(Tagged(u, v, Room(d, x), 0), v)
  BY <1>7a, <1>7b DEF Release, coalesce, d
<1> DEFINE r == Room(d, x)
<1>9. r = w - v /\ r % 2 = 0 /\ MIN <= r
  <2>1. v \in Int /\ w \in Int
    <3>1. Gap(u, E, v, w)
      BY <1>7 DEF Loose
    <3> QED
      BY <3>1, GapBlocks
  <2> QED
    BY <1>1, <1>2, <1>7, <2>1 DEF MIN
<1>9a. e = add_node(Tagged(u, v, r, 0), v)
  BY <1>8
<1> HIDE DEF r
<1>10. /\ Heap(e, E \cup {v}) /\ Held(e, E \cup {v}) = Held(u, E) /\ e.brk = u.brk
       /\ Keeps(u, e, Held(u, E))
  <2>1. Loose(u, E, v, w)
    BY <1>7
  <2> QED
    BY <1>9, <1>9a, <2>1, CoverIdle
<1>11. Held(u, E) = Held(c, B)
  BY <1>2, <1>3, <1>7 DEF Held
<1>12. Keeps(c, e, Held(c, B))
  <2>1. Held(c, B) \subseteq B /\ \A b \in Held(c, B) : Size(c, b) >= MIN
    BY GapBlocks DEF Held
  <2>2. Held(c, B) \subseteq Int
    BY GapBlocks DEF Held
  <2>3. Keeps(c, d, Held(c, B)) /\ Keeps(d, u, Held(c, B)) /\ Keeps(u, e, Held(c, B))
    BY <1>2, <1>3, <1>7, <1>10, <1>11, <2>1 DEF Keeps
  <2>4. Keeps(c, u, Held(c, B))
    BY <1>1, <2>1, <2>2, <2>3, KeepsTwice
  <2> QED
    BY <1>1, <2>1, <2>2, <2>3, <2>4, KeepsTwice
<1> QED
  BY <1>2, <1>7, <1>10, <1>11, <1>12

\* What a call may leave: blocks E, of which those of X are allocated, and the words of
\* those allocated before and after.
Leaves(c, B, e, X) ==
  \E E : Heap(e, E) /\ Held(e, E) = X /\ Keeps(c, e, Held(c, B) \cap X)

\* Allocated blocks are blocks of a memory.
LEMMA HeldTyped ==
  ASSUME NEW c, NEW B, NEW x, NEW y, Gap(c, B, x, y), NEW X, X \subseteq B
  PROVE  c \in Memory /\ X \subseteq Int /\ \A b \in X : Size(c, b) >= MIN
  BY GapBlocks

\* mm_free
LEMMA Freed ==
  ASSUME NEW c, NEW B, Heap(c, B), NEW b \in Held(c, B), NEW e, e = mm_free(c, b)
  PROVE  Leaves(c, B, e, Held(c, B) \ {b}) /\ e.brk = c.brk
<1> DEFINE D == B \ {b}
           y == NEXT_BLKP(c, b)
           s == Size(c, b)
<1>1. Gap(c, B, First, First) /\ c.up /\ TreeOn(c, Idle(c, B)) /\ b \in B
      /\ \A k \in Idle(c, B) : Alloc(c, NEXT_BLKP(c, k))
  BY DEF Heap, Tiling, Held
<1>2. Gap(c, D, b, y)
  BY <1>1, GapMoves, GapOpensNext
<1>3. Idle(c, D) = Idle(c, B) /\ Held(c, D) = Held(c, B) \ {b}
  BY DEF Idle, Held
<1>4. s = y - b /\ s % 2 = 0 /\ MIN <= s
  <2>1. c \in Memory /\ b \in Int /\ s \in Int /\ s >= MIN /\ y = b + s
    BY <1>1, GapBlocks
  <2>2. s % 2 = 0
    BY <2>1, WordsAreInt DEF Size
  <2> QED
    BY <2>1, <2>2 DEF MIN
<1>5. e = Release(c, b, s)
  BY DEF mm_free
<1> HIDE DEF D, y, s
<1>6. \A k \in Idle(c, D) : NEXT_BLKP(c, k) = b \/ Alloc(c, NEXT_BLKP(c, k))
  BY <1>1, <1>3
<1>7. TreeOn(c, Idle(c, D)) /\ c.up
  BY <1>1, <1>3
<1>8. \E E : Heap(e, E) /\ Held(e, E) = Held(c, D) /\ Keeps(c, e, Held(c, D)) /\ e.brk = c.brk
  BY <1>2, <1>4, <1>5, <1>6, <1>7, Released
<1>9. Held(c, B) \cap (Held(c, B) \ {b}) = Held(c, D)
  BY <1>3
<1> QED
  BY <1>3, <1>8, <1>9 DEF Leaves

Grown(c, d, B, s) ==
  /\ Gap(d, B, c.brk, c.brk + s) /\ d.brk = c.brk + s /\ d.up = c.up /\ d.my_tree = c.my_tree
  /\ \A b \in B : /\ Size(d, b) = Size(c, b) /\ (Alloc(d, b) <=> Alloc(c, b))
                  /\ NEXT_BLKP(d, b) = NEXT_BLKP(c, b)
  /\ Keeps(c, d, B)

\* The break moves up by s words, with a new last header.
LEMMA GapGrows ==
  ASSUME NEW c, NEW B, NEW x, Gap(c, B, x, x), NEW s \in Int, MIN <= s, c.brk + s <= Base + MaxHeap,
         NEW d, d = [c EXCEPT !.brk = c.brk + s] ## <<HEAD(c.brk + s), PACK(0, 1)>>
  PROVE  Grown(c, d, B, s)
<1> DEFINE y == c.brk + s
           a == [c EXCEPT !.brk = y]
<1>1. /\ c \in Memory /\ B \subseteq Int /\ c.brk \in Int /\ First \in Int /\ First <= c.brk
      /\ \A b \in B : /\ b \in Int /\ Size(c, b) \in Int /\ Size(c, b) >= MIN /\ First <= b
                      /\ NEXT_BLKP(c, b) = b + Size(c, b) /\ b + Size(c, b) <= c.brk
                      /\ HEAD(b) = b - 1 /\ FOOT(c, b) = b + Size(c, b) - 2
      /\ \A b, k \in B : b < k => b + Size(c, b) <= k
  <2>1. First <= c.brk
    BY DEF Gap, Walls, First, Base
  <2> QED
    BY <2>1, GapBlocks
<1>2. MaxHeap \in Nat /\ y \in Int /\ y - 1 \in Cell /\ y = c.brk + s
  BY <1>1, MmAssumption DEF Cell, First, Base, MIN
<1>3. PACK(0, 1) \in Word /\ PACK(0, 1) = 1
  <2>1. PACK(0, 1) \in -1 .. (Base + MaxHeap) /\ PACK(0, 1) = 1
    BY <1>2 DEF PACK, Base
  <2> QED
    BY <2>1, AddressIsWord
<1>4. a \in Memory /\ a.brk = y /\ a.my_tree = c.my_tree /\ a.up = c.up /\ \A q : GET(a, q) = GET(c, q)
  BY <1>1, <1>2 DEF Memory, GET
<1>5. d = a ## <<y - 1, PACK(0, 1)>>
  BY DEF HEAD
<1> HIDE DEF a
<1>6. /\ d \in Memory /\ d.my_tree = c.my_tree /\ d.brk = y /\ d.up = c.up
      /\ \A q \in Int : GET(d, q) = IF q = y - 1 THEN PACK(0, 1) ELSE GET(c, q)
  <2>1. /\ d \in Memory /\ d.my_tree = a.my_tree /\ d.brk = a.brk /\ d.up = a.up
        /\ \A q \in Int : GET(d, q) = IF q = y - 1 THEN PACK(0, 1) ELSE GET(a, q)
    <3> DEFINE b == a ## <<y - 1, PACK(0, 1)>>
               p == y - 1
               v == PACK(0, 1)
    <3>1. p \in Cell /\ v \in Word /\ a \in Memory /\ b = a ## <<p, v>>
      BY <1>2, <1>3, <1>4
    <3> HIDE DEF b, p, v
    <3>2. /\ b \in Memory /\ b.my_tree = a.my_tree /\ b.brk = a.brk /\ b.up = a.up
          /\ \A q \in Int : GET(b, q) = IF q = p THEN v ELSE GET(a, q)
      BY <3>1, WriteCell
    <3>3. d = b
      BY <1>5 DEF b
    <3> QED
      BY <3>2, <3>3 DEF p, v
  <2> QED
    BY <1>4, <2>1
<1>7. \A b \in B : \A q \in HEAD(b) .. FOOT(c, b) : GET(d, q) = GET(c, q)
  <2> SUFFICES ASSUME NEW b \in B, NEW q \in (b - 1) .. (b + Size(c, b) - 2) PROVE GET(d, q) = GET(c, q)
    BY <1>1
  <2>1. q # y - 1 /\ q \in Int
    BY <1>1, <1>2 DEF MIN
  <2> QED
    BY <1>6, <2>1
<1>8. \A b \in B : /\ GET(d, HEAD(b)) = GET(c, HEAD(b)) /\ GET(d, FOOT(c, b)) = GET(c, FOOT(c, b))
  <2> SUFFICES ASSUME NEW b \in B PROVE GET(d, HEAD(b)) = GET(c, HEAD(b)) /\ GET(d, FOOT(c, b)) = GET(c, FOOT(c, b))
    OBVIOUS
  <2>1. HEAD(b) \in HEAD(b) .. FOOT(c, b) /\ FOOT(c, b) \in HEAD(b) .. FOOT(c, b)
    BY <1>1 DEF MIN
  <2> QED
    BY <1>7, <2>1
<1>9. \A b \in B : /\ Size(d, b) = Size(c, b) /\ (Alloc(d, b) <=> Alloc(c, b))
                   /\ NEXT_BLKP(d, b) = NEXT_BLKP(c, b) /\ FOOT(d, b) = FOOT(c, b)
  BY <1>8 DEF Size, Alloc, NEXT_BLKP, FOOT
<1>10. Walls(d)
  <2>1. GET(c, First - 3) = PACK(2, 1) /\ GET(c, First - 2) = PACK(2, 1)
    BY DEF Gap, Walls
  <2>2. First - 3 # y - 1 /\ First - 2 # y - 1 /\ First - 3 \in Int /\ First - 2 \in Int
    BY <1>1, <1>2 DEF MIN
  <2>3. GET(d, First - 3) = PACK(2, 1) /\ GET(d, First - 2) = PACK(2, 1)
    BY <1>6, <2>1, <2>2
  <2>4. GET(d, HEAD(d.brk)) = PACK(0, 1)
    BY <1>2, <1>6 DEF HEAD
  <2>5. d.brk \in First .. (Base + MaxHeap)
    BY <1>1, <1>2, <1>6 DEF MIN, Base
  <2> QED
    BY <2>3, <2>4, <2>5 DEF Walls
<1>11. Footed(d, B)
  BY <1>8, <1>9 DEF Gap, Footed
<1>12. Outline(d, B, c.brk, y)
  <2>1. /\ First \in B \cup {c.brk}
        /\ \A b \in B : NEXT_BLKP(c, b) \in B \cup {c.brk}
        /\ \A b \in B \cup {c.brk} : b = First \/ \E k \in B : NEXT_BLKP(c, k) = b
    BY DEF Gap, Outline
  <2>2. c.brk < y
    BY <1>1, <1>2 DEF MIN
  <2>3. \A b \in B : /\ First <= b /\ Size(d, b) >= MIN
                     /\ NEXT_BLKP(d, b) <= d.brk /\ NEXT_BLKP(d, b) \in B \cup {d.brk, c.brk}
                     /\ NEXT_BLKP(d, b) <= c.brk
    BY <1>1, <1>2, <1>6, <1>9, <2>1, <2>2
  <2>4. \A b, k \in B : b < k => NEXT_BLKP(d, b) <= k
    BY <1>1, <1>9
  <2>5. \A b \in B \cup {d.brk, c.brk} : \/ b = First \/ (b = y /\ c.brk < y)
                                         \/ \E k \in B : NEXT_BLKP(d, k) = b
    BY <1>6, <1>9, <2>1, <2>2
  <2> QED
    BY <1>1, <1>6, <2>1, <2>2, <2>3, <2>4, <2>5 DEF Outline
<1> QED
  BY <1>6, <1>7, <1>9, <1>10, <1>11, <1>12 DEF Gap, Keeps, Grown

\* extend_heap
LEMMA Extended ==
  ASSUME NEW c, NEW B, Heap(c, B), NEW s \in Int, s % 2 = 0, MIN <= s, NEW e, e = extend_heap(c, s)
  PROVE  Leaves(c, B, e, Held(c, B))
<1>1. Gap(c, B, First, First) /\ c.up /\ TreeOn(c, Idle(c, B))
      /\ \A k \in Idle(c, B) : Alloc(c, NEXT_BLKP(c, k))
  BY DEF Heap, Tiling
<1>2. CASE c.brk + s > Base + MaxHeap
  <2>1. e = c
    BY <1>2 DEF extend_heap, mem_sbrk
  <2> QED
    BY <2>1 DEF Leaves, Keeps
<1>3. CASE ~(c.brk + s > Base + MaxHeap)
  <2> DEFINE d == [c EXCEPT !.brk = c.brk + s] ## <<HEAD(c.brk + s), PACK(0, 1)>>
  <2>1. c \in Memory /\ c.brk \in Int /\ First <= c.brk
    BY <1>1, GapBlocks DEF Gap, Walls, First, Base
  <2>2. e = Release(d, c.brk, s)
    <3>1. s # 0 /\ c.brk # -1
      BY <2>1 DEF MIN, First, Base
    <3>2. mem_sbrk(c, s) = [m |-> [c EXCEPT !.brk = c.brk + s], p |-> c.brk]
      BY <1>3 DEF mem_sbrk
    <3> QED
      BY <3>1, <3>2 DEF extend_heap
  <2>3. /\ Gap(d, B, c.brk, c.brk + s) /\ d.brk = c.brk + s /\ d.up = c.up /\ d.my_tree = c.my_tree
        /\ \A b \in B : /\ Size(d, b) = Size(c, b) /\ (Alloc(d, b) <=> Alloc(c, b))
                        /\ NEXT_BLKP(d, b) = NEXT_BLKP(c, b)
        /\ Keeps(c, d, B)
    <3>1. c.brk + s <= Base + MaxHeap
      BY <1>3, <2>1, MmAssumption DEF Base
    <3>2. Gap(c, B, First, First)
      BY <1>1
    <3>3. Grown(c, d, B, s)
      BY <3>1, <3>2, GapGrows
    <3> HIDE DEF d
    <3> QED
      BY <3>3 DEF Grown
  <2> HIDE DEF d
  <2>4. Idle(d, B) = Idle(c, B) /\ Held(d, B) = Held(c, B)
    BY <2>3 DEF Idle, Held
  <2>5. TreeOn(d, Idle(d, B))
    <3>1. Idle(c, B) \subseteq B
      BY DEF Idle
    <3> QED
      BY <1>1, <2>3, <2>4, <3>1, TreeStays
  <2>6. \A k \in Idle(d, B) : NEXT_BLKP(d, k) = c.brk \/ Alloc(d, NEXT_BLKP(d, k))
    <3> SUFFICES ASSUME NEW k \in Idle(c, B), NEXT_BLKP(d, k) # c.brk PROVE Alloc(d, NEXT_BLKP(d, k))
      BY <2>4
    <3>1. k \in B /\ NEXT_BLKP(d, k) = NEXT_BLKP(c, k)
      BY <2>3 DEF Idle
    <3>2. NEXT_BLKP(c, k) \in B
      BY <1>1, <3>1 DEF Gap, Outline
    <3> QED
      BY <1>1, <2>3, <3>1, <3>2
  <2> DEFINE y == c.brk + s
  <2>7. s = y - c.brk /\ d.up
    BY <1>1, <2>1, <2>3
  <2> HIDE DEF y
  <2>8. Gap(d, B, c.brk, y)
    BY <2>3 DEF y
  <2>9. \E E : Heap(e, E) /\ Held(e, E) = Held(d, B) /\ Keeps(d, e, Held(d, B)) /\ e.brk = d.brk
    BY <2>2, <2>5, <2>6, <2>7, <2>8, Released
  <2>10. PICK E : Heap(e, E) /\ Held(e, E) = Held(d, B) /\ Keeps(d, e, Held(d, B)) /\ e.brk = d.brk
    BY <2>9
  <2>11. Keeps(c, e, Held(c, B))
    <3>1. Held(c, B) \subseteq B
      BY DEF Held
    <3>2. c \in Memory /\ Held(c, B) \subseteq Int /\ \A b \in Held(c, B) : Size(c, b) >= MIN
      BY <1>1, <3>1, HeldTyped
    <3>3. Keeps(c, d, Held(c, B)) /\ Keeps(d, e, Held(c, B))
      BY <2>3, <2>4, <2>10, <3>1 DEF Keeps
    <3> QED
      BY <3>2, <3>3, KeepsTwice
  <2> QED
    BY <2>4, <2>10, <2>11 DEF Leaves
<1> QED
  BY <1>2, <1>3

\* Two calls that keep the allocated blocks, one after the other.
LEMMA LeavesTwice ==
  ASSUME NEW c, NEW B, Heap(c, B), NEW d, Leaves(c, B, d, Held(c, B)), NEW e, NEW X, Held(c, B) \subseteq X,
         \A D : Heap(d, D) /\ Held(d, D) = Held(c, B) => Leaves(d, D, e, X)
  PROVE  Leaves(c, B, e, X)
<1>1. PICK D : Heap(d, D) /\ Held(d, D) = Held(c, B) /\ Keeps(c, d, Held(c, B))
  <2>1. Held(c, B) \cap Held(c, B) = Held(c, B)
    OBVIOUS
  <2> QED
    BY <2>1 DEF Leaves
<1>2. PICK E : Heap(e, E) /\ Held(e, E) = X /\ Keeps(d, e, Held(c, B))
  <2>1. Held(c, B) \cap X = Held(c, B)
    OBVIOUS
  <2> QED
    BY <1>1, <2>1 DEF Leaves
<1>3. Keeps(c, e, Held(c, B))
  <2>1. c \in Memory /\ Held(c, B) \subseteq Int /\ \A b \in Held(c, B) : Size(c, b) >= MIN
    <3>1. Gap(c, B, First, First) /\ Held(c, B) \subseteq B
      BY DEF Heap, Tiling, Held
    <3> QED
      BY <3>1, HeldTyped
  <2> QED
    BY <1>1, <1>2, <2>1, KeepsTwice
<1>4. Held(c, B) \cap X = Held(c, B)
  OBVIOUS
<1> QED
  BY <1>2, <1>3, <1>4 DEF Leaves

\* place
LEMMA PlaceIn ==
  ASSUME NEW c, NEW B, Heap(c, B), NEW b \in Idle(c, B), NEW a \in Int, a % 2 = 0, MIN <= a, a <= Size(c, b),
         NEW e, e = place(c, b, a)
  PROVE  /\ Leaves(c, B, e, Held(c, B) \cup {b}) /\ b \notin Held(c, B) /\ Size(e, b) >= a
         /\ \A q \in b .. (b + a - 3) : GET(e, q) = GET(c, q)
<1> DEFINE G == Idle(c, B)
           d == delete_node(c, b)
           s == Size(c, b)
           y == NEXT_BLKP(c, b)
           D == B \ {b}
<1>1. Gap(c, B, First, First) /\ c.up /\ TreeOn(c, G) /\ b \in B /\ b \notin Held(c, B)
      /\ \A k \in G : Alloc(c, NEXT_BLKP(c, k))
  BY DEF Heap, Tiling, Idle, Held
<1>2. /\ c \in Memory /\ b \in Int /\ s \in Int /\ s >= MIN /\ y = b + s /\ B \subseteq Int
      /\ FOOT(c, b) = b + s - 2 /\ HEAD(b) = b - 1
      /\ \A k \in B : k \in Int /\ Size(c, k) \in Int /\ Size(c, k) >= MIN
      /\ \A j, k \in B : j < k => j + Size(c, j) <= k
  BY <1>1, GapBlocks
<1>3. s % 2 = 0
  BY <1>2, WordsAreInt DEF Size
<1>4. TreeOn(d, G \ {b}) /\ Edited(c, d, G) /\ Own(c, d, b)
  <2>1. Placed(G)
    <3>1. G \subseteq B
      BY DEF Idle
    <3> QED
      BY <1>1, <3>1, BlocksPlaced
  <2> HIDE DEF G, d
  <2>2. b \in G
    BY DEF G
  <2> QED
    BY <1>1, <1>2, <2>1, <2>2, DeleteNode DEF d
<1> HIDE DEF d
<1>5. Gap(d, B, First, First) /\ Alike(c, d, B) /\ Keeps(c, d, B \ G) /\ d.brk = c.brk /\ d.up = c.up
  <2>1. G \subseteq B
    BY DEF Idle
  <2> HIDE DEF G
  <2>2. Gap(d, B, First, First) /\ Alike(c, d, B)
    BY <1>1, <1>4, <2>1, GapEdited
  <2>3. Keeps(c, d, B \ G)
    BY <1>1, <1>4, <2>1, GapEdited
  <2> QED
    BY <1>4, <2>2, <2>3 DEF Edited
<1>6. /\ \A k \in B \cup {c.brk} : /\ Size(d, k) = Size(c, k) /\ (Alloc(d, k) <=> Alloc(c, k))
                                   /\ NEXT_BLKP(d, k) = NEXT_BLKP(c, k)
      /\ Idle(d, B) = G /\ Held(d, B) = Held(c, B)
  BY <1>5 DEF Alike
<1>7. Gap(d, D, b, y)
  <2>1. Gap(d, B, b, b) /\ NEXT_BLKP(d, b) = y
    BY <1>1, <1>5, <1>6, GapMoves
  <2> HIDE DEF y
  <2> QED
    BY <1>1, <2>1, GapOpensNext
<1>8. Idle(d, D) = G \ {b} /\ Held(d, D) = Held(c, B)
  BY <1>1, <1>6 DEF Idle, Held
<1>9. \A k \in G : NEXT_BLKP(c, k) \in B \cup {c.brk} /\ Alloc(c, NEXT_BLKP(c, k))
  BY <1>1 DEF Gap, Outline, Idle
<1>10. Loose(d, D, b, y)
  <2>1. Alloc(d, y)
    BY <1>1, <1>6, <1>9
  <2>2. \A k \in G \ {b} : NEXT_BLKP(d, k) # b /\ Alloc(d, NEXT_BLKP(d, k))
    <3> SUFFICES ASSUME NEW k \in G \ {b} PROVE NEXT_BLKP(d, k) # b /\ Alloc(d, NEXT_BLKP(d, k))
      OBVIOUS
    <3>1. k \in B /\ NEXT_BLKP(d, k) = NEXT_BLKP(c, k)
      BY <1>6 DEF Idle
    <3>2. ~Alloc(c, b)
      BY DEF Idle
    <3> QED
      BY <1>6, <1>9, <3>1, <3>2
  <2> HIDE DEF G, D, y
  <2> QED
    BY <1>1, <1>4, <1>5, <1>7, <1>8, <2>1, <2>2 DEF Loose
\* The words of the block before its header is written.
<1>11. \A q \in b .. (b + s - 3) : GET(d, q) = GET(c, q)
  <2> SUFFICES ASSUME NEW q \in b .. (b + s - 3) PROVE GET(d, q) = GET(c, q)
    OBVIOUS
  <2>1. CASE q \in b .. (b + 3)
    <3>1. q - b \in 0 .. 3 /\ b + (q - b) = q
      BY <1>2, <2>1
    <3> QED
      BY <1>4, <3>1 DEF Own
  <2>2. CASE q \notin b .. (b + 3)
    <3>1. \A k \in G : q < k \/ k + 3 < q
      <4> SUFFICES ASSUME NEW k \in G PROVE q < k \/ k + 3 < q
        OBVIOUS
      <4>1. k \in B
        BY DEF Idle
      <4>2. k = b \/ k + Size(c, k) <= b \/ b + s <= k
        BY <1>1, <1>2, <4>1
      <4> QED
        BY <1>2, <2>2, <4>1, <4>2 DEF MIN
    <3>2. q \notin LinkWords(G)
      <4>1. \A k \in G : k \in Int
        BY <1>2 DEF Idle
      <4> HIDE DEF G
      <4> QED
        BY <3>1, <4>1 DEF LinkWords
    <3> QED
      BY <1>2, <1>4, <3>2 DEF Edited
  <2> QED
    BY <2>1, <2>2
\* Held blocks keep their words in d.
<1>12. Keeps(c, d, Held(c, B)) /\ Held(c, B) \subseteq D /\ Held(c, B) \subseteq Int
       /\ \A k \in Held(c, B) : Size(c, k) >= MIN
  <2>1. Held(c, B) \subseteq B \ G
    BY DEF Held, Idle
  <2> QED
    BY <1>1, <1>2, <1>5, <2>1 DEF Keeps
<1> DEFINE X == Held(c, B) \cup {b}
<1>13. CASE s - a >= MIN
  <2> DEFINE f == Tagged(d, b, a, 1)
             z == b + a
             r == s - a
  <2>1. e = Release(f, z, r)
    BY <1>13 DEF place, d
  <2>2. z < y /\ r = y - z /\ r % 2 = 0 /\ MIN <= r /\ b + a <= y /\ z = b + a
    BY <1>2, <1>3, <1>13 DEF MIN
  <2> HIDE DEF f, r, G, y, D
  <2>3. /\ Loose(f, B, z, y)
        /\ Held(f, B) = Held(d, D) \cup {b} /\ Size(f, b) = a
        /\ Keeps(d, f, D) /\ f.brk = d.brk
        /\ \A q \in Int : q # b - 1 /\ q # b + a - 2 => GET(f, q) = GET(d, q)
    <3>1. B = D \cup {b} /\ b + a < y
      BY <1>1, <2>2 DEF D
    <3>2. /\ b + a < y => Loose(f, B, b + a, y)
          /\ Held(f, B) = Held(d, D) \cup {b} /\ Size(f, b) = a
          /\ Keeps(d, f, D) /\ f.brk = d.brk
          /\ \A q \in Int : q # b - 1 /\ q # b + a - 2 => GET(f, q) = GET(d, q)
      BY <1>10, <2>2, <3>1, CoverHeld DEF f
    <3> QED
      BY <3>1, <3>2
  <2> HIDE DEF z
  <2>4. PICK E : Heap(e, E) /\ Held(e, E) = Held(f, B) /\ Keeps(f, e, Held(f, B)) /\ e.brk = f.brk
    <3>1. Gap(f, B, z, y) /\ f.up /\ TreeOn(f, Idle(f, B))
          /\ \A k \in Idle(f, B) : NEXT_BLKP(f, k) = z \/ Alloc(f, NEXT_BLKP(f, k))
      BY <2>3 DEF Loose
    <3> QED
      BY <2>1, <2>2, <3>1, Released
  <2>5. Held(f, B) = X
    BY <1>8, <2>3
  <2>6. f \in Memory /\ X \subseteq Int /\ \A k \in X : Size(f, k) >= MIN
    <3>1. Gap(f, B, z, y) /\ X \subseteq B
      BY <2>3, <2>5 DEF Loose, Held
    <3> HIDE DEF X
    <3> QED
      BY <3>1, HeldTyped
  <2>7. Keeps(f, e, X)
    BY <2>4, <2>5
  <2>8. Size(e, b) = a /\ FOOT(f, b) = b + a - 2
    <3>1. \A k \in X : Size(e, k) = Size(f, k)
      <4> HIDE DEF X
      <4>1. Keeps(e, e, X)
        BY DEF Keeps
      <4> QED
        BY <2>6, <2>7, <4>1, KeepsTwice
    <3> QED
      BY <2>3, <3>1 DEF FOOT
  <2>9. \A q \in b .. (b + a - 3) : GET(e, q) = GET(c, q)
    <3> SUFFICES ASSUME NEW q \in b .. (b + a - 3) PROVE GET(e, q) = GET(c, q)
      OBVIOUS
    <3>1. q \in HEAD(b) .. FOOT(f, b)
      BY <1>2, <2>8
    <3>2. GET(e, q) = GET(f, q)
      BY <2>7, <3>1 DEF Keeps
    <3>3. GET(f, q) = GET(d, q)
      BY <1>2, <2>3
    <3>4. q \in b .. (b + s - 3)
      BY <1>2
    <3> QED
      BY <1>11, <3>2, <3>3, <3>4
  <2>10. Keeps(c, e, Held(c, B))
    <3>1. Keeps(d, f, Held(c, B)) /\ Keeps(f, e, Held(c, B))
      BY <1>12, <2>3, <2>7 DEF Keeps
    <3>2. Keeps(c, f, Held(c, B))
      BY <1>2, <1>12, <3>1, KeepsTwice
    <3> QED
      BY <1>2, <1>12, <3>1, <3>2, KeepsTwice
  <2>11. Held(c, B) \cap X = Held(c, B)
    OBVIOUS
  <2>12. Leaves(c, B, e, X)
    BY <2>4, <2>5, <2>10, <2>11 DEF Leaves
  <2> QED
    BY <1>1, <1>2, <2>8, <2>9, <2>12
<1>14. CASE ~(s - a >= MIN)
  <2>1. e = Tagged(d, b, s, 1)
    BY <1>14 DEF place, d
  <2>2. b + s = y /\ b + s <= y
    BY <1>2
  <2> HIDE DEF G, D, y, s
  <2>3. /\ Heap(e, B) /\ Held(e, B) = Held(d, D) \cup {b} /\ Size(e, b) = s /\ Keeps(d, e, D)
        /\ \A q \in Int : q # b - 1 /\ q # b + s - 2 => GET(e, q) = GET(d, q)
    <3>1. B = D \cup {b}
      BY <1>1 DEF D
    <3>2. /\ b + s = y => Heap(e, B)
          /\ Held(e, B) = Held(d, D) \cup {b} /\ Size(e, b) = s /\ Keeps(d, e, D)
          /\ \A q \in Int : q # b - 1 /\ q # b + s - 2 => GET(e, q) = GET(d, q)
      BY <1>2, <1>3, <1>10, <2>1, <2>2, <3>1, CoverHeld
    <3> QED
      BY <2>2, <3>2
  <2>4. Keeps(c, e, Held(c, B))
    <3>1. Keeps(d, e, Held(c, B))
      BY <1>12, <2>3 DEF Keeps
    <3> QED
      BY <1>2, <1>12, <3>1, KeepsTwice
  <2>5. \A q \in b .. (b + a - 3) : GET(e, q) = GET(c, q)
    <3> SUFFICES ASSUME NEW q \in b .. (b + a - 3) PROVE GET(e, q) = GET(c, q)
      OBVIOUS
    <3>1. q \in b .. (b + s - 3)
      BY <1>2 DEF s
    <3>2. GET(e, q) = GET(d, q)
      BY <1>2, <2>3, <3>1
    <3> QED
      BY <1>11, <3>1, <3>2
  <2>6. Held(c, B) \cap X = Held(c, B) /\ Held(e, B) = X
    BY <1>8, <2>3
  <2>7. Leaves(c, B, e, X)
    BY <2>3, <2>4, <2>6 DEF Leaves
  <2> QED
    BY <1>1, <2>3, <2>5, <2>7 DEF s
<1> QED
  BY <1>13, <1>14

\* The words a client or a copy may write: those between the header and the footer of a
\* block, but for the links of a free one.
Open(c, B) == {q \in Int : \E b \in B : (IF Alloc(c, b) THEN b ELSE b + 4) <= q /\ q < FOOT(c, b)}

\* Writes to the data of allocated blocks only, and to unused words, keep the heap.
LEMMA HeapSame ==
  ASSUME NEW c, NEW B, Heap(c, B), NEW d \in Memory, d.brk = c.brk, d.up, d.my_tree = c.my_tree,
         \A q \in Int : q \notin Open(c, B) => GET(d, q) = GET(c, q)
  PROVE  Heap(d, B) /\ Alike(c, d, B)
<1>1. /\ Gap(c, B, First, First) /\ TreeOn(c, Idle(c, B))
      /\ \A k \in Idle(c, B) : Alloc(c, NEXT_BLKP(c, k))
  BY DEF Heap, Tiling
<1>2. /\ c \in Memory /\ B \subseteq Int /\ c.brk \in Int /\ First \in Int
      /\ \A b \in B : /\ b \in Int /\ Size(c, b) \in Int /\ Size(c, b) >= MIN /\ First <= b
                      /\ b + Size(c, b) <= c.brk
                      /\ HEAD(b) = b - 1 /\ FOOT(c, b) = b + Size(c, b) - 2
      /\ \A b, k \in B : b < k => b + Size(c, b) <= k
  BY <1>1, GapBlocks
<1>3. ASSUME NEW q \in Int, \A b \in B : q < b \/ b + Size(c, b) - 2 <= q PROVE GET(d, q) = GET(c, q)
  <2>1. q \notin Open(c, B)
    <3> SUFFICES ASSUME NEW b \in B, (IF Alloc(c, b) THEN b ELSE b + 4) <= q, q < FOOT(c, b) PROVE FALSE
      BY DEF Open
    <3>1. b <= q
      <4>1. CASE Alloc(c, b)
        BY <4>1
      <4>2. CASE ~Alloc(c, b)
        <5>1. b + 4 <= q
          BY <4>2
        <5> QED
          BY <1>2, <5>1
      <4> QED
        BY <4>1, <4>2
    <3> QED
      BY <1>2, <1>3, <3>1
  <2> QED
    BY <2>1
<1>4. /\ GET(d, First - 3) = GET(c, First - 3) /\ GET(d, First - 2) = GET(c, First - 2)
      /\ GET(d, HEAD(c.brk)) = GET(c, HEAD(c.brk))
  <2>1. \A b \in B : First - 3 < b /\ First - 2 < b /\ b + Size(c, b) - 2 <= c.brk - 1
    BY <1>2
  <2> QED
    BY <1>2, <1>3, <2>1 DEF HEAD
<1>5. \A b \in B : GET(d, HEAD(b)) = GET(c, HEAD(b)) /\ GET(d, FOOT(c, b)) = GET(c, FOOT(c, b))
  <2> SUFFICES ASSUME NEW b \in B
               PROVE  GET(d, b - 1) = GET(c, b - 1) /\ GET(d, b + Size(c, b) - 2) = GET(c, b + Size(c, b) - 2)
    BY <1>2
  <2>1. \A f \in B : /\ b - 1 < f \/ f + Size(c, f) - 2 <= b - 1
                     /\ b + Size(c, b) - 2 < f \/ f + Size(c, f) - 2 <= b + Size(c, b) - 2
    <3> SUFFICES ASSUME NEW f \in B
                 PROVE  /\ b - 1 < f \/ f + Size(c, f) - 2 <= b - 1
                        /\ b + Size(c, b) - 2 < f \/ f + Size(c, f) - 2 <= b + Size(c, b) - 2
      OBVIOUS
    <3>1. b = f \/ b + Size(c, b) <= f \/ f + Size(c, f) <= b
      BY <1>2
    <3> QED
      BY <1>2, <3>1 DEF MIN
  <2> QED
    BY <1>2, <1>3, <2>1
<1>6. Gap(d, B, First, First) /\ Alike(c, d, B)
  BY <1>1, <1>4, <1>5, GapSame DEF Alike
<1>7. ASSUME NEW b \in Idle(c, B), NEW q \in (b - 1) .. (b + 3) PROVE GET(d, q) = GET(c, q)
  <2>1. b \in B /\ ~Alloc(c, b)
    BY DEF Idle
  <2>2. q \notin Open(c, B)
    <3> SUFFICES ASSUME NEW f \in B, (IF Alloc(c, f) THEN f ELSE f + 4) <= q, q < FOOT(c, f) PROVE FALSE
      BY DEF Open
    <3>1. f = b \/ f + Size(c, f) <= b \/ b + Size(c, b) <= f
      BY <1>2, <2>1
    <3>2. CASE f = b
      <4>1. b + 4 <= q
        BY <2>1, <3>2
      <4> QED
        BY <1>2, <2>1, <4>1
    <3>3. CASE f # b
      <4>1. f <= q
        <5>1. CASE Alloc(c, f)
          BY <5>1
        <5>2. CASE ~Alloc(c, f)
          <6>1. f + 4 <= q
            BY <5>2
          <6> QED
            BY <1>2, <6>1
        <5> QED
          BY <5>1, <5>2
      <4> QED
        BY <1>2, <2>1, <3>1, <3>3, <4>1 DEF MIN
    <3> QED
      BY <3>2, <3>3
  <2> QED
    BY <1>2, <2>1, <2>2
<1>8. TreeOn(d, Idle(c, B))
  <2>1. ASSUME NEW b \in Idle(c, B)
        PROVE  /\ Half(d, b) = Half(c, b)
               /\ Left(d, b) = Left(c, b) /\ Right(d, b) = Right(c, b)
               /\ Par(d, b) = Par(c, b) /\ Bro(d, b) = Bro(c, b)
    <3>1. b \in Int
      BY <1>2 DEF Idle
    <3>2. /\ b - 1 \in (b - 1) .. (b + 3) /\ b \in (b - 1) .. (b + 3) /\ b + 1 \in (b - 1) .. (b + 3)
          /\ b + 2 \in (b - 1) .. (b + 3) /\ b + 3 \in (b - 1) .. (b + 3)
      BY <3>1
    <3>3. /\ GET(d, b - 1) = GET(c, b - 1) /\ GET(d, b) = GET(c, b) /\ GET(d, b + 1) = GET(c, b + 1)
          /\ GET(d, b + 2) = GET(c, b + 2) /\ GET(d, b + 3) = GET(c, b + 3)
      BY <1>7, <3>2
    <3> QED
      BY <3>3 DEF Half, Left, Right, Par, Bro, HEAD, LEFT, RIGHT, PRNT, BROS
  <2> QED
    BY <1>1, <2>1, TreeKept
<1>9. Idle(d, B) = Idle(c, B) /\ \A k \in Idle(c, B) : Alloc(d, NEXT_BLKP(d, k))
  <2>1. \A k \in Idle(c, B) : k \in B /\ NEXT_BLKP(c, k) \in B \cup {c.brk}
    BY <1>1 DEF Gap, Outline, Idle
  <2> QED
    BY <1>1, <1>6, <2>1 DEF Alike
<1> QED
  BY <1>6, <1>8, <1>9 DEF Heap, Tiling

\* The null root is the tree of no blocks.
LEMMA EmptyTree ==
  ASSUME NEW c, c.my_tree = Null PROVE TreeOn(c, {})
<1> DEFINE v == View(c, {})
           w == [n \in {} |-> 0]
<1>1. \A r : Nodes({}, r) = {}
  BY DEF Nodes
<1>2. Tree({}, Null, v.left, v.right, v.par, v.bro, v.size, w, w, w)
  <2> HIDE DEF v, w
  <2>1. Linkage({}, Null, v.left, v.right, v.par)
    BY <1>1 DEF Linkage
  <2>2. Ordered({}, Null, v.left, v.right, v.size, w, w)
    BY <1>1 DEF Ordered
  <2>3. Sized({}, v.size) /\ Chained({}, v.left, v.right, v.bro, v.size, w)
    BY DEF Sized, Chained
  <2> QED
    BY <2>1, <2>2, <2>3 DEF Tree, SearchTree
<1> QED
  BY <1>2 DEF TreeOn, TreeOver

\* mm_init
LEMMA Started == \E E : Heap(mm_init, E) /\ Held(mm_init, E) = {}
<1> DEFINE a == [mem |-> [q \in Base .. (Base + MaxHeap - 1) |-> 0],
                 my_tree |-> Null, brk |-> First, up |-> TRUE]
           b == a ## <<Base + 1, PACK(2, 1)>>
           c == b ## <<Base + 2, PACK(2, 1)>>
           y == First + InitSize
           f == [c EXCEPT !.brk = y]
           d == f ## <<y - 1, PACK(0, 1)>>
<1>1. /\ MaxHeap \in Nat /\ InitSize \in Nat /\ InitSize % 2 = 0 /\ InitSize >= 6 /\ InitSize + 4 <= MaxHeap
      /\ y \in Int /\ y = 6 + InitSize /\ y <= Base + MaxHeap /\ First = 6 /\ Base = 2
  BY MmAssumption DEF First, Base
<1>2. Base + 1 \in Cell /\ Base + 2 \in Cell /\ y - 1 \in Cell
  BY <1>1 DEF Cell
<1>3. PACK(2, 1) \in Word /\ PACK(2, 1) = 3 /\ PACK(0, 1) \in Word /\ PACK(0, 1) = 1 /\ 0 \in Word
  <2>1. PACK(2, 1) = 3 /\ PACK(0, 1) = 1
    BY DEF PACK
  <2>2. 3 \in -1 .. (Base + MaxHeap) /\ 1 \in -1 .. (Base + MaxHeap) /\ 0 \in -1 .. (Base + MaxHeap)
    BY <1>1
  <2> QED
    BY <2>1, <2>2, AddressIsWord
<1>4. a \in Memory /\ a.my_tree = Null /\ a.brk = First /\ a.up
  BY <1>1, <1>3 DEF Memory, Cell, Null
<1> HIDE DEF a
<1>5. /\ b \in Memory /\ b.my_tree = Null /\ b.brk = First /\ b.up
      /\ \A q \in Int : GET(b, q) = IF q = Base + 1 THEN PACK(2, 1) ELSE GET(a, q)
  BY <1>2, <1>3, <1>4, WriteCell
<1> HIDE DEF b
<1>6. /\ c \in Memory /\ c.my_tree = Null /\ c.brk = First /\ c.up
      /\ \A q \in Int : GET(c, q) = IF q = Base + 2 THEN PACK(2, 1) ELSE GET(b, q)
  BY <1>2, <1>3, <1>5, WriteCell
<1> HIDE DEF c
<1>7. f \in Memory /\ f.my_tree = Null /\ f.brk = y /\ f.up /\ \A q : GET(f, q) = GET(c, q)
  BY <1>1, <1>6 DEF Memory, GET
<1> HIDE DEF f
<1>8. /\ d \in Memory /\ d.my_tree = Null /\ d.brk = y /\ d.up
      /\ \A q \in Int : GET(d, q) = IF q = y - 1 THEN PACK(0, 1) ELSE GET(f, q)
  <2> DEFINE p == y - 1
             v == PACK(0, 1)
  <2>1. p \in Cell /\ v \in Word /\ f \in Memory /\ d = f ## <<p, v>>
    BY <1>2, <1>3, <1>7
  <2> HIDE DEF p, v, d
  <2>2. /\ d \in Memory /\ d.my_tree = f.my_tree /\ d.brk = f.brk /\ d.up = f.up
        /\ \A q \in Int : GET(d, q) = IF q = p THEN v ELSE GET(f, q)
    BY <2>1, WriteCell
  <2> QED
    BY <1>7, <2>2 DEF p, v
<1>9. mm_init = Release(d, First, InitSize)
  <2>1. mm_init = extend_heap(c, InitSize)
    BY DEF mm_init, a, b, c
  <2>2. mem_sbrk(c, InitSize) = [m |-> f, p |-> First]
    <3>1. c.brk + InitSize = y /\ ~(c.brk + InitSize > Base + MaxHeap)
      BY <1>1, <1>6
    <3> HIDE DEF y
    <3> QED
      BY <1>6, <3>1 DEF mem_sbrk, f
  <2>3. InitSize # 0 /\ First # -1
    BY <1>1
  <2> QED
    BY <2>1, <2>2, <2>3 DEF extend_heap, HEAD
<1> HIDE DEF d
<1>10. GET(d, 3) = PACK(2, 1) /\ GET(d, 4) = PACK(2, 1) /\ GET(d, y - 1) = PACK(0, 1)
  <2>1. 3 # y - 1 /\ 4 # y - 1 /\ Base + 1 = 3 /\ Base + 2 = 4
    BY <1>1
  <2>2. GET(f, 3) = PACK(2, 1) /\ GET(f, 4) = PACK(2, 1)
    BY <1>5, <1>6, <1>7, <2>1
  <2> QED
    BY <1>1, <1>8, <2>1, <2>2
<1>11. Walls(d)
  <2>1. First - 3 = 3 /\ First - 2 = 4
    BY <1>1
  <2> QED
    BY <1>1, <1>8, <1>10, <2>1 DEF Walls, HEAD
<1>12. Outline(d, {}, First, y)
  <2>1. y \in {} \cup {d.brk} /\ First \in Int /\ First <= First /\ First <= y /\ First < y
    BY <1>1, <1>8
  <2>2. First \in {} \cup {d.brk, First}
    OBVIOUS
  <2>3. \A k \in {} \cup {d.brk, First} : k = First \/ (k = y /\ First < y)
    BY <1>8, <2>1
  <2> QED
    BY <2>1, <2>2, <2>3 DEF Outline
<1>13. Gap(d, {}, First, y)
  BY <1>8, <1>11, <1>12 DEF Gap, Footed
<1>14. Idle(d, {}) = {} /\ Held(d, {}) = {}
  BY DEF Idle, Held
<1>15. TreeOn(d, {})
  BY <1>8, EmptyTree
<1>16. InitSize = y - First /\ InitSize % 2 = 0 /\ MIN <= InitSize
  BY <1>1 DEF MIN
<1> HIDE DEF y
<1>17. \E E : Heap(mm_init, E) /\ Held(mm_init, E) = Held(d, {}) /\ Keeps(d, mm_init, Held(d, {})) /\ mm_init.brk = d.brk
  BY <1>8, <1>9, <1>13, <1>14, <1>15, <1>16, Released
<1> QED
  BY <1>14, <1>17

\* Words rounds a number of bytes up to pairs of words.
LEMMA WordsEven == \A n \in Nat : Words(n) \in Int /\ Words(n) % 2 = 0 /\ 4 * Words(n) >= n /\ 4 * Words(n) <= n + 7
<1> SUFFICES ASSUME NEW n \in Nat
             PROVE  Words(n) \in Int /\ Words(n) % 2 = 0 /\ 4 * Words(n) >= n /\ 4 * Words(n) <= n + 7
  OBVIOUS
<1> DEFINE h == (n + 7) \div 8
<1>1. h \in Int /\ 8 * h <= n + 7 /\ n + 7 < 8 * h + 8
  OBVIOUS
<1>2. Words(n) = 2 * h
  BY DEF Words
<1> HIDE DEF h
<1> QED
  BY <1>1, <1>2

\* my_size
LEMMA MySize ==
  ASSUME NEW size \in Nat, NEW a, a = my_size(size)
  PROVE  a \in Int /\ a % 2 = 0 /\ MIN <= a /\ Words(size + 8) <= a
<1>1. CASE size = 112
  BY <1>1 DEF my_size, Words, MIN
<1>2. CASE size = 448
  BY <1>2 DEF my_size, Words, MIN
<1>3. CASE size # 112 /\ size # 448
  <2>1. a = Larger(MIN, Words(size + 8))
    BY <1>3 DEF my_size
  <2>2. Words(size + 8) \in Int /\ Words(size + 8) % 2 = 0
    BY WordsEven
  <2> QED
    BY <2>1, <2>2 DEF Larger, MIN
<1> QED
  BY <1>1, <1>2, <1>3

\* A fit is free and large enough.
LEMMA FitIdle ==
  ASSUME NEW c, NEW B, Heap(c, B), NEW a \in Int, a > 0, NEW f, f = find_fit(c, a), f # Null
  PROVE  f \in Idle(c, B) /\ a <= Size(c, f)
<1>1. Gap(c, B, First, First) /\ TreeOn(c, Idle(c, B)) /\ Idle(c, B) \subseteq B
  BY DEF Heap, Tiling, Idle
<1>2. c \in Memory /\ Placed(Idle(c, B))
  BY <1>1, GapBlocks, BlocksPlaced
<1>3. f \in Idle(c, B) /\ Size(c, f) >= a
  BY <1>1, <1>2, FitFound
<1>4. Size(c, f) \in Int
  BY <1>1, <1>3, GapBlocks
<1> QED
  BY <1>3, <1>4

\* p is a new block of at least n words, or Null when there is none.
Grants(c, B, e, p, n) ==
  \/ p = Null /\ Leaves(c, B, e, Held(c, B))
  \/ p # Null /\ p \notin Held(c, B) /\ Leaves(c, B, e, Held(c, B) \cup {p}) /\ Size(e, p) >= n

\* Placing a request in its fit grants it a block.
LEMMA GrantsFit ==
  ASSUME NEW c, NEW B, Heap(c, B), NEW a \in Int, a % 2 = 0, MIN <= a, NEW n \in Int, n <= a,
         NEW f, f = find_fit(c, a), f # Null, NEW e, e = place(c, f, a)
  PROVE  Grants(c, B, e, f, n)
<1>1. f \in Idle(c, B) /\ a <= Size(c, f) /\ a > 0
  BY FitIdle DEF MIN
<1>2. /\ Leaves(c, B, e, Held(c, B) \cup {f}) /\ f \notin Held(c, B) /\ Size(e, f) >= a
  BY <1>1, PlaceIn
<1>3. Size(e, f) \in Int
  <2>1. PICK E : Heap(e, E) /\ Held(e, E) = Held(c, B) \cup {f}
    BY <1>2 DEF Leaves
  <2>2. Gap(e, E, First, First) /\ f \in E
    BY <2>1 DEF Heap, Tiling, Held
  <2> QED
    BY <2>2, GapBlocks
<1> QED
  BY <1>2, <1>3 DEF Grants

\* A heap without new blocks keeps what it held.
LEMMA GrantsTwice ==
  ASSUME NEW c, NEW B, Heap(c, B), NEW d, Leaves(c, B, d, Held(c, B)), NEW e, NEW p, NEW n,
         \A D : Heap(d, D) /\ Held(d, D) = Held(c, B) => Grants(d, D, e, p, n)
  PROVE  Grants(c, B, e, p, n)
<1>1. PICK D : Heap(d, D) /\ Held(d, D) = Held(c, B)
  BY DEF Leaves
<1>2. CASE p = Null
  <2>1. \A H : Heap(d, H) /\ Held(d, H) = Held(c, B) => Leaves(d, H, e, Held(c, B))
    BY <1>2 DEF Grants
  <2>2. Leaves(c, B, e, Held(c, B))
    BY <2>1, LeavesTwice
  <2> QED
    BY <1>2, <2>2 DEF Grants
<1>3. CASE p # Null
  <2> DEFINE X == Held(c, B) \cup {p}
  <2>1. \A H : Heap(d, H) /\ Held(d, H) = Held(c, B) => Leaves(d, H, e, X)
    BY <1>3 DEF Grants
  <2>2. p \notin Held(c, B) /\ Size(e, p) >= n
    BY <1>1, <1>3 DEF Grants
  <2>3. Held(c, B) \subseteq X
    OBVIOUS
  <2> HIDE DEF X
  <2>4. Leaves(c, B, e, X)
    BY <2>1, <2>3, LeavesTwice
  <2> QED
    BY <1>3, <2>2, <2>4 DEF Grants, X
<1> QED
  BY <1>2, <1>3

\* mm_malloc
LEMMA Malloced ==
  ASSUME NEW c, NEW B, Heap(c, B), NEW size \in Nat, NEW r, r = mm_malloc(c, size)
  PROVE  Grants(c, B, r.m, r.p, Words(size + 8))
<1> DEFINE a == my_size(size)
           n == Words(size + 8)
           f == find_fit(c, a)
           s == Larger(a + 10, MinExtend)
           e == extend_heap(c, s)
           g == find_fit(e, a)
<1>1. a \in Int /\ a % 2 = 0 /\ MIN <= a /\ n <= a /\ n \in Int
  <2>1. n \in Int
    BY WordsEven
  <2> QED
    BY <2>1, MySize
<1> HIDE DEF a, n
<1>2. s \in Int /\ s % 2 = 0 /\ MIN <= s
  BY <1>1, MmAssumption DEF Larger, MIN
<1> HIDE DEF s
<1>3. Leaves(c, B, e, Held(c, B))
  BY <1>2, Extended
<1>4. Leaves(c, B, c, Held(c, B))
  BY DEF Leaves, Keeps
<1> HIDE DEF e, f, g
<1>5. CASE size = 0
  <2>1. r = [m |-> c, p |-> Null]
    BY <1>5 DEF mm_malloc
  <2> QED
    BY <1>4, <2>1 DEF Grants
<1>6. CASE size # 0 /\ f # Null
  <2>1. r = [m |-> place(c, f, a), p |-> f]
    BY <1>6 DEF mm_malloc, a, f
  <2> DEFINE d == place(c, f, a)
  <2>2. f = find_fit(c, a) /\ d = place(c, f, a)
    BY DEF f
  <2> HIDE DEF d
  <2>3. Grants(c, B, d, f, n)
    BY <1>1, <1>6, <2>2, GrantsFit
  <2> QED
    BY <2>1, <2>2, <2>3 DEF n
<1>7. CASE size # 0 /\ f = Null /\ g = Null
  <2>1. r = [m |-> e, p |-> Null]
    BY <1>7 DEF mm_malloc, a, f, e, g, s
  <2> QED
    BY <1>3, <2>1 DEF Grants
<1>8. CASE size # 0 /\ f = Null /\ g # Null
  <2>1. r = [m |-> place(e, g, a), p |-> g]
    BY <1>8 DEF mm_malloc, a, f, e, g, s
  <2> DEFINE d == place(e, g, a)
  <2>2. g = find_fit(e, a) /\ d = place(e, g, a)
    BY DEF g
  <2> HIDE DEF d
  <2>3. ASSUME NEW D, Heap(e, D) PROVE Grants(e, D, d, g, n)
    BY <1>1, <1>8, <2>2, <2>3, GrantsFit
  <2>4. Grants(c, B, d, g, n)
    BY <1>3, <2>3, GrantsTwice
  <2> QED
    BY <2>1, <2>2, <2>4 DEF n
<1> QED
  BY <1>5, <1>6, <1>7, <1>8

-----------------------------------------------------------------------------
(* Any call keeps the shape of the memory, one that tears the heap too. *)

Shape(c) ==
  /\ c = [mem |-> c.mem, my_tree |-> c.my_tree, brk |-> c.brk, up |-> c.up]
  /\ c.mem = [q \in Cell |-> c.mem[q]]
  /\ c.brk \in First .. (Base + MaxHeap) /\ c.up \in BOOLEAN

\* A write keeps the shape.
LEMMA ShapeWrite == \A c : Shape(c) => \A w : Shape(c ## w)
<1> SUFFICES ASSUME NEW c, Shape(c), NEW w PROVE Shape(c ## w)
  OBVIOUS
<1>1. CASE w = <<>>
  BY <1>1 DEF ##
<1>2. CASE w # <<>>
  <2>1. c ## w = PUT(c, w[1], w[2])
    BY <1>2 DEF ##
  <2>2. CASE w[1] \in DOMAIN c.mem
    <3>1. c ## w = [c EXCEPT !.mem[w[1]] = w[2]]
      BY <2>1, <2>2 DEF PUT
    <3> QED
      BY <3>1 DEF Shape
  <2>3. CASE w[1] \notin DOMAIN c.mem
    <3>1. c ## w = [c EXCEPT !.up = FALSE]
      BY <2>1, <2>3 DEF PUT
    <3> QED
      BY <3>1 DEF Shape
  <2> QED
    BY <2>2, <2>3
<1> QED
  BY <1>1, <1>2

\* So does an assignment to my_tree.
LEMMA ShapeRoot == \A c : Shape(c) => \A t : Shape([c EXCEPT !.my_tree = t])
  BY DEF Shape

\* PassOn keeps the shape.
LEMMA ShapePassOn == \A c : Shape(c) => \A bp, bro : Shape(PassOn(c, bp, bro))
  BY ShapeWrite DEF PassOn

\* TakeOver keeps the shape.
LEMMA ShapeTakeOver == \A c : Shape(c) => \A bp, s : Shape(TakeOver(c, bp, s))
<1>1. \A c : Shape(c) => \A bp, s : Shape(Detach(c, bp, s))
  BY ShapeWrite DEF Detach
<1> QED
  BY <1>1, ShapeWrite DEF TakeOver

\* delete_node keeps the shape, in any memory.
LEMMA ShapeDelete == \A c : Shape(c) => \A bp : Shape(delete_node(c, bp))
<1> SUFFICES ASSUME NEW c, Shape(c), NEW bp PROVE Shape(delete_node(c, bp))
  OBVIOUS
<1>1. Shape(DeleteRoot(c, bp))
  BY ShapeRoot, ShapePassOn, ShapeTakeOver DEF DeleteRoot
<1>2. Shape(DeleteInner(c, bp))
  <2>1. Shape(Unchain(c, bp))
    BY ShapeWrite DEF Unchain
  <2>2. \A x : Shape(c ## Instead(c, bp, x))
    BY ShapeWrite
  <2> QED
    BY <2>1, <2>2, ShapeWrite, ShapePassOn, ShapeTakeOver DEF DeleteInner
<1> QED
  BY <1>1, <1>2 DEF delete_node

\* add_node keeps the shape, in any memory.
LEMMA ShapeAdd == \A c : Shape(c) => \A bp : Shape(add_node(c, bp))
<1> SUFFICES ASSUME NEW c, Shape(c), NEW bp PROVE Shape(add_node(c, bp))
  OBVIOUS
<1>1. \A d : Shape(d) => \A x, l, r, p, b : Shape(Linked(d, x, l, r, p, b))
  BY ShapeWrite DEF Linked
<1>2. \A d : Shape(d) => \A x, t, p : Shape(Chain(d, x, t, p))
  BY <1>1, ShapeWrite DEF Chain
<1> QED
  BY <1>1, <1>2, ShapeWrite, ShapeRoot DEF add_node

\* Tags keep the shape.
LEMMA ShapeTagged == \A c : Shape(c) => \A bp, s, a : Shape(Tagged(c, bp, s, a))
  BY ShapeWrite DEF Tagged

\* Joining with neighbours keeps the shape.
LEMMA ShapeUnlinked == \A c : Shape(c) => \A bp : Shape(Unlinked(c, bp))
<1>1. \A c : Shape(c) => \A bp : Shape(DeleteIfFree(c, bp))
  BY ShapeDelete DEF DeleteIfFree
<1> QED
  BY <1>1 DEF Unlinked

\* Release keeps the shape.
LEMMA ShapeRelease == \A c : Shape(c) => \A bp, s : Shape(Release(c, bp, s))
<1>1. \A c : Shape(c) => \A bp : Shape(coalesce(c, bp).m)
  BY ShapeUnlinked, ShapeTagged DEF coalesce
<1> QED
  BY <1>1, ShapeTagged, ShapeAdd DEF Release

\* place keeps the shape.
LEMMA ShapePlace == \A c : Shape(c) => \A bp, a : Shape(place(c, bp, a))
  BY ShapeDelete, ShapeTagged, ShapeRelease DEF place

\* mm_free keeps the shape.
LEMMA ShapeFree == \A c : Shape(c) => \A bp : Shape(mm_free(c, bp))
  BY ShapeRelease DEF mm_free

\* extend_heap keeps the shape: the break stays in the arena.
LEMMA ShapeExtend ==
  ASSUME NEW c, Shape(c), NEW s \in Nat
  PROVE  Shape(extend_heap(c, s))
<1>1. c.brk \in Int /\ MaxHeap \in Nat /\ First \in Int
  BY MmAssumption DEF Shape, First, Base
<1>2. CASE c.brk + s > Base + MaxHeap
  BY <1>2 DEF extend_heap, mem_sbrk
<1>3. CASE ~(c.brk + s > Base + MaxHeap)
  <2> DEFINE d == [c EXCEPT !.brk = c.brk + s]
  <2>1. c.brk + s \in First .. (Base + MaxHeap)
    BY <1>1, <1>3 DEF Shape, Base
  <2>2. Shape(d)
    BY <2>1 DEF Shape
  <2>3. mem_sbrk(c, s) = [m |-> d, p |-> c.brk]
    BY <1>3 DEF mem_sbrk
  <2> HIDE DEF d
  <2> QED
    BY <2>2, <2>3, ShapeWrite, ShapeRelease DEF extend_heap
<1> QED
  BY <1>2, <1>3

\* memcpy keeps the shape, whatever it overwrites.
LEMMA ShapeCopy ==
  ASSUME NEW c, Shape(c), NEW to, NEW from, NEW n, NEW d \in memcpy(c, to, from, n)
  PROVE  Shape(d)
<1> DEFINE Down(k) == IF from - to > 0 THEN k + (from - to) * ((n - 1 - k) \div (from - to)) ELSE k
           v == [a \in DOMAIN c.mem |-> IF a \in to .. (to + n - 1) THEN c.mem[from + (a - to)] ELSE c.mem[a]]
           w == [a \in DOMAIN c.mem |-> IF a \in to .. (to + n - 1) THEN c.mem[from + Down(a - to)] ELSE c.mem[a]]
           u == c.up /\ to + n - 1 \in DOMAIN c.mem
<1>1. DOMAIN c.mem = Cell
  BY DEF Shape
<1>2. v = [q \in Cell |-> v[q]] /\ w = [q \in Cell |-> w[q]] /\ u \in BOOLEAN
  <2> HIDE DEF Down
  <2> QED
    BY <1>1
<1>3. d = [c EXCEPT !.mem = v, !.up = u] \/ d = [c EXCEPT !.mem = w, !.up = u]
  BY DEF memcpy
<1> HIDE DEF v, w, u
<1>4. CASE d = [c EXCEPT !.mem = v, !.up = u]
  BY <1>2, <1>4 DEF Shape
<1>5. CASE d = [c EXCEPT !.mem = w, !.up = u]
  BY <1>2, <1>5 DEF Shape
<1> QED
  BY <1>3, <1>4, <1>5

\* The client's fill keeps the shape.
LEMMA ShapeFill ==
  ASSUME NEW c, Shape(c), NEW i, NEW p, NEW k, NEW s, NEW d, d = Fill(c, i, p, k, s)
  PROVE  Shape(d)
<1> DEFINE w == [a \in DOMAIN c.mem |-> IF a \in (p + k) .. (p + s \div 4 - 1) THEN Pattern(i) ELSE c.mem[a]]
           u == c.up /\ (p + k) .. (p + s \div 4 - 1) \subseteq DOMAIN c.mem
<1>1. DOMAIN c.mem = Cell
  BY DEF Shape
<1>2. w = [q \in Cell |-> w[q]] /\ u \in BOOLEAN
  BY <1>1
<1>3. d = [c EXCEPT !.mem = w, !.up = u]
  BY DEF Fill
<1> HIDE DEF w, u
<1> QED
  BY <1>2, <1>3 DEF Shape

\* A memory with its break in the arena has the shape.
LEMMA MemoryShape == \A c \in Memory : c.brk \in First .. (Base + MaxHeap) => Shape(c)
  BY DEF Shape, Memory

-----------------------------------------------------------------------------
(* mm_realloc when it does not tear the heap. *)

\* The blocks of X are blocks of a memory, and none is too small.
Fat(c, X) == c \in Memory /\ X \subseteq Int /\ \A b \in X : Size(c, b) >= MIN

\* The blocks around a gap are large enough for their tags.
LEMMA GapFat ==
  ASSUME NEW c, NEW B, NEW x, NEW y, Gap(c, B, x, y), NEW X, X \subseteq B
  PROVE  Fat(c, X)
<1>1. c \in Memory /\ X \subseteq Int /\ \A b \in X : Size(c, b) >= MIN
  BY HeldTyped
<1> QED
  BY <1>1 DEF Fat

\* Words of such blocks that are kept twice are kept.
LEMMA FatTwice ==
  ASSUME NEW c, NEW d, NEW e, NEW X, Fat(c, X), Keeps(c, d, X), Keeps(d, e, X)
  PROVE  Keeps(c, e, X)
<1>1. c \in Memory /\ X \subseteq Int /\ \A b \in X : Size(c, b) >= MIN
  BY DEF Fat
<1> QED
  BY <1>1, KeepsTwice

\* Such blocks keep their sizes and tags with their words.
LEMMA FatSame ==
  ASSUME NEW c, NEW d, NEW X, Fat(c, X), Keeps(c, d, X)
  PROVE  /\ \A b \in X : Size(d, b) = Size(c, b) /\ (Alloc(d, b) <=> Alloc(c, b)) /\ FOOT(d, b) = FOOT(c, b)
         /\ d \in Memory => Fat(d, X)
<1>1. c \in Memory /\ X \subseteq Int /\ \A b \in X : Size(c, b) >= MIN
  BY DEF Fat
<1>2. Keeps(d, d, X)
  BY DEF Keeps
<1>3. \A b \in X : Size(d, b) = Size(c, b) /\ (Alloc(d, b) <=> Alloc(c, b)) /\ FOOT(d, b) = FOOT(c, b)
  BY <1>1, <1>2, KeepsTwice
<1> QED
  BY <1>1, <1>3 DEF Fat

\* What CoverHeld shows of the memory d in which s words at x are a block.
Covered(c, B, x, y, s, d) ==
  /\ x + s < y => Loose(d, B \cup {x}, x + s, y)
  /\ x + s = y => Heap(d, B \cup {x})
  /\ Held(d, B \cup {x}) = Held(c, B) \cup {x}
  /\ Size(d, x) = s /\ Keeps(c, d, B) /\ d.brk = c.brk
  /\ \A q \in Int : q # x - 1 /\ q # x + s - 2 => GET(d, q) = GET(c, q)

\* Tags over a part of the gap make it an allocated block.
LEMMA Covers ==
  ASSUME NEW c, NEW B, NEW x, NEW y, Loose(c, B, x, y), NEW s \in Int, s % 2 = 0, MIN <= s, x + s <= y,
         NEW d, d = Tagged(c, x, s, 1)
  PROVE  Covered(c, B, x, y, s, d)
<1> DEFINE E == B \cup {x}
<1>1. E = B \cup {x}
  OBVIOUS
<1> HIDE DEF E
<1>2. /\ x + s < y => Loose(d, E, x + s, y)
      /\ x + s = y => Heap(d, E)
      /\ x \notin B /\ Held(d, E) = Held(c, B) \cup {x} /\ Size(d, x) = s
      /\ Keeps(c, d, B) /\ d.brk = c.brk
      /\ \A q \in Int : q # x - 1 /\ q # x + s - 2 => GET(d, q) = GET(c, q)
  BY <1>1, CoverHeld
<1> QED
  BY <1>1, <1>2 DEF Covered

\* memcpy between regions that are apart.
LEMMA CopyApart ==
  ASSUME NEW c \in Memory, NEW to \in Int, NEW from \in Int, NEW n \in Nat, ~Overlap(to, from, n),
         from .. (from + n - 1) \subseteq Cell, to .. (to + n - 1) \subseteq Cell, to + n - 1 \in Cell,
         NEW d \in memcpy(c, to, from, n)
  PROVE  /\ d \in Memory /\ d.my_tree = c.my_tree /\ d.brk = c.brk /\ d.up = c.up
         /\ \A q \in Int : GET(d, q) = IF q \in to .. (to + n - 1) THEN GET(c, from + (q - to)) ELSE GET(c, q)
<1> DEFINE v == [a \in DOMAIN c.mem |-> IF a \in to .. (to + n - 1) THEN c.mem[from + (a - to)] ELSE c.mem[a]]
<1>1. DOMAIN c.mem = Cell /\ Cell \subseteq Int
  BY DEF Memory, Cell
<1>2. \A a \in Cell : a \in to .. (to + n - 1) => from + (a - to) \in Cell
  <2> SUFFICES ASSUME NEW a \in Cell, a \in to .. (to + n - 1) PROVE from + (a - to) \in Cell
    OBVIOUS
  <2>1. from + (a - to) \in from .. (from + n - 1)
    BY <1>1
  <2> QED
    BY <2>1
<1>3. v \in [Cell -> Word]
  BY <1>1, <1>2 DEF Memory
<1>4. d = [c EXCEPT !.mem = v, !.up = c.up /\ to + n - 1 \in DOMAIN c.mem]
  BY DEF memcpy
<1>5. (c.up /\ to + n - 1 \in DOMAIN c.mem) = c.up
  BY <1>1 DEF Memory
<1>6. \A a \in Cell : v[a] = IF a \in to .. (to + n - 1) THEN c.mem[from + (a - to)] ELSE c.mem[a]
  BY <1>1
<1> HIDE DEF v
<1>7. d \in Memory /\ d.my_tree = c.my_tree /\ d.brk = c.brk /\ d.up = c.up /\ d.mem = v
  BY <1>3, <1>4, <1>5 DEF Memory
<1>8. ASSUME NEW q \in Int
      PROVE  GET(d, q) = IF q \in to .. (to + n - 1) THEN GET(c, from + (q - to)) ELSE GET(c, q)
  <2>1. DOMAIN d.mem = Cell
    BY <1>3, <1>7
  <2>2. CASE q \in to .. (to + n - 1)
    <3>1. q \in Cell
      BY <2>2
    <3>2. from + (q - to) \in Cell
      BY <1>2, <2>2, <3>1
    <3>3. GET(d, q) = v[q] /\ GET(c, from + (q - to)) = c.mem[from + (q - to)]
      BY <1>1, <1>7, <2>1, <3>1, <3>2 DEF GET
    <3> QED
      BY <1>6, <2>2, <3>1, <3>3
  <2>3. CASE q \notin to .. (to + n - 1)
    BY <1>1, <1>6, <1>7, <2>1, <2>3 DEF GET
  <2> QED
    BY <2>2, <2>3
<1> QED
  BY <1>7, <1>8

\* The words inside of the gap are free to be written.
LEMMA LooseSame ==
  ASSUME NEW c, NEW E, NEW x, NEW y, Loose(c, E, x, y), NEW d \in Memory, d.brk = c.brk, d.up = c.up,
         d.my_tree = c.my_tree, \A q \in Int : q < x \/ y - 2 <= q => GET(d, q) = GET(c, q)
  PROVE  Loose(d, E, x, y) /\ Alike(c, d, E) /\ Keeps(c, d, E)
<1>1. /\ Gap(c, E, x, y) /\ c.up /\ TreeOn(c, Idle(c, E)) /\ Alloc(c, y)
      /\ \A k \in Idle(c, E) : NEXT_BLKP(c, k) # x /\ Alloc(c, NEXT_BLKP(c, k))
  BY DEF Loose
<1>2. /\ c \in Memory /\ E \subseteq Int /\ c.brk \in Int /\ First \in Int /\ x \in Int /\ y \in Int
      /\ First <= x /\ x <= y /\ y <= c.brk
      /\ \A b \in E : /\ b \in Int /\ Size(c, b) \in Int /\ Size(c, b) >= MIN /\ First <= b
                      /\ HEAD(b) = b - 1 /\ FOOT(c, b) = b + Size(c, b) - 2
                      /\ b + Size(c, b) <= x \/ y <= b
  BY <1>1, GapBlocks
<1>3. \A b \in E : \A q \in HEAD(b) .. FOOT(c, b) : GET(d, q) = GET(c, q)
  <2> SUFFICES ASSUME NEW b \in E, NEW q \in (b - 1) .. (b + Size(c, b) - 2) PROVE GET(d, q) = GET(c, q)
    BY <1>2
  <2>1. b + Size(c, b) <= x \/ y <= b
    BY <1>2
  <2>2. q \in Int /\ (q < x \/ y - 2 <= q)
    BY <1>2, <2>1
  <2> QED
    BY <2>2
<1>4. \A b \in E : GET(d, HEAD(b)) = GET(c, HEAD(b)) /\ GET(d, FOOT(c, b)) = GET(c, FOOT(c, b))
  <2> SUFFICES ASSUME NEW b \in E PROVE GET(d, HEAD(b)) = GET(c, HEAD(b)) /\ GET(d, FOOT(c, b)) = GET(c, FOOT(c, b))
    OBVIOUS
  <2>1. HEAD(b) \in HEAD(b) .. FOOT(c, b) /\ FOOT(c, b) \in HEAD(b) .. FOOT(c, b)
    BY <1>2 DEF MIN
  <2> QED
    BY <1>3, <2>1
<1>5. /\ GET(d, First - 3) = GET(c, First - 3) /\ GET(d, First - 2) = GET(c, First - 2)
      /\ GET(d, HEAD(c.brk)) = GET(c, HEAD(c.brk))
  <2>1. First - 3 < x /\ First - 2 < x /\ y - 2 <= c.brk - 1
    BY <1>2
  <2> QED
    BY <1>2, <2>1 DEF HEAD
<1>6. Gap(d, E, x, y) /\ Alike(c, d, E)
  BY <1>1, <1>4, <1>5, GapSame DEF Alike
<1>7. Keeps(c, d, E)
  BY <1>3 DEF Keeps
<1>8. TreeOn(d, Idle(c, E))
  <2>1. Idle(c, E) \subseteq E
    BY DEF Idle
  <2> QED
    BY <1>1, <1>7, <2>1, TreeStays
<1>9. /\ y \in E \cup {c.brk}
      /\ \A k \in Idle(c, E) : k \in E /\ NEXT_BLKP(c, k) \in E \cup {c.brk, x}
  BY <1>1 DEF Gap, Outline, Idle
<1>10. Alloc(d, y) /\ Idle(d, E) = Idle(c, E)
  BY <1>1, <1>6, <1>9 DEF Alike
<1>11. \A k \in Idle(d, E) : NEXT_BLKP(d, k) # x /\ Alloc(d, NEXT_BLKP(d, k))
  <2> SUFFICES ASSUME NEW k \in Idle(c, E) PROVE NEXT_BLKP(d, k) # x /\ Alloc(d, NEXT_BLKP(d, k))
    BY <1>10
  <2>1. k \in E /\ NEXT_BLKP(c, k) \in E \cup {c.brk} /\ Alloc(c, NEXT_BLKP(c, k)) /\ NEXT_BLKP(c, k) # x
    BY <1>1, <1>9
  <2> QED
    BY <1>6, <2>1 DEF Alike
<1> QED
  BY <1>1, <1>6, <1>7, <1>8, <1>10, <1>11 DEF Loose

\* The block b is now the block p of at least n words, with the same data.
Regrants(c, B, b, e, p, n) ==
  \E E : /\ Heap(e, E) /\ Held(e, E) = (Held(c, B) \ {b}) \cup {p}
         /\ Keeps(c, e, Held(c, B) \ {b})
         /\ p \notin Held(c, B) \ {b} /\ Size(e, p) >= n
         /\ \A k \in Nat : k <= n - 3 /\ k <= Size(c, b) - 3 => GET(e, p + k) = GET(c, b + k)

\* The block keeps its place or moves down over the free block before it.
LEMMA Retaken ==
  ASSUME NEW c, NEW B, Heap(c, B), NEW b \in Held(c, B), NEW need \in Int, need % 2 = 0, MIN <= need,
         NEW old, old = Size(c, b), NEW p, p = PREV_BLKP(c, b), NEW room, room = Room(c, b), need <= room,
         NEW x, x = (IF Alloc(c, p) THEN b ELSE p), NEW u, u = Unlinked(c, b),
         NEW k, k = (IF Alloc(c, p) THEN 0 ELSE old - 2), Alloc(c, p) \/ ~Overlap(x, b, old - 2),
         NEW d \in memcpy(u, x, b, k),
         NEW e, e = (IF room >= need + MIN THEN Split(d, x, need, room) ELSE Tagged(d, x, room, 1))
  PROVE  Regrants(c, B, b, e, x, need)
<1> DEFINE n == NEXT_BLKP(c, b)
           y == n + FreeSize(c, n)
           G == Idle(c, B)
           H == Held(c, B) \ {b}
<1>1. /\ Gap(c, B, First, First) /\ c.up /\ TreeOn(c, G) /\ b \in B /\ Alloc(c, b)
      /\ \A j \in G : Alloc(c, NEXT_BLKP(c, j))
  BY DEF Heap, Tiling, Held
<1>2. G = Idle(c, B) \ {b}
  BY <1>1 DEF Idle
<1>3. /\ c \in Memory /\ b \in Int /\ old \in Int /\ MIN <= old /\ B \subseteq Int
      /\ HEAD(b) = b - 1 /\ FOOT(c, b) = b + old - 2
      /\ \A j \in B : Size(c, j) >= MIN
  BY <1>1, GapBlocks DEF MIN
<1>4. PICK E : Loosens(c, u, B, E, b, x, y)
  <2> DEFINE g == G
  <2>1. g = Idle(c, B) \ {b} /\ TreeOn(c, g) /\ \A j \in g : NEXT_BLKP(c, j) = b \/ Alloc(c, NEXT_BLKP(c, j))
    BY <1>1, <1>2
  <2>2. n = NEXT_BLKP(c, b) /\ y = n + FreeSize(c, n)
    OBVIOUS
  <2> HIDE DEF g, n, y
  <2> QED
    BY <1>1, <2>1, <2>2, Loosened
<1> HIDE DEF n, y, G
<1>5. /\ Loose(u, E, x, y) /\ y - x = room /\ room % 2 = 0 /\ room >= old
      /\ Held(u, E) = H /\ Keeps(c, u, Held(c, B) \cup {b}) /\ u.brk = c.brk
      /\ x = b \/ (x \notin Held(c, B) /\ x \in B)
  BY <1>4 DEF Loosens
<1>6. x \in Int /\ y \in Int /\ u \in Memory /\ room \in Int /\ First <= x /\ y <= u.brk /\ y = x + room
      /\ u.brk \in Int
  <2>1. Gap(u, E, x, y)
    BY <1>5 DEF Loose
  <2>2. x \in Int /\ y \in Int /\ u \in Memory /\ First <= x /\ y <= u.brk /\ u.brk \in Int
    BY <2>1, GapBlocks
  <2> QED
    BY <1>5, <2>2
<1>7. u.brk <= Base + MaxHeap /\ MaxHeap \in Nat /\ First = 6 /\ Base = 2
  BY <1>1, <1>5, MmAssumption DEF Gap, Walls, First, Base
<1>8. x + k <= b \/ k = 0
  <2>1. CASE Alloc(c, p)
    BY <2>1
  <2>2. CASE ~Alloc(c, p)
    <3>1. x = p /\ k = old - 2 /\ ~Overlap(x, b, old - 2)
      BY <2>2
    <3>2. x < b
      <4>1. b # First
        <5>1. ASSUME b = First PROVE FALSE
          <6>1. Walls(c) /\ p = PREV_BLKP(c, First)
            BY <1>1, <5>1 DEF Gap
          <6> QED
            BY <2>2, <6>1, AtFirst
        <5> QED
          BY <5>1
      <4>2. Gap(c, B, b, b)
        BY <1>1, GapMoves
      <4>3. p < b
        BY <1>1, <1>3, <4>1, <4>2, AtPrev
      <4> QED
        BY <3>1, <4>3
    <3> QED
      BY <1>3, <1>6, <3>1, <3>2 DEF Overlap, MIN
  <2> QED
    BY <2>1, <2>2
<1>9. k \in Nat /\ b + old - 2 <= y
  <2>1. k \in Nat
    BY <1>3 DEF MIN
  <2>2. b + old - 2 <= y
    <3>1. y = n + FreeSize(c, n) /\ n = b + old
      BY <1>1, GapBlocks DEF y, n
    <3>2. CASE Alloc(c, n)
      BY <1>3, <3>1, <3>2 DEF FreeSize
    <3>3. CASE ~Alloc(c, n)
      <4>1. n \in B
        <5>1. Gap(c, B, b, b) /\ Alloc(c, c.brk)
          BY <1>1, GapMoves, AtEnd DEF Gap
        <5> QED
          BY <1>1, <3>3, <5>1 DEF Gap, Outline, n
      <4>2. Size(c, n) \in Int /\ Size(c, n) >= MIN
        BY <1>1, <4>1, GapBlocks
      <4> QED
        BY <1>3, <3>1, <3>3, <4>2 DEF FreeSize, MIN
    <3> QED
      BY <3>2, <3>3
  <2> QED
    BY <2>1, <2>2
\* The copy is inside of the gap.
<1>10. /\ d \in Memory /\ d.my_tree = u.my_tree /\ d.brk = u.brk /\ d.up = u.up
       /\ \A q \in Int : GET(d, q) = IF q \in x .. (x + k - 1) THEN GET(u, b + (q - x)) ELSE GET(u, q)
  <2>1. ~Overlap(x, b, k)
    BY <1>3, <1>6, <1>8, <1>9 DEF Overlap
  <2>2. b .. (b + k - 1) \subseteq Cell
    <3>1. k <= old - 2
      BY <1>3 DEF MIN
    <3>2. First <= b
      BY <1>1, GapBlocks
    <3>3. Base <= b /\ b + k - 1 <= Base + MaxHeap - 1
      BY <1>3, <1>6, <1>7, <1>9, <3>1, <3>2
    <3> QED
      BY <1>3, <1>7, <1>9, <3>3 DEF Cell
  <2>3. x .. (x + k - 1) \subseteq Cell /\ x + k - 1 \in Cell
    <3>1. x + k - 1 <= y - 1
      <4>1. CASE k = 0
        BY <1>3, <1>5, <1>6, <4>1 DEF MIN
      <4>2. CASE x + k <= b
        BY <1>3, <1>6, <1>9, <4>2 DEF MIN
      <4> QED
        BY <1>8, <4>1, <4>2
    <3>2. Base <= x /\ x + k - 1 <= Base + MaxHeap - 1 /\ Base <= x + k - 1
      BY <1>6, <1>7, <1>9, <3>1
    <3> QED
      BY <1>6, <1>7, <1>9, <3>2 DEF Cell
  <2> QED
    BY <1>3, <1>6, <1>9, <2>1, <2>2, <2>3, CopyApart
<1>11. Loose(d, E, x, y) /\ Held(d, E) = H /\ Keeps(u, d, E)
  <2>1. x + k - 1 < y - 2
    BY <1>3, <1>5, <1>6, <1>8, <1>9 DEF MIN
  <2>2. ASSUME NEW q \in Int, q < x \/ y - 2 <= q PROVE GET(d, q) = GET(u, q)
    <3>1. q \notin x .. (x + k - 1)
      BY <1>6, <1>9, <2>1, <2>2
    <3> QED
      BY <1>10, <3>1
  <2>3. Loose(d, E, x, y) /\ Alike(u, d, E) /\ Keeps(u, d, E)
    BY <1>5, <1>10, <2>2, LooseSame
  <2> QED
    BY <1>5, <2>3 DEF Alike
<1>12. ASSUME NEW j \in Nat, j <= old - 3 PROVE GET(d, x + j) = GET(c, b + j)
  <2>1. b + j \in HEAD(b) .. FOOT(c, b)
    BY <1>3, <1>12
  <2>2. GET(u, b + j) = GET(c, b + j)
    BY <1>5, <2>1 DEF Keeps
  <2>3. GET(d, x + j) = GET(u, b + j)
    <3>1. CASE k = 0
      <4>1. x = b
        <5>1. Alloc(c, p)
          BY <1>3, <3>1 DEF MIN
        <5> QED
          BY <5>1
      <4>2. x + j \in Int /\ x + j \notin x .. (x + k - 1)
        BY <1>6, <3>1
      <4> QED
        BY <1>10, <4>1, <4>2
    <3>2. CASE k = old - 2
      <4>1. x + j \in x .. (x + k - 1) /\ b + ((x + j) - x) = b + j /\ x + j \in Int
        BY <1>3, <1>6, <1>12, <3>2
      <4> QED
        BY <1>10, <4>1
    <3> QED
      BY <3>1, <3>2
  <2> QED
    BY <2>2, <2>3
<1>13. Fat(c, H) /\ Keeps(c, d, H)
  <2>1. H \subseteq E /\ H \subseteq B
    BY <1>5 DEF Held
  <2>2. Keeps(c, u, H) /\ Keeps(u, d, H)
    BY <1>5, <1>11, <2>1 DEF Keeps
  <2> HIDE DEF H
  <2>3. Fat(c, H)
    BY <1>1, <2>1, GapFat
  <2> QED
    BY <2>2, <2>3, FatTwice
<1>14. x \notin H
  BY <1>5
<1>15. CASE room >= need + MIN
  <2> DEFINE f == Tagged(d, x, need, 1)
             z == x + need
             r == room - need
             g == Tagged(f, z, r, 0)
             D == E \cup {x}
             F == D \cup {z}
             X == H \cup {x}
  <2>1. e = add_node(g, z) /\ f = Tagged(d, x, need, 1) /\ g = Tagged(f, z, r, 0)
    BY <1>15 DEF Split
  <2>2. z < y /\ r = y - z /\ r % 2 = 0 /\ MIN <= r /\ x + need <= y /\ x + need < y /\ z = x + need
    BY <1>5, <1>6, <1>15 DEF MIN
  <2> HIDE DEF r, z, f, g
  <2>3. Loose(d, E, x, y)
    BY <1>11
  <2>4. Covered(d, E, x, y, need, f)
    BY <2>1, <2>2, <2>3, Covers
  <2>5. Loose(f, D, z, y) /\ Held(f, D) = X
    BY <1>11, <2>2, <2>4 DEF Covered
  <2>6. Size(f, x) = need /\ Keeps(d, f, E) /\ \A q \in Int : q # x - 1 /\ q # x + need - 2 => GET(f, q) = GET(d, q)
    BY <2>4 DEF Covered
  <2>7. F = D \cup {z} /\ X \subseteq D /\ x \in X /\ H \subseteq X
    BY <2>5 DEF Held
  <2>8. H \subseteq E
    BY <1>5 DEF Held
  <2> HIDE DEF D, F, X, H
  <2>9. Heap(e, F) /\ Held(e, F) = Held(f, D) /\ Keeps(f, e, Held(f, D))
    BY <2>1, <2>2, <2>5, <2>7, CoverIdle
  <2>10. Keeps(f, e, X) /\ Held(e, F) = X
    BY <2>5, <2>9
  <2>11. Fat(f, X)
    <3>1. Gap(f, D, z, y)
      BY <2>5 DEF Loose
    <3> QED
      BY <2>7, <3>1, GapFat
  <2>12. Size(e, x) = need /\ FOOT(f, x) = x + need - 2
    <3>1. \A j \in X : Size(e, j) = Size(f, j)
      BY <2>10, <2>11, FatSame
    <3> QED
      BY <2>6, <2>7, <3>1 DEF FOOT
  <2>13. ASSUME NEW j \in Nat, j <= need - 3, j <= old - 3 PROVE GET(e, x + j) = GET(c, b + j)
    <3>1. x + j \in HEAD(x) .. FOOT(f, x) /\ x + j \in Int /\ x + j # x - 1 /\ x + j # x + need - 2
      BY <1>6, <2>12, <2>13 DEF HEAD
    <3>2. GET(e, x + j) = GET(f, x + j)
      BY <2>7, <2>10, <3>1 DEF Keeps
    <3>3. GET(f, x + j) = GET(d, x + j)
      BY <2>6, <3>1
    <3> QED
      BY <1>12, <2>13, <3>2, <3>3
  <2>14. Keeps(c, e, H)
    <3>1. Keeps(d, f, H) /\ Keeps(f, e, H)
      BY <2>6, <2>7, <2>8, <2>10 DEF Keeps
    <3>2. Keeps(c, f, H)
      BY <1>13, <3>1, FatTwice
    <3> QED
      BY <1>13, <3>1, <3>2, FatTwice
  <2>15. Held(e, F) = (Held(c, B) \ {b}) \cup {x} /\ Keeps(c, e, Held(c, B) \ {b}) /\ x \notin Held(c, B) \ {b}
    BY <1>14, <2>10, <2>14 DEF H, X
  <2>16. Size(e, x) >= need
    BY <2>12
  <2> QED
    BY <2>9, <2>13, <2>15, <2>16 DEF Regrants
<1>16. CASE ~(room >= need + MIN)
  <2> DEFINE D == E \cup {x}
  <2>1. e = Tagged(d, x, room, 1) /\ x + room = y /\ x + room <= y /\ MIN <= room
    BY <1>6, <1>16, <1>3, <1>5 DEF MIN
  <2>2. room \in Int /\ room % 2 = 0 /\ Loose(d, E, x, y)
    BY <1>5, <1>6, <1>11
  <2>3. H \subseteq E
    BY <1>5 DEF Held
  <2> HIDE DEF H
  <2>4. Covered(d, E, x, y, room, e)
    BY <2>1, <2>2, Covers
  <2>5. Heap(e, D) /\ Held(e, D) = H \cup {x}
    BY <1>11, <2>1, <2>4 DEF Covered
  <2>6. Size(e, x) = room /\ Keeps(d, e, E) /\ \A q \in Int : q # x - 1 /\ q # x + room - 2 => GET(e, q) = GET(d, q)
    BY <2>4 DEF Covered
  <2>7. Keeps(c, e, H)
    <3>1. Keeps(d, e, H)
      BY <2>3, <2>6 DEF Keeps
    <3> QED
      BY <1>13, <3>1, FatTwice
  <2>8. ASSUME NEW j \in Nat, j <= need - 3, j <= old - 3 PROVE GET(e, x + j) = GET(c, b + j)
    <3>1. x + j \in Int /\ x + j # x - 1 /\ x + j # x + room - 2
      BY <1>6, <2>8
    <3>2. GET(e, x + j) = GET(d, x + j)
      BY <2>6, <3>1
    <3> QED
      BY <1>12, <2>8, <3>2
  <2>9. Size(e, x) >= need
    BY <1>6, <2>6
  <2>10. Held(e, D) = (Held(c, B) \ {b}) \cup {x} /\ Keeps(c, e, Held(c, B) \ {b}) /\ x \notin Held(c, B) \ {b}
    BY <1>14, <2>5, <2>7 DEF H
  <2> HIDE DEF D
  <2> QED
    BY <2>5, <2>8, <2>9, <2>10 DEF Regrants
<1> QED
  BY <1>15, <1>16
\* The copy into the free block fit leaves its links and its footer.
LEMMA Copied ==
  ASSUME NEW c, NEW B, Heap(c, B), NEW b \in Held(c, B), NEW f \in Idle(c, B),
         NEW n, n = Size(c, b) - 2, n <= Size(c, f) - 2, NEW d \in memcpy(c, f, b, n),
         \A k \in 0 .. 3 : d.mem[f + k] = c.mem[f + k]
  PROVE  /\ Heap(d, B) /\ Alike(c, d, B) /\ Keeps(c, d, Held(c, B))
         /\ \A k \in Nat : k < n => GET(d, f + k) = GET(c, b + k)
<1>1. /\ Gap(c, B, First, First) /\ c.up /\ b \in B /\ f \in B /\ Alloc(c, b) /\ ~Alloc(c, f)
  BY DEF Heap, Tiling, Held, Idle
<1>2. /\ c \in Memory /\ c.brk \in Int /\ MaxHeap \in Nat /\ First = 6 /\ Base = 2
      /\ c.brk <= Base + MaxHeap
      /\ \A j \in B : /\ j \in Int /\ Size(c, j) \in Int /\ Size(c, j) >= MIN /\ First <= j
                      /\ j + Size(c, j) <= c.brk /\ HEAD(j) = j - 1 /\ FOOT(c, j) = j + Size(c, j) - 2
      /\ \A j, k \in B : j < k => j + Size(c, j) <= k
  <2>1. c.brk <= Base + MaxHeap /\ c.brk \in Int /\ MaxHeap \in Nat /\ First = 6 /\ Base = 2
    BY <1>1, MmAssumption DEF Gap, Walls, First, Base
  <2> QED
    BY <1>1, <2>1, GapBlocks
<1>3. b # f
  BY <1>1
<1> DEFINE s == Size(c, f)
<1>4. /\ b \in Int /\ f \in Int /\ n \in Nat /\ s \in Int /\ 6 <= s /\ n <= s - 2
      /\ First <= b /\ First <= f /\ b + n <= c.brk - 2 /\ f + s <= c.brk /\ FOOT(c, f) = f + s - 2
      /\ b + n + 2 <= f \/ f + s <= b
  <2>1. b < f \/ f < b
    BY <1>1, <1>2, <1>3
  <2>2. b + Size(c, b) <= f \/ f + s <= b
    BY <1>1, <1>2, <2>1
  <2>3. b \in Int /\ f \in Int /\ Size(c, b) \in Int /\ Size(c, b) >= 6 /\ s \in Int /\ 6 <= s
    BY <1>1, <1>2 DEF MIN
  <2>4. /\ First <= b /\ First <= f /\ b + Size(c, b) <= c.brk /\ f + s <= c.brk /\ FOOT(c, f) = f + s - 2
        /\ c.brk \in Int
    BY <1>1, <1>2
  <2> QED
    BY <2>2, <2>3, <2>4
<1> HIDE DEF s
<1>5. /\ ~Overlap(f, b, n) /\ b .. (b + n - 1) \subseteq Cell /\ f .. (f + n - 1) \subseteq Cell
      /\ f + n - 1 \in Cell
  <2>1. ~Overlap(f, b, n)
    BY <1>4 DEF Overlap
  <2>2. Base <= b /\ Base <= f /\ b + n - 1 <= Base + MaxHeap - 1 /\ f + n - 1 <= Base + MaxHeap - 1
        /\ Base <= f + n - 1
    BY <1>2, <1>4
  <2>3. Base \in Int /\ MaxHeap \in Int
    BY <1>2
  <2> QED
    BY <1>4, <2>1, <2>2, <2>3 DEF Cell
<1>6. /\ d \in Memory /\ d.my_tree = c.my_tree /\ d.brk = c.brk /\ d.up = c.up
      /\ \A q \in Int : GET(d, q) = IF q \in f .. (f + n - 1) THEN GET(c, b + (q - f)) ELSE GET(c, q)
  BY <1>2, <1>4, <1>5, CopyApart
<1>7. ASSUME NEW q \in Int, q \notin Open(c, B) PROVE GET(d, q) = GET(c, q)
  <2>1. CASE q \notin f .. (f + n - 1)
    BY <1>6, <2>1
  <2>2. CASE q \in f .. (f + n - 1)
    <3>1. ~(f + 4 <= q /\ q < FOOT(c, f))
      BY <1>1, <1>7 DEF Open
    <3>2. q - f \in 0 .. 3 /\ q = f + (q - f) /\ q \in Cell
      BY <1>4, <1>5, <2>2, <3>1
    <3>3. d.mem[q] = c.mem[q]
      BY <3>2
    <3>4. DOMAIN d.mem = Cell /\ DOMAIN c.mem = Cell
      BY <1>2, <1>6 DEF Memory
    <3> QED
      BY <3>2, <3>3, <3>4 DEF GET
  <2> QED
    BY <2>1, <2>2
<1>8. Heap(d, B) /\ Alike(c, d, B)
  BY <1>1, <1>6, <1>7, HeapSame
<1>9. Keeps(c, d, Held(c, B))
  <2> SUFFICES ASSUME NEW j \in Held(c, B), NEW q \in HEAD(j) .. FOOT(c, j) PROVE GET(d, q) = GET(c, q)
    BY DEF Keeps
  <2>1. j \in B /\ j # f /\ j \in Int
    BY <1>1, <1>2 DEF Held
  <2>2. j + Size(c, j) <= f \/ f + s <= j
    BY <1>1, <1>2, <2>1 DEF s
  <2>3. Size(c, j) \in Int /\ q \in (j - 1) .. (j + Size(c, j) - 2)
    BY <1>2, <2>1
  <2>4. q \in Int /\ q \notin f .. (f + n - 1)
    BY <1>4, <2>1, <2>2, <2>3
  <2> QED
    BY <1>6, <2>4
<1>10. ASSUME NEW k \in Nat, k < n PROVE GET(d, f + k) = GET(c, b + k)
  <2>1. f + k \in f .. (f + n - 1) /\ f + k \in Int /\ b + ((f + k) - f) = b + k
    BY <1>4, <1>10
  <2> QED
    BY <1>6, <2>1
<1> QED
  BY <1>8, <1>9, <1>10

\* The block moves to a fit of the tree.
LEMMA MovedTo ==
  ASSUME NEW c, NEW B, Heap(c, B), NEW b \in Held(c, B), NEW need \in Int, need % 2 = 0, MIN <= need,
         NEW f, f = find_fit(c, need), f # Null, NEW n, n = Size(c, b) - 2, n <= Size(c, f) - 2,
         NEW d \in memcpy(c, f, b, n), \A k \in 0 .. 3 : d.mem[f + k] = c.mem[f + k],
         NEW e, e = mm_free(place(d, f, need), b)
  PROVE  Regrants(c, B, b, e, f, need)
<1> DEFINE A == Held(c, B)
           H == A \ {b}
           X == H \cup {f}
           g == place(d, f, need)
<1>1. f \in Idle(c, B) /\ need <= Size(c, f)
  BY FitIdle DEF MIN
<1>2. /\ Heap(d, B) /\ Alike(c, d, B) /\ Keeps(c, d, A)
      /\ \A k \in Nat : k < n => GET(d, f + k) = GET(c, b + k)
  BY <1>1, Copied
<1>3. f \in Idle(d, B) /\ need <= Size(d, f) /\ Held(d, B) = A
  BY <1>1, <1>2 DEF Alike, Idle
<1>4. g = place(d, f, need) /\ e = mm_free(g, b)
  OBVIOUS
<1> HIDE DEF g, A
<1>5. /\ Leaves(d, B, g, Held(d, B) \cup {f}) /\ f \notin Held(d, B) /\ Size(g, f) >= need
      /\ \A q \in f .. (f + need - 3) : GET(g, q) = GET(d, q)
  BY <1>2, <1>3, <1>4, PlaceIn
<1>6. PICK F : Heap(g, F) /\ Held(g, F) = A \cup {f} /\ Keeps(d, g, A)
  <2>1. Held(d, B) \cap (Held(d, B) \cup {f}) = A
    BY <1>3
  <2> QED
    BY <1>3, <1>5, <2>1 DEF Leaves
<1>7. b \in A /\ f \notin A /\ b # f
  BY <1>3, <1>5 DEF A
<1>8. b \in Held(g, F) /\ Held(g, F) \ {b} = X /\ Held(g, F) \cap X = X /\ H \subseteq A /\ H \subseteq X /\ f \in X
      /\ X \subseteq Held(g, F)
  BY <1>6, <1>7
<1>9. PICK E : Heap(e, E) /\ Held(e, E) = X /\ Keeps(g, e, X)
  <2>1. Leaves(g, F, e, Held(g, F) \ {b})
    BY <1>4, <1>6, <1>8, Freed
  <2> HIDE DEF X
  <2> QED
    BY <1>8, <2>1 DEF Leaves
<1>10. Fat(c, H) /\ Fat(g, X)
  <2>1. Gap(c, B, First, First) /\ Gap(g, F, First, First) /\ H \subseteq B /\ X \subseteq F
    BY <1>6, <1>8 DEF Heap, Tiling, Held, A
  <2> HIDE DEF H, X
  <2> QED
    BY <2>1, GapFat
<1>11. Keeps(c, d, H) /\ Keeps(d, g, H) /\ Keeps(g, e, H)
  BY <1>2, <1>6, <1>8, <1>9 DEF Keeps
<1> HIDE DEF H
<1>12. Keeps(c, e, H)
  <2>1. Keeps(c, g, H)
    BY <1>10, <1>11, FatTwice
  <2> QED
    BY <1>10, <1>11, <2>1, FatTwice
<1>13. X = H \cup {f}
  OBVIOUS
<1> HIDE DEF X
<1>14. Size(e, f) = Size(g, f) /\ f \in Int /\ Size(g, f) \in Int
  <2>1. Size(e, f) = Size(g, f)
    BY <1>8, <1>9, <1>10, FatSame
  <2>2. f \in Int /\ g \in Memory
    BY <1>8, <1>10 DEF Fat
  <2> QED
    BY <2>1, <2>2, SizeIsInt
<1>15. ASSUME NEW k \in Nat, k <= need - 3, k <= Size(c, b) - 3 PROVE GET(e, f + k) = GET(c, b + k)
  <2>1. Size(c, b) \in Int
    <3>1. Gap(c, B, First, First) /\ b \in B
      BY DEF Heap, Tiling, Held
    <3> QED
      BY <3>1, GapBlocks
  <2>2. k < n /\ f + k \in f .. (f + need - 3) /\ f + k \in HEAD(f) .. FOOT(g, f)
    BY <1>5, <1>14, <1>15, <2>1 DEF HEAD, FOOT
  <2>3. GET(e, f + k) = GET(g, f + k)
    BY <1>8, <1>9, <2>2 DEF Keeps
  <2>4. GET(g, f + k) = GET(d, f + k)
    BY <1>5, <2>2
  <2> QED
    BY <1>2, <2>2, <2>3, <2>4
<1>16. Size(e, f) >= need
  BY <1>5, <1>14
<1>17. /\ Held(e, E) = (Held(c, B) \ {b}) \cup {f} /\ Keeps(c, e, Held(c, B) \ {b}) /\ f \notin Held(c, B) \ {b}
  <2>1. Held(c, B) \ {b} = H
    BY DEF A, H
  <2> QED
    BY <1>3, <1>5, <1>7, <1>9, <1>12, <1>13, <2>1 DEF A
<1> QED
  BY <1>9, <1>15, <1>16, <1>17 DEF Regrants

\* The heap is extended first.
LEMMA RegrantsTwice ==
  ASSUME NEW c, NEW B, Heap(c, B), NEW b \in Held(c, B), NEW d, NEW D, Held(d, D) = Held(c, B),
         Keeps(c, d, Held(c, B)), NEW e, NEW p, NEW n, Regrants(d, D, b, e, p, n)
  PROVE  Regrants(c, B, b, e, p, n)
<1> DEFINE A == Held(c, B)
           H == A \ {b}
<1>1. Held(d, D) = A /\ Keeps(c, d, A)
  OBVIOUS
<1>2. PICK E : /\ Heap(e, E) /\ Held(e, E) = H \cup {p}
               /\ Keeps(d, e, H) /\ p \notin H /\ Size(e, p) >= n
               /\ \A k \in Nat : k <= n - 3 /\ k <= Size(d, b) - 3 => GET(e, p + k) = GET(d, b + k)
  BY <1>1 DEF Regrants
<1>3. Gap(c, B, First, First) /\ A \subseteq B /\ b \in A /\ H \subseteq A
  BY DEF Heap, Tiling, Held
<1> HIDE DEF A
<1>4. Fat(c, A)
  BY <1>3, GapFat
<1>5. Fat(c, H) /\ Keeps(c, d, H)
  BY <1>1, <1>3, <1>4 DEF Fat, Keeps
<1> HIDE DEF H
<1>6. Keeps(c, e, H)
  BY <1>2, <1>5, FatTwice
<1>7. Size(d, b) = Size(c, b)
  BY <1>1, <1>3, <1>4, FatSame
<1>8. ASSUME NEW k \in Nat, k <= n - 3, k <= Size(c, b) - 3 PROVE GET(e, p + k) = GET(c, b + k)
  <2>1. b \in Int /\ Size(c, b) \in Int /\ Size(c, b) >= 6
    <3>1. c \in Memory /\ b \in Int /\ Size(c, b) >= MIN
      BY <1>3, <1>4 DEF Fat
    <3> QED
      BY <3>1, SizeIsInt DEF MIN
  <2>2. b + k \in HEAD(b) .. FOOT(c, b)
    BY <1>8, <2>1 DEF HEAD, FOOT
  <2>3. GET(d, b + k) = GET(c, b + k)
    BY <1>1, <1>3, <2>2 DEF Keeps
  <2> QED
    BY <1>2, <1>7, <1>8, <2>3
<1> QED
  BY <1>2, <1>6, <1>8 DEF Regrants, A, H
\* mm_realloc from any memory.
LEMMA ShapeMove ==
  ASSUME NEW c, Shape(c), NEW b, NEW need, NEW s \in Nat, NEW r \in Move(c, b, need, s)
  PROVE  Shape(r.m) /\ r.torn \in BOOLEAN /\ r = [m |-> r.m, p |-> r.p, torn |-> r.torn]
<1> DEFINE fit == find_fit(c, need)
           e   == IF fit = Null THEN extend_heap(c, s) ELSE c
           bp  == find_fit(e, need)
           n   == Size(c, b) - 2
           Torn(d) == n > Size(e, bp) - 2 \/ \E k \in 0 .. 3 : d.mem[bp + k] # e.mem[bp + k]
<1>1. Shape(e)
  BY ShapeExtend
<1>2. Move(c, b, need, s) = IF bp = Null THEN {Result(e, Null, FALSE)}
                            ELSE {Result(mm_free(place(d, bp, need), b), bp, Torn(d)) : d \in memcpy(e, bp, b, n)}
  BY DEF Move
<1>3. \A d : Torn(d) \in BOOLEAN
  OBVIOUS
<1> HIDE DEF e, bp, n, Torn
<1>4. CASE bp = Null
  <2>1. r = [m |-> e, p |-> Null, torn |-> FALSE]
    BY <1>2, <1>4 DEF Result
  <2> QED
    BY <1>1, <2>1
<1>5. CASE bp # Null
  <2>1. PICK d \in memcpy(e, bp, b, n) : r = Result(mm_free(place(d, bp, need), b), bp, Torn(d))
    BY <1>2, <1>5
  <2>2. Shape(d)
    BY <1>1, ShapeCopy
  <2>3. Shape(mm_free(place(d, bp, need), b))
    BY <2>2, ShapePlace, ShapeFree
  <2>4. r = [m |-> mm_free(place(d, bp, need), b), p |-> bp, torn |-> Torn(d)]
    BY <2>1 DEF Result
  <2> QED
    BY <1>3, <2>3, <2>4
<1> QED
  BY <1>4, <1>5

\* mm_realloc keeps the shape, whatever it tears.
LEMMA ShapeRealloc ==
  ASSUME NEW c, Shape(c), NEW b, NEW size \in Nat, NEW r \in mm_realloc(c, b, size)
  PROVE  Shape(r.m) /\ r.torn \in BOOLEAN
<1> DEFINE old   == Size(c, b)
           nextb == NEXT_BLKP(c, b)
           prevb == PREV_BLKP(c, b)
           before == ~Alloc(c, prevb)
           behind == ~Alloc(c, nextb)
           need  == Words(size + 8)
           room  == Room(c, b)
           bp    == IF before THEN prevb ELSE b
           whole == IF before /\ ~behind THEN old + Size(c, nextb) ELSE room
           extend == IF before \/ behind THEN Words(ReallocExtend + 8)
                     ELSE IF size = 16   THEN Words(16 + 8)
                     ELSE Words(ReallocExtend + 8 + 24)
           Taken(d) == IF room >= need + MIN THEN Split(d, bp, need, room)
                                             ELSE Tagged(d, bp, whole, 1)
           Over == \/ before /\ Overlap(bp, b, old - 2)
                   \/ room < need + MIN /\ whole # room
           lost == IF before /\ behind THEN Unlinked(c, b) ELSE c
           k == IF before THEN old - 2 ELSE 0
<1>1. mm_realloc(c, b, size) =
        CASE size = 0 -> {Result(mm_free(c, b), Null, FALSE)}
          [] size # 0 /\ (before \/ behind) /\ room >= need ->
               {Result(Taken(d), bp, Over) : d \in memcpy(Unlinked(c, b), bp, b, k)}
          [] OTHER -> {[q EXCEPT !.torn = @ \/ (before /\ behind)] : q \in Move(lost, b, need, extend)}
  BY DEF mm_realloc
<1>2. extend \in Nat
  <2>1. \A n \in Nat : Words(n) \in Nat
    BY WordsEven
  <2>2. ReallocExtend + 8 \in Nat /\ ReallocExtend + 8 + 24 \in Nat /\ 16 + 8 \in Nat
    BY MmAssumption
  <2> QED
    BY <2>1, <2>2
<1>3. before \in BOOLEAN /\ behind \in BOOLEAN /\ Over \in BOOLEAN
  OBVIOUS
<1>4. Shape(Unlinked(c, b)) /\ Shape(lost)
  BY ShapeUnlinked
<1>5. ASSUME NEW d, Shape(d) PROVE Shape(Taken(d))
  <2>1. Shape(Split(d, bp, need, room)) /\ Shape(Tagged(d, bp, whole, 1))
    BY <1>5, ShapeTagged, ShapeAdd DEF Split
  <2> QED
    BY <2>1
<1> HIDE DEF old, nextb, prevb, before, behind, need, room, bp, whole, extend, Taken, Over, lost, k
<1>6. CASE size = 0
  <2>1. r = [m |-> mm_free(c, b), p |-> Null, torn |-> FALSE]
    BY <1>1, <1>6 DEF Result
  <2> QED
    BY <2>1, ShapeFree
<1>7. CASE size # 0 /\ (before \/ behind) /\ room >= need
  <2>1. PICK d \in memcpy(Unlinked(c, b), bp, b, k) : r = [m |-> Taken(d), p |-> bp, torn |-> Over]
    BY <1>1, <1>7 DEF Result
  <2>2. Shape(d)
    BY <1>4, ShapeCopy
  <2> QED
    BY <1>3, <1>5, <2>1, <2>2
<1>8. CASE size # 0 /\ ~((before \/ behind) /\ room >= need)
  <2>1. PICK q \in Move(lost, b, need, extend) : r = [q EXCEPT !.torn = @ \/ (before /\ behind)]
    BY <1>1, <1>8
  <2>2. Shape(q.m) /\ q.torn \in BOOLEAN
    BY <1>2, <1>4, ShapeMove
  <2>3. r.m = q.m
    BY <2>1
  <2>4. r.torn = (q.torn \/ (before /\ behind))
    <3>1. q = [m |-> q.m, p |-> q.p, torn |-> q.torn]
      BY <1>2, <1>4, ShapeMove
    <3>2. [q EXCEPT !.torn = @ \/ (before /\ behind)] =
            [m |-> q.m, p |-> q.p, torn |-> q.torn \/ (before /\ behind)]
      BY <3>1
    <3> QED
      BY <2>1, <3>2
  <2> QED
    BY <1>3, <2>2, <2>3, <2>4
<1> QED
  BY <1>6, <1>7, <1>8

\* What an untorn mm_realloc returns.
Resizes(c, B, b, size, r) ==
  \/ size = 0 /\ Leaves(c, B, r.m, Held(c, B) \ {b})
  \/ size # 0 /\ r.p = Null /\ Leaves(c, B, r.m, Held(c, B))
  \/ size # 0 /\ r.p # Null /\ Regrants(c, B, b, r.m, r.p, Words(size + 8))

\* A realloc that moves a block, without tearing, grants another one with the data, or fails.
LEMMA Moved ==
  ASSUME NEW c, NEW B, Heap(c, B), NEW b \in Held(c, B), NEW need \in Int, need % 2 = 0, MIN <= need,
         NEW s \in Int, s % 2 = 0, MIN <= s, NEW r \in Move(c, b, need, s), ~r.torn
  PROVE  \/ r.p = Null /\ Leaves(c, B, r.m, Held(c, B))
         \/ r.p # Null /\ Regrants(c, B, b, r.m, r.p, need)
<1> DEFINE fit == find_fit(c, need)
           e   == IF fit = Null THEN extend_heap(c, s) ELSE c
           bp  == find_fit(e, need)
           n   == Size(c, b) - 2
           Torn(d) == n > Size(e, bp) - 2 \/ \E k \in 0 .. 3 : d.mem[bp + k] # e.mem[bp + k]
<1>1. Leaves(c, B, e, Held(c, B))
  <2> DEFINE x == extend_heap(c, s)
  <2>1. x = extend_heap(c, s)
    OBVIOUS
  <2> HIDE DEF x
  <2>2. Leaves(c, B, x, Held(c, B))
    BY <2>1, Extended
  <2>3. Leaves(c, B, c, Held(c, B))
    BY DEF Leaves, Keeps
  <2> QED
    BY <2>1, <2>2, <2>3
<1>2. Move(c, b, need, s) = IF bp = Null THEN {Result(e, Null, FALSE)}
                            ELSE {Result(mm_free(place(d, bp, need), b), bp, Torn(d)) : d \in memcpy(e, bp, b, n)}
  BY DEF Move
<1>3. bp = find_fit(e, need) /\ n = Size(c, b) - 2
  OBVIOUS
<1>4. ASSUME NEW d, ~Torn(d) PROVE ~(n > Size(e, bp) - 2) /\ \A k \in 0 .. 3 : d.mem[bp + k] = e.mem[bp + k]
  BY <1>4
<1> HIDE DEF e, bp, n, Torn
<1>5. CASE bp = Null
  <2>1. r = [m |-> e, p |-> Null, torn |-> FALSE]
    BY <1>2, <1>5 DEF Result
  <2> QED
    BY <1>1, <2>1
<1>6. CASE bp # Null
  <2>1. PICK d \in memcpy(e, bp, b, n) : r = Result(mm_free(place(d, bp, need), b), bp, Torn(d))
    BY <1>2, <1>6
  <2> DEFINE f == mm_free(place(d, bp, need), b)
  <2>2. r.m = f /\ r.p = bp /\ r.torn = Torn(d)
    BY <2>1 DEF Result
  <2>3. ~(n > Size(e, bp) - 2) /\ \A k \in 0 .. 3 : d.mem[bp + k] = e.mem[bp + k]
    BY <1>4, <2>2
  <2>4. f = mm_free(place(d, bp, need), b)
    OBVIOUS
  <2> HIDE DEF f
  <2>5. ASSUME NEW D, Heap(e, D), Held(e, D) = Held(c, B), Keeps(c, e, Held(c, B))
        PROVE  Regrants(e, D, b, f, bp, need)
    <3>1. Gap(c, B, First, First) /\ Gap(e, D, First, First) /\ Held(c, B) \subseteq B /\ Held(e, D) \subseteq D
      BY <2>5 DEF Heap, Tiling, Held
    <3>2. Fat(c, Held(c, B)) /\ Fat(e, Held(e, D))
      BY <3>1, GapFat
    <3>3. Size(e, b) = Size(c, b)
      BY <2>5, <3>2, FatSame
    <3>4. n = Size(e, b) - 2 /\ b \in Held(e, D)
      BY <1>3, <2>5, <3>3
    <3>5. n <= Size(e, bp) - 2
      <4>1. bp \in Idle(e, D)
        BY <1>3, <1>6, <2>5, FitIdle DEF MIN
      <4>2. Size(e, bp) \in Int /\ Size(e, b) \in Int
        BY <3>1, <3>4, <4>1, GapBlocks DEF Idle
      <4> QED
        BY <2>3, <3>4, <4>2
    <3> QED
      BY <1>3, <1>6, <2>3, <2>4, <2>5, <3>4, <3>5, MovedTo
  <2>6. PICK D : Heap(e, D) /\ Held(e, D) = Held(c, B) /\ Keeps(c, e, Held(c, B))
    <3>1. Held(c, B) \cap Held(c, B) = Held(c, B)
      OBVIOUS
    <3> QED
      BY <1>1, <3>1 DEF Leaves
  <2>7. Regrants(e, D, b, f, bp, need)
    BY <2>5, <2>6
  <2>8. Regrants(c, B, b, f, bp, need)
    BY <2>6, <2>7, RegrantsTwice
  <2> QED
    BY <1>6, <2>2, <2>8
<1> QED
  BY <1>5, <1>6

\* A realloc that grants a block returns it.
LEMMA RegrantsSome ==
  ASSUME NEW c, NEW B, NEW b, NEW e, NEW p, NEW n, Regrants(c, B, b, e, p, n)
  PROVE  p # Null
<1>1. PICK E : Heap(e, E) /\ Held(e, E) = (Held(c, B) \ {b}) \cup {p}
  BY DEF Regrants
<1>2. Gap(e, E, First, First) /\ p \in E
  BY <1>1 DEF Heap, Tiling, Held
<1>3. p \in Int /\ First <= p
  BY <1>2, GapBlocks
<1> QED
  BY <1>3 DEF First, Base, Null

\* mm_realloc, when it does not tear the heap: the block keeps its data.
LEMMA Realloced ==
  ASSUME NEW c, NEW B, Heap(c, B), NEW b \in Held(c, B), NEW size \in Bytes, size = 0 \/ size > 8,
         NEW r \in mm_realloc(c, b, size), ~r.torn
  PROVE  Resizes(c, B, b, size, r)
<1> DEFINE old   == Size(c, b)
           nextb == NEXT_BLKP(c, b)
           prevb == PREV_BLKP(c, b)
           before == ~Alloc(c, prevb)
           behind == ~Alloc(c, nextb)
           need  == Words(size + 8)
           room  == Room(c, b)
           bp    == IF before THEN prevb ELSE b
           whole == IF before /\ ~behind THEN old + Size(c, nextb) ELSE room
           extend == IF before \/ behind THEN Words(ReallocExtend + 8)
                     ELSE IF size = 16   THEN Words(16 + 8)
                     ELSE Words(ReallocExtend + 8 + 24)
           Taken(d) == IF room >= need + MIN THEN Split(d, bp, need, room)
                                             ELSE Tagged(d, bp, whole, 1)
           Over == \/ before /\ Overlap(bp, b, old - 2)
                   \/ room < need + MIN /\ whole # room
           lost == IF before /\ behind THEN Unlinked(c, b) ELSE c
           k == IF before THEN old - 2 ELSE 0
<1>1. mm_realloc(c, b, size) =
        CASE size = 0 -> {Result(mm_free(c, b), Null, FALSE)}
          [] size # 0 /\ (before \/ behind) /\ room >= need ->
               {Result(Taken(d), bp, Over) : d \in memcpy(Unlinked(c, b), bp, b, k)}
          [] OTHER -> {[q EXCEPT !.torn = @ \/ (before /\ behind)] : q \in Move(lost, b, need, extend)}
  BY DEF mm_realloc
<1>2. /\ extend \in Int /\ extend % 2 = 0 /\ MIN <= extend
      /\ need \in Int /\ need % 2 = 0
      /\ size # 0 => MIN <= need
  <2>1. \A n \in Nat : n >= 24 => Words(n) \in Int /\ Words(n) % 2 = 0 /\ 6 <= Words(n)
    <3> SUFFICES ASSUME NEW n \in Nat, n >= 24 PROVE Words(n) \in Int /\ Words(n) % 2 = 0 /\ 6 <= Words(n)
      OBVIOUS
    <3>1. Words(n) \in Int /\ Words(n) % 2 = 0 /\ 4 * Words(n) >= n
      BY WordsEven
    <3> QED
      BY <3>1
  <2>2. /\ ReallocExtend + 8 \in Nat /\ ReallocExtend + 8 + 24 \in Nat /\ 16 + 8 \in Nat
        /\ ReallocExtend + 8 >= 24 /\ ReallocExtend + 8 + 24 >= 24 /\ 16 + 8 >= 24
    BY MmAssumption
  <2>3. extend \in Int /\ extend % 2 = 0 /\ 6 <= extend
    BY <2>1, <2>2
  <2>4. size \in Nat /\ size % 4 = 0 /\ size + 8 \in Nat
    BY DEF Bytes
  <2>5. need \in Int /\ need % 2 = 0 /\ 4 * need >= size + 8
    BY <2>4, WordsEven
  <2>6. size # 0 => 6 <= need
    <3>1. size # 0 => size >= 12
      BY <2>4
    <3> QED
      BY <2>4, <2>5, <3>1
  <2> QED
    BY <2>3, <2>5, <2>6 DEF MIN
<1>3. /\ old = Size(c, b) /\ prevb = PREV_BLKP(c, b) /\ room = Room(c, b)
      /\ bp = (IF Alloc(c, prevb) THEN b ELSE prevb)
      /\ k = (IF Alloc(c, prevb) THEN 0 ELSE old - 2)
      /\ before <=> ~Alloc(c, prevb)
  OBVIOUS
<1>4. ~Over => /\ ~before \/ ~Overlap(bp, b, old - 2)
               /\ ~(room < need + MIN) \/ whole = room
  OBVIOUS
<1>5. \A d : Taken(d) = IF room >= need + MIN THEN Split(d, bp, need, room) ELSE Tagged(d, bp, whole, 1)
  OBVIOUS
<1>6. room \in Int
  <2>1. c \in Memory /\ b \in Int
    <3>1. Gap(c, B, First, First) /\ b \in B
      BY DEF Heap, Tiling, Held
    <3> QED
      BY <3>1, GapBlocks
  <2>2. prevb \in Int /\ nextb \in Int
    BY <2>1, WordsAreInt DEF PREV_BLKP, NEXT_BLKP, Size, HEAD
  <2>3. Size(c, b) \in Int /\ Size(c, nextb) \in Int /\ Size(c, prevb) \in Int
    BY <2>1, <2>2, SizeIsInt
  <2> QED
    BY <2>3 DEF Room, FreeSize
<1>7. lost = IF before /\ behind THEN Unlinked(c, b) ELSE c
  OBVIOUS
<1>8. need = Words(size + 8) /\ before \in BOOLEAN /\ behind \in BOOLEAN
  OBVIOUS
<1> HIDE DEF old, nextb, prevb, before, behind, need, room, bp, whole, extend, Taken, Over, lost, k
<1>9. CASE size = 0
  <2> DEFINE e == mm_free(c, b)
  <2>1. r = [m |-> e, p |-> Null, torn |-> FALSE]
    BY <1>1, <1>9 DEF Result
  <2>2. e = mm_free(c, b)
    OBVIOUS
  <2> HIDE DEF e
  <2>3. Leaves(c, B, e, Held(c, B) \ {b})
    BY <2>2, Freed
  <2> QED
    BY <1>9, <2>1, <2>3 DEF Resizes
<1>10. CASE size # 0 /\ (before \/ behind) /\ room >= need
  <2> DEFINE u == Unlinked(c, b)
  <2>1. PICK d \in memcpy(u, bp, b, k) : r = [m |-> Taken(d), p |-> bp, torn |-> Over]
    BY <1>1, <1>10 DEF Result
  <2> DEFINE e == Taken(d)
  <2>2. u = Unlinked(c, b)
    OBVIOUS
  <2>3. ~Over
    BY <2>1
  <2>4. e = (IF room >= need + MIN THEN Split(d, bp, need, room) ELSE Tagged(d, bp, room, 1))
    <3>1. CASE room >= need + MIN
      BY <1>5, <3>1
    <3>2. CASE ~(room >= need + MIN)
      <4>1. room < need + MIN
        BY <1>2, <1>6, <3>2 DEF MIN
      <4> QED
        BY <1>4, <1>5, <2>3, <3>2, <4>1
    <3> QED
      BY <3>1, <3>2
  <2>5. r.m = e /\ r.p = bp
    BY <2>1
  <2>6. Alloc(c, prevb) \/ ~Overlap(bp, b, old - 2)
    BY <1>3, <1>4, <2>3
  <2>7. need <= room /\ MIN <= need /\ need \in Int /\ need % 2 = 0
    BY <1>2, <1>6, <1>10
  <2> HIDE DEF u, e
  <2>8. Regrants(c, B, b, e, bp, need)
    BY <1>3, <2>1, <2>2, <2>4, <2>6, <2>7, Retaken
  <2>9. bp # Null
    BY <2>8, RegrantsSome
  <2> QED
    BY <1>8, <1>10, <2>5, <2>8, <2>9 DEF Resizes
<1>11. CASE size # 0 /\ ~((before \/ behind) /\ room >= need)
  <2>1. PICK q \in Move(lost, b, need, extend) : r = [q EXCEPT !.torn = @ \/ (before /\ behind)]
    BY <1>1, <1>11
  <2>2. c \in Memory /\ c.brk \in First .. (Base + MaxHeap)
    BY DEF Heap, Tiling, Gap, Walls
  <2>3. Shape(lost)
    BY <1>7, <2>2, MemoryShape, ShapeUnlinked
  <2>4. extend \in Nat
    BY <1>2 DEF MIN
  <2>5. q = [m |-> q.m, p |-> q.p, torn |-> q.torn]
    BY <2>3, <2>4, ShapeMove
  <2>6. r.m = q.m /\ r.p = q.p /\ r.torn = (q.torn \/ (before /\ behind))
    <3>1. [q EXCEPT !.torn = @ \/ (before /\ behind)] =
            [m |-> q.m, p |-> q.p, torn |-> q.torn \/ (before /\ behind)]
      BY <2>5
    <3> QED
      BY <2>1, <3>1
  <2>7. ~q.torn /\ ~(before /\ behind)
    BY <2>6
  <2>8. q \in Move(c, b, need, extend) /\ MIN <= need
    BY <1>2, <1>7, <1>11, <2>1, <2>7
  <2>9. \/ q.p = Null /\ Leaves(c, B, q.m, Held(c, B))
        \/ q.p # Null /\ Regrants(c, B, b, q.m, q.p, need)
    BY <1>2, <2>7, <2>8, Moved
  <2> QED
    BY <1>8, <1>11, <2>6, <2>9 DEF Resizes
<1> QED
  BY <1>9, <1>10, <1>11
-----------------------------------------------------------------------------
(* The client and its blocks. *)

\* Client i holds the block at p, with its pattern in all of the size bytes.
Stored(c, B, i, p, size) ==
  /\ p \in Held(c, B) /\ size \in Bytes /\ Size(c, p) >= Words(size + 8)
  /\ \A k \in Nat : k < size \div 4 => GET(c, p + k) = Pattern(i)

Client(c, B, bk) ==
  /\ bk = [i \in Ids |-> bk[i]]
  /\ \A i \in Ids : bk[i] = NoBlock \/ (bk[i].at # Null /\ Stored(c, B, i, bk[i].at, bk[i].size))
  /\ \A i, j \in Ids : i # j /\ bk[i].at = bk[j].at => bk[i].at = Null
  /\ \A p \in Held(c, B) : \E i \in Ids : bk[i].at = p

Sane(c, bk) == \E B : Heap(c, B) /\ Client(c, B, bk)

\* The data of a request fits into its block.
LEMMA DataFits ==
  ASSUME NEW size \in Bytes, NEW s \in Int, s >= Words(size + 8)
  PROVE  size \div 4 \in Nat /\ size \div 4 <= s - 2 /\ size \in Nat
<1>1. size \in Nat /\ size % 4 = 0 /\ size + 8 \in Nat
  BY DEF Bytes
<1>2. Words(size + 8) \in Int /\ 4 * Words(size + 8) >= size + 8
  BY <1>1, WordsEven
<1>3. size \div 4 \in Nat /\ 4 * (size \div 4) = size
  BY <1>1
<1> DEFINE w == Words(size + 8)
           h == size \div 4
<1>4. w \in Int /\ h \in Nat /\ 4 * w >= 4 * h + 8 /\ s >= w
  BY <1>2, <1>3
<1> HIDE DEF w, h
<1>5. h <= s - 2
  BY <1>4
<1> QED
  BY <1>1, <1>3, <1>5 DEF h

\* What a client stored in a block stays as long as the words of the block are kept.
LEMMA StoredKept ==
  ASSUME NEW c, NEW B, NEW i, NEW p, NEW size, Stored(c, B, i, p, size),
         NEW X, Fat(c, X), p \in X, NEW e, Keeps(c, e, X), NEW E, X \subseteq Held(e, E)
  PROVE  Stored(e, E, i, p, size)
<1>1. p \in Int /\ Size(c, p) \in Int /\ Size(c, p) >= 6
  <2>1. c \in Memory /\ p \in Int /\ Size(c, p) >= MIN
    BY DEF Fat
  <2> QED
    BY <2>1, SizeIsInt DEF MIN
<1>2. size \in Bytes /\ Size(c, p) >= Words(size + 8) /\ size \div 4 \in Nat /\ size \div 4 <= Size(c, p) - 2
  <2>1. size \in Bytes /\ Size(c, p) >= Words(size + 8)
    BY DEF Stored
  <2> QED
    BY <1>1, <2>1, DataFits
<1>3. Size(e, p) = Size(c, p)
  BY FatSame
<1>4. ASSUME NEW k \in Nat, k < size \div 4 PROVE GET(e, p + k) = Pattern(i)
  <2>1. p + k \in HEAD(p) .. FOOT(c, p)
    BY <1>1, <1>2, <1>4 DEF HEAD, FOOT
  <2>2. GET(e, p + k) = GET(c, p + k)
    BY <2>1 DEF Keeps
  <2> QED
    BY <1>4, <2>2 DEF Stored
<1> QED
  BY <1>2, <1>3, <1>4 DEF Stored

\* A call that only frees, or fails.
LEMMA ClientLeaves ==
  ASSUME NEW c, NEW B, Heap(c, B), NEW bk, Client(c, B, bk), NEW X, NEW e, Leaves(c, B, e, X),
         NEW bk2, bk2 = [i \in Ids |-> bk2[i]], \A i \in Ids : bk2[i] = bk[i] \/ bk2[i] = NoBlock,
         X = {p \in Held(c, B) : \E i \in Ids : bk2[i].at = p}
  PROVE  \E E : Heap(e, E) /\ Client(e, E, bk2)
<1>1. X \subseteq Held(c, B) /\ Held(c, B) \cap X = X /\ \A p \in X : \E i \in Ids : bk2[i].at = p
  OBVIOUS
<1>2. \A p \in Held(c, B) : \A i \in Ids : bk2[i].at = p => p \in X
  OBVIOUS
<1>3. Fat(c, X)
  <2>1. Gap(c, B, First, First) /\ X \subseteq B
    BY <1>1 DEF Heap, Tiling, Held
  <2> QED
    BY <2>1, GapFat
<1>4. PICK E : Heap(e, E) /\ Held(e, E) = X /\ Keeps(c, e, X)
  BY <1>1 DEF Leaves
<1>5. ASSUME NEW i \in Ids
      PROVE  bk2[i] = NoBlock \/ (bk2[i].at # Null /\ Stored(e, E, i, bk2[i].at, bk2[i].size))
  <2>1. CASE bk2[i] # NoBlock
    <3>1. bk2[i] = bk[i]
      BY <2>1
    <3>2. bk2[i].at # Null /\ Stored(c, B, i, bk2[i].at, bk2[i].size)
      BY <2>1, <3>1 DEF Client
    <3> DEFINE p == bk2[i].at
               size == bk2[i].size
    <3>3. p = bk2[i].at /\ Stored(c, B, i, p, size)
      BY <3>2
    <3> HIDE DEF p, size
    <3>4. p \in X
      BY <1>2, <3>3 DEF Stored
    <3>5. X \subseteq Held(e, E) /\ Keeps(c, e, X)
      BY <1>4
    <3>6. Stored(e, E, i, p, size)
      BY <1>3, <3>3, <3>4, <3>5, StoredKept
    <3> QED
      BY <3>2, <3>6 DEF p, size
  <2> QED
    BY <2>1
<1>6. ASSUME NEW i \in Ids, NEW j \in Ids, i # j, bk2[i].at = bk2[j].at PROVE bk2[i].at = Null
  <2>1. NoBlock.at = Null
    BY DEF NoBlock
  <2>2. CASE bk2[i] = NoBlock \/ bk2[j] = NoBlock
    BY <1>6, <2>1, <2>2
  <2>3. CASE bk2[i] = bk[i] /\ bk2[j] = bk[j]
    BY <1>6, <2>3 DEF Client
  <2> QED
    BY <2>2, <2>3
<1> QED
  BY <1>1, <1>4, <1>5, <1>6 DEF Client

\* The client writes its pattern from word k on.
LEMMA Filled ==
  ASSUME NEW c, NEW B, Heap(c, B), NEW p \in Held(c, B), NEW i \in Ids, NEW size \in Bytes,
         Size(c, p) >= Words(size + 8), NEW k \in Nat,
         \A j \in Nat : j < k /\ j < size \div 4 => GET(c, p + j) = Pattern(i),
         NEW d, d = Fill(c, i, p, k, size)
  PROVE  /\ Heap(d, B) /\ Held(d, B) = Held(c, B) /\ Keeps(c, d, Held(c, B) \ {p})
         /\ Stored(d, B, i, p, size)
<1>1. Gap(c, B, First, First) /\ c.up /\ p \in B /\ Alloc(c, p)
  BY DEF Heap, Tiling, Held
<1>2. /\ c \in Memory /\ c.brk \in Int /\ MaxHeap \in Nat /\ First = 6 /\ Base = 2
      /\ c.brk <= Base + MaxHeap
      /\ \A j \in B : /\ j \in Int /\ Size(c, j) \in Int /\ Size(c, j) >= MIN /\ First <= j
                      /\ j + Size(c, j) <= c.brk /\ HEAD(j) = j - 1 /\ FOOT(c, j) = j + Size(c, j) - 2
      /\ \A j, h \in B : j < h => j + Size(c, j) <= h
  <2>1. c.brk <= Base + MaxHeap /\ c.brk \in Int /\ MaxHeap \in Nat /\ First = 6 /\ Base = 2
    BY <1>1, MmAssumption DEF Gap, Walls, First, Base
  <2> QED
    BY <1>1, <2>1, GapBlocks
<1> DEFINE s == Size(c, p)
           n == size \div 4
           w == [a \in DOMAIN c.mem |-> IF a \in (p + k) .. (p + n - 1) THEN Pattern(i) ELSE c.mem[a]]
<1>3. /\ p \in Int /\ s \in Int /\ 6 <= s /\ First <= p /\ p + s <= c.brk /\ FOOT(c, p) = p + s - 2
      /\ n \in Nat /\ n <= s - 2
  <2>1. p \in Int /\ s \in Int /\ 6 <= s /\ First <= p /\ p + s <= c.brk /\ FOOT(c, p) = p + s - 2
    BY <1>1, <1>2 DEF MIN
  <2>2. n \in Nat /\ n <= s - 2
    BY <2>1, DataFits
  <2> QED
    BY <2>1, <2>2
<1>4. d = [c EXCEPT !.mem = w, !.up = c.up /\ (p + k) .. (p + n - 1) \subseteq DOMAIN c.mem]
  BY DEF Fill
<1>5. DOMAIN c.mem = Cell /\ Cell \subseteq Int /\ c.mem \in [Cell -> Word] /\ Pattern(i) \in Word
  BY <1>2 DEF Memory, Cell, Word
<1>6. s = Size(c, p) /\ n = size \div 4
  OBVIOUS
<1>7. w = [a \in Cell |-> IF a \in (p + k) .. (p + n - 1) THEN Pattern(i) ELSE c.mem[a]]
  BY <1>5
<1> HIDE DEF s, n, w
<1>8. (p + k) .. (p + n - 1) \subseteq Cell
  <2> SUFFICES ASSUME NEW q \in (p + k) .. (p + n - 1) PROVE q \in Cell
    OBVIOUS
  <2>1. q \in Int /\ p <= q /\ q <= p + n - 1
    BY <1>3
  <2>2. Base <= q /\ q <= Base + MaxHeap - 1
    BY <1>2, <1>3, <2>1
  <2> QED
    BY <1>2, <2>1, <2>2 DEF Cell
<1>9. w \in [Cell -> Word]
  BY <1>5, <1>7
<1>10. d \in Memory /\ d.my_tree = c.my_tree /\ d.brk = c.brk /\ d.up = c.up /\ d.up /\ d.mem = w
  <2>1. d = [c EXCEPT !.mem = w, !.up = TRUE]
    BY <1>1, <1>4, <1>5, <1>8
  <2>2. c.up = TRUE
    BY <1>1, <1>2 DEF Memory
  <2> QED
    BY <1>2, <1>9, <2>1, <2>2 DEF Memory
<1>11. ASSUME NEW q \in Int
       PROVE  GET(d, q) = IF q \in (p + k) .. (p + n - 1) THEN Pattern(i) ELSE GET(c, q)
  <2>1. DOMAIN d.mem = Cell /\ DOMAIN c.mem = Cell
    BY <1>5, <1>9, <1>10
  <2>2. CASE q \in Cell
    <3>1. GET(d, q) = w[q] /\ GET(c, q) = c.mem[q]
      BY <1>10, <2>1, <2>2 DEF GET
    <3> QED
      BY <1>7, <2>2, <3>1
  <2>3. CASE q \notin Cell
    BY <1>8, <2>1, <2>3 DEF GET
  <2> QED
    BY <2>2, <2>3
<1>12. ASSUME NEW q \in Int, q \notin Open(c, B) PROVE GET(d, q) = GET(c, q)
  <2>1. q \notin (p + k) .. (p + n - 1)
    <3>1. ~(p <= q /\ q < FOOT(c, p))
      BY <1>1, <1>12 DEF Open
    <3> QED
      BY <1>3, <3>1
  <2> QED
    BY <1>11, <2>1
<1>13. Heap(d, B) /\ Alike(c, d, B)
  BY <1>10, <1>12, HeapSame
<1>14. Keeps(c, d, Held(c, B) \ {p})
  <2> SUFFICES ASSUME NEW j \in Held(c, B), j # p, NEW q \in HEAD(j) .. FOOT(c, j) PROVE GET(d, q) = GET(c, q)
    BY DEF Keeps
  <2>1. j \in B /\ j \in Int
    BY <1>2 DEF Held
  <2>2. j + Size(c, j) <= p \/ p + s <= j
    BY <1>1, <1>2, <1>6, <2>1
  <2>3. Size(c, j) \in Int /\ q \in (j - 1) .. (j + Size(c, j) - 2)
    BY <1>2, <2>1
  <2>4. q \in Int /\ q \notin (p + k) .. (p + n - 1)
    BY <1>3, <2>1, <2>2, <2>3
  <2> QED
    BY <1>11, <2>4
<1>15. ASSUME NEW j \in Nat, j < n PROVE GET(d, p + j) = Pattern(i)
  <2>1. CASE j < k
    <3>1. p + j \in Int /\ p + j \notin (p + k) .. (p + n - 1)
      BY <1>3, <2>1
    <3> QED
      BY <1>6, <1>11, <1>15, <2>1, <3>1
  <2>2. CASE ~(j < k)
    <3>1. p + j \in Int /\ p + j \in (p + k) .. (p + n - 1)
      BY <1>3, <1>15, <2>2
    <3> QED
      BY <1>11, <3>1
  <2> QED
    BY <2>1, <2>2
<1>16. Size(d, p) = Size(c, p) /\ p \in Held(d, B) /\ Held(d, B) = Held(c, B)
  BY <1>1, <1>13 DEF Alike
<1> QED
  BY <1>6, <1>13, <1>14, <1>15, <1>16 DEF Stored

\* The client gets a block and fills it.
Hands(c, B, bk, i, e, E, p, size) ==
  /\ Heap(e, E) /\ Held(e, E) = (Held(c, B) \ {bk[i].at}) \cup {p} /\ p \notin Held(c, B) \ {bk[i].at}
  /\ Keeps(c, e, Held(c, B) \ {bk[i].at}) /\ Size(e, p) >= Words(size + 8)
  /\ \A j \in Nat : j < bk[i].size \div 4 /\ j < size \div 4 => GET(e, p + j) = Pattern(i)

\* The client fills the block a call has handed to it, and holds it with its pattern.
LEMMA ClientTakes ==
  ASSUME NEW c, NEW B, Heap(c, B), NEW bk, Client(c, B, bk), NEW i \in Ids, NEW size \in Bytes,
         NEW e, NEW E, NEW p, Hands(c, B, bk, i, e, E, p, size),
         NEW d, d = Fill(e, i, p, bk[i].size \div 4, size),
         NEW bk2, bk2 = [bk EXCEPT ![i] = [at |-> p, size |-> size]]
  PROVE  Sane(d, bk2)
<1> DEFINE H == Held(c, B) \ {bk[i].at}
<1>1. /\ Heap(e, E) /\ Held(e, E) = H \cup {p} /\ p \notin H /\ Keeps(c, e, H) /\ Size(e, p) >= Words(size + 8)
      /\ \A j \in Nat : j < bk[i].size \div 4 /\ j < size \div 4 => GET(e, p + j) = Pattern(i)
  BY DEF Hands
<1>2. bk[i].size \div 4 \in Nat
  <2>1. bk[i].size \in Nat
    <3>1. bk[i] = NoBlock \/ bk[i].size \in Bytes
      BY DEF Client, Stored
    <3> QED
      BY <3>1 DEF NoBlock, Bytes
  <2> QED
    BY <2>1
<1> DEFINE k == bk[i].size \div 4
<1>3. k \in Nat /\ d = Fill(e, i, p, k, size)
      /\ \A j \in Nat : j < k /\ j < size \div 4 => GET(e, p + j) = Pattern(i)
  BY <1>1, <1>2
<1>4. p \in Held(e, E) /\ Held(e, E) \ {p} = H
  BY <1>1
<1> HIDE DEF k
<1>5. /\ Heap(d, E) /\ Held(d, E) = Held(e, E) /\ Keeps(e, d, Held(e, E) \ {p})
      /\ Stored(d, E, i, p, size)
  BY <1>1, <1>3, <1>4, Filled
<1>6. Fat(c, H)
  <2>1. Gap(c, B, First, First) /\ H \subseteq B
    BY DEF Heap, Tiling, Held
  <2> QED
    BY <2>1, GapFat
<1>7. Keeps(c, d, H)
  <2>1. Keeps(c, e, H) /\ Keeps(e, d, H)
    BY <1>1, <1>4, <1>5
  <2> QED
    BY <1>6, <2>1, FatTwice
<1>8. p # Null
  <2>1. Gap(e, E, First, First) /\ p \in E
    BY <1>1, <1>4 DEF Heap, Tiling, Held
  <2>2. p \in Int /\ First <= p
    BY <2>1, GapBlocks
  <2> QED
    BY <2>2 DEF First, Base, Null
<1>9. DOMAIN bk = Ids /\ bk2 = [j \in Ids |-> bk2[j]] /\ bk2[i] = [at |-> p, size |-> size]
      /\ \A j \in Ids : j # i => bk2[j] = bk[j]
  BY DEF Client
<1>10. ASSUME NEW j \in Ids, j # i, bk[j] # NoBlock PROVE bk[j].at \in H /\ Stored(d, E, j, bk[j].at, bk[j].size)
  <2>1. bk[j].at # Null /\ Stored(c, B, j, bk[j].at, bk[j].size)
    BY <1>10 DEF Client
  <2>2. bk[j].at # bk[i].at
    BY <1>10, <2>1 DEF Client
  <2>3. bk[j].at \in H
    BY <2>1, <2>2 DEF Stored
  <2> DEFINE q == bk[j].at
             z == bk[j].size
  <2>4. Stored(c, B, j, q, z) /\ q \in H
    BY <2>1, <2>3
  <2> HIDE DEF q, z
  <2>5. H \subseteq Held(d, E)
    BY <1>1, <1>5
  <2>6. Stored(d, E, j, q, z)
    BY <1>6, <1>7, <2>4, <2>5, StoredKept
  <2> QED
    BY <2>3, <2>6 DEF q, z
<1>11. \A j \in Ids : bk2[j] = NoBlock \/ (bk2[j].at # Null /\ Stored(d, E, j, bk2[j].at, bk2[j].size))
  <2> SUFFICES ASSUME NEW j \in Ids, bk2[j] # NoBlock
               PROVE  bk2[j].at # Null /\ Stored(d, E, j, bk2[j].at, bk2[j].size)
    OBVIOUS
  <2>1. CASE j = i
    BY <1>5, <1>8, <1>9, <2>1
  <2>2. CASE j # i
    <3>1. bk2[j] = bk[j] /\ bk[j] # NoBlock
      BY <1>9, <2>2
    <3>2. bk[j].at # Null
      BY <3>1 DEF Client
    <3> QED
      BY <1>10, <2>2, <3>1, <3>2
  <2> QED
    BY <2>1, <2>2
<1>12. ASSUME NEW a \in Ids, NEW j \in Ids, a # j, bk2[a].at = bk2[j].at PROVE bk2[a].at = Null
  <2>1. ASSUME NEW x \in Ids, x # i, bk2[x].at = p PROVE FALSE
    <3>1. bk[x].at = p /\ bk[x] # NoBlock
      BY <1>8, <1>9, <2>1 DEF NoBlock
    <3> QED
      BY <1>1, <1>10, <2>1, <3>1
  <2>2. CASE a = i \/ j = i
    BY <1>9, <1>12, <2>1, <2>2
  <2>3. CASE a # i /\ j # i
    <3>1. bk[a].at = bk[j].at /\ bk2[a].at = bk[a].at
      BY <1>9, <1>12, <2>3
    <3> QED
      BY <1>12, <3>1 DEF Client
  <2> QED
    BY <2>2, <2>3
<1>13. ASSUME NEW q \in Held(d, E) PROVE \E j \in Ids : bk2[j].at = q
  <2>1. CASE q = p
    BY <1>9, <2>1
  <2>2. CASE q # p
    <3>1. q \in Held(c, B) /\ q # bk[i].at
      BY <1>1, <1>5, <2>2
    <3>2. PICK j \in Ids : bk[j].at = q
      BY <3>1 DEF Client
    <3> QED
      BY <1>9, <3>1, <3>2
  <2> QED
    BY <2>1, <2>2
<1>14. Client(d, E, bk2)
  BY <1>5, <1>9, <1>11, <1>12, <1>13 DEF Client
<1> QED
  BY <1>5, <1>14 DEF Sane
-----------------------------------------------------------------------------
(* The inductive invariant. *)

\* INDUCTIVE INVARIANT: until a realloc tears the heap, some set of blocks tiles it, the tree
\* is a search tree over the free ones, no two of those touch, and each allocated block is
\* one client's and holds its pattern.
MmInv ==
  /\ Shape(m) /\ calls \in Calls /\ torn \in BOOLEAN /\ blk = [i \in Ids |-> blk[i]]
  /\ ~torn => Sane(m, blk)

\* A sound heap has the shape, and no write has left the arena.
LEMMA SaneShape == \A c, bk : Sane(c, bk) => Shape(c) /\ c.up
<1> SUFFICES ASSUME NEW c, NEW bk, Sane(c, bk) PROVE Shape(c) /\ c.up
  OBVIOUS
<1>1. PICK B : Heap(c, B)
  BY DEF Sane
<1>2. c \in Memory /\ c.brk \in First .. (Base + MaxHeap) /\ c.up
  BY <1>1 DEF Heap, Tiling, Gap, Walls
<1> QED
  BY <1>2, MemoryShape

\* The heap of mm_init, with no block allocated.
LEMMA InitInv == Init => MmInv
<1> SUFFICES ASSUME Init PROVE MmInv
  OBVIOUS
<1>1. m = mm_init /\ blk = [i \in Ids |-> NoBlock] /\ calls \in Scripts /\ torn = FALSE
  BY DEF Init
<1>2. PICK E : Heap(m, E) /\ Held(m, E) = {}
  BY <1>1, Started
<1>3. \A i \in Ids : blk[i] = NoBlock /\ blk[i].at = Null
  BY <1>1 DEF NoBlock
<1>4. Client(m, E, blk)
  BY <1>1, <1>2, <1>3 DEF Client
<1>5. Sane(m, blk)
  BY <1>2, <1>4 DEF Sane
<1>6. calls \in Calls
  BY <1>1, MmAssumption
<1>7. blk = [i \in Ids |-> blk[i]]
  BY <1>1
<1> QED
  BY <1>1, <1>5, <1>6, <1>7, SaneShape DEF MmInv

\* A call starts from a sound heap and leaves its rest of calls.
LEMMA CallStep ==
  ASSUME NEW i \in Ids, NEW size, Call(i, size), MmInv
  PROVE  calls' \in Calls /\ Sane(m, blk) /\ torn = FALSE
<1>1. ~torn /\ torn \in BOOLEAN /\ Sane(m, blk) /\ calls \in Calls
  BY DEF MmInv, Call
<1>2. calls.do \in Seq([i : Ids, size : Bytes]) /\ calls.more \in Nat
      /\ calls = [do |-> calls.do, more |-> calls.more]
  BY <1>1 DEF Calls
<1>3. CASE calls.do # <<>> /\ calls' = [calls EXCEPT !.do = Tail(@)]
  <2>1. Tail(calls.do) \in Seq([i : Ids, size : Bytes])
    BY <1>2, <1>3
  <2> QED
    BY <1>1, <1>2, <1>3, <2>1 DEF Calls
<1>4. CASE calls.more > 0 /\ calls' = [calls EXCEPT !.more = @ - 1]
  <2>1. calls.more - 1 \in Nat
    BY <1>2, <1>4
  <2> QED
    BY <1>1, <1>2, <1>4, <2>1 DEF Calls
<1> QED
  BY <1>1, <1>3, <1>4 DEF Call

\* The next size is one of Sizes, or the script's.
LEMMA AskedTyped ==
  ASSUME calls \in Calls, NEW size \in Asked
  PROVE  size \in Bytes
<1>1. CASE calls.do = <<>>
  BY <1>1, MmAssumption DEF Asked
<1>2. CASE calls.do # <<>>
  <2>1. calls.do \in Seq([i : Ids, size : Bytes])
    BY DEF Calls
  <2>2. \A S : \A s \in Seq(S) : s # <<>> => Head(s) \in S
    OBVIOUS
  <2>3. Head(calls.do) \in [i : Ids, size : Bytes]
    BY <1>2, <2>1, <2>2
  <2> QED
    BY <1>2, <2>3 DEF Asked
<1> QED
  BY <1>1, <1>2

\* Requests are numbers.
LEMMA BytesNat == \A n \in Bytes : n \in Nat /\ n + 8 \in Nat
  BY DEF Bytes

\* A malloc by the client keeps the heap sound.
LEMMA MallocSane ==
  ASSUME NEW c, NEW bk, Sane(c, bk), NEW i \in Ids, bk[i].at = Null, NEW size \in Bytes,
         NEW r, r = mm_malloc(c, size), NEW d, NEW bk2,
         d = (IF r.p = Null THEN r.m ELSE Fill(r.m, i, r.p, bk[i].size \div 4, size)),
         bk2 = (IF r.p = Null THEN bk ELSE [bk EXCEPT ![i] = [at |-> r.p, size |-> size]])
  PROVE  Sane(d, bk2)
<1>1. PICK B : Heap(c, B) /\ Client(c, B, bk)
  BY DEF Sane
<1>2. bk[i] = NoBlock /\ bk = [j \in Ids |-> bk[j]]
  BY <1>1 DEF Client
<1> DEFINE e == r.m
           p == r.p
           n == Words(size + 8)
<1>3. Grants(c, B, e, p, n)
  BY <1>1, BytesNat, Malloced
<1>4. e = r.m /\ p = r.p /\ n = Words(size + 8)
  OBVIOUS
<1> HIDE DEF e, p, n
<1>5. CASE p = Null
  <2> DEFINE X == Held(c, B)
  <2>1. d = e /\ bk2 = bk
    BY <1>4, <1>5
  <2>2. Leaves(c, B, e, X)
    BY <1>3, <1>5 DEF Grants
  <2>3. X = {q \in Held(c, B) : \E j \in Ids : bk[j].at = q}
    BY <1>1 DEF Client
  <2> HIDE DEF X
  <2>4. \E E : Heap(e, E) /\ Client(e, E, bk)
    BY <1>1, <1>2, <2>2, <2>3, ClientLeaves
  <2> QED
    BY <2>1, <2>4 DEF Sane
<1>6. CASE p # Null
  <2> DEFINE H == Held(c, B) \ {bk[i].at}
  <2>1. bk[i].at \notin Held(c, B) /\ H = Held(c, B)
    <3>1. Gap(c, B, First, First) /\ Held(c, B) \subseteq B
      BY <1>1 DEF Heap, Tiling, Held
    <3>2. \A q \in Held(c, B) : First <= q
      BY <3>1, GapBlocks
    <3>3. ~(First <= Null)
      BY DEF First, Base, Null
    <3> QED
      BY <3>2, <3>3
  <2>2. p \notin Held(c, B) /\ Leaves(c, B, e, Held(c, B) \cup {p}) /\ Size(e, p) >= n
    BY <1>3, <1>6 DEF Grants
  <2>3. PICK E : Heap(e, E) /\ Held(e, E) = H \cup {p} /\ Keeps(c, e, H)
    <3>1. Held(c, B) \cap (Held(c, B) \cup {p}) = Held(c, B)
      OBVIOUS
    <3> QED
      BY <2>1, <2>2, <3>1 DEF Leaves
  <2>4. \A j \in Nat : j < bk[i].size \div 4 /\ j < size \div 4 => GET(e, p + j) = Pattern(i)
    <3>1. bk[i].size \div 4 = 0
      BY <1>2 DEF NoBlock
    <3> QED
      BY <3>1
  <2> DEFINE f == Fill(e, i, p, bk[i].size \div 4, size)
             ck == [bk EXCEPT ![i] = [at |-> p, size |-> size]]
  <2>5. d = f /\ bk2 = ck
    BY <1>4, <1>6
  <2>6. Hands(c, B, bk, i, e, E, p, size)
    BY <1>4, <2>1, <2>2, <2>3, <2>4 DEF Hands
  <2>7. f = Fill(e, i, p, bk[i].size \div 4, size) /\ ck = [bk EXCEPT ![i] = [at |-> p, size |-> size]]
    OBVIOUS
  <2> HIDE DEF H, f, ck
  <2>8. Sane(f, ck)
    BY <1>1, <2>6, <2>7, ClientTakes
  <2> QED
    BY <2>5, <2>8
<1> QED
  BY <1>5, <1>6

\* A free by the client keeps the heap sound.
LEMMA FreeSane ==
  ASSUME NEW c, NEW B, Heap(c, B), NEW bk, Client(c, B, bk), NEW i \in Ids, bk[i].at # Null,
         NEW e, Leaves(c, B, e, Held(c, B) \ {bk[i].at})
  PROVE  Sane(e, [bk EXCEPT ![i] = NoBlock])
<1> DEFINE bk2 == [bk EXCEPT ![i] = NoBlock]
           X == Held(c, B) \ {bk[i].at}
<1>1. bk = [j \in Ids |-> bk[j]]
  BY DEF Client
<1>2. /\ bk2 = [j \in Ids |-> bk2[j]] /\ bk2[i] = NoBlock
      /\ \A j \in Ids : j # i => bk2[j] = bk[j]
  BY <1>1
<1>3. Leaves(c, B, e, X)
  OBVIOUS
<1>4. X = {q \in Held(c, B) : \E j \in Ids : bk2[j].at = q}
  <2> HIDE DEF bk2
  <2>1. ASSUME NEW q \in X PROVE \E j \in Ids : bk2[j].at = q
    <3>1. PICK j \in Ids : bk[j].at = q
      BY <2>1 DEF Client
    <3> QED
      BY <1>2, <2>1, <3>1
  <2>2. ASSUME NEW q \in Held(c, B), NEW j \in Ids, bk2[j].at = q PROVE q \in X
    <3>1. q # Null
      <4>1. Gap(c, B, First, First) /\ q \in B
        BY DEF Heap, Tiling, Held
      <4>2. q \in Int /\ First <= q
        BY <4>1, GapBlocks
      <4> QED
        BY <4>2 DEF First, Base, Null
    <3>2. j # i
      BY <1>2, <2>2, <3>1 DEF NoBlock
    <3>3. bk[j].at = q
      BY <1>2, <2>2, <3>2
    <3>4. bk[i].at # q
      BY <3>1, <3>2, <3>3 DEF Client
    <3> QED
      BY <3>4
  <2> QED
    BY <2>1, <2>2
<1> HIDE DEF bk2, X
<1>5. \A j \in Ids : bk2[j] = bk[j] \/ bk2[j] = NoBlock
  BY <1>2
<1>6. bk2 = [j \in Ids |-> bk2[j]]
  BY <1>2
<1>7. \E E : Heap(e, E) /\ Client(e, E, bk2)
  BY <1>3, <1>4, <1>5, <1>6, ClientLeaves
<1> QED
  BY <1>7 DEF Sane, bk2

\* A realloc by the client that tears nothing keeps the heap sound.
LEMMA ReallocSane ==
  ASSUME NEW c, NEW B, Heap(c, B), NEW bk, Client(c, B, bk), NEW i \in Ids, bk[i].at # Null,
         NEW size \in Bytes, size # 0, NEW r, Resizes(c, B, bk[i].at, size, r), NEW d, NEW bk2,
         d = (IF r.p = Null THEN r.m ELSE Fill(r.m, i, r.p, bk[i].size \div 4, size)),
         bk2 = (IF r.p = Null THEN bk ELSE [bk EXCEPT ![i] = [at |-> r.p, size |-> size]])
  PROVE  Sane(d, bk2)
<1>1. bk = [j \in Ids |-> bk[j]]
  BY DEF Client
<1> DEFINE e == r.m
           p == r.p
           n == Words(size + 8)
           b == bk[i].at
<1>2. \/ p = Null /\ Leaves(c, B, e, Held(c, B))
      \/ p # Null /\ Regrants(c, B, b, e, p, n)
  BY DEF Resizes
<1>3. e = r.m /\ p = r.p /\ n = Words(size + 8) /\ b = bk[i].at
  OBVIOUS
<1> HIDE DEF e, p, n, b
<1>4. CASE p = Null
  <2> DEFINE X == Held(c, B)
  <2>1. d = e /\ bk2 = bk
    BY <1>3, <1>4
  <2>2. Leaves(c, B, e, X)
    BY <1>2, <1>4
  <2>3. X = {q \in Held(c, B) : \E j \in Ids : bk[j].at = q}
    BY DEF Client
  <2> HIDE DEF X
  <2>4. \E E : Heap(e, E) /\ Client(e, E, bk)
    BY <1>1, <2>2, <2>3, ClientLeaves
  <2> QED
    BY <2>1, <2>4 DEF Sane
<1>5. CASE p # Null
  <2> DEFINE H == Held(c, B) \ {b}
  <2>1. PICK E : /\ Heap(e, E) /\ Held(e, E) = H \cup {p} /\ Keeps(c, e, H) /\ p \notin H /\ Size(e, p) >= n
                 /\ \A k \in Nat : k <= n - 3 /\ k <= Size(c, b) - 3 => GET(e, p + k) = GET(c, b + k)
    BY <1>2, <1>5 DEF Regrants
  <2>2. Stored(c, B, i, b, bk[i].size)
    <3>1. bk[i] # NoBlock
      BY DEF NoBlock
    <3> QED
      BY <1>3, <3>1 DEF Client
  <2>3. ASSUME NEW j \in Nat, j < bk[i].size \div 4, j < size \div 4 PROVE GET(e, p + j) = Pattern(i)
    <3> DEFINE z == bk[i].size
    <3>1. Size(c, b) \in Int
      <4>1. Gap(c, B, First, First) /\ b \in B
        BY <2>2 DEF Heap, Tiling, Held, Stored
      <4> QED
        BY <4>1, GapBlocks
    <3>2. n \in Int
      BY <1>3, BytesNat, WordsEven
    <3>3. z \in Bytes /\ Size(c, b) >= Words(z + 8)
      BY <2>2 DEF Stored
    <3>4. j < z \div 4 /\ z = bk[i].size
      BY <2>3
    <3> HIDE DEF z
    <3>5. z \div 4 \in Nat /\ z \div 4 <= Size(c, b) - 2
      BY <3>1, <3>3, DataFits
    <3>6. size \div 4 \in Nat /\ size \div 4 <= n - 2
      <4>1. n >= Words(size + 8)
        BY <1>3, <3>2
      <4> QED
        BY <3>2, <4>1, DataFits
    <3>7. j <= n - 3 /\ j <= Size(c, b) - 3
      BY <2>3, <3>1, <3>2, <3>4, <3>5, <3>6
    <3>8. GET(e, p + j) = GET(c, b + j)
      BY <2>1, <3>7
    <3> QED
      BY <2>2, <2>3, <3>8 DEF Stored
  <2> DEFINE f == Fill(e, i, p, bk[i].size \div 4, size)
             ck == [bk EXCEPT ![i] = [at |-> p, size |-> size]]
  <2>4. d = f /\ bk2 = ck
    BY <1>3, <1>5
  <2>5. Hands(c, B, bk, i, e, E, p, size)
    BY <1>3, <2>1, <2>3 DEF Hands
  <2>6. f = Fill(e, i, p, bk[i].size \div 4, size) /\ ck = [bk EXCEPT ![i] = [at |-> p, size |-> size]]
    OBVIOUS
  <2> HIDE DEF H, f, ck
  <2>7. Sane(f, ck)
    BY <2>5, <2>6, ClientTakes
  <2> QED
    BY <2>4, <2>7
<1> QED
  BY <1>4, <1>5

\* The inductive step of Malloc.
LEMMA MallocInv ==
  ASSUME MmInv, NEW i \in Ids, NEW size \in Asked, Malloc(i, size)
  PROVE  MmInv'
<1> DEFINE r == mm_malloc(m, size)
<1>1. calls' \in Calls /\ Sane(m, blk) /\ torn = FALSE /\ calls \in Calls
  BY CallStep DEF Malloc, MmInv
<1>2. size \in Bytes
  BY <1>1, AskedTyped
<1>3. blk[i].at = Null /\ torn' = FALSE
  BY <1>1 DEF Malloc
<1>4. /\ m' = (IF r.p = Null THEN r.m ELSE Fill(r.m, i, r.p, blk[i].size \div 4, size))
      /\ blk' = (IF r.p = Null THEN blk ELSE [blk EXCEPT ![i] = [at |-> r.p, size |-> size]])
  BY DEF Malloc, Take
<1>5. r = mm_malloc(m, size)
  OBVIOUS
<1> HIDE DEF r
<1>6. Sane(m', blk')
  BY <1>1, <1>2, <1>3, <1>4, <1>5, MallocSane
<1>7. blk' = [j \in Ids |-> blk'[j]]
  BY <1>6 DEF Sane, Client
<1> QED
  BY <1>1, <1>3, <1>6, <1>7, SaneShape DEF MmInv

\* The inductive step of Free.
LEMMA FreeInv ==
  ASSUME MmInv, NEW i \in Ids, Free(i)
  PROVE  MmInv'
<1>1. calls' \in Calls /\ Sane(m, blk) /\ torn = FALSE
  BY CallStep DEF Free
<1>2. blk[i].at # Null /\ torn' = FALSE /\ m' = mm_free(m, blk[i].at) /\ blk' = [blk EXCEPT ![i] = NoBlock]
  BY <1>1 DEF Free
<1>3. PICK B : Heap(m, B) /\ Client(m, B, blk)
  BY <1>1 DEF Sane
<1> DEFINE b == blk[i].at
<1>4. b \in Held(m, B) /\ m' = mm_free(m, b)
  <2>1. blk[i] # NoBlock
    BY <1>2 DEF NoBlock
  <2> QED
    BY <1>2, <1>3, <2>1 DEF Client, Stored
<1>5. b = blk[i].at
  OBVIOUS
<1> HIDE DEF b
<1>6. Leaves(m, B, m', Held(m, B) \ {b})
  BY <1>3, <1>4, Freed
<1>7. Sane(m', blk')
  BY <1>2, <1>3, <1>5, <1>6, FreeSane
<1>8. blk' = [j \in Ids |-> blk'[j]]
  BY <1>7 DEF Sane, Client
<1> QED
  BY <1>1, <1>2, <1>7, <1>8, SaneShape DEF MmInv

\* The inductive step of Realloc.
LEMMA ReallocInv ==
  ASSUME MmInv, NEW i \in Ids, NEW size \in ReSizes, Realloc(i, size)
  PROVE  MmInv'
<1>1. calls' \in Calls /\ Sane(m, blk) /\ torn = FALSE /\ Shape(m) /\ blk = [j \in Ids |-> blk[j]]
  BY CallStep DEF Realloc, MmInv
<1>2. size \in Bytes /\ (size = 0 \/ size > 8) /\ size \in Nat
  BY MmAssumption DEF Bytes
<1>3. blk[i].at # Null
  BY DEF Realloc
<1> DEFINE b == blk[i].at
<1>4. PICK r \in mm_realloc(m, b, size) :
        /\ torn' = r.torn
        /\ \/ r.m.up /\ size = 0 /\ m' = r.m /\ blk' = [blk EXCEPT ![i] = NoBlock]
           \/ r.m.up /\ size # 0 /\ Take(r.m, i, r.p, size)
           \/ ~r.m.up /\ m' = r.m /\ UNCHANGED blk
  BY DEF Realloc
<1>5. b = blk[i].at
  OBVIOUS
<1> HIDE DEF b
<1>6. Shape(r.m) /\ torn' \in BOOLEAN
  BY <1>1, <1>2, <1>4, ShapeRealloc
<1>7. PICK B : Heap(m, B) /\ Client(m, B, blk)
  BY <1>1 DEF Sane
<1>8. b \in Held(m, B)
  <2>1. blk[i] # NoBlock
    BY <1>3 DEF NoBlock
  <2> QED
    BY <1>5, <1>7, <2>1 DEF Client, Stored
<1>9. ~torn' => Resizes(m, B, blk[i].at, size, r)
  BY <1>2, <1>4, <1>5, <1>7, <1>8, Realloced
<1>10. CASE r.m.up /\ size = 0 /\ m' = r.m /\ blk' = [blk EXCEPT ![i] = NoBlock]
  <2>1. Shape(m') /\ blk' = [j \in Ids |-> blk'[j]]
    BY <1>1, <1>6, <1>10
  <2>2. ASSUME ~torn' PROVE Sane(m', blk')
    <3>1. Leaves(m, B, m', Held(m, B) \ {blk[i].at})
      BY <1>9, <1>10, <2>2 DEF Resizes
    <3> QED
      BY <1>3, <1>7, <1>10, <3>1, FreeSane
  <2> QED
    BY <1>1, <1>6, <2>1, <2>2 DEF MmInv
<1>11. CASE r.m.up /\ size # 0 /\ Take(r.m, i, r.p, size)
  <2>1. /\ m' = (IF r.p = Null THEN r.m ELSE Fill(r.m, i, r.p, blk[i].size \div 4, size))
        /\ blk' = (IF r.p = Null THEN blk ELSE [blk EXCEPT ![i] = [at |-> r.p, size |-> size]])
    BY <1>11 DEF Take
  <2>2. Shape(m') /\ blk' = [j \in Ids |-> blk'[j]]
    <3>1. Shape(Fill(r.m, i, r.p, blk[i].size \div 4, size))
      <4> DEFINE d == Fill(r.m, i, r.p, blk[i].size \div 4, size)
      <4>1. d = Fill(r.m, i, r.p, blk[i].size \div 4, size)
        OBVIOUS
      <4> HIDE DEF d
      <4> QED
        BY <1>6, <4>1, ShapeFill
    <3> QED
      BY <1>1, <1>6, <2>1, <3>1
  <2>3. ASSUME ~torn' PROVE Sane(m', blk')
    <3>1. Resizes(m, B, blk[i].at, size, r)
      BY <1>9, <2>3
    <3> QED
      BY <1>2, <1>3, <1>7, <1>11, <2>1, <3>1, ReallocSane
  <2> QED
    BY <1>1, <1>6, <2>2, <2>3 DEF MmInv
<1>12. CASE ~r.m.up /\ m' = r.m /\ UNCHANGED blk
  <2>1. Shape(m') /\ blk' = [j \in Ids |-> blk'[j]]
    BY <1>1, <1>6, <1>12
  <2>2. ASSUME ~torn' PROVE FALSE
    <3>1. \E e, E : e = r.m /\ Heap(e, E)
      BY <1>9, <2>2 DEF Resizes, Leaves, Regrants
    <3> QED
      BY <1>12, <3>1 DEF Heap
  <2> QED
    BY <1>1, <1>6, <2>1, <2>2 DEF MmInv
<1> QED
  BY <1>4, <1>10, <1>11, <1>12

\* THEOREM: the inductive invariant holds in every reachable state, whatever the client calls.
THEOREM Allocation == Spec => []MmInv
<1>1. Init => MmInv
  BY InitInv
<1>2. MmInv /\ [Next]_vars => MmInv'
  <2> SUFFICES ASSUME MmInv, [Next]_vars PROVE MmInv'
    OBVIOUS
  <2>1. CASE \E i \in Ids, size \in Asked : Malloc(i, size)
    BY <2>1, MallocInv
  <2>2. CASE \E i \in Ids : Free(i)
    BY <2>2, FreeInv
  <2>3. CASE \E i \in Ids, size \in ReSizes : Realloc(i, size)
    BY <2>3, ReallocInv
  <2>4. CASE UNCHANGED vars
    BY <2>4 DEF MmInv, vars, Shape, Sane, Heap, Client
  <2> QED
    BY <2>1, <2>2, <2>3, <2>4 DEF Next
<1> QED
  BY <1>1, <1>2, PTL DEF Spec
-----------------------------------------------------------------------------
(* The properties of the runs. *)

\* The blocks found by going from block to block are those that tile the heap.
LEMMA BlocksAre ==
  ASSUME NEW c, NEW B, Tiling(c, B)
  PROVE  BlocksFrom(c, First) = B \cup {c.brk} /\ \A b \in B : b < c.brk /\ First <= b
<1> DEFINE next == [s \in SUBSET Int |-> s \cup {NEXT_BLKP(c, b) : b \in {x \in s : x < c.brk}}]
           n == MaxHeap \div MIN
           S == SUBSET Int
           C == B \cup {c.brk}
<1>1. /\ Gap(c, B, First, First) /\ First \in C
      /\ \A b \in B : NEXT_BLKP(c, b) \in C
      /\ \A b \in C : b = First \/ \E k \in B : NEXT_BLKP(c, k) = b
  BY DEF Tiling, Gap, Outline
<1>2. /\ c \in Memory /\ B \subseteq Int /\ c.brk \in Int /\ First \in Int /\ C \subseteq Int
      /\ \A b \in B : b \in Int /\ First <= b /\ NEXT_BLKP(c, b) \in Int /\ b + 6 <= NEXT_BLKP(c, b)
                      /\ NEXT_BLKP(c, b) <= c.brk
      /\ \A b \in B : b < c.brk
  <2>1. /\ c \in Memory /\ B \subseteq Int /\ c.brk \in Int /\ First \in Int
        /\ \A b \in B : /\ b \in Int /\ Size(c, b) \in Int /\ Size(c, b) >= 6 /\ First <= b
                        /\ NEXT_BLKP(c, b) = b + Size(c, b) /\ b + Size(c, b) <= c.brk
    BY <1>1, GapBlocks DEF MIN
  <2>2. \A b \in B : b \in Int /\ First <= b /\ NEXT_BLKP(c, b) \in Int /\ b + 6 <= NEXT_BLKP(c, b)
                     /\ NEXT_BLKP(c, b) <= c.brk
    BY <2>1
  <2>3. \A b \in B : b < c.brk
    BY <2>1
  <2> QED
    BY <2>1, <2>2, <2>3
<1>3. n \in Nat /\ MaxHeap < 6 * (n + 1) /\ c.brk <= First - 4 + MaxHeap
  <2>1. c.brk <= Base + MaxHeap /\ MaxHeap \in Nat
    BY <1>1, MmAssumption DEF Gap, Walls
  <2> QED
    BY <1>2, <2>1 DEF MIN, First, Base
<1>4. next \in [S -> S] /\ {First} \in S
  <2>1. \A s \in S : {NEXT_BLKP(c, b) : b \in {x \in s : x < c.brk}} \subseteq Int
    BY <1>2, SizeIsInt
  <2> QED
    BY <1>2, <2>1
<1>5. BlocksFrom(c, First) = Walk(next, {First}, n)
  BY DEF BlocksFrom
<1>6. \A s \in S : next[s] = s \cup {NEXT_BLKP(c, b) : b \in {x \in s : x < c.brk}}
  OBVIOUS
<1> HIDE DEF next, n, S, C
<1>7. PICK w : Steps(w, S, next, {First}, n) /\ Walk(next, {First}, n) = w[n]
  BY <1>3, <1>4, WalkSteps
<1> DEFINE Reached(k) == /\ w[k] \subseteq C
                         /\ \A x \in C : x < First + 6 * (k + 1) => x \in w[k]
           Wrong == {k \in 0 .. n : ~Reached(k)}
<1>8. w[0] = {First} /\ \A k \in 1 .. n : w[k] = next[w[k - 1]] /\ w[k - 1] \in S
  <2>1. w \in [0 .. n -> S] /\ w[0] = {First} /\ \A k \in 1 .. n : w[k] = next[w[k - 1]]
    BY <1>7 DEF Steps
  <2>2. \A k \in 1 .. n : k - 1 \in 0 .. n
    BY <1>3
  <2> QED
    BY <2>1, <2>2
<1>9. ASSUME NEW x \in C, x # First PROVE \E b \in B : NEXT_BLKP(c, b) = x /\ b + 6 <= x /\ b \in C /\ b < c.brk
  BY <1>1, <1>2, <1>9 DEF C
<1>10. Wrong = {}
  <2> SUFFICES ASSUME Wrong # {} PROVE FALSE
    OBVIOUS
  <2>1. PICK k \in Wrong : \A j \in Wrong : k <= j
    <3>1. Wrong \in SUBSET Nat
      OBVIOUS
    <3> HIDE DEF Wrong
    <3> QED
      BY <3>1, LeastOfSet
  <2>2. CASE k = 0
    <3>1. w[0] \subseteq C
      BY <1>1, <1>8 DEF C
    <3>2. ASSUME NEW x \in C, x < First + 6 * (0 + 1) PROVE x \in w[0]
      <4>1. CASE x = First
        BY <1>8, <4>1
      <4>2. CASE x # First
        <5>1. PICK b \in B : b + 6 <= x
          BY <1>9, <4>2
        <5>2. x \in Int /\ b \in Int /\ First <= b
          BY <1>2, <5>1
        <5> QED
          BY <1>2, <3>2, <5>1, <5>2
      <4> QED
        BY <4>1, <4>2
    <3> QED
      BY <2>1, <2>2, <3>1, <3>2
  <2>3. CASE k # 0
    <3>1. k \in 1 .. n /\ k - 1 \in 0 .. n /\ k - 1 \notin Wrong
      BY <1>3, <2>1, <2>3
    <3>2. Reached(k - 1)
      BY <3>1
    <3>3. w[k] = w[k - 1] \cup {NEXT_BLKP(c, b) : b \in {x \in w[k - 1] : x < c.brk}}
      BY <1>6, <1>8, <3>1
    <3>4. w[k] \subseteq C
      <4>1. \A b \in w[k - 1] : b < c.brk => NEXT_BLKP(c, b) \in C
        <5> SUFFICES ASSUME NEW b \in w[k - 1], b < c.brk PROVE NEXT_BLKP(c, b) \in C
          OBVIOUS
        <5>1. b \in B
          BY <1>2, <3>2 DEF C
        <5> QED
          BY <1>1, <5>1
      <4> QED
        BY <3>2, <3>3, <4>1
    <3>5. ASSUME NEW x \in C, x < First + 6 * (k + 1) PROVE x \in w[k]
      <4>1. CASE x = First
        <5>1. First < First + 6 * ((k - 1) + 1)
          BY <1>2, <3>1
        <5> QED
          BY <3>2, <3>3, <4>1, <5>1
      <4>2. CASE x # First
        <5>1. PICK b \in B : NEXT_BLKP(c, b) = x /\ b + 6 <= x /\ b \in C /\ b < c.brk
          BY <1>9, <4>2
        <5>2. b < First + 6 * ((k - 1) + 1)
          BY <1>2, <3>1, <3>5, <5>1
        <5> QED
          BY <3>2, <3>3, <5>1, <5>2
      <4> QED
        BY <4>1, <4>2
    <3> QED
      BY <2>1, <3>4, <3>5
  <2> QED
    BY <2>2, <2>3
<1>11. w[n] \subseteq C /\ \A x \in C : x < First + 6 * (n + 1) => x \in w[n]
  <2>1. n \in 0 .. n
    BY <1>3
  <2> QED
    BY <1>10, <2>1
<1>12. \A x \in C : x < First + 6 * (n + 1)
  <2>1. \A x \in C : x \in Int /\ x <= c.brk
    BY <1>2 DEF C
  <2> QED
    BY <1>2, <1>3, <2>1, MmAssumption
<1>13. w[n] = C
  BY <1>11, <1>12
<1> QED
  BY <1>2, <1>5, <1>7, <1>13 DEF C

Siblings(next, S, G, o) == \A s \in S : s \subseteq G => next[s] = s \cup ({o[x] : x \in s} \ {Null})

\* Going along the brothers from a node finds all of its chain.
LEMMA ChainReached ==
  ASSUME NEW G, IsFiniteSet(G), Null \notin G, NEW l, NEW r, NEW o, NEW z, NEW rk, Chained(G, l, r, o, z, rk),
         NEW e \in Nodes(G, r), \A n \in Nodes(G, r) : z[n] = z[e] => n = e,
         NEW S, NEW next, Siblings(next, S, G, o),
         NEW N, N = Cardinality(G), NEW w, Steps(w, S, next, {e}, N),
         NEW b \in G, z[b] = z[e]
  PROVE  b \in w[N]
<1> DEFINE Closed(k) == \A x \in w[k] : o[x] \in w[k] \cup {Null}
           Good(k) == w[k] \subseteq G /\ e \in w[k] /\ (Closed(k) \/ Cardinality(w[k]) >= k + 1)
           Bad == {k \in 0 .. N : ~Good(k)}
<1>1. N \in Nat
  BY FS_CardinalityType
<1>2. w[0] = {e} /\ \A k \in 1 .. N : w[k] = next[w[k - 1]] /\ w[k - 1] \in S
  <2>1. w \in [0 .. N -> S] /\ w[0] = {e} /\ \A k \in 1 .. N : w[k] = next[w[k - 1]]
    BY DEF Steps
  <2>2. \A k \in 1 .. N : k - 1 \in 0 .. N
    BY <1>1
  <2> QED
    BY <2>1, <2>2
<1>3. e \in G /\ \A x \in G : o[x] # Null => o[x] \in G
  BY DEF Nodes, Chained
<1>4. Bad = {}
  <2> SUFFICES ASSUME Bad # {} PROVE FALSE
    OBVIOUS
  <2>1. PICK k \in Bad : \A j \in Bad : k <= j
    <3>1. Bad \in SUBSET Nat
      OBVIOUS
    <3> HIDE DEF Bad
    <3> QED
      BY <3>1, LeastOfSet
  <2>2. CASE k = 0
    <3>1. Cardinality({e}) = 1
      BY FS_Singleton
    <3>2. w[0] = {e}
      BY <1>2
    <3>3. Cardinality(w[0]) >= 0 + 1
      BY <3>1, <3>2
    <3>4. Good(0)
      BY <1>3, <3>2, <3>3
    <3>5. Good(k)
      BY <2>2, <3>4
    <3> QED
      BY <2>1, <3>5
  <2>3. CASE k # 0
    <3> DEFINE u == w[k - 1]
               v == w[k]
    <3>1. k \in 1 .. N /\ k - 1 \in 0 .. N /\ k - 1 \notin Bad /\ k \in Nat
      BY <1>1, <2>1, <2>3
    <3>2. Good(k - 1)
      BY <3>1
    <3>3. v = u \cup ({o[x] : x \in u} \ {Null})
      BY <1>2, <3>1, <3>2 DEF Siblings
    <3>4. v \subseteq G /\ e \in v /\ u \subseteq v
      BY <1>3, <3>2, <3>3
    <3>5. CASE Closed(k - 1)
      <4>1. v = u
        BY <3>3, <3>5
      <4> QED
        BY <2>1, <3>4, <3>5, <4>1
    <3>6. CASE ~Closed(k - 1)
      <4>1. PICK x \in u : o[x] \notin u /\ o[x] # Null
        BY <3>6
      <4>2. o[x] \in v /\ o[x] \notin u
        BY <3>3, <4>1
      <4>3. Cardinality(u) >= (k - 1) + 1
        BY <3>2, <3>6
      <4> HIDE DEF u, v
      <4>4. IsFiniteSet(v) /\ IsFiniteSet(u)
        BY <3>4, FS_Subset
      <4>5. Cardinality(u) < Cardinality(v) /\ Cardinality(u) \in Nat /\ Cardinality(v) \in Nat
        <5>1. u # v
          BY <4>2
        <5>2. Cardinality(u) <= Cardinality(v) /\ (Cardinality(u) = Cardinality(v) => u = v)
          BY <3>4, <4>4, FS_Subset
        <5>3. Cardinality(u) \in Nat /\ Cardinality(v) \in Nat
          BY <4>4, FS_CardinalityType
        <5> QED
          BY <5>1, <5>2, <5>3
      <4>6. Cardinality(v) >= k + 1
        BY <3>1, <4>3, <4>5
      <4> QED
        BY <2>1, <3>4, <4>6 DEF v
    <3> QED
      BY <3>5, <3>6
  <2> QED
    BY <2>2, <2>3
<1>5. Good(N)
  <2>1. N \in 0 .. N
    BY <1>1
  <2> QED
    BY <1>4, <2>1
<1> DEFINE v == w[N]
<1>6. v \subseteq G /\ e \in v /\ \A x \in v : o[x] \in v \cup {Null}
  <2>1. v \subseteq G /\ e \in v /\ (Closed(N) \/ Cardinality(v) >= N + 1)
    BY <1>5
  <2>2. Cardinality(v) <= N /\ Cardinality(v) \in Nat
    <3> HIDE DEF v
    <3>1. IsFiniteSet(v) /\ Cardinality(v) <= Cardinality(G)
      BY <2>1, FS_Subset
    <3> QED
      BY <3>1, FS_CardinalityType
  <2>3. ~(Cardinality(v) >= N + 1)
    BY <1>1, <2>2
  <2>4. Closed(N)
    BY <2>1, <2>3
  <2> QED
    BY <2>1, <2>4
<1> HIDE DEF v
\* Of the blocks that are missing, the least has one before it that is not.
<1> DEFINE Missing == {x \in G : z[x] = z[e] /\ x \notin v}
           Ranks == {rk[x] : x \in Missing}
<1>7. Missing = {}
  <2> SUFFICES ASSUME Missing # {} PROVE FALSE
    OBVIOUS
  <2>1. Ranks \in SUBSET Nat /\ Ranks # {}
    BY DEF Chained
  <2>2. PICK x \in Missing : \A y \in Missing : rk[x] <= rk[y]
    <3>1. PICK d \in Ranks : \A q \in Ranks : d <= q
      <4> HIDE DEF Ranks
      <4> QED
        BY <2>1, LeastOfSet
    <3> QED
      BY <3>1
  <2>3. x \in G /\ z[x] = z[e] /\ x \notin v
    BY <2>2
  <2>4. x \notin Nodes(G, r)
    BY <1>6, <2>3
  <2>5. l[x] \in G /\ o[l[x]] = x /\ z[l[x]] = z[e] /\ rk[l[x]] < rk[x] /\ rk[x] \in Nat /\ rk[l[x]] \in Nat
    BY <2>3, <2>4 DEF Chained
  <2>6. l[x] \in v
    BY <2>2, <2>5
  <2>7. x \in v \cup {Null}
    BY <1>6, <2>5, <2>6
  <2> QED
    BY <2>3, <2>7
<1> QED
  BY <1>7 DEF v

\* Following the brothers from the first block of a chain reaches all its blocks.
LEMMA ChainIs ==
  ASSUME NEW c \in Memory, NEW G, IsFiniteSet(G), G \subseteq Int, Null \notin G,
         NEW l, NEW r, NEW o, NEW z, NEW rk, Chained(G, l, r, o, z, rk), \A x \in G : Bro(c, x) = o[x],
         NEW e \in Nodes(G, r), \A n \in Nodes(G, r) : z[n] = z[e] => n = e, NEW b \in G, z[b] = z[e]
  PROVE  b \in ChainFrom(c, e, Cardinality(G))
<1> DEFINE S == SUBSET Int
           next == [s \in S |-> s \cup ({Bro(c, x) : x \in s} \ {Null})]
           N == Cardinality(G)
<1>1. next \in [S -> S] /\ {e} \in S
  <2>1. \A x \in Int : Bro(c, x) \in Int
    BY WordsAreInt DEF Bro
  <2>2. \A s \in S : {Bro(c, x) : x \in s} \subseteq Int
    BY <2>1
  <2>3. e \in Int
    BY DEF Nodes
  <2> QED
    BY <2>2, <2>3
<1>2. \A s \in S : s \subseteq G => next[s] = s \cup ({o[x] : x \in s} \ {Null})
  <2> SUFFICES ASSUME NEW s \in S, s \subseteq G PROVE next[s] = s \cup ({o[x] : x \in s} \ {Null})
    OBVIOUS
  <2>1. {Bro(c, x) : x \in s} = {o[x] : x \in s}
    OBVIOUS
  <2> QED
    BY <2>1
<1>3. N \in Nat /\ N = Cardinality(G)
  BY FS_CardinalityType
<1>4. ChainFrom(c, e, N) = Walk(next, {e}, N)
  BY DEF ChainFrom
<1> HIDE DEF next, S, N
<1>5. PICK w : Steps(w, S, next, {e}, N) /\ Walk(next, {e}, N) = w[N]
  BY <1>1, <1>3, WalkSteps
<1>6. Siblings(next, S, G, o)
  BY <1>2 DEF Siblings
<1>7. b \in w[N]
  BY <1>3, <1>5, <1>6, ChainReached
<1> QED
  BY <1>3, <1>4, <1>5, <1>7

\* The tree of a memory, in its words.
HoldsFree(c, G, nodes) ==
  /\ c.my_tree \in IF G = {} THEN {Null} ELSE nodes
  /\ \A n \in nodes : \A k \in {Left(c, n), Right(c, n)} \ {Null} :
       k \in nodes \ {c.my_tree} /\ Par(c, k) = n
  /\ \A b \in G :
       LET n == Position(c, Size(c, b)) IN
       /\ n \in nodes /\ Size(c, n) = Size(c, b)
       /\ b \in ChainFrom(c, n, Cardinality(G))
       /\ b \notin nodes => Left(c, b) \in G /\ Bro(c, Left(c, b)) = b
       /\ Bro(c, b) \in {Null} \cup (G \ nodes)

\* From the tree in the memory, what TreeHoldsFree says.
LEMMA TreeFound ==
  ASSUME NEW c \in Memory, NEW G, IsFiniteSet(G), Placed(G), TreeOn(c, G),
         \A b \in G : Half(c, b) \in 1 .. (Top - 1) /\ Size(c, b) = 2 * Half(c, b),
         NEW nodes, nodes = {b \in G : Right(c, b) # NotFirst}
  PROVE  HoldsFree(c, G, nodes)
<1>1. PICK t, l, r, p, o, z, lo, hi, rk : Holds(c, G, G, t, l, r, p, o, z, lo, hi, rk) /\ t = c.my_tree
  BY HoldsTree
<1>2. /\ SearchTree(G, t, l, r, p, z, lo, hi) /\ Chained(G, l, r, o, z, rk) /\ z = View(c, G).size
      /\ Linkage(G, t, l, r, p) /\ Ordered(G, t, l, r, z, lo, hi) /\ Sized(G, z)
  BY <1>1 DEF Holds, Tree, SearchTree
<1>3. \A b \in G : /\ Left(c, b) = l[b] /\ Right(c, b) = r[b] /\ Par(c, b) = p[b] /\ Bro(c, b) = o[b]
                   /\ z[b] = Half(c, b)
  <2> SUFFICES ASSUME NEW b \in G
               PROVE  /\ Left(c, b) = l[b] /\ Right(c, b) = r[b] /\ Par(c, b) = p[b] /\ Bro(c, b) = o[b]
                      /\ z[b] = Half(c, b)
    OBVIOUS
  <2>1. Becomes(c, c, G, t, l, r, p, o)
    BY <1>1 DEF Holds
  <2> QED
    BY <1>2, <2>1, BecomesFields
<1>4. nodes = Nodes(G, r) /\ Null \notin G /\ G \subseteq Int
  BY <1>2, <1>3 DEF Nodes, Sized
<1>5. c.my_tree \in IF G = {} THEN {Null} ELSE nodes
  BY <1>1, <1>2, <1>4 DEF Linkage, Nodes
<1>6. ASSUME NEW n \in nodes, NEW k \in {Left(c, n), Right(c, n)} \ {Null}
      PROVE  k \in nodes \ {c.my_tree} /\ Par(c, k) = n
  <2>1. n \in G /\ n \in Nodes(G, r) /\ (k = l[n] \/ k = r[n]) /\ k # Null
    BY <1>3, <1>4
  <2>2. k \in Nodes(G, r) /\ k # t /\ p[k] = n
    BY <1>2, <2>1 DEF Linkage
  <2> QED
    BY <1>1, <1>3, <1>4, <2>2
<1>7. ASSUME NEW b \in G, NEW n, n = Position(c, Size(c, b))
      PROVE  /\ n \in nodes /\ Size(c, n) = Size(c, b)
             /\ b \in ChainFrom(c, n, Cardinality(G))
             /\ b \notin nodes => Left(c, b) \in G /\ Bro(c, Left(c, b)) = b
             /\ Bro(c, b) \in {Null} \cup (G \ nodes)
  <2> DEFINE s == Half(c, b)
  <2>1. s \in 1 .. (Top - 1) /\ n = Position(c, 2 * s) /\ s = z[b]
    BY <1>3, <1>7
  <2> HIDE DEF s
  <2>2. t # Null
    BY <1>2 DEF Linkage
  <2>3. \A e \in Around(G, r, lo, hi, s) : Child(l, r, z, e, s) = Null => e = n
    BY <1>1, <2>1, <2>2, PositionIs
  <2>4. \A e \in Nodes(G, r) : z[e] = s => e = n
    <3> SUFFICES ASSUME NEW e \in Nodes(G, r), z[e] = s PROVE e = n
      OBVIOUS
    <3>1. lo[e] < s /\ s < hi[e]
      BY <1>2 DEF Ordered
    <3>2. Child(l, r, z, e, s) = Null
      BY <2>1 DEF Child
    <3> QED
      BY <2>3, <3>1, <3>2 DEF Around
  <2>5. PICK e \in Nodes(G, r) : z[e] = z[b]
    BY <1>2, ChainHasNode
  <2>6. n \in Nodes(G, r) /\ z[n] = s
    BY <2>1, <2>4, <2>5
  <2>7. Size(c, n) = Size(c, b)
    <3>1. n \in G
      BY <2>6 DEF Nodes
    <3>2. Half(c, n) = Half(c, b)
      BY <1>3, <2>1, <2>6, <3>1
    <3> QED
      BY <3>1, <3>2
  <2>8. b \in ChainFrom(c, n, Cardinality(G))
    <3>1. \A e1 \in Nodes(G, r) : z[e1] = z[n] => e1 = n
      BY <2>4, <2>6
    <3>2. z[b] = z[n]
      BY <2>1, <2>6
    <3>3. \A x \in G : Bro(c, x) = o[x]
      BY <1>3
    <3> QED
      BY <1>2, <1>4, <2>6, <3>1, <3>2, <3>3, ChainIs
  <2>9. b \notin nodes => Left(c, b) \in G /\ Bro(c, Left(c, b)) = b
    BY <1>2, <1>3, <1>4 DEF Chained
  <2>10. Bro(c, b) \in {Null} \cup (G \ nodes)
    BY <1>2, <1>3, <1>4 DEF Chained
  <2> QED
    BY <1>4, <2>6, <2>7, <2>8, <2>9, <2>10
<1> QED
  BY <1>5, <1>6, <1>7 DEF HoldsFree

\* What the properties speak of, when the heap is sane.
LEMMA SaneBlocks ==
  ASSUME Sane(m, blk)
  PROVE  \E B : /\ Heap(m, B) /\ Client(m, B, blk) /\ Blocks = B /\ FreeBlocks = Idle(m, B)
                /\ BlocksFrom(m, First) = B \cup {m.brk} /\ \A b \in B : b < m.brk /\ First <= b
<1>1. PICK B : Heap(m, B) /\ Client(m, B, blk)
  BY DEF Sane
<1>2. BlocksFrom(m, First) = B \cup {m.brk} /\ \A b \in B : b < m.brk /\ First <= b
  BY <1>1, BlocksAre DEF Heap
<1>3. m.brk \notin B
  <2>1. m.brk \in Int
    BY <1>1 DEF Heap, Tiling, Gap, Memory
  <2> QED
    BY <1>2, <2>1
<1>4. Blocks = B
  BY <1>2, <1>3 DEF Blocks
<1> QED
  BY <1>1, <1>2, <1>4 DEF FreeBlocks, Idle

\* The blocks of a heap are finitely many.
LEMMA IdleFinite ==
  ASSUME NEW c, NEW B, Heap(c, B), NEW G, G \subseteq B
  PROVE  IsFiniteSet(G)
<1>1. Gap(c, B, First, First)
  BY DEF Heap, Tiling
<1>2. c.brk \in Int /\ First \in Int /\ \A b \in B : b \in Int /\ First <= b /\ b <= c.brk
  <2>1. /\ c.brk \in Int /\ First \in Int
        /\ \A b \in B : b \in Int /\ Size(c, b) \in Int /\ Size(c, b) >= MIN /\ First <= b /\ b + Size(c, b) <= c.brk
    BY <1>1, GapBlocks
  <2> QED
    BY <2>1 DEF MIN
<1>3. G \subseteq First .. c.brk
  BY <1>2
<1>4. IsFiniteSet(First .. c.brk)
  BY <1>2, FS_Interval
<1> QED
  BY <1>3, <1>4, FS_Subset

\* The free blocks of a sane heap.
LEMMA SaneFree ==
  ASSUME Sane(m, blk)
  PROVE  /\ m \in Memory /\ IsFiniteSet(FreeBlocks) /\ Placed(FreeBlocks) /\ TreeOn(m, FreeBlocks)
         /\ \A b \in FreeBlocks : /\ Half(m, b) \in 1 .. (Top - 1) /\ Size(m, b) = 2 * Half(m, b)
                                  /\ Size(m, b) \in Int /\ Size(m, b) >= 6
<1>1. PICK B : Heap(m, B) /\ FreeBlocks = Idle(m, B)
  BY SaneBlocks
<1>2. Gap(m, B, First, First) /\ Idle(m, B) \subseteq B
  BY <1>1 DEF Heap, Tiling, Idle
<1>3. TreeOn(m, FreeBlocks)
  BY <1>1 DEF Heap
<1> DEFINE G == Idle(m, B)
<1> HIDE DEF G
<1>4. G \subseteq B /\ FreeBlocks = G
  BY <1>1, <1>2 DEF G
<1>5. Placed(G) /\ \A b \in G : Half(m, b) \in 1 .. (Top - 1) /\ Size(m, b) = 2 * Half(m, b)
  BY <1>2, <1>4, BlocksPlaced
<1>6. IsFiniteSet(G)
  BY <1>1, <1>4, IdleFinite
<1>7. m \in Memory /\ \A b \in G : Size(m, b) \in Int /\ Size(m, b) >= 6
  BY <1>2, <1>4, GapBlocks DEF MIN
<1> QED
  BY <1>3, <1>4, <1>5, <1>6, <1>7

\* Until a realloc tears the heap it is sound.
LEMMA SoundSane == MmInv /\ Sound => Sane(m, blk)
  BY DEF MmInv, Sound

\* THEOREM: the type invariant, for arenas and requests of any size.
THEOREM MmTyped == Spec => []TypeOK
<1>1. MmInv => TypeOK
  <2> SUFFICES ASSUME MmInv PROVE TypeOK
    OBVIOUS
  <2>1. Shape(m) /\ calls \in Calls /\ torn \in BOOLEAN /\ blk = [i \in Ids |-> blk[i]]
    BY DEF MmInv
  <2>2. DOMAIN m.mem = Base .. (Base + MaxHeap - 1) /\ m.brk \in First .. (Base + MaxHeap) /\ m.up \in BOOLEAN
    BY <2>1 DEF Shape, Cell
  <2>3. DOMAIN blk = Ids
    BY <2>1
  <2>4. ASSUME ~torn
        PROVE  /\ \A a \in DOMAIN m.mem : \/ m.mem[a] \in -1 .. (Base + MaxHeap)
                                          \/ \E i \in Ids : m.mem[a] = Pattern(i)
               /\ \A i \in Ids : /\ blk[i].size \in Bytes
                                 /\ blk[i].at \in {Null} \cup (First .. m.brk)
    <3>1. PICK B : Heap(m, B) /\ Client(m, B, blk) /\ \A b \in B : b < m.brk /\ First <= b
      BY <2>4, SaneBlocks DEF MmInv
    <3>2. m \in Memory /\ Gap(m, B, First, First)
      BY <3>1 DEF Heap, Tiling, Gap
    <3>3. \A a \in DOMAIN m.mem : m.mem[a] \in Word
      BY <3>2 DEF Memory
    <3>4. ASSUME NEW i \in Ids PROVE blk[i].size \in Bytes /\ blk[i].at \in {Null} \cup (First .. m.brk)
      <4>1. CASE blk[i] = NoBlock
        BY <4>1 DEF NoBlock, Bytes
      <4>2. CASE blk[i] # NoBlock
        <5>1. blk[i].at \in Held(m, B) /\ blk[i].size \in Bytes
          BY <3>1, <4>2 DEF Client, Stored
        <5>2. blk[i].at \in B
          BY <5>1 DEF Held
        <5>3. blk[i].at \in Int /\ m.brk \in Int /\ First \in Int
          BY <3>2, <5>2, GapBlocks
        <5> QED
          BY <3>1, <5>1, <5>2, <5>3
      <4> QED
        BY <4>1, <4>2
    <3> QED
      BY <3>3, <3>4 DEF Word
  <2> QED
    BY <2>1, <2>2, <2>3, <2>4 DEF TypeOK
<1> QED
  BY <1>1, Allocation, PTL

\* THEOREM: in every reachable heap that no realloc has torn, the blocks tile the heap, and
\* the allocated ones are exactly the client's.
THEOREM BlocksTileHeap == Spec => []HeapTiled
<1>1. MmInv => HeapTiled
  <2> SUFFICES ASSUME MmInv, Sound
               PROVE  /\ BlocksFrom(m, First) \cap (m.brk .. (Base + MaxHeap + 1)) = {m.brk}
                      /\ GET(m, HEAD(m.brk)) = PACK(0, 1)
                      /\ \A b \in Blocks : /\ Size(m, b) >= MIN
                                           /\ GET(m, FOOT(m, b)) = GET(m, HEAD(b))
                                           /\ ~Alloc(m, b) => Alloc(m, NEXT_BLKP(m, b))
                      /\ Blocks \ FreeBlocks = {blk[i].at : i \in Live}
                      /\ \A i, j \in Live : i # j => blk[i].at # blk[j].at
                      /\ \A i \in Live : Size(m, blk[i].at) >= Words(blk[i].size + 8)
    BY DEF HeapTiled
  <2>1. PICK B : /\ Heap(m, B) /\ Client(m, B, blk) /\ Blocks = B /\ FreeBlocks = Idle(m, B)
                 /\ BlocksFrom(m, First) = B \cup {m.brk} /\ \A b \in B : b < m.brk /\ First <= b
    BY SoundSane, SaneBlocks
  <2>2. /\ m \in Memory /\ Walls(m) /\ Footed(m, B) /\ m.brk \in Int /\ B \subseteq Int
        /\ \A b \in B : Size(m, b) >= MIN
        /\ \A b \in Idle(m, B) : Alloc(m, NEXT_BLKP(m, b))
    <3>1. Gap(m, B, First, First) /\ \A b \in Idle(m, B) : Alloc(m, NEXT_BLKP(m, b))
      BY <2>1 DEF Heap, Tiling
    <3> QED
      BY <3>1, GapBlocks DEF Gap
  <2>3. BlocksFrom(m, First) \cap (m.brk .. (Base + MaxHeap + 1)) = {m.brk}
    <3>1. \A b \in B : b \notin m.brk .. (Base + MaxHeap + 1)
      BY <2>1, <2>2
    <3>2. m.brk \in m.brk .. (Base + MaxHeap + 1)
      BY <2>2, MmAssumption DEF Walls, Base
    <3> QED
      BY <2>1, <3>1, <3>2
  <2>4. GET(m, HEAD(m.brk)) = PACK(0, 1)
    BY <2>2 DEF Walls
  <2>5. \A b \in Blocks : /\ Size(m, b) >= MIN
                          /\ GET(m, FOOT(m, b)) = GET(m, HEAD(b))
                          /\ ~Alloc(m, b) => Alloc(m, NEXT_BLKP(m, b))
    BY <2>1, <2>2 DEF Footed, Idle
  <2>6. ASSUME NEW i \in Live
        PROVE  blk[i].at \in Held(m, B) /\ Size(m, blk[i].at) >= Words(blk[i].size + 8)
    <3>1. i \in Ids /\ blk[i] # NoBlock
      BY DEF Live, NoBlock
    <3> QED
      BY <2>1, <3>1 DEF Client, Stored
  <2>7. Blocks \ FreeBlocks = {blk[i].at : i \in Live}
    <3>1. Blocks \ FreeBlocks = Held(m, B)
      BY <2>1 DEF Idle, Held
    <3>2. \A p \in Held(m, B) : \E i \in Live : blk[i].at = p
      <4> SUFFICES ASSUME NEW p \in Held(m, B) PROVE \E i \in Live : blk[i].at = p
        OBVIOUS
      <4>1. PICK i \in Ids : blk[i].at = p
        BY <2>1 DEF Client
      <4>2. p # Null
        <5>1. First <= p
          BY <2>1 DEF Held
        <5> QED
          BY <5>1 DEF First, Base, Null
      <4> QED
        BY <4>1, <4>2 DEF Live
    <3> QED
      BY <2>6, <3>1, <3>2
  <2>8. \A i, j \in Live : i # j => blk[i].at # blk[j].at
    BY <2>1 DEF Client, Live
  <2> QED
    BY <2>3, <2>4, <2>5, <2>6, <2>7, <2>8
<1> QED
  BY <1>1, Allocation, PTL

\* THEOREM: the tree and its chains hold exactly the free blocks.
THEOREM TreeIsRight == Spec => []TreeHoldsFree
<1>1. MmInv => TreeHoldsFree
  <2> SUFFICES ASSUME MmInv, Sound PROVE TreeHoldsFree
    BY DEF TreeHoldsFree
  <2> DEFINE G == FreeBlocks
             nodes == {b \in G : Right(m, b) # NotFirst}
  <2>1. /\ m \in Memory /\ IsFiniteSet(G) /\ Placed(G) /\ TreeOn(m, G)
        /\ \A b \in G : Half(m, b) \in 1 .. (Top - 1) /\ Size(m, b) = 2 * Half(m, b)
    BY SoundSane, SaneFree
  <2>2. G = FreeBlocks /\ nodes = {b \in G : Right(m, b) # NotFirst}
    OBVIOUS
  <2> HIDE DEF G, nodes
  <2>3. HoldsFree(m, G, nodes)
    BY <2>1, <2>2, TreeFound
  <2> QED
    BY <2>3 DEF TreeHoldsFree, HoldsFree, G, nodes
<1> QED
  BY <1>1, Allocation, PTL

\* THEOREM: the data of each block are what its client wrote, whatever is allocated, freed,
\* resized, split or joined around it.
THEOREM DataStays == Spec => []PayloadIntact
<1>1. MmInv => PayloadIntact
  <2> SUFFICES ASSUME MmInv, Sound, NEW i \in Live, NEW k \in 0 .. (blk[i].size \div 4 - 1)
               PROVE  GET(m, blk[i].at + k) = Pattern(i)
    BY DEF PayloadIntact, DataIntact
  <2>1. PICK B : Client(m, B, blk)
    BY SoundSane DEF Sane
  <2>2. i \in Ids /\ blk[i] # NoBlock
    BY DEF Live, NoBlock
  <2>3. Stored(m, B, i, blk[i].at, blk[i].size)
    BY <2>1, <2>2 DEF Client
  <2>4. k \in Nat /\ k < blk[i].size \div 4
    <3>1. blk[i].size \in Nat
      BY <2>3 DEF Stored, Bytes
    <3>2. blk[i].size \div 4 \in Int
      BY <3>1
    <3> QED
      BY <3>2
  <2> QED
    BY <2>3, <2>4 DEF Stored
<1> QED
  BY <1>1, Allocation, PTL

\* THEOREM: find_fit, which follows one path of the tree, finds a best fit of all the free
\* blocks of the heap, or none when there is none.
THEOREM BestFit == Spec => []FitsBest
<1>1. MmInv => FitsBest
  <2> SUFFICES ASSUME MmInv, Sound,
                      NEW n \in UNION {{Size(m, b) - 2, Size(m, b), Size(m, b) + 2} : b \in FreeBlocks}
               PROVE  LET fit == find_fit(m, n)
                          enough == {b \in FreeBlocks : Size(m, b) >= n}
                      IN IF fit = Null THEN enough = {}
                                       ELSE fit \in enough /\ \A b \in enough : Size(m, fit) <= Size(m, b)
    BY DEF FitsBest
  <2> DEFINE G == FreeBlocks
             fit == find_fit(m, n)
  <2>1. /\ m \in Memory /\ Placed(G) /\ TreeOn(m, G)
        /\ \A b \in G : Size(m, b) \in Int /\ Size(m, b) >= 6
    BY SoundSane, SaneFree
  <2>2. n \in Int /\ n > 0
    <3>1. PICK b \in G : n \in {Size(m, b) - 2, Size(m, b), Size(m, b) + 2}
      OBVIOUS
    <3> QED
      BY <2>1, <3>1
  <2>3. fit = find_fit(m, n)
    OBVIOUS
  <2> HIDE DEF G, fit
  <2>4. /\ fit = Null => \A b \in G : Size(m, b) < n
        /\ fit # Null => fit \in G /\ Size(m, fit) >= n /\ \A b \in G : Size(m, b) >= n => Size(m, fit) <= Size(m, b)
    BY <2>1, <2>2, <2>3, FitFound
  <2>5. fit = Null => {b \in G : Size(m, b) >= n} = {}
    BY <2>1, <2>2, <2>4
  <2> QED
    BY <2>4, <2>5 DEF G, fit
<1> QED
  BY <1>1, Allocation, PTL
=============================================================================
