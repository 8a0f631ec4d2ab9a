--------------------------------- MODULE Mm ---------------------------------
(***************************************************************************)
(* The allocator lab7/mm.c under the client lab7/mdriver.c: a heap of      *)
(* blocks with a header and a footer, whose free blocks are in the search  *)
(* tree of FreeTree.tla, and a client that mallocs, frees and reallocs     *)
(* blocks and fills each with a pattern of its own.                        *)
(*                                                                         *)
(* Addresses and block sizes are in words of four bytes, requests in       *)
(* bytes, as the callers give them.                                        *)
(***************************************************************************)
EXTENDS FreeTree, Sequences

CONSTANTS
  MaxHeap,         \* the words of the arena, MAX_HEAP
  InitSize,        \* the words of the first free block: 1 << 10 bytes
  MinExtend,       \* the least extension by malloc: 1 << 10 bytes
  ReallocExtend,   \* the extension by realloc, in bytes: 28087
  Sizes,           \* the sizes the client asks malloc for, in bytes
  ReSizes,         \* the sizes it asks realloc for
  Ids,             \* the client's blocks
  CopiesDown,      \* whether memcpy of the build may copy downwards
  Scripts          \* calls that come first, and how many come after them

\* Whole words.
Bytes == {n \in Nat : n % 4 = 0}
Calls == [do : Seq([i : Ids, size : Bytes]), more : Nat]

ASSUME MmAssumption ==
  /\ MaxHeap \in Nat /\ InitSize \in Nat /\ MinExtend \in Nat /\ ReallocExtend \in Nat
  /\ InitSize % 2 = 0 /\ InitSize >= 6 /\ MinExtend % 2 = 0 /\ InitSize + 4 <= MaxHeap
  /\ ReallocExtend >= 16
  \* realloc to at most 8 bytes cuts a block too small for its links.
  /\ Sizes \subseteq Bytes
  /\ ReSizes \subseteq {n \in Bytes : n = 0 \/ n > 8}
  /\ Ids \subseteq Nat /\ CopiesDown \in BOOLEAN
  /\ Scripts \subseteq Calls

VARIABLES
  m,       \* the memory: words, root of the tree, break
  blk,     \* the client's blocks: address and size of each, or Null
  calls,   \* the calls the client has left: those of a script, and any others
  torn     \* a realloc copied over links or blocks still in use, or over what it still
           \* had to copy, or gave a block the wrong size

vars == <<m, blk, calls, torn>>

Base  == 2              \* the address of the arena: not 0
MIN   == 6              \* the words of the smallest block: 24 bytes
First == Base + 4       \* heap_list_ptr: the first block
Words(bytes) == 2 * ((bytes + 7) \div 8)       \* ALIGNED, in words
Larger(a, b) == IF a > b THEN a ELSE b

-----------------------------------------------------------------------------

\* Mutant of mem_sbrk: the break may pass the end of the arena by the size asked for.
SbrkLateCheck(mm, incr) ==
  IF mm.brk > Base + MaxHeap THEN [m |-> mm, p |-> -1]
                             ELSE [m |-> [mm EXCEPT !.brk = @ + incr], p |-> mm.brk]

\* The old break, or -1 when the arena is used up.
mem_sbrk(mm, incr) ==
  IF mm.brk + incr > Base + MaxHeap THEN [m |-> mm, p |-> -1]
                                    ELSE [m |-> [mm EXCEPT !.brk = @ + incr], p |-> mm.brk]

\* The header and the footer of a block of the given size at bp.
Tagged(mm, bp, size, alloc) ==
  mm ## <<HEAD(bp), PACK(size, alloc)>> ## <<bp + size - 2, PACK(size, alloc)>>

DeleteIfFree(mm, bp) == IF Alloc(mm, bp) THEN mm ELSE delete_node(mm, bp)

\* The tree without the free neighbours of bp.
Unlinked(mm, bp) == DeleteIfFree(DeleteIfFree(mm, NEXT_BLKP(mm, bp)), PREV_BLKP(mm, bp))

FreeSize(mm, bp) == IF Alloc(mm, bp) THEN 0 ELSE Size(mm, bp)

\* The words of bp and of its free neighbours.
Room(mm, bp) ==
  Size(mm, bp) + FreeSize(mm, NEXT_BLKP(mm, bp)) + FreeSize(mm, PREV_BLKP(mm, bp))

\* bp joined with the free blocks next to it, which leave the tree.
coalesce(mm, bp) ==
  LET start == IF Alloc(mm, PREV_BLKP(mm, bp)) THEN bp ELSE PREV_BLKP(mm, bp) IN
  [m |-> Tagged(Unlinked(mm, bp), start, Room(mm, bp), 0), p |-> start]

\* Mutant of Release: the block goes into the tree as it is.
ReleaseAlone(mm, bp, size) == add_node(Tagged(mm, bp, size, 0), bp)

\* A free block at bp, joined with its neighbours and put into the tree.
Release(mm, bp, size) ==
  LET c == coalesce(Tagged(mm, bp, size, 0), bp) IN add_node(c.m, c.p)

extend_heap(mm, size) ==
  LET s == mem_sbrk(mm, size) IN
  IF size = 0 \/ s.p = -1 THEN mm
  ELSE Release(s.m ## <<HEAD(s.p + size), PACK(0, 1)>>, s.p, size)

\* The free block bp becomes an allocated one; what is left of it becomes a free block
\* when it is large enough for one.
place(mm, bp, asize) ==
  LET size == Size(mm, bp)  d == delete_node(mm, bp) IN
  IF size - asize >= MIN
    THEN Release(Tagged(d, bp, asize, 1), bp + asize, size - asize)
    ELSE Tagged(d, bp, size, 1)

mm_init ==
  LET arena == [mem |-> [a \in Base .. (Base + MaxHeap - 1) |-> 0],
                my_tree |-> Null, brk |-> First, up |-> TRUE]
  IN extend_heap(arena ## <<Base + 1, PACK(2, 1)>> ## <<Base + 2, PACK(2, 1)>>, InitSize)

\* Mutant of my_size: no room for the footer.
MySizeOneTag(size) == Larger(MIN, Words(size + 4))

\* The words of the block for a request: two sizes of the traces get more than they ask for.
my_size(size) ==
  CASE size = 112 -> Words(136)
    [] size = 448 -> Words(520)
    [] OTHER      -> Larger(MIN, Words(size + 8))

mm_malloc(mm, size) ==
  LET asize == my_size(size)
      fit   == find_fit(mm, asize)
      e     == extend_heap(mm, Larger(asize + 10, MinExtend))
      again == find_fit(e, asize)
  IN CASE size = 0                                 -> [m |-> mm, p |-> Null]
       [] size # 0 /\ fit # Null                  -> [m |-> place(mm, fit, asize), p |-> fit]
       [] size # 0 /\ fit = Null /\ again = Null  -> [m |-> e, p |-> Null]
       [] OTHER                                   -> [m |-> place(e, again, asize), p |-> again]

mm_free(mm, bp) == Release(mm, bp, Size(mm, bp))

-----------------------------------------------------------------------------

Overlap(to, from, n) == to < from + n /\ from < to + n

\* The memories memcpy of n words may leave. Regions that overlap are undefined
\* behaviour: the copy runs upwards or downwards.
memcpy(mm, to, from, n) ==
  LET d == from - to
      \* the word that reaches to + k when the copy to a lower address runs downwards
      Down(k) == IF d > 0 THEN k + d * ((n - 1 - k) \div d) ELSE k
      Copied(source(_)) ==
        [mm EXCEPT !.mem = [a \in DOMAIN @ |-> IF a \in to .. (to + n - 1)
                                                 THEN @[from + source(a - to)] ELSE @[a]],
                   !.up = @ /\ to + n - 1 \in DOMAIN mm.mem]
  IN {Copied(LAMBDA k : k)}
     \cup (IF CopiesDown /\ Overlap(to, from, n) THEN {Copied(Down)} ELSE {})

Result(mm, p, t) == [m |-> mm, p |-> p, torn |-> t]

\* The block moves to a fit of the tree: the copy comes first, over the links that place
\* needs to take the fit out of the tree.
Move(mm, ptr, need, extend) ==
  LET fit == find_fit(mm, need)
      e   == IF fit = Null THEN extend_heap(mm, extend) ELSE mm
      bp  == find_fit(e, need)
      n   == Size(mm, ptr) - 2
      Torn(c) == n > Size(e, bp) - 2 \/ \E k \in 0 .. 3 : c.mem[bp + k] # e.mem[bp + k]
  IN IF bp = Null THEN {Result(e, Null, FALSE)}
     ELSE {Result(mm_free(place(c, bp, need), ptr), bp, Torn(c)) : c \in memcpy(e, bp, ptr, n)}

\* A block of need words at bp, and the rest of size words behind it, free.
Split(mm, bp, need, size) ==
  add_node(Tagged(Tagged(mm, bp, need, 1), bp + need, size - need, 0), bp + need)

\* What mm_realloc may return: Null and the heap, or the new block. The block takes the
\* free blocks around it when they suffice, and moves down when the one before is free;
\* otherwise it moves to a fit of the tree. Without room for a rest, a block that moves
\* down takes the size of the block behind, not that of the one before (line 358).
mm_realloc(mm, ptr, size) ==
  LET old   == Size(mm, ptr)
      nextb == NEXT_BLKP(mm, ptr)
      prevb == PREV_BLKP(mm, ptr)
      before == ~Alloc(mm, prevb)
      behind == ~Alloc(mm, nextb)
      need  == Words(size + 8)
      room  == Room(mm, ptr)
      bp    == IF before THEN prevb ELSE ptr
      whole == IF before /\ ~behind THEN old + Size(mm, nextb) ELSE room
      extend == IF before \/ behind THEN Words(ReallocExtend + 8)
                ELSE IF size = 16   THEN Words(16 + 8)
                ELSE Words(ReallocExtend + 8 + 24)
      Taken(c) == IF room >= need + MIN THEN Split(c, bp, need, room)
                                        ELSE Tagged(c, bp, whole, 1)
  IN CASE size = 0 -> {Result(mm_free(mm, ptr), Null, FALSE)}
       [] size # 0 /\ (before \/ behind) /\ room >= need ->
            {Result(Taken(c), bp, \/ before /\ Overlap(bp, ptr, old - 2)
                                  \/ room < need + MIN /\ whole # room) :
               c \in memcpy(Unlinked(mm, ptr), bp, ptr, IF before THEN old - 2 ELSE 0)}
       [] OTHER ->
            \* The neighbours, when both are free, are lost to the tree.
            {[r EXCEPT !.torn = @ \/ (before /\ behind)] :
               r \in Move(IF before /\ behind THEN Unlinked(mm, ptr) ELSE mm, ptr, need, extend)}

-----------------------------------------------------------------------------

NoBlock == [at |-> Null, size |-> 0]

\* The word the client fills block i with: the bytes of an index whose low byte is 0 for
\* block 1. The others are no addresses of the arena.
Pattern(i) == IF i = 1 THEN 0 ELSE Base + MaxHeap + i

\* The client fills the words of p's block from word `from` on.
Fill(mm, i, p, from, size) ==
  [mm EXCEPT !.mem = [a \in DOMAIN @ |->
                        IF a \in (p + from) .. (p + size \div 4 - 1) THEN Pattern(i) ELSE @[a]],
             !.up = @ /\ (p + from) .. (p + size \div 4 - 1) \subseteq DOMAIN mm.mem]

\* The client gets the block at p, or an error. It checks that the data of the old block is
\* there (PayloadIntact) and fills the block, which changes only the words that are new.
Take(mm, i, p, size) ==
  /\ m' = IF p = Null THEN mm ELSE Fill(mm, i, p, blk[i].size \div 4, size)
  /\ blk' = IF p = Null THEN blk ELSE [blk EXCEPT ![i] = [at |-> p, size |-> size]]

Init ==
  /\ m = mm_init
  /\ blk = [i \in Ids |-> NoBlock]
  /\ calls \in Scripts
  /\ torn = FALSE

\* The sizes of the next malloc.
Asked == IF calls.do = <<>> THEN Sizes ELSE {Head(calls.do).size}

\* The next call for block i, a malloc or, with size 0, a free: that of the script, or one
\* of those that come after it.
Call(i, size) ==
  /\ m.up /\ ~torn
  /\ \/ /\ calls.do # <<>> /\ Head(calls.do) = [i |-> i, size |-> size]
        /\ calls' = [calls EXCEPT !.do = Tail(@)]
     \/ /\ calls.do = <<>> /\ calls.more > 0
        /\ calls' = [calls EXCEPT !.more = @ - 1]

\* The client uses the least block it does not hold.
Malloc(i, size) ==
  /\ Call(i, size)
  /\ blk[i].at = Null /\ \A j \in Ids : j < i => blk[j].at # Null
  /\ LET r == mm_malloc(m, size) IN Take(r.m, i, r.p, size)
  /\ UNCHANGED torn

Free(i) ==
  /\ Call(i, 0) /\ blk[i].at # Null
  /\ m' = mm_free(m, blk[i].at)
  /\ blk' = [blk EXCEPT ![i] = NoBlock]
  /\ UNCHANGED torn

\* A block resized to 0 is freed. One that cannot be resized stays.
Realloc(i, size) ==
  /\ calls.do = <<>> /\ Call(i, size) /\ blk[i].at # Null
  /\ \E r \in mm_realloc(m, blk[i].at, size) :
       /\ torn' = r.torn
       /\ \/ r.m.up /\ size = 0 /\ m' = r.m /\ blk' = [blk EXCEPT ![i] = NoBlock]
          \/ r.m.up /\ size # 0 /\ Take(r.m, i, r.p, size)
          \/ ~r.m.up /\ m' = r.m /\ UNCHANGED blk        \* a segmentation fault

Next ==
  \/ \E i \in Ids, size \in Asked : Malloc(i, size)
  \/ \E i \in Ids : Free(i)
  \/ \E i \in Ids, size \in ReSizes : Realloc(i, size)

Spec == Init /\ [][Next]_vars

-----------------------------------------------------------------------------

\* The blocks from bp on, up to the word of size 0 that ends the heap.
BlocksFrom(mm, bp) ==
  Walk([s \in SUBSET Int |-> s \cup {NEXT_BLKP(mm, b) : b \in {x \in s : x < mm.brk}}],
       {bp}, MaxHeap \div MIN)

\* The chain of a node, which has at most n blocks.
ChainFrom(mm, t, n) ==
  Walk([s \in SUBSET Int |-> s \cup ({Bro(mm, b) : b \in s} \ {Null})], {t}, n)

Blocks == BlocksFrom(m, First) \ {m.brk}
FreeBlocks == {b \in Blocks : ~Alloc(m, b)}
Live == {i \in Ids : blk[i].at # Null}

\* The properties are of the heap up to a realloc that makes it torn, see there; what is
\* left of the data then is the matter of DataPreserved.
Sound == m.up /\ ~torn

\* TYPE INVARIANT: the break is in the arena, the words are numbers, and the client's
\* blocks are in the heap (the state of mm.c:139-141 and of mdriver.c's trace).
TypeOK ==
  /\ DOMAIN m.mem = Base .. (Base + MaxHeap - 1)
  /\ m.brk \in First .. (Base + MaxHeap) /\ m.up \in BOOLEAN /\ torn \in BOOLEAN
  /\ calls \in Calls
  /\ DOMAIN blk = Ids
  /\ ~torn => /\ \A a \in DOMAIN m.mem : \/ m.mem[a] \in -1 .. (Base + MaxHeap)
                                                \/ \E i \in Ids : m.mem[a] = Pattern(i)
              /\ \A i \in Ids : /\ blk[i].size \in Bytes
                                /\ blk[i].at \in {Null} \cup (First .. m.brk)

\* SAFETY: the blocks tile the heap from heap_list_ptr to the break. Each has a footer
\* that equals its header and room for the links of a free block, no two free blocks are
\* next to each other, and the allocated blocks are exactly those the client holds, each
\* large enough: nothing is lost and nothing is given twice (coalesce, place, mm.c:254-294).
HeapTiled ==
  Sound => /\ BlocksFrom(m, First) \cap (m.brk .. (Base + MaxHeap + 1)) = {m.brk}
           /\ GET(m, HEAD(m.brk)) = PACK(0, 1)
           /\ \A b \in Blocks : /\ Size(m, b) >= MIN
                                /\ GET(m, FOOT(m, b)) = GET(m, HEAD(b))
                                /\ ~Alloc(m, b) => Alloc(m, NEXT_BLKP(m, b))
           /\ Blocks \ FreeBlocks = {blk[i].at : i \in Live}
           /\ \A i, j \in Live : i # j => blk[i].at # blk[j].at
           /\ \A i \in Live : Size(m, blk[i].at) >= Words(blk[i].size + 8)

\* SAFETY: the tree and its chains hold exactly the free blocks of the heap. All links lead
\* to free blocks, and each free block is in the chain of the node at which the search for
\* its size ends; a node's links up lead to its parent, a chain's links back to the block
\* before (delete_node and add_node, mm.c:527-722).
TreeHoldsFree ==
  Sound =>
    LET nodes == {b \in FreeBlocks : Right(m, b) # NotFirst}
    IN /\ m.my_tree \in IF FreeBlocks = {} THEN {Null} ELSE nodes
       /\ \A n \in nodes : \A k \in {Left(m, n), Right(m, n)} \ {Null} :
            k \in nodes \ {m.my_tree} /\ Par(m, k) = n
       /\ \A b \in FreeBlocks :
            LET n == Position(m, Size(m, b)) IN
            /\ n \in nodes /\ Size(m, n) = Size(m, b)
            /\ b \in ChainFrom(m, n, Cardinality(FreeBlocks))
            /\ b \notin nodes => Left(m, b) \in FreeBlocks /\ Bro(m, Left(m, b)) = b
            /\ Bro(m, b) \in {Null} \cup (FreeBlocks \ nodes)

\* The words of each of the client's blocks are those it wrote.
DataIntact ==
  \A i \in Live : \A k \in 0 .. (blk[i].size \div 4 - 1) : GET(m, blk[i].at + k) = Pattern(i)

\* SAFETY: no header, footer, link or other block is ever written into a block the client
\* holds, and realloc brings the data along (mdriver.c:407-411 and 649-660).
PayloadIntact == Sound => DataIntact

\* SAFETY: find_fit, which looks at one path of the tree, returns a block of the least
\* sufficient size of all the heap, and none only when there is none ("best fit", mm.c:504).
FitsBest ==
  Sound => \A n \in UNION {{Size(m, b) - 2, Size(m, b), Size(m, b) + 2} : b \in FreeBlocks} :
    LET fit == find_fit(m, n)  enough == {b \in FreeBlocks : Size(m, b) >= n} IN
    IF fit = Null THEN enough = {}
                  ELSE fit \in enough /\ \A b \in enough : Size(m, fit) <= Size(m, b)

\* What the driver says of realloc, "Make sure that the new block contains the data from
\* the old block" (mdriver.c:649), of any realloc: a block keeps its data.
DataPreserved == m.up => DataIntact

=============================================================================
