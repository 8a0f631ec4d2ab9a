------------------------------- MODULE Mmbook -------------------------------
(***************************************************************************)
(* The allocator lab7/mmbook.c on the memory of memlib.c: an implicit list  *)
(* of blocks with a header and a footer, first fit, and neighbours joined   *)
(* at once.  A cell holds a word: sizes and addresses count words, the two  *)
(* words of a header and a footer and the alignment included.              *)
(***************************************************************************)
EXTENDS Integers

CONSTANTS
  MAX_HEAP,     \* the cells of the arena
  CHUNKSIZE     \* the cells of the first free block

\* The first free block has cells.
ASSUME MmbookAssumption == MAX_HEAP \in Nat /\ CHUNKSIZE \in Nat \ {0}

NULL == 0
\* mem_start_brk: aligned, and not NULL.
Base == 2
WSIZE == 1
DSIZE == 2
ALIGNMENT == 2

PACK(size, alloc) == size + alloc
GET(h, p) == h.mem[p]
PUT(h, p, val) == [h EXCEPT !.mem[p] = val]
GET_SIZE(h, p) == GET(h, p) - (GET(h, p) % ALIGNMENT)
GET_ALLOC(h, p) == GET(h, p) % ALIGNMENT
HDRP(bp) == bp - WSIZE
FTRP(h, bp) == bp + GET_SIZE(h, HDRP(bp)) - DSIZE
NEXT_BLKP(h, bp) == bp + GET_SIZE(h, HDRP(bp))
PREV_BLKP(h, bp) == bp - GET_SIZE(h, bp - DSIZE)
ALIGN(size) == size + (size % ALIGNMENT)

Fresh == [mem |-> [a \in Base .. (Base + MAX_HEAP - 1) |-> 0], brk |-> Base, heap_listp |-> NULL]
mem_heap_hi(h) == h.brk - 1
mem_reset_brk(h) == [h EXCEPT !.brk = Base]
mem_sbrk(h, incr) ==
  IF h.brk + incr > Base + MAX_HEAP THEN [h |-> h, p |-> -1]
                                    ELSE [h |-> [h EXCEPT !.brk = @ + incr], p |-> h.brk]

\* The block of size cells at bp, its footer and header written.
Tagged(h, bp, size, alloc) ==
  PUT(PUT(h, HDRP(bp), PACK(size, alloc)), bp + size - DSIZE, PACK(size, alloc))

\* bp joined with the free blocks next to it.
coalesce(h, bp) ==
  LET prev == PREV_BLKP(h, bp)
      next == NEXT_BLKP(h, bp)
      before == IF GET_ALLOC(h, FTRP(h, prev)) = 1 THEN 0 ELSE GET_SIZE(h, HDRP(prev))
      behind == IF GET_ALLOC(h, HDRP(next)) = 1 THEN 0 ELSE GET_SIZE(h, HDRP(next))
      start == bp - before
  IN [h |-> Tagged(h, start, before + GET_SIZE(h, HDRP(bp)) + behind, 0), p |-> start]

\* A new free block at the end of the heap, behind it the new epilogue.
extend_heap(h, words) ==
  LET size == ALIGN(words)
      new == mem_sbrk(h, size)
      block == Tagged(new.h, new.p, size, 0)
  IN IF new.p = -1 THEN [h |-> h, p |-> NULL]
     ELSE coalesce(PUT(block, HDRP(NEXT_BLKP(block, new.p)), PACK(0, 1)), new.p)

Walk(next, x, n) ==
  LET walk[k \in 0 .. n] == IF k = 0 THEN x ELSE next[walk[k - 1]] IN walk[n]

\* The blocks from heap_listp up to the epilogue, whose size is 0; the first that
\* fits. There are no more steps than cells; at its end the walk stays.
find_fit(h, asize) ==
  LET Ends(bp) == GET_SIZE(h, HDRP(bp)) = 0
      Found(bp) == GET_ALLOC(h, HDRP(bp)) = 0 /\ asize <= GET_SIZE(h, HDRP(bp))
      last == Walk([bp \in Int |-> IF Ends(bp) \/ Found(bp) THEN bp ELSE NEXT_BLKP(h, bp)],
                   h.heap_listp, h.brk)
  IN IF Ends(last) THEN NULL ELSE last

place(h, bp, asize) ==
  LET csize == GET_SIZE(h, HDRP(bp)) IN
  IF csize - asize >= 2 * DSIZE
    THEN Tagged(Tagged(h, bp, asize, 1), bp + asize, csize - asize, 0)
    ELSE Tagged(h, bp, csize, 1)

\* 0, or -1 when there is no memory.
mm_init(h) ==
  LET new == mem_sbrk(h, 4 * WSIZE)
      p == new.p
      empty == PUT(PUT(PUT(PUT(new.h, p, 0), p + 1, PACK(DSIZE, 1)), p + 2, PACK(DSIZE, 1)),
                   p + 3, PACK(0, 1))
      grown == extend_heap([empty EXCEPT !.heap_listp = p + 2 * WSIZE], CHUNKSIZE)
  IN IF p = -1 THEN [h |-> h, p |-> -1]
     ELSE [h |-> grown.h, p |-> IF grown.p = NULL THEN -1 ELSE 0]

\* The chunk that is to be got at least is computed and not used.
mm_malloc(h, size) ==
  LET asize == ALIGN(size + DSIZE)
      fit == find_fit(h, asize)
      new == extend_heap(h, asize)
  IN CASE size = 0     -> [h |-> h, p |-> NULL]
       [] size > 0 /\ fit # NULL -> [h |-> place(h, fit, asize), p |-> fit]
       [] size > 0 /\ fit = NULL /\ new.p = NULL -> new
       [] OTHER        -> [h |-> place(new.h, new.p, asize), p |-> new.p]

mm_free(h, ptr) == coalesce(Tagged(h, ptr, GET_SIZE(h, HDRP(ptr)), 0), ptr).h

memcpy(h, to, from, len) ==
  [h EXCEPT !.mem = [a \in DOMAIN @ |-> IF a \in to .. (to + len - 1) THEN @[from + (a - to)] ELSE @[a]]]

\* The whole old block is copied, with its footer and the header behind it, as
\* far as the new payload goes; of a request for 0 the driver has none.
mm_realloc(h, ptr, size) ==
  LET old == GET_SIZE(h, HDRP(ptr))
      new == mm_malloc(h, size)
  IN IF new.p = NULL THEN new
     ELSE [h |-> mm_free(memcpy(new.h, new.p, ptr, IF size < old THEN size ELSE old), ptr),
           p |-> new.p]
=============================================================================
