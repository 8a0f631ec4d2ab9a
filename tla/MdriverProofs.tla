--------------------------- MODULE MdriverProofs ---------------------------
(* The driver of lab7/mdriver.c judges the allocator fairly, for every trace. *)
EXTENDS Mdriver, LeastNumber, FiniteSetTheorems, SequenceTheorems

Arena == Base .. (Base + MAX_HEAP - 1)
First == Base + DSIZE

\* The arena and its limits; a cell holds a header, a footer or data.
Memory(h) == h \in [mem : [Arena -> Nat], brk : Nat, heap_listp : Nat]

Size(h, bp) == GET_SIZE(h, HDRP(bp))
Used(h, bp) == GET_ALLOC(h, HDRP(bp)) = 1

\* The blocks at the addresses S tile the heap from the prologue to the epilogue.
Tiled(h, S) ==
  /\ Memory(h) /\ h.brk % 2 = 0 /\ h.brk <= Base + MAX_HEAP
  /\ h.heap_listp = First /\ First \in S /\ S \subseteq First .. (h.brk - 2) /\ Used(h, First)
  /\ h.mem[h.brk - 1] = 1
  /\ \A bp \in S :
       /\ bp % 2 = 0 /\ Size(h, bp) >= 2
       /\ h.mem[bp + Size(h, bp) - 2] = h.mem[bp - 1]
       /\ bp + Size(h, bp) \in S \cup {h.brk}
       /\ \A c \in S : c > bp => c >= bp + Size(h, bp)
  /\ \A c \in (S \cup {h.brk}) \ {First} : \E bp \in S : bp + Size(h, bp) = c

\* The blocks in use but for those of T stay, with what is in them.
Kept(h, S, T, h2, S2) ==
  /\ h.brk <= h2.brk
  /\ \A c \in S \ T : Used(h, c) =>
       /\ c \in S2 /\ Used(h2, c) /\ Size(h2, c) = Size(h, c)
       /\ \A a \in c .. (c + Size(h, c) - 3) : h2.mem[a] = h.mem[a]

\* The blocks from lo on in front of hi, and the others and lo.
Inside(S, lo, hi) == {c \in S : lo <= c /\ c < hi}
Outside(S, lo, hi) == {c \in S : c <= lo \/ c >= hi}

\* Size and flag of a header.
LEMMA TagParts ==
  ASSUME NEW n \in Nat
  PROVE  /\ n % 2 \in {0, 1} /\ n - (n % 2) \in Nat /\ (n - (n % 2)) % 2 = 0
         /\ n = (n - (n % 2)) + (n % 2)
  OBVIOUS

\* A tag of a size and a bit gives back the bit and the size.
LEMMA TagOf ==
  ASSUME NEW size \in Nat, size % 2 = 0, NEW alloc \in {0, 1}
  PROVE  /\ PACK(size, alloc) \in Nat
         /\ PACK(size, alloc) % 2 = alloc
         /\ PACK(size, alloc) - (PACK(size, alloc) % 2) = size
  BY DEF PACK

\* The header of a block of the tiling: its size, its bit, and where the block ends.
LEMMA Headers ==
  ASSUME NEW h, NEW S, Tiled(h, S), NEW bp \in S
  PROVE  /\ bp \in Nat /\ bp >= First /\ bp % 2 = 0 /\ bp - 1 \in Arena /\ h.mem[bp - 1] \in Nat
         /\ Size(h, bp) \in Nat /\ Size(h, bp) % 2 = 0 /\ Size(h, bp) >= 2
         /\ h.mem[bp - 1] = Size(h, bp) + (h.mem[bp - 1] % 2)
         /\ h.mem[bp - 1] % 2 \in {0, 1}
         /\ Used(h, bp) <=> h.mem[bp - 1] % 2 = 1
         /\ Size(h, bp) = h.mem[bp - 1] - (h.mem[bp - 1] % 2)
         /\ bp + Size(h, bp) <= h.brk /\ bp + Size(h, bp) - 2 \in Arena
         /\ bp + Size(h, bp) \in S \cup {h.brk}
         /\ h.brk \in Nat /\ h.brk % 2 = 0
         /\ bp < h.brk
<1>1. /\ bp \in First .. (h.brk - 2) /\ h.brk \in Nat /\ h.brk <= Base + MAX_HEAP
  BY DEF Tiled, Memory
<1>2. bp \in Nat /\ bp >= First /\ bp - 1 \in Arena
  BY <1>1, MmbookAssumption DEF Arena, First, Base, DSIZE
<1>3. h.mem[bp - 1] \in Nat
  BY <1>2 DEF Tiled, Memory
<1>4. Size(h, bp) = h.mem[bp - 1] - (h.mem[bp - 1] % 2)
  BY DEF Size, GET_SIZE, GET, HDRP, WSIZE, ALIGNMENT
<1>5. Used(h, bp) <=> h.mem[bp - 1] % 2 = 1
  BY DEF Used, GET_ALLOC, GET, HDRP, WSIZE, ALIGNMENT
<1>6. bp + Size(h, bp) \in S \cup {h.brk} /\ bp % 2 = 0 /\ Size(h, bp) >= 2 /\ h.brk % 2 = 0
  BY DEF Tiled
<1>7. \A c \in S \cup {h.brk} : c \in Int /\ c <= h.brk
  BY <1>1 DEF Tiled
<1>8. bp + Size(h, bp) <= h.brk
  BY <1>6, <1>7
<1>9. Size(h, bp) \in Nat /\ Size(h, bp) % 2 = 0 /\ h.mem[bp - 1] = Size(h, bp) + (h.mem[bp - 1] % 2)
      /\ h.mem[bp - 1] % 2 \in {0, 1}
  BY <1>3, <1>4, TagParts
<1>10. bp + Size(h, bp) - 2 \in Arena
  BY <1>1, <1>2, <1>6, <1>8, <1>9, MmbookAssumption DEF Arena, First, Base, DSIZE
<1> QED
  BY <1>1, <1>2, <1>3, <1>4, <1>5, <1>6, <1>8, <1>9, <1>10

\* What Tagged writes.
\* A write to the arena.
LEMMA PutMemory ==
  ASSUME NEW h, Memory(h), NEW a \in Arena, NEW val \in Nat, NEW h2, h2 = PUT(h, a, val)
  PROVE  /\ Memory(h2) /\ h2.brk = h.brk /\ h2.heap_listp = h.heap_listp
         /\ h2.mem = [h.mem EXCEPT ![a] = val] /\ h2.mem \in [Arena -> Nat] /\ h.mem \in [Arena -> Nat]
  BY DEF PUT, Memory

\* Addresses are even numbers.
LEMMA Addresses ==
  ASSUME NEW h, NEW S, Tiled(h, S)
  PROVE  /\ h.brk \in Nat /\ h.brk % 2 = 0 /\ h.brk <= Base + MAX_HEAP /\ First \in Nat
         /\ \A c \in S \cup {h.brk} : c \in Nat /\ c % 2 = 0 /\ c >= First /\ c <= h.brk
<1>1. h.brk \in Nat /\ h.brk % 2 = 0 /\ h.brk <= Base + MAX_HEAP /\ First \in Nat
  BY DEF Tiled, Memory, First, Base, DSIZE
<1>2. \A c \in S : c \in Nat /\ c % 2 = 0 /\ c >= First /\ c <= h.brk
  BY <1>1, Headers
<1>3. First \in S
  BY DEF Tiled
<1> QED
  BY <1>1, <1>2, <1>3

\* Writing both tags of a block changes no other cell.
LEMMA TaggedMemory ==
  ASSUME NEW h, Memory(h), NEW bp \in Nat, NEW size \in Nat, size % 2 = 0, NEW alloc \in {0, 1},
         bp - 1 \in Arena, bp + size - 2 \in Arena,
         NEW h2, h2 = Tagged(h, bp, size, alloc)
  PROVE  /\ Memory(h2) /\ h2.brk = h.brk /\ h2.heap_listp = h.heap_listp
         /\ h2.mem[bp - 1] = size + alloc /\ h2.mem[bp + size - 2] = size + alloc
         /\ \A a \in Arena : a \notin {bp - 1, bp + size - 2} => h2.mem[a] = h.mem[a]
<1>1. PACK(size, alloc) = size + alloc /\ PACK(size, alloc) \in Nat
  BY DEF PACK
<1> QED
  BY <1>1 DEF Tagged, PUT, HDRP, WSIZE, DSIZE, Memory

\* The same for a block in use,
LEMMA TaggedUsed ==
  ASSUME NEW h, Memory(h), NEW bp \in Nat, NEW size \in Nat,
         bp - 1 \in Arena, bp + size - 2 \in Arena,
         NEW h2, h2 = Tagged(h, bp, size, 1)
  PROVE  /\ Memory(h2) /\ h2.brk = h.brk /\ h2.heap_listp = h.heap_listp
         /\ h2.mem[bp - 1] = size + 1 /\ h2.mem[bp + size - 2] = size + 1
         /\ \A a \in Arena : a \notin {bp - 1, bp + size - 2} => h2.mem[a] = h.mem[a]
<1>1. PACK(size, 1) = size + 1 /\ PACK(size, 1) \in Nat
  BY DEF PACK
<1> QED
  BY <1>1 DEF Tagged, PUT, HDRP, WSIZE, DSIZE, Memory

\* and for a free one.
LEMMA TaggedFree ==
  ASSUME NEW h, Memory(h), NEW bp \in Nat, NEW size \in Nat,
         bp - 1 \in Arena, bp + size - 2 \in Arena,
         NEW h2, h2 = Tagged(h, bp, size, 0)
  PROVE  /\ Memory(h2) /\ h2.brk = h.brk /\ h2.heap_listp = h.heap_listp
         /\ h2.mem[bp - 1] = size /\ h2.mem[bp + size - 2] = size
         /\ \A a \in Arena : a \notin {bp - 1, bp + size - 2} => h2.mem[a] = h.mem[a]
<1>1. PACK(size, 0) = size /\ PACK(size, 0) \in Nat
  BY DEF PACK
<1> QED
  BY <1>1 DEF Tagged, PUT, HDRP, WSIZE, DSIZE, Memory

\* A block ends before the next one starts.
LEMMA Disjoint ==
  ASSUME NEW h, NEW S, Tiled(h, S), NEW b \in S, NEW c \in S \cup {h.brk}, b < c
  PROVE  b + Size(h, b) <= c
<1>1. CASE c \in S
  BY <1>1 DEF Tiled
<1>2. CASE c = h.brk
  BY <1>2, Headers
<1> QED
  BY <1>1, <1>2

\* One block takes the place of those between lo and hi.
LEMMA Merge ==
  ASSUME NEW h, NEW S, Tiled(h, S), NEW lo \in S, lo # First, NEW hi \in S \cup {h.brk}, lo < hi,
         NEW alloc \in {0, 1}, NEW size, size = hi - lo, NEW h2, h2 = Tagged(h, lo, size, alloc),
         NEW S2, S2 = Outside(S, lo, hi)
  PROVE  /\ Tiled(h2, S2) /\ h2.brk = h.brk /\ lo \in S2
         /\ Size(h2, lo) = hi - lo /\ (Used(h2, lo) <=> alloc = 1)
         /\ \A a \in Arena : a \notin {lo - 1, hi - 2} => h2.mem[a] = h.mem[a]
         /\ \A c \in S : c < lo \/ c >= hi =>
              c \in S2 /\ Size(h2, c) = Size(h, c) /\ (Used(h2, c) <=> Used(h, c))
         /\ Kept(h, S, Inside(S, lo, hi), h2, S2)
<1> USE DEF Inside, Outside
<1>1. /\ hi \in Nat /\ hi % 2 = 0 /\ hi <= h.brk /\ lo \in Nat /\ lo % 2 = 0 /\ lo >= First
      /\ h.brk \in Nat /\ h.brk % 2 = 0 /\ h.brk <= Base + MAX_HEAP
  BY Addresses
<1>2. hi - lo \in Nat /\ (hi - lo) % 2 = 0 /\ hi - lo >= 2
  BY <1>1
<1>3. lo - 1 \in Arena /\ lo + (hi - lo) - 2 \in Arena /\ lo + (hi - lo) - 2 = hi - 2
  BY <1>1, <1>2, Headers, MmbookAssumption DEF Arena, First, Base, DSIZE
<1>4. /\ Memory(h2) /\ h2.brk = h.brk /\ h2.heap_listp = h.heap_listp
      /\ h2.mem[lo - 1] = hi - lo + alloc /\ h2.mem[hi - 2] = hi - lo + alloc
      /\ \A a \in Arena : a \notin {lo - 1, hi - 2} => h2.mem[a] = h.mem[a]
  <2>1. Memory(h)
    BY DEF Tiled
  <2> PICK tag : tag = PACK(size, alloc)
    OBVIOUS
  <2>2. size \in Nat /\ lo + size - DSIZE = hi - 2 /\ HDRP(lo) = lo - 1
    BY <1>1, <1>2 DEF DSIZE, HDRP, WSIZE
  <2>3. tag = hi - lo + alloc /\ tag \in Nat
    BY <1>2 DEF PACK
  <2>4. h2 = PUT(PUT(h, lo - 1, tag), hi - 2, tag)
    BY <2>2 DEF Tagged
  <2>5. /\ Memory(h2) /\ h2.brk = h.brk /\ h2.heap_listp = h.heap_listp
        /\ h2.mem = [[h.mem EXCEPT ![lo - 1] = tag] EXCEPT ![hi - 2] = tag]
    <3> PICK g : g = PUT(h, lo - 1, tag)
      OBVIOUS
    <3>1. /\ Memory(g) /\ g.brk = h.brk /\ g.heap_listp = h.heap_listp
          /\ g.mem = [h.mem EXCEPT ![lo - 1] = tag]
      BY <1>3, <2>1, <2>3, PutMemory
    <3>2. h2 = PUT(g, hi - 2, tag) /\ hi - 2 \in Arena
      BY <1>3, <2>4
    <3>3. /\ Memory(h2) /\ h2.brk = g.brk /\ h2.heap_listp = g.heap_listp
          /\ h2.mem = [g.mem EXCEPT ![hi - 2] = tag]
      BY <2>3, <3>1, <3>2, PutMemory
    <3> QED
      BY <3>1, <3>3
  <2>6. h.mem \in [Arena -> Nat]
    BY <2>1 DEF Memory
  <2> QED
    BY <1>3, <2>3, <2>5, <2>6
<1>5. Size(h2, lo) = hi - lo /\ (Used(h2, lo) <=> alloc = 1)
  <2>1. Size(h2, lo) = h2.mem[lo - 1] - (h2.mem[lo - 1] % 2) /\ (Used(h2, lo) <=> h2.mem[lo - 1] % 2 = 1)
    BY DEF Size, Used, GET_SIZE, GET_ALLOC, GET, HDRP, WSIZE, ALIGNMENT
  <2>2. (hi - lo + alloc) % 2 = alloc
    BY <1>2
  <2> PICK tag : tag = h2.mem[lo - 1]
    OBVIOUS
  <2>3. tag = hi - lo + alloc
    BY <1>4
  <2>4. tag % 2 = alloc /\ tag - (tag % 2) = hi - lo
    BY <1>2, <2>2, <2>3
  <2> QED
    BY <2>1, <2>4
<1>6. ASSUME NEW c \in S, c < lo \/ c >= hi
      PROVE  /\ c \in S2 /\ Size(h2, c) = Size(h, c) /\ (Used(h2, c) <=> Used(h, c))
             /\ h2.mem[c - 1] = h.mem[c - 1]
  <2>1. c \in S2
    BY <1>6, <1>1, Addresses
  <2>2. c - 1 # lo - 1 /\ c - 1 # hi - 2
    BY <1>6, <1>1, Headers
  <2>3. h2.mem[c - 1] = h.mem[c - 1]
    BY <1>4, <2>2, Headers
  <2> QED
    BY <2>1, <2>3 DEF Size, Used, GET_SIZE, GET_ALLOC, GET, HDRP, WSIZE, ALIGNMENT
<1>7. lo \in S2 /\ S2 \subseteq S
  BY <1>1
<1>8. ASSUME NEW c \in S2, c # lo
      PROVE  (c < lo \/ c >= hi) /\ c \in S
  BY <1>1, <1>7, <1>8, Addresses
<1>9. Tiled(h2, S2)
  <2>1. First \in S2 /\ Used(h2, First)
    <3>1. First \in S /\ First < lo /\ Used(h, First)
      BY <1>1 DEF Tiled, First, Base, DSIZE
    <3> QED
      BY <3>1, <1>6
  <2>2. S2 \subseteq First .. (h2.brk - 2)
    BY <1>4, <1>7 DEF Tiled
  <2>3. h2.mem[h2.brk - 1] = 1
    <3>1. h.mem[h.brk - 1] = 1 /\ h.brk - 1 \in Arena
      BY <1>1, MmbookAssumption DEF Tiled, Arena, First, Base, DSIZE
    <3>2. h.brk - 1 # lo - 1 /\ h.brk - 1 # hi - 2
      BY <1>1
    <3> QED
      BY <1>4, <3>1, <3>2
  <2>4. ASSUME NEW bp \in S2
        PROVE  /\ bp % 2 = 0 /\ Size(h2, bp) >= 2
               /\ h2.mem[bp + Size(h2, bp) - 2] = h2.mem[bp - 1]
               /\ bp + Size(h2, bp) \in S2 \cup {h2.brk}
               /\ \A c \in S2 : c > bp => c >= bp + Size(h2, bp)
    <3>1. CASE bp = lo
      <4>1. bp + Size(h2, bp) = hi /\ bp + Size(h2, bp) - 2 = hi - 2
        BY <3>1, <1>1, <1>5
      <4>2. hi \in S2 \cup {h2.brk}
        BY <1>1, <1>4
      <4>3. \A c \in S2 : c > lo => c >= hi
        BY <1>1, <1>7, <1>8, Addresses
      <4> QED
        BY <3>1, <4>1, <4>2, <4>3, <1>1, <1>2, <1>4, <1>5
    <3>2. CASE bp # lo
      <4>1. /\ bp < lo \/ bp >= hi
            /\ Size(h2, bp) = Size(h, bp) /\ h2.mem[bp - 1] = h.mem[bp - 1]
        BY <3>2, <1>6, <1>8
      <4>2. bp \in S /\ bp % 2 = 0 /\ Size(h, bp) >= 2 /\ Size(h, bp) \in Nat /\ bp \in Nat
            /\ bp + Size(h, bp) - 2 \in Arena /\ Size(h, bp) % 2 = 0
        BY <1>7, Headers
      <4>3. h.mem[bp + Size(h, bp) - 2] = h.mem[bp - 1] /\ bp + Size(h, bp) \in S \cup {h.brk}
            /\ \A c \in S : c > bp => c >= bp + Size(h, bp)
        BY <4>2 DEF Tiled
      <4>4. bp < lo => bp + Size(h, bp) <= lo
        BY <4>2, Disjoint
      <4>5. bp + Size(h, bp) - 2 # lo - 1 /\ bp + Size(h, bp) - 2 # hi - 2
        BY <4>1, <4>2, <4>4, <1>1
      <4>6. h2.mem[bp + Size(h, bp) - 2] = h.mem[bp + Size(h, bp) - 2]
        BY <4>2, <4>5, <1>4
      <4>7. bp + Size(h, bp) \in S2 \cup {h2.brk}
        BY <4>1, <4>2, <4>3, <4>4, <1>1, <1>4
      <4> QED
        BY <4>1, <4>2, <4>3, <4>6, <4>7, <1>7
    <3> QED
      BY <3>1, <3>2
  <2>5. ASSUME NEW c \in (S2 \cup {h2.brk}) \ {First} PROVE \E bp \in S2 : bp + Size(h2, bp) = c
    <3>1. c \in (S \cup {h.brk}) \ {First} /\ c \in Nat
      BY <1>1, <1>4, <1>7, Addresses
    <3>2. PICK bp \in S : bp + Size(h, bp) = c
      BY <3>1 DEF Tiled
    <3>3. bp \in Nat /\ Size(h, bp) \in Nat /\ Size(h, bp) >= 2
      BY Headers
    <3>4. c <= lo \/ c >= hi
      BY <1>1, <1>4, <3>1
    <3>5. CASE bp < lo \/ bp >= hi
      BY <3>2, <3>5, <1>6
    <3>6. CASE lo <= bp /\ bp < hi
      <4>1. bp + Size(h, bp) <= hi
        BY <3>6, Disjoint
      <4>2. c = hi
        BY <3>2, <3>3, <3>4, <3>6, <4>1, <1>1
      <4> QED
        BY <4>2, <1>1, <1>5, <1>7
    <3> QED
      BY <3>3, <3>5, <3>6, <1>1
  <2>6. h2.brk % 2 = 0 /\ h2.brk <= Base + MAX_HEAP /\ h2.heap_listp = First
    BY <1>1, <1>4 DEF Tiled
  <2> QED
    BY <1>4, <2>1, <2>2, <2>3, <2>4, <2>5, <2>6 DEF Tiled
<1>10. Kept(h, S, Inside(S, lo, hi), h2, S2)
  <2>1. h.brk <= h2.brk
    BY <1>1, <1>4
  <2>2. ASSUME NEW c \in S \ Inside(S, lo, hi), Used(h, c)
        PROVE  /\ c \in S2 /\ Used(h2, c) /\ Size(h2, c) = Size(h, c)
               /\ \A a \in c .. (c + Size(h, c) - 3) : h2.mem[a] = h.mem[a]
    <3>1. c \in Nat /\ Size(h, c) \in Nat /\ c - 1 \in Arena /\ c + Size(h, c) - 2 \in Arena
      BY Headers
    <3>2. c < lo \/ c >= hi
      BY <3>1, <1>1
    <3>3. c < lo => c + Size(h, c) <= lo
      BY Disjoint
    <3>4. ASSUME NEW a \in c .. (c + Size(h, c) - 3) PROVE h2.mem[a] = h.mem[a]
      <4>1. a \in Arena
        BY <3>1, MmbookAssumption DEF Arena, Base
      <4>2. a # lo - 1 /\ a # hi - 2
        BY <3>1, <3>2, <3>3, <1>1
      <4> QED
        BY <4>1, <4>2, <1>4
    <3> QED
      BY <2>2, <3>2, <3>4, <1>6
  <2> QED
    BY <2>1, <2>2 DEF Kept
<1> QED
  BY <1>4, <1>5, <1>6, <1>7, <1>9, <1>10

\* What is kept but for T is kept but for the used blocks of T.
LEMMA KeptMore ==
  ASSUME NEW h, NEW S, NEW T, NEW h2, NEW S2, Kept(h, S, T, h2, S2),
         NEW U, \A c \in S \cap T : Used(h, c) => c \in U
  PROVE  Kept(h, S, U, h2, S2)
  BY DEF Kept

\* What two steps keep, both keep.
LEMMA KeptOn ==
  ASSUME NEW h, NEW S, NEW T, NEW h2, NEW S2, NEW h3, NEW S3,
         Kept(h, S, T, h2, S2), Kept(h2, S2, T, h3, S3),
         h.brk \in Nat, h2.brk \in Nat, h3.brk \in Nat
  PROVE  Kept(h, S, T, h3, S3)
<1>1. h.brk <= h3.brk
  BY DEF Kept
<1>2. ASSUME NEW c \in S \ T, Used(h, c)
      PROVE  /\ c \in S3 /\ Used(h3, c) /\ Size(h3, c) = Size(h, c)
             /\ \A a \in c .. (c + Size(h, c) - 3) : h3.mem[a] = h.mem[a]
  <2>1. /\ c \in S2 \ T /\ Used(h2, c) /\ Size(h2, c) = Size(h, c)
        /\ \A a \in c .. (c + Size(h, c) - 3) : h2.mem[a] = h.mem[a]
    BY <1>2 DEF Kept
  <2>2. /\ c \in S3 /\ Used(h3, c) /\ Size(h3, c) = Size(h2, c)
        /\ \A a \in c .. (c + Size(h2, c) - 3) : h3.mem[a] = h2.mem[a]
    BY <2>1 DEF Kept
  <2> QED
    BY <2>1, <2>2
<1> QED
  BY <1>1, <1>2 DEF Kept

\* The header and the footer of a tile fit together.
LEMMA TileParts ==
  ASSUME NEW h, NEW S, Tiled(h, S), NEW bp \in S
  PROVE  /\ h.mem[bp + Size(h, bp) - 2] = h.mem[bp - 1]
         /\ \A c \in S \cup {h.brk} : c > bp => c >= bp + Size(h, bp)
  BY Disjoint DEF Tiled

\* A free block is divided.
LEMMA Divide ==
  ASSUME NEW h, NEW S, Tiled(h, S), NEW bp \in S, bp # First, ~Used(h, bp),
         NEW n \in Nat, n % 2 = 0, n >= 2, Size(h, bp) - n >= 2,
         NEW h2, h2 = Tagged(Tagged(h, bp, n, 1), bp + n, Size(h, bp) - n, 0)
  PROVE  LET S2 == S \cup {bp + n} IN
         /\ Tiled(h2, S2) /\ h2.brk = h.brk /\ Used(h2, bp) /\ Size(h2, bp) = n
         /\ Kept(h, S, {}, h2, S2)
<1> DEFINE size == Size(h, bp)
           S2 == S \cup {bp + n}
           rest == size - n
<1>1. /\ bp \in Nat /\ bp % 2 = 0 /\ bp >= First /\ bp - 1 \in Arena
      /\ size \in Nat /\ size % 2 = 0 /\ bp + size - 2 \in Arena /\ bp + size <= h.brk
  BY Headers
<1>2. rest \in Nat /\ rest % 2 = 0 /\ rest >= 2
  BY <1>1
<1>3. /\ bp + n - 2 \in Arena /\ bp + n - 1 \in Arena /\ bp + n + rest - 2 = bp + size - 2
      /\ bp + n \in Nat /\ (bp + n) % 2 = 0
  BY <1>1, <1>2, MmbookAssumption DEF Arena, Base
<1>4. /\ h.brk \in Nat /\ h.brk % 2 = 0 /\ h.brk <= Base + MAX_HEAP
      /\ \A c \in S \cup {h.brk} : c \in Nat /\ c % 2 = 0 /\ c >= First /\ c <= h.brk
  BY Addresses
<1> PICK h1 : h1 = Tagged(h, bp, n, 1)
  OBVIOUS
<1> PICK q : q = bp + n
  OBVIOUS
<1> PICK r : r = size - n
  OBVIOUS
<1>5. /\ Memory(h1) /\ h1.brk = h.brk /\ h1.heap_listp = h.heap_listp
      /\ h1.mem[bp - 1] = n + 1 /\ h1.mem[bp + n - 2] = n + 1
      /\ \A a \in Arena : a \notin {bp - 1, bp + n - 2} => h1.mem[a] = h.mem[a]
  <2>1. Memory(h)
    BY DEF Tiled
  <2>2. bp \in Nat /\ bp - 1 \in Arena /\ bp + n - 2 \in Arena /\ n \in Nat
    BY <1>1, <1>3
  <2> QED
    BY <2>1, <2>2, TaggedUsed
<1>6. /\ Memory(h2) /\ h2.brk = h.brk /\ h2.heap_listp = h.heap_listp
      /\ h2.mem[bp + n - 1] = rest /\ h2.mem[bp + n + rest - 2] = rest
      /\ \A a \in Arena : a \notin {bp + n - 1, bp + n + rest - 2} => h2.mem[a] = h1.mem[a]
  <2>1. q \in Nat /\ q - 1 \in Arena /\ q + r - 2 \in Arena /\ h2 = Tagged(h1, q, r, 0) /\ r \in Nat
    BY <1>1, <1>2, <1>3
  <2>2. /\ Memory(h2) /\ h2.brk = h1.brk /\ h2.heap_listp = h1.heap_listp
        /\ h2.mem[q - 1] = r /\ h2.mem[q + r - 2] = r
        /\ \A a \in Arena : a \notin {q - 1, q + r - 2} => h2.mem[a] = h1.mem[a]
    BY <1>5, <2>1, TaggedFree
  <2> QED
    BY <2>2, <1>1, <1>3, <1>5
<1>7. /\ h2.mem[bp - 1] = n + 1 /\ h2.mem[bp + n - 2] = n + 1
      /\ h2.mem[bp + n - 1] = rest /\ h2.mem[bp + size - 2] = rest
      /\ \A a \in Arena : a \notin {bp - 1, bp + n - 2, bp + n - 1, bp + size - 2} => h2.mem[a] = h.mem[a]
  <2>1. bp - 1 # bp + n - 1 /\ bp - 1 # bp + size - 2 /\ bp + n - 2 # bp + n - 1 /\ bp + n - 2 # bp + size - 2
    BY <1>1, <1>2
  <2> HIDE DEF rest, size
  <2> QED
    BY <1>1, <1>2, <1>3, <1>5, <1>6, <2>1
<1>8. /\ Size(h2, bp) = n /\ Used(h2, bp) /\ Size(h2, bp + n) = rest
  <2>1. (n + 1) % 2 = 1 /\ (n + 1) - ((n + 1) % 2) = n /\ rest % 2 = 0 /\ rest - (rest % 2) = rest
    BY <1>2
  <2>2. /\ Size(h2, bp) = h2.mem[bp - 1] - (h2.mem[bp - 1] % 2)
        /\ Used(h2, bp) <=> h2.mem[bp - 1] % 2 = 1
        /\ Size(h2, bp + n) = h2.mem[bp + n - 1] - (h2.mem[bp + n - 1] % 2)
    BY <1>1 DEF Size, Used, GET_SIZE, GET_ALLOC, GET, HDRP, WSIZE, ALIGNMENT
  <2> HIDE DEF rest
  <2> QED
    BY <1>7, <2>1, <2>2
<1>9. ASSUME NEW c \in S, c # bp PROVE (c < bp /\ c + Size(h, c) <= bp) \/ c >= bp + size
  <2>1. c > bp => c >= bp + Size(h, bp)
    BY TileParts
  <2>2. bp > c => bp >= c + Size(h, c)
    BY TileParts
  <2> QED
    <3>1. c \in Nat /\ bp \in Nat
      BY <1>1, <1>4
    <3> QED
      BY <1>9, <2>1, <2>2, <3>1
<1>10. ASSUME NEW c \in S, c # bp
       PROVE  /\ Size(h2, c) = Size(h, c) /\ (Used(h2, c) <=> Used(h, c)) /\ h2.mem[c - 1] = h.mem[c - 1]
              /\ h2.mem[c + Size(h, c) - 2] = h.mem[c + Size(h, c) - 2]
              /\ \A a \in c .. (c + Size(h, c) - 3) : h2.mem[a] = h.mem[a]
  <2>1. /\ c \in Nat /\ c % 2 = 0 /\ c - 1 \in Arena /\ Size(h, c) \in Nat /\ Size(h, c) % 2 = 0
        /\ Size(h, c) >= 2 /\ c + Size(h, c) - 2 \in Arena
    BY Headers
  <2>2. c < bp \/ c >= bp + size
    BY <1>9, <1>10
  <2>3. c < bp => c + Size(h, c) <= bp
    BY <1>1, <1>4, <1>9, <1>10
  <2>4. ASSUME NEW a \in (c - 1) .. (c + Size(h, c) - 2)
        PROVE  h2.mem[a] = h.mem[a]
    <3>1. a \in Arena
      BY <2>1, MmbookAssumption DEF Arena, Base
    <3>2. a \notin {bp - 1, bp + n - 2, bp + n - 1, bp + size - 2}
      BY <1>1, <1>2, <2>1, <2>2, <2>3
    <3> QED
      BY <1>7, <3>1, <3>2
  <2>5. h2.mem[c - 1] = h.mem[c - 1]
    BY <2>1, <2>4
  <2>6. Size(h2, c) = Size(h, c) /\ (Used(h2, c) <=> Used(h, c))
    BY <2>5 DEF Size, Used, GET_SIZE, GET_ALLOC, GET, HDRP, WSIZE, ALIGNMENT
  <2> QED
    BY <2>1, <2>4, <2>5, <2>6
<1>11. bp + size \in S \cup {h.brk} /\ \A c \in S : c > bp => c >= bp + size
  BY Headers, TileParts
<1>12. Tiled(h2, S2)
  <2>1. First \in S2 /\ Used(h2, First) /\ h2.heap_listp = First
    <3>1. First \in S /\ Used(h, First) /\ h.heap_listp = First
      BY DEF Tiled
    <3> QED
      BY <3>1, <1>6, <1>10
  <2>2. S2 \subseteq First .. (h2.brk - 2)
    <3>1. S \subseteq First .. (h.brk - 2)
      BY DEF Tiled
    <3>2. bp + n \in First .. (h.brk - 2)
      BY <1>1, <1>2, <1>4 DEF First, Base, DSIZE
    <3> QED
      BY <3>1, <3>2, <1>6
  <2>3. h2.mem[h2.brk - 1] = 1
    <3>1. h.mem[h.brk - 1] = 1 /\ h.brk - 1 \in Arena
      BY <1>1, <1>4, MmbookAssumption DEF Tiled, Arena, First, Base, DSIZE
    <3>2. h.brk - 1 \notin {bp - 1, bp + n - 2, bp + n - 1, bp + size - 2}
      BY <1>1, <1>2, <1>3, <1>4
    <3> QED
      BY <1>6, <1>7, <3>1, <3>2
  <2>4. ASSUME NEW c \in S2
        PROVE  /\ c % 2 = 0 /\ Size(h2, c) >= 2
               /\ h2.mem[c + Size(h2, c) - 2] = h2.mem[c - 1]
               /\ c + Size(h2, c) \in S2 \cup {h2.brk}
               /\ \A d \in S2 : d > c => d >= c + Size(h2, c)
    <3>1. CASE c = bp + n
      <4>1. c + Size(h2, c) = bp + size /\ c + Size(h2, c) - 2 = bp + size - 2
        BY <3>1, <1>1, <1>8
      <4>2. \A d \in S2 : d > c => d >= c + Size(h2, c)
        BY <3>1, <4>1, <1>1, <1>2, <1>4, <1>11
      <4> QED
        BY <3>1, <4>1, <4>2, <1>2, <1>3, <1>6, <1>7, <1>8, <1>11
    <3>2. CASE c = bp
      <4>1. c + Size(h2, c) = bp + n /\ c + Size(h2, c) - 2 = bp + n - 2
        BY <3>2, <1>1, <1>8
      <4>2. \A d \in S2 : d > c => d >= c + Size(h2, c)
        BY <3>2, <4>1, <1>1, <1>2, <1>4, <1>11
      <4> QED
        BY <3>2, <4>1, <4>2, <1>1, <1>7, <1>8
    <3>3. CASE c \in S /\ c # bp
      <4>1. /\ h.mem[c + Size(h, c) - 2] = h.mem[c - 1] /\ c + Size(h, c) \in S \cup {h.brk}
            /\ \A d \in S : d > c => d >= c + Size(h, c)
            /\ c % 2 = 0 /\ Size(h, c) >= 2 /\ c \in Nat /\ Size(h, c) \in Nat
        BY <3>3, Headers, TileParts
      <4>2. bp + n > c => bp + n >= c + Size(h, c)
        BY <3>3, <4>1, <1>1, <1>2, <1>9
      <4> QED
        BY <3>3, <4>1, <4>2, <1>6, <1>10
    <3> QED
      BY <3>1, <3>2, <3>3
  <2>5. ASSUME NEW c \in (S2 \cup {h2.brk}) \ {First} PROVE \E d \in S2 : d + Size(h2, d) = c
    <3>1. CASE c = bp + n
      BY <3>1, <1>8
    <3>2. CASE c # bp + n
      <4>1. c \in (S \cup {h.brk}) \ {First}
        BY <3>2, <1>6
      <4>2. PICK d \in S : d + Size(h, d) = c
        BY <4>1 DEF Tiled
      <4>3. CASE d = bp
        BY <4>2, <4>3, <1>1, <1>8
      <4>4. CASE d # bp
        BY <4>2, <4>4, <1>10
      <4> QED
        BY <4>3, <4>4
    <3> QED
      BY <3>1, <3>2
  <2>6. h2.brk % 2 = 0 /\ h2.brk <= Base + MAX_HEAP
    BY <1>4, <1>6
  <2> HIDE DEF S2
  <2> QED
    BY <1>6, <2>1, <2>2, <2>3, <2>4, <2>5, <2>6 DEF Tiled
<1>13. Kept(h, S, {}, h2, S2)
  BY <1>4, <1>6, <1>10 DEF Kept
<1> QED
  BY <1>6, <1>8, <1>12, <1>13

\* A block is added at the end of the heap.
LEMMA Extend ==
  ASSUME NEW h, NEW S, Tiled(h, S), NEW size \in Nat, size % 2 = 0, size >= 2,
         NEW bp, bp = h.brk, bp + size <= Base + MAX_HEAP,
         NEW h2, Memory(h2), h2.brk = bp + size, h2.heap_listp = h.heap_listp,
         h2.mem[bp - 1] = size, h2.mem[bp + size - 2] = size, h2.mem[bp + size - 1] = 1,
         \A a \in Arena : a \notin {bp - 1, bp + size - 2, bp + size - 1} => h2.mem[a] = h.mem[a],
         NEW S2, S2 = S \cup {bp}
  PROVE  /\ Tiled(h2, S2) /\ h2.brk = bp + size /\ ~Used(h2, bp) /\ Size(h2, bp) = size
         /\ Kept(h, S, {}, h2, S2)
<1>1. /\ bp \in Nat /\ bp % 2 = 0 /\ bp <= Base + MAX_HEAP
      /\ \A c \in S : c \in Nat /\ c % 2 = 0 /\ c >= First /\ c <= bp
      /\ First \in S /\ First <= bp /\ First \in Nat
  BY Addresses DEF Tiled
<1>2. bp - 1 \in Arena /\ bp + size - 2 \in Arena /\ bp + size - 1 \in Arena
  BY <1>1, MmbookAssumption DEF Arena, First, Base, DSIZE
<1>6. /\ h2.brk = bp + size /\ h2.heap_listp = h.heap_listp
      /\ h2.mem[bp - 1] = size /\ h2.mem[bp + size - 2] = size /\ h2.mem[bp + size - 1] = 1
      /\ \A a \in Arena : a \notin {bp - 1, bp + size - 2, bp + size - 1} => h2.mem[a] = h.mem[a]
  OBVIOUS
<1>7. Size(h2, bp) = size /\ ~Used(h2, bp)
  BY <1>6 DEF Size, Used, GET_SIZE, GET_ALLOC, GET, HDRP, WSIZE, ALIGNMENT
<1>8. ASSUME NEW c \in S
      PROVE  /\ Size(h2, c) = Size(h, c) /\ (Used(h2, c) <=> Used(h, c)) /\ h2.mem[c - 1] = h.mem[c - 1]
             /\ h2.mem[c + Size(h, c) - 2] = h.mem[c + Size(h, c) - 2]
             /\ \A a \in c .. (c + Size(h, c) - 3) : h2.mem[a] = h.mem[a]
             /\ c + Size(h, c) <= bp
  <2>1. /\ c \in Nat /\ c % 2 = 0 /\ c - 1 \in Arena /\ Size(h, c) \in Nat /\ Size(h, c) % 2 = 0
        /\ Size(h, c) >= 2 /\ c + Size(h, c) - 2 \in Arena /\ c + Size(h, c) <= bp
    BY Headers
  <2>2. ASSUME NEW a \in (c - 1) .. (c + Size(h, c) - 2) PROVE h2.mem[a] = h.mem[a]
    <3>1. a \in Arena
      BY <2>1, MmbookAssumption DEF Arena, Base
    <3>2. a \notin {bp - 1, bp + size - 2, bp + size - 1}
      BY <1>1, <2>1
    <3> QED
      BY <1>6, <3>1, <3>2
  <2>3. h2.mem[c - 1] = h.mem[c - 1]
    BY <2>1, <2>2
  <2>4. Size(h2, c) = Size(h, c) /\ (Used(h2, c) <=> Used(h, c))
    BY <2>3 DEF Size, Used, GET_SIZE, GET_ALLOC, GET, HDRP, WSIZE, ALIGNMENT
  <2> QED
    BY <2>1, <2>2, <2>3, <2>4
<1>9. Tiled(h2, S2)
  <2>1. First \in S2 /\ Used(h2, First) /\ h2.heap_listp = First
    BY <1>1, <1>6, <1>8 DEF Tiled
  <2>2. S2 \subseteq First .. (h2.brk - 2)
    <3>1. S \subseteq First .. (bp - 2)
      BY DEF Tiled
    <3>2. \A c \in S : c \in First .. (h2.brk - 2)
      BY <3>1, <1>1, <1>6
    <3>3. bp \in First .. (h2.brk - 2)
      BY <1>1, <1>6
    <3> QED
      BY <3>2, <3>3
  <2>3. h2.mem[h2.brk - 1] = 1
    BY <1>1, <1>6
  <2>4. ASSUME NEW c \in S2
        PROVE  /\ c % 2 = 0 /\ Size(h2, c) >= 2
               /\ h2.mem[c + Size(h2, c) - 2] = h2.mem[c - 1]
               /\ c + Size(h2, c) \in S2 \cup {h2.brk}
               /\ \A d \in S2 : d > c => d >= c + Size(h2, c)
    <3>1. CASE c = bp
      <4>1. \A d \in S : d <= c
        BY <3>1, <1>1
      <4>2. \A d \in S2 : d \in S \/ d = c
        BY <3>1
      <4>3. ASSUME NEW d \in S2 PROVE ~(d > c)
        <5>1. CASE d = c
          BY <5>1, <3>1, <1>1
        <5>2. CASE d \in S
          <6>1. d \in Nat /\ d <= c /\ c \in Nat
            BY <5>2, <4>1, <3>1, <1>1
          <6> QED
            BY ONLY <6>1
        <5> QED
          BY <5>1, <5>2, <4>2
      <4> QED
        BY <3>1, <4>3, <1>1, <1>6, <1>7
    <3>2. CASE c \in S
      <4>1. /\ h.mem[c + Size(h, c) - 2] = h.mem[c - 1] /\ c + Size(h, c) \in S \cup {bp}
            /\ \A d \in S : d > c => d >= c + Size(h, c)
            /\ c % 2 = 0 /\ Size(h, c) >= 2
        BY <3>2, Headers, TileParts
      <4> QED
        BY <3>2, <4>1, <1>8
    <3> QED
      BY <3>1, <3>2
  <2>5. ASSUME NEW c \in (S2 \cup {h2.brk}) \ {First} PROVE \E d \in S2 : d + Size(h2, d) = c
    <3>1. CASE c = bp + size
      BY <3>1, <1>7
    <3>2. CASE c # bp + size
      <4>1. c \in (S \cup {bp}) \ {First}
        BY <3>2, <1>6
      <4>2. PICK d \in S : d + Size(h, d) = c
        BY <4>1 DEF Tiled
      <4> QED
        BY <4>2, <1>8
    <3> QED
      BY <3>1, <3>2
  <2>6. h2.brk % 2 = 0 /\ h2.brk <= Base + MAX_HEAP
    BY <1>1, <1>6
  <2> QED
    BY <1>6, <2>1, <2>2, <2>3, <2>4, <2>5, <2>6 DEF Tiled
<1>10. Kept(h, S, {}, h2, S2)
  BY <1>1, <1>6, <1>8 DEF Kept
<1> QED
  BY <1>6, <1>7, <1>9, <1>10

\* The bit of a header is 0 or 1.
LEMMA UsedOrFree ==
  ASSUME NEW h, NEW S, Tiled(h, S), NEW bp \in S
  PROVE  GET_ALLOC(h, HDRP(bp)) \in {0, 1} /\ (Used(h, bp) <=> GET_ALLOC(h, HDRP(bp)) = 1)
<1>1. h.mem[bp - 1] % 2 \in {0, 1}
  BY Headers
<1> QED
  BY <1>1 DEF Used, GET_ALLOC, GET, HDRP, WSIZE, ALIGNMENT

\* A free block is joined with those around it, which are free or not.
LEMMA Coalesce ==
  ASSUME NEW h, NEW S, Tiled(h, S), NEW bp \in S, bp # First, ~Used(h, bp),
         NEW r, r = coalesce(h, bp)
  PROVE  \E S2 : /\ Tiled(r.h, S2) /\ r.p \in S2 /\ r.p # First /\ ~Used(r.h, r.p)
                 /\ Size(r.h, r.p) >= Size(h, bp) /\ r.h.brk = h.brk
                 /\ Kept(h, S, {}, r.h, S2)
<1>1. /\ bp \in Nat /\ bp % 2 = 0 /\ bp >= First /\ bp < h.brk
      /\ Size(h, bp) \in Nat /\ Size(h, bp) >= 2
      /\ bp + Size(h, bp) \in S \cup {h.brk} /\ bp + Size(h, bp) <= h.brk
  BY Headers
<1>2. PICK q \in S : q + Size(h, q) = bp
  BY DEF Tiled
<1>3. /\ q \in Nat /\ q >= First /\ Size(h, q) \in Nat /\ Size(h, q) >= 2
      /\ h.mem[q - 1] \in Nat /\ h.mem[q + Size(h, q) - 2] = h.mem[q - 1]
      /\ Size(h, q) = h.mem[q - 1] - (h.mem[q - 1] % 2)
  BY Headers, TileParts
<1>4. h.mem[bp - 2] = h.mem[q - 1]
  BY <1>2, <1>3
<1>5. PREV_BLKP(h, bp) = q
  <2>1. GET_SIZE(h, bp - 2) = Size(h, q)
    BY <1>4 DEF GET_SIZE, GET, Size, HDRP, WSIZE
  <2> QED
    BY <1>1, <1>2, <1>3, <2>1 DEF PREV_BLKP, DSIZE
<1>6. FTRP(h, q) = bp - 2
  BY <1>2, <1>3 DEF FTRP, Size, DSIZE
<1>7. GET_ALLOC(h, FTRP(h, q)) = GET_ALLOC(h, HDRP(q))
  BY <1>4, <1>6 DEF GET_ALLOC, GET, HDRP, WSIZE
<1> DEFINE next == bp + Size(h, bp)
           before == IF GET_ALLOC(h, HDRP(q)) = 1 THEN 0 ELSE Size(h, q)
           behind == IF GET_ALLOC(h, HDRP(next)) = 1 THEN 0 ELSE GET_SIZE(h, HDRP(next))
           start == bp - before
<1>8. NEXT_BLKP(h, bp) = next
  BY DEF NEXT_BLKP, Size
<1>9. r = [h |-> Tagged(h, start, before + Size(h, bp) + behind, 0), p |-> start]
  BY <1>5, <1>7, <1>8 DEF coalesce, Size
<1> DEFINE hi == next + behind
<1>10. /\ hi \in S \cup {h.brk} /\ hi \in Nat /\ hi >= next
       /\ \A c \in S : next <= c /\ c < hi => ~Used(h, c)
  <2>1. CASE next = h.brk
    <3>1. h.mem[next - 1] = 1
      BY <2>1 DEF Tiled
    <3>2. behind = 0
      BY <3>1 DEF GET_ALLOC, GET, HDRP, WSIZE, ALIGNMENT
    <3> QED
      BY <1>1, <2>1, <3>2
  <2>2. CASE next \in S
    <3>1. next \in Nat /\ Size(h, next) \in Nat /\ Size(h, next) >= 2 /\ next + Size(h, next) \in S \cup {h.brk}
      BY <2>2, Headers
    <3>2. CASE GET_ALLOC(h, HDRP(next)) = 1
      BY <3>1, <3>2, <1>1
    <3>3. CASE GET_ALLOC(h, HDRP(next)) # 1
      <4>1. behind = Size(h, next)
        BY <3>3 DEF Size
      <4>2. ~Used(h, next)
        BY <3>3 DEF Used
      <4>3. \A c \in S : next <= c /\ c < next + Size(h, next) => c = next
        BY <2>2, <3>1, TileParts, Addresses
      <4> QED
        BY <3>1, <4>1, <4>2, <4>3
    <3> QED
      BY <3>2, <3>3
  <2> QED
    BY <1>1, <2>1, <2>2
<1>11. /\ start \in S /\ start \in Nat /\ start <= bp /\ start # First
       /\ \A c \in S : start <= c /\ c < next => ~Used(h, c)
  <2>1. \A c \in S : bp <= c /\ c < next => c = bp
    BY <1>1, TileParts, Addresses
  <2>2. CASE GET_ALLOC(h, HDRP(q)) = 1
    BY <2>1, <2>2, <1>1
  <2>3. CASE GET_ALLOC(h, HDRP(q)) # 1
    <3>1. start = q /\ ~Used(h, q)
      BY <2>3, <1>1, <1>2, <1>3 DEF Used
    <3>2. q # First
      BY <3>1 DEF Tiled
    <3>3. \A c \in S : q <= c /\ c < bp => c = q
      BY <1>2, <1>3, TileParts, Addresses
    <3> QED
      BY <2>1, <3>1, <3>2, <3>3, <1>1, <1>2, <1>3, Addresses
  <2> QED
    BY <2>2, <2>3
<1>12. before \in Nat /\ before + Size(h, bp) + behind = hi - start /\ start < hi /\ hi - start >= Size(h, bp)
  <2>1. before \in Nat
    BY <1>3
  <2>2. behind = hi - next /\ behind \in Int
    <3>1. behind \in Int
      <4>1. CASE GET_ALLOC(h, HDRP(next)) = 1
        BY <4>1
      <4>2. CASE GET_ALLOC(h, HDRP(next)) # 1
        <5>1. next \in S
          <6>1. next = h.brk => h.mem[next - 1] = 1
            BY DEF Tiled
          <6>2. next # h.brk
            BY <4>2, <6>1 DEF GET_ALLOC, GET, HDRP, WSIZE, ALIGNMENT
          <6> QED
            BY <6>2, <1>1
        <5>2. behind = Size(h, next)
          BY <4>2 DEF Size
        <5> QED
          BY <5>1, <5>2, Headers
      <4> QED
        BY <4>1, <4>2
    <3> QED
      BY <3>1, <1>1
  <2>3. hi = bp + Size(h, bp) + behind /\ start = bp - before /\ hi >= bp + Size(h, bp)
    BY <1>10
  <2> HIDE DEF before, behind, hi, start
  <2> QED
    BY <2>1, <2>2, <2>3, <1>1
<1> PICK lo : lo = start
  OBVIOUS
<1> PICK to : to = hi
  OBVIOUS
<1> PICK size : size = to - lo
  OBVIOUS
<1>13. r.h = Tagged(h, lo, size, 0) /\ r.p = lo
  BY <1>9, <1>12
<1> PICK S2 : S2 = Outside(S, lo, to)
  OBVIOUS
<1>14. /\ Tiled(r.h, S2) /\ r.h.brk = h.brk /\ lo \in S2
       /\ Size(r.h, lo) = to - lo /\ ~Used(r.h, lo)
       /\ Kept(h, S, Inside(S, lo, to), r.h, S2)
  <2>1. lo \in S /\ lo # First /\ to \in S \cup {h.brk} /\ lo < to
    BY <1>10, <1>11, <1>12
  <2> PICK free \in {0, 1} : free = 0
    OBVIOUS
  <2>3. r.h = Tagged(h, lo, size, free)
    BY <1>13
  <2> HIDE DEF start, hi, before, behind, next
  <2>4. /\ Tiled(r.h, S2) /\ r.h.brk = h.brk /\ lo \in S2
        /\ Size(r.h, lo) = to - lo /\ (Used(r.h, lo) <=> free = 1)
        /\ Kept(h, S, Inside(S, lo, to), r.h, S2)
    BY <2>1, <2>3, Merge
  <2> QED
    BY <2>4
<1>15. Kept(h, S, {}, r.h, S2)
  <2>1. \A c \in S : lo <= c /\ c < to => ~Used(h, c)
    BY <1>1, <1>10, <1>11, Addresses
  <2>2. \A c \in S \cap Inside(S, lo, to) : Used(h, c) => c \in {}
    BY <2>1 DEF Inside
  <2> QED
    BY <1>14, <2>2, KeptMore
<1> QED
  BY <1>11, <1>12, <1>13, <1>14, <1>15
-----------------------------------------------------------------------------
\* The steps of a walk in D.
Steps(w, D, next, x, n) ==
  w \in [0 .. n -> D] /\ w[0] = x /\ \A k \in 1 .. n : w[k] = next[w[k - 1]]

\* A walk is the last of a sequence of steps.
LEMMA WalkSteps ==
  ASSUME NEW D, NEW next, \A y \in D : next[y] \in D, NEW x \in D, NEW n \in Nat
  PROVE  \E w : Steps(w, D, next, x, n) /\ Walk(next, x, n) = w[n]
<1> DEFINE Path(f, k) == f \in [0 .. k -> D] /\ f[0] = x /\ \A j \in 1 .. k : f[j] = next[f[j - 1]]
           Short == {k \in Nat : ~ \E f : Path(f, k)}
<1>1. Short = {}
  <2> SUFFICES ASSUME Short # {} PROVE FALSE
    OBVIOUS
  <2>1. PICK k \in Short : \A j \in Short : k <= j
    BY LeastOfSet
  <2>2. k # 0
    <3>1. Path([j \in 0 .. 0 |-> x], 0)
      OBVIOUS
    <3> HIDE DEF Path
    <3> QED
      BY <2>1, <3>1
  <2>3. PICK f : Path(f, k - 1)
    <3>1. k \in Nat
      BY <2>1
    <3>2. k - 1 \in Nat /\ ~(k <= k - 1)
      BY ONLY <2>2, <3>1
    <3> HIDE DEF Path
    <3> QED
      BY <2>1, <3>2
  <2> DEFINE g == [j \in 0 .. k |-> IF j = k THEN next[f[k - 1]] ELSE f[j]]
  <2>4. Path(g, k)
    <3>1. k \in Nat /\ k # 0
      BY <2>1, <2>2
    <3>2. f \in [0 .. (k - 1) -> D] /\ f[0] = x /\ \A j \in 1 .. (k - 1) : f[j] = next[f[j - 1]]
      BY <2>3
    <3>3. /\ \A j \in 0 .. k : j # k => j \in 0 .. (k - 1)
          /\ k - 1 \in 0 .. (k - 1) /\ k \in 0 .. k /\ 0 \in 0 .. k
      BY ONLY <3>1
    <3>4. g \in [0 .. k -> D] /\ g[0] = x
      BY <3>1, <3>2, <3>3
    <3>5. ASSUME NEW j \in 1 .. k PROVE g[j] = next[g[j - 1]]
      <4>1. j \in 0 .. k /\ j - 1 \in 0 .. k /\ j - 1 # k /\ (j # k => j \in 1 .. (k - 1))
        BY ONLY <3>1, j \in 1 .. k
      <4>2. g[j - 1] = f[j - 1] /\ g[j] = IF j = k THEN next[f[k - 1]] ELSE f[j]
        BY <4>1
      <4> QED
        BY <3>2, <4>1, <4>2
    <3> QED
      BY <3>4, <3>5
  <2> QED
    BY <2>1, <2>4
<1>2. PICK f : Path(f, n)
  BY <1>1
<1> DEFINE Fixed(w) == w = [k \in 0 .. n |-> IF k = 0 THEN x ELSE next[w[k - 1]]]
<1>3. Fixed(f)
  BY <1>2
<1> DEFINE w == CHOOSE w : Fixed(w)
<1>4. Fixed(w)
  BY <1>3
<1>5. ASSUME NEW u, Fixed(u) PROVE u = f
  <2> DEFINE Differ == {k \in 0 .. n : u[k] # f[k]}
  <2>1. Differ \in SUBSET Nat
    OBVIOUS
  <2>2. Differ = {}
    <3> SUFFICES ASSUME Differ # {} PROVE FALSE
      OBVIOUS
    <3>1. PICK k \in Differ : \A j \in Differ : k <= j
      <4> HIDE DEF Differ
      <4> QED
        BY <2>1, LeastOfSet
    <3>2. k = 0 \/ u[k - 1] = f[k - 1]
      BY <3>1
    <3> QED
      BY <1>3, <1>5, <3>1, <3>2
  <2> QED
    BY <1>2, <1>5, <2>2
<1>6. Walk(next, x, n) = w[n]
  BY DEF Walk
<1> QED
  <2>1. w = f
    BY <1>4, <1>5
  <2> HIDE DEF w
  <2> QED
    BY <1>2, <1>6, <2>1 DEF Steps

\* The first fit is a free block that is large enough.
LEMMA FindFit ==
  ASSUME NEW h, NEW S, Tiled(h, S), NEW asize \in Nat, NEW fit, fit = find_fit(h, asize)
  PROVE  fit = NULL \/ (fit \in S /\ fit # First /\ ~Used(h, fit) /\ Size(h, fit) >= asize)
<1> DEFINE D == S \cup {h.brk}
           Ends(bp) == GET_SIZE(h, HDRP(bp)) = 0
           Found(bp) == GET_ALLOC(h, HDRP(bp)) = 0 /\ asize <= GET_SIZE(h, HDRP(bp))
           Step(bp) == IF Ends(bp) \/ Found(bp) THEN bp ELSE NEXT_BLKP(h, bp)
           next == [bp \in Int |-> Step(bp)]
           last == Walk(next, h.heap_listp, h.brk)
<1>1. fit = IF Ends(last) THEN NULL ELSE last
  BY DEF find_fit
<1>2. /\ h.brk \in Nat /\ h.heap_listp = First /\ First \in Nat /\ First \in D
      /\ \A c \in D : c \in Nat /\ c >= First /\ c <= h.brk
  BY Addresses DEF Tiled
<1>3. Ends(h.brk)
  <2>1. h.mem[h.brk - 1] = 1
    BY DEF Tiled
  <2> QED
    BY <2>1 DEF GET_SIZE, GET, HDRP, WSIZE, ALIGNMENT
<1>4. ASSUME NEW c \in D, ~Ends(c), ~Found(c)
      PROVE  c \in S /\ next[c] = c + Size(h, c) /\ next[c] \in D /\ next[c] >= c + 2
  <2>1. c \in S /\ c \in Int
    BY <1>2, <1>3, <1>4
  <2>2. Size(h, c) \in Nat /\ Size(h, c) >= 2 /\ c + Size(h, c) \in D
    BY <2>1, Headers
  <2>3. next[c] = c + Size(h, c)
    BY <1>4, <2>1 DEF NEXT_BLKP, Size
  <2> QED
    BY <2>1, <2>2, <2>3
<1>5. ASSUME NEW c \in D, Ends(c) \/ Found(c) PROVE next[c] = c
  BY <1>2, <1>5
<1>6. \A c \in D : next[c] \in D
  BY <1>4, <1>5
<1>7. PICK w : Steps(w, D, next, First, h.brk) /\ last = w[h.brk]
  <2>1. last = Walk(next, First, h.brk)
    BY <1>2
  <2> HIDE DEF D, next, last
  <2>2. \E w : Steps(w, D, next, First, h.brk) /\ Walk(next, First, h.brk) = w[h.brk]
    <3>1. First \in D /\ h.brk \in Nat
      BY <1>2
    <3> QED
      BY <1>6, <3>1, WalkSteps
  <2> QED
    BY <2>1, <2>2
<1>8. /\ w \in [0 .. h.brk -> D] /\ w[0] = First
      /\ \A k \in 1 .. h.brk : w[k] = next[w[k - 1]]
  BY <1>7 DEF Steps
<1> HIDE DEF next, D, Ends, Found, last
<1>9. \A k \in 0 .. h.brk : Ends(w[k]) \/ Found(w[k]) \/ w[k] >= First + 2 * k
  <2> DEFINE Short == {k \in 0 .. h.brk : ~(Ends(w[k]) \/ Found(w[k]) \/ w[k] >= First + 2 * k)}
  <2> SUFFICES ASSUME Short # {} PROVE FALSE
    OBVIOUS
  <2>1. PICK k \in Short : \A j \in Short : k <= j
    <3>1. Short \in SUBSET Nat
      OBVIOUS
    <3> HIDE DEF Short
    <3> QED
      BY <3>1, LeastOfSet
  <2>2. k \in 0 .. h.brk /\ ~Ends(w[k]) /\ ~Found(w[k]) /\ ~(w[k] >= First + 2 * k)
    BY <2>1
  <2> HIDE DEF Short
  <2>3. k # 0
    <3>1. First >= First + 2 * 0
      BY <1>2
    <3> QED
      BY <1>8, <2>2, <3>1
  <2>4. k - 1 \in 0 .. h.brk /\ w[k] = next[w[k - 1]] /\ w[k - 1] \in D /\ w[k] \in D
    <3> PICK brk : brk = h.brk
      OBVIOUS
    <3>1. brk \in Nat /\ k \in 0 .. brk /\ k # 0
      BY <1>2, <2>2, <2>3
    <3>2. k - 1 \in 0 .. brk /\ k \in 1 .. brk
      BY ONLY <3>1
    <3> QED
      BY <1>8, <3>2, <3>1
  <2>5. Ends(w[k - 1]) \/ Found(w[k - 1]) \/ w[k - 1] >= First + 2 * (k - 1)
    BY <2>1, <2>3, <2>4, <1>2 DEF Short
  <2>6. ~Ends(w[k - 1]) /\ ~Found(w[k - 1])
    BY <1>5, <2>2, <2>4
  <2>7. w[k] >= w[k - 1] + 2
    BY <1>4, <2>4, <2>6
  <2>8. w[k] \in Nat /\ w[k - 1] \in Nat /\ First \in Nat /\ k \in Nat
    <3>1. \A c \in D : c \in Nat
      BY <1>2
    <3>2. k \in Nat
      BY <1>2, <2>2
    <3>3. w[k] \in Nat /\ w[k - 1] \in Nat
      BY <2>4, <3>1
    <3> QED
      BY <1>2, <3>2, <3>3
  <2>9. w[k - 1] >= First + 2 * (k - 1)
    BY <2>5, <2>6
  <2>10. w[k] >= First + 2 * k
    BY <2>7, <2>8, <2>9
  <2> QED
    BY <2>2, <2>10
<1>10. last \in D /\ (Ends(last) \/ Found(last))
  <2>1. h.brk \in 0 .. h.brk /\ w[h.brk] \in D
    BY <1>2, <1>8
  <2>2. ~(w[h.brk] >= First + 2 * h.brk)
    BY <2>1, <1>2 DEF First, Base, DSIZE
  <2> QED
    BY <1>7, <1>9, <2>1, <2>2
<1>11. CASE ~Ends(last)
  <2>1. last \in S /\ Found(last)
    BY <1>3, <1>10, <1>11 DEF D
  <2>2. ~Used(h, last) /\ Size(h, last) >= asize
    <3>1. Size(h, last) \in Nat
      BY <2>1, Headers
    <3> QED
      BY <2>1, <3>1 DEF Found, Used, Size
  <2>3. last # First
    BY <2>2 DEF Tiled
  <2> QED
    BY <1>1, <1>11, <2>1, <2>2, <2>3
<1> QED
  BY <1>1, <1>11

\* Of the block at bp alone.
LEMMA OneBlock ==
  ASSUME NEW h, NEW S, Tiled(h, S), NEW bp \in S, NEW hi, hi = bp + Size(h, bp)
  PROVE  /\ hi \in S \cup {h.brk} /\ bp < hi
         /\ \A c \in S : c \in Inside(S, bp, hi) => c = bp
<1>1. /\ bp \in Nat /\ Size(h, bp) \in Nat /\ Size(h, bp) >= 2 /\ hi \in S \cup {h.brk}
      /\ \A c \in S : c > bp => c >= hi
  BY Headers, TileParts
<1>2. \A c \in S \cup {h.brk} : c \in Nat
  BY Addresses
<1> QED
  BY <1>1, <1>2 DEF Inside

\* place takes a free block that is large enough, or the beginning of it.
LEMMA Place ==
  ASSUME NEW h, NEW S, Tiled(h, S), NEW bp \in S, bp # First, ~Used(h, bp),
         NEW asize \in Nat, asize % 2 = 0, asize >= 2, Size(h, bp) >= asize,
         NEW h2, h2 = place(h, bp, asize)
  PROVE  \E S2 : /\ Tiled(h2, S2) /\ bp \in S2 /\ Used(h2, bp) /\ Size(h2, bp) >= asize
                 /\ h2.brk = h.brk /\ Kept(h, S, {}, h2, S2)
<1>1. bp \in Nat /\ Size(h, bp) \in Nat /\ Size(h, bp) >= 2
  BY Headers
<1>2. CASE Size(h, bp) - asize >= 4
  <2>1. h2 = Tagged(Tagged(h, bp, asize, 1), bp + asize, Size(h, bp) - asize, 0)
    BY <1>2 DEF place, Size, DSIZE
  <2>2. Size(h, bp) - asize >= 2
    BY <1>1, <1>2
  <2> PICK S2 : S2 = S \cup {bp + asize}
    OBVIOUS
  <2>3. /\ Tiled(h2, S2) /\ h2.brk = h.brk /\ Used(h2, bp) /\ Size(h2, bp) = asize
        /\ Kept(h, S, {}, h2, S2)
    BY <2>1, <2>2, Divide
  <2> QED
    BY <2>3
<1>3. CASE ~(Size(h, bp) - asize >= 4)
  <2> PICK size : size = Size(h, bp)
    OBVIOUS
  <2> PICK hi : hi = bp + size
    OBVIOUS
  <2> PICK alloc \in {0, 1} : alloc = 1
    OBVIOUS
  <2> PICK S2 : S2 = Outside(S, bp, hi)
    OBVIOUS
  <2>1. h2 = Tagged(h, bp, size, alloc)
    BY <1>3 DEF place, Size, DSIZE
  <2>2. hi \in S \cup {h.brk} /\ bp < hi /\ size = hi - bp /\ \A c \in S : c \in Inside(S, bp, hi) => c = bp
    BY <1>1, OneBlock
  <2>3. /\ Tiled(h2, S2) /\ h2.brk = h.brk /\ bp \in S2
        /\ Size(h2, bp) = hi - bp /\ (Used(h2, bp) <=> alloc = 1)
        /\ Kept(h, S, Inside(S, bp, hi), h2, S2)
    BY <2>1, <2>2, Merge
  <2>4. \A c \in S \cap Inside(S, bp, hi) : Used(h, c) => c \in {}
    BY <2>2
  <2>5. Kept(h, S, {}, h2, S2)
    BY <2>3, <2>4, KeptMore
  <2> QED
    BY <2>2, <2>3, <2>5
<1> QED
  BY <1>2, <1>3

\* A request is rounded up.
LEMMA AlignRight ==
  ASSUME NEW size \in Nat
  PROVE  ALIGN(size) \in Nat /\ ALIGN(size) % 2 = 0 /\ ALIGN(size) >= size
  BY DEF ALIGN, ALIGNMENT

\* extend_heap leaves the heap alone or has a free block for the request.
LEMMA ExtendHeap ==
  ASSUME NEW h, NEW S, Tiled(h, S), NEW words \in Nat \ {0}, NEW r, r = extend_heap(h, words)
  PROVE  \/ r = [h |-> h, p |-> NULL]
         \/ \E S2 : /\ Tiled(r.h, S2) /\ r.p \in S2 /\ r.p # First /\ ~Used(r.h, r.p)
                    /\ Size(r.h, r.p) >= words /\ Kept(h, S, {}, r.h, S2)
<1> PICK size : size = ALIGN(words)
  OBVIOUS
<1>1. size \in Nat /\ size % 2 = 0 /\ size >= words /\ size >= 2
  BY AlignRight
<1>2. h.brk \in Nat /\ h.brk >= First
  BY Addresses DEF Tiled
<1>3. CASE h.brk + size > Base + MAX_HEAP
  <2>1. mem_sbrk(h, size).p = -1
    BY <1>3 DEF mem_sbrk
  <2> QED
    BY <2>1 DEF extend_heap
<1>4. CASE ~(h.brk + size > Base + MAX_HEAP)
  <2>0. PICK h1 : h1 = [h EXCEPT !.brk = @ + size]
    OBVIOUS
  <2> PICK bp : bp = h.brk
    OBVIOUS
  <2> PICK block : block = Tagged(h1, bp, size, 0)
    OBVIOUS
  <2> PICK h2 : h2 = PUT(block, HDRP(NEXT_BLKP(block, bp)), PACK(0, 1))
    OBVIOUS
  <2> PICK S2 : S2 = S \cup {bp}
    OBVIOUS
  <2>1. mem_sbrk(h, size).p = bp /\ mem_sbrk(h, size).h = h1
    BY <1>4, <2>0 DEF mem_sbrk
  <2>2. r = coalesce(h2, bp)
    BY <1>2, <2>1 DEF extend_heap
  <2>3. h.brk + size <= Base + MAX_HEAP
    BY <1>1, <1>2, <1>4, MmbookAssumption DEF Base
  <2>4. /\ Tiled(h2, S2) /\ h2.brk = h.brk + size /\ ~Used(h2, bp) /\ Size(h2, bp) = size
        /\ Kept(h, S, {}, h2, S2)
    <3>1. /\ Memory(h1) /\ h1.brk = bp + size /\ h1.heap_listp = h.heap_listp /\ h1.mem = h.mem
          /\ bp + size <= Base + MAX_HEAP
      BY <1>1, <1>2, <2>0, <2>3 DEF Tiled, Memory
    <3>2. bp - 1 \in Arena /\ bp + size - 2 \in Arena /\ bp + size - 1 \in Arena /\ bp \in Nat
      BY <1>1, <1>2, <3>1, MmbookAssumption DEF Arena, First, Base, DSIZE
    <3>3. /\ Memory(block) /\ block.brk = bp + size /\ block.heap_listp = h.heap_listp
          /\ block.mem[bp - 1] = size /\ block.mem[bp + size - 2] = size
          /\ \A a \in Arena : a \notin {bp - 1, bp + size - 2} => block.mem[a] = h.mem[a]
      <4>1. /\ Memory(block) /\ block.brk = h1.brk /\ block.heap_listp = h1.heap_listp
            /\ block.mem[bp - 1] = size /\ block.mem[bp + size - 2] = size
            /\ \A a \in Arena : a \notin {bp - 1, bp + size - 2} => block.mem[a] = h1.mem[a]
        <5> PICK at \in Nat, n \in Nat : at = bp /\ n = size
          BY <1>1, <3>2
        <5>1. Memory(h1) /\ at - 1 \in Arena /\ at + n - 2 \in Arena /\ block = Tagged(h1, at, n, 0)
          BY <3>1, <3>2
        <5>2. /\ Memory(block) /\ block.brk = h1.brk /\ block.heap_listp = h1.heap_listp
              /\ block.mem[at - 1] = n /\ block.mem[at + n - 2] = n
              /\ \A a \in Arena : a \notin {at - 1, at + n - 2} => block.mem[a] = h1.mem[a]
          BY ONLY <5>1, at \in Nat, n \in Nat, TaggedFree
        <5> QED
          BY <5>2
      <4> QED
        BY <3>1, <4>1
    <3>4. HDRP(NEXT_BLKP(block, bp)) = bp + size - 1 /\ PACK(0, 1) = 1
      <4>1. GET_SIZE(block, HDRP(bp)) = size
        BY <1>1, <3>3 DEF GET_SIZE, GET, HDRP, WSIZE, ALIGNMENT
      <4> QED
        BY <1>1, <3>2, <4>1 DEF HDRP, NEXT_BLKP, WSIZE, PACK
    <3>5. /\ Memory(h2) /\ h2.brk = bp + size /\ h2.heap_listp = h.heap_listp
          /\ h2.mem[bp - 1] = size /\ h2.mem[bp + size - 2] = size /\ h2.mem[bp + size - 1] = 1
          /\ \A a \in Arena : a \notin {bp - 1, bp + size - 2, bp + size - 1} => h2.mem[a] = h.mem[a]
      <4> PICK epilogue : epilogue = bp + size - 1
        OBVIOUS
      <4>1. h2 = [block EXCEPT !.mem[epilogue] = 1]
        BY <3>4 DEF PUT
      <4>2. epilogue \in Arena /\ bp - 1 # epilogue /\ bp + size - 2 # epilogue
        BY <1>1, <3>2
      <4>3. /\ Memory(h2) /\ h2.brk = block.brk /\ h2.heap_listp = block.heap_listp
            /\ h2.mem = [block.mem EXCEPT ![epilogue] = 1]
        BY <3>3, <4>1, <4>2 DEF Memory
      <4>4. block.mem \in [Arena -> Nat]
        BY <3>3 DEF Memory
      <4> QED
        BY <3>2, <3>3, <4>2, <4>3, <4>4
    <3>6. /\ Tiled(h2, S2) /\ h2.brk = bp + size /\ ~Used(h2, bp) /\ Size(h2, bp) = size
          /\ Kept(h, S, {}, h2, S2)
      BY <1>1, <3>1, <3>5, Extend
    <3> QED
      BY <3>6
  <2>5. bp \in S2 /\ bp # First
    <3>1. First < h.brk
      BY Headers DEF Tiled
    <3> QED
      BY <1>2, <3>1
  <2>6. PICK S3 : /\ Tiled(r.h, S3) /\ r.p \in S3 /\ r.p # First /\ ~Used(r.h, r.p)
                  /\ Size(r.h, r.p) >= Size(h2, bp) /\ r.h.brk = h2.brk
                  /\ Kept(h2, S2, {}, r.h, S3)
    BY <2>2, <2>4, <2>5, Coalesce
  <2>7. Kept(h, S, {}, r.h, S3)
    <3>1. h.brk \in Nat /\ h2.brk \in Nat /\ r.h.brk \in Nat
      BY <1>2, <2>4, <2>6, Addresses
    <3> QED
      BY <2>4, <2>6, <3>1, KeptOn
  <2>8. Size(r.h, r.p) >= words
    <3>1. Size(r.h, r.p) \in Nat
      BY <2>6, Headers
    <3> QED
      BY <1>1, <2>4, <2>6, <3>1
  <2> QED
    BY <2>6, <2>7, <2>8
<1> QED
  BY <1>3, <1>4

\* mm_malloc answers NULL and leaves the heap alone, or answers a block that was
\* not in use, with room for the payload; the blocks in use stay.
LEMMA Malloc ==
  ASSUME NEW h, NEW S, Tiled(h, S), NEW size \in Nat, NEW r, r = mm_malloc(h, size)
  PROVE  \/ r = [h |-> h, p |-> NULL]
         \/ \E S2 : /\ size > 0 /\ Tiled(r.h, S2) /\ r.p \in S2 /\ r.p # First /\ Used(r.h, r.p)
                    /\ Size(r.h, r.p) >= size + 2 /\ Kept(h, S, {}, r.h, S2)
                    /\ \A c \in S : Used(h, c) => c # r.p
<1> PICK asize : asize = ALIGN(size + DSIZE)
  OBVIOUS
<1>1. asize \in Nat \ {0} /\ asize % 2 = 0 /\ asize >= size + 2 /\ asize >= 2
  <2>1. size + DSIZE \in Nat /\ size + DSIZE = size + 2
    BY DEF DSIZE
  <2> QED
    BY <2>1, AlignRight
<1> PICK fit : fit = find_fit(h, asize)
  OBVIOUS
<1>n. PICK new : new = extend_heap(h, asize)
  OBVIOUS
<1>2. CASE size = 0
  BY <1>2 DEF mm_malloc
<1>3. CASE size > 0 /\ fit # NULL
  <2>1. r = [h |-> place(h, fit, asize), p |-> fit]
    BY <1>3 DEF mm_malloc
  <2>2. fit \in S /\ fit # First /\ ~Used(h, fit) /\ Size(h, fit) >= asize
    BY <1>1, <1>3, FindFit
  <2>3. PICK h2 : h2 = place(h, fit, asize)
    OBVIOUS
  <2>4. PICK S2 : /\ Tiled(h2, S2) /\ fit \in S2 /\ Used(h2, fit) /\ Size(h2, fit) >= asize
                  /\ h2.brk = h.brk /\ Kept(h, S, {}, h2, S2)
    BY <1>1, <2>2, <2>3, Place
  <2>5. Size(h2, fit) >= size + 2
    <3>1. Size(h2, fit) \in Nat
      BY <2>4, Headers
    <3> QED
      BY <1>1, <2>4, <3>1
  <2>6. r.h = h2 /\ r.p = fit
    BY <2>1, <2>3
  <2> QED
    BY <1>3, <2>2, <2>4, <2>5, <2>6
<1>4. CASE size > 0 /\ fit = NULL /\ new.p = NULL
  <2>1. r = new
    BY <1>4, <1>n DEF mm_malloc
  <2>2. \/ new = [h |-> h, p |-> NULL]
        \/ \E S2 : Tiled(new.h, S2) /\ new.p \in S2
    BY <1>1, <1>n, ExtendHeap
  <2>3. \A S2 : ~(Tiled(new.h, S2) /\ new.p \in S2)
    BY <1>4, Headers DEF First, Base, DSIZE, NULL
  <2> QED
    BY <2>1, <2>2, <2>3
<1>5. CASE size > 0 /\ fit = NULL /\ new.p # NULL
  <2>1. r = [h |-> place(new.h, new.p, asize), p |-> new.p]
    BY <1>5, <1>n DEF mm_malloc
  <2>2. new # [h |-> h, p |-> NULL]
    BY <1>5
  <2>3. PICK S1 : /\ Tiled(new.h, S1) /\ new.p \in S1 /\ new.p # First /\ ~Used(new.h, new.p)
                  /\ Size(new.h, new.p) >= asize /\ Kept(h, S, {}, new.h, S1)
    BY <1>1, <1>n, <2>2, ExtendHeap
  <2>4. PICK h1 : h1 = new.h
    OBVIOUS
  <2>5. PICK bp : bp = new.p
    OBVIOUS
  <2>6. PICK h2 : h2 = place(h1, bp, asize)
    OBVIOUS
  <2>7. PICK S2 : /\ Tiled(h2, S2) /\ bp \in S2 /\ Used(h2, bp) /\ Size(h2, bp) >= asize
                  /\ h2.brk = h1.brk /\ Kept(h1, S1, {}, h2, S2)
    BY <1>1, <2>3, <2>4, <2>5, <2>6, Place
  <2>8. Kept(h, S, {}, h2, S2)
    <3>1. h.brk \in Nat /\ h1.brk \in Nat /\ h2.brk \in Nat
      BY <2>3, <2>4, <2>7, Addresses
    <3> QED
      BY <2>3, <2>4, <2>7, <3>1, KeptOn
  <2>9. \A c \in S : Used(h, c) => c # bp
    BY <2>3, <2>4, <2>5 DEF Kept
  <2>10. Size(h2, bp) >= size + 2
    <3>1. Size(h2, bp) \in Nat
      BY <2>7, Headers
    <3> QED
      BY <1>1, <2>7, <3>1
  <2>11. r.h = h2 /\ r.p = bp
    BY <2>1, <2>4, <2>5, <2>6
  <2> QED
    BY <1>5, <2>3, <2>5, <2>7, <2>8, <2>9, <2>10, <2>11
<1> QED
  BY <1>2, <1>3, <1>4, <1>5

\* mm_free gives up the block and no other.
LEMMA Free ==
  ASSUME NEW h, NEW S, Tiled(h, S), NEW ptr \in S, ptr # First, NEW h2, h2 = mm_free(h, ptr)
  PROVE  \E S2 : Tiled(h2, S2) /\ Kept(h, S, {ptr}, h2, S2)
<1> PICK size : size = Size(h, ptr)
  OBVIOUS
<1> PICK hi : hi = ptr + size
  OBVIOUS
<1> PICK free \in {0, 1} : free = 0
  OBVIOUS
<1> PICK S1 : S1 = Outside(S, ptr, hi)
  OBVIOUS
<1>1. PICK h1 : h1 = Tagged(h, ptr, size, free)
  OBVIOUS
<1>2. ptr \in Nat /\ size \in Nat /\ size >= 2 /\ size = hi - ptr
  BY Headers
<1>3. hi \in S \cup {h.brk} /\ ptr < hi /\ \A c \in S : c \in Inside(S, ptr, hi) => c = ptr
  BY OneBlock
<1>4. /\ Tiled(h1, S1) /\ h1.brk = h.brk /\ ptr \in S1 /\ ~Used(h1, ptr)
      /\ Kept(h, S, Inside(S, ptr, hi), h1, S1)
  BY <1>1, <1>2, <1>3, Merge
<1>5. Kept(h, S, {ptr}, h1, S1)
  <2>1. \A c \in S \cap Inside(S, ptr, hi) : Used(h, c) => c \in {ptr}
    BY <1>3
  <2> QED
    BY <1>4, <2>1, KeptMore
<1>6. PICK r : r = coalesce(h1, ptr)
  OBVIOUS
<1>7. h2 = r.h
  BY <1>1, <1>6 DEF mm_free, Size
<1>8. PICK S2 : Tiled(r.h, S2) /\ Kept(h1, S1, {}, r.h, S2)
  BY <1>4, <1>6, Coalesce
<1>9. Kept(h1, S1, {ptr}, r.h, S2)
  BY <1>8 DEF Kept
<1>10. Kept(h, S, {ptr}, r.h, S2)
  <2>1. h.brk \in Nat /\ h1.brk \in Nat /\ r.h.brk \in Nat
    BY <1>4, <1>8, Addresses
  <2> QED
    BY <1>5, <1>9, <2>1, KeptOn
<1> QED
  BY <1>7, <1>8, <1>10

\* What is written between the header and the footer of a block changes no tile.
LEMMA Written ==
  ASSUME NEW h, NEW S, Tiled(h, S), NEW bp \in S, NEW h2, Memory(h2),
         h2.brk = h.brk, h2.heap_listp = h.heap_listp,
         \A a \in Arena : a \notin bp .. (bp + Size(h, bp) - 3) => h2.mem[a] = h.mem[a]
  PROVE  /\ Tiled(h2, S) /\ Kept(h, S, {bp}, h2, S)
         /\ \A c \in S : Size(h2, c) = Size(h, c) /\ (Used(h2, c) <=> Used(h, c))
<1>1. /\ h.brk \in Nat /\ h.brk % 2 = 0 /\ h.brk <= Base + MAX_HEAP
      /\ \A c \in S \cup {h.brk} : c \in Nat /\ c % 2 = 0 /\ c >= First /\ c <= h.brk
  BY Addresses
<1>2. /\ bp \in Nat /\ Size(h, bp) \in Nat /\ Size(h, bp) >= 2 /\ bp + Size(h, bp) <= h.brk
  BY Headers
<1>3. ASSUME NEW c \in S
      PROVE  /\ h2.mem[c - 1] = h.mem[c - 1]
             /\ h2.mem[c + Size(h, c) - 2] = h.mem[c + Size(h, c) - 2]
             /\ c # bp => \A a \in c .. (c + Size(h, c) - 3) : h2.mem[a] = h.mem[a]
  <2>1. /\ c \in Nat /\ c - 1 \in Arena /\ Size(h, c) \in Nat /\ Size(h, c) >= 2
        /\ c + Size(h, c) - 2 \in Arena
    BY Headers
  <2>2. (c < bp => c + Size(h, c) <= bp) /\ (bp < c => bp + Size(h, bp) <= c)
    BY Disjoint
  <2>3. c - 1 \notin bp .. (bp + Size(h, bp) - 3) /\ c + Size(h, c) - 2 \notin bp .. (bp + Size(h, bp) - 3)
    BY <1>2, <2>1, <2>2
  <2>4. ASSUME c # bp, NEW a \in c .. (c + Size(h, c) - 3) PROVE h2.mem[a] = h.mem[a]
    <3>1. a \in Arena
      BY <2>1, MmbookAssumption DEF Arena, Base
    <3>2. a \notin bp .. (bp + Size(h, bp) - 3)
      BY <1>2, <2>1, <2>2, <2>4
    <3> QED
      BY <3>1, <3>2
  <2> QED
    BY <2>1, <2>3, <2>4
<1>4. ASSUME NEW c \in S PROVE Size(h2, c) = Size(h, c) /\ (Used(h2, c) <=> Used(h, c))
  BY <1>3 DEF Size, Used, GET_SIZE, GET_ALLOC, GET, HDRP, WSIZE, ALIGNMENT
<1>5. Tiled(h2, S)
  <2>1. h2.mem[h2.brk - 1] = 1
    <3>1. h.mem[h.brk - 1] = 1 /\ h.brk - 1 \in Arena
      BY <1>1, <1>2, MmbookAssumption, Headers DEF Tiled, Arena, First, Base, DSIZE
    <3>2. h.brk - 1 \notin bp .. (bp + Size(h, bp) - 3)
      BY <1>1, <1>2
    <3> QED
      BY <3>1, <3>2
  <2>2. \A c \in S : h2.mem[c + Size(h2, c) - 2] = h2.mem[c - 1]
    BY <1>3, <1>4, TileParts
  <2>3. First \in S /\ Used(h2, First)
    BY <1>4 DEF Tiled
  <2> QED
    BY <1>4, <2>1, <2>2, <2>3 DEF Tiled
<1>6. Kept(h, S, {bp}, h2, S)
  <2>1. h.brk <= h2.brk
    BY <1>1
  <2> QED
    BY <1>3, <1>4, <2>1 DEF Kept
<1> QED
  BY <1>4, <1>5, <1>6

\* memcpy writes len cells.
LEMMA Copied ==
  ASSUME NEW h, Memory(h), NEW to, NEW from, NEW len \in Nat, to \in Nat, from \in Nat,
         from >= Base, from + len <= Base + MAX_HEAP, NEW h2, h2 = memcpy(h, to, from, len)
  PROVE  /\ Memory(h2) /\ h2.brk = h.brk /\ h2.heap_listp = h.heap_listp
         /\ \A a \in Arena : a \notin to .. (to + len - 1) => h2.mem[a] = h.mem[a]
         /\ \A a \in Arena : a \in to .. (to + len - 1) => h2.mem[a] = h.mem[from + (a - to)]
<1> DEFINE new == [a \in Arena |-> IF a \in to .. (to + len - 1) THEN h.mem[from + (a - to)] ELSE h.mem[a]]
<1>1. DOMAIN h.mem = Arena /\ h.mem \in [Arena -> Nat]
  BY DEF Memory
<1>2. h2 = [h EXCEPT !.mem = new]
  BY <1>1 DEF memcpy
<1>3. ASSUME NEW a \in Arena, a \in to .. (to + len - 1) PROVE from + (a - to) \in Arena
  BY <1>3, MmbookAssumption DEF Arena, Base
<1>4. new \in [Arena -> Nat]
  BY <1>1, <1>3
<1>5. h2.mem = new /\ Memory(h2) /\ h2.brk = h.brk /\ h2.heap_listp = h.heap_listp
  BY <1>2, <1>4 DEF Memory
<1> QED
  BY <1>5

\* mm_realloc answers NULL and leaves the heap alone, or moves the payload to a
\* block that was not in use; the other blocks in use stay.
LEMMA Realloc ==
  ASSUME NEW h, NEW S, Tiled(h, S), NEW ptr \in S, ptr # First, Used(h, ptr),
         NEW size \in Nat, NEW r, r = mm_realloc(h, ptr, size)
  PROVE  \/ r = [h |-> h, p |-> NULL]
         \/ \E S2 : /\ size > 0 /\ Tiled(r.h, S2) /\ r.p \in S2 /\ r.p # First /\ Used(r.h, r.p)
                    /\ Size(r.h, r.p) >= size + 2 /\ Kept(h, S, {ptr}, r.h, S2)
                    /\ \A c \in S : Used(h, c) => c # r.p
                    /\ \A j \in 0 .. (size - 1) : j + 2 < Size(h, ptr) => r.h.mem[r.p + j] = h.mem[ptr + j]
<1>1. PICK new : new = mm_malloc(h, size)
  OBVIOUS
<1>2. CASE new = [h |-> h, p |-> NULL]
  BY <1>1, <1>2 DEF mm_realloc
<1>3. CASE new # [h |-> h, p |-> NULL]
  <2>1. PICK S1 : /\ size > 0 /\ Tiled(new.h, S1) /\ new.p \in S1 /\ new.p # First /\ Used(new.h, new.p)
                  /\ Size(new.h, new.p) >= size + 2 /\ Kept(h, S, {}, new.h, S1)
                  /\ \A c \in S : Used(h, c) => c # new.p
    BY <1>1, <1>3, Malloc
  <2>2. PICK h1 : h1 = new.h
    OBVIOUS
  <2>3. PICK p : p = new.p
    OBVIOUS
  <2>4. PICK old : old = Size(h, ptr)
    OBVIOUS
  <2>5. PICK len : len = IF size < old THEN size ELSE old
    OBVIOUS
  <2>6. PICK h2 : h2 = memcpy(h1, p, ptr, len)
    OBVIOUS
  <2>7. PICK h3 : h3 = mm_free(h2, ptr)
    OBVIOUS
  <2>8. p # NULL
    BY <2>1, <2>3, Headers DEF First, Base, DSIZE, NULL
  <2>9. r.h = h3 /\ r.p = p
    BY <1>1, <2>2, <2>3, <2>4, <2>5, <2>6, <2>7, <2>8 DEF mm_realloc, Size
  <2>10. /\ Tiled(h1, S1) /\ p \in S1 /\ p # First /\ Used(h1, p) /\ Size(h1, p) >= size + 2
         /\ Kept(h, S, {}, h1, S1) /\ p # ptr /\ Memory(h1)
    BY <2>1, <2>2, <2>3 DEF Tiled
  <2>11. /\ ptr \in S1 /\ Used(h1, ptr) /\ Size(h1, ptr) = old
         /\ \A a \in ptr .. (ptr + old - 3) : h1.mem[a] = h.mem[a]
    BY <2>4, <2>10 DEF Kept
  <2>12. /\ ptr \in Nat /\ old \in Nat /\ old >= 2 /\ ptr >= First /\ ptr + old <= h1.brk
         /\ h1.brk \in Nat /\ h1.brk <= Base + MAX_HEAP
         /\ p \in Nat /\ Size(h1, p) \in Nat /\ p >= First /\ p + Size(h1, p) <= h1.brk
    BY <2>10, <2>11, Headers, Addresses
  <2>13. len \in Nat /\ len <= size /\ len <= old
    BY <2>5, <2>12
  <2>14. /\ Memory(h2) /\ h2.brk = h1.brk /\ h2.heap_listp = h1.heap_listp
         /\ \A a \in Arena : a \notin p .. (p + len - 1) => h2.mem[a] = h1.mem[a]
         /\ \A a \in Arena : a \in p .. (p + len - 1) => h2.mem[a] = h1.mem[ptr + (a - p)]
    <3>1. ptr >= Base /\ ptr + len <= Base + MAX_HEAP
      BY <2>12, <2>13, MmbookAssumption DEF First, Base, DSIZE
    <3> QED
      BY <2>6, <2>10, <2>12, <2>13, <3>1, Copied
  <2>15. /\ Tiled(h2, S1) /\ Kept(h1, S1, {p}, h2, S1)
         /\ \A c \in S1 : Size(h2, c) = Size(h1, c) /\ (Used(h2, c) <=> Used(h1, c))
    <3>1. \A a \in Arena : a \notin p .. (p + Size(h1, p) - 3) => h2.mem[a] = h1.mem[a]
      <4>1. p + len - 1 <= p + Size(h1, p) - 3
        BY <2>10, <2>12, <2>13
      <4>2. \A a \in Arena : a \notin p .. (p + Size(h1, p) - 3) => a \notin p .. (p + len - 1)
        BY <4>1, <2>12, <2>13
      <4> QED
        BY <4>2, <2>14
    <3> QED
      BY <2>10, <2>14, <3>1, Written
  <2>16. PICK S2 : Tiled(h3, S2) /\ Kept(h2, S1, {ptr}, h3, S2)
    <3>1. ptr # First
      OBVIOUS
    <3> QED
      BY <2>7, <2>11, <2>15, <3>1, Free
  <2>17. /\ p \in S2 /\ Used(h3, p) /\ Size(h3, p) = Size(h1, p)
         /\ \A a \in p .. (p + Size(h1, p) - 3) : h3.mem[a] = h2.mem[a]
    BY <2>10, <2>15, <2>16 DEF Kept
  <2>18. ASSUME NEW j \in 0 .. (size - 1), j + 2 < old PROVE h3.mem[p + j] = h.mem[ptr + j]
    <3>1. j < len /\ j \in Nat
      BY <2>5, <2>12, <2>18
    <3>2. p + j \in p .. (p + Size(h1, p) - 3) /\ p + j \in p .. (p + len - 1) /\ p + j \in Arena
      BY <3>1, <2>10, <2>12, <2>13, MmbookAssumption DEF Arena, First, Base, DSIZE
    <3>3. h3.mem[p + j] = h1.mem[ptr + ((p + j) - p)]
      BY <3>2, <2>14, <2>17
    <3>4. ptr + ((p + j) - p) = ptr + j /\ ptr + j \in ptr .. (ptr + old - 3)
      BY <3>1, <2>12, <2>18
    <3> QED
      BY <3>3, <3>4, <2>11
  <2>19. Kept(h, S, {ptr}, h3, S2)
    <3>1. h.brk <= h3.brk
      <4>1. h.brk <= h1.brk /\ h1.brk = h2.brk /\ h2.brk <= h3.brk
        BY <2>10, <2>14, <2>15, <2>16 DEF Kept
      <4>2. h.brk \in Nat /\ h1.brk \in Nat /\ h3.brk \in Nat
        BY <2>10, <2>16, Addresses
      <4> QED
        BY <4>1, <4>2
    <3>2. ASSUME NEW c \in S \ {ptr}, Used(h, c)
          PROVE  /\ c \in S2 /\ Used(h3, c) /\ Size(h3, c) = Size(h, c)
                 /\ \A a \in c .. (c + Size(h, c) - 3) : h3.mem[a] = h.mem[a]
      <4>1. /\ c \in S1 /\ Used(h1, c) /\ Size(h1, c) = Size(h, c)
            /\ \A a \in c .. (c + Size(h, c) - 3) : h1.mem[a] = h.mem[a]
        BY <3>2, <2>10 DEF Kept
      <4>2. c # p
        BY <3>2, <2>1, <2>3
      <4>3. /\ Used(h2, c) /\ Size(h2, c) = Size(h, c)
            /\ \A a \in c .. (c + Size(h, c) - 3) : h2.mem[a] = h.mem[a]
        BY <4>1, <4>2, <2>15 DEF Kept
      <4> QED
        BY <3>2, <4>1, <4>3, <2>16 DEF Kept
    <3> QED
      BY <3>1, <3>2 DEF Kept
  <2> QED
    <3>1. Size(r.h, r.p) >= size + 2 /\ \A c \in S : Used(h, c) => c # r.p
      BY <2>1, <2>3, <2>9, <2>10, <2>17
    <3>2. \A j \in 0 .. (size - 1) : j + 2 < Size(h, ptr) => r.h.mem[r.p + j] = h.mem[ptr + j]
      BY <2>4, <2>9, <2>18
    <3> QED
      BY <2>1, <2>9, <2>10, <2>16, <2>17, <2>19, <3>1, <3>2
<1> QED
  BY <1>2, <1>3

\* mm_init fails, or makes the prologue and a free block.
LEMMA InitHeap ==
  ASSUME NEW h, Memory(h), h.brk = Base, NEW r, r = mm_init(h)
  PROVE  Memory(r.h) /\ (r.p = -1 \/ (r.p = 0 /\ \E S : Tiled(r.h, S)))
<1>1. CASE Base + 4 > Base + MAX_HEAP
  <2>1. mem_sbrk(h, 4 * WSIZE).p = -1
    BY <1>1 DEF mem_sbrk, WSIZE
  <2> QED
    BY <2>1 DEF mm_init
<1>2. CASE ~(Base + 4 > Base + MAX_HEAP)
  <2>1. MAX_HEAP \in Nat /\ MAX_HEAP >= 4 /\ Arena = 2 .. (MAX_HEAP + 1)
    BY <1>2, MmbookAssumption DEF Arena, Base
  <2>2. PICK g : g = [h EXCEPT !.brk = @ + 4]
    OBVIOUS
  <2>3. g.mem = h.mem /\ g.brk = 6 /\ Memory(g)
    BY <2>2 DEF Memory, Base
  <2>4. mem_sbrk(h, 4 * WSIZE) = [h |-> g, p |-> 2]
    BY <1>2, <2>2 DEF mem_sbrk, WSIZE, Base
  <2>5. PICK e : e = PUT(PUT(PUT(PUT(g, 2, 0), 2 + 1, PACK(DSIZE, 1)), 2 + 2, PACK(DSIZE, 1)), 2 + 3, PACK(0, 1))
    OBVIOUS
  <2>6. /\ Memory(e) /\ e.brk = 6 /\ e.mem[3] = 3 /\ e.mem[4] = 3 /\ e.mem[5] = 1
    <3>1. PACK(DSIZE, 1) = 3 /\ PACK(0, 1) = 1
      BY DEF PACK, DSIZE
    <3>2. e = PUT(PUT(PUT(PUT(g, 2, 0), 3, 3), 4, 3), 5, 1)
      BY <2>5, <3>1
    <3>3. 2 \in Arena /\ 3 \in Arena /\ 4 \in Arena /\ 5 \in Arena
      BY <2>1
    <3>4. PICK e1 : e1 = PUT(g, 2, 0)
      OBVIOUS
    <3>5. PICK e2 : e2 = PUT(e1, 3, 3)
      OBVIOUS
    <3>6. PICK e3 : e3 = PUT(e2, 4, 3)
      OBVIOUS
    <3>7. e = PUT(e3, 5, 1)
      BY <3>2, <3>4, <3>5, <3>6
    <3>8. Memory(e1) /\ e1.brk = 6
      BY <2>3, <3>3, <3>4 DEF PUT, Memory
    <3>9. Memory(e2) /\ e2.brk = 6 /\ e2.mem[3] = 3
      BY <3>3, <3>5, <3>8 DEF PUT, Memory
    <3>10. Memory(e3) /\ e3.brk = 6 /\ e3.mem = [e2.mem EXCEPT ![4] = 3] /\ e2.mem \in [Arena -> Nat]
      BY <3>3, <3>6, <3>9 DEF PUT, Memory
    <3>11. Memory(e) /\ e.brk = 6 /\ e.mem = [e3.mem EXCEPT ![5] = 1] /\ e3.mem \in [Arena -> Nat]
      BY <3>3, <3>7, <3>10 DEF PUT, Memory
    <3> QED
      BY <3>3, <3>9, <3>10, <3>11
  <2>7. PICK h1 : h1 = [e EXCEPT !.heap_listp = 2 + 2 * WSIZE]
    OBVIOUS
  <2>8. /\ Memory(h1) /\ h1.brk = 6 /\ h1.heap_listp = 4 /\ h1.mem[3] = 3 /\ h1.mem[4] = 3 /\ h1.mem[5] = 1
    BY <2>6, <2>7 DEF Memory, WSIZE
  <2>9. Size(h1, 4) = 2 /\ Used(h1, 4) /\ First = 4
    BY <2>8 DEF Size, Used, GET_SIZE, GET_ALLOC, GET, HDRP, WSIZE, ALIGNMENT, First, Base, DSIZE
  <2>10. Tiled(h1, {4})
    BY <2>1, <2>8, <2>9 DEF Tiled, Base
  <2>11. PICK grown : grown = extend_heap(h1, CHUNKSIZE)
    OBVIOUS
  <2>12. r = [h |-> grown.h, p |-> IF grown.p = NULL THEN -1 ELSE 0]
    BY <2>4, <2>5, <2>7, <2>11 DEF mm_init
  <2>13. grown = [h |-> h1, p |-> NULL] \/ \E S2 : Tiled(grown.h, S2) /\ grown.p \in S2
    BY <2>10, <2>11, MmbookAssumption, ExtendHeap
  <2>14. CASE grown = [h |-> h1, p |-> NULL]
    BY <2>8, <2>12, <2>14
  <2>15. CASE \E S2 : Tiled(grown.h, S2) /\ grown.p \in S2
    <3>1. PICK S2 : Tiled(grown.h, S2) /\ grown.p \in S2
      BY <2>15
    <3>2. grown.p # NULL
      <4>1. grown.p >= First /\ grown.p \in Nat
        BY <3>1, Headers
      <4> QED
        BY <4>1 DEF First, Base, DSIZE, NULL
    <3>3. Memory(grown.h)
      BY <3>1 DEF Tiled
    <3> QED
      BY <2>12, <3>1, <3>2, <3>3
  <2> QED
    BY <2>13, <2>14, <2>15
<1> QED
  BY <1>1, <1>2

-----------------------------------------------------------------------------
(* Traces. *)

Requests == Seq([type : STRING, index : Nat, size : Nat])
Sets(request) == IF request.type = "f" THEN 0 ELSE request.size

\* The last request for an index gives its size.
LEMMA SizeStep ==
  ASSUME NEW ops \in Requests, NEW k \in 1 .. Len(ops), NEW index
  PROVE  SizeIn(ops, k, index) = IF ops[k].index = index THEN Sets(ops[k]) ELSE SizeIn(ops, k - 1, index)
<1> DEFINE of(n) == {j \in 1 .. n : ops[j].index = index}
           last(n) == CHOOSE j \in of(n) : \A l \in of(n) : l <= j
<1>1. \A n : SizeIn(ops, n, index) =
               IF of(n) = {} THEN 0 ELSE IF ops[last(n)].type = "f" THEN 0 ELSE ops[last(n)].size
  BY DEF SizeIn
<1>2. k \in Nat \ {0}
  OBVIOUS
<1>3. CASE ops[k].index = index
  <2>1. k \in of(k) /\ \A l \in of(k) : l <= k
    BY <1>2, <1>3
  <2>2. last(k) \in of(k) /\ \A l \in of(k) : l <= last(k)
    BY <2>1
  <2>3. last(k) = k
    BY <2>1, <2>2
  <2> HIDE DEF last, of
  <2> QED
    BY <1>1, <1>3, <2>1, <2>3 DEF Sets
<1>4. CASE ops[k].index # index
  <2>1. of(k) = of(k - 1)
    BY <1>2, <1>4
  <2> HIDE DEF of
  <2> QED
    BY <1>1, <1>4, <2>1
<1> QED
  BY <1>3, <1>4

\* Before the first request every size is 0.
LEMMA NoSize ==
  ASSUME NEW ops \in Requests, NEW index
  PROVE  SizeIn(ops, 0, index) = 0
BY DEF SizeIn

\* A size is a number, that of a request for the index when it is not 0.
LEMMA SizeOf ==
  ASSUME NEW ops \in Requests, NEW n \in 0 .. Len(ops), NEW index
  PROVE  /\ SizeIn(ops, n, index) \in Nat
         /\ SizeIn(ops, n, index) > 0 => \E j \in DOMAIN ops : ops[j].index = index /\ ops[j].type # "f"
<1> DEFINE P(k) == /\ SizeIn(ops, k, index) \in Nat
                   /\ SizeIn(ops, k, index) > 0 =>
                        \E j \in DOMAIN ops : ops[j].index = index /\ ops[j].type # "f"
           Bad == {k \in 0 .. Len(ops) : ~P(k)}
<1>1. Len(ops) \in Nat /\ DOMAIN ops = 1 .. Len(ops)
      /\ \A k \in 1 .. Len(ops) : ops[k] \in [type : STRING, index : Nat, size : Nat]
  BY LenProperties, ElementOfSeq DEF Requests
<1>2. Bad = {}
  <2> SUFFICES ASSUME Bad # {} PROVE FALSE
    OBVIOUS
  <2>1. PICK k \in Bad : \A j \in Bad : k <= j
    <3>1. Bad \in SUBSET Nat
      OBVIOUS
    <3> HIDE DEF Bad
    <3> QED
      BY <3>1, LeastOfSet
  <2>2. k \in 0 .. Len(ops) /\ ~P(k)
    BY <2>1
  <2>3. k # 0
    BY <2>2, NoSize
  <2>4. k \in 1 .. Len(ops) /\ k - 1 \in 0 .. Len(ops) /\ ~(k <= k - 1)
    BY <1>1, <2>2, <2>3
  <2>5. P(k - 1)
    <3>1. k - 1 \notin Bad
      BY <2>1, <2>4
    <3> QED
      BY <2>4, <3>1
  <2>6. SizeIn(ops, k, index) = IF ops[k].index = index THEN Sets(ops[k]) ELSE SizeIn(ops, k - 1, index)
    BY <2>4, SizeStep
  <2>7. Sets(ops[k]) \in Nat /\ (Sets(ops[k]) > 0 => ops[k].type # "f")
    BY <1>1, <2>4 DEF Sets
  <2> QED
    BY <1>1, <2>2, <2>4, <2>5, <2>6, <2>7
<1> QED
  BY <1>2

\* A trace file that is read.
Readable(file) == TraceFile(file) /\ read_trace(file) = "read"

IdsIn(file) == 0 .. (file.num_ids - 1)
LiveIn(file, k) == {index \in IdsIn(file) : SizeIn(file.ops, k, index) > 0}

\* read_trace reads the file, exits or aborts.
LEMMA ReadOrNot ==
  ASSUME NEW file
  PROVE  read_trace(file) \in {"read", "exit", "aborted"}
BY DEF read_trace

\* The requests of a file that read_trace accepts.
LEMMA ReadableParts ==
  ASSUME NEW file, Readable(file)
  PROVE  /\ file.ops \in Requests /\ file.num_ids \in Nat /\ Len(file.ops) \in Nat
         /\ DOMAIN file.ops = 1 .. Len(file.ops)
         /\ \A k \in 1 .. Len(file.ops) :
              /\ file.ops[k] \in [type : STRING, index : Nat, size : Nat]
              /\ file.ops[k].type \in {"a", "r", "f"}
              /\ file.ops[k].type # "f" => file.ops[k].index \in IdsIn(file)
<1>1. file.ops \in Requests /\ file.num_ids \in Nat
  BY DEF Readable, TraceFile, Requests
<1>2. Len(file.ops) \in Nat /\ DOMAIN file.ops = 1 .. Len(file.ops)
      /\ \A k \in 1 .. Len(file.ops) : file.ops[k] \in [type : STRING, index : Nat, size : Nat]
  BY <1>1, LenProperties, ElementOfSeq DEF Requests
<1> DEFINE named == {0} \cup {file.ops[k].index : k \in {j \in DOMAIN file.ops : file.ops[j].type # "f"}}
<1>3. /\ \A k \in DOMAIN file.ops : file.ops[k].type \in {"a", "r", "f"}
      /\ \A j \in named : ~(j > file.num_ids - 1)
  BY DEF Readable, read_trace
<1>4. ASSUME NEW k \in 1 .. Len(file.ops), file.ops[k].type # "f"
      PROVE  file.ops[k].index \in IdsIn(file)
  <2>1. file.ops[k].index \in named /\ file.ops[k].index \in Nat
    BY <1>2, <1>4
  <2> HIDE DEF named
  <2> QED
    BY <1>1, <1>3, <2>1 DEF IdsIn
<1> QED
  BY <1>1, <1>2, <1>3, <1>4

Less(live, index) == live \ {index}
More(live, index) == live \cup {index}

\* The indexes with a payload, before and after a request.
Moves(live, live2, request) ==
  live2 = IF Sets(request) > 0 THEN More(live, request.index) ELSE Less(live, request.index)

Resizes(ops, k, request) ==
  \A j : SizeIn(ops, k, j) = IF j = request.index THEN Sets(request) ELSE SizeIn(ops, k - 1, j)

\* What the k-th request does to the sizes.
LEMMA RequestStep ==
  ASSUME NEW file, Readable(file), NEW k \in 1 .. Len(file.ops), NEW request, request = file.ops[k]
  PROVE  /\ request.index \in IdsIn(file) /\ request.size \in Nat
         /\ request.type \in {"a", "r", "f"} /\ k - 1 \in 0 .. Len(file.ops) /\ k \in 0 .. Len(file.ops)
         /\ request.type = "a" => request.index \notin LiveIn(file, k - 1)
         /\ request.type = "r" => request.index \in LiveIn(file, k - 1) /\ request.size > 0
         /\ request.type = "f" => request.index \in LiveIn(file, k - 1)
         /\ Resizes(file.ops, k, request)
         /\ Moves(LiveIn(file, k - 1), LiveIn(file, k), request)
         /\ Sets(request) \in Nat
<1>1. /\ file.ops \in Requests /\ file.num_ids \in Nat /\ Len(file.ops) \in Nat
      /\ DOMAIN file.ops = 1 .. Len(file.ops)
      /\ request \in [type : STRING, index : Nat, size : Nat]
      /\ request.type \in {"a", "r", "f"}
      /\ \A j \in DOMAIN file.ops : file.ops[j].type # "f" => file.ops[j].index \in IdsIn(file)
  BY ReadableParts
<1>2. k - 1 \in 0 .. Len(file.ops) /\ k \in 0 .. Len(file.ops)
  BY <1>1
<1>3. SizeIn(file.ops, k - 1, request.index) \in Nat
  BY <1>1, <1>2, SizeOf
<1>4. LET size == SizeIn(file.ops, k - 1, request.index) IN
        /\ request.type = "a" => size = 0
        /\ request.type = "r" => size > 0 /\ request.size > 0
        /\ request.type = "f" => size > 0
  BY <1>1 DEF Readable, TraceFile, Balanced
<1>5. request.index \in IdsIn(file)
  <2>1. CASE request.type = "f"
    <3> PICK index : index = request.index
      OBVIOUS
    <3> PICK ops \in Requests : ops = file.ops
      BY <1>1
    <3> PICK n \in 0 .. Len(ops) : n = k - 1
      BY <1>2
    <3>2. SizeIn(ops, n, index) > 0
      BY <1>4, <2>1
    <3>3. \E j \in DOMAIN ops : ops[j].index = index /\ ops[j].type # "f"
      BY ONLY ops \in Requests, n \in 0 .. Len(ops), <3>2, SizeOf
    <3>1. \E j \in DOMAIN file.ops : file.ops[j].index = request.index /\ file.ops[j].type # "f"
      BY <3>3
    <3> QED
      BY <1>1, <3>1
  <2>2. CASE request.type # "f"
    BY <1>1, <2>2
  <2> QED
    BY <2>1, <2>2
<1>6. \A j : SizeIn(file.ops, k, j) = IF j = request.index THEN Sets(request) ELSE SizeIn(file.ops, k - 1, j)
  BY <1>1, SizeStep
<1>7. Moves(LiveIn(file, k - 1), LiveIn(file, k), request)
  <2>1. LiveIn(file, k) = IF Sets(request) > 0 THEN More(LiveIn(file, k - 1), request.index)
                          ELSE Less(LiveIn(file, k - 1), request.index)
    BY <1>5, <1>6 DEF LiveIn, Less, More
  <2> QED
    BY <2>1 DEF Moves
<1>8. Sets(request) \in Nat
  BY <1>1 DEF Sets
<1>9. /\ request.type = "a" => request.index \notin LiveIn(file, k - 1)
      /\ request.type = "r" => request.index \in LiveIn(file, k - 1) /\ request.size > 0
      /\ request.type = "f" => request.index \in LiveIn(file, k - 1)
  BY <1>1, <1>3, <1>4, <1>5 DEF LiveIn
<1>10. Resizes(file.ops, k, request)
  BY <1>6 DEF Resizes
<1> QED
  BY <1>1, <1>2, <1>5, <1>7, <1>8, <1>9, <1>10

\* The live indices are finitely many, and their sizes are positive.
LEMMA LiveSizes ==
  ASSUME NEW file, Readable(file), NEW k \in 0 .. Len(file.ops)
  PROVE  /\ \A j : SizeIn(file.ops, k, j) \in Nat
         /\ \A j \in LiveIn(file, k) : j \in IdsIn(file) /\ SizeIn(file.ops, k, j) \in Nat \ {0}
         /\ LiveIn(file, 0) = {}
         /\ IsFiniteSet(LiveIn(file, k)) /\ IsFiniteSet(IdsIn(file))
<1>1. file.ops \in Requests /\ file.num_ids \in Nat
  BY ReadableParts
<1>2. \A j : SizeIn(file.ops, k, j) \in Nat
  BY <1>1, SizeOf
<1>3. \A j \in LiveIn(file, k) : j \in IdsIn(file) /\ SizeIn(file.ops, k, j) \in Nat \ {0}
  BY <1>2 DEF LiveIn
<1>4. LiveIn(file, 0) = {}
  BY <1>1, NoSize DEF LiveIn
<1>5. IsFiniteSet(IdsIn(file))
  <2>1. 0 \in Int /\ file.num_ids - 1 \in Int
    BY <1>1
  <2> QED
    BY <2>1, FS_Interval DEF IdsIn
<1>6. IsFiniteSet(LiveIn(file, k))
  BY <1>3, <1>5, FS_Subset
<1> QED
  BY <1>2, <1>3, <1>4, <1>5, <1>6

-----------------------------------------------------------------------------
(* The list of payloads. *)

Range1 == {e \in [lo : Int, hi : Int] : e.lo <= e.hi}
Entries(list) == {list[k] : k \in DOMAIN list}
Distinct(list) == \A k, l \in DOMAIN list : k # l => list[k].lo # list[l].lo

\* A payload that is accepted has its ends in the heap and in no other payload.
LEMMA AddRange ==
  ASSUME NEW list \in Seq(Range1), Distinct(list), NEW lo \in Int, NEW size \in Nat \ {0}, NEW h,
         h.brk \in Int, NEW r, r = add_range(list, lo, size, h), r.ok,
         NEW e, e = [lo |-> lo, hi |-> lo + size - 1]
  PROVE  /\ r.list \in Seq(Range1) /\ Distinct(r.list) /\ Len(r.list) = Len(list) + 1
         /\ Entries(r.list) = Entries(list) \cup {e}
         /\ lo % 2 = 0 /\ Base <= lo /\ lo + size <= h.brk
         /\ \A f \in Entries(list) : /\ ~(lo >= f.lo /\ lo <= f.hi)
                                     /\ ~(lo + size - 1 >= f.lo /\ lo + size - 1 <= f.hi)
<1>1. /\ lo % 2 = 0 /\ Base <= lo /\ lo + size - 1 <= h.brk - 1
      /\ \A k \in DOMAIN list : /\ ~(lo >= list[k].lo /\ lo <= list[k].hi)
                                /\ ~(lo + size - 1 >= list[k].lo /\ lo + size - 1 <= list[k].hi)
      /\ r.list = <<e>> \o list
  BY DEF add_range, ALIGNMENT, mem_heap_hi
<1>2. lo + size <= h.brk /\ e \in Range1
  BY <1>1 DEF Range1, Base
<1>3. Len(list) \in Nat /\ DOMAIN list = 1 .. Len(list) /\ \A k \in DOMAIN list : list[k] \in Range1
  BY LenProperties, ElementOfSeq
<1>4. <<e>> \in Seq(Range1) /\ Len(<<e>>) = 1 /\ <<e>>[1] = e
  BY <1>2
<1>5. /\ r.list \in Seq(Range1) /\ Len(r.list) = Len(list) + 1
      /\ \A k \in 1 .. (Len(list) + 1) : r.list[k] = IF k <= 1 THEN <<e>>[k] ELSE list[k - 1]
  <2> PICK one : one = <<e>>
    OBVIOUS
  <2>1. one \in Seq(Range1) /\ Len(one) = 1 /\ r.list = one \o list
    BY <1>1, <1>4
  <2>2. /\ one \o list \in Seq(Range1) /\ Len(one \o list) = Len(one) + Len(list)
        /\ \A i \in 1 .. Len(one) + Len(list) :
             (one \o list)[i] = IF i <= Len(one) THEN one[i] ELSE list[i - Len(one)]
    BY <2>1, ConcatProperties
  <2> QED
    BY <1>3, <2>1, <2>2
<1>6. DOMAIN r.list = 1 .. (Len(list) + 1)
  BY <1>5, LenProperties
<1>7. /\ r.list[1] = e
      /\ \A k \in DOMAIN list : k + 1 \in DOMAIN r.list /\ r.list[k + 1] = list[k]
      /\ \A k \in DOMAIN r.list : k # 1 => k - 1 \in DOMAIN list /\ r.list[k] = list[k - 1]
  <2> PICK new : new = r.list
    OBVIOUS
  <2> PICK n \in Nat : n = Len(list)
    BY <1>3
  <2>1. /\ DOMAIN new = 1 .. (n + 1) /\ DOMAIN list = 1 .. n
        /\ \A k \in 1 .. (n + 1) : new[k] = IF k <= 1 THEN <<e>>[k] ELSE list[k - 1]
        /\ <<e>>[1] = e
    BY <1>3, <1>4, <1>5, <1>6
  <2>2. new[1] = e
    BY ONLY <2>1, n \in Nat
  <2>3. \A k \in 1 .. n : k + 1 \in 1 .. (n + 1) /\ new[k + 1] = list[k]
    <3> SUFFICES ASSUME NEW k \in 1 .. n PROVE k + 1 \in 1 .. (n + 1) /\ new[k + 1] = list[k]
      OBVIOUS
    <3>1. k + 1 \in 1 .. (n + 1) /\ ~(k + 1 <= 1) /\ (k + 1) - 1 = k
      BY ONLY k \in 1 .. n, n \in Nat
    <3> QED
      BY <2>1, <3>1
  <2>4. \A k \in 1 .. (n + 1) : k # 1 => k - 1 \in 1 .. n /\ new[k] = list[k - 1]
    <3> SUFFICES ASSUME NEW k \in 1 .. (n + 1), k # 1 PROVE k - 1 \in 1 .. n /\ new[k] = list[k - 1]
      OBVIOUS
    <3>1. k - 1 \in 1 .. n /\ ~(k <= 1)
      BY ONLY k \in 1 .. (n + 1), k # 1, n \in Nat
    <3> QED
      BY <2>1, <3>1
  <2> QED
    BY <2>1, <2>2, <2>3, <2>4
<1>8. Entries(r.list) = Entries(list) \cup {e}
  <2>1. 1 \in DOMAIN r.list
    BY <1>3, <1>6
  <2>2. ASSUME NEW x \in Entries(r.list) PROVE x \in Entries(list) \cup {e}
    <3>1. PICK k \in DOMAIN r.list : x = r.list[k]
      BY DEF Entries
    <3> QED
      BY <1>7, <3>1 DEF Entries
  <2>3. ASSUME NEW x \in Entries(list) PROVE x \in Entries(r.list)
    <3>1. PICK k \in DOMAIN list : x = list[k]
      BY DEF Entries
    <3> QED
      BY <1>7, <3>1 DEF Entries
  <2>4. e \in Entries(r.list)
    BY <1>7, <2>1 DEF Entries
  <2> QED
    BY <2>2, <2>3, <2>4
<1>9. Distinct(r.list)
  <2>1. \A k \in DOMAIN list : list[k].lo # lo
    BY <1>1, <1>3 DEF Range1
  <2>2. ASSUME NEW k \in DOMAIN r.list, NEW l \in DOMAIN r.list, k # l PROVE r.list[k].lo # r.list[l].lo
    <3>1. k = 1 => r.list[k].lo = lo /\ l # 1 /\ l - 1 \in DOMAIN list /\ r.list[l] = list[l - 1]
      BY <1>7, <2>2
    <3>2. l = 1 => r.list[l].lo = lo /\ k # 1 /\ k - 1 \in DOMAIN list /\ r.list[k] = list[k - 1]
      BY <1>7, <2>2
    <3>3. CASE k # 1 /\ l # 1
      <4>1. k - 1 \in DOMAIN list /\ l - 1 \in DOMAIN list /\ k - 1 # l - 1
            /\ r.list[k] = list[k - 1] /\ r.list[l] = list[l - 1]
        <5>1. k \in Int /\ l \in Int
          BY <1>6
        <5>2. k - 1 # l - 1
          BY <2>2, <5>1
        <5> QED
          BY <1>7, <3>3, <5>2
      <4> QED
        BY <4>1 DEF Distinct
    <3> QED
      BY <2>1, <3>1, <3>2, <3>3
  <2> QED
    BY <2>2 DEF Distinct
<1>10. \A f \in Entries(list) : /\ ~(lo >= f.lo /\ lo <= f.hi)
                                /\ ~(lo + size - 1 >= f.lo /\ lo + size - 1 <= f.hi)
  BY <1>1 DEF Entries
<1> QED
  BY <1>1, <1>2, <1>5, <1>8, <1>9, <1>10

\* A payload that is not accepted is not aligned, not in the heap, or has an end in another.
LEMMA RefusedRange ==
  ASSUME NEW list, NEW lo, NEW size, NEW h, NEW r, r = add_range(list, lo, size, h), ~r.ok
  PROVE  \/ lo % 2 # 0
         \/ ~(Base <= lo /\ lo <= h.brk - 1 /\ Base <= lo + size - 1 /\ lo + size - 1 <= h.brk - 1)
         \/ \E f \in Entries(list) : \/ lo >= f.lo /\ lo <= f.hi
                                     \/ lo + size - 1 >= f.lo /\ lo + size - 1 <= f.hi
BY DEF add_range, ALIGNMENT, mem_heap_hi, Entries

\* The record that begins at lo goes, and no other.
LEMMA RemoveRange ==
  ASSUME NEW list \in Seq(Range1), Distinct(list), NEW e \in Entries(list), NEW lo, lo = e.lo,
         NEW list2, list2 = remove_range(list, lo)
  PROVE  /\ list2 \in Seq(Range1) /\ Distinct(list2) /\ Len(list2) = Len(list) - 1
         /\ Entries(list2) = Entries(list) \ {e}
<1>1. Len(list) \in Nat /\ DOMAIN list = 1 .. Len(list) /\ \A k \in DOMAIN list : list[k] \in Range1
  BY LenProperties, ElementOfSeq
<1>2. PICK i \in DOMAIN list : list[i] = e
  BY DEF Entries
<1>3. \A k \in DOMAIN list : k # i => list[k].lo # lo
  BY <1>2 DEF Distinct
<1>4. i \in 1 .. Len(list) /\ i \in Nat
  BY <1>1
<1>5. list2 = RemoveAt(list, i)
  <2> DEFINE found == {k \in DOMAIN list : list[k].lo = lo}
             first == CHOOSE k \in found : \A j \in found : k <= j
  <2>1. found = {i}
    BY <1>2, <1>3
  <2>2. first = i
    <3>1. i \in found /\ \A j \in found : i <= j
      BY <2>1, <1>4
    <3>2. first \in found
      BY <3>1
    <3> HIDE DEF first, found
    <3> QED
      BY <2>1, <3>2
  <2>3. list2 = IF found = {} THEN list ELSE RemoveAt(list, first)
    BY DEF remove_range
  <2> HIDE DEF first, found
  <2> QED
    BY <2>1, <2>2, <2>3
<1> PICK n : n = Len(list)
  OBVIOUS
<1>6. PICK s : s = SubSeq(list, 1, i - 1)
  OBVIOUS
<1>7. PICK t : t = SubSeq(list, i + 1, n)
  OBVIOUS
<1>8. s \in Seq(Range1) /\ Len(s) = i - 1 /\ \A k \in 1 .. (i - 1) : s[k] = list[k]
  BY <1>1, <1>4, <1>6
<1>9. t \in Seq(Range1) /\ Len(t) = n - i /\ \A k \in 1 .. (n - i) : t[k] = list[i + k]
  BY <1>1, <1>4, <1>7
<1>10. list2 = s \o t
  BY <1>5, <1>6, <1>7 DEF RemoveAt
<1>11. /\ list2 \in Seq(Range1) /\ Len(list2) = n - 1
       /\ \A k \in 1 .. (n - 1) : list2[k] = IF k < i THEN list[k] ELSE list[k + 1]
  <2>1. /\ s \o t \in Seq(Range1) /\ Len(s \o t) = Len(s) + Len(t)
        /\ \A k \in 1 .. Len(s) + Len(t) : (s \o t)[k] = IF k <= Len(s) THEN s[k] ELSE t[k - Len(s)]
    BY <1>8, <1>9, ConcatProperties
  <2>2. Len(s) + Len(t) = n - 1
    BY <1>1, <1>4, <1>8, <1>9
  <2>3. ASSUME NEW k \in 1 .. (n - 1) PROVE list2[k] = IF k < i THEN list[k] ELSE list[k + 1]
    <3>1. list2[k] = IF k <= i - 1 THEN s[k] ELSE t[k - (i - 1)]
      BY <1>8, <1>10, <2>1, <2>2
    <3>2. CASE k < i
      BY <1>4, <1>8, <3>1, <3>2
    <3>3. CASE ~(k < i)
      <4>1. k - (i - 1) \in 1 .. (n - i) /\ i + (k - (i - 1)) = k + 1
        BY <1>1, <1>4, <3>3
      <4>2. t[k - (i - 1)] = list[k + 1]
        BY <1>9, <4>1
      <4> QED
        BY <1>4, <3>1, <3>3, <4>2
    <3> QED
      BY <3>2, <3>3
  <2> QED
    BY <1>10, <2>1, <2>2, <2>3
<1>12. DOMAIN list2 = 1 .. (n - 1)
  BY <1>11, LenProperties
<1>13. /\ \A k \in DOMAIN list2 : \E j \in DOMAIN list \ {i} : list2[k] = list[j] /\ j = IF k < i THEN k ELSE k + 1
       /\ \A j \in DOMAIN list \ {i} : \E k \in DOMAIN list2 : list2[k] = list[j]
  <2>1. ASSUME NEW k \in DOMAIN list2
        PROVE  \E j \in DOMAIN list \ {i} : list2[k] = list[j] /\ j = IF k < i THEN k ELSE k + 1
    <3>1. k \in 1 .. (n - 1) /\ i \in 1 .. n /\ n \in Nat /\ DOMAIN list = 1 .. n
      BY <1>1, <1>4, <1>12
    <3> PICK j : j = IF k < i THEN k ELSE k + 1
      OBVIOUS
    <3>2. j \in 1 .. n /\ j # i
      BY ONLY <3>1, j = IF k < i THEN k ELSE k + 1
    <3>3. list2[k] = list[j]
      BY <1>11, <3>1
    <3> QED
      BY <3>1, <3>2, <3>3
  <2>2. ASSUME NEW j \in DOMAIN list \ {i} PROVE \E k \in DOMAIN list2 : list2[k] = list[j]
    <3>1. CASE j < i
      <4>1. j \in 1 .. n /\ i \in 1 .. n /\ n \in Nat /\ DOMAIN list2 = 1 .. (n - 1)
        BY <1>1, <1>4, <1>12
      <4>2. j \in 1 .. (n - 1)
        BY ONLY <3>1, <4>1
      <4>3. list2[j] = list[j]
        BY <1>11, <3>1, <4>2
      <4> QED
        BY <4>1, <4>2, <4>3
    <3>2. CASE j > i
      <4>1. j - 1 \in DOMAIN list2 /\ ~(j - 1 < i) /\ (j - 1) + 1 = j
        BY <1>1, <1>4, <1>12, <3>2
      <4> QED
        BY <1>11, <1>12, <4>1
    <3> QED
      BY <1>1, <1>4, <3>1, <3>2
  <2> QED
    BY <2>1, <2>2
<1>14. Distinct(list2)
  <2>1. ASSUME NEW k \in DOMAIN list2, NEW l \in DOMAIN list2, k # l PROVE list2[k].lo # list2[l].lo
    <3>1. PICK j \in DOMAIN list \ {i} : list2[k] = list[j] /\ j = IF k < i THEN k ELSE k + 1
      BY <1>13
    <3>2. PICK m \in DOMAIN list \ {i} : list2[l] = list[m] /\ m = IF l < i THEN l ELSE l + 1
      BY <1>13
    <3>3. j # m
      BY <1>4, <1>12, <2>1, <3>1, <3>2
    <3> QED
      BY <3>1, <3>2, <3>3 DEF Distinct
  <2> QED
    BY <2>1 DEF Distinct
<1>15. Entries(list2) = Entries(list) \ {e}
  <2>1. ASSUME NEW x \in Entries(list2) PROVE x \in Entries(list) \ {e}
    <3>1. PICK k \in DOMAIN list2 : x = list2[k]
      BY DEF Entries
    <3>2. PICK j \in DOMAIN list \ {i} : list2[k] = list[j]
      BY <1>13
    <3>3. list[j].lo # e.lo
      BY <1>3
    <3> QED
      BY <3>1, <3>2, <3>3 DEF Entries
  <2>2. ASSUME NEW x \in Entries(list) \ {e} PROVE x \in Entries(list2)
    <3>1. PICK j \in DOMAIN list : x = list[j]
      BY DEF Entries
    <3>2. j # i
      BY <1>2, <2>2, <3>1
    <3> QED
      BY <1>13, <3>1, <3>2 DEF Entries
  <2> QED
    BY <2>1, <2>2
<1> QED
  BY <1>11, <1>14, <1>15

-----------------------------------------------------------------------------
(* What is accepted. *)

CellsOf(block) == Cells(block.at, block.size)
Entry(block) == [lo |-> block.at, hi |-> block.at + block.size - 1]

\* Two payloads have no cell in common, or one encloses the other.
Apart(c, d) == c \cap d = {} \/ Encloses(c, d) \/ Encloses(d, c)

\* The blocks of live, and the list of their payloads.
Accepted(live, sizes, blk, list, brk) ==
  /\ list \in Seq(Range1) /\ Distinct(list)
  /\ Entries(list) = {Entry(blk[j]) : j \in live} /\ Len(list) = Cardinality(live)
  /\ \A j \in live : /\ blk[j].size = sizes[j] /\ blk[j].at % 2 = 0
                     /\ Base <= blk[j].at /\ blk[j].at + blk[j].size <= brk
  /\ \A j, l \in live : j # l => Apart(CellsOf(blk[j]), CellsOf(blk[l]))

\* The blocks and sizes of a trace's indexes.
Blocks(ids) == [ids -> [at : Int, size : Nat]]

\* Payloads that are apart begin at different cells.
LEMMA ApartLows ==
  ASSUME NEW b \in [at : Int, size : Nat \ {0}], NEW c \in [at : Int, size : Nat \ {0}],
         Apart(CellsOf(b), CellsOf(c))
  PROVE  b.at # c.at
<1> SUFFICES ASSUME b.at = c.at PROVE FALSE
  OBVIOUS
<1>1. b.at \in CellsOf(b) /\ c.at \in CellsOf(c) /\ b.at - 1 \notin CellsOf(b) /\ c.at - 1 \notin CellsOf(c)
  BY DEF CellsOf, Cells
<1> QED
  BY <1>1 DEF Apart, Encloses

\* A payload with neither end in another is apart from it.
LEMMA EndsApart ==
  ASSUME NEW b \in [at : Int, size : Nat \ {0}], NEW c \in [at : Int, size : Nat \ {0}],
         ~(b.at >= c.at /\ b.at <= c.at + c.size - 1),
         ~(b.at + b.size - 1 >= c.at /\ b.at + b.size - 1 <= c.at + c.size - 1)
  PROVE  Apart(CellsOf(b), CellsOf(c))
<1>1. \/ b.at + b.size - 1 < c.at \/ b.at > c.at + c.size - 1
      \/ b.at < c.at /\ c.at + c.size - 1 < b.at + b.size - 1
  OBVIOUS
<1>2. CASE b.at + b.size - 1 < c.at \/ b.at > c.at + c.size - 1
  <2>1. CellsOf(b) \cap CellsOf(c) = {}
    BY <1>2 DEF CellsOf, Cells
  <2> QED
    BY <2>1 DEF Apart
<1>3. CASE b.at < c.at /\ c.at + c.size - 1 < b.at + b.size - 1
  <2>1. Encloses(CellsOf(b), CellsOf(c))
    BY <1>3 DEF CellsOf, Cells, Encloses
  <2> QED
    BY <2>1 DEF Apart
<1> QED
  BY <1>1, <1>2, <1>3

\* add_range takes size cells at lo for the index, which is not live.
Taken(ids, live, sizes, blk, list, brk, index, lo, size, h, r, blk2, live2, sizes2) ==
  /\ live \in SUBSET ids /\ IsFiniteSet(live) /\ \A j \in live : sizes[j] \in Nat \ {0}
  /\ blk \in Blocks(ids) /\ brk \in Int /\ Accepted(live, sizes, blk, list, brk)
  /\ index \in ids /\ index \notin live /\ lo \in Int /\ size \in Nat \ {0}
  /\ h.brk \in Int /\ brk <= h.brk
  /\ r = add_range(list, lo, size, h) /\ r.ok
  /\ \E block \in [at : Int, size : Nat] : block.at = lo /\ block.size = size /\ blk2[index] = block
  /\ \A j \in live : blk2[j] = blk[j]
  /\ live2 = More(live, index) /\ sizes2[index] = size /\ \A j \in live : sizes2[j] = sizes[j]

\* A new payload that is accepted.
LEMMA AcceptMore ==
  ASSUME NEW ids, NEW live, NEW sizes, NEW blk, NEW list, NEW brk, NEW index, NEW lo, NEW size, NEW h, NEW r,
         NEW blk2, NEW live2, NEW sizes2,
         Taken(ids, live, sizes, blk, list, brk, index, lo, size, h, r, blk2, live2, sizes2)
  PROVE  Accepted(live2, sizes2, blk2, r.list, h.brk)
<1> SUFFICES ASSUME live \in SUBSET ids, IsFiniteSet(live), \A j \in live : sizes[j] \in Nat \ {0},
                    blk \in Blocks(ids), brk \in Int, Accepted(live, sizes, blk, list, brk),
                    index \in ids, index \notin live, lo \in Int, size \in Nat \ {0},
                    h.brk \in Int, brk <= h.brk,
                    r = add_range(list, lo, size, h), r.ok,
                    NEW block \in [at : Int, size : Nat], block.at = lo, block.size = size,
                    blk2[index] = block, \A j \in live : blk2[j] = blk[j],
                    live2 = More(live, index),
                    sizes2[index] = size, \A j \in live : sizes2[j] = sizes[j]
             PROVE  Accepted(live2, sizes2, blk2, r.list, h.brk)
  BY DEF Taken
<1>0. block \in [at : Int, size : Nat \ {0}]
  OBVIOUS
<1>1. /\ blk2[index] = block /\ \A j \in live : blk2[j] = blk[j]
      /\ \A j \in live : blk[j] \in [at : Int, size : Nat]
  BY DEF Blocks
<1>2. /\ list \in Seq(Range1) /\ Distinct(list)
      /\ Entries(list) = {Entry(blk[j]) : j \in live} /\ Len(list) = Cardinality(live)
      /\ \A j \in live : /\ blk[j].size = sizes[j] /\ blk[j].at % 2 = 0
                         /\ Base <= blk[j].at /\ blk[j].at + blk[j].size <= brk
      /\ \A j, l \in live : j # l => Apart(CellsOf(blk[j]), CellsOf(blk[l]))
  BY DEF Accepted
<1>3. PICK e : e = [lo |-> lo, hi |-> lo + size - 1]
  OBVIOUS
<1>4. /\ r.list \in Seq(Range1) /\ Distinct(r.list) /\ Len(r.list) = Len(list) + 1
      /\ Entries(r.list) = Entries(list) \cup {e}
      /\ lo % 2 = 0 /\ Base <= lo /\ lo + size <= h.brk
      /\ \A f \in Entries(list) : /\ ~(lo >= f.lo /\ lo <= f.hi)
                                  /\ ~(lo + size - 1 >= f.lo /\ lo + size - 1 <= f.hi)
  <2>1. list \in Seq(Range1) /\ Distinct(list)
    BY <1>2
  <2> QED
    BY ONLY <2>1, <1>3, lo \in Int, size \in Nat \ {0}, h.brk \in Int, r = add_range(list, lo, size, h), r.ok, AddRange
<1>5. Entries(r.list) = {Entry(blk2[j]) : j \in live2}
  <2>1. Entry(blk2[index]) = e
    BY <1>0, <1>1, <1>3 DEF Entry
  <2>2. {Entry(blk2[j]) : j \in live} = {Entry(blk[j]) : j \in live}
    BY <1>1
  <2>3. {Entry(blk2[j]) : j \in live2} = {Entry(blk2[j]) : j \in live} \cup {Entry(blk2[index])}
    BY DEF Less, More
  <2> QED
    BY <1>2, <1>4, <2>1, <2>2, <2>3
<1>6. Len(r.list) = Cardinality(live2)
  <2>1. Cardinality(More(live, index)) = Cardinality(live) + 1
    BY FS_AddElement DEF Less, More
  <2> QED
    BY <1>2, <1>4, <2>1
<1>7. ASSUME NEW j \in live2
      PROVE  /\ blk2[j].size = sizes2[j] /\ blk2[j].at % 2 = 0
             /\ Base <= blk2[j].at /\ blk2[j].at + blk2[j].size <= h.brk
  <2>1. CASE j = index
    BY <1>0, <1>1, <1>4, <2>1
  <2>2. CASE j \in live
    <3> PICK at, held, top : at = blk[j].at /\ held = blk[j].size /\ top = h.brk
      OBVIOUS
    <3>1. blk2[j] = blk[j] /\ sizes2[j] = sizes[j] /\ held = sizes[j] /\ at % 2 = 0 /\ Base <= at
      BY <1>1, <1>2, <2>2
    <3>2. /\ at \in Int /\ held \in Int /\ brk \in Int /\ top \in Int
          /\ at + held <= brk /\ brk <= top
      BY <1>1, <1>2, <2>2
    <3>3. at + held <= top
      BY ONLY <3>2
    <3> QED
      BY <3>1, <3>3
  <2> QED
    BY <2>1, <2>2 DEF Less, More
<1>8. ASSUME NEW j \in live PROVE Apart(CellsOf(block), CellsOf(blk[j]))
  <2>1. Entry(blk[j]) \in Entries(list)
    BY <1>2
  <2>2. blk[j] \in [at : Int, size : Nat \ {0}]
    BY <1>1, <1>2
  <2>3. Entry(blk[j]).lo = blk[j].at /\ Entry(blk[j]).hi = blk[j].at + blk[j].size - 1
    BY DEF Entry
  <2> QED
    BY <1>0, <1>4, <2>1, <2>2, <2>3, EndsApart
<1>9. ASSUME NEW j \in live2, NEW l \in live2, j # l PROVE Apart(CellsOf(blk2[j]), CellsOf(blk2[l]))
  <2>1. CASE j = index
    <3>1. l \in live
      BY <1>9, <2>1 DEF Less, More
    <3> QED
      BY <1>1, <1>8, <2>1, <3>1
  <2>2. CASE l = index
    <3>1. j \in live
      BY <1>9, <2>2 DEF Less, More
    <3>2. Apart(CellsOf(block), CellsOf(blk[j]))
      BY <1>8, <3>1
    <3> QED
      BY <1>1, <2>2, <3>1, <3>2 DEF Apart
  <2>3. CASE j \in live /\ l \in live
    BY <1>1, <1>2, <1>9, <2>3
  <2> QED
    BY <2>1, <2>2, <2>3 DEF Less, More
<1> QED
  BY <1>1, <1>4, <1>5, <1>6, <1>7, <1>9 DEF Accepted

\* A payload that goes from the list.
LEMMA AcceptLess ==
  ASSUME NEW ids, NEW live \in SUBSET ids, IsFiniteSet(live), NEW sizes, \A j \in live : sizes[j] \in Nat \ {0},
         NEW blk \in Blocks(ids), NEW list, NEW brk \in Int, Accepted(live, sizes, blk, list, brk),
         NEW index \in live, NEW list2, list2 = remove_range(list, blk[index].at),
         NEW live2, live2 = Less(live, index)
  PROVE  Accepted(live2, sizes, blk, list2, brk)
<1>1. /\ list \in Seq(Range1) /\ Distinct(list)
      /\ Entries(list) = {Entry(blk[j]) : j \in live} /\ Len(list) = Cardinality(live)
      /\ \A j \in live : /\ blk[j].size = sizes[j] /\ blk[j].at % 2 = 0
                         /\ Base <= blk[j].at /\ blk[j].at + blk[j].size <= brk
      /\ \A j, l \in live : j # l => Apart(CellsOf(blk[j]), CellsOf(blk[l]))
  BY DEF Accepted
<1>2. \A j \in live : blk[j] \in [at : Int, size : Nat \ {0}]
  BY <1>1 DEF Blocks
<1>3. PICK e : e = Entry(blk[index])
  OBVIOUS
<1>4. e \in Entries(list) /\ blk[index].at = e.lo
  BY <1>1, <1>3 DEF Entry
<1>5. /\ list2 \in Seq(Range1) /\ Distinct(list2) /\ Len(list2) = Len(list) - 1
      /\ Entries(list2) = Entries(list) \ {e}
  <2>1. list \in Seq(Range1) /\ Distinct(list) /\ e \in Entries(list) /\ list2 = remove_range(list, e.lo)
    BY <1>1, <1>4
  <2> QED
    BY ONLY <2>1, RemoveRange
<1>6. \A j \in live : j # index => Entry(blk[j]) # e
  <2>1. ASSUME NEW j \in live, j # index PROVE Entry(blk[j]) # e
    <3>1. blk[j].at # blk[index].at
      BY <1>1, <1>2, <2>1, ApartLows
    <3>2. Entry(blk[j]).lo = blk[j].at
      BY DEF Entry
    <3> QED
      BY <1>4, <3>1, <3>2
  <2> QED
    BY <2>1
<1>7. Entries(list2) = {Entry(blk[j]) : j \in live2}
  BY <1>1, <1>3, <1>5, <1>6 DEF Less, More
<1>8. Len(list2) = Cardinality(live2)
  BY <1>1, <1>5, FS_RemoveElement DEF Less, More
<1> QED
  BY <1>1, <1>5, <1>7, <1>8 DEF Accepted, Less, More

\* A payload that is refused is not aligned, not in the heap, or meets another.
LEMMA Refused ==
  ASSUME NEW ids, NEW live \in SUBSET ids, NEW sizes, \A j \in live : sizes[j] \in Nat \ {0},
         NEW blk \in Blocks(ids), NEW list, NEW brk, Accepted(live, sizes, blk, list, brk),
         NEW lo \in Int, NEW size \in Nat \ {0}, NEW h, h.brk \in Int,
         NEW r, r = add_range(list, lo, size, h), ~r.ok
  PROVE  \/ lo % 2 # 0
         \/ ~(Cells(lo, size) \subseteq Base .. (h.brk - 1))
         \/ \E j \in live : CellsOf(blk[j]) \cap Cells(lo, size) # {}
<1>1. lo \in Cells(lo, size) /\ lo + size - 1 \in Cells(lo, size)
  BY DEF Cells
<1>2. CASE ~(Base <= lo /\ lo <= h.brk - 1 /\ Base <= lo + size - 1 /\ lo + size - 1 <= h.brk - 1)
  <2>1. ~(lo \in Base .. (h.brk - 1) /\ lo + size - 1 \in Base .. (h.brk - 1))
    BY <1>2
  <2> QED
    BY <1>1, <2>1
<1>3. ASSUME NEW f \in Entries(list),
             (lo >= f.lo /\ lo <= f.hi) \/ (lo + size - 1 >= f.lo /\ lo + size - 1 <= f.hi)
      PROVE  \E j \in live : CellsOf(blk[j]) \cap Cells(lo, size) # {}
  <2>1. PICK j \in live : f = Entry(blk[j])
    BY DEF Accepted
  <2>2. blk[j].at \in Int /\ blk[j].size \in Nat
    BY DEF Blocks
  <2>3. f.lo = blk[j].at /\ f.hi = blk[j].at + blk[j].size - 1
    BY <2>1 DEF Entry
  <2>4. CellsOf(blk[j]) = f.lo .. f.hi
    BY <2>3 DEF CellsOf, Cells
  <2>5. lo \in CellsOf(blk[j]) \/ lo + size - 1 \in CellsOf(blk[j])
    BY <1>3, <2>2, <2>3, <2>4
  <2> QED
    BY <1>1, <2>5
<1> QED
  BY <1>2, <1>3, RefusedRange

-----------------------------------------------------------------------------
(* The payloads in the blocks of mmbook.c. *)

\* Each payload has a block of its own, with room for it.
Placed(h, S, live, sizes, blk) ==
  /\ Tiled(h, S)
  /\ \A j \in live : /\ blk[j].at \in S /\ blk[j].at # First /\ Used(h, blk[j].at)
                     /\ Size(h, blk[j].at) >= sizes[j] + 2
  /\ \A j, l \in live : j # l => blk[j].at # blk[l].at

\* Every payload holds what the driver wrote.
Filled(h, live, sizes, blk) ==
  \A j \in live : \A a \in Cells(blk[j].at, sizes[j]) : h.mem[a] = LowByte(j)

\* The blocks that are kept are still placed, and filled.
LEMMA PlacedKept ==
  ASSUME NEW h, NEW S, NEW live, NEW sizes, NEW blk, Placed(h, S, live, sizes, blk),
         NEW h2, NEW S2, NEW T, Tiled(h2, S2), Kept(h, S, T, h2, S2),
         \A j \in live : sizes[j] \in Nat,
         NEW live2 \in SUBSET live, \A j \in live2 : blk[j].at \notin T
  PROVE  /\ Placed(h2, S2, live2, sizes, blk) /\ h.brk <= h2.brk
         /\ Filled(h, live, sizes, blk) => Filled(h2, live2, sizes, blk)
<1>1. ASSUME NEW j \in live2
      PROVE  /\ blk[j].at \in S2 /\ blk[j].at # First /\ Used(h2, blk[j].at)
             /\ Size(h2, blk[j].at) >= sizes[j] + 2
             /\ \A a \in Cells(blk[j].at, sizes[j]) : h2.mem[a] = h.mem[a]
  <2> PICK c : c = blk[j].at
    OBVIOUS
  <2>1. /\ c \in S /\ c # First /\ Used(h, c) /\ Size(h, c) >= sizes[j] + 2 /\ c \notin T
    BY DEF Placed
  <2>2. /\ c \in S2 /\ Used(h2, c) /\ Size(h2, c) = Size(h, c)
        /\ \A a \in c .. (c + Size(h, c) - 3) : h2.mem[a] = h.mem[a]
    BY <2>1 DEF Kept
  <2>3. \A a \in Cells(c, sizes[j]) : a \in c .. (c + Size(h, c) - 3)
    <3>1. c \in Nat /\ Size(h, c) \in Nat /\ sizes[j] \in Nat
      BY <2>1, Headers DEF Placed
    <3> QED
      BY <2>1, <3>1 DEF Cells
  <2> QED
    BY <2>1, <2>2, <2>3
<1>2. \A j, l \in live2 : j # l => blk[j].at # blk[l].at
  BY DEF Placed
<1>3. Placed(h2, S2, live2, sizes, blk)
  BY <1>1, <1>2 DEF Placed
<1>4. Filled(h, live, sizes, blk) => Filled(h2, live2, sizes, blk)
  BY <1>1 DEF Filled
<1> QED
  BY <1>3, <1>4 DEF Kept

\* A block for one payload more.
LEMMA PlacedMore ==
  ASSUME NEW h, NEW S, NEW live, NEW sizes, NEW blk, Placed(h, S, live, sizes, blk),
         NEW index, index \notin live, NEW p \in S, p # First, Used(h, p), \A j \in live : blk[j].at # p,
         NEW live2, live2 = More(live, index), NEW sizes2, Size(h, p) >= sizes2[index] + 2,
         \A j \in live : sizes2[j] = sizes[j],
         NEW blk2, blk2[index].at = p, \A j \in live : blk2[j].at = blk[j].at
  PROVE  Placed(h, S, live2, sizes2, blk2)
<1>1. ASSUME NEW j \in live2
      PROVE  /\ blk2[j].at \in S /\ blk2[j].at # First /\ Used(h, blk2[j].at)
             /\ Size(h, blk2[j].at) >= sizes2[j] + 2
  <2>1. CASE j = index
    BY <2>1
  <2>2. CASE j \in live
    BY <2>2 DEF Placed
  <2> QED
    BY <2>1, <2>2 DEF Less, More
<1>2. ASSUME NEW j \in live2, NEW l \in live2, j # l PROVE blk2[j].at # blk2[l].at
  <2>1. CASE j = index
    BY <1>2, <2>1 DEF Less, More
  <2>2. CASE l = index
    BY <1>2, <2>2 DEF Less, More
  <2>3. CASE j # index /\ l # index
    BY <1>2, <2>3 DEF Placed, Less, More
  <2> QED
    BY <2>1, <2>2, <2>3
<1> QED
  BY <1>1, <1>2 DEF Placed

\* The cells hold val, all others what they held.
Fills(h, h2, cells, val) ==
  /\ Memory(h2) /\ h2.brk = h.brk /\ h2.heap_listp = h.heap_listp
  /\ \A a \in Arena : a \notin cells => h2.mem[a] = h.mem[a]
  /\ \A a \in Arena : a \in cells => h2.mem[a] = val

\* The driver's memset.
LEMMA Filling ==
  ASSUME NEW h, Memory(h), NEW lo \in Nat, NEW val \in Nat, NEW size \in Nat,
         NEW h2, h2 = memset(h, lo, val, size)
  PROVE  Fills(h, h2, Cells(lo, size), val)
<1> DEFINE new == [a \in Arena |-> IF a \in lo .. (lo + size - 1) THEN val ELSE h.mem[a]]
<1>1. DOMAIN h.mem = Arena /\ h.mem \in [Arena -> Nat]
  BY DEF Memory
<1>2. h2 = [h EXCEPT !.mem = new]
  BY <1>1 DEF memset
<1>3. new \in [Arena -> Nat]
  BY <1>1
<1>4. h2.mem = new /\ Memory(h2) /\ h2.brk = h.brk /\ h2.heap_listp = h.heap_listp
  BY <1>2, <1>3 DEF Memory
<1> QED
  BY <1>4 DEF Cells, Fills

Refilled(h, h2, S, live, index, sizes, blk) ==
  /\ Placed(h2, S, live, sizes, blk)
  /\ Filled(h, Less(live, index), sizes, blk) => Filled(h2, live, sizes, blk)

\* A payload that is filled in its block.
LEMMA FilledMore ==
  ASSUME NEW h, NEW S, NEW live, NEW sizes, NEW blk, Placed(h, S, live, sizes, blk),
         \A j \in live : sizes[j] \in Nat, NEW index \in live, index \in Nat,
         NEW p, p = blk[index].at, NEW size, size = sizes[index], NEW val, val = LowByte(index),
         NEW h2, h2 = memset(h, p, val, size)
  PROVE  Refilled(h, h2, S, live, index, sizes, blk)
<1> PICK rest : rest = Less(live, index)
  OBVIOUS
<1>1. /\ Tiled(h, S) /\ p \in S /\ p # First /\ Used(h, p) /\ Size(h, p) >= size + 2
      /\ size \in Nat /\ Memory(h)
  BY DEF Placed, Tiled
<1>2. p \in Nat /\ Size(h, p) \in Nat /\ p >= First /\ p + Size(h, p) <= h.brk
      /\ h.brk \in Nat /\ h.brk <= Base + MAX_HEAP
  BY <1>1, Headers, Addresses
<1>3. LowByte(index) \in Nat
  BY MdriverAssumption DEF LowByte
<1>4. /\ Memory(h2) /\ h2.brk = h.brk /\ h2.heap_listp = h.heap_listp
      /\ \A a \in Arena : a \notin Cells(p, size) => h2.mem[a] = h.mem[a]
      /\ \A a \in Arena : a \in Cells(p, size) => h2.mem[a] = LowByte(index)
  <2>1. h2 = memset(h, p, val, size) /\ val \in Nat /\ Memory(h) /\ p \in Nat /\ size \in Nat
    BY <1>1, <1>2, <1>3
  <2>2. Fills(h, h2, Cells(p, size), val)
    BY <2>1, Filling
  <2> QED
    BY <2>2 DEF Fills
<1>5. /\ Tiled(h2, S) /\ Kept(h, S, {p}, h2, S)
      /\ \A c \in S : Size(h2, c) = Size(h, c) /\ (Used(h2, c) <=> Used(h, c))
  <2>1. \A a \in Arena : a \notin p .. (p + Size(h, p) - 3) => h2.mem[a] = h.mem[a]
    <3>1. \A a \in Arena : a \notin p .. (p + Size(h, p) - 3) => a \notin Cells(p, size)
      BY <1>1, <1>2 DEF Cells
    <3> QED
      BY <1>4, <3>1
  <2> QED
    BY ONLY <1>1, <1>4, <2>1, Written
<1>6. Placed(h2, S, live, sizes, blk)
  BY <1>5 DEF Placed
<1>7. Placed(h, S, rest, sizes, blk)
  BY DEF Placed, Less, More
<1>8. Filled(h, rest, sizes, blk) => Filled(h2, rest, sizes, blk)
  <2>1. \A j \in rest : blk[j].at \notin {p}
    BY DEF Placed, Less, More
  <2>2. rest \in SUBSET rest /\ \A j \in rest : sizes[j] \in Nat
    BY DEF Less, More
  <2> QED
    BY ONLY <1>5, <1>7, <2>1, <2>2, PlacedKept
<1>9. \A a \in Cells(p, size) : h2.mem[a] = LowByte(index)
  <2>1. \A a \in Cells(p, size) : a \in Arena
    BY <1>1, <1>2, MmbookAssumption DEF Cells, Arena, First, Base, DSIZE
  <2> QED
    BY <1>4, <2>1
<1>10. Filled(h, rest, sizes, blk) => Filled(h2, live, sizes, blk)
  BY <1>8, <1>9 DEF Filled, Less, More
<1> QED
  BY <1>6, <1>10 DEF Refilled

\* The driver accepts a payload in a block of its own.
LEMMA PlacedAccepted ==
  ASSUME NEW ids, NEW live \in SUBSET ids, NEW sizes, \A j \in live : sizes[j] \in Nat \ {0},
         NEW blk \in Blocks(ids), NEW list, NEW brk, Accepted(live, sizes, blk, list, brk),
         NEW h, NEW S, Placed(h, S, live, sizes, blk),
         NEW p \in S, p # First, \A j \in live : blk[j].at # p,
         NEW size \in Nat \ {0}, Size(h, p) >= size + 2, NEW r, r = add_range(list, p, size, h)
  PROVE  r.ok
<1>1. Tiled(h, S)
  BY DEF Placed
<1>2. /\ p \in Nat /\ p >= First /\ p % 2 = 0 /\ Size(h, p) \in Nat /\ p + Size(h, p) <= h.brk /\ h.brk \in Nat
  BY <1>1, Headers
<1>3. ASSUME NEW k \in DOMAIN list
      PROVE  /\ ~(p >= list[k].lo /\ p <= list[k].hi)
             /\ ~(p + size - 1 >= list[k].lo /\ p + size - 1 <= list[k].hi)
  <2>1. list[k] \in Entries(list)
    BY DEF Entries
  <2>2. PICK j \in live : list[k] = Entry(blk[j])
    BY <2>1 DEF Accepted
  <2> PICK c : c = blk[j].at
    OBVIOUS
  <2>3. list[k].lo = c /\ list[k].hi = c + sizes[j] - 1
    BY <2>2 DEF Entry, Accepted
  <2>4. c \in S /\ c # p /\ Size(h, c) >= sizes[j] + 2 /\ sizes[j] \in Nat
    BY DEF Placed
  <2>5. c \in Nat /\ Size(h, c) \in Nat
    BY <1>1, <2>4, Headers
  <2>6. (c < p => c + Size(h, c) <= p) /\ (p < c => p + Size(h, p) <= c)
    BY <1>1, <2>4, Disjoint
  <2> QED
    BY <1>2, <2>3, <2>4, <2>5, <2>6
<1>4. /\ Base <= p /\ p <= h.brk - 1 /\ Base <= p + size - 1 /\ p + size - 1 <= h.brk - 1
  BY <1>2 DEF First, Base, DSIZE
<1> QED
  BY <1>2, <1>3, <1>4 DEF add_range, ALIGNMENT, mem_heap_hi

-----------------------------------------------------------------------------
(* Sums of sizes. *)

Sums(w, sizes, n) ==
  w \in [0 .. n -> Int] /\ w[0] = 0 /\ \A k \in 1 .. n : w[k] = w[k - 1] + sizes[k - 1]

\* A total is the last of the partial sums.
LEMMA TotalSteps ==
  ASSUME NEW n \in Nat, NEW sizes, \A k \in 0 .. (n - 1) : sizes[k] \in Int
  PROVE  \E w : Sums(w, sizes, n) /\ Total(sizes, n) = w[n]
<1> DEFINE Path(f, k) == f \in [0 .. k -> Int] /\ f[0] = 0 /\ \A j \in 1 .. k : f[j] = f[j - 1] + sizes[j - 1]
           Short == {k \in 0 .. n : ~ \E f : Path(f, k)}
<1>1. Short = {}
  <2> SUFFICES ASSUME Short # {} PROVE FALSE
    OBVIOUS
  <2>1. PICK k \in Short : \A j \in Short : k <= j
    <3>1. Short \in SUBSET Nat
      OBVIOUS
    <3> HIDE DEF Short
    <3> QED
      BY <3>1, LeastOfSet
  <2>2. k \in 0 .. n
    OBVIOUS
  <2>3. k # 0
    <3>1. Path([j \in 0 .. 0 |-> 0], 0)
      OBVIOUS
    <3> QED
      BY <3>1
  <2>4. PICK f : Path(f, k - 1)
    <3>1. k - 1 \in 0 .. n /\ ~(k <= k - 1)
      BY <2>2, <2>3
    <3>2. k - 1 \notin Short
      BY <2>1, <3>1
    <3> QED
      BY <3>1, <3>2
  <2> DEFINE g == [j \in 0 .. k |-> IF j = k THEN f[k - 1] + sizes[k - 1] ELSE f[j]]
  <2>5. Path(g, k)
    <3>1. k - 1 \in 0 .. (n - 1) /\ sizes[k - 1] \in Int /\ f[k - 1] \in Int
      BY <2>2, <2>3, <2>4
    <3> QED
      BY <2>2, <2>3, <2>4, <3>1
  <2> QED
    BY <2>2, <2>5
<1>2. PICK f : Path(f, n)
  <2>1. n \in 0 .. n
    OBVIOUS
  <2>2. n \notin Short
    <3> HIDE DEF Short
    <3> QED
      BY <1>1
  <2> QED
    BY <2>1, <2>2
<1> DEFINE Fixed(w) == w = [k \in 0 .. n |-> IF k = 0 THEN 0 ELSE w[k - 1] + sizes[k - 1]]
<1>3. Fixed(f)
  BY <1>2
<1> DEFINE w == CHOOSE w : Fixed(w)
<1>4. Fixed(w)
  BY <1>3
<1>5. ASSUME NEW u, Fixed(u) PROVE u = f
  <2> DEFINE Differ == {k \in 0 .. n : u[k] # f[k]}
  <2>1. Differ \in SUBSET Nat
    OBVIOUS
  <2>2. Differ = {}
    <3> SUFFICES ASSUME Differ # {} PROVE FALSE
      OBVIOUS
    <3>1. PICK k \in Differ : \A j \in Differ : k <= j
      <4> HIDE DEF Differ
      <4> QED
        BY <2>1, LeastOfSet
    <3>2. k = 0 \/ u[k - 1] = f[k - 1]
      BY <3>1
    <3> QED
      BY <1>3, <1>5, <3>1, <3>2
  <2>3. f = [k \in 0 .. n |-> f[k]] /\ u = [k \in 0 .. n |-> u[k]]
    BY <1>2, <1>5
  <2>4. \A k \in 0 .. n : u[k] = f[k]
    BY <2>2
  <2> QED
    BY <2>3, <2>4
<1>6. Total(sizes, n) = w[n]
  BY DEF Total
<1> QED
  <2>1. w = f
    BY <1>4, <1>5
  <2> HIDE DEF w
  <2> QED
    BY <1>2, <1>6, <2>1 DEF Sums

\* One size changes.
LEMMA TotalChange ==
  ASSUME NEW n \in Nat, NEW sizes, \A k \in 0 .. (n - 1) : sizes[k] \in Int,
         NEW i \in 0 .. (n - 1), NEW sizes2, sizes2[i] \in Int,
         \A k \in 0 .. (n - 1) : k # i => sizes2[k] = sizes[k]
  PROVE  Total(sizes, n) \in Int /\ Total(sizes2, n) = Total(sizes, n) + (sizes2[i] - sizes[i])
<1>1. \A k \in 0 .. (n - 1) : sizes2[k] \in Int
  OBVIOUS
<1>2. PICK w : Sums(w, sizes, n) /\ Total(sizes, n) = w[n]
  BY TotalSteps
<1>3. PICK v : Sums(v, sizes2, n) /\ Total(sizes2, n) = v[n]
  BY <1>1, TotalSteps
<1> DEFINE Right(k) == v[k] = w[k] + (IF k > i THEN sizes2[i] - sizes[i] ELSE 0)
           Wrong == {k \in 0 .. n : ~Right(k)}
<1>4. \A k \in 0 .. n : w[k] \in Int /\ v[k] \in Int
  BY <1>2, <1>3 DEF Sums
<1>5. Wrong = {}
  <2> SUFFICES ASSUME Wrong # {} PROVE FALSE
    OBVIOUS
  <2>1. PICK k \in Wrong : \A j \in Wrong : k <= j
    <3>1. Wrong \in SUBSET Nat
      OBVIOUS
    <3> HIDE DEF Wrong
    <3> QED
      BY <3>1, LeastOfSet
  <2>2. k \in 0 .. n /\ ~Right(k)
    BY <2>1
  <2>3. k # 0
    BY <1>2, <1>3, <2>2 DEF Sums
  <2>4. k - 1 \in 0 .. (n - 1) /\ k - 1 \in 0 .. n /\ k \in 1 .. n /\ ~(k <= k - 1)
    BY <2>2, <2>3
  <2>5. Right(k - 1)
    <3>1. k - 1 \notin Wrong
      BY <2>1, <2>4
    <3> QED
      BY <2>4, <3>1
  <2>6. v[k] = v[k - 1] + sizes2[k - 1] /\ w[k] = w[k - 1] + sizes[k - 1]
    BY <1>2, <1>3, <2>4 DEF Sums
  <2>7. Right(k)
    BY <1>4, <2>4, <2>5, <2>6
  <2> QED
    BY <2>2, <2>7
<1>6. Right(n) /\ n > i
  BY <1>5
<1> QED
  BY <1>2, <1>3, <1>4, <1>6

\* The total of no sizes is 0.
LEMMA TotalNone ==
  ASSUME NEW n \in Nat, NEW sizes, \A k \in 0 .. (n - 1) : sizes[k] = 0
  PROVE  Total(sizes, n) = 0
<1>1. PICK w : Sums(w, sizes, n) /\ Total(sizes, n) = w[n]
  <2>1. \A k \in 0 .. (n - 1) : sizes[k] \in Int
    OBVIOUS
  <2> QED
    BY <2>1, TotalSteps
<1> DEFINE Wrong == {k \in 0 .. n : w[k] # 0}
<1>2. Wrong = {}
  <2> SUFFICES ASSUME Wrong # {} PROVE FALSE
    OBVIOUS
  <2>1. PICK k \in Wrong : \A j \in Wrong : k <= j
    <3>1. Wrong \in SUBSET Nat
      OBVIOUS
    <3> HIDE DEF Wrong
    <3> QED
      BY <3>1, LeastOfSet
  <2>2. k \in 0 .. n /\ w[k] # 0 /\ k # 0
    BY <1>1, <2>1 DEF Sums
  <2>3. k - 1 \in 0 .. (n - 1) /\ k - 1 \in 0 .. n /\ k \in 1 .. n /\ ~(k <= k - 1)
    BY <2>2
  <2>4. w[k - 1] = 0
    BY <2>1, <2>3
  <2>5. w[k] = w[k - 1] + sizes[k - 1] /\ sizes[k - 1] = 0
    BY <1>1, <2>3 DEF Sums
  <2> QED
    BY <2>2, <2>4, <2>5
<1> QED
  BY <1>1, <1>2

\* Payloads that have no cell in common are no larger than what holds them.
LEMMA TotalFits ==
  ASSUME NEW n \in Nat, NEW sizes, \A k \in 0 .. (n - 1) : sizes[k] \in Nat,
         NEW C, IsFiniteSet(C), NEW at, \A k \in 0 .. (n - 1) : sizes[k] > 0 => at[k] \in Int,
         \A k \in 0 .. (n - 1) : sizes[k] > 0 => Cells(at[k], sizes[k]) \subseteq C,
         \A k, l \in 0 .. (n - 1) : k # l /\ sizes[k] > 0 /\ sizes[l] > 0 =>
           Cells(at[k], sizes[k]) \cap Cells(at[l], sizes[l]) = {}
  PROVE  Total(sizes, n) <= Cardinality(C)
<1> DEFINE Of(k) == IF sizes[k] > 0 THEN Cells(at[k], sizes[k]) ELSE {}
           Front0(k) == UNION {Of(j) : j \in 0 .. (k - 1)}
<1>1. PICK w : Sums(w, sizes, n) /\ Total(sizes, n) = w[n]
  BY TotalSteps
<1>2. ASSUME NEW k \in 0 .. (n - 1)
      PROVE  IsFiniteSet(Of(k)) /\ Cardinality(Of(k)) = sizes[k] /\ Of(k) \subseteq C
  <2>1. CASE sizes[k] > 0
    <3>1. at[k] \in Int /\ at[k] + sizes[k] - 1 \in Int /\ ~(at[k] > at[k] + sizes[k] - 1)
      BY <2>1
    <3>2. IsFiniteSet(at[k] .. (at[k] + sizes[k] - 1))
          /\ Cardinality(at[k] .. (at[k] + sizes[k] - 1)) = (at[k] + sizes[k] - 1) - at[k] + 1
      BY <3>1, FS_Interval
    <3>3. (at[k] + sizes[k] - 1) - at[k] + 1 = sizes[k]
      BY <3>1
    <3> QED
      BY <2>1, <3>2, <3>3 DEF Cells
  <2>2. CASE ~(sizes[k] > 0)
    <3>1. sizes[k] = 0
      BY <2>2
    <3> QED
      BY <2>2, <3>1, FS_EmptySet
  <2> QED
    BY <2>1, <2>2
<1>3. \A k, l \in 0 .. (n - 1) : k # l => Of(k) \cap Of(l) = {}
  OBVIOUS
<1> DEFINE Right(k) == IsFiniteSet(Front0(k)) /\ Cardinality(Front0(k)) = w[k] /\ Front0(k) \subseteq C
           Wrong == {k \in 0 .. n : ~Right(k)}
<1> HIDE DEF Of
<1>4. Wrong = {}
  <2> SUFFICES ASSUME Wrong # {} PROVE FALSE
    OBVIOUS
  <2>1. PICK k \in Wrong : \A j \in Wrong : k <= j
    <3>1. Wrong \in SUBSET Nat
      OBVIOUS
    <3> HIDE DEF Wrong
    <3> QED
      BY <3>1, LeastOfSet
  <2>2. k \in 0 .. n /\ ~Right(k)
    BY <2>1
  <2>3. k # 0
    <3>1. Front0(0) = {}
      OBVIOUS
    <3>2. Right(0)
      BY <1>1, <3>1, FS_EmptySet DEF Sums
    <3> QED
      BY <2>2, <3>2
  <2>4. k - 1 \in 0 .. (n - 1) /\ k - 1 \in 0 .. n /\ k \in 1 .. n /\ ~(k <= k - 1)
    BY <2>2, <2>3
  <2>5. Right(k - 1)
    <3>1. k - 1 \notin Wrong
      BY <2>1, <2>4
    <3> QED
      BY <2>4, <3>1
  <2>6. w[k] = w[k - 1] + sizes[k - 1]
    BY <1>1, <2>4 DEF Sums
  <2>7. Front0(k) = Front0(k - 1) \cup Of(k - 1)
    <3>1. 0 .. (k - 1) = (0 .. ((k - 1) - 1)) \cup {k - 1}
      BY <2>4
    <3> QED
      BY <3>1
  <2>8. Front0(k - 1) \cap Of(k - 1) = {}
    <3>1. ASSUME NEW j \in 0 .. ((k - 1) - 1) PROVE Of(j) \cap Of(k - 1) = {}
      BY <1>3, <2>4
    <3> QED
      BY <3>1
  <2> PICK before : before = Front0(k - 1)
    OBVIOUS
  <2> PICK new : new = Of(k - 1)
    OBVIOUS
  <2>9. IsFiniteSet(before \cup new) /\ Cardinality(before \cup new) = w[k - 1] + sizes[k - 1]
    <3>1. IsFiniteSet(before) /\ Cardinality(before) = w[k - 1] /\ w[k - 1] \in Int
      BY <1>1, <2>4, <2>5 DEF Sums
    <3>2. IsFiniteSet(new) /\ Cardinality(new) = sizes[k - 1]
      BY <1>2, <2>4
    <3>3. before \cap new = {}
      BY <2>8
    <3>4. Cardinality(before \cap new) = 0
      BY <3>3, FS_EmptySet
    <3>5. IsFiniteSet(before \cup new)
          /\ Cardinality(before \cup new) = Cardinality(before) + Cardinality(new) - Cardinality(before \cap new)
      BY <3>1, <3>2, FS_Union
    <3>6. sizes[k - 1] \in Nat
      BY <2>4
    <3> QED
      BY <3>1, <3>2, <3>4, <3>5, <3>6
  <2>10. Right(k)
    BY <1>2, <2>4, <2>5, <2>6, <2>7, <2>9
  <2> QED
    BY <2>2, <2>10
<1>5. Right(n)
  <2>1. n \in 0 .. n
    OBVIOUS
  <2>2. n \notin Wrong
    <3> HIDE DEF Wrong
    <3> QED
      BY <1>4
  <2> QED
    BY <2>1, <2>2
<1>6. Cardinality(Front0(n)) <= Cardinality(C)
  BY <1>5, FS_Subset
<1> QED
  BY <1>1, <1>5, <1>6

-----------------------------------------------------------------------------
(* Answers of mmbook.c. *)

\* The answer new to a request for size cells: a block that no payload of another
\* index has, and what was in the old payload of the index.
Got(h, live, sizes, blk, index, size, new) ==
  \E S2 : /\ Placed(new.h, S2, Less(live, index), sizes, blk)
          /\ new.p \in S2 /\ new.p # First /\ Used(new.h, new.p) /\ Size(new.h, new.p) >= size + 2
          /\ \A j \in Less(live, index) : blk[j].at # new.p
          /\ Filled(h, live, sizes, blk) =>
               /\ Filled(new.h, Less(live, index), sizes, blk)
               /\ index \in live => \A i \in 0 .. (size - 1) : i < sizes[index] => new.h.mem[new.p + i] = LowByte(index)

\* mm_malloc of mmbook.c gives NULL and leaves the heap, or a block apart from the live payloads, which keep their bytes;
LEMMA GotMalloc ==
  ASSUME NEW h, NEW S, NEW live, NEW sizes, NEW blk, Placed(h, S, live, sizes, blk),
         \A j \in live : sizes[j] \in Nat, NEW index, index \notin live, NEW size \in Nat,
         NEW new, new = mm_malloc(h, size)
  PROVE  \/ new = [h |-> h, p |-> NULL]
         \/ /\ size > 0 /\ new.p # NULL /\ new.p \in Nat /\ new.p >= Base /\ Memory(new.h)
            /\ h.brk <= new.h.brk /\ Got(h, live, sizes, blk, index, size, new)
<1>1. Tiled(h, S)
  BY DEF Placed
<1> SUFFICES ASSUME new # [h |-> h, p |-> NULL]
             PROVE  /\ size > 0 /\ new.p # NULL /\ new.p \in Nat /\ new.p >= Base /\ Memory(new.h)
                    /\ h.brk <= new.h.brk /\ Got(h, live, sizes, blk, index, size, new)
  OBVIOUS
<1>2. PICK S2 : /\ size > 0 /\ Tiled(new.h, S2) /\ new.p \in S2 /\ new.p # First /\ Used(new.h, new.p)
                /\ Size(new.h, new.p) >= size + 2 /\ Kept(h, S, {}, new.h, S2)
                /\ \A c \in S : Used(h, c) => c # new.p
  BY <1>1, Malloc
<1>3. new.p \in Nat /\ new.p >= First
  BY <1>2, Headers
<1>4. new.p # NULL /\ new.p >= Base
  BY <1>3 DEF First, Base, DSIZE, NULL
<1>5. Less(live, index) = live
  BY DEF Less, More
<1> PICK h2 : h2 = new.h
  OBVIOUS
<1>6. /\ Placed(h2, S2, live, sizes, blk) /\ h.brk <= h2.brk
      /\ Filled(h, live, sizes, blk) => Filled(h2, live, sizes, blk)
  <2>1. Tiled(h2, S2) /\ Kept(h, S, {}, h2, S2) /\ live \in SUBSET live /\ \A j \in live : blk[j].at \notin {}
    BY <1>2
  <2> QED
    BY ONLY <2>1, Placed(h, S, live, sizes, blk), \A j \in live : sizes[j] \in Nat, PlacedKept
<1>7. \A j \in live : blk[j].at # new.p
  BY <1>2 DEF Placed
<1>8. Got(h, live, sizes, blk, index, size, new)
  BY <1>2, <1>5, <1>6, <1>7 DEF Got
<1> QED
  BY <1>2, <1>3, <1>4, <1>6, <1>8 DEF Tiled

\* so does mm_realloc, whose new block holds the bytes of the old one.
LEMMA GotRealloc ==
  ASSUME NEW h, NEW S, NEW live, NEW sizes, NEW blk, Placed(h, S, live, sizes, blk),
         \A j \in live : sizes[j] \in Nat, NEW index \in live, NEW size \in Nat,
         NEW new, new = mm_realloc(h, blk[index].at, size)
  PROVE  \/ new = [h |-> h, p |-> NULL]
         \/ /\ size > 0 /\ new.p # NULL /\ new.p \in Nat /\ new.p >= Base /\ Memory(new.h)
            /\ h.brk <= new.h.brk /\ Got(h, live, sizes, blk, index, size, new)
<1> PICK ptr : ptr = blk[index].at
  OBVIOUS
<1>1. Tiled(h, S) /\ ptr \in S /\ ptr # First /\ Used(h, ptr) /\ Size(h, ptr) >= sizes[index] + 2
  BY DEF Placed
<1> SUFFICES ASSUME new # [h |-> h, p |-> NULL]
             PROVE  /\ size > 0 /\ new.p # NULL /\ new.p \in Nat /\ new.p >= Base /\ Memory(new.h)
                    /\ h.brk <= new.h.brk /\ Got(h, live, sizes, blk, index, size, new)
  OBVIOUS
<1>2. PICK S2 : /\ size > 0 /\ Tiled(new.h, S2) /\ new.p \in S2 /\ new.p # First /\ Used(new.h, new.p)
                /\ Size(new.h, new.p) >= size + 2 /\ Kept(h, S, {ptr}, new.h, S2)
                /\ \A c \in S : Used(h, c) => c # new.p
                /\ \A j \in 0 .. (size - 1) : j + 2 < Size(h, ptr) => new.h.mem[new.p + j] = h.mem[ptr + j]
  BY <1>1, Realloc
<1>3. new.p \in Nat /\ new.p >= First
  BY <1>2, Headers
<1>4. new.p # NULL /\ new.p >= Base
  BY <1>3 DEF First, Base, DSIZE, NULL
<1> PICK h2 : h2 = new.h
  OBVIOUS
<1> PICK rest : rest = Less(live, index)
  OBVIOUS
<1>6. /\ Placed(h2, S2, rest, sizes, blk) /\ h.brk <= h2.brk
      /\ Filled(h, live, sizes, blk) => Filled(h2, rest, sizes, blk)
  <2>1. Tiled(h2, S2) /\ Kept(h, S, {ptr}, h2, S2) /\ rest \in SUBSET live
    BY <1>2 DEF Less, More
  <2>2. \A j \in rest : blk[j].at \notin {ptr}
    BY DEF Placed, Less, More
  <2> QED
    BY ONLY <2>1, <2>2, Placed(h, S, live, sizes, blk), \A j \in live : sizes[j] \in Nat, PlacedKept
<1>7. \A j \in rest : blk[j].at # new.p
  BY <1>2 DEF Placed, Less, More
<1>8. Filled(h, live, sizes, blk) =>
        \A i \in 0 .. (size - 1) : i < sizes[index] => new.h.mem[new.p + i] = LowByte(index)
  <2> SUFFICES ASSUME Filled(h, live, sizes, blk), NEW i \in 0 .. (size - 1), i < sizes[index]
               PROVE  new.h.mem[new.p + i] = LowByte(index)
    OBVIOUS
  <2>1. ptr \in Nat /\ Size(h, ptr) \in Nat
    BY <1>1, Headers
  <2>2. i + 2 < Size(h, ptr) /\ ptr + i \in Cells(ptr, sizes[index])
    BY <1>1, <2>1 DEF Cells
  <2> QED
    BY <1>2, <2>2 DEF Filled
<1>9. Got(h, live, sizes, blk, index, size, new)
  BY <1>2, <1>6, <1>7, <1>8 DEF Got
<1> QED
  BY <1>2, <1>3, <1>4, <1>6, <1>9 DEF Tiled

Settled(h, live, sizes, blk) == \E S : Placed(h, S, live, sizes, blk)

\* The heap h2 after the payload of index was given up.
GaveUp(h, h2, live, index, sizes, blk) ==
  /\ Memory(h2) /\ h.brk <= h2.brk /\ Settled(h2, Less(live, index), sizes, blk)
  /\ Filled(h, live, sizes, blk) => Filled(h2, Less(live, index), sizes, blk)

\* A payload that is given up.
LEMMA GivenUp ==
  ASSUME NEW h, NEW S, NEW live, NEW sizes, NEW blk, Placed(h, S, live, sizes, blk),
         \A j \in live : sizes[j] \in Nat, NEW index \in live, NEW ptr, ptr = blk[index].at,
         NEW h2, h2 = mm_free(h, ptr)
  PROVE  GaveUp(h, h2, live, index, sizes, blk)
<1> PICK rest : rest = Less(live, index)
  OBVIOUS
<1>1. Tiled(h, S) /\ ptr \in S /\ ptr # First
  BY DEF Placed
<1>2. PICK S2 : Tiled(h2, S2) /\ Kept(h, S, {ptr}, h2, S2)
  BY <1>1, Free
<1>3. rest \in SUBSET live /\ \A j \in rest : blk[j].at \notin {ptr}
  BY DEF Placed, Less, More
<1>4. /\ Placed(h2, S2, rest, sizes, blk) /\ h.brk <= h2.brk
      /\ Filled(h, live, sizes, blk) => Filled(h2, rest, sizes, blk)
  BY ONLY <1>2, <1>3, Placed(h, S, live, sizes, blk), \A j \in live : sizes[j] \in Nat, PlacedKept
<1> QED
  BY <1>2, <1>4 DEF Tiled, GaveUp, Settled

\* A block for the answer.
LEMMA GotPlaced ==
  ASSUME NEW h, NEW live, NEW sizes, NEW blk, NEW index, NEW size, NEW new, Got(h, live, sizes, blk, index, size, new),
         NEW rest, rest = Less(live, index), NEW live2, live2 = More(rest, index),
         NEW sizes2, sizes2[index] = size, \A j \in rest : sizes2[j] = sizes[j],
         NEW blk2, blk2[index].at = new.p, \A j \in rest : blk2[j].at = blk[j].at,
         NEW h2, h2 = new.h
  PROVE  /\ Settled(h2, live2, sizes2, blk2)
         /\ Filled(h, live, sizes, blk) => Filled(h2, rest, sizes2, blk2)
<1> PICK p : p = new.p
  OBVIOUS
<1>1. PICK S2 : /\ Placed(h2, S2, rest, sizes, blk)
                /\ p \in S2 /\ p # First /\ Used(h2, p) /\ Size(h2, p) >= size + 2
                /\ \A j \in rest : blk[j].at # p
                /\ Filled(h, live, sizes, blk) => Filled(h2, rest, sizes, blk)
  BY DEF Got
<1>2. Placed(h2, S2, live2, sizes2, blk2)
  <2>1. /\ index \notin rest /\ live2 = More(rest, index) /\ Size(h2, p) >= sizes2[index] + 2
        /\ \A j \in rest : sizes2[j] = sizes[j]
        /\ blk2[index].at = p /\ \A j \in rest : blk2[j].at = blk[j].at
    BY <1>1
  <2> QED
    BY ONLY <1>1, <2>1, PlacedMore
<1>3. Filled(h, live, sizes, blk) => Filled(h2, rest, sizes2, blk2)
  BY <1>1 DEF Filled
<1> QED
  BY <1>2, <1>3 DEF Settled

-----------------------------------------------------------------------------
(* A trace in the works. *)

SizesIn(file, k) == [j \in IdsIn(file) |-> SizeIn(file.ops, k, j)]

\* The requests of file before op are done: the heap is h, the blocks are blk.
Going(allocator, file, op, h, blk) ==
  /\ Readable(file) /\ op \in 1 .. (Len(file.ops) + 1) /\ blk \in Blocks(IdsIn(file)) /\ Memory(h)
  /\ \A j \in LiveIn(file, op - 1) : blk[j].at \in Nat /\ blk[j].at >= Base
  /\ allocator = "any" => h.brk = Base + Wild
  /\ allocator = "book" => Settled(h, LiveIn(file, op - 1), SizesIn(file, op - 1), blk)

\* The parts of Going that every step uses.
LEMMA GoingParts ==
  ASSUME NEW allocator, NEW file, NEW op, NEW h, NEW blk, Going(allocator, file, op, h, blk),
         NEW live, live = LiveIn(file, op - 1), NEW sizes, sizes = SizesIn(file, op - 1)
  PROVE  /\ live \in SUBSET IdsIn(file) /\ IsFiniteSet(live)
         /\ \A j \in live : sizes[j] \in Nat \ {0}
         /\ \A j \in live : blk[j] \in [at : Int, size : Nat]
         /\ h.brk \in Nat /\ op - 1 \in 0 .. Len(file.ops)
<1>1. Readable(file) /\ op \in 1 .. (Len(file.ops) + 1) /\ Len(file.ops) \in Nat
  BY ReadableParts DEF Going
<1>2. op - 1 \in 0 .. Len(file.ops)
  BY <1>1
<1>3. /\ \A j \in live : j \in IdsIn(file) /\ SizeIn(file.ops, op - 1, j) \in Nat \ {0}
      /\ IsFiniteSet(live)
  BY <1>1, <1>2, LiveSizes
<1>4. \A j \in live : sizes[j] \in Nat \ {0}
  BY <1>3 DEF SizesIn
<1>5. \A j \in live : blk[j] \in [at : Int, size : Nat]
  BY <1>3 DEF Going, Blocks
<1> QED
  BY <1>2, <1>3, <1>4, <1>5 DEF Going, Memory

\* The sizes after a request.
LEMMA SizesStep ==
  ASSUME NEW file, Readable(file), NEW op \in 1 .. Len(file.ops), NEW request, request = file.ops[op],
         NEW index, index = request.index,
         NEW live, live = LiveIn(file, op - 1), NEW sizes, sizes = SizesIn(file, op - 1),
         NEW live2, live2 = LiveIn(file, op), NEW sizes2, sizes2 = SizesIn(file, op)
  PROVE  /\ index \in IdsIn(file) /\ index \in Nat /\ request.size \in Nat
         /\ request.type \in {"a", "r", "f"}
         /\ request.type = "a" => index \notin live
         /\ request.type = "r" => index \in live /\ request.size > 0
         /\ request.type = "f" => index \in live /\ live2 = Less(live, index)
         /\ request.type # "f" => sizes2[index] = request.size
         /\ request.type # "f" /\ request.size > 0 => live2 = More(Less(live, index), index)
                                                      /\ live2 = More(live, index)
         /\ request.type # "f" /\ request.size = 0 => live2 = live
         /\ \A j \in IdsIn(file) : j # index => sizes2[j] = sizes[j]
         /\ \A j \in Less(live, index) : sizes2[j] = sizes[j]
<1>1. /\ index \in IdsIn(file) /\ request.size \in Nat
      /\ request.type \in {"a", "r", "f"}
      /\ request.type = "a" => index \notin live
      /\ request.type = "r" => index \in live /\ request.size > 0
      /\ request.type = "f" => index \in live
      /\ \A j : SizeIn(file.ops, op, j) = IF j = index THEN Sets(request) ELSE SizeIn(file.ops, op - 1, j)
      /\ live2 = IF Sets(request) > 0 THEN More(live, index) ELSE Less(live, index)
  <2>1. /\ request.index \in IdsIn(file) /\ request.size \in Nat
        /\ request.type \in {"a", "r", "f"}
    BY ONLY Readable(file), op \in 1 .. Len(file.ops), request = file.ops[op], RequestStep
  <2>2. /\ request.type = "a" => request.index \notin LiveIn(file, op - 1)
        /\ request.type = "r" => request.index \in LiveIn(file, op - 1) /\ request.size > 0
        /\ request.type = "f" => request.index \in LiveIn(file, op - 1)
    BY ONLY Readable(file), op \in 1 .. Len(file.ops), request = file.ops[op], RequestStep
  <2>3. Resizes(file.ops, op, request)
    BY ONLY Readable(file), op \in 1 .. Len(file.ops), request = file.ops[op], RequestStep
  <2>4. Moves(LiveIn(file, op - 1), LiveIn(file, op), request)
    BY ONLY Readable(file), op \in 1 .. Len(file.ops), request = file.ops[op], RequestStep
  <2> QED
    BY <2>1, <2>2, <2>3, <2>4 DEF Moves, Resizes
<1>2. Sets(request) = IF request.type = "f" THEN 0 ELSE request.size
  BY DEF Sets
<1>3. index \in Nat
  BY <1>1 DEF IdsIn
<1>4. \A j \in IdsIn(file) : /\ sizes2[j] = SizeIn(file.ops, op, j) /\ sizes[j] = SizeIn(file.ops, op - 1, j)
                             /\ j # index => sizes2[j] = sizes[j]
  BY <1>1 DEF SizesIn
<1>5. \A j \in live : j \in IdsIn(file)
  BY DEF LiveIn
<1>6. request.type # "f" /\ request.size = 0 => live2 = live
  BY <1>1, <1>2 DEF Less, More
<1>7. request.type # "f" /\ request.size > 0 => live2 = More(Less(live, index), index) /\ live2 = More(live, index)
  BY <1>1, <1>2 DEF Less, More
<1>8. request.type = "f" => live2 = Less(live, index)
  BY <1>1, <1>2
<1>9. request.type # "f" => sizes2[index] = request.size
  BY <1>1, <1>2, <1>4
<1> QED
  BY <1>1, <1>3, <1>4, <1>5, <1>6, <1>7, <1>8, <1>9 DEF Less, More

\* What the allocator answers to the request for a block or another one.
Asked(new) ==
  \/ Request.type = "a" /\ new \in MallocAnswers(Request.size)
  \/ Request.type = "r" /\ new \in ReallocAnswers(blocks[Request.index].at, Request.size)

Allocators == args.allocator \in {"book", "any"}

\* What either allocator answers to the current request.
LEMMA Answered ==
  ASSUME Allocators, Going(args.allocator, Trace, opnum, heap, blocks), opnum <= num_ops,
         NEW new, Asked(new),
         NEW live, live = LiveIn(Trace, opnum - 1), NEW sizes, sizes = SizesIn(Trace, opnum - 1)
  PROVE  /\ Memory(new.h) /\ new.p \in Nat /\ heap.brk <= new.h.brk
         /\ args.allocator = "any" => /\ new.h.brk = Base + Wild
                                      /\ stage # "valid" /\ new.p # NULL => new.p >= Base
         /\ args.allocator = "book" => \/ new = [h |-> heap, p |-> NULL]
                                       \/ /\ Request.size > 0 /\ new.p # NULL /\ new.p >= Base
                                          /\ Got(heap, live, sizes, blocks, Request.index, Request.size, new)
<1> PICK file : file = Trace
  OBVIOUS
<1> PICK op : op = opnum
  OBVIOUS
<1>1. Going(args.allocator, file, op, heap, blocks)
  OBVIOUS
<1>2. /\ live \in SUBSET IdsIn(file) /\ IsFiniteSet(live)
      /\ \A j \in live : sizes[j] \in Nat \ {0}
      /\ \A j \in live : blocks[j] \in [at : Int, size : Nat]
      /\ heap.brk \in Nat
  BY <1>1, GoingParts
<1>3. op \in 1 .. Len(file.ops) /\ Readable(file) /\ Request = file.ops[op] /\ Memory(heap)
  <2>1. op \in 1 .. (Len(file.ops) + 1) /\ Readable(file) /\ Memory(heap)
    BY <1>1 DEF Going
  <2>2. Len(file.ops) \in Nat
    BY <2>1, ReadableParts
  <2> QED
    BY <2>1, <2>2 DEF Request, num_ops
<1> PICK request : request = Request
  OBVIOUS
<1> PICK index : index = request.index
  OBVIOUS
<1> PICK size : size = request.size
  OBVIOUS
<1>4. /\ index \in IdsIn(file) /\ index \in Nat /\ size \in Nat
      /\ request.type \in {"a", "r", "f"}
      /\ request.type = "a" => index \notin live
      /\ request.type = "r" => index \in live /\ size > 0
  <2> PICK live2 : live2 = LiveIn(file, op)
    OBVIOUS
  <2> PICK sizes2 : sizes2 = SizesIn(file, op)
    OBVIOUS
  <2> QED
    BY <1>3, SizesStep
<1>5. CASE args.allocator = "book"
  <2>1. PICK S : Placed(heap, S, live, sizes, blocks)
    BY <1>1, <1>5 DEF Going, Settled
  <2>2. \A j \in live : sizes[j] \in Nat
    BY <1>2
  <2>3. CASE request.type = "a"
    <3>1. new = mm_malloc(heap, size)
      BY <1>5, <2>3 DEF Asked, MallocAnswers
    <3>2. index \notin live
      BY <1>4, <2>3
    <3>3. \/ new = [h |-> heap, p |-> NULL]
          \/ /\ size > 0 /\ new.p # NULL /\ new.p \in Nat /\ new.p >= Base /\ Memory(new.h)
             /\ heap.brk <= new.h.brk /\ Got(heap, live, sizes, blocks, index, size, new)
      BY <1>4, <2>1, <2>2, <3>1, <3>2, GotMalloc
    <3> QED
      BY <1>2, <1>3, <1>5, <3>3 DEF NULL
  <2>4. CASE request.type = "r"
    <3>1. new = mm_realloc(heap, blocks[index].at, size)
      BY <1>5, <2>4 DEF Asked, ReallocAnswers
    <3>2. index \in live
      BY <1>4, <2>4
    <3>3. \/ new = [h |-> heap, p |-> NULL]
          \/ /\ size > 0 /\ new.p # NULL /\ new.p \in Nat /\ new.p >= Base /\ Memory(new.h)
             /\ heap.brk <= new.h.brk /\ Got(heap, live, sizes, blocks, index, size, new)
      BY <1>4, <2>1, <2>2, <3>1, <3>2, GotRealloc
    <3> QED
      BY <1>2, <1>3, <1>5, <3>3 DEF NULL
  <2> QED
    BY <2>3, <2>4 DEF Asked
<1>6. CASE args.allocator # "book"
  <2>1. args.allocator = "any" /\ heap.brk = Base + Wild /\ Wild \in Nat /\ Wild <= MAX_HEAP /\ MAX_HEAP \in Nat
    BY <1>1, <1>6, MdriverAssumption, MmbookAssumption DEF Allocators, Going
  <2>2. \A a \in Answers : a \in Nat /\ (stage # "valid" /\ a # NULL => a >= Base)
    BY <2>1 DEF Answers, Anywhere, NULL, Base
  <2>3. CASE \E a \in Answers : new = [h |-> heap, p |-> a]
    BY <1>2, <1>3, <2>1, <2>2, <2>3
  <2>4. CASE /\ request.type = "r"
             /\ \E a \in Answers : /\ new = [h |-> memcpy(heap, a, blocks[index].at, size), p |-> a]
                                   /\ a >= Base /\ blocks[index].at + size <= heap.brk
    <3>1. PICK a \in Answers : /\ new = [h |-> memcpy(heap, a, blocks[index].at, size), p |-> a]
                               /\ a >= Base /\ blocks[index].at + size <= heap.brk
      BY <2>4
    <3> PICK ptr : ptr = blocks[index].at
      OBVIOUS
    <3>2. PICK h2 : h2 = memcpy(heap, a, ptr, size)
      OBVIOUS
    <3>3. index \in live /\ ptr \in Nat /\ ptr >= Base
      BY <1>1, <1>4, <2>4 DEF Going
    <3>4. ptr + size <= Base + MAX_HEAP /\ a \in Nat
      BY <1>4, <2>1, <2>2, <3>1, <3>3 DEF Base
    <3>5. Memory(h2) /\ h2.brk = heap.brk
      <4>1. Memory(heap) /\ size \in Nat /\ ptr \in Nat /\ a \in Nat /\ ptr >= Base
            /\ ptr + size <= Base + MAX_HEAP
        BY <1>3, <1>4, <3>3, <3>4
      <4> QED
        BY ONLY <3>2, <4>1, Copied
    <3>6. new.h = h2 /\ new.p = a
      BY <3>1, <3>2
    <3> QED
      BY <1>2, <2>1, <2>2, <3>5, <3>6
  <2> QED
    BY <1>6, <2>3, <2>4 DEF Asked, MallocAnswers, ReallocAnswers
<1> QED
  BY <1>5, <1>6

\* The answer new to the request is a block.
Good(allocator, h, live, sizes, blk, request, new) ==
  /\ Memory(new.h) /\ new.p \in Nat /\ new.p >= Base /\ h.brk <= new.h.brk
  /\ allocator = "any" => new.h.brk = Base + Wild
  /\ allocator = "book" => request.size > 0 /\ Got(h, live, sizes, blk, request.index, request.size, new)

\* A request for a block that gets one.
LEMMA Advance ==
  ASSUME NEW allocator, NEW file, NEW op, NEW h, NEW blk, Going(allocator, file, op, h, blk),
         op <= Len(file.ops), NEW request, request = file.ops[op], request.type # "f",
         NEW live, live = LiveIn(file, op - 1), NEW sizes, sizes = SizesIn(file, op - 1),
         NEW new, Good(allocator, h, live, sizes, blk, request, new), NEW size \in Nat,
         NEW blk2, blk2 = [blk EXCEPT ![request.index] = [at |-> new.p, size |-> size]],
         NEW op2, op2 = op + 1, NEW h2, h2 = new.h, NEW sizes2, sizes2 = SizesIn(file, op)
  PROVE  /\ Going(allocator, file, op2, h2, blk2)
         /\ allocator = "book" /\ Filled(h, live, sizes, blk) => Filled(h2, Less(live, request.index), sizes2, blk2)
<1> PICK index : index = request.index
  OBVIOUS
<1> PICK live2 : live2 = LiveIn(file, op)
  OBVIOUS
<1>1. /\ op \in 1 .. Len(file.ops) /\ Readable(file) /\ op2 \in 1 .. (Len(file.ops) + 1) /\ op2 - 1 = op
      /\ blk \in Blocks(IdsIn(file)) /\ \A j \in live : blk[j].at \in Nat /\ blk[j].at >= Base
  <2>1. Readable(file) /\ op \in 1 .. (Len(file.ops) + 1)
    BY DEF Going
  <2>2. Len(file.ops) \in Nat
    BY <2>1, ReadableParts
  <2> QED
    BY <2>1, <2>2 DEF Going
<1>2. live \in SUBSET IdsIn(file)
  BY GoingParts
<1>3. /\ index \in IdsIn(file) /\ request.size \in Nat
      /\ request.type # "f" => sizes2[index] = request.size
      /\ request.type # "f" /\ request.size > 0 => live2 = More(Less(live, index), index)
      /\ request.type # "f" /\ request.size = 0 => live2 = live
      /\ \A j \in Less(live, index) : sizes2[j] = sizes[j]
  <2>1. /\ op \in 1 .. Len(file.ops) /\ Readable(file) /\ request = file.ops[op] /\ index = request.index
        /\ live = LiveIn(file, op - 1) /\ sizes = SizesIn(file, op - 1)
        /\ live2 = LiveIn(file, op) /\ sizes2 = SizesIn(file, op)
    BY <1>1
  <2> QED
    BY ONLY <2>1, SizesStep
<1>4. blk2 \in Blocks(IdsIn(file))
  BY <1>1, <1>3 DEF Blocks, Good
<1> PICK rest : rest = Less(live, index)
  OBVIOUS
<1>5. blk2[index].at = new.p /\ \A j \in rest : blk2[j].at = blk[j].at
  BY <1>1, <1>2, <1>3 DEF Blocks, Less, More
<1>6. \A j \in live2 : j \in More(live, index)
  BY <1>3 DEF Less, More
<1>7. \A j \in live2 : blk2[j].at \in Nat /\ blk2[j].at >= Base
  BY <1>1, <1>5, <1>6 DEF Good, Less, More
<1>8. CASE allocator = "book"
  <2>1. request.size > 0 /\ Got(h, live, sizes, blk, index, request.size, new)
    BY <1>8 DEF Good
  <2>2. /\ rest = Less(live, index) /\ live2 = More(rest, index) /\ sizes2[index] = request.size
        /\ \A j \in rest : sizes2[j] = sizes[j]
    BY <1>3, <2>1
  <2>3. /\ Settled(h2, live2, sizes2, blk2)
        /\ Filled(h, live, sizes, blk) => Filled(h2, rest, sizes2, blk2)
    BY ONLY <1>5, <2>1, <2>2, h2 = new.h, GotPlaced
  <2>4. LiveIn(file, op2 - 1) = live2 /\ SizesIn(file, op2 - 1) = sizes2
    BY <1>1
  <2>5. Going(allocator, file, op2, h2, blk2)
    BY <1>1, <1>4, <1>7, <1>8, <2>3, <2>4 DEF Going, Good
  <2> QED
    BY <2>2, <2>3, <2>5
<1>9. CASE allocator # "book"
  <2>4. LiveIn(file, op2 - 1) = live2
    BY <1>1
  <2> QED
    BY <1>1, <1>4, <1>7, <1>9, <2>4 DEF Going, Good
<1> QED
  BY <1>8, <1>9

\* The payload of the last request before op is filled.
FillsLast(file, op, h, blk, request, lo, val, size, h2) ==
  /\ 1 < op /\ request = file.ops[op - 1] /\ request.type # "f" /\ request.size > 0
  /\ lo = blk[request.index].at /\ val = LowByte(request.index) /\ size = request.size
  /\ h2 = memset(h, lo, val, size)

\* The payload of the last request is filled.
LEMMA AdvanceFilled ==
  ASSUME NEW allocator, NEW file, NEW op, NEW h, NEW blk, Going(allocator, file, op, h, blk),
         NEW request, NEW lo, NEW val, NEW size, NEW h2, FillsLast(file, op, h, blk, request, lo, val, size, h2),
         NEW live, live = LiveIn(file, op - 1), NEW sizes, sizes = SizesIn(file, op - 1)
  PROVE  /\ Going(allocator, file, op, h2, blk) /\ h2.brk = h.brk
         /\ allocator = "book" /\ Filled(h, Less(live, request.index), sizes, blk) => Filled(h2, live, sizes, blk)
<1> SUFFICES ASSUME 1 < op, request = file.ops[op - 1], request.type # "f", request.size > 0,
                    lo = blk[request.index].at, val = LowByte(request.index), size = request.size,
                    h2 = memset(h, lo, val, size)
             PROVE  /\ Going(allocator, file, op, h2, blk) /\ h2.brk = h.brk
                    /\ allocator = "book" /\ Filled(h, Less(live, request.index), sizes, blk) =>
                         Filled(h2, live, sizes, blk)
  BY DEF FillsLast
<1> PICK index : index = request.index
  OBVIOUS
<1> PICK k : k = op - 1
  OBVIOUS
<1>1. Readable(file) /\ k \in 1 .. Len(file.ops) /\ Memory(h) /\ k - 1 = op - 2
  <2>1. Readable(file) /\ op \in 1 .. (Len(file.ops) + 1) /\ Memory(h)
    BY DEF Going
  <2>2. Len(file.ops) \in Nat
    BY <2>1, ReadableParts
  <2> QED
    <3> PICK n \in Nat : n = Len(file.ops)
      BY <2>2
    <3>1. k \in 1 .. n /\ k - 1 = op - 2
      BY ONLY <2>1, 1 < op, k = op - 1, n = Len(file.ops), n \in Nat
    <3> QED
      BY <2>1, <3>1
<1>2. \A j \in live : sizes[j] \in Nat
  <2>1. live = LiveIn(file, op - 1) /\ sizes = SizesIn(file, op - 1)
    OBVIOUS
  <2>2. \A j \in live : sizes[j] \in Nat \ {0}
    BY ONLY Going(allocator, file, op, h, blk), <2>1, GoingParts
  <2> QED
    BY <2>2
<1>3. index \in Nat /\ size \in Nat /\ index \in live /\ sizes[index] = size
  <2> PICK live1 : live1 = LiveIn(file, k - 1)
    OBVIOUS
  <2> PICK sizes1 : sizes1 = SizesIn(file, k - 1)
    OBVIOUS
  <2>1. /\ index \in Nat /\ request.size \in Nat
        /\ request.type # "f" => sizes[index] = request.size
        /\ request.type # "f" /\ request.size > 0 => live = More(Less(live1, index), index)
    <3>1. /\ k \in 1 .. Len(file.ops) /\ Readable(file) /\ request = file.ops[k] /\ index = request.index
          /\ live1 = LiveIn(file, k - 1) /\ sizes1 = SizesIn(file, k - 1)
          /\ live = LiveIn(file, k) /\ sizes = SizesIn(file, k)
      BY <1>1
    <3> QED
      BY ONLY <3>1, SizesStep
  <2> QED
    BY <2>1 DEF Less, More
<1>4. val \in Nat
  <2>1. BYTE \in Nat \ {0} /\ val = index % BYTE
    BY MdriverAssumption DEF LowByte
  <2> QED
    BY ONLY <1>3, <2>1
<1>5. lo \in Nat
  BY <1>3 DEF Going
<1>6. Fills(h, h2, Cells(lo, size), val)
  BY ONLY <1>1, <1>3, <1>4, <1>5, h2 = memset(h, lo, val, size), Filling
<1>7. Memory(h2) /\ h2.brk = h.brk
  BY <1>6 DEF Fills
<1>8. CASE allocator = "book"
  <2>1. PICK S : Placed(h, S, live, sizes, blk)
    BY <1>8 DEF Going, Settled
  <2>2. lo = blk[index].at /\ val = LowByte(index)
    OBVIOUS
  <2> PICK rest : rest = Less(live, index)
    OBVIOUS
  <2>3. rest = Less(live, index) /\ index \in live /\ index \in Nat /\ size = sizes[index]
    BY <1>3
  <2>4. /\ Placed(h2, S, live, sizes, blk)
        /\ Filled(h, rest, sizes, blk) => Filled(h2, live, sizes, blk)
    <3>1. Refilled(h, h2, S, live, index, sizes, blk)
      BY ONLY <1>2, <2>1, <2>2, <2>3, h2 = memset(h, lo, val, size), FilledMore
    <3> QED
      BY <2>3, <3>1 DEF Refilled
  <2>5. Going(allocator, file, op, h2, blk)
    BY <1>1, <1>7, <1>8, <2>4 DEF Going, Settled
  <2> QED
    BY <1>7, <2>4, <2>5
<1>9. CASE allocator # "book"
  BY <1>1, <1>7, <1>9 DEF Going
<1> QED
  BY <1>8, <1>9

\* A step of a trace from the heap h and the blocks blk; of all payloads but
\* those of rest, the data may be new.
Onward(allocator, file, op, h, blk, op2, h2, blk2, rest) ==
  /\ Going(allocator, file, op2, h2, blk2) /\ h.brk <= h2.brk
  /\ allocator = "book" /\ Filled(h, LiveIn(file, op - 1), SizesIn(file, op - 1), blk) =>
       Filled(h2, rest, SizesIn(file, op), blk2)

\* A request to free a block.
LEMMA Freed ==
  ASSUME NEW allocator, NEW file, NEW op, NEW h, NEW blk, Going(allocator, file, op, h, blk),
         op <= Len(file.ops), NEW request, request = file.ops[op], request.type = "f",
         NEW ptr, ptr = blk[request.index].at,
         NEW h2, h2 = IF allocator = "book" THEN mm_free(h, ptr) ELSE h,
         NEW op2, op2 = op + 1
  PROVE  Onward(allocator, file, op, h, blk, op2, h2, blk, LiveIn(file, op))
<1> PICK index : index = request.index
  OBVIOUS
<1> PICK live : live = LiveIn(file, op - 1)
  OBVIOUS
<1> PICK sizes : sizes = SizesIn(file, op - 1)
  OBVIOUS
<1> PICK live2 : live2 = LiveIn(file, op)
  OBVIOUS
<1> PICK sizes2 : sizes2 = SizesIn(file, op)
  OBVIOUS
<1>1. /\ op \in 1 .. Len(file.ops) /\ Readable(file) /\ op2 \in 1 .. (Len(file.ops) + 1) /\ op2 - 1 = op
      /\ blk \in Blocks(IdsIn(file)) /\ \A j \in live : blk[j].at \in Nat /\ blk[j].at >= Base
      /\ Memory(h)
  <2>1. Readable(file) /\ op \in 1 .. (Len(file.ops) + 1)
    BY DEF Going
  <2>2. Len(file.ops) \in Nat
    BY <2>1, ReadableParts
  <2> QED
    BY <2>1, <2>2 DEF Going
<1>2. \A j \in live : sizes[j] \in Nat
  BY GoingParts
<1>3. /\ request.type = "f" => index \in live /\ live2 = Less(live, index)
      /\ \A j \in Less(live, index) : sizes2[j] = sizes[j]
  BY <1>1, SizesStep
<1>4. \A j \in live2 : blk[j].at \in Nat /\ blk[j].at >= Base /\ sizes2[j] = sizes[j]
  BY <1>1, <1>3 DEF Less
<1>5. LiveIn(file, op2 - 1) = live2 /\ SizesIn(file, op2 - 1) = sizes2
  BY <1>1
<1>6. CASE allocator = "book"
  <2>1. PICK S : Placed(h, S, live, sizes, blk)
    BY <1>6 DEF Going, Settled
  <2>2. h2 = mm_free(h, ptr) /\ ptr = blk[index].at /\ index \in live
    BY <1>3, <1>6
  <2>3. GaveUp(h, h2, live, index, sizes, blk)
    BY ONLY <1>2, <2>1, <2>2, GivenUp
  <2>4. Settled(h2, live2, sizes2, blk)
    <3>1. PICK S2 : Placed(h2, S2, Less(live, index), sizes, blk)
      BY <2>3 DEF GaveUp, Settled
    <3>2. Less(live, index) = live2
      BY <1>3
    <3>3. Placed(h2, S2, live2, sizes2, blk)
      BY <1>4, <3>1, <3>2 DEF Placed
    <3> QED
      BY <3>3 DEF Settled
  <2>5. Filled(h, live, sizes, blk) => Filled(h2, live2, sizes2, blk)
    BY <1>3, <1>4, <2>3 DEF GaveUp, Filled
  <2>6. Memory(h2) /\ h.brk <= h2.brk
    BY <2>3 DEF GaveUp
  <2>7. Going(allocator, file, op2, h2, blk)
    BY <1>1, <1>4, <1>5, <1>6, <2>4, <2>6 DEF Going
  <2> QED
    BY <2>5, <2>6, <2>7 DEF Onward
<1>7. CASE allocator # "book"
  <2>1. Going(allocator, file, op2, h2, blk)
    BY <1>1, <1>4, <1>5, <1>7 DEF Going
  <2>2. h.brk <= h2.brk
    BY <1>1, <1>7 DEF Memory
  <2> QED
    BY <1>7, <2>1, <2>2 DEF Onward
<1> QED
  BY <1>6, <1>7

\* A trace begins with an empty heap and no payload.
LEMMA Started ==
  ASSUME Allocators, NEW file, Readable(file), NEW h, Memory(h), h.brk = Base,
         NEW start \in InitAnswers(h), NEW blk \in Blocks(IdsIn(file)),
         NEW h2, h2 = start.h, NEW first, first = 1
  PROVE  /\ Memory(h2) /\ start.p \in {0, -1}
         /\ start.p >= 0 => Going(args.allocator, file, first, h2, blk)
<1>1. LiveIn(file, first - 1) = {} /\ first \in 1 .. (Len(file.ops) + 1)
  <2>1. Len(file.ops) \in Nat
    BY ReadableParts
  <2>2. LiveIn(file, 0) = {}
    <3>1. PICK zero : zero = 0
      OBVIOUS
    <3>2. zero \in 0 .. Len(file.ops)
      BY <2>1, <3>1
    <3> QED
      BY <3>2, LiveSizes
  <2> QED
    BY <2>1, <2>2
<1>2. CASE args.allocator = "book"
  <2>1. start = mm_init(h)
    BY <1>2 DEF InitAnswers
  <2>2. Memory(start.h) /\ (start.p = -1 \/ (start.p = 0 /\ \E S : Tiled(start.h, S)))
    BY ONLY Memory(h), h.brk = Base, <2>1, InitHeap
  <2>3. start.p = 0 => Settled(h2, LiveIn(file, first - 1), SizesIn(file, first - 1), blk)
    BY <1>1, <2>2 DEF Settled, Placed
  <2> QED
    BY <1>1, <1>2, <2>2, <2>3 DEF Going
<1>3. CASE args.allocator # "book"
  <2>1. args.allocator = "any" /\ Wild \in Nat
    BY <1>3, MdriverAssumption, MmbookAssumption DEF Allocators
  <2>2. \/ start = [h |-> h, p |-> -1]
        \/ start = [h |-> [h EXCEPT !.brk = Base + Wild], p |-> 0]
    BY <1>3 DEF InitAnswers
  <2>3. CASE start = [h |-> h, p |-> -1]
    BY <2>3
  <2>4. CASE start = [h |-> [h EXCEPT !.brk = Base + Wild], p |-> 0]
    <3>1. h2 = [h EXCEPT !.brk = Base + Wild] /\ start.p = 0
      BY <2>4
    <3>2. Memory(h2) /\ h2.brk = Base + Wild
      BY <2>1, <3>1 DEF Memory, Base
    <3> QED
      BY <1>1, <2>1, <3>1, <3>2 DEF Going
  <2> QED
    BY <2>2, <2>3, <2>4
<1> QED
  BY <1>2, <1>3

\* The answer new, not NULL, to the request.
Given(allocator, h, live, sizes, blk, request, new) ==
  /\ Memory(new.h) /\ new.p \in Nat /\ h.brk <= new.h.brk
  /\ allocator = "any" => new.h.brk = Base + Wild
  /\ allocator = "book" => /\ request.size > 0 /\ new.p >= Base
                           /\ Got(h, live, sizes, blk, request.index, request.size, new)

\* An answer that is not NULL is Given, and Good when eval_mm_valid took the requests before it.
LEMMA AnswerGiven ==
  ASSUME Allocators, Going(args.allocator, Trace, opnum, heap, blocks), opnum <= num_ops,
         NEW new, Asked(new),
         NEW live, live = LiveIn(Trace, opnum - 1), NEW sizes, sizes = SizesIn(Trace, opnum - 1)
  PROVE  /\ Memory(new.h) /\ new.p \in Nat
         /\ new.p # NULL => Given(args.allocator, heap, live, sizes, blocks, Request, new)
         /\ stage # "valid" /\ new.p # NULL => Good(args.allocator, heap, live, sizes, blocks, Request, new)
<1>1. /\ Memory(new.h) /\ new.p \in Nat /\ heap.brk <= new.h.brk
      /\ args.allocator = "any" => /\ new.h.brk = Base + Wild
                                   /\ stage # "valid" /\ new.p # NULL => new.p >= Base
      /\ args.allocator = "book" => \/ new = [h |-> heap, p |-> NULL]
                                    \/ /\ Request.size > 0 /\ new.p # NULL /\ new.p >= Base
                                       /\ Got(heap, live, sizes, blocks, Request.index, Request.size, new)
  BY Answered
<1>2. args.allocator \in {"book", "any"}
  BY DEF Allocators
<1> QED
  BY <1>1, <1>2 DEF Given, Good

-----------------------------------------------------------------------------
(* The requests that eval_mm_valid accepts. *)

\* The blocks and the list after the requests of file before op.
Listed(allocator, file, op, h, blk, list) ==
  /\ Accepted(LiveIn(file, op - 1), SizesIn(file, op - 1), blk, list, h.brk)
  /\ allocator = "book" => Filled(h, LiveIn(file, op - 1), SizesIn(file, op - 1), blk)

\* The list that the new payload is added to.
Before(request, list, blk) == IF request.type = "a" THEN list ELSE remove_range(list, blk[request.index].at)

\* It has the payloads of all other indexes.
LEMMA OthersListed ==
  ASSUME NEW allocator, NEW file, NEW op, NEW h, NEW blk, Going(allocator, file, op, h, blk),
         op <= Len(file.ops), NEW request, request = file.ops[op], request.type # "f",
         NEW live, live = LiveIn(file, op - 1), NEW sizes, sizes = SizesIn(file, op - 1),
         NEW list, Accepted(live, sizes, blk, list, h.brk)
  PROVE  Accepted(Less(live, request.index), sizes, blk, Before(request, list, blk), h.brk)
<1> PICK index : index = request.index
  OBVIOUS
<1> PICK live2 : live2 = LiveIn(file, op)
  OBVIOUS
<1> PICK sizes2 : sizes2 = SizesIn(file, op)
  OBVIOUS
<1>1. op \in 1 .. Len(file.ops) /\ Readable(file) /\ blk \in Blocks(IdsIn(file))
  <2>1. Readable(file) /\ op \in 1 .. (Len(file.ops) + 1) /\ blk \in Blocks(IdsIn(file))
    BY DEF Going
  <2>2. Len(file.ops) \in Nat
    BY <2>1, ReadableParts
  <2> QED
    BY <2>1, <2>2
<1>2. /\ live \in SUBSET IdsIn(file) /\ IsFiniteSet(live)
      /\ \A j \in live : sizes[j] \in Nat \ {0}
      /\ h.brk \in Nat
  BY GoingParts
<1>3. /\ request.type \in {"a", "r", "f"}
      /\ request.type = "a" => index \notin live
      /\ request.type = "r" => index \in live
  BY <1>1, SizesStep
<1>4. CASE request.type = "a"
  <2>1. Less(live, index) = live /\ Before(request, list, blk) = list
    BY <1>3, <1>4 DEF Less, Before
  <2> QED
    BY <2>1
<1>5. CASE request.type = "r"
  <2> PICK brk : brk = h.brk
    OBVIOUS
  <2> PICK ids : ids = IdsIn(file)
    OBVIOUS
  <2> PICK list2 : list2 = remove_range(list, blk[index].at)
    OBVIOUS
  <2>1. /\ live \in SUBSET ids /\ IsFiniteSet(live) /\ \A j \in live : sizes[j] \in Nat \ {0}
        /\ blk \in Blocks(ids) /\ brk \in Int /\ Accepted(live, sizes, blk, list, brk) /\ index \in live
    BY <1>1, <1>2, <1>3, <1>5
  <2>2. Accepted(Less(live, index), sizes, blk, list2, brk)
    BY ONLY <2>1, list2 = remove_range(list, blk[index].at), AcceptLess
  <2> QED
    BY <1>5, <2>2 DEF Before
<1> QED
  BY <1>3, <1>4, <1>5

Puts(blk, blk2, index, at, size) == blk2 = [blk EXCEPT ![index] = [at |-> at, size |-> size]]

Done(allocator, file, op, h, blk, list) ==
  Going(allocator, file, op, h, blk) /\ Listed(allocator, file, op, h, blk, list)

\* The answer new to an "a" or "r" request is taken: it goes in the list and is filled.
Remembers(allocator, file, op, h, blk, request, list, new, lo, h1, size, added, op2, blk2, val, h2) ==
  /\ Going(allocator, file, op, h, blk) /\ Listed(allocator, file, op, h, blk, list)
  /\ op <= Len(file.ops) /\ request = file.ops[op] /\ request.type # "f" /\ request.size > 0
  /\ Given(allocator, h, LiveIn(file, op - 1), SizesIn(file, op - 1), blk, request, new)
  /\ lo = new.p /\ h1 = new.h /\ size = request.size
  /\ added = add_range(Before(request, list, blk), lo, size, h1) /\ added.ok
  /\ op2 = op + 1 /\ Puts(blk, blk2, request.index, lo, size)
  /\ val = LowByte(request.index) /\ h2 = memset(h1, lo, val, size)

\* A payload that is accepted is in the list, and filled.
LEMMA ListedMore ==
  ASSUME NEW allocator, NEW file, NEW op, NEW h, NEW blk, NEW request, NEW list, NEW new, NEW lo, NEW h1, NEW size,
         NEW added, NEW op2, NEW blk2, NEW val, NEW h2,
         Remembers(allocator, file, op, h, blk, request, list, new, lo, h1, size, added, op2, blk2, val, h2)
  PROVE  Done(allocator, file, op2, h2, blk2, added.list)
<1> PICK live : live = LiveIn(file, op - 1)
  OBVIOUS
<1> PICK sizes : sizes = SizesIn(file, op - 1)
  OBVIOUS
<1> SUFFICES ASSUME Going(allocator, file, op, h, blk),
                    op <= Len(file.ops), request = file.ops[op], request.type # "f", request.size > 0,
                    Listed(allocator, file, op, h, blk, list),
                    Given(allocator, h, live, sizes, blk, request, new), lo = new.p, h1 = new.h,
                    size = request.size,
                    added = add_range(Before(request, list, blk), lo, size, h1), added.ok,
                    op2 = op + 1, Puts(blk, blk2, request.index, lo, size),
                    val = LowByte(request.index), h2 = memset(h1, lo, val, size)
             PROVE  Done(allocator, file, op2, h2, blk2, added.list)
  BY DEF Remembers
<1> PICK list2 : list2 = added.list
  OBVIOUS
<1> PICK index : index = request.index
  OBVIOUS
<1> PICK live2 : live2 = LiveIn(file, op)
  OBVIOUS
<1> PICK sizes2 : sizes2 = SizesIn(file, op)
  OBVIOUS
<1> PICK rest : rest = Less(live, index)
  OBVIOUS
<1> PICK ids : ids = IdsIn(file)
  OBVIOUS
<1> PICK list1 : list1 = Before(request, list, blk)
  OBVIOUS
<1>1. /\ op \in 1 .. Len(file.ops) /\ Readable(file) /\ blk \in Blocks(ids) /\ op2 - 1 = op /\ 1 < op2
      /\ op2 \in Int
  <2>1. Readable(file) /\ op \in 1 .. (Len(file.ops) + 1) /\ blk \in Blocks(ids)
    BY DEF Going
  <2>2. Len(file.ops) \in Nat
    BY <2>1, ReadableParts
  <2> QED
    BY <2>1, <2>2
<1>2. /\ live \in SUBSET ids /\ IsFiniteSet(live)
      /\ \A j \in live : sizes[j] \in Nat \ {0}
      /\ h.brk \in Nat
  BY GoingParts
<1>3. /\ index \in ids /\ index \in Nat /\ request.size \in Nat
      /\ request.type # "f" => sizes2[index] = request.size
      /\ request.type # "f" /\ request.size > 0 => live2 = More(rest, index)
      /\ \A j \in rest : sizes2[j] = sizes[j]
  BY <1>1, SizesStep
<1>4. Accepted(rest, sizes, blk, list1, h.brk)
  <2>1. Accepted(live, sizes, blk, list, h.brk)
    BY DEF Listed
  <2> QED
    BY <2>1, OthersListed
<1>5. rest \in SUBSET ids /\ IsFiniteSet(rest) /\ index \notin rest /\ \A j \in rest : sizes[j] \in Nat \ {0}
  BY <1>2, FS_Subset DEF Less
<1>6. lo \in Nat /\ size \in Nat \ {0} /\ h1.brk \in Nat /\ h.brk <= h1.brk /\ Memory(h1)
  BY <1>3 DEF Given, Memory
<1>7. PICK block \in [at : Int, size : Nat] :
        block.at = lo /\ block.size = size /\ blk2[index] = block /\ \A j \in rest : blk2[j] = blk[j]
  <2>1. [at |-> lo, size |-> size] \in [at : Int, size : Nat]
    BY <1>6
  <2>2. blk2[index] = [at |-> lo, size |-> size] /\ \A j \in rest : blk2[j] = blk[j]
    BY <1>1, <1>3, <1>5 DEF Blocks, Puts
  <2> QED
    BY <2>1, <2>2
<1>8. Accepted(live2, sizes2, blk2, list2, h1.brk)
  <2> PICK brk : brk = h.brk
    OBVIOUS
  <2>1. /\ brk \in Int /\ Accepted(rest, sizes, blk, list1, brk) /\ lo \in Int /\ h1.brk \in Int /\ brk <= h1.brk
        /\ live2 = More(rest, index) /\ sizes2[index] = size /\ index \in ids /\ size \in Nat \ {0}
        /\ \A j \in rest : sizes2[j] = sizes[j]
    <3>1. live2 = More(rest, index) /\ sizes2[index] = size /\ index \in ids /\ \A j \in rest : sizes2[j] = sizes[j]
      BY <1>3
    <3>2. lo \in Int /\ size \in Nat \ {0} /\ h1.brk \in Int /\ brk \in Int /\ brk <= h1.brk
      BY <1>2, <1>6
    <3> QED
      BY <1>4, <3>1, <3>2
  <2>2. added = add_range(list1, lo, size, h1) /\ added.ok /\ blk \in Blocks(ids)
    BY <1>1
  <2>3. Taken(ids, rest, sizes, blk, list1, brk, index, lo, size, h1, added, blk2, live2, sizes2)
    BY ONLY <1>5, <1>7, <2>1, <2>2 DEF Taken
  <2>4. Accepted(live2, sizes2, blk2, added.list, h1.brk)
    BY ONLY <2>3, AcceptMore
  <2> QED
    BY <2>4
<1>9. lo >= Base
  <2>1. list1 \in Seq(Range1) /\ Distinct(list1) /\ lo \in Int /\ h1.brk \in Int
    BY <1>4, <1>6 DEF Accepted
  <2> PICK e : e = [lo |-> lo, hi |-> lo + size - 1]
    OBVIOUS
  <2>2. size \in Nat \ {0} /\ added = add_range(list1, lo, size, h1) /\ added.ok
    BY <1>6
  <2> QED
    BY ONLY <2>1, <2>2, e = [lo |-> lo, hi |-> lo + size - 1], AddRange
<1>10. Good(allocator, h, live, sizes, blk, request, new)
  BY <1>9 DEF Given, Good
<1>11. /\ Going(allocator, file, op2, h1, blk2)
       /\ allocator = "book" /\ Filled(h, live, sizes, blk) => Filled(h1, rest, sizes2, blk2)
  <2>1. size \in Nat /\ blk2 = [blk EXCEPT ![request.index] = [at |-> new.p, size |-> size]]
    BY <1>6 DEF Puts
  <2>2. request.type # "f" /\ op <= Len(file.ops) /\ request = file.ops[op] /\ h1 = new.h /\ op2 = op + 1
        /\ live = LiveIn(file, op - 1) /\ sizes = SizesIn(file, op - 1) /\ sizes2 = SizesIn(file, op)
    OBVIOUS
  <2> QED
    BY ONLY <1>10, <2>1, <2>2, Going(allocator, file, op, h, blk), rest = Less(live, index), index = request.index, Advance
<1>12. /\ Going(allocator, file, op2, h2, blk2) /\ h2.brk = h1.brk
       /\ allocator = "book" /\ Filled(h1, rest, sizes2, blk2) => Filled(h2, live2, sizes2, blk2)
  <2>1. /\ 1 < op2 /\ request = file.ops[op2 - 1] /\ live2 = LiveIn(file, op2 - 1) /\ sizes2 = SizesIn(file, op2 - 1)
        /\ rest = Less(live2, request.index) /\ lo = blk2[request.index].at
    <3>1. Less(More(rest, index), index) = rest
      BY <1>5 DEF Less, More
    <3> QED
      BY <1>1, <1>3, <1>7, <3>1
  <2> QED
    <3>1. FillsLast(file, op2, h1, blk2, request, lo, val, size, h2)
      BY <2>1 DEF FillsLast
    <3> QED
      BY ONLY <1>11, <2>1, <3>1, AdvanceFilled
<1>13. allocator = "book" => Filled(h2, live2, sizes2, blk2)
  BY <1>11, <1>12 DEF Listed
<1> QED
  BY <1>1, <1>8, <1>12, <1>13 DEF Listed, Done

\* A payload that is freed goes from the list.
LEMMA ListedLess ==
  ASSUME NEW allocator, NEW file, NEW op, NEW h, NEW blk, Going(allocator, file, op, h, blk),
         op <= Len(file.ops), NEW request, request = file.ops[op], request.type = "f",
         NEW list, Listed(allocator, file, op, h, blk, list),
         NEW ptr, ptr = blk[request.index].at,
         NEW h2, h2 = IF allocator = "book" THEN mm_free(h, ptr) ELSE h,
         NEW op2, op2 = op + 1, NEW list2, list2 = remove_range(list, ptr)
  PROVE  Done(allocator, file, op2, h2, blk, list2)
<1> PICK index : index = request.index
  OBVIOUS
<1> PICK live : live = LiveIn(file, op - 1)
  OBVIOUS
<1> PICK sizes : sizes = SizesIn(file, op - 1)
  OBVIOUS
<1> PICK live2 : live2 = LiveIn(file, op)
  OBVIOUS
<1> PICK sizes2 : sizes2 = SizesIn(file, op)
  OBVIOUS
<1> PICK ids : ids = IdsIn(file)
  OBVIOUS
<1>1. Onward(allocator, file, op, h, blk, op2, h2, blk, LiveIn(file, op))
  BY ONLY Going(allocator, file, op, h, blk), op <= Len(file.ops), request = file.ops[op], request.type = "f",
          ptr = blk[request.index].at, h2 = IF allocator = "book" THEN mm_free(h, ptr) ELSE h, op2 = op + 1, Freed
<1>2. op \in 1 .. Len(file.ops) /\ Readable(file) /\ blk \in Blocks(ids) /\ op2 - 1 = op
  <2>1. Readable(file) /\ op \in 1 .. (Len(file.ops) + 1) /\ blk \in Blocks(ids)
    BY DEF Going
  <2>2. Len(file.ops) \in Nat
    BY <2>1, ReadableParts
  <2> QED
    BY <2>1, <2>2
<1>3. /\ live \in SUBSET ids /\ IsFiniteSet(live) /\ \A j \in live : sizes[j] \in Nat \ {0}
      /\ h.brk \in Nat
  BY GoingParts
<1>4. /\ request.type = "f" => index \in live /\ live2 = Less(live, index)
      /\ \A j \in Less(live, index) : sizes2[j] = sizes[j]
  BY <1>2, SizesStep
<1>5. Accepted(live, sizes, blk, list, h.brk)
  BY DEF Listed
<1> PICK brk : brk = h.brk
  OBVIOUS
<1>6. Accepted(Less(live, index), sizes, blk, list2, brk)
  <2>1. brk \in Int /\ Accepted(live, sizes, blk, list, brk) /\ index \in live /\ blk \in Blocks(ids)
        /\ list2 = remove_range(list, blk[index].at)
    BY <1>2, <1>3, <1>4, <1>5
  <2> QED
    BY ONLY <1>3, <2>1, AcceptLess
<1>7. h2.brk \in Nat /\ brk <= h2.brk
  BY <1>1 DEF Onward, Going, Memory
<1>8. Accepted(live2, sizes2, blk, list2, h2.brk)
  <2>1. live2 = Less(live, index) /\ \A j \in live2 : sizes2[j] = sizes[j] /\ blk[j] \in [at : Int, size : Nat]
    BY <1>2, <1>3, <1>4 DEF Less, Blocks
  <2>2. Accepted(live2, sizes, blk, list2, brk)
    BY <1>6, <2>1
  <2>3. \A j \in live2 : /\ blk[j].size = sizes2[j] /\ blk[j].at % 2 = 0
                          /\ Base <= blk[j].at /\ blk[j].at + blk[j].size <= brk
    BY <2>1, <2>2 DEF Accepted
  <2>4. ASSUME NEW j \in live2 PROVE blk[j].at + blk[j].size <= h2.brk
    <3>1. blk[j].at \in Int /\ blk[j].size \in Nat /\ brk \in Nat
      BY <1>3, <2>1
    <3>2. blk[j].at + blk[j].size <= brk
      BY <2>3
    <3> QED
      BY ONLY <3>1, <3>2, <1>7
  <2> QED
    BY ONLY <2>2, <2>3, <2>4 DEF Accepted
<1>9. allocator = "book" => Filled(h2, live2, sizes2, blk)
  BY <1>1 DEF Onward, Listed
<1> QED
  BY <1>1, <1>2, <1>8, <1>9 DEF Onward, Listed, Done

\* A payload that is refused is not aligned, not in the heap or meets another,
\* and no payload of mmbook.c is.
LEMMA RefusedPayload ==
  ASSUME NEW allocator, NEW file, NEW op, NEW h, NEW blk, Going(allocator, file, op, h, blk),
         op <= Len(file.ops), NEW request, request = file.ops[op], request.type # "f", request.size > 0,
         NEW live, live = LiveIn(file, op - 1), NEW sizes, sizes = SizesIn(file, op - 1),
         NEW list, Listed(allocator, file, op, h, blk, list),
         NEW new, Given(allocator, h, live, sizes, blk, request, new), NEW lo, lo = new.p, NEW h1, h1 = new.h,
         NEW size, size = request.size,
         NEW added, added = add_range(Before(request, list, blk), lo, size, h1), ~added.ok
  PROVE  /\ allocator # "book"
         /\ \/ lo % 2 # 0 \/ ~(Cells(lo, size) \subseteq Base .. (h1.brk - 1))
            \/ \E j \in Less(live, request.index) : CellsOf(blk[j]) \cap Cells(lo, size) # {}
<1> PICK index : index = request.index
  OBVIOUS
<1> PICK live2 : live2 = LiveIn(file, op)
  OBVIOUS
<1> PICK sizes2 : sizes2 = SizesIn(file, op)
  OBVIOUS
<1> PICK rest : rest = Less(live, index)
  OBVIOUS
<1> PICK ids : ids = IdsIn(file)
  OBVIOUS
<1> PICK list1 : list1 = Before(request, list, blk)
  OBVIOUS
<1> PICK brk : brk = h.brk
  OBVIOUS
<1>1. op \in 1 .. Len(file.ops) /\ Readable(file) /\ blk \in Blocks(ids)
  <2>1. Readable(file) /\ op \in 1 .. (Len(file.ops) + 1) /\ blk \in Blocks(ids)
    BY DEF Going
  <2>2. Len(file.ops) \in Nat
    BY <2>1, ReadableParts
  <2> QED
    BY <2>1, <2>2
<1>2. live \in SUBSET ids /\ \A j \in live : sizes[j] \in Nat \ {0}
  BY GoingParts
<1>3. request.size \in Nat
  BY <1>1, SizesStep
<1>4. Accepted(rest, sizes, blk, list1, brk)
  <2>1. Accepted(live, sizes, blk, list, h.brk)
    BY DEF Listed
  <2> QED
    BY <2>1, OthersListed
<1>5. rest \in SUBSET ids /\ \A j \in rest : sizes[j] \in Nat \ {0}
  BY <1>2 DEF Less
<1>6. lo \in Int /\ size \in Nat \ {0} /\ h1.brk \in Int
  BY <1>3 DEF Given, Memory
<1>7. added = add_range(list1, lo, size, h1) /\ ~added.ok /\ blk \in Blocks(ids)
  BY <1>1
<1>8. \/ lo % 2 # 0 \/ ~(Cells(lo, size) \subseteq Base .. (h1.brk - 1))
      \/ \E j \in rest : CellsOf(blk[j]) \cap Cells(lo, size) # {}
  BY ONLY <1>4, <1>5, <1>6, <1>7, Refused
<1>9. ASSUME allocator = "book" PROVE FALSE
  <2>1. Got(h, live, sizes, blk, index, size, new)
    BY <1>9 DEF Given
  <2>2. PICK S : Placed(h1, S, rest, sizes, blk) /\ lo \in S /\ lo # First /\ Size(h1, lo) >= size + 2
                 /\ \A j \in rest : blk[j].at # lo
    BY <2>1 DEF Got
  <2>3. added.ok
    BY ONLY <1>4, <1>5, <1>6, <1>7, <2>2, PlacedAccepted
  <2> QED
    BY <2>3
<1> QED
  BY <1>8, <1>9

\* The low byte of an index, as a char.
LEMMA LowBytes ==
  ASSUME NEW index \in Nat
  PROVE  LowByte(index) \in 0 .. (BYTE - 1) /\ LowByte(index) % BYTE = LowByte(index)
<1>1. BYTE \in Nat \ {0}
  BY MdriverAssumption
<1>2. index % BYTE \in 0 .. (BYTE - 1)
  BY <1>1
<1>3. ASSUME NEW r \in 0 .. (BYTE - 1) PROVE r % BYTE = r
  BY <1>1
<1> QED
  BY <1>2, <1>3 DEF LowByte

Lost(allocator, request, new, old) ==
  \/ LowByte(request.index) >= BYTE \div 2
  \/ /\ allocator # "book"
     /\ \E a \in Cells(new.p, request.size) : /\ a - new.p < old.size
                                              /\ new.h.mem[a] % BYTE # LowByte(request.index)

\* The data that is not found again is lost, or has a byte of the upper half.
LEMMA LostData ==
  ASSUME NEW allocator, NEW file, NEW op, NEW h, NEW blk, Going(allocator, file, op, h, blk),
         op <= Len(file.ops), NEW request, request = file.ops[op], request.type = "r",
         NEW live, live = LiveIn(file, op - 1), NEW sizes, sizes = SizesIn(file, op - 1),
         NEW list, Listed(allocator, file, op, h, blk, list),
         NEW new, Given(allocator, h, live, sizes, blk, request, new),
         NEW old, old = blk[request.index],
         NEW j \in 0 .. ((IF request.size < old.size THEN request.size ELSE old.size) - 1),
         Char(new.h.mem[new.p + j]) # LowByte(request.index)
  PROVE  Lost(allocator, request, new, old)
<1> PICK index : index = request.index
  OBVIOUS
<1> PICK live2 : live2 = LiveIn(file, op)
  OBVIOUS
<1> PICK sizes2 : sizes2 = SizesIn(file, op)
  OBVIOUS
<1>1. op \in 1 .. Len(file.ops) /\ Readable(file)
  <2>1. Readable(file) /\ op \in 1 .. (Len(file.ops) + 1)
    BY DEF Going
  <2>2. Len(file.ops) \in Nat
    BY <2>1, ReadableParts
  <2> QED
    BY <2>1, <2>2
<1>2. \A l \in live : sizes[l] \in Nat \ {0}
  BY GoingParts
<1>3. /\ request.size \in Nat /\ index \in Nat
      /\ request.type = "r" => index \in live /\ request.size > 0
  BY <1>1, SizesStep
<1>4. old.size = sizes[index] /\ old.size \in Nat /\ new.p \in Nat
  BY <1>2, <1>3 DEF Listed, Accepted, Given
<1>5. j \in Nat /\ j < request.size /\ j < old.size
  BY <1>3, <1>4
<1>6. new.p + j \in Cells(new.p, request.size) /\ (new.p + j) - new.p < old.size
  <2> PICK p : p = new.p
    OBVIOUS
  <2> PICK size : size = request.size
    OBVIOUS
  <2> PICK held : held = old.size
    OBVIOUS
  <2>1. p \in Nat /\ size \in Nat /\ held \in Nat /\ j \in Nat /\ j < size /\ j < held
    BY <1>3, <1>4, <1>5
  <2>2. p + j \in Cells(p, size) /\ (p + j) - p < held
    BY ONLY <2>1 DEF Cells
  <2> QED
    BY <2>2
<1> SUFFICES ASSUME ~(LowByte(index) >= BYTE \div 2)
             PROVE  /\ allocator # "book"
                    /\ \E a \in Cells(new.p, request.size) : a - new.p < old.size /\ new.h.mem[a] % BYTE # LowByte(index)
  BY DEF Lost
<1>7. LowByte(index) < BYTE \div 2
  <2>1. BYTE \div 2 \in Nat
    BY MdriverAssumption
  <2>2. LowByte(index) \in Nat
    BY <1>3, MdriverAssumption DEF LowByte
  <2> QED
    BY <2>1, <2>2
<1>8. ASSUME NEW x, x % BYTE = LowByte(index) PROVE Char(x) = LowByte(index)
  BY <1>7, <1>8 DEF Char
<1>9. new.h.mem[new.p + j] % BYTE # LowByte(index)
  BY <1>8
<1>10. ASSUME allocator = "book" PROVE FALSE
  <2>1. Got(h, live, sizes, blk, index, request.size, new) /\ Filled(h, live, sizes, blk) /\ index \in live
    BY <1>3, <1>10 DEF Given, Listed
  <2>2. \A i \in 0 .. (request.size - 1) : i < sizes[index] => new.h.mem[new.p + i] = LowByte(index)
    BY <2>1 DEF Got
  <2>3. new.h.mem[new.p + j] = LowByte(index)
    BY <1>3, <1>4, <1>5, <2>2
  <2> QED
    BY <1>3, <1>9, <2>3, LowBytes
<1> QED
  BY <1>6, <1>9, <1>10

-----------------------------------------------------------------------------
(* The sizes that eval_mm_util adds up. *)

TotalIn(file, k) == Total(SizesIn(file, k), file.num_ids)

Adds(file, op, request, old) ==
  /\ TotalIn(file, op - 1) \in Int
  /\ TotalIn(file, op) = TotalIn(file, op - 1) + Grown(request, old)

\* A request changes the total by what it changes the size of its index.
LEMMA TotalStep ==
  ASSUME NEW file, Readable(file), NEW op \in 1 .. Len(file.ops), NEW request, request = file.ops[op],
         NEW old, request.index \in LiveIn(file, op - 1) => old = SizeIn(file.ops, op - 1, request.index)
  PROVE  Adds(file, op, request, old)
<1> PICK index : index = request.index
  OBVIOUS
<1> PICK live : live = LiveIn(file, op - 1)
  OBVIOUS
<1> PICK sizes : sizes = SizesIn(file, op - 1)
  OBVIOUS
<1> PICK live2 : live2 = LiveIn(file, op)
  OBVIOUS
<1> PICK sizes2 : sizes2 = SizesIn(file, op)
  OBVIOUS
<1> PICK n : n = file.num_ids
  OBVIOUS
<1>1. n \in Nat /\ Len(file.ops) \in Nat /\ file.ops \in Requests
  BY ReadableParts
<1>2. op - 1 \in 0 .. Len(file.ops) /\ op \in 0 .. Len(file.ops)
  BY <1>1
<1>3. /\ index \in IdsIn(file) /\ index \in Nat /\ request.size \in Nat
      /\ request.type \in {"a", "r", "f"}
      /\ request.type = "a" => index \notin live
      /\ request.type = "r" => index \in live
      /\ request.type = "f" => index \in live /\ live2 = Less(live, index)
      /\ request.type # "f" => sizes2[index] = request.size
      /\ \A j \in IdsIn(file) : j # index => sizes2[j] = sizes[j]
  BY SizesStep
<1>4. \A j \in IdsIn(file) : /\ sizes[j] \in Nat /\ sizes2[j] \in Nat
                             /\ sizes[j] = SizeIn(file.ops, op - 1, j)
                             /\ j \in live <=> sizes[j] > 0
                             /\ j \in live2 <=> sizes2[j] > 0
  BY <1>1, <1>2, SizeOf DEF SizesIn, LiveIn
<1>5. sizes2[index] - sizes[index] = Grown(request, old)
  <2>1. CASE request.type = "a"
    BY <1>3, <1>4, <2>1 DEF Grown
  <2>2. CASE request.type = "r"
    BY <1>3, <1>4, <2>2 DEF Grown
  <2>3. CASE request.type = "f"
    <3>1. sizes2[index] = 0 /\ sizes[index] = old
      BY <1>3, <1>4, <2>3 DEF Less
    <3> QED
      BY <1>3, <1>4, <2>3, <3>1 DEF Grown
  <2> QED
    BY <1>3, <2>1, <2>2, <2>3
<1>6. \A k \in 0 .. (n - 1) : sizes[k] \in Int
  BY <1>4 DEF IdsIn
<1>7. index \in 0 .. (n - 1) /\ sizes2[index] \in Int /\ \A k \in 0 .. (n - 1) : k # index => sizes2[k] = sizes[k]
  BY <1>3, <1>4 DEF IdsIn
<1>8. Total(sizes, n) \in Int /\ Total(sizes2, n) = Total(sizes, n) + (sizes2[index] - sizes[index])
  BY ONLY <1>1, <1>6, <1>7, TotalChange
<1> QED
  BY <1>5, <1>8 DEF TotalIn, Adds

\* The payloads of mmbook.c and the prologue are in the heap.
LEMMA TotalBelow ==
  ASSUME NEW file, Readable(file), NEW k \in 0 .. Len(file.ops), NEW h, NEW blk,
         NEW live, live = LiveIn(file, k), NEW sizes, sizes = SizesIn(file, k), Settled(h, live, sizes, blk)
  PROVE  TotalIn(file, k) < h.brk - Base
<1> PICK n : n = file.num_ids
  OBVIOUS
<1> DEFINE C == First .. (h.brk - 1)
<1> PICK at : at = [j \in 0 .. (n - 1) |-> blk[j].at]
  OBVIOUS
<1>1. n \in Nat /\ file.ops \in Requests
  BY ReadableParts
<1>2. PICK S : Placed(h, S, live, sizes, blk)
  BY DEF Settled
<1>3. /\ Tiled(h, S) /\ h.brk \in Nat /\ First \in S /\ \A c \in S : c <= h.brk - 2
  BY <1>2 DEF Placed, Tiled, Memory
<1>4. \A c \in S : c \in Nat /\ Size(h, c) \in Nat /\ c >= First /\ c + Size(h, c) <= h.brk
  BY <1>3, Headers, Addresses
<1>5. \A c, d \in S : d > c => d >= c + Size(h, c)
  BY <1>3 DEF Tiled
<1>6. \A j \in 0 .. (n - 1) : sizes[j] \in Nat /\ (sizes[j] > 0 => j \in live)
  BY <1>1, SizeOf DEF SizesIn, LiveIn, IdsIn
<1>7. \A j \in live : blk[j].at \in S /\ Size(h, blk[j].at) >= sizes[j] + 2
  BY <1>2 DEF Placed
<1>8. First \in Nat /\ IsFiniteSet(C) /\ Cardinality(C) = h.brk - First
  <2>1. First \in Nat /\ First <= h.brk - 2
    BY <1>3, <1>4
  <2>2. First \in Int /\ h.brk - 1 \in Int
    BY <1>3, <2>1
  <2>3. IsFiniteSet(First .. (h.brk - 1))
        /\ Cardinality(First .. (h.brk - 1)) = IF First > h.brk - 1 THEN 0 ELSE (h.brk - 1) - First + 1
    BY ONLY <2>2, FS_Interval
  <2> QED
    BY <1>3, <2>1, <2>3
<1>9. \A j \in 0 .. (n - 1) : sizes[j] > 0 => at[j] \in Int /\ Cells(at[j], sizes[j]) \subseteq C
  <2> SUFFICES ASSUME NEW j \in 0 .. (n - 1), sizes[j] > 0
               PROVE  at[j] \in Int /\ Cells(at[j], sizes[j]) \subseteq C
    OBVIOUS
  <2>1. at[j] = blk[j].at /\ j \in live /\ sizes[j] \in Nat
    BY <1>6
  <2>2. at[j] \in Nat /\ Size(h, at[j]) \in Nat /\ at[j] >= First /\ at[j] + Size(h, at[j]) <= h.brk
        /\ Size(h, at[j]) >= sizes[j] + 2
    BY <1>4, <1>7, <2>1
  <2>3. ASSUME NEW a \in Cells(at[j], sizes[j]) PROVE a \in First .. (h.brk - 1)
    <3>1. PICK p : p = at[j] /\ p \in Nat /\ p >= First
      BY <2>2
    <3>2. PICK size : size = sizes[j] /\ size \in Nat
      BY <2>1
    <3>3. PICK cells : cells = Size(h, at[j]) /\ cells \in Nat /\ cells >= size + 2 /\ p + cells <= h.brk
      BY <2>2, <3>1, <3>2
    <3>4. PICK brk \in Nat : brk = h.brk
      BY <1>3
    <3>5. a \in p .. (p + size - 1)
      BY <2>3, <3>1, <3>2 DEF Cells
    <3>6. a \in Int /\ a >= p /\ a <= p + size - 1
      BY ONLY <3>1, <3>2, <3>5
    <3>7. First \in Nat /\ p >= First /\ p + cells <= brk /\ cells >= size + 2
      BY <1>8, <3>1, <3>3, <3>4
    <3>8. a >= First /\ a <= brk - 1
      <4>1. p \in Nat /\ size \in Nat /\ cells \in Nat
        BY ONLY <3>1, <3>2, <3>3
      <4> QED
        BY ONLY <4>1, <3>6, <3>7, brk \in Nat
    <3> QED
      BY <1>8, <3>4, <3>6, <3>8
  <2> QED
    BY <2>2, <2>3
<1>10. \A j, l \in 0 .. (n - 1) : j # l /\ sizes[j] > 0 /\ sizes[l] > 0 =>
         Cells(at[j], sizes[j]) \cap Cells(at[l], sizes[l]) = {}
  <2> TAKE j, l \in 0 .. (n - 1)
  <2> HAVE j # l /\ sizes[j] > 0 /\ sizes[l] > 0
  <2>1. at[j] = blk[j].at /\ j \in live /\ sizes[j] \in Nat /\ at[l] = blk[l].at /\ l \in live /\ sizes[l] \in Nat
    BY <1>6
  <2>2. at[j] # at[l]
    BY <1>2, <2>1 DEF Placed
  <2>3. /\ at[j] \in S /\ at[l] \in S /\ at[j] \in Nat /\ at[l] \in Nat
        /\ Size(h, at[j]) \in Nat /\ Size(h, at[j]) >= sizes[j] + 2
        /\ Size(h, at[l]) \in Nat /\ Size(h, at[l]) >= sizes[l] + 2
    BY <1>4, <1>7, <2>1
  <2>4. at[j] >= at[l] + Size(h, at[l]) \/ at[l] >= at[j] + Size(h, at[j])
    <3>1. at[j] > at[l] \/ at[l] > at[j]
      BY ONLY <2>2, <2>3
    <3> QED
      BY ONLY <1>5, <2>3, <3>1
  <2>5. ASSUME NEW a \in Cells(at[j], sizes[j]), a \in Cells(at[l], sizes[l]) PROVE FALSE
    <3>1. PICK p, size, cells : /\ p = at[j] /\ size = sizes[j] /\ cells = Size(h, at[j])
                                /\ p \in Nat /\ size \in Nat /\ cells \in Nat /\ cells >= size + 2
      BY <2>1, <2>3
    <3>2. PICK q, width, room : /\ q = at[l] /\ width = sizes[l] /\ room = Size(h, at[l])
                                /\ q \in Nat /\ width \in Nat /\ room \in Nat /\ room >= width + 2
      BY <2>1, <2>3
    <3>3. a \in p .. (p + size - 1) /\ a \in q .. (q + width - 1)
      BY <2>5, <3>1, <3>2 DEF Cells
    <3>4. p >= q + room \/ q >= p + cells
      BY <2>4, <3>1, <3>2
    <3>5. /\ p \in Nat /\ size \in Nat /\ cells \in Nat /\ cells >= size + 2
          /\ q \in Nat /\ width \in Nat /\ room \in Nat /\ room >= width + 2
      BY <3>1, <3>2
    <3> QED
      BY ONLY <3>3, <3>4, <3>5
  <2> QED
    BY <2>5
<1> HIDE DEF C
<1>11. Total(sizes, n) <= Cardinality(C)
  <2>1. /\ \A j \in 0 .. (n - 1) : sizes[j] \in Nat
        /\ \A j \in 0 .. (n - 1) : sizes[j] > 0 => at[j] \in Int
        /\ \A j \in 0 .. (n - 1) : sizes[j] > 0 => Cells(at[j], sizes[j]) \subseteq C
        /\ IsFiniteSet(C) /\ n \in Nat
    BY <1>1, <1>6, <1>8, <1>9
  <2> QED
    BY ONLY <1>10, <2>1, TotalFits
<1>12. Total(sizes, n) \in Int
  <2>1. PICK w : Sums(w, sizes, n) /\ Total(sizes, n) = w[n]
    <3>1. \A j \in 0 .. (n - 1) : sizes[j] \in Int
      BY <1>6
    <3> QED
      BY ONLY <1>1, <3>1, TotalSteps
  <2> QED
    BY <1>1, <2>1 DEF Sums
<1> QED
  BY <1>3, <1>8, <1>11, <1>12 DEF TotalIn, First, Base, DSIZE

\* A total is a number.
LEMMA TotalNumber ==
  ASSUME NEW file, Readable(file), NEW k \in 0 .. Len(file.ops)
  PROVE  TotalIn(file, k) \in Int
<1>1. file.num_ids \in Nat /\ file.ops \in Requests
  BY ReadableParts
<1>2. PICK sizes : sizes = SizesIn(file, k)
  OBVIOUS
<1>3. \A j \in 0 .. (file.num_ids - 1) : sizes[j] \in Int
  BY <1>1, <1>2, SizeOf DEF SizesIn, IdsIn
<1>4. PICK w : Sums(w, sizes, file.num_ids) /\ Total(sizes, file.num_ids) = w[file.num_ids]
  BY ONLY <1>1, <1>3, TotalSteps
<1> QED
  BY <1>1, <1>2, <1>4 DEF Sums, TotalIn

\* The sizes of the blocks, and the totals so far, are those of the trace.
Measured(file, op, blk, tot, max) ==
  /\ \A j \in LiveIn(file, op - 1) : blk[j].size = SizeIn(file.ops, op - 1, j)
  /\ tot = TotalIn(file, op - 1)
  /\ \A k \in 0 .. (op - 1) : TotalIn(file, k) <= max
  /\ \E k \in 0 .. (op - 1) : TotalIn(file, k) = max

\* The blocks after a request that sets the size of its index.
Changed(request, blk, blk2) ==
  /\ request.type = "f" => blk2 = blk
  /\ request.type # "f" => \E at : blk2 = [blk EXCEPT ![request.index] = [at |-> at, size |-> request.size]]

\* eval_mm_util adds what a request takes, and keeps the largest sum.
LEMMA MeasuredStep ==
  ASSUME NEW file, Readable(file), NEW op \in 1 .. Len(file.ops), NEW request, request = file.ops[op],
         NEW blk \in Blocks(IdsIn(file)), NEW tot, NEW max, Measured(file, op, blk, tot, max),
         NEW blk2, Changed(request, blk, blk2),
         NEW tot2, tot2 = tot + Grown(request, blk[request.index].size),
         NEW max2, max2 = IF tot2 > max THEN tot2 ELSE max, NEW op2, op2 = op + 1
  PROVE  Measured(file, op2, blk2, tot2, max2)
<1> PICK index : index = request.index
  OBVIOUS
<1> PICK live : live = LiveIn(file, op - 1)
  OBVIOUS
<1> PICK sizes : sizes = SizesIn(file, op - 1)
  OBVIOUS
<1> PICK live2 : live2 = LiveIn(file, op)
  OBVIOUS
<1> PICK sizes2 : sizes2 = SizesIn(file, op)
  OBVIOUS
<1> PICK old : old = blk[index].size
  OBVIOUS
<1>1. op2 - 1 = op /\ op \in Int /\ op >= 1 /\ op \in 0 .. Len(file.ops)
  <2>1. Len(file.ops) \in Nat
    BY ReadableParts
  <2> QED
    BY <2>1
<1>2. /\ index \in IdsIn(file) /\ request.type \in {"a", "r", "f"}
      /\ request.type = "f" => live2 = Less(live, index)
      /\ request.type # "f" => sizes2[index] = request.size
      /\ request.type # "f" /\ request.size > 0 => live2 = More(live, index)
      /\ request.type # "f" /\ request.size = 0 => live2 = live
      /\ request.size \in Nat
      /\ \A j \in IdsIn(file) : j # index => sizes2[j] = sizes[j]
  BY SizesStep
<1>3. \A j \in live2 : j \in IdsIn(file) /\ (j # index => j \in live) /\ (request.type = "f" => j # index)
  BY <1>2 DEF LiveIn, Less, More
<1>4. \A j \in live2 : blk2[j].size = SizeIn(file.ops, op, j)
  <2> SUFFICES ASSUME NEW j \in live2 PROVE blk2[j].size = SizeIn(file.ops, op, j)
    OBVIOUS
  <2>1. sizes2[j] = SizeIn(file.ops, op, j) /\ sizes[j] = SizeIn(file.ops, op - 1, j)
    BY <1>3 DEF SizesIn
  <2>2. CASE j = index
    <3>1. request.type # "f"
      BY <1>3, <2>2
    <3>2. PICK at : blk2 = [blk EXCEPT ![index] = [at |-> at, size |-> request.size]]
      BY <3>1 DEF Changed
    <3>3. blk2[index].size = request.size
      BY <1>2, <3>2 DEF Blocks
    <3> QED
      BY <1>2, <2>1, <2>2, <3>1, <3>3
  <2>3. CASE j # index
    <3>1. blk2[j] = blk[j]
      BY <1>3, <2>3 DEF Changed, Blocks
    <3>2. j \in live /\ sizes2[j] = sizes[j]
      BY <1>2, <1>3, <2>3
    <3> QED
      BY <2>1, <3>1, <3>2 DEF Measured
  <2> QED
    BY <2>2, <2>3
<1>5. index \in live => old = SizeIn(file.ops, op - 1, index)
  BY DEF Measured
<1>6. TotalIn(file, op - 1) \in Int /\ TotalIn(file, op) = TotalIn(file, op - 1) + Grown(request, old)
  <2>1. request.index \in LiveIn(file, op - 1) => old = SizeIn(file.ops, op - 1, request.index)
    BY <1>5
  <2>2. Adds(file, op, request, old)
    BY ONLY <2>1, Readable(file), op \in 1 .. Len(file.ops), request = file.ops[op], TotalStep
  <2> QED
    BY <2>2 DEF Adds
<1>7. tot = TotalIn(file, op - 1) /\ tot2 = TotalIn(file, op)
  BY <1>6 DEF Measured
<1>8. tot2 \in Int /\ max \in Int
  <2>1. Grown(request, old) \in Int
    <3>1. old \in Nat
      BY <1>2 DEF Blocks
    <3> QED
      <4>1. request.type \in {"a", "r", "f"} /\ request.size \in Nat
        BY <1>2
      <4> QED
        BY ONLY <3>1, <4>1 DEF Grown
  <2>2. \A k \in 0 .. Len(file.ops) : TotalIn(file, k) \in Int
    BY TotalNumber
  <2>3. PICK k \in 0 .. (op - 1) : TotalIn(file, k) = max
    BY DEF Measured
  <2>4. k \in 0 .. Len(file.ops)
    BY <1>1
  <2> QED
    <3>1. max \in Int
      BY ONLY <2>2, <2>3, <2>4
    <3>2. tot \in Int
      BY ONLY <1>6, <1>7
    <3> QED
      BY ONLY <2>1, <3>1, <3>2, tot2 = tot + Grown(request, old)
<1>9. max2 \in Int /\ max <= max2 /\ tot2 <= max2 /\ (max2 = max \/ max2 = tot2)
  BY ONLY <1>8, max2 = IF tot2 > max THEN tot2 ELSE max
<1>10. \A k \in 0 .. op : TotalIn(file, k) <= max2
  <2> SUFFICES ASSUME NEW k \in 0 .. op PROVE TotalIn(file, k) <= max2
    OBVIOUS
  <2>1. CASE k = op
    BY <1>7, <1>9, <2>1
  <2>2. CASE k # op
    <3>1. k \in 0 .. (op - 1)
      BY <1>1, <2>2
    <3>2. TotalIn(file, k) <= max
      BY <3>1 DEF Measured
    <3>3. TotalIn(file, k) \in Int
      <4>1. k \in 0 .. Len(file.ops)
        BY <1>1, <3>1
      <4> QED
        BY <4>1, TotalNumber
    <3> QED
      BY ONLY <1>8, <1>9, <3>2, <3>3
  <2> QED
    BY <2>1, <2>2
<1>11. \E k \in 0 .. op : TotalIn(file, k) = max2
  <2>1. PICK k \in 0 .. (op - 1) : TotalIn(file, k) = max
    BY DEF Measured
  <2>2. k \in 0 .. op /\ op \in 0 .. op
    BY <1>1
  <2> QED
    BY <1>7, <1>9, <2>1, <2>2
<1> QED
  BY <1>1, <1>4, <1>7, <1>10, <1>11 DEF Measured

-----------------------------------------------------------------------------
(* The inductive invariant. *)

NumIn(v) == Cardinality({k \in DOMAIN v : v[k]})

\* A verdict more.
LEMMA VerdictCount ==
  ASSUME NEW v \in Seq(BOOLEAN), NEW ok \in BOOLEAN, NEW v2, v2 = Append(v, ok)
  PROVE  /\ v2 \in Seq(BOOLEAN) /\ Len(v2) = Len(v) + 1 /\ Last(v2) = ok
         /\ Len(v) \in Nat /\ NumIn(v) \in Nat
         /\ NumIn(v2) = NumIn(v) + (IF ok THEN 1 ELSE 0)
<1> DEFINE yes(w) == {k \in DOMAIN w : w[k]}
<1>1. v2 \in Seq(BOOLEAN) /\ Len(v2) = Len(v) + 1 /\ Len(v) \in Nat
      /\ v2[Len(v) + 1] = ok /\ DOMAIN v = 1 .. Len(v) /\ DOMAIN v2 = 1 .. (Len(v) + 1)
      /\ \A k \in 1 .. Len(v) : v2[k] = v[k]
  OBVIOUS
<1>2. Last(v2) = ok
  BY <1>1 DEF Last
<1>3. IsFiniteSet(yes(v)) /\ Cardinality(yes(v)) \in Nat
  <2> PICK n \in Nat : n = Len(v)
    BY <1>1
  <2>1. IsFiniteSet(1 .. n)
    <3>1. 1 \in Int /\ n \in Int
      OBVIOUS
    <3> QED
      BY ONLY <3>1, FS_Interval
  <2>2. yes(v) \in SUBSET (1 .. n)
    BY <1>1
  <2> HIDE DEF yes
  <2>3. IsFiniteSet(yes(v))
    BY <2>1, <2>2, FS_Subset
  <2> QED
    BY <2>3, FS_CardinalityType
<1>4. CASE ok
  <2>1. yes(v2) = yes(v) \cup {Len(v) + 1} /\ Len(v) + 1 \notin yes(v)
    BY <1>1, <1>4
  <2> HIDE DEF yes
  <2>2. Cardinality(yes(v) \cup {Len(v) + 1}) = Cardinality(yes(v)) + 1
    BY <1>3, <2>1, FS_AddElement
  <2>3. Cardinality(yes(v2)) = Cardinality(yes(v)) + 1
    BY <2>1, <2>2
  <2> USE DEF yes
  <2> QED
    BY <1>1, <1>2, <1>3, <1>4, <2>3 DEF NumIn
<1>5. CASE ~ok
  <2>1. yes(v2) = yes(v)
    BY <1>1, <1>5
  <2> HIDE DEF yes
  <2>2. Cardinality(yes(v2)) = Cardinality(yes(v)) + 0
    BY <1>3, <2>1
  <2> USE DEF yes
  <2> QED
    BY <1>1, <1>2, <1>3, <1>5, <2>2 DEF NumIn
<1> QED
  BY <1>4, <1>5

\* What the driver rejects is wrong, and of mmbook.c for want of memory only.
Rejected(file, op, h, blk, ans) ==
  LET request == file.ops[op] IN
  \/ ans = NULL \/ ans % 2 # 0 \/ ~(Cells(ans, request.size) \subseteq Base .. (h.brk - 1))
  \/ \E j \in Less(LiveIn(file, op - 1), request.index) : CellsOf(blk[j]) \cap Cells(ans, request.size) # {}
  \/ /\ request.type = "r"
     /\ \/ LowByte(request.index) >= BYTE \div 2
        \/ \E a \in Cells(ans, request.size) : /\ a - ans < blk[request.index].size
                                               /\ h.mem[a] % BYTE # LowByte(request.index)

Excused(file, op, ans) ==
  ans = NULL \/ (file.ops[op].type = "r" /\ LowByte(file.ops[op].index) >= BYTE \div 2)

Typed ==
  /\ args \in Runs /\ tracenum \in 1 .. Len(args.traces)
  /\ valid \in Seq(BOOLEAN) /\ errors \in Nat /\ Memory(heap)

Counted ==
  /\ stage \in {"libc", "libc speed"} => valid = <<>>
  /\ stage \in {"read", "valid"} => Len(valid) = tracenum - 1
  /\ stage \in {"util", "speed"} => Len(valid) = tracenum /\ Last(valid)
  /\ stage = "judged" => Len(valid) = tracenum
  /\ stage = "done" => Len(valid) = Len(args.traces)
  /\ stage # "exit" => errors = Len(valid) - NumIn(valid)

InTrace == stage \in {"valid", "util", "speed"} => Going(args.allocator, Trace, opnum, heap, blocks)
InValid == stage = "valid" => Listed(args.allocator, Trace, opnum, heap, blocks, ranges)
InUtil ==
  stage = "util" => /\ Measured(Trace, opnum, blocks, total, max_total)
                    /\ args.allocator = "book" => max_total < heap.brk - Base
InJudged ==
  stage = "judged" /\ ~Last(valid) =>
    \/ opnum = 0
    \/ Rejected(Trace, opnum, heap, blocks, answer) /\ (args.allocator = "book" => Excused(Trace, opnum, answer))

DriverInv == Typed /\ Counted /\ InTrace /\ InValid /\ InUtil /\ InJudged

\* What the assumption says of the run.
LEMMA OfRun ==
  ASSUME Typed
  PROVE  Allocators /\ TraceFile(Trace) /\ args.traces \in Seq(Range(args.traces)) /\ Len(args.traces) \in Nat
<1>1. args.allocator \in {"book", "any"} /\ args.traces \in Seq(Range(args.traces))
  BY MdriverAssumption DEF Typed
<1>2. DOMAIN args.traces = 1 .. Len(args.traces) /\ Len(args.traces) \in Nat
  BY <1>1
<1>3. TraceFile(Trace)
  BY <1>2, MdriverAssumption DEF Typed, Trace
<1> QED
  BY <1>1, <1>2, <1>3 DEF Allocators

\* The memory is what it was but for its end.
LEMMA ResetHeap ==
  ASSUME Memory(heap)
  PROVE  Memory(mem_reset_brk(heap)) /\ mem_reset_brk(heap).brk = Base
BY DEF Memory, mem_reset_brk, Base

\* The invariant holds when main starts.
LEMMA DriverStarts ==
  ASSUME MdriverInit PROVE DriverInv
<1>1. /\ args \in Runs /\ tracenum = 1 /\ valid = <<>> /\ errors = 0 /\ heap = Fresh /\ stage \in {"libc", "read"}
  BY DEF MdriverInit
<1>2. Memory(heap)
  BY <1>1, MmbookAssumption DEF Fresh, Memory, Arena, Base, NULL
<1>3. Len(args.traces) \in Nat /\ Len(args.traces) >= 1
  <2>1. args.traces \in Seq(Range(args.traces)) /\ args.traces # <<>>
    BY <1>1, MdriverAssumption
  <2> QED
    BY <2>1
<1>4. NumIn(valid) = 0 /\ valid \in Seq(BOOLEAN) /\ Len(valid) = 0
  <2>1. {k \in DOMAIN valid : valid[k]} = {}
    BY <1>1
  <2> QED
    BY <1>1, <2>1, FS_EmptySet DEF NumIn
<1> QED
  BY <1>1, <1>2, <1>3, <1>4 DEF DriverInv, Typed, Counted, InTrace, InValid, InUtil, InJudged

-----------------------------------------------------------------------------
(* Its consequences. *)

\* The invariant gives each part of DriverRight: what eval_mm_valid accepts,
LEMMA AcceptedIsRight ==
  ASSUME DriverInv PROVE AcceptedRight
<1> SUFFICES ASSUME stage = "valid" PROVE AcceptedRight
  BY DEF AcceptedRight
<1> PICK live : live = LiveIn(Trace, opnum - 1)
  OBVIOUS
<1> PICK sizes : sizes = SizesIn(Trace, opnum - 1)
  OBVIOUS
<1>1. Accepted(live, sizes, blocks, ranges, heap.brk) /\ Going(args.allocator, Trace, opnum, heap, blocks)
  BY DEF DriverInv, InTrace, InValid, Listed
<1>2. LiveAfter(opnum - 1) = live
  BY DEF LiveAfter, LiveIn, SizeAfter, Ids, IdsIn
<1>3. /\ \A j \in live : sizes[j] = SizeAfter(opnum - 1, j) /\ blocks[j] \in [at : Int, size : Nat]
      /\ heap.brk \in Nat
  <2>1. live \in SUBSET IdsIn(Trace) /\ \A j \in live : blocks[j] \in [at : Int, size : Nat]
    BY <1>1, GoingParts
  <2> QED
    BY <1>1, <2>1 DEF SizesIn, SizeAfter, Going, Memory
<1>4. /\ {ranges[k] : k \in DOMAIN ranges} =
           {[lo |-> blocks[j].at, hi |-> blocks[j].at + blocks[j].size - 1] : j \in live}
      /\ Len(ranges) = Cardinality(live)
  BY <1>1 DEF Accepted, Entries, Entry
<1>5. \A j \in live : /\ blocks[j].size = SizeAfter(opnum - 1, j)
                      /\ blocks[j].at % ALIGNMENT = 0 /\ Fits(Payload(j))
  <2> SUFFICES ASSUME NEW j \in live
               PROVE  /\ blocks[j].size = SizeAfter(opnum - 1, j)
                      /\ blocks[j].at % ALIGNMENT = 0 /\ Fits(Payload(j))
    OBVIOUS
  <2>1. /\ blocks[j].size = SizeAfter(opnum - 1, j) /\ blocks[j].at % 2 = 0
        /\ Base <= blocks[j].at /\ blocks[j].at + blocks[j].size <= heap.brk
    BY <1>1, <1>3 DEF Accepted
  <2>2. PICK at \in Int, size \in Nat, brk \in Nat : at = blocks[j].at /\ size = blocks[j].size /\ brk = heap.brk
    BY <1>3
  <2>3. at .. (at + size - 1) \subseteq Base .. (brk - 1)
    BY <2>1, <2>2 DEF Base
  <2> QED
    BY <2>1, <2>2, <2>3 DEF Fits, Payload, Cells, mem_heap_hi, ALIGNMENT
<1>6. \A j, l \in live : j # l => \/ Payload(j) \cap Payload(l) = {}
                                  \/ Encloses(Payload(j), Payload(l)) \/ Encloses(Payload(l), Payload(j))
  BY <1>1 DEF Accepted, Apart, CellsOf, Payload
<1> QED
  BY <1>2, <1>4, <1>5, <1>6 DEF AcceptedRight

\* what it rejects,
LEMMA RejectedIsRight ==
  ASSUME DriverInv PROVE RejectedRight
<1> SUFFICES ASSUME stage = "judged", ~Last(valid), opnum > 0 PROVE RejectedRight
  BY DEF RejectedRight
<1>1. LiveAfter(opnum - 1) = LiveIn(Trace, opnum - 1)
  BY DEF LiveAfter, LiveIn, SizeAfter, Ids, IdsIn
<1>2. Rejected(Trace, opnum, heap, blocks, answer)
  BY DEF DriverInv, InJudged
<1> QED
  BY <1>1, <1>2 DEF RejectedRight, Rejected, Less, Request, Payload, CellsOf, Fits, mem_heap_hi, ALIGNMENT

\* what it makes of mmbook.c,
LEMMA BookIsRight ==
  ASSUME DriverInv PROVE BookRight
<1> SUFFICES ASSUME args.allocator = "book" PROVE BookRight
  BY DEF BookRight
<1>1. stage = "judged" /\ ~Last(valid) =>
        opnum = 0 \/ answer = NULL \/ (Request.type = "r" /\ LowByte(Request.index) >= BYTE \div 2)
  BY DEF DriverInv, InJudged, Excused, Request
<1>2. stage = "valid" => \A j \in LiveAfter(opnum - 1) : \A a \in Payload(j) : heap.mem[a] = LowByte(j)
  <2> SUFFICES ASSUME stage = "valid"
               PROVE  \A j \in LiveAfter(opnum - 1) : \A a \in Payload(j) : heap.mem[a] = LowByte(j)
    OBVIOUS
  <2> PICK live : live = LiveIn(Trace, opnum - 1)
    OBVIOUS
  <2> PICK sizes : sizes = SizesIn(Trace, opnum - 1)
    OBVIOUS
  <2>1. Accepted(live, sizes, blocks, ranges, heap.brk) /\ Filled(heap, live, sizes, blocks)
    BY DEF DriverInv, InValid, Listed
  <2>2. LiveAfter(opnum - 1) = live
    BY DEF LiveAfter, LiveIn, SizeAfter, Ids, IdsIn
  <2>3. \A j \in live : Payload(j) = Cells(blocks[j].at, sizes[j])
    BY <2>1 DEF Accepted, Payload
  <2> QED
    BY <2>1, <2>2, <2>3 DEF Filled
<1>3. stage = "util" => max_total < heap.brk - Base
  BY DEF DriverInv, InUtil
<1> QED
  BY <1>1, <1>2, <1>3 DEF BookRight

\* the sizes that eval_mm_util adds up,
LEMMA UtilIsRight ==
  ASSUME DriverInv PROVE UtilRight
<1> SUFFICES ASSUME stage = "util" PROVE UtilRight
  BY DEF UtilRight
<1>1. Measured(Trace, opnum, blocks, total, max_total)
  BY DEF DriverInv, InUtil
<1>2. \A k : TotalAfter(k) = TotalIn(Trace, k)
  BY DEF TotalAfter, TotalIn, SizesIn, SizeAfter, Ids, IdsIn
<1> QED
  BY <1>1, <1>2 DEF UtilRight, Measured

\* the errors that main counts,
LEMMA ErrorsAreCounted ==
  ASSUME DriverInv PROVE ErrorsCounted
<1>1. numcorrect = NumIn(valid) /\ NumIn(valid) \in Nat /\ Len(valid) \in Nat
  <2> PICK v : v = Append(valid, TRUE)
    OBVIOUS
  <2>1. NumIn(valid) \in Nat /\ Len(valid) \in Nat
    BY VerdictCount DEF DriverInv, Typed
  <2> QED
    BY <2>1 DEF NumIn, numcorrect
<1> QED
  <2>1. /\ stage # "exit" => errors = Len(valid) - numcorrect
        /\ stage = "done" => Len(valid) = Len(args.traces)
    BY <1>1 DEF DriverInv, Counted
  <2>2. stage = "done" => (errors = 0 <=> numcorrect = Len(args.traces))
    BY <1>1, <2>1
  <2> QED
    BY <2>1, <2>2 DEF ErrorsCounted, Indexed

\* hence all of it.
LEMMA DriverIsRight ==
  ASSUME DriverInv PROVE DriverRight
BY AcceptedIsRight, RejectedIsRight, BookIsRight, UtilIsRight, ErrorsAreCounted DEF DriverRight

-----------------------------------------------------------------------------
(* Its steps. *)

\* Out of a trace there is nothing to keep but the verdicts.
LEMMA Quiet ==
  ASSUME Typed', Counted', stage' \notin {"valid", "util", "speed", "judged"}
  PROVE  DriverInv'
BY DEF DriverInv, InTrace, InValid, InUtil, InJudged

\* The program ends in the middle of a trace.
LEMMA Ends ==
  ASSUME DriverInv, stage' = "exit" \/ (stage' = "aborted" /\ stage # "exit"), Memory(heap'),
         UNCHANGED <<args, tracenum, valid>>,
         errors' = errors \/ (errors' = errors + 1 /\ stage' = "exit")
  PROVE  DriverInv'
<1>1. Typed'
  BY DEF DriverInv, Typed
<1>2. Counted'
  BY DEF DriverInv, Counted
<1> QED
  BY <1>1, <1>2, Quiet

\* The pass over libc (mdriver.c, eval_libc_valid) keeps the invariant,
LEMMA LibcValidStep ==
  ASSUME DriverInv, LibcValid PROVE DriverInv'
<1> PICK file : file = read_trace(Trace)
  OBVIOUS
<1>1. stage = "libc" /\ UNCHANGED <<args, tracenum, heap, valid>>
  BY DEF LibcValid
<1>2. file \in {"read", "exit", "aborted"}
  BY ReadOrNot
<1>3. CASE file # "read"
  BY <1>1, <1>2, <1>3, Ends DEF LibcValid, DriverInv, Typed
<1>4. CASE stage' = "exit" /\ errors' = errors + 1
  BY <1>1, <1>4, Ends DEF DriverInv, Typed
<1>5. CASE stage' = "libc speed" /\ errors' = errors
  <2>1. Typed'
    BY <1>1, <1>5 DEF DriverInv, Typed
  <2>2. Counted'
    BY <1>1, <1>5 DEF DriverInv, Counted
  <2> QED
    BY <1>5, <2>1, <2>2, Quiet
<1> QED
  BY <1>3, <1>4, <1>5 DEF LibcValid, app_error

\* and so does its timing.
LEMMA LibcSpeedStep ==
  ASSUME DriverInv, LibcSpeed PROVE DriverInv'
<1>1. stage = "libc speed" /\ UNCHANGED <<args, heap, errors, valid>>
  BY DEF LibcSpeed
<1>2. tracenum \in 1 .. Len(args.traces) /\ Len(args.traces) \in Nat
  BY OfRun DEF DriverInv, Typed
<1>3. /\ tracenum' \in 1 .. Len(args.traces)
      /\ stage' = "exit" \/ (stage' = "read" /\ tracenum' = 1) \/ stage' = "libc"
  <2>1. (stage' = "exit" /\ tracenum' = tracenum) \/ NextLibcTrace
    BY DEF LibcSpeed, app_error
  <2>2. CASE NextLibcTrace
    <3>1. CASE tracenum = Len(args.traces) /\ stage' = "read" /\ tracenum' = 1
      BY <1>2, <3>1
    <3>2. CASE tracenum < Len(args.traces) /\ stage' = "libc" /\ tracenum' = tracenum + 1
      BY <1>2, <3>2
    <3> QED
      BY <2>2, <3>1, <3>2 DEF NextLibcTrace
  <2> QED
    BY <1>2, <2>1, <2>2
<1>4. Typed'
  BY <1>1, <1>3 DEF DriverInv, Typed
<1>5. Counted'
  <2>1. valid = <<>> /\ Len(valid) = 0 /\ errors = Len(valid) - NumIn(valid)
    BY <1>1 DEF DriverInv, Counted
  <2>2. valid' = <<>> /\ Len(valid') = 0 /\ errors' = Len(valid') - NumIn(valid')
    BY <1>1, <2>1
  <2>3. stage' = "read" => Len(valid') = tracenum' - 1
    BY <1>3, <2>2
  <2> QED
    BY <1>3, <2>2, <2>3 DEF Counted
<1> QED
  BY <1>3, <1>4, <1>5, Quiet

\* A verdict on the trace.
LEMMA Judges ==
  ASSUME DriverInv, NEW ok \in BOOLEAN, Verdict(ok), UNCHANGED <<args, tracenum>>, Memory(heap'),
         stage \in {"read", "valid"}, stage' \in {"util", "judged", "exit"}, stage' = "util" => ok
  PROVE  Typed' /\ Counted' /\ Last(valid') = ok
<1>1. valid \in Seq(BOOLEAN) /\ errors \in Nat /\ valid' = Append(valid, ok)
      /\ errors' = IF ok THEN errors ELSE errors + 1
  BY DEF DriverInv, Typed, Verdict
<1>2. /\ valid' \in Seq(BOOLEAN) /\ Len(valid') = Len(valid) + 1 /\ Last(valid') = ok
      /\ Len(valid) \in Nat /\ NumIn(valid) \in Nat
      /\ NumIn(valid') = NumIn(valid) + (IF ok THEN 1 ELSE 0)
  BY <1>1, VerdictCount
<1>3. tracenum \in Nat /\ Len(valid) = tracenum - 1 /\ errors = Len(valid) - NumIn(valid)
  <2>1. Len(args.traces) \in Nat /\ tracenum \in 1 .. Len(args.traces)
    BY OfRun DEF DriverInv, Typed
  <2>2. tracenum \in Nat
    BY <2>1
  <2> QED
    BY <2>2 DEF DriverInv, Counted
<1>4. Typed'
  BY <1>1, <1>2 DEF DriverInv, Typed
<1>5. Len(valid') = tracenum' /\ errors' = Len(valid') - NumIn(valid')
  BY <1>1, <1>2, <1>3
<1>6. Counted'
  BY <1>2, <1>5 DEF Counted
<1> QED
  BY <1>2, <1>4, <1>6

\* Reading a trace starts it with an empty heap and no payload.
LEMMA ReadStep ==
  ASSUME DriverInv, Read PROVE DriverInv'
<1>1. stage = "read" /\ UNCHANGED <<args, tracenum, total, max_total>> /\ Trace' = Trace
  BY DEF Read, Trace
<1>2. Allocators /\ TraceFile(Trace) /\ Memory(heap)
  BY OfRun DEF DriverInv, Typed
<1>3. CASE read_trace(Trace) # "read"
  <2>1. stage' = read_trace(Trace) /\ UNCHANGED <<heap, errors, valid>>
    BY <1>3 DEF Read
  <2>2. stage' \in {"exit", "aborted"}
    BY <1>3, <2>1, ReadOrNot
  <2> QED
    BY <1>1, <1>2, <2>1, <2>2, Ends
<1>4. CASE read_trace(Trace) = "read"
  <2> PICK file : file = Trace
    OBVIOUS
  <2> PICK h : h = mem_reset_brk(heap)
    OBVIOUS
  <2>1. Readable(file)
    BY <1>2, <1>4 DEF Readable
  <2>2. PICK start \in InitAnswers(h) :
          /\ heap' = start.h /\ answer' = start.p /\ ranges' = <<>>
          /\ blocks' = [index \in 0 .. (Trace.num_ids - 1) |-> Unset]
          /\ IF start.p < 0 THEN stage' = "judged" /\ opnum' = 0 /\ Verdict(FALSE)
                            ELSE stage' = "valid" /\ opnum' = 1 /\ UNCHANGED <<errors, valid>>
    BY <1>4 DEF Read, clear_ranges
  <2>3. blocks' \in Blocks(IdsIn(file))
    BY <2>2 DEF Blocks, IdsIn, Unset, NULL
  <2>4. Memory(h) /\ h.brk = Base
    BY <1>2, ResetHeap
  <2>5. /\ Memory(heap') /\ start.p \in {0, -1}
        /\ start.p >= 0 => Going(args.allocator, file, 1, heap', blocks')
    <3> PICK first : first = 1
      OBVIOUS
    <3>1. /\ Memory(heap') /\ start.p \in {0, -1}
          /\ start.p >= 0 => Going(args.allocator, file, first, heap', blocks')
      BY ONLY <1>2, <2>1, <2>2, <2>3, <2>4, first = 1, Started
    <3> QED
      BY <3>1
  <2>6. CASE start.p < 0
    <3>1. stage' = "judged" /\ opnum' = 0 /\ Verdict(FALSE)
      BY <2>2, <2>6
    <3>2. Typed' /\ Counted'
      BY <1>1, <2>5, <3>1, Judges
    <3> QED
      BY <3>1, <3>2 DEF DriverInv, InTrace, InValid, InUtil, InJudged
  <2>7. CASE ~(start.p < 0)
    <3>1. stage' = "valid" /\ opnum' = 1 /\ UNCHANGED <<errors, valid>>
      BY <2>2, <2>7
    <3>2. Typed'
      BY <1>1, <2>5, <3>1 DEF DriverInv, Typed
    <3>3. Counted'
      BY <1>1, <3>1 DEF DriverInv, Counted
    <3>4. Going(args.allocator, Trace, opnum', heap', blocks')
      BY <2>5, <2>7, <3>1
    <3>5. Listed(args.allocator, Trace, opnum', heap', blocks', ranges')
      <4>1. LiveIn(file, opnum' - 1) = {}
        <5>1. PICK zero : zero = 0
          OBVIOUS
        <5>2. zero \in 0 .. Len(file.ops) /\ opnum' - 1 = zero
          BY <2>1, <3>1, <5>1, ReadableParts
        <5> QED
          BY <2>1, <5>1, <5>2, LiveSizes
      <4>2. /\ ranges' \in Seq(Range1) /\ Distinct(ranges') /\ Entries(ranges') = {} /\ Len(ranges') = 0
        BY <2>2 DEF Distinct, Entries
      <4>3. Cardinality({}) = 0
        BY FS_EmptySet
      <4> QED
        BY <4>1, <4>2, <4>3 DEF Listed, Accepted, Filled
    <3> QED
      BY <1>1, <3>1, <3>2, <3>3, <3>4, <3>5 DEF DriverInv, InTrace, InValid, InUtil, InJudged
  <2> QED
    BY <2>6, <2>7
<1> QED
  BY <1>3, <1>4

\* A request that fails.
LEMMA FailsStep ==
  ASSUME DriverInv, stage = "valid", Fails, UNCHANGED <<args, tracenum>>, Memory(heap'),
         Rejected(Trace, opnum, heap', blocks, answer'),
         args.allocator = "book" => Excused(Trace, opnum, answer')
  PROVE  DriverInv'
<1>1. stage' = "judged" /\ Verdict(FALSE) /\ UNCHANGED <<blocks, opnum>> /\ Trace' = Trace
  BY DEF Fails, Trace
<1>2. Typed' /\ Counted'
  BY <1>1, Judges
<1>3. InJudged'
  BY <1>1 DEF InJudged
<1> QED
  BY <1>1, <1>2, <1>3 DEF DriverInv, InTrace, InValid, InUtil

\* A request that is accepted.
LEMMA AcceptsStep ==
  ASSUME DriverInv, stage = "valid", opnum <= num_ops, Request.type # "f", NEW new, Asked(new),
         new.p # NULL, Request.size > 0,
         NEW added, added = add_range(Before(Request, ranges, blocks), new.p, Request.size, new.h), added.ok,
         ranges' = added.list, Remember(new.h, new.p, Request.index, Request.size), UNCHANGED <<args, tracenum>>
  PROVE  DriverInv'
<1> PICK allocator : allocator = args.allocator
  OBVIOUS
<1> PICK file : file = Trace
  OBVIOUS
<1> PICK op : op = opnum
  OBVIOUS
<1> PICK h : h = heap
  OBVIOUS
<1> PICK blk : blk = blocks
  OBVIOUS
<1> PICK list : list = ranges
  OBVIOUS
<1> PICK request : request = Request
  OBVIOUS
<1> PICK live : live = LiveIn(file, op - 1)
  OBVIOUS
<1> PICK sizes : sizes = SizesIn(file, op - 1)
  OBVIOUS
<1> PICK lo, h1, size, val, op2, blk2, h2, list2 :
      /\ lo = new.p /\ h1 = new.h /\ size = Request.size /\ val = LowByte(Request.index)
      /\ op2 = opnum' /\ blk2 = blocks' /\ h2 = heap' /\ list2 = ranges'
  OBVIOUS
<1>1. /\ heap' = memset(new.h, new.p, LowByte(Request.index), Request.size)
      /\ blocks' = [blocks EXCEPT ![Request.index] = [at |-> new.p, size |-> Request.size]]
      /\ opnum' = opnum + 1 /\ UNCHANGED <<stage, errors, valid>> /\ Trace' = Trace
  BY DEF Remember, Trace
<1>2. Going(args.allocator, Trace, opnum, heap, blocks) /\ Listed(args.allocator, Trace, opnum, heap, blocks, ranges)
      /\ Allocators
  BY OfRun DEF DriverInv, InTrace, InValid
<1>3. Given(args.allocator, heap, live, sizes, blocks, Request, new)
  BY <1>2, AnswerGiven
<1>4. Going(allocator, file, op2, h2, blk2) /\ Listed(allocator, file, op2, h2, blk2, list2)
  <2>1. /\ Going(allocator, file, op, h, blk) /\ op <= Len(file.ops) /\ request = file.ops[op] /\ request.type # "f"
        /\ request.size > 0 /\ live = LiveIn(file, op - 1) /\ sizes = SizesIn(file, op - 1)
        /\ Listed(allocator, file, op, h, blk, list) /\ Given(allocator, h, live, sizes, blk, request, new)
    BY <1>2, <1>3 DEF num_ops, Request
  <2>2. lo = new.p /\ h1 = new.h /\ size = request.size /\ val = LowByte(request.index)
        /\ added = add_range(Before(request, list, blk), lo, size, h1) /\ added.ok /\ op2 = op + 1
        /\ h2 = memset(h1, lo, val, size) /\ list2 = added.list
    BY <1>1
  <2>3. Puts(blk, blk2, request.index, lo, size)
    BY <1>1 DEF Puts
  <2>4. Remembers(allocator, file, op, h, blk, request, list, new, lo, h1, size, added, op2, blk2, val, h2)
    BY ONLY <2>1, <2>2, <2>3 DEF Remembers
  <2>5. Done(allocator, file, op2, h2, blk2, added.list)
    BY ONLY <2>4, ListedMore
  <2> QED
    BY <2>5 DEF Done
<1>5. Memory(heap')
  BY <1>4 DEF Going
<1>6. Typed'
  BY <1>1, <1>5 DEF DriverInv, Typed
<1>7. Counted'
  BY <1>1 DEF DriverInv, Counted
<1> QED
  BY <1>1, <1>4, <1>6, <1>7 DEF DriverInv, InTrace, InValid, InUtil, InJudged

\* The payload that is refused, in the state.
LEMMA RefusedStep ==
  ASSUME Going(args.allocator, Trace, opnum, heap, blocks), opnum <= num_ops,
         Listed(args.allocator, Trace, opnum, heap, blocks, ranges), Request.type # "f", Request.size > 0,
         NEW live, live = LiveIn(Trace, opnum - 1), NEW sizes, sizes = SizesIn(Trace, opnum - 1),
         NEW new, Given(args.allocator, heap, live, sizes, blocks, Request, new),
         NEW added, added = add_range(Before(Request, ranges, blocks), new.p, Request.size, new.h), ~added.ok
  PROVE  Rejected(Trace, opnum, new.h, blocks, new.p) /\ args.allocator # "book"
<1> PICK allocator, file, op, h, blk, list, request :
      /\ allocator = args.allocator /\ file = Trace /\ op = opnum /\ h = heap /\ blk = blocks
      /\ list = ranges /\ request = Request
  OBVIOUS
<1> PICK lo, h1, size : lo = new.p /\ h1 = new.h /\ size = Request.size
  OBVIOUS
<1>1. /\ Going(allocator, file, op, h, blk) /\ op <= Len(file.ops) /\ request = file.ops[op] /\ request.type # "f"
      /\ request.size > 0 /\ live = LiveIn(file, op - 1) /\ sizes = SizesIn(file, op - 1)
      /\ Listed(allocator, file, op, h, blk, list) /\ Given(allocator, h, live, sizes, blk, request, new)
  BY DEF num_ops, Request
<1>2. lo = new.p /\ h1 = new.h /\ size = request.size
      /\ added = add_range(Before(request, list, blk), lo, size, h1) /\ ~added.ok
  OBVIOUS
<1>3. allocator # "book"
  BY ONLY <1>1, <1>2, RefusedPayload
<1>4. \/ lo % 2 # 0 \/ ~(Cells(lo, size) \subseteq Base .. (h1.brk - 1))
      \/ \E j \in Less(live, request.index) : CellsOf(blk[j]) \cap Cells(lo, size) # {}
  BY ONLY <1>1, <1>2, RefusedPayload
<1>5. Rejected(file, op, h1, blk, lo)
  BY <1>1, <1>2, <1>4 DEF Rejected
<1> QED
  BY <1>3, <1>5

\* An "a" request of eval_mm_valid keeps the invariant,
LEMMA ValidAllocStep ==
  ASSUME DriverInv, ValidAlloc PROVE DriverInv'
<1>1. PICK new \in MallocAnswers(Request.size) :
        LET added == add_range(ranges, new.p, Request.size, new.h) IN
        /\ answer' = new.p
        /\ \/ new.p = NULL /\ Fails /\ heap' = new.h /\ UNCHANGED ranges
           \/ /\ new.p # NULL /\ Request.size = 0
              /\ stage' = "aborted" /\ heap' = new.h
              /\ UNCHANGED <<ranges, blocks, opnum, errors, valid>>
           \/ new.p # NULL /\ Request.size > 0 /\ ~added.ok /\ Fails /\ heap' = new.h /\ UNCHANGED ranges
           \/ /\ new.p # NULL /\ Request.size > 0 /\ added.ok
              /\ ranges' = added.list /\ Remember(new.h, new.p, Request.index, Request.size)
  BY DEF ValidAlloc
<1>2. stage = "valid" /\ opnum <= num_ops /\ Request.type = "a" /\ UNCHANGED <<args, tracenum>>
  BY DEF ValidAlloc
<1>3. PICK added : added = add_range(Before(Request, ranges, blocks), new.p, Request.size, new.h)
  OBVIOUS
<1>4. Before(Request, ranges, blocks) = ranges
  BY <1>2 DEF Before
<1>5. Going(args.allocator, Trace, opnum, heap, blocks) /\ Listed(args.allocator, Trace, opnum, heap, blocks, ranges)
      /\ Allocators /\ Asked(new)
  BY <1>2, OfRun DEF DriverInv, InTrace, InValid, Asked
<1> PICK live : live = LiveIn(Trace, opnum - 1)
  OBVIOUS
<1> PICK sizes : sizes = SizesIn(Trace, opnum - 1)
  OBVIOUS
<1>6. /\ Memory(new.h)
      /\ new.p # NULL => Given(args.allocator, heap, live, sizes, blocks, Request, new)
  BY <1>2, <1>5, AnswerGiven
<1>7. CASE new.p = NULL /\ Fails /\ heap' = new.h
  BY <1>1, <1>2, <1>6, <1>7, FailsStep DEF Rejected, Excused
<1>8. CASE new.p # NULL /\ stage' = "aborted" /\ heap' = new.h /\ UNCHANGED <<errors, valid>>
  BY <1>2, <1>6, <1>8, Ends
<1>9. CASE new.p # NULL /\ Request.size > 0 /\ ~added.ok /\ Fails /\ heap' = new.h
  <2>1. Given(args.allocator, heap, live, sizes, blocks, Request, new)
    BY <1>6, <1>9
  <2>2. Rejected(Trace, opnum, new.h, blocks, new.p) /\ args.allocator # "book"
    BY <1>2, <1>3, <1>5, <1>9, <2>1, RefusedStep
  <2>3. Rejected(Trace, opnum, heap', blocks, answer')
    BY <1>1, <1>9, <2>2
  <2> QED
    BY <1>2, <1>6, <1>9, <2>2, <2>3, FailsStep
<1>10. CASE /\ new.p # NULL /\ Request.size > 0 /\ added.ok
            /\ ranges' = added.list /\ Remember(new.h, new.p, Request.index, Request.size)
  BY <1>2, <1>3, <1>5, <1>10, AcceptsStep
<1> QED
  BY <1>1, <1>3, <1>4, <1>7, <1>8, <1>9, <1>10

\* an "r" request keeps it,
LEMMA ValidReallocStep ==
  ASSUME DriverInv, ValidRealloc PROVE DriverInv'
<1> PICK old : old = blocks[Request.index]
  OBVIOUS
<1> PICK kept : kept = IF Request.size < old.size THEN Request.size ELSE old.size
  OBVIOUS
<1>1. PICK new \in ReallocAnswers(old.at, Request.size) :
        LET added == add_range(remove_range(ranges, old.at), new.p, Request.size, new.h)
            Same == \A j \in 0 .. (kept - 1) : Char(new.h.mem[new.p + j]) = LowByte(Request.index)
        IN
        /\ answer' = new.p
        /\ \/ new.p = NULL /\ Fails /\ heap' = new.h
           \/ new.p # NULL /\ ~added.ok /\ Fails /\ heap' = new.h
           \/ new.p # NULL /\ added.ok /\ ~Same /\ Fails /\ heap' = new.h
           \/ /\ new.p # NULL /\ added.ok
              /\ ranges' = added.list /\ Remember(new.h, new.p, Request.index, Request.size)
  BY DEF ValidRealloc
<1>2. stage = "valid" /\ opnum <= num_ops /\ Request.type = "r" /\ UNCHANGED <<args, tracenum>>
  BY DEF ValidRealloc
<1>3. PICK added : added = add_range(Before(Request, ranges, blocks), new.p, Request.size, new.h)
  OBVIOUS
<1>4. Before(Request, ranges, blocks) = remove_range(ranges, old.at)
  BY <1>2 DEF Before
<1>5. Going(args.allocator, Trace, opnum, heap, blocks) /\ Listed(args.allocator, Trace, opnum, heap, blocks, ranges)
      /\ Allocators /\ Asked(new)
  BY <1>2, OfRun DEF DriverInv, InTrace, InValid, Asked
<1> PICK live : live = LiveIn(Trace, opnum - 1)
  OBVIOUS
<1> PICK sizes : sizes = SizesIn(Trace, opnum - 1)
  OBVIOUS
<1>6. /\ Memory(new.h)
      /\ new.p # NULL => Given(args.allocator, heap, live, sizes, blocks, Request, new)
  BY <1>2, <1>5, AnswerGiven
<1>7. Request.size > 0
  <2> PICK file, op, request, live2, sizes2 : /\ file = Trace /\ op = opnum /\ request = Request
                                              /\ live2 = LiveIn(file, op) /\ sizes2 = SizesIn(file, op)
    OBVIOUS
  <2>1. Readable(file) /\ op \in 1 .. (Len(file.ops) + 1) /\ op <= Len(file.ops)
    BY <1>2, <1>5 DEF Going, num_ops
  <2>2. op \in 1 .. Len(file.ops) /\ request = file.ops[op]
    BY <2>1, ReadableParts DEF Request
  <2>3. request.type = "r" => request.size > 0
    <3> PICK index : index = request.index
      OBVIOUS
    <3>1. live = LiveIn(file, op - 1) /\ sizes = SizesIn(file, op - 1)
      OBVIOUS
    <3> QED
      BY ONLY <2>1, <2>2, <3>1, index = request.index, live2 = LiveIn(file, op), sizes2 = SizesIn(file, op), SizesStep
  <2> QED
    BY <1>2, <2>3
<1>8. CASE new.p = NULL /\ Fails /\ heap' = new.h
  BY <1>1, <1>2, <1>6, <1>8, FailsStep DEF Rejected, Excused
<1>9. CASE new.p # NULL /\ ~added.ok /\ Fails /\ heap' = new.h
  <2>1. Given(args.allocator, heap, live, sizes, blocks, Request, new)
    BY <1>6, <1>9
  <2>2. Rejected(Trace, opnum, new.h, blocks, new.p) /\ args.allocator # "book"
    BY <1>2, <1>3, <1>5, <1>7, <1>9, <2>1, RefusedStep
  <2>3. Rejected(Trace, opnum, heap', blocks, answer')
    BY <1>1, <1>9, <2>2
  <2> QED
    BY <1>2, <1>6, <1>9, <2>2, <2>3, FailsStep
<1>10. CASE /\ new.p # NULL /\ \E j \in 0 .. (kept - 1) : Char(new.h.mem[new.p + j]) # LowByte(Request.index)
            /\ Fails /\ heap' = new.h
  <2>1. Given(args.allocator, heap, live, sizes, blocks, Request, new)
    BY <1>6, <1>10
  <2>2. \/ LowByte(Request.index) >= BYTE \div 2
        \/ /\ args.allocator # "book"
           /\ \E a \in Cells(new.p, Request.size) : a - new.p < old.size /\ new.h.mem[a] % BYTE # LowByte(Request.index)
    <3> PICK allocator, file, op, h, blk, list, request :
          /\ allocator = args.allocator /\ file = Trace /\ op = opnum /\ h = heap /\ blk = blocks
          /\ list = ranges /\ request = Request
      OBVIOUS
    <3>1. /\ Going(allocator, file, op, h, blk) /\ op <= Len(file.ops) /\ request = file.ops[op] /\ request.type = "r"
          /\ live = LiveIn(file, op - 1) /\ sizes = SizesIn(file, op - 1)
          /\ Listed(allocator, file, op, h, blk, list) /\ Given(allocator, h, live, sizes, blk, request, new)
          /\ old = blk[request.index]
      BY <1>2, <1>5, <2>1 DEF num_ops, Request
    <3>2. PICK j \in 0 .. (kept - 1) : Char(new.h.mem[new.p + j]) # LowByte(request.index)
      BY <1>10
    <3>3. kept = IF request.size < old.size THEN request.size ELSE old.size
      OBVIOUS
    <3>4. j \in 0 .. ((IF request.size < old.size THEN request.size ELSE old.size) - 1)
      BY <3>2, <3>3
    <3>5. Lost(allocator, request, new, old)
      BY ONLY <3>1, <3>2, <3>4, LostData
    <3> QED
      BY <3>5 DEF Lost
  <2>3. Rejected(Trace, opnum, heap', blocks, answer')
    BY <1>1, <1>2, <1>10, <2>2 DEF Rejected, Request
  <2>4. args.allocator = "book" => Excused(Trace, opnum, answer')
    BY <1>2, <2>2 DEF Excused, Request
  <2> QED
    BY <1>2, <1>6, <1>10, <2>3, <2>4, FailsStep
<1>11. CASE /\ new.p # NULL /\ added.ok
            /\ ranges' = added.list /\ Remember(new.h, new.p, Request.index, Request.size)
  BY <1>2, <1>3, <1>5, <1>7, <1>11, AcceptsStep
<1> QED
  BY <1>1, <1>3, <1>4, <1>8, <1>9, <1>10, <1>11

\* an "f" request keeps it,
LEMMA ValidFreeStep ==
  ASSUME DriverInv, ValidFree PROVE DriverInv'
<1> PICK allocator, file, op, h, blk, list, request :
      /\ allocator = args.allocator /\ file = Trace /\ op = opnum /\ h = heap /\ blk = blocks
      /\ list = ranges /\ request = Request
  OBVIOUS
<1> PICK ptr, op2, h2, list2 :
      ptr = blocks[Request.index].at /\ op2 = opnum' /\ h2 = heap' /\ list2 = ranges'
  OBVIOUS
<1>1. /\ stage = "valid" /\ stage' = "valid" /\ opnum <= num_ops /\ Request.type = "f" /\ Trace' = Trace
      /\ UNCHANGED <<args, tracenum, blocks, errors, valid>>
  BY DEF ValidFree, Trace
<1>2. /\ Going(allocator, file, op, h, blk) /\ op <= Len(file.ops) /\ request = file.ops[op] /\ request.type = "f"
      /\ Listed(allocator, file, op, h, blk, list) /\ ptr = blk[request.index].at
  BY <1>1 DEF DriverInv, InTrace, InValid, num_ops, Request
<1>3. /\ h2 = IF allocator = "book" THEN mm_free(h, ptr) ELSE h
      /\ op2 = op + 1 /\ list2 = remove_range(list, ptr)
  BY DEF ValidFree, FreeAnswer
<1>4. Done(allocator, file, op2, h2, blk, list2)
  BY ONLY <1>2, <1>3, ListedLess
<1>5. Going(allocator, file, op2, h2, blk) /\ Listed(allocator, file, op2, h2, blk, list2) /\ Memory(heap')
  BY <1>4 DEF Done, Going
<1>6. Typed'
  BY <1>1, <1>5 DEF DriverInv, Typed
<1>7. Counted'
  BY <1>1 DEF DriverInv, Counted
<1> QED
  BY <1>1, <1>5, <1>6, <1>7 DEF DriverInv, InTrace, InValid, InUtil, InJudged

\* A trace begins anew.
LEMMA RestartStep ==
  ASSUME DriverInv, NEW next, Restart(next), stage \in {"valid", "util"}, UNCHANGED <<args, tracenum, blocks>>
  PROVE  /\ Memory(heap') /\ opnum' = 1 /\ Trace' = Trace
         /\ stage' = "exit" \/ (stage' = next /\ Going(args.allocator, Trace, opnum', heap', blocks'))
<1> PICK file : file = Trace
  OBVIOUS
<1> PICK h : h = mem_reset_brk(heap)
  OBVIOUS
<1> PICK blk : blk = blocks
  OBVIOUS
<1>1. PICK start \in InitAnswers(h) :
        heap' = start.h /\ opnum' = 1 /\ stage' = IF start.p < 0 THEN "exit" ELSE next
  BY DEF Restart
<1>2. Allocators /\ Memory(heap)
  BY OfRun DEF DriverInv, Typed
<1>3. Memory(h) /\ h.brk = Base
  BY <1>2, ResetHeap
<1>4. Readable(file) /\ blk \in Blocks(IdsIn(file))
  BY DEF DriverInv, InTrace, Going
<1> PICK first, h2 : first = 1 /\ h2 = start.h
  OBVIOUS
<1>5. /\ Memory(h2) /\ start.p \in {0, -1}
      /\ start.p >= 0 => Going(args.allocator, file, first, h2, blk)
  BY ONLY <1>1, <1>2, <1>3, <1>4, first = 1 /\ h2 = start.h, Started
<1>6. Trace' = Trace
  BY DEF Trace
<1> QED
  BY <1>1, <1>5, <1>6

\* Nothing is measured at the beginning.
LEMMA MeasuredNone ==
  ASSUME NEW file, Readable(file), NEW op, op = 1, NEW blk, NEW tot, tot = 0, NEW max, max = 0
  PROVE  LiveIn(file, op - 1) = {} /\ TotalIn(file, op - 1) = 0 /\ Measured(file, op, blk, tot, max)
<1>1. file.num_ids \in Nat /\ file.ops \in Requests /\ Len(file.ops) \in Nat
  BY ReadableParts
<1> PICK none : none = 0
  OBVIOUS
<1>2. none \in 0 .. Len(file.ops) /\ op - 1 = none /\ op = 1
  BY <1>1
<1>3. LiveIn(file, none) = {}
  BY <1>2, LiveSizes
<1> PICK sizes : sizes = SizesIn(file, none)
  OBVIOUS
<1>4. \A k \in 0 .. (file.num_ids - 1) : sizes[k] = 0
  BY <1>1, <1>2, NoSize DEF SizesIn, IdsIn
<1>5. Total(sizes, file.num_ids) = 0
  BY ONLY <1>1, <1>4, TotalNone
<1>6. TotalIn(file, none) = 0
  BY <1>5 DEF TotalIn
<1> QED
  BY <1>2, <1>3, <1>6 DEF Measured

\* and so does the end of the requests.
LEMMA ValidEndStep ==
  ASSUME DriverInv, ValidEnd PROVE DriverInv'
<1>1. /\ stage = "valid" /\ Verdict(TRUE) /\ Restart("util") /\ total' = 0 /\ max_total' = 0
      /\ UNCHANGED <<args, tracenum, blocks>>
  BY DEF ValidEnd
<1>2. /\ Memory(heap') /\ opnum' = 1 /\ Trace' = Trace
      /\ stage' = "exit" \/ (stage' = "util" /\ Going(args.allocator, Trace, opnum', heap', blocks'))
  BY <1>1, RestartStep
<1>3. Typed' /\ Counted'
  BY <1>1, <1>2, Judges
<1>4. CASE stage' = "exit"
  BY <1>3, <1>4, Quiet
<1>5. CASE stage' = "util" /\ Going(args.allocator, Trace, opnum', heap', blocks')
  <2> PICK file, op, blk, h, tot, max : /\ file = Trace /\ op = opnum' /\ blk = blocks' /\ h = heap'
                                        /\ tot = total' /\ max = max_total'
    OBVIOUS
  <2>1. Readable(file) /\ op = 1 /\ tot = 0 /\ max = 0
    BY <1>1, <1>2, <1>5 DEF Going
  <2>2. TotalIn(file, op - 1) = 0 /\ Measured(file, op, blk, tot, max)
    BY ONLY <2>1, MeasuredNone
  <2>3. args.allocator = "book" => max < h.brk - Base
    <3> SUFFICES ASSUME args.allocator = "book" PROVE max < h.brk - Base
      OBVIOUS
    <3> PICK k, live, sizes : k = op - 1 /\ live = LiveIn(file, k) /\ sizes = SizesIn(file, k)
      OBVIOUS
    <3>1. Settled(h, live, sizes, blk)
      BY <1>5 DEF Going
    <3>2. k \in 0 .. Len(file.ops)
      BY <2>1, ReadableParts
    <3>3. TotalIn(file, k) < h.brk - Base
      BY ONLY <2>1, <3>1, <3>2, live = LiveIn(file, k), sizes = SizesIn(file, k), TotalBelow
    <3> QED
      BY <2>1, <2>2, <3>3
  <2> QED
    BY <1>1, <1>2, <1>3, <1>5, <2>2, <2>3 DEF DriverInv, InTrace, InValid, InUtil, InJudged
<1> QED
  BY <1>2, <1>4, <1>5

\* A request of eval_mm_util or eval_mm_speed.
LEMMA PerformStep ==
  ASSUME DriverInv, stage \in {"util", "speed"}, opnum <= num_ops, NEW size \in Nat, Perform(size),
         UNCHANGED <<args, tracenum>>
  PROVE  /\ Memory(heap') /\ Trace' = Trace
         /\ \/ stage' = "exit"
            \/ /\ stage' = stage /\ opnum' = opnum + 1 /\ heap.brk <= heap'.brk
               /\ Going(args.allocator, Trace, opnum', heap', blocks')
               /\ Request.type = "f" => blocks' = blocks
               /\ Request.type # "f" => \E at : Puts(blocks, blocks', Request.index, at, size)
<1> PICK allocator, file, op, h, blk, request :
      /\ allocator = args.allocator /\ file = Trace /\ op = opnum /\ h = heap /\ blk = blocks
      /\ request = Request
  OBVIOUS
<1> PICK op2, h2, blk2 : op2 = opnum' /\ h2 = heap' /\ blk2 = blocks'
  OBVIOUS
<1> PICK live : live = LiveIn(file, op - 1)
  OBVIOUS
<1> PICK sizes : sizes = SizesIn(file, op - 1)
  OBVIOUS
<1>1. /\ Going(allocator, file, op, h, blk) /\ op <= Len(file.ops) /\ request = file.ops[op]
      /\ Allocators /\ Trace' = Trace
  BY OfRun DEF DriverInv, InTrace, num_ops, Request, Trace
<1>2. request.type \in {"a", "r", "f"}
  <2>1. Readable(file) /\ op \in 1 .. (Len(file.ops) + 1)
    BY <1>1 DEF Going
  <2>2. op \in 1 .. Len(file.ops)
    BY <1>1, <2>1, ReadableParts
  <2> QED
    BY <1>1, <2>1, <2>2, ReadableParts
<1>3. CASE request.type = "f"
  <2>1. /\ h2 = IF allocator = "book" THEN mm_free(h, blocks[Request.index].at) ELSE h
        /\ op2 = op + 1 /\ stage' = stage /\ blocks' = blocks
    BY <1>3 DEF Perform, FreeAnswer
  <2> PICK ptr : ptr = blk[request.index].at
    OBVIOUS
  <2> PICK live2 : live2 = LiveIn(file, op)
    OBVIOUS
  <2>2. h2 = IF allocator = "book" THEN mm_free(h, ptr) ELSE h
    BY <2>1
  <2>3. Onward(allocator, file, op, h, blk, op2, h2, blk, LiveIn(file, op))
    BY ONLY <1>1, <1>3, <2>1, <2>2, ptr = blk[request.index].at, Freed
  <2>4. Going(allocator, file, op2, h2, blk) /\ h.brk <= h2.brk /\ Memory(h2)
    BY <2>3 DEF Onward, Going
  <2> QED
    BY <1>1, <1>3, <2>1, <2>4
<1>4. CASE request.type # "f"
  <2>1. PICK new \in IF Request.type = "a" THEN MallocAnswers(Request.size)
                     ELSE ReallocAnswers(blocks[Request.index].at, Request.size) :
          /\ heap' = new.h
          /\ IF new.p = NULL THEN stage' = "exit" /\ UNCHANGED <<blocks, opnum>>
             ELSE /\ blocks' = [blocks EXCEPT ![Request.index] = [at |-> new.p, size |-> size]]
                  /\ opnum' = opnum + 1 /\ UNCHANGED stage
    BY <1>4 DEF Perform
  <2>2. Asked(new)
    BY <1>2, <1>4, <2>1 DEF Asked
  <2>3. Going(args.allocator, Trace, opnum, heap, blocks) /\ live = LiveIn(Trace, opnum - 1)
        /\ sizes = SizesIn(Trace, opnum - 1)
    BY <1>1
  <2>4. /\ Memory(new.h)
        /\ new.p # NULL => Good(args.allocator, heap, live, sizes, blocks, Request, new)
    BY <1>1, <2>2, <2>3, AnswerGiven
  <2>5. CASE new.p = NULL
    BY <1>1, <2>1, <2>4, <2>5
  <2>6. CASE new.p # NULL
    <3>1. Good(allocator, h, live, sizes, blk, request, new)
      BY <2>4, <2>6
    <3>2. /\ h2 = new.h /\ op2 = op + 1 /\ stage' = stage
          /\ blk2 = [blk EXCEPT ![request.index] = [at |-> new.p, size |-> size]]
      BY <2>1, <2>6
    <3> PICK sizes2 : sizes2 = SizesIn(file, op)
      OBVIOUS
    <3>3. Going(allocator, file, op2, h2, blk2)
      <4>1. live = LiveIn(file, op - 1) /\ sizes = SizesIn(file, op - 1) /\ sizes2 = SizesIn(file, op)
        OBVIOUS
      <4> QED
        BY ONLY <1>1, <1>4, <3>1, <3>2, <4>1, size \in Nat, Advance
    <3>4. h.brk <= h2.brk
      BY <3>1, <3>2 DEF Good
    <3>5. Puts(blocks, blocks', Request.index, new.p, size)
      BY <3>2 DEF Puts
    <3> QED
      BY <1>1, <1>4, <2>1, <2>4, <3>2, <3>3, <3>4, <3>5
  <2> QED
    BY <2>5, <2>6
<1> QED
  BY <1>2, <1>3, <1>4

\* A request of eval_mm_util keeps the invariant,
LEMMA UtilStep ==
  ASSUME DriverInv, Util PROVE DriverInv'
<1>1. /\ stage = "util" /\ opnum <= num_ops /\ Perform(Request.size)
      /\ total' = IF stage' = "exit" THEN total ELSE total + Grown(Request, blocks[Request.index].size)
      /\ max_total' = IF total' > max_total THEN total' ELSE max_total
      /\ UNCHANGED <<args, tracenum, errors, valid>>
  BY DEF Util
<1> PICK file, op, blk, request, h : /\ file = Trace /\ op = opnum /\ blk = blocks /\ request = Request
                                     /\ h = heap
  OBVIOUS
<1> PICK op2, blk2, h2, tot, max, tot2, max2 :
      /\ op2 = opnum' /\ blk2 = blocks' /\ h2 = heap' /\ tot = total /\ max = max_total
      /\ tot2 = total' /\ max2 = max_total'
  OBVIOUS
<1>2. /\ Readable(file) /\ op \in 1 .. Len(file.ops) /\ request = file.ops[op] /\ blk \in Blocks(IdsIn(file))
      /\ Measured(file, op, blk, tot, max) /\ Len(file.ops) \in Nat
      /\ args.allocator = "book" => max < h.brk - Base
  <2>1. Going(args.allocator, Trace, opnum, heap, blocks)
    BY <1>1 DEF DriverInv, InTrace
  <2>2. Readable(file) /\ op \in 1 .. (Len(file.ops) + 1) /\ blk \in Blocks(IdsIn(file)) /\ op <= Len(file.ops)
    BY <1>1, <2>1 DEF Going, num_ops
  <2>3. Len(file.ops) \in Nat
    BY <2>2, ReadableParts
  <2> QED
    BY <1>1, <2>2, <2>3 DEF Request, DriverInv, InUtil
<1>3. Request.size \in Nat
  BY <1>2, ReadableParts
<1>4. /\ Memory(heap') /\ Trace' = Trace
      /\ \/ stage' = "exit"
         \/ /\ stage' = stage /\ opnum' = opnum + 1 /\ heap.brk <= heap'.brk
            /\ Going(args.allocator, Trace, opnum', heap', blocks')
            /\ Request.type = "f" => blocks' = blocks
            /\ Request.type # "f" => \E at : Puts(blocks, blocks', Request.index, at, Request.size)
  BY <1>1, <1>3, PerformStep
<1>5. CASE stage' = "exit"
  BY <1>1, <1>4, <1>5, Ends
<1>6. CASE /\ stage' = stage /\ opnum' = opnum + 1 /\ heap.brk <= heap'.brk
           /\ Going(args.allocator, Trace, opnum', heap', blocks')
           /\ Request.type = "f" => blocks' = blocks
           /\ Request.type # "f" => \E at : Puts(blocks, blocks', Request.index, at, Request.size)
  <2>1. Changed(request, blk, blk2)
    BY <1>6 DEF Changed, Puts
  <2>2. /\ tot2 = tot + Grown(request, blk[request.index].size)
        /\ max2 = IF tot2 > max THEN tot2 ELSE max
        /\ op2 = op + 1
    BY <1>1, <1>6
  <2>3. Measured(file, op2, blk2, tot2, max2)
    BY ONLY <1>2, <2>1, <2>2, MeasuredStep
  <2>4. ASSUME args.allocator = "book" PROVE max2 < h2.brk - Base
    <3> PICK k, live, sizes : k = op2 - 1 /\ live = LiveIn(file, k) /\ sizes = SizesIn(file, k)
      OBVIOUS
    <3>1. Settled(h2, live, sizes, blk2)
      BY <1>6, <2>4 DEF Going
    <3>2. k \in 0 .. Len(file.ops)
      <4>1. op \in 1 .. Len(file.ops) /\ Len(file.ops) \in Nat /\ k = (op + 1) - 1
        BY <1>2, <2>2
      <4> QED
        BY ONLY <4>1
    <3>3. TotalIn(file, k) < h2.brk - Base
      BY ONLY <1>2, <3>1, <3>2, live = LiveIn(file, k), sizes = SizesIn(file, k), TotalBelow
    <3>4. tot2 = TotalIn(file, k) /\ TotalIn(file, k) \in Int
      BY <1>2, <2>3, <3>2, TotalNumber DEF Measured
    <3>5. max \in Int
      <4>1. PICK l \in 0 .. (op - 1) : TotalIn(file, l) = max
        BY <1>2 DEF Measured
      <4>2. l \in 0 .. Len(file.ops)
        BY <1>2
      <4> QED
        BY <1>2, <4>1, <4>2, TotalNumber
    <3>6. h.brk \in Nat /\ h2.brk \in Nat /\ h.brk <= h2.brk /\ max < h.brk - Base
      BY <1>2, <1>4, <1>6, <2>4 DEF DriverInv, Typed, Memory
    <3> QED
      BY <2>2, <3>3, <3>4, <3>5, <3>6 DEF Base
  <2>5. Typed'
    BY <1>1, <1>4 DEF DriverInv, Typed
  <2>6. Counted'
    BY <1>1, <1>6 DEF DriverInv, Counted
  <2> QED
    BY <1>1, <1>4, <1>6, <2>3, <2>4, <2>5, <2>6 DEF DriverInv, InTrace, InValid, InUtil, InJudged
<1> QED
  BY <1>4, <1>5, <1>6

\* and so does its end.
LEMMA UtilEndStep ==
  ASSUME DriverInv, UtilEnd PROVE DriverInv'
<1>1. stage = "util" /\ Restart("speed") /\ UNCHANGED <<args, tracenum, blocks, errors, valid>>
  BY DEF UtilEnd
<1>2. /\ Memory(heap') /\ opnum' = 1 /\ Trace' = Trace
      /\ stage' = "exit" \/ (stage' = "speed" /\ Going(args.allocator, Trace, opnum', heap', blocks'))
  BY <1>1, RestartStep
<1>3. Typed'
  BY <1>1, <1>2 DEF DriverInv, Typed
<1>4. Counted'
  BY <1>1, <1>2 DEF DriverInv, Counted
<1> QED
  BY <1>1, <1>2, <1>3, <1>4 DEF DriverInv, InTrace, InValid, InUtil, InJudged

\* A request of eval_mm_speed keeps the invariant,
LEMMA SpeedStep ==
  ASSUME DriverInv, Speed PROVE DriverInv'
<1>1. /\ stage = "speed" /\ opnum <= num_ops /\ Perform(blocks[Request.index].size)
      /\ UNCHANGED <<args, tracenum, errors, valid>>
  BY DEF Speed
<1>2. blocks[Request.index].size \in Nat
  <2> PICK file, op, request : file = Trace /\ op = opnum /\ request = Request
    OBVIOUS
  <2>1. Readable(file) /\ op \in 1 .. (Len(file.ops) + 1) /\ blocks \in Blocks(IdsIn(file)) /\ op <= Len(file.ops)
    BY <1>1 DEF DriverInv, InTrace, Going, num_ops
  <2>2. op \in 1 .. Len(file.ops) /\ request = file.ops[op]
    BY <2>1, ReadableParts DEF Request
  <2>3. request.index \in IdsIn(file)
    BY ONLY <2>1, <2>2, RequestStep
  <2> QED
    BY <2>1, <2>3 DEF Blocks
<1>3. /\ Memory(heap') /\ Trace' = Trace
      /\ \/ stage' = "exit"
         \/ /\ stage' = stage
            /\ Going(args.allocator, Trace, opnum', heap', blocks')
  BY <1>1, <1>2, PerformStep
<1>4. Typed'
  BY <1>1, <1>3 DEF DriverInv, Typed
<1>5. Counted'
  BY <1>1, <1>3 DEF DriverInv, Counted
<1> QED
  BY <1>1, <1>3, <1>4, <1>5 DEF DriverInv, InTrace, InValid, InUtil, InJudged

\* and so does its end.
LEMMA SpeedEndStep ==
  ASSUME DriverInv, SpeedEnd PROVE DriverInv'
<1>1. /\ stage = "speed" /\ stage' = "judged" /\ UNCHANGED <<args, tracenum, heap, errors, valid>>
  BY DEF SpeedEnd
<1>2. Typed'
  BY <1>1 DEF DriverInv, Typed
<1>3. Counted' /\ Last(valid')
  BY <1>1 DEF DriverInv, Counted
<1> QED
  BY <1>1, <1>2, <1>3 DEF DriverInv, InTrace, InValid, InUtil, InJudged

\* Going to the next trace keeps the invariant.
LEMMA NextTraceStep ==
  ASSUME DriverInv, NextTrace PROVE DriverInv'
<1>1. /\ stage = "judged" /\ UNCHANGED <<args, heap, errors, valid>>
      /\ stage' = IF tracenum = Len(args.traces) THEN "done" ELSE "read"
      /\ tracenum' = IF tracenum = Len(args.traces) THEN tracenum ELSE tracenum + 1
  BY DEF NextTrace
<1>2. Len(args.traces) \in Nat /\ tracenum \in 1 .. Len(args.traces)
  BY OfRun DEF DriverInv, Typed
<1>3. Typed'
  <2>1. tracenum' \in 1 .. Len(args.traces)
    BY <1>1, <1>2
  <2> QED
    BY <1>1, <2>1 DEF DriverInv, Typed
<1>4. Counted'
  <2>1. Len(valid) = tracenum /\ errors = Len(valid) - NumIn(valid)
    BY <1>1 DEF DriverInv, Counted
  <2>2. /\ stage' \in {"read", "done"} /\ errors' = Len(valid') - NumIn(valid')
        /\ stage' = "read" => Len(valid') = tracenum' - 1
        /\ stage' = "done" => Len(valid') = Len(args'.traces)
    BY <1>1, <1>2, <2>1
  <2> QED
    BY <2>2 DEF Counted
<1> QED
  BY <1>1, <1>3, <1>4, Quiet

\* Every step of the driver keeps the invariant.
LEMMA DriverSteps ==
  ASSUME DriverInv, [MdriverNext]_mdriverVars PROVE DriverInv'
<1>1. CASE UNCHANGED mdriverVars
  BY <1>1 DEF mdriverVars, DriverInv, Typed, Counted, InTrace, InValid, InUtil, InJudged, Trace
<1>2. CASE MdriverNext
  BY <1>2, LibcValidStep, LibcSpeedStep, ReadStep, ValidAllocStep, ValidReallocStep, ValidFreeStep, ValidEndStep,
     UtilStep, UtilEndStep, SpeedStep, SpeedEndStep, NextTraceStep DEF MdriverNext
<1> QED
  BY <1>1, <1>2

\* The inductive invariant holds in every run of the driver, whatever the trace
\* files: while a trace is judged the payloads are those of the trace, the list
\* is theirs, the blocks of mmbook.c tile the heap around them, and the sums and
\* counts are those of the requests and verdicts so far (mdriver.c).
THEOREM DriverKeeps == MdriverSpec => []DriverInv
<1>1. MdriverInit => DriverInv
  BY DriverStarts
<1>2. DriverInv /\ [MdriverNext]_mdriverVars => DriverInv'
  BY DriverSteps
<1> QED
  BY <1>1, <1>2, PTL DEF MdriverSpec

\* In every run, whatever the trace files and for an allocator that answers
\* anything or that of mmbook.c: what eval_mm_valid accepts keeps the promises
\* of an allocator, but for a payload around another; what it rejects broke one,
\* but for a byte of the upper half; mmbook.c fails for want of memory only and
\* keeps what is written in its payloads; eval_mm_util's sizes are those of the
\* trace; and each failure is one error.
THEOREM DriverIsFair == MdriverSpec => []DriverRight
<1>1. MdriverSpec => []DriverInv
  BY DriverKeeps
<1>2. DriverInv => DriverRight
  BY DriverIsRight
<1> QED
  BY <1>1, <1>2, PTL
=============================================================================
