------------------------------ MODULE Mdriver ------------------------------
(***************************************************************************)
(* The driver lab7/mdriver.c: it reads trace files, runs each over an       *)
(* allocator that it judges, measures the allocators that pass, and sums    *)
(* up.  The allocator is the one of mmbook.c, or anything at all: one that  *)
(* answers with any address, keeps the data of a block or loses it.         *)
(***************************************************************************)
EXTENDS Mmbook, Sequences, FiniteSets, SequencesExt

CONSTANTS
  Runs,     \* what main is called with: allocator, run_libc, and the trace files
  Wild,     \* the cells that are the heap of an allocator that answers anything
  BYTE      \* the values of a char: 0x100

\* The size of a payload after the first k of the requests ops: that of the last
\* request for its index, 0 when that is a free or there is none.
SizeIn(ops, k, index) ==
  LET of == {j \in 1 .. k : ops[j].index = index}
      last == CHOOSE j \in of : \A l \in of : l <= j
  IN IF of = {} THEN 0 ELSE IF ops[last].type = "f" THEN 0 ELSE ops[last].size

\* What the driver takes for granted in a trace file: an index is allocated when
\* it has no block, and reallocated, never for 0, or freed when it has one.
Balanced(ops) ==
  \A k \in DOMAIN ops :
    LET size == SizeIn(ops, k - 1, ops[k].index) IN
    /\ ops[k].type = "a" => size = 0
    /\ ops[k].type = "r" => size > 0 /\ ops[k].size > 0
    /\ ops[k].type = "f" => size > 0

TraceFile(file) ==
  /\ file.num_ids \in Nat
  /\ file.ops \in Seq([type : STRING, index : Nat, size : Nat])
  /\ Balanced(file.ops)

ASSUME MdriverAssumption ==
  /\ Wild \in 0 .. MAX_HEAP /\ BYTE \in Nat \ {0}
  /\ \A run \in Runs :
       /\ run.allocator \in {"book", "any"} /\ run.run_libc \in BOOLEAN
       /\ run.traces \in Seq(Range(run.traces)) /\ run.traces # <<>>
       /\ \A k \in DOMAIN run.traces : TraceFile(run.traces[k])

VARIABLES
  args,      \* the run of Runs
  stage,     \* where main is: libc, libc speed, read, valid, util, speed, judged, done, or how it ended
  tracenum, opnum,    \* the trace, and the request of it that comes next
  heap,
  blocks,    \* the block and size of each index, both 0 before they are set
  ranges,    \* the payloads that are allocated, the last one first
  answer,    \* what the allocator returned last
  total, max_total,   \* eval_mm_util's sizes
  errors,
  valid      \* whether the traces so far were processed correctly

mdriverVars == <<args, stage, tracenum, opnum, heap, blocks, ranges, answer, total, max_total, errors, valid>>

Trace == args.traces[tracenum]
num_ops == Len(Trace.ops)
Request == Trace.ops[opnum]
Unset == [at |-> NULL, size |-> 0]

\* The driver compares a char with an int: the upper half of the bytes is negative.
LowByte(index) == index % BYTE
Char(val) == IF val % BYTE < BYTE \div 2 THEN val % BYTE ELSE (val % BYTE) - BYTE

-----------------------------------------------------------------------------
\* What the allocator may answer: the memory then, and the pointer or status.

Anywhere == {NULL} \cup (Base - 1) .. (Base + Wild)

\* Only valid looks at more than whether there is an answer.
Answers == IF stage = "valid" THEN Anywhere ELSE {NULL, Base}

InitAnswers(h) ==
  IF args.allocator = "book" THEN {mm_init(h)}
  ELSE {[h |-> h, p |-> -1], [h |-> [h EXCEPT !.brk = Base + Wild], p |-> 0]}

MallocAnswers(size) ==
  IF args.allocator = "book" THEN {mm_malloc(heap, size)} ELSE {[h |-> heap, p |-> a] : a \in Answers}

\* The data may come along, in a heap that has room for it.
ReallocAnswers(ptr, size) ==
  IF args.allocator = "book" THEN {mm_realloc(heap, ptr, size)}
  ELSE {[h |-> heap, p |-> a] : a \in Answers}
       \cup {[h |-> memcpy(heap, a, ptr, size), p |-> a] :
               a \in {a \in Answers \ {NULL} : a >= Base /\ a + size <= heap.brk /\ ptr + size <= heap.brk}}

FreeAnswer(ptr) == IF args.allocator = "book" THEN mm_free(heap, ptr) ELSE heap

-----------------------------------------------------------------------------
\* Mutant of add_range: only the first cell of a payload is looked for in the others.
AddRangeLow(list, lo, size, h) ==
  LET hi == lo + size - 1
      ok == /\ lo % ALIGNMENT = 0
            /\ Base <= lo /\ lo <= mem_heap_hi(h) /\ Base <= hi /\ hi <= mem_heap_hi(h)
            /\ \A k \in DOMAIN list : ~(lo >= list[k].lo /\ lo <= list[k].hi)
  IN [ok |-> ok, list |-> IF ok THEN <<[lo |-> lo, hi |-> hi]>> \o list ELSE list]

\* The payload must be aligned, in the heap, and neither end of it in another one.
add_range(list, lo, size, h) ==
  LET hi == lo + size - 1
      ok == /\ lo % ALIGNMENT = 0
            /\ Base <= lo /\ lo <= mem_heap_hi(h) /\ Base <= hi /\ hi <= mem_heap_hi(h)
            /\ \A k \in DOMAIN list : /\ ~(lo >= list[k].lo /\ lo <= list[k].hi)
                                      /\ ~(hi >= list[k].lo /\ hi <= list[k].hi)
  IN [ok |-> ok, list |-> IF ok THEN <<[lo |-> lo, hi |-> hi]>> \o list ELSE list]

\* The first record that begins at lo goes.
remove_range(list, lo) ==
  LET found == {k \in DOMAIN list : list[k].lo = lo} IN
  IF found = {} THEN list ELSE RemoveAt(list, CHOOSE k \in found : \A j \in found : k <= j)

\* clear_ranges frees every record.
clear_ranges == ranges' = <<>>

memset(h, lo, val, size) ==
  [h EXCEPT !.mem = [a \in DOMAIN @ |-> IF a \in lo .. (lo + size - 1) THEN val ELSE @[a]]]

\* The end of reading a file: a bogus type ends the program at once, numbers in
\* the header that are not those of the requests fail an assertion (with too
\* many requests after writes behind the array). The index of a free does not count.
read_trace(file) ==
  LET named == {0} \cup {file.ops[k].index : k \in {j \in DOMAIN file.ops : file.ops[j].type # "f"}} IN
  CASE \E k \in DOMAIN file.ops : file.ops[k].type \notin {"a", "r", "f"} -> "exit"
    [] file.num_ids - 1 \notin named \/ \E j \in named : j > file.num_ids - 1 -> "aborted"
    [] file.num_ops # Len(file.ops) -> "aborted"
    [] OTHER -> "read"

\* The options of main give the allocator, the traces and whether libc is run;
\* the team's names are filled in.
MdriverInit ==
  /\ args \in Runs
  /\ stage = IF args.run_libc THEN "libc" ELSE "read"
  /\ tracenum = 1 /\ opnum = 0 /\ heap = Fresh /\ blocks = <<>> /\ ranges = <<>> /\ answer = NULL
  /\ total = 0 /\ max_total = 0 /\ errors = 0 /\ valid = <<>>

\* app_error and unix_error end the program, whatever was found before.
app_error == stage' = "exit"

\* Only malloc and realloc can fail.
Allocates(ops) == \E k \in DOMAIN ops : ops[k].type \in {"a", "r"}

\* libc's malloc over the next trace: it is not judged. One that fails is an error,
\* and then unix_error ends the program before anything is summed up.
LibcValid ==
  /\ stage = "libc"
  /\ LET file == read_trace(Trace) IN
       \/ file # "read" /\ stage' = file /\ UNCHANGED errors
       \/ file = "read" /\ Allocates(Trace.ops) /\ app_error /\ errors' = errors + 1
       \/ file = "read" /\ stage' = "libc speed" /\ UNCHANGED errors
  /\ UNCHANGED <<args, tracenum, opnum, heap, blocks, ranges, answer, total, max_total, valid>>

\* After the last trace libc is done, and mm's turn comes.
NextLibcTrace ==
  \/ tracenum = Len(args.traces) /\ stage' = "read" /\ tracenum' = 1
  \/ tracenum < Len(args.traces) /\ stage' = "libc" /\ tracenum' = tracenum + 1

LibcSpeed ==
  /\ stage = "libc speed"
  /\ (Allocates(Trace.ops) /\ app_error /\ UNCHANGED tracenum) \/ NextLibcTrace
  /\ UNCHANGED <<args, opnum, heap, blocks, ranges, answer, total, max_total, errors, valid>>

\* eval_mm_valid's verdict.
Verdict(ok) ==
  /\ valid' = Append(valid, ok)
  /\ errors' = IF ok THEN errors ELSE errors + 1

\* The next trace is read, and eval_mm_valid begins with an empty heap.
Read ==
  /\ stage = "read"
  /\ IF read_trace(Trace) # "read"
       THEN stage' = read_trace(Trace) /\ UNCHANGED <<heap, blocks, ranges, errors, valid, answer, opnum>>
       ELSE \E start \in InitAnswers(mem_reset_brk(heap)) :
              /\ heap' = start.h /\ answer' = start.p /\ clear_ranges
              /\ blocks' = [index \in 0 .. (Trace.num_ids - 1) |-> Unset]
              /\ IF start.p < 0 THEN stage' = "judged" /\ opnum' = 0 /\ Verdict(FALSE)
                                ELSE stage' = "valid" /\ opnum' = 1 /\ UNCHANGED <<errors, valid>>
  /\ UNCHANGED <<args, tracenum, total, max_total>>

\* A request of eval_mm_valid that fails: the trace is not valid.
Fails == stage' = "judged" /\ Verdict(FALSE) /\ UNCHANGED <<blocks, opnum>>

\* The payload is remembered and filled with the low byte of its index.
Remember(h, lo, index, size) ==
  /\ heap' = memset(h, lo, LowByte(index), size)
  /\ blocks' = [blocks EXCEPT ![index] = [at |-> lo, size |-> size]]
  /\ opnum' = opnum + 1
  /\ UNCHANGED <<stage, errors, valid>>

ValidAlloc ==
  /\ stage = "valid" /\ opnum <= num_ops /\ Request.type = "a"
  /\ \E new \in MallocAnswers(Request.size) :
       LET added == add_range(ranges, new.p, Request.size, new.h) IN
       /\ answer' = new.p
       /\ \/ new.p = NULL /\ Fails /\ heap' = new.h /\ UNCHANGED ranges
          \/ /\ new.p # NULL /\ Request.size = 0                     \* assert(size > 0)
             /\ stage' = "aborted" /\ heap' = new.h
             /\ UNCHANGED <<ranges, blocks, opnum, errors, valid>>
          \/ new.p # NULL /\ Request.size > 0 /\ ~added.ok /\ Fails /\ heap' = new.h /\ UNCHANGED ranges
          \/ /\ new.p # NULL /\ Request.size > 0 /\ added.ok
             /\ ranges' = added.list /\ Remember(new.h, new.p, Request.index, Request.size)
  /\ UNCHANGED <<args, tracenum, total, max_total>>

\* The data of the old payload is looked for after the new one is in the list.
ValidRealloc ==
  /\ stage = "valid" /\ opnum <= num_ops /\ Request.type = "r"
  /\ LET old == blocks[Request.index]
         kept == IF Request.size < old.size THEN Request.size ELSE old.size
     IN \E new \in ReallocAnswers(old.at, Request.size) :
       LET added == add_range(remove_range(ranges, old.at), new.p, Request.size, new.h)
           Same == \A j \in 0 .. (kept - 1) : Char(new.h.mem[new.p + j]) = LowByte(Request.index)
       IN /\ answer' = new.p
          /\ \/ new.p = NULL /\ Fails /\ heap' = new.h /\ UNCHANGED ranges
             \/ new.p # NULL /\ ~added.ok /\ Fails /\ heap' = new.h /\ ranges' = added.list
             \/ new.p # NULL /\ added.ok /\ ~Same /\ Fails /\ heap' = new.h /\ ranges' = added.list
             \/ /\ new.p # NULL /\ added.ok /\ Same
                /\ ranges' = added.list /\ Remember(new.h, new.p, Request.index, Request.size)
  /\ UNCHANGED <<args, tracenum, total, max_total>>

ValidFree ==
  /\ stage = "valid" /\ opnum <= num_ops /\ Request.type = "f"
  /\ ranges' = remove_range(ranges, blocks[Request.index].at)
  /\ heap' = FreeAnswer(blocks[Request.index].at)
  /\ opnum' = opnum + 1
  /\ UNCHANGED <<args, stage, tracenum, blocks, answer, total, max_total, errors, valid>>

\* The heap begins anew for eval_mm_util and eval_mm_speed; a failure ends the program.
Restart(next) ==
  \E start \in InitAnswers(mem_reset_brk(heap)) :
    /\ heap' = start.h /\ opnum' = 1
    /\ stage' = IF start.p < 0 THEN "exit" ELSE next

ValidEnd ==
  /\ stage = "valid" /\ opnum > num_ops
  /\ Verdict(TRUE) /\ Restart("util") /\ total' = 0 /\ max_total' = 0
  /\ UNCHANGED <<args, tracenum, blocks, ranges, answer>>

\* A request of eval_mm_util or eval_mm_speed, and the size it sets.
Perform(size) ==
  LET old == blocks[Request.index].at IN
  IF Request.type = "f"
    THEN heap' = FreeAnswer(old) /\ opnum' = opnum + 1 /\ UNCHANGED <<stage, blocks>>
    ELSE \E new \in IF Request.type = "a" THEN MallocAnswers(Request.size) ELSE ReallocAnswers(old, Request.size) :
           /\ heap' = new.h
           /\ IF new.p = NULL THEN stage' = "exit" /\ UNCHANGED <<blocks, opnum>>
              ELSE /\ blocks' = [blocks EXCEPT ![Request.index] = [at |-> new.p, size |-> size]]
                   /\ opnum' = opnum + 1 /\ UNCHANGED stage

\* What a request adds to the size of all payloads.
Grown(request, old) ==
  CASE request.type = "a" -> request.size
    [] request.type = "r" -> request.size - old
    [] request.type = "f" -> -old

Util ==
  /\ stage = "util" /\ opnum <= num_ops
  /\ Perform(Request.size)
  /\ total' = IF stage' = "exit" THEN total ELSE total + Grown(Request, blocks[Request.index].size)
  /\ max_total' = IF total' > max_total THEN total' ELSE max_total
  /\ UNCHANGED <<args, tracenum, ranges, answer, errors, valid>>

\* The utilization is max_total to heapsize; then the speed is measured.
UtilEnd ==
  /\ stage = "util" /\ opnum > num_ops
  /\ Restart("speed")
  /\ UNCHANGED <<args, tracenum, blocks, ranges, answer, total, max_total, errors, valid>>

\* eval_mm_speed does not touch the sizes. fsecs calls it several times, each like the first.
Speed ==
  /\ stage = "speed" /\ opnum <= num_ops
  /\ Perform(blocks[Request.index].size)
  /\ UNCHANGED <<args, tracenum, ranges, answer, total, max_total, errors, valid>>

SpeedEnd ==
  /\ stage = "speed" /\ opnum > num_ops /\ stage' = "judged"
  /\ UNCHANGED <<args, tracenum, opnum, heap, blocks, ranges, answer, total, max_total, errors, valid>>

\* The next trace, or the sums.
NextTrace ==
  /\ stage = "judged"
  /\ stage' = IF tracenum = Len(args.traces) THEN "done" ELSE "read"
  /\ tracenum' = IF tracenum = Len(args.traces) THEN tracenum ELSE tracenum + 1
  /\ UNCHANGED <<args, opnum, heap, blocks, ranges, answer, total, max_total, errors, valid>>

MdriverNext ==
  \/ LibcValid \/ LibcSpeed \/ Read \/ ValidAlloc \/ ValidRealloc \/ ValidFree \/ ValidEnd
  \/ Util \/ UtilEnd \/ Speed \/ SpeedEnd \/ NextTrace

MdriverSpec == MdriverInit /\ [][MdriverNext]_mdriverVars

\* The performance index is computed when there are no errors, else it is 0.
Indexed == errors = 0
numcorrect == Cardinality({k \in DOMAIN valid : valid[k]})
-----------------------------------------------------------------------------
\* The payloads after the first k requests, from the trace alone.
SizeAfter(k, index) == SizeIn(Trace.ops, k, index)

Ids == 0 .. (Trace.num_ids - 1)
LiveAfter(k) == {index \in Ids : SizeAfter(k, index) > 0}
Total(sizes, n) ==
  LET sum[m \in 0 .. n] == IF m = 0 THEN 0 ELSE sum[m - 1] + sizes[m - 1] IN sum[n]
TotalAfter(k) == Total([index \in Ids |-> SizeAfter(k, index)], Trace.num_ids)

Cells(lo, size) == lo .. (lo + size - 1)
Payload(index) == Cells(blocks[index].at, blocks[index].size)
Fits(cells) == cells \subseteq Base .. mem_heap_hi(heap)
\* One payload holds the other and more at both ends.
Encloses(c, d) == d \subseteq c /\ \A a \in d : a - 1 \in c /\ a + 1 \in c

\* What the driver accepts is right: the payloads are those of the trace, aligned and in the
\* heap, the list holds them and no others, and two of them overlap only when
\* one encloses the other, which the driver cannot see (mdriver.c:409).
AcceptedRight ==
  stage = "valid" =>
    LET live == LiveAfter(opnum - 1) IN
    /\ {ranges[k] : k \in DOMAIN ranges} =
         {[lo |-> blocks[j].at, hi |-> blocks[j].at + blocks[j].size - 1] : j \in live}
    /\ Len(ranges) = Cardinality(live)
    /\ \A j \in live : /\ blocks[j].size = SizeAfter(opnum - 1, j)
                       /\ blocks[j].at % ALIGNMENT = 0 /\ Fits(Payload(j))
    /\ \A j, l \in live : j # l => \/ Payload(j) \cap Payload(l) = {}
                                   \/ Encloses(Payload(j), Payload(l))
                                   \/ Encloses(Payload(l), Payload(j))

\* What it rejects is wrong: no memory, or a payload that is not aligned, not in
\* the heap or in that of another, or whose data is lost; or it is a byte of the
\* upper half, which the driver never finds again (mdriver.c:655).
RejectedRight ==
  stage = "judged" /\ ~Last(valid) /\ opnum > 0 =>
    LET others == LiveAfter(opnum - 1) \ {Request.index}
        cells == Cells(answer, Request.size)
    IN \/ answer = NULL \/ answer % ALIGNMENT # 0 \/ ~Fits(cells)
       \/ \E j \in others : Payload(j) \cap cells # {}
       \/ /\ Request.type = "r"
          /\ \/ LowByte(Request.index) >= BYTE \div 2
             \/ \E a \in cells : a - answer < blocks[Request.index].size
                                 /\ heap.mem[a] % BYTE # LowByte(Request.index)

\* The allocator of mmbook.c fails for want of memory only, in mm_init or later
\* (but for those bytes), and every payload holds what the driver wrote there.
BookRight ==
  args.allocator = "book" =>
    /\ stage = "judged" /\ ~Last(valid) =>
         opnum = 0 \/ answer = NULL \/ (Request.type = "r" /\ LowByte(Request.index) >= BYTE \div 2)
    /\ stage = "valid" => \A j \in LiveAfter(opnum - 1) : \A a \in Payload(j) : heap.mem[a] = LowByte(j)
    /\ stage = "util" => max_total < heap.brk - Base

\* The sizes that eval_mm_util keeps are those of the trace.
UtilRight ==
  stage = "util" =>
    /\ total = TotalAfter(opnum - 1)
    /\ \A k \in 0 .. (opnum - 1) : TotalAfter(k) <= max_total
    /\ \E k \in 0 .. (opnum - 1) : TotalAfter(k) = max_total

\* Every trace that is not valid is one error, and the index is printed when all are valid.
ErrorsCounted ==
  /\ stage # "exit" => errors = Len(valid) - numcorrect
  /\ stage = "done" => Len(valid) = Len(args.traces) /\ (Indexed <=> numcorrect = Len(args.traces))

\* The driver of the allocators accepts and rejects what it should: of an
\* allocator that answers anything, what passes keeps its promises but for a
\* payload around another, and what fails broke one; mmbook.c fails for want of
\* memory only; the sizes are those of the trace, and each failure one error
\* (mdriver.c add_range and eval_mm_valid).
DriverRight == AcceptedRight /\ RejectedRight /\ BookRight /\ UtilRight /\ ErrorsCounted
=============================================================================
