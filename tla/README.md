# Formal models of the ICS labs

The repository is a set of systems-programming labs in C: a job-control shell,
a concurrent web proxy, a memory allocator, a cache simulator, a matrix
transposition, a Y86 assembler, two Y86 simulators (sequential and pipelined)
with their control logic, and a set of bit puzzles. This directory holds TLA+
modules that model the state and the control of these programs, TLC runs that
check the models on small instances, and proofs that the TLA+ proof system
checks for every value of the constants. Line numbers refer to the sources.

## Inventory

| component | source | state | operations | interacts through | hard behaviour |
|---|---|---|---|---|---|
| job-control shell | lab9/tsh.c | job table, nextjid, signal mask, locals of eval and do_bgfg | commands, fork/exec, fg/bg, three signal handlers | signals, process groups, wait status | handlers interrupt main and each other, signals merge, children race with their parent |
| web proxy | lab10/proxy.c, csapp.c | descriptors, two semaphores, one thread per connection | accept, parse request, connect, copy request and response, log | sockets, semaphores, process-wide exit | peers that stop or fail at any byte, failed connects, one thread ending the process |
| buffered I/O | lab10/csapp.c | rio_t buffer of each descriptor | rio_read, rio_readnb, rio_readlineb, rio_writen | read and write system calls | short counts, end of file, interrupted calls |
| allocator | lab7/mm.c, memlib.c | heap of tagged blocks, tree of free blocks with equal-size chains | mm_malloc, mm_free, mm_realloc | header words shared by neighbours | block boundaries, coalescing, data moved under the tree's own words |
| driver of the allocators | lab7/mdriver.c, mmbook.c | trace, list of payloads, counts | read_trace, valid, util, speed | calls the allocator | judging an allocator that may answer anything |
| cache simulator | lab8/csim.c | sets of lines with timestamps | load, store, modify | trace file | uninitialised timestamps, replacement |
| matrix transposition | lab8/trans.c | two matrices | blocked copies | - | block borders |
| Y86 simulator | lab4/y86sim.c | memory, registers, condition codes, status | nexti | byte code | faults in the middle of an instruction |
| Y86 assembler | lab5/y86asm.c | symbol table, relocation table, lines | parse a line, relocate, write the image | two passes over the lines | forward references, symbols whose names are prefixes |
| assembler of the processors | lab6/sim/misc/yas.c, yas-grammar.lex | tokens, symbol table, buffers | two passes over the file | scanner calls the assembler; listing read by isa.c | REJECT, the file read twice |
| HCL compiler | lab6/sim/misc/node.c, hcl.y, hcl.lex and what flex and bison made of them | symbol table, buffers, stacks | scan, parse, check, generate | scanner, parser, code generator | tokens across buffers, stacks that grow, lists linked through their nodes |
| object files | yas.c, misc/isa.c, lab4/y86sim.c | memory | print a line, load, store | a text file | ends of the memory, byte order |
| pipelined processor | lab6/sim/pipe | five pipeline registers, memory, registers | one clock cycle | forwarding, stall and bubble conditions | hazards between instructions in flight |
| architecture lab program | lab6/sim/pipe/ncopy.ys, gen-driver.pl | - | copy a block, count | runs on the pipeline | lengths about multiples of sixteen |
| sequential processor | lab6/sim/seq, misc/isa.c | memory, registers, condition codes | one instruction | - | faults |
| bit puzzles | lab1/bits.c | - | pure functions on 32-bit words | - | overflow, shifts, the most negative number |

What makes each of them correct:

* shell: the table follows the kernel; keys reach the foreground job and only
  it; at most one foreground job; no zombie and no hanging prompt.
* proxy: log entries do not interleave, every descriptor is closed once, one
  bad connection does not disturb the others, no thread waits for ever for a
  semaphore.
* buffered I/O: the bytes handed out are the bytes of the stream, in order,
  without loss, whatever the short counts.
* allocator: blocks tile the heap, the tree holds exactly the free blocks, no
  two neighbours are free, allocated blocks do not overlap and keep their data.
* cache simulator: hits, misses and evictions are those of an LRU cache.
* processors: the pipelined one produces the state of the sequential one.
* assemblers: every reference is resolved to the address of its own symbol, and
  both make the same memory of a source.
* scanners and parser: the tokens are the longest matches wherever the buffer
  ends, and exactly the files of the grammar are accepted.
* HCL compiler: the C functions compute what the definitions mean.
* driver: what it accepts is right and what it rejects is wrong.
* bit puzzles: each function computes what its comment says.

## The shell (JobTable, JobControl, Tsh)

`JobTable` holds the routines on the job array as pure operators with the names
of the C functions. `JobControl` is the
abstract specification: the life of a job as the comment at the head of tsh.c
draws it. `Tsh` is the shell.

State: `jobs`, `nextjid` are the globals. `proc`, `unseen`, `latched` are what
the kernel knows of each child: a child is forked, then has its own process
group (setpgid), then runs its program (exec); `unseen` are the stops waitpid
has not reported, `latched` the SIGINTs kept for a stopped child. `pending` is a
set because signals do not queue, `blocked` is the mask eval sets, `stack` is
the nesting of handlers: every handler is installed with an empty mask, so any
signal but its own interrupts it. `victim` and `status` are the locals of the
handlers, `pc`, `cur`, `bg`, `slot` those of main, eval, waitfg and do_bgfg.
`shell` says how the shell ended, if it did.

An action is the code between two points at which a handler could matter. The
shell reads the table and calls kill in different actions, and do_bgfg is cut
between its lookup, its test and its assignments, since SIGCHLD is not blocked
there. Left out: the command line and its parsing, printing, the environment of
the child. A key that reaches a child between setpgid and exec is caught by the
handler the child inherited and has no effect.

Runs. `tsh_safety` checks the invariants and the refinement of `JobControl` with
two children, two slots, both keys, external SIGSTOP and SIGKILL; two children
are enough for a foreground and a background job at once and for two deaths under
one SIGCHLD. `tsh_liveness` has one slot for the two children, so that addjob
refuses one, and external SIGKILL and SIGCONT; it checks that zombies are reaped
and waitfg returns. Its bounds leave out ctrl-c and external stops, which the
safety run has.

`OneForeground` allows a stale entry with pid 0 in state FG, see below.
`TableMatchesKernel` is about the prompt: while main waits, `tsh_fg_stop_race`
shows that the table can be wrong.
The header comment of tsh.c lists the transitions of a job and has neither the
stop of a background job nor the end of a job; `JobControl` adds both since
sigchld_handler performs them.

Fairness. `FairSpec` gives strong fairness to the code of the shell that has
started (a command in progress, each handler) and to the delivery of SIGCHLD:
keys arrive at human speed, so interrupted code runs again. Nothing is assumed
of the user, of the children or of other processes.

Proved for every MAXJOBS, any number of children and any set of external
signals.

`TshProofs` begins with lemmas on the table routines; the maximum of the jids
exists by the least-number principle of `LeastNumber`. Then `IndInv` is
inductive, and with it TypeOK, NoStaleJob, OneForeground and
OnlyForegroundSignalled hold. The invariant adds to these what main's locals mean
at each location, that a blocked SIGCHLD is not being handled, that the handler's
status matches the kernel, that the child between fork and addjob is alive and
not in the table, that no pid is in two slots (deletejob removes the first only)
and that a handler with a victim is active.

`TshProofs` goes on to `ShellInv`, which the run `tsh_safety` checks as well.
Its parts beyond `IndInv`, each needed for a theorem:

- `EveryChildTracked`, under MaxPid <= MAXJOBS: addjob never meets a full table,
  since its child is not yet in it and no pid is in two slots (a pigeonhole
  argument, lemma RoomForOne). `NullJobInv` adds that the child whose status the
  handler holds is in the table, so that the null job of line 407 needs a table
  that was too short (theorem NoNullJob).
- `ReportsInv`: whatever waitpid would return has left a SIGCHLD that is pending
  or being handled. This is what a handler that reaps one child per signal breaks.
- `StopsInv` and `MatchInv`, when nobody but the shell continues a child: where
  the report of a stop is, between the kernel and the table, and which windows of
  bg and fg hold the table behind (`TableMatchesKernel` follows at the prompt, where
  every window is closed). `MatchInv` names the race of fg as the one place where
  a stop stays unreported.

The refinement `ShellImplementsJobControl` maps every step: EvalAddjob starts a
job, BgSet and FgSet are the commands, ChldUpdate is a stop or an end, the steps in
which a child dies are Die, all others stutter; `JobOfSlot` relates the job function
of the abstract specification to the scan of getjobpid. It assumes MaxPid <= MAXJOBS
as a longer run of children than slots starts jobs the table does not hold.
The liveness properties are model-checked only.


The model also has these behaviours, which disagree with comments of the file:
do_bgfg keeps a job pointer over a SIGCHLD that deletes the job and then writes
FG into the free entry (line 362), so that fgpid finds pid 0 first while another
job is in the foreground and keys are dropped; ctrl-c between addjob and the
child's setpgid makes kill fail and sigint_handler exits the shell (line 438); a
child that the full table refused and that a signal kills makes sigchld_handler
use a null job (line 407); eval looks up the jid of a background job after
SIGCHLD is unblocked and may print 0 (line 224); nextjid wraps at MAXJOBS without
looking whether the jid is in use (line 508).

## The web proxy (Proxy, MCProxy)

One process, one thread per accepted connection. `pc`, `connfd`, `proxyfd`,
`buf`, `hlen`, `addr`, `size` and `stamp` are the locals of each thread. All
threads share the descriptor table `fds`, the semaphores `fd_mutex` and
`log_mutex`, the static result `hostent` of gethostbyname (which fd_mutex
protects), the static result `tm` of localtime (which nothing protects), the log,
and `process`, which says whether the process still runs. `req`, `rsp`, `gone`
and `got` belong to the peers.

An action is one system call, or the code between two of them, of one thread;
each error path of open_clientfd_ts, clienterror and doit is an action or a
disjunct of its own. `Close` of a bad number exits the process, as `unix_error`
does; `process` names the wrapper that ended it. format_log_entry is four steps:
time(NULL), localtime, and strftime's reads of the date and of the clock in
localtime's buffer. Descriptors are numbers handed out lowest first, so that a
number closed too early is used again by another thread. Requests and responses
are scripts: what the request line parses to, whether headers follow, whether the
peer ends in the middle. A client that leaves takes no more data; a server that
leaves shows as a write that fails, which may happen at any time. Left out: the text of requests, responses and log lines, the
wording of error pages, SIGPIPE (ignored by main).

Runs. `proxy_safety` has two connections, good, bad and broken-off requests, peers
that leave at any time, a clock that moves once, and four descriptors, as many as
two threads need: a number closed too early or twice is reused at once. accept and socket fail at any time. Two
threads are enough for the static buffers and the log, which threads disturb
pairwise. `proxy_liveness` has peers that finish what they send; under weak
fairness of each thread (kernel threads: the scheduler runs each one that can
run; each connection has finite work, so a semaphore is free again and again)
every connection ends. `proxy_survives` shows that one server that cannot be
reached ends the process for all clients: doit closes the error code that
open_clientfd_ts returned. Its property speaks of ends by Close only; accept and
clienterror have wrappers that end the process by design.

The model also has these behaviours, which disagree with comments of the file:
parse_uri uses a null pointer when nothing follows the host (line 289), the
header loop does not see the end of the request and sends its last line again
and again (line 171), the response header is written to the server instead of
the client (line 190). localtime's static result may be another thread's (line
328), although line 201 calls this "thread safe technique": thread A asks for the
time, B asks later and fills the buffer, A fills it with its earlier time, and B
prints that; with the write between B's two reads, B prints the date of one
time and the clock of another. `LogTrue` states what is left: both parts were
read from the clock by some thread.

Proved (module `ProxyProofs`) for any set of connections, peers, hosts and any
number of descriptors: `ProxyInv` is inductive. It says which locations hold
which semaphore, that between the copy of the static host entry and its use the
thread holds `fd_mutex`, that every descriptor a thread will still use is open
and its own, and that a thread past its last close holds none. MutualExclusion,
RightServer, DescriptorsOwned and DescriptorsReclaimed follow. `LogTrue` needs a
second invariant, `LogInv`: `size` counts what the client received while it is
there (CountsSent), a thread past the copy loop has counted the whole response
(BodyDone), a thread asks for the time once (AsksOnce), so that a time once asked
stays asked and whatever is found in localtime's buffer was asked (StampsAsked),
and an entry belongs to a thread that is done with its body, whose size does not
change any more and which writes no second one (EntriesFinal). ThreadsEnd is
model-checked only.

## Buffered I/O (Rio, MCReaders, RioProofs)

`Rio` has the two ends of one stream: a process that calls rio_writen, the
kernel's buffer, and a process that calls rio_readnb and rio_readlineb in any
order on one `rio_t`. `rio_buf`, `rio_cnt`, `rio_bufptr` are its fields; `bufp`,
`nleft` are the locals of rio_writen; `usrbuf` is what the call in progress has
copied. One action is one system call with its outcome (k bytes, interrupted,
end of stream, error), or one copy of rio_read. rio_readlineb asks rio_read for
one byte at a time, rio_readnb for all it wants. A byte is its position in the
stream: content does not matter but newlines, which `NL` names, do.

The run `readers`, which has other programs that read a stream as well, uses four bytes, a pipe of three and a buffer of two: a line
crosses a refill, a block needs two, and the pipe is full while both sides are
in the middle of a call; calls include rio_readlineb with room for the final 0
only. One interrupt (`MaxInterrupts`) hits either side at any place. Fairness:
both processes run (the kernel returns from a call that can return), and the
reader does not ask for empty lines for ever.

Proved (module `RioProofs`) for every stream, buffer size, pipe size, mix of
calls and number of interrupts: `RioInv`, that is the types, the bounds that
keep the copies inside the buffers and `StreamIntact`, is inductive as it
stands; `ReportedAccepted` follows. `CallsComplete` has an invariant of its own
for the loops of rio_readnb and rio_readlineb (`Underway`: what a call in progress
has copied so far). That all bytes
arrive (`AllDelivered`, checked as `Delivered`) is liveness and model-checked.
## The cache simulator and the transposition (Csim, LruCache, LabProofs, Trans)

`LruCache` is what the program promises: per set the tags it holds, which of them
was used before which (a relation, `older`; the victim is the tag older than all
others), and the three counts. `Csim` is the code: lines with
timestamps, the search for a match and for the smallest timestamp, the clock
that advances with each access. An action is a line of the trace. The run `labs`
takes all traces of up to six accesses (`MaxTime`) over seven addresses that
fall, with s = b = 1 and E = 2, into two sets with three and more tags each and
share blocks: every set fills, hits out of order and evicts. `ImplementsLru` is
the refinement; its mapping reads `held` and `older` off the valid lines and their
timestamps, and the address of the last access is part of the state so that the
abstract cache makes the same access.

The timestamps of empty lines are not initialised in the code. The process
allocates nothing before them and a fresh heap is zero, so the model starts with
0. E = 0, for which the code uses index -1, is excluded by an assumption, and
the shifts are modelled for s + b < 31, where the ints of the code do not
overflow.


Proved (module `LabProofs`) for any number of sets and lines and any trace: the
types, `LinesDistinct`, that hits, misses and evictions add up, and the refinement
(`ReplacesLeastRecent`, Spec => ImplementsLru). The invariant says (`Good`) that no
timestamp is ahead of the clock (`Stamped`), that the valid lines of a set have
distinct tags and distinct timestamps (`Distinct`), that a line is valid exactly when
its timestamp is not 0 (`Clocked`, so that the smallest timestamp is that of an empty
line as long as there is one), and counts the filled lines (`Counted`). Distinct
timestamps make the line that a miss in a full set chooses the one whose tag is older
than all others (`VictimIsOldest`); distinct tags make the number of valid lines that
of the tags held (`HeldCount`), so that the code finds an empty line exactly when the
abstract set has room; and a line stamped with the clock becomes the youngest of its
set and leaves the order of the others alone (`Restamped`). The assumption `PowerAssumption` is that 2^s, 2^b and 2^(s + b) are
positive integers.

`Trans` is trans.c: the blocked functions for 32x32, 64x64 and 61x67 and the
baseline (at 3x4), one iteration of an innermost loop for each action, with an
instance of `Csim` of 32 lines of 32 bytes, as test-trans.c measures them. B
begins with -1 everywhere; parts of it hold other values on the way. `Transposed`
says that B is the transposed at the end and that the misses stay below 300, 1300
and 2000, the limits of driver.py (the model counts 284, 1184 and 1752: the
accesses of the marker variables of tracegen are left out; A and B are adjacent
and aligned). Sizes are constants of the lab, so nothing is left to prove.
## The allocator (FreeTree, Mm, MmProofs, MCMm)

`FreeTree` is the tree of free blocks: a search tree of sizes whose links are in
the payloads of the free blocks, with a chain behind a node for the blocks of
its size. `Mm` is the heap (headers and footers, `coalesce`, `place`,
`extend_heap`, the four calls of the interface and `mem_sbrk`) under the client
mdriver.c. The memory is a function from word addresses to words, as in the
code: links, tags and data share it, so a write to the wrong place shows as what
it destroys. `m.up` becomes FALSE at a write outside of the arena. An action is a
call by the client together with what the client does with the result: it fills
a new block with a pattern of its own and looks for the pattern again at a
realloc.

| module | code |
|---|---|
| `m.mem`, `m.brk` | the arena of memlib.c, `mem_brk` |
| `m.my_tree` | `my_tree` |
| `blk` | `trace->blocks`, `trace->block_sizes` of mdriver.c |
| `coalesce` | the four cases of lines 255-294 as one formula: the free neighbours leave the tree, the next one first, and the tags cover all |
| `mm_realloc` | the branches of lines 318-455: the block takes free neighbours, slides down, or moves to a fit |
| `memcpy` | external; for regions that overlap, either order of copying |

The run `mm` lets the client first make one of a set of heaps (`Scripts`, whose calls are
steps like the others): five holes of five
sizes freed in every order (all search trees of five nodes, two more calls), five
holes of four sizes in every order (trees with a chain, two more calls), and a
heap of three blocks (four more calls). That reaches every case of `delete_node`
(a root, an inner node, a successor that is not the right child, the first and a
later block of a chain), every case of `coalesce`, blocks with and without a rest
to split, extensions and an arena that is used up. `HeapTiled` and
`TreeHoldsFree` together say that tree and tags agree about every word of the
heap; `PayloadIntact` is what the driver checks; `FitsBest` is the best fit.

Sizes and constants are small: the first block is 16 words and an extension at
least 12 instead of 256 each, and realloc extends by 40 bytes and not by 28087.
The size 448, for which malloc takes 520 bytes, does not occur in the run; 112,
for which it takes 136, does. The assignments to `size` in lines 217-221 and
`flag` have no effect, since `my_size` is already computed, and are left out. A
size and an address have no bound but the arena, so nothing overflows.

Several branches of `mm_realloc` are wrong, and the model takes them as they
are: a copy to a fit before the fit has left the tree (lines 332, 372, 409, 450),
of the old size even into a smaller block, a size taken from the wrong neighbour
(358), neighbours that are lost (419, 442-453) and memcpy of overlapping regions
(344, 357, 424, 435). A step through one of them that really destroys something
makes `torn` TRUE: the links of the fit change, the copy is longer than the fit,
the size is another one, or the regions overlap. The properties speak of the heap
before, and no call follows. Reallocs that grow into the next block, move down
without overlap, or copy over links that happen to be equal are not torn and are
checked. The run `mm_realloc` follows the code into the first of these faults and
shows another block's data overwritten, with a memcpy that copies upwards, so
that undefined behaviour plays no part in it. Requests of at most 8 bytes to
realloc, which cut a block too small for the four links, are excluded by the
assumption on `ReSizes`; realloc of a null pointer, which reads before the check
of line 310, and heaps on which `mm_init` fails (it compares with 0 what
`mem_sbrk` reports as -1) are not modelled: the driver makes neither call.

### What is proved of the allocator

`MmProofs` proves for every arena, extension, set of requests and number of
blocks what the run checks on its instances: `TypeOK`, `HeapTiled`,
`TreeHoldsFree`, `PayloadIntact` and `FitsBest`. The loops of the code are walks
(`Walk`) of as many steps as there are sizes, by functions that stay at the end,
so that no definition is recursive; that each walk does come to its end is
part of the proofs.

None of the five properties is inductive. `MmInv` is, and theorem `Allocation` says it
holds: until a realloc tears the heap, there is a set B of blocks with

- `Tiling`: the blocks of B, with equal header and footer, cover the heap from
  heap_list_ptr to the break between the words of prologue and epilogue;
- `TreeOn`: the links in the free blocks of B are a tree with the root my_tree. It is
  a search tree as each node has bounds, passed on to its children, between which
  its size lies; each block inside a chain is linked with a predecessor of a lower
  rank and the same size. Bounds and ranks are existentially quantified functions;
  they replace the induction over the tree the prover cannot do: the search for a
  size meets exactly the nodes whose bounds enclose it, and the distance of the bounds
  shrinks with each step;
- no two free blocks of B are next to each other;
- `Client`: each allocated block of B is held by one client, is large enough for
  its request and has its pattern in every word.

After a torn realloc `MmInv` keeps only that the break and the domain of the memory are
as they should be (`Shape`), proved for every function on every memory, and no call
follows.

The argument goes up the layers of the code. First one write to a link
(`WriteLink`), then the sequences of writes of `delete_node` and `add_node` on the
functions left, right, parent, brother and size (`TreeUnchain`, `TreePassOn`,
`TreeLift`, `TreeTakeOver`, `TreeLeaf`, `TreeChain`, each with new bounds and ranks),
then `find_fit` and `Position`. On the tree rests the heap: blocks join a gap
between two addresses that no free block touches (`Loosened`), and allocated and
free blocks are cut from it (`Covers` and what follows it). From these come
`place`, `coalesce`, `extend_heap`, the calls of the interface and, with the cases of
`mm_realloc` that tear nothing, the steps of the client. The assumption is
`MmAssumption`: the arena has room for the first block, sizes are whole words,
and a realloc asks for more than 8 bytes.

## The driver of the allocators (Mmbook, Mdriver, MdriverProofs)

`Mmbook` is lab7/mmbook.c, an implicit list of tagged blocks, on the cells of
memlib.c. `Mdriver` is mdriver.c: read_trace, the list of payloads, eval_mm_valid,
eval_mm_util, eval_mm_speed, the loops of main and the count of errors. It runs
over mmbook.c or over an allocator "any" that answers each call with any address,
carries the data along or loses it: this is what the driver is there to judge.

The run `labs` has every trace of five requests over two indices and two sizes
(heap of 24 cells, extensions of 8), three blocks freed in every order, files
that are malformed in each way read_trace notices, pairs of files, and four
traces over the allocator "any", which answers every address while the trace is
judged. `DriverRight` is: what is accepted keeps the promises, with the
enclosing payload that line 409 misses as the exception; what is rejected broke
one, but for bytes of the upper half, which line 655 compares as negative chars;
mmbook.c fails for want of memory only; the sizes are those of the trace; every
rejected trace is one error. Options, the team, timing and printing are left out.
The traces of the repository reallocate small indices only, so line 655 never
shows there.

### What is proved of the driver

`MdriverProofs` proves `DriverRight` (`DriverIsFair`, MdriverSpec => []DriverRight) for
every arena, every extension, any number of trace files of any length and both
allocators. The assumptions are `MmbookAssumption` (a positive extension) and
`MdriverAssumption`: the trace files have the types of the C structs and are
`Balanced`, that is they allocate an index that has no block and reallocate or free
one that has, with positive sizes for a realloc. That is what the driver takes for
granted: it indexes `trace->blocks` without a check. Nothing is assumed of
`num_ids` and the kinds of requests; files that read_trace turns away are among them.

`DriverRight` says nothing of the blocks of mmbook.c between two calls, so it is
not inductive. The invariant is `DriverInv` (`DriverKeeps`), by stages of main:

- `Going`, while a trace runs: the trace could be read, and over mmbook.c there is a
  set of blocks that tile the heap (`Tiled`: equal tags, from the prologue to the
  epilogue) in which each payload that is live after the requests so far has a block
  of its own, in use and large enough for its size in the trace (`Placed`);
- `Accepted` and `Filled`, in eval_mm_valid: the list is one entry for each live
  payload, payloads have the sizes of the trace, are aligned, in the heap and apart or
  around each other, and over mmbook.c each holds the byte of its index;
- `Measured`, in eval_mm_util: the blocks have the sizes of the trace, the running
  total is theirs and the maximum is the largest so far;
- `Rejected` and `Excused`, after a trace that failed: why it did;
- `Typed` and `Counted`: the errors are the verdicts that are false.

The argument begins with the heap of mmbook.c. A write of tags keeps the tiling if
it splits a block in two (`place`), joins neighbours (`coalesce`) or adds one at the
end (`extend_heap`); `Kept` says which used blocks and bytes stay, and composes over
the calls of `mm_malloc`, `mm_free` and `mm_realloc`. `find_fit` walks as many steps as
there are cells, and on a tiled heap each step goes up, so the walk ends at a fit or
at the epilogue. Then come the sizes of a trace: a request changes the size of its
own index only (`SizeStep`), which moves one index into or out of the live ones. On
the list, an address that add_range takes is not in another payload at either end:
that leaves `Apart`, not disjoint, and no more can be proved. That mmbook.c is never
turned away combines the two: a new block is apart from the live blocks, so from the
entries of the list. The utilisation needs sums: `Total` is a recursive function, and
its facts (a change of one size, the sum of the sizes of disjoint payloads is at most
the cells of the heap) follow from the least-number principle of `LeastNumber`.

## The Y86 processors (Y86, Isa, Seq, Pipe, Y86Sim, MCPipe, PipeProofs)

`Y86` has what the machines share: words that wrap around, the register file,
the arithmetic unit, the condition codes, the names of the HCL files. `Isa` is
the instruction set as `step_state` of isa.c executes it, one action for an
instruction, and the abstract specification of the processors. `Seq` is
ssim.c with seq-full.hcl, `Y86Sim` is `nexti` of lab4/y86sim.c, one action for
each of its cases, and `Pipe` is psim.c with pipe-full.hcl: every control signal
is an operator with its HCL name, and a clock cycle is one action.

| module | code |
|---|---|
| `F`, `D`, `E`, `M`, `W` | the pipeline registers of psim.c |
| `D_stall`, `E_bubble`, ... | the expressions of pipe-full.hcl of that name |
| `Cycle` | `sim_step_pipe`: the stages, then `update_pipes` and the load of state |
| `I == INSTANCE Isa WITH ...` | the refinement: an instruction counts as executed when it enters M |
| `S`, `Y` in `MCPipe` | ssim.c and y86sim.c, which take a step at the same moment |

The run `pipe` takes all programs of four instructions, two from a list of 24,
one from seven and one from four (16,128 programs), over words of three bits, the
registers `eax` and `esp` and two data addresses. Two registers make every
operand a forwarding candidate; four lines are as many as meet in the stages D,
E, M and W; two addresses make pushes, pops and stores fall outside of memory.
`SequentialInStep` compares pipeline and sequential processor after every cycle,
`SimulatorInStep` the simulator of lab 4, `ImplementsIsa` is the refinement,
and `StallsEnd` is liveness under weak fairness of the cycle: the loop of
`sim_run_pipe` calls it as long as the status is good.

The run `pipe_absolute` follows an address without a base register, which yas
accepts: pipe-full.hcl gives the missing operand and the missing destination the
same name, RNONE, and forwards between them.

Two facts that the comparison has to know of: isa.c moves the stack pointer of
call, pushl, popl and leave before it finds that the address is bad, the
processors do not (`EspBeforeFault`, FALSE in the comparison); y86sim.c ignores
a store of rmmovl outside of memory (line 442) and lacks iaddl. psim.c counts
cycles as instructions (lines 754-772, the Stat of a bubble is turned into AOK),
so the limit of option -l counts bubbles; the count and the limit are left out.

Instructions have the length of one unit, programs and data are kept apart, and
data addresses are aligned. This hides the fetch limit of psim.c (lines 1399-1403):
it reads five bytes beyond the first of every instruction, so that a short one in
the last bytes of memory faults in the pipeline only. Left out: the graphics of HAS_GUI, tracing, options.

Proved (module `PipeProofs`) for any width of words, set of registers, memory,
program and starting values: `Refinement`, that every cycle is a step of `Isa` or
a stutter, faults included. The hypothesis `Loadable` says that each instruction
names the registers it needs: without it the theorem is false, as `pipe_absolute`
shows, and pipe-full.hcl lacks leave. The invariant `PipeInv` is the conjunction
of: `ValuesInv`, the types; `FetchInv` and `DecodeInv`, D and E hold a bubble or
what is fetched and decoded at their own pc; `FaultInv`, an instruction that is
wrong from the start touches no memory; and, as long as the pipeline is `Live`,
`ControlInv`, behind a ret and a mispredicted jump there are bubbles and every
other instruction is followed by the one predicted, and `OperandInv`, the operands
in E are the registers of the instruction set after the instructions ahead.
OperandInv is what makes the result right; to preserve it the step needs the names
and values in M and W (ValuesInv, DecodeInv), to know that what comes next is the
next instruction it needs ControlInv, and a fault needs FaultInv.

From the same invariant follow the two comparisons, for the machines side by side
(`MCSpec`): `SequentialAgrees` (SequentialInStep) and `SimulatorAgrees`
(SimulatorInStep). The other machine takes a step when the pipeline executes an
instruction, which is when the pipeline is Live and E holds no bubble
(`ExecutesLive`). OperandInv then gives the stages of the sequential processor the
operands in E, so that each of its signals is the signal of the stage of the pipeline
that has the instruction (`SequentialSignals`). For y86sim.c the lemmas say why code
that is written differently computes the same: `SameCodes`, its test for overflow of a
difference; `SameConditions`, the conditions of jumps; `SimulatorExecutes`, the order
of its writes. It takes the operands of and and xor in the other order than isa.c,
which is why `CommutativeAssumption` is needed of the two functions that stand for them.

## Objects, assemblers and their scanners

`AsmText` has the tokens of a line. `Y86Asm` is lab5/y86asm.c: `parse_line` with
a parser for every kind of argument, the tables of symbols and of relocations,
`relocate` and `binfile`. `Yas` is lab6/sim/misc/yas.c: `finish_line` in both
passes. Both run on the same sources in the run `labs`: all sources of three lines
from thirteen that define, use, move and overwrite, and single lines for every
form of argument. `ImageFaithful` compares y86asm with a meaning of sources that
is written from the grammar, symbol by symbol; `AssemblersAgree` compares the two
programs. Both are stated for sources in which no name begins with another's
(`NamesApart`): find_symbol compares with the length of the stored name
(y86asm.c:115), so a label `ab` takes the address of `a`.

Other behaviour of the code that the models have: `.pos` of a symbol takes 0,
`.align 0` divides by zero, `jmp $4` and an unknown mnemonic use a null pointer
(all y86asm); text behind a complete instruction is a comment; add_token of yas
tests `tpos` and not `tcount`. Spelling of tokens, messages and options are left
out of these two.

`ObjFile` is what lies between assembler and simulator: `hexstuff` and
`print_code` of yas, `load_mem` of isa.c, which reads the listing back,
`load_binfile` of y86sim.c, and the bytes and words of the memory. Lines as yas
prints them are mixed with lines by hand (blanks, capital digits, an odd digit, no
colon) around the end of a memory of 64 bytes, and a word or byte is stored at each
boundary. The listing has three digits for an address and the memory 0x2000 bytes
(isa.h:106): code from 0x1000 on is loaded at the low 12 bits. The property leaves
such listings out (`Printable`). load_binfile refuses a file exactly as long as
the memory; more than seven bytes of code in a line overflow `hexcode`, and
addresses near 2^31 overflow `pos + 4`: both are outside of the inputs.

`FlexTables` and `FlexBuffer` are what the two generated scanners share,
`HclScanner` is lex.yy.c, `YasScanner` is yas-grammar.c with REJECT and the two
passes of yas.c, `HclParser` is hcl.tab.c. `HclTables` and `YasTables` have the
rules of the .lex and .y files as sets of texts, which the automata are compared
with. In the run `readers` the texts are all pairs of 37 pieces (HCL) and of 28
pieces with and without a final newline (assembler), plus NUL characters; buffers are
of two characters that grow (HCL, one short read anywhere) and of eight that
cannot grow because of REJECT (assembler). A longest match that crosses the
buffer's end, a match taken back, and a line that does not fit occur in them. The
parser meets every text of up to seven tokens behind three beginnings; its stacks
begin at 4 and end at 12 so that they grow and give out. The reference is the set
of all files of ten tokens, each with its tree.

Facts about yas.c found on the way: a last line without newline is not finished in
the first pass, its tokens are put before the first line of the second pass
(yas.c:600-616); an invalid unfinished last line leaves the scanner in state ERR;
a line ended by `\r` alone is not saved. The comparison of the second pass is
for sources without invalid lines. Functions of flex that nothing calls are left
out.

## The HCL compiler (HclTree, Hcl)

`HclTree` has the expressions as the parser builds them, `Hcl` the symbol table,
the checks of node.c and the C expressions that gen_expr writes; an action is a
statement of the file. The run `labs` has every expression of depth two over two
integers, a Boolean and an undeclared name, Boolean and integer definitions, and
declarations that are doubled, late or too many for the table (3 places instead of
100; 5 errors end the compiler). `HclFaithful`: accepted means well-typed, and
the C code has the value of the definition. make_ele (node.c:307) never checks
the members of a set, so it is stated for sets with integer members; a case as a
member links its clauses into the set. Quoted code, the Verilog and UCLID
variants and the layout are left out, and ways of failing are not told apart.

## ncopy on the pipeline (Ncopy)

The program of the architecture lab, instruction by instruction as it stands in
ncopy.ys, with the driver gen-driver.pl writes around it, executed by the actions
of `Pipe`. Blocks have 0, 1, 2, 5, 15, 16, 17, 31, 32 and 33 words (the loop takes
sixteen at a time; the rest is a jump through a table behind the stack), with
four patterns of signs, with and without the checking routine. `NcopyRight`: the
block is copied, the count is right, the caller's registers are restored, nothing
else is written, and 2 * cycles <= 25 * n + 150, which is the 12.5 of benchmark.pl
with a constant for the call. Constants of the driver are small, words range over
2048 values.

## The bit puzzles (Bits, Btest, LabProofs)

A word is the set of the positions of its ones, so that `&`, `|`, `^`, `~` are set
operations and shifts move positions; `+` is the carry-lookahead definition.
Overflow wraps, which the code relies on. `Btest` is btest.c with its table, the
reference functions of tests.c and the values it draws: five at each boundary and
five fixed words (`rand` is not seeded). `PuzzlesRight` holds for all of them.

Proved (module `LabProofs`, beside the cache simulator): all fifteen puzzles for
every word of 32 bits, hence `PuzzlesRight` in every run of btest, whatever `Random`
draws (`FullScore`, BtestSpec => []PuzzlesRight under `TestAssumption`); most lemmas
are for any width, e.g. `LessRight` and `SumRight`. The argument: addition is determined
by its carries, the negative of x is ~x + 1, and the sign of a difference decides
between words of the same sign only. LONG_MIN and LONG_MAX in btest.c are words
because of -m32.

## How the modules fit together

| run | module | composes |
|---|---|---|
| `tsh_safety`, `tsh_liveness`, `tsh_fg_stop_race` | Tsh | JobTable; refines JobControl |
| `proxy_safety`, `proxy_liveness`, `proxy_survives` | MCProxy | Proxy with its peers |
| `readers` | MCReaders | Rio with its writer, HclScanner, YasScanner, HclParser, ObjFile |
| `labs` | MCLabs | Csim (refines LruCache), Trans with Csim, Y86Asm and Yas, Hcl, Btest, Ncopy on Pipe, Mdriver on Mmbook |
| `mm`, `mm_realloc` | MCMm | Mm with FreeTree and its client |
| `pipe`, `pipe_absolute` | MCPipe | Pipe (refines Isa), Seq, Y86Sim |

`readers` and `labs` hold sequential programs that have nothing to do with each
other: the variable `program` is chosen in the initial state and never changes,
the state of the others stays at a dummy value, and each property speaks of its
own program. A program that has finished, or ended with a message, stops, so
deadlock is not checked in `labs`, `mm` and `pipe`; in `readers` a
finished program stutters and deadlock is checked. Fairness is stated for the two
ends of Rio only: the others are loops that end.

Four runs follow the code into a state that a comment excludes; the findings
quote the comments: `tsh_fg_stop_race`, `proxy_survives`, `mm_realloc` and
`pipe_absolute`.

## What the prover does not cover

Liveness under fairness stays with TLC: ZombiesReaped, WaitfgEnds, ThreadsEnd,
AllDelivered, StallsEnd. So does what a recursive definition computes for every
input, which needs induction over data: the reference grammar of the parser and the
longest matches of the scanners (`ParsedRight`, `ScannersRight`, run `readers`), both
assemblers and the listings (`AssemblersAgree`, `ImageFaithful`) and the HCL compiler
(`HclFaithful`), whose modules are recursive, and `NcopyRight`, which is one
program on the pipeline for given lengths (run `labs`). `Transposed` speaks of the
sizes of the lab only and counts misses of a particular cache, which is
evaluation. They are model-checked on the instances described above.

Assumptions of the proofs are the named ASSUMEs of the modules (at least one job
slot, positive widths, and the like), which TLC evaluates for the instances,
`TestAssumption`, which MCLabs assumes, and `Loadable` of `PipeProofs`.

## Not modelled

Binaries and assembly listings (lab2, buflab-handout): no source. Timing
(lab7/clock.c, fcyc.c, ftimer.c, fsecs.c): measurement without control worth
checking. Graders, trace generators and test programs (scripts, tracegen.c,
shell test programs). Superseded drafts beside the files that are built
(tsh_me.c, proxy_*.c, mm_*.c and the like). Other processor descriptions of lab 6
(pipe-nobypass.hcl and so on): exercises to be filled in. The Tk interface of psim
and ssim, which is not compiled without HAS_GUI. Text: options, formatting of
output, wording of messages.
