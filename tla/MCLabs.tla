------------------------------- MODULE MCLabs -------------------------------
(***************************************************************************)
(* Sequential programs that have nothing to do with each other, one run     *)
(* for all of them: the cache simulator on every short trace, the           *)
(* transposition functions with the cache they are measured on, the two     *)
(* assemblers, one after the other, on every source of a few lines, the HCL *)
(* compiler on every small file, the tests of the bit puzzles, ncopy on the  *)
(* pipeline, and the driver of the allocators.  The initial state says which *)
(* of them runs.                                                           *)
(***************************************************************************)
EXTENDS Csim, Btest, Mdriver

CONSTANTS
  Sources, Begins, Files, SYM_LIM, ERRLIM, bytelim

VARIABLES
  program,
  fn, n, B, cache,                                             \* Trans
  src, lineno, cur, vmaddr, symtab, reltab, list, phase, image, \* Y86Asm
  pass, at, tokens, scanned, bytepos, symbol_table, hit_error, outfile, \* Yas
  file, reading, sym_tab, errcnt, functions, exit,             \* Hcl
  block, opt_c, code, fetching, decoding, executing, accessing, writing,
  reg, mem, cc, starting_up, cycles, instructions              \* Ncopy

transVars == <<fn, n, B, cache>>
asmVars == <<src, lineno, cur, vmaddr, symtab, reltab, list, phase, image>>
yasVars == <<pass, at, tokens, scanned, bytepos, symbol_table, hit_error, outfile>>
hclVars == <<file, reading, sym_tab, errcnt, functions, exit>>
ncopyVars == <<block, opt_c, code, fetching, decoding, executing, accessing, writing,
               reg, mem, cc, starting_up, cycles, instructions>>

\* ncopy needs the conjunction and the difference of a word with itself only.
OfItself == [p \in (-1024 .. 1023) \X (-1024 .. 1023) |-> IF p[1] = p[2] THEN p[1] ELSE 77]
WithItself == [p \in (-1024 .. 1023) \X (-1024 .. 1023) |-> IF p[1] = p[2] THEN 0 ELSE 77]

\* Every length about a multiple of the sixteen of the loop, words that differ.
Signs == {<<1>>, <<-1>>, <<1, -1>>, <<-1, 0, 1, 1, -1>>}
SomeBlocks ==
  {[i \in 1 .. len |-> i * sign[(i % Len(sign)) + 1]] :
     len \in {0, 1, 2, 5, 15, 16, 17, 31, 32, 33}, sign \in Signs}

T == INSTANCE Trans
A == INSTANCE Y86Asm
Z == INSTANCE Yas WITH text <- src
H == INSTANCE Hcl WITH at <- reading
X == INSTANCE AsmText
Tree == INSTANCE HclTree
N == INSTANCE Ncopy WITH
  Half <- 1024, WordSize <- 4, Reg <- {"eax", "ecx", "edx", "ebx", "esp", "ebp", "esi", "edi"},
  Addr <- {4 * k : k \in 0 .. 120}, And <- OfItself, Xor <- WithItself,
  Programs <- {}, Starts <- {}, Memories <- {}, Blocks <- SomeBlocks, src <- block,
  F <- fetching, D <- decoding, E <- executing, M <- accessing, W <- writing

Call(allocator, run_libc, traces) == [allocator |-> allocator, run_libc |-> run_libc, traces |-> traces]

NoTrans == fn = "none" /\ n = 0 /\ B = <<>> /\ cache = sim
NoSource ==
  /\ src = <<>> /\ lineno = 0 /\ cur = 1 /\ vmaddr = 0 /\ symtab = <<>> /\ reltab = <<>>
  /\ list = <<>> /\ phase = "none" /\ image = <<>>
  /\ pass = 0 /\ at = 1 /\ tokens = <<>> /\ scanned = FALSE
  /\ bytepos = 0 /\ symbol_table = <<>> /\ hit_error = FALSE /\ outfile = <<>>
NoFile ==
  file = <<>> /\ reading = 1 /\ sym_tab = <<>> /\ errcnt = 0 /\ functions = <<>> /\ exit = "none"
NoTest == test = 0 /\ points = 0 /\ max_points = 0 /\ all_errors = 0
NoBlock ==
  /\ block = <<>> /\ opt_c = FALSE /\ code = <<>> /\ reg = <<>> /\ mem = <<>> /\ cc = <<>>
  /\ fetching = <<>> /\ decoding = <<>> /\ executing = <<>> /\ accessing = <<>> /\ writing = <<>>
  /\ starting_up = TRUE /\ cycles = 0 /\ instructions = 0
NoTraces ==
  /\ args = Call("none", FALSE, <<>>) /\ stage = "none" /\ tracenum = 0 /\ opnum = 0 /\ heap = <<>> /\ blocks = <<>>
  /\ ranges = <<>> /\ answer = 0 /\ total = 0 /\ max_total = 0 /\ errors = 0 /\ valid = <<>>

MCInit ==
  /\ Init
  /\ \/ program = "csim" /\ NoTrans /\ NoSource /\ NoFile /\ NoTest /\ NoBlock
     \/ program = "trans" /\ T!Init /\ NoSource /\ NoFile /\ NoTest /\ NoBlock
     \/ program = "assemblers" /\ NoTrans /\ A!Init /\ Z!Init /\ NoFile /\ NoTest /\ NoBlock
     \/ program = "hcl" /\ NoTrans /\ NoSource /\ H!Init /\ NoTest /\ NoBlock
     \/ program = "bits" /\ NoTrans /\ NoSource /\ NoFile /\ BtestInit /\ NoBlock
     \/ program = "ncopy" /\ NoTrans /\ NoSource /\ NoFile /\ NoTest /\ N!NcopyInit
     \/ program = "mdriver" /\ NoTrans /\ NoSource /\ NoFile /\ NoTest /\ NoBlock
  /\ IF program = "mdriver" THEN MdriverInit ELSE NoTraces

MCNext ==
  /\ \/ program = "csim" /\ Next /\ UNCHANGED <<transVars, asmVars, yasVars, hclVars, btestVars, ncopyVars>>
     \/ program = "trans" /\ T!Next /\ UNCHANGED <<vars, asmVars, yasVars, hclVars, btestVars, ncopyVars>>
     \/ /\ program = "assemblers"
        /\ Z!Next
        /\ UNCHANGED <<vars, transVars, hclVars, btestVars, ncopyVars>>
        /\ UNCHANGED <<lineno, cur, vmaddr, symtab, reltab, list, phase, image>>
     \/ /\ program = "assemblers" /\ pass = 3
        /\ A!Next
        /\ UNCHANGED <<vars, transVars, yasVars, hclVars, btestVars, ncopyVars>>
     \/ program = "hcl" /\ H!Next /\ UNCHANGED <<vars, transVars, asmVars, yasVars, btestVars, ncopyVars>>
     \/ program = "bits" /\ BtestNext /\ UNCHANGED <<vars, transVars, asmVars, yasVars, hclVars, ncopyVars>>
     \/ /\ program = "ncopy"
        /\ N!sim_step_pipe
        /\ UNCHANGED <<vars, transVars, asmVars, yasVars, hclVars, btestVars>>
     \/ /\ program = "mdriver"
        /\ MdriverNext
        /\ UNCHANGED <<vars, transVars, asmVars, yasVars, hclVars, btestVars, ncopyVars>>
  /\ program # "mdriver" => UNCHANGED mdriverVars
  /\ UNCHANGED program

\* The words of the run are those that the theorem about the puzzles assumes.
ASSUME WordsAssumption == TestAssumption

MCSpec == MCInit /\ [][MCNext]_<<vars, program, transVars, asmVars, yasVars, hclVars, btestVars, ncopyVars, mdriverVars>>
-----------------------------------------------------------------------------
\* After the last block B is the transposed of A, whichever places of B held
\* other values on the way, and the misses are below the limits of driver.py
\* (trans.c transpose_submit).
Transposed == T!Transposed

\* When no name begins with another label, y86asm accepts exactly the correct
\* sources, those with a symbol defined twice or never and lines that the
\* grammar does not have left out, and the file it writes then holds at every
\* byte what the grammar and the lines say: forward and backward references,
\* .pos back over earlier code and .align included (y86asm.c parse_line,
\* relocate and binfile).  Text behind a complete instruction counts as a comment.
ImageFaithful ==
  phase \in {"done", "refused", "crashed"} /\ A!NamesApart(src) =>
    /\ phase = "done" <=> A!Correct(src)
    /\ phase = "done" => image = A!Meaning(src)

\* Both assemblers of the repository, one with a relocation table and one with
\* two passes, make the same memory of a source that both accept (y86asm.c
\* and yas.c).
AssemblersAgree ==
  phase = "done" /\ ~hit_error /\ A!NamesApart(src) => image = Z!Image

\* The HCL compiler accepts exactly the well-typed files, and the C functions
\* it writes then compute what the definitions mean, in the order of the
\* clauses of a case and with 0 when none holds (node.c check_arg and gen_expr):
\* for files whose sets have integers as members.
HclFaithful ==
  exit \in {"ok", "failed"} /\ H!PlainSets(file) =>
    /\ exit = "ok" <=> H!WellTyped(file)
    /\ exit = "ok" => \A p \in 0..1, x, y \in 0..2 : H!Faithful([P |-> p, X |-> x, Y |-> y])

\* ncopy copies the block, counts its positive words and restores what its
\* caller relies on, whatever the length and the signs; nothing around the
\* destination changes, and the checking routine agrees.  It ends within 12.5
\* cycles for a word and 75 for the call (ncopy.ys on pipe-full.hcl): a wrong
\* entry of the table, or a length at its ends, shows for a few blocks only.
NcopyRight == program = "ncopy" => N!NcopyRight
-----------------------------------------------------------------------------
\* The texts: ab begins with a, and the names of instructions with others.
TextPairs ==
  {<<"a", "ab">>, <<"a", "addl">>, <<"a", "andl">>, <<"halt", "haltx">>, <<"cmovl", "cmovle">>,
   <<"cmovg", "cmovge">>, <<"jl", "jle">>, <<"jg", "jge">>}
  \cup {<<"", t>> : t \in {"a", "ab", "b", "4"}}

Text(l) == [i \in DOMAIN l |->
  CASE l[i] \in {"%eax", "%esp"} -> X!Reg(l[i])
    [] l[i] = "4" -> X!Num("4", 4)
    [] l[i] = "8" -> X!Num("8", 8)
    [] l[i] = "0" -> X!Num("0", 0)
    [] l[i] \in {"$", ",", "(", ")", ":", "#"} -> X!Mark(l[i])
    [] OTHER -> X!Word(l[i])]

\* Lines that interact with the others of a source.
Together == {Text(l) : l \in {
  <<"jmp", "a">>, <<"jle", "ab">>, <<"a", ":", "call", "b">>, <<"b", ":", "a", ":">>,
  <<".pos", "4">>, <<".pos", "0">>, <<"ab", ":", "#", "halt">>, <<"b", ":", ".align", "4">>,
  <<"a", ":", ".byte", "8">>, <<".word", "b">>, <<"b", ":", "halt">>,
  <<"irmovl", "ab", ",", "%eax">>, <<"a", ":", "foo">>}}

\* Lines that stand for themselves.
Alone == {Text(l) : l \in {
  <<>>, <<"a", ":", "a", ":">>, <<":", "nop">>, <<"4", ":", "irmovl", "4", ",", "%esp">>,
  <<"halt", "halt">>, <<"haltx">>, <<"8">>, <<"ret", "#">>, <<"cmovle", "%eax", ",", "%esp">>,
  <<"addl", "%eax", "%esp">>, <<"addl", "%eax", ",", "4">>, <<"pushl", "%esp">>, <<"popl">>,
  <<"irmovl", "$", "8", ",", "%esp">>, <<"irmovl", "$", "a", ",", "%esp">>, <<"irmovl", ",", "%esp">>,
  <<"irmovl", "$", "4", "%esp">>, <<"rmmovl", "%eax", ",", "8", "(", "%esp", ")">>,
  <<"rmmovl", "%eax", ",", "(", "%esp", ")", "8">>, <<"rmmovl", "%eax", ",", "8">>,
  <<"rmmovl", "%eax", "(", "%esp", ")">>, <<"mrmovl", "8", "(", "%esp", ")", ",", "%eax">>,
  <<"mrmovl", "(", "%esp", ",", "%eax">>, <<"mrmovl", "(", "%esp", ")", "%eax">>,
  <<"jmp", "$", "4">>, <<"jg", "4">>, <<"call", "%eax">>, <<"jmp">>, <<".long", "8">>,
  <<".long", "%eax">>, <<".long", "$", "8">>, <<".pos", "a">>, <<".pos", "%eax">>, <<".pos">>,
  <<".align", "0">>, <<".align", "a">>, <<".byte">>}}

ShortSources == {<<l>> : l \in Alone} \cup {<<k, l>> : k \in Alone, l \in {Text(<<"a", ":">>)}}
                \cup [1..3 -> Together]

Signal(v, q, bool) == [kind |-> "arg", var |-> v, qstring |-> q, isbool |-> bool]
Define(e, bool) == [kind |-> "function", expr |-> e, isbool |-> bool]

p == Tree!Var("p")
x == Tree!Var("x")
y == Tree!Var("y")
one == Tree!Num(1)
Choice == Tree!Case(<<Tree!Clause(p, x), Tree!Clause(one, y)>>)

\* z is never declared.
Atoms == {p, x, y, Tree!Var("z"), Tree!Num(0), one, Tree!Num(2)}
Parts == Atoms \cup {Tree!Not(p), Tree!Comp("==", x, y), Tree!Ele(x, <<one, y>>), Choice, Tree!Case(<<>>)}
MemberLists == {<<one>>, <<y, Tree!Num(0)>>, <<p>>, <<Tree!Var("z")>>, <<Choice>>, <<Choice, y>>, <<x, Tree!Not(p)>>}
TwoClauses ==
  {<<Tree!Clause(c, x), Tree!Clause(d, e)>> : c, d \in {p, one, Tree!Num(0), Tree!Not(p)}, e \in {y, Tree!Num(2), p, Choice}}

Exprs ==
  Parts \cup {Tree!Not(e) : e \in Parts}
  \cup {Tree!And(d, e) : d, e \in Parts} \cup {Tree!Or(d, e) : d, e \in Parts}
  \cup {Tree!Comp(op, d, e) : op \in {"!=", "<"}, d, e \in Parts}
  \cup {Tree!Comp(op, x, e) : op \in {"==", "<=", ">", ">="}, e \in Atoms}
  \cup {Tree!Ele(e, set) : e \in Parts, set \in MemberLists}
  \cup {Tree!Case(<<Tree!Clause(c, e)>>) : c, e \in Parts}
  \cup {Tree!Case(clauses) : clauses \in TwoClauses}

Signals == <<Signal("p", "P", TRUE), Signal("x", "X", FALSE), Signal("y", "Y", FALSE)>>

\* Every expression alone; names declared twice, late, or beyond the table;
\* many errors.
SmallFiles ==
  {Append(Signals, Define(e, bool)) : e \in Exprs, bool \in BOOLEAN}
  \cup {decls \o <<Define(e, bool), Signals[3], Define(y, FALSE)>> :
          decls \in {<<>>, SubSeq(Signals, 1, 2), <<Signals[1], Signal("p", "X", FALSE)>>,
                     <<Signal("p", "X", FALSE), Signals[1]>>, <<Signals[2]>> \o SubSeq(Signals, 1, 2)},
          e \in Atoms \cup {Tree!Or(p, p), Choice}, bool \in BOOLEAN}

AnyRequest(type, index, size) == [type |-> type, index |-> index, size |-> size]
Alloc(index, size) == AnyRequest("a", index, size)
Realloc(index, size) == AnyRequest("r", index, size)
Free(index) == AnyRequest("f", index, 0)

Indices == 0 .. 2
TraceOf(ops) ==
  LET indices == {0} \cup {ops[k].index : k \in DOMAIN ops} IN
  [num_ids |-> 1 + CHOOSE k \in indices : \A j \in indices : j <= k, num_ops |-> Len(ops), ops |-> ops]

Held(ops) ==
  {index \in Indices : \E k \in DOMAIN ops :
     /\ ops[k] \in {Alloc(index, 1), Alloc(index, 4)}
     /\ \A j \in k + 1 .. Len(ops) : ops[j] # Free(index)}

\* One request more: the least index that is not held, or one that is.
Longer(seqs) ==
  UNION {{Append(ops, Alloc(k, z)) : k \in {j \in {0, 1} \ Held(ops) : j = 0 \/ 0 \in Held(ops)}, z \in {1, 4}}
         \cup {Append(ops, Realloc(k, z)) : k \in Held(ops), z \in {1, 4}}
         \cup {Append(ops, Free(k)) : k \in Held(ops)} : ops \in seqs}
FiveRequests == Longer(Longer(Longer(Longer(Longer({<<>>})))))

\* Three blocks, freed in every order, a large one, and a smaller or larger one.
Joined ==
  {<<Alloc(0, 1), Alloc(1, 4), Alloc(2, 2)>> \o [k \in 1 .. 3 |-> Free(order[k])]
      \o <<Alloc(0, 6), Realloc(0, z)>> :
     order \in {g \in [1 .. 3 -> Indices] : g[1] # g[2] /\ g[2] # g[3] /\ g[1] # g[3]}, z \in {1, 12}}

\* Files that are read or not, that an allocator cannot serve, or whose bytes are negative.
Odd ==
  LET small == TraceOf(<<Alloc(0, 2), Realloc(0, 1), Free(0)>>) IN
  {small, [small EXCEPT !.num_ids = 2], [small EXCEPT !.num_ops = 2], [small EXCEPT !.num_ids = 0],
   TraceOf(<<AnyRequest("x", 0, 0)>>), TraceOf(<<Alloc(0, 0)>>), TraceOf(<<Alloc(0, 30), Alloc(1, 1)>>),
   TraceOf(<<Alloc(0, 1), Alloc(1, 1), Alloc(2, 1), Realloc(2, 3)>>)}

\* mmbook.c on every trace of five requests; pairs of files; anything on a few traces.
SomeRuns ==
  {Call("book", FALSE, <<TraceOf(ops)>>) : ops \in FiveRequests \cup Joined}
  \cup {Call("book", run_libc, <<f, g>>) : run_libc \in BOOLEAN, f, g \in Odd}
  \cup {Call("any", FALSE, <<TraceOf(ops)>>) :
          ops \in {<<Alloc(0, 2), Alloc(1, 4), Realloc(0, 1)>>,
                   <<Alloc(0, 1), Alloc(1, 3), Free(0), Alloc(2, 1)>>,
                   <<Alloc(0, 3), Realloc(0, 2), Alloc(1, 1)>>, <<Alloc(0, 0)>>}}

\* Words without a pattern, five for each argument.
SomeWords ==
  [arg \in 1 .. 3 |-> [k \in 1 .. 5 |->
    {bit \in 0 .. 31 : ((bit * bit + 1) * (7 * k + arg + 3) + 5 * bit * k + 3 * arg) % 11 < 5}]]
=============================================================================
