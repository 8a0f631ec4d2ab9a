-------------------------------- MODULE Ncopy --------------------------------
(***************************************************************************)
(* The program of the architecture laboratory on its processor: ncopy.ys   *)
(* copies a block of words and counts the positive ones, sixteen words at  *)
(* a time and the rest by a jump through a table of addresses that a ret   *)
(* takes from the stack.  A driver calls it as gen-driver.pl writes it,    *)
(* with or without the routine that checks the result.                     *)
(***************************************************************************)
EXTENDS Pipe, SequencesExt, FiniteSetsExt

CONSTANTS
  Blocks,     \* the source blocks: sequences of words
  bytelim     \* the limit on the size of the function

VARIABLES
  src, opt_c,  \* the block of this driver, and whether it checks the result
  starting_up, cycles, instructions

driverVars == <<vars, src, opt_c, starting_up, cycles, instructions>>

(* Lines of a program: an operand that is a label is filled in when the      *)
(* places of the labels are known.                                           *)

NoLabel == <<"", 0>>
Line(op, fun, a, b, c) ==
  [icode |-> op, ifun |-> fun, rA |-> a, rB |-> b, valC |-> c, label |-> NoLabel, to |-> NoLabel]
At(label, line) == [line EXCEPT !.label = label]

halt == Line("IHALT", "YES", "none", "none", 0)
ret == Line("IRET", "YES", "none", "none", 0)
pushl(r) == Line("IPUSHL", "YES", r, "none", 0)
popl(r) == Line("IPOPL", "YES", r, "none", 0)
rrmovl(a, b) == Line("IRRMOVL", "YES", a, b, 0)
irmovl(c, r) == Line("IIRMOVL", "YES", "none", r, c)
mrmovl(c, b, r) == Line("IMRMOVL", "YES", r, b, c)
rmmovl(r, c, b) == Line("IRMMOVL", "YES", r, b, c)
opl(fun, a, b) == Line("IOPL", fun, a, b, 0)
iaddl(c, r) == Line("IIADDL", "YES", "none", r, c)
jmp(cond, label) == [Line("IJXX", cond, "none", "none", 0) EXCEPT !.to = label]
call(label) == [Line("ICALL", "YES", "none", "none", 0) EXCEPT !.to = label]

Label(name) == <<name, 0>>
Npos(k) == IF k = 16 THEN Label("Judge") ELSE <<"Npos", k>>
Rest(k) == IF k = 0 THEN Label("Done") ELSE <<"Rest", k>>

SetFrame == <<rrmovl("esp", "ebp"), pushl("esi"), pushl("ebx"), pushl("edi")>>

Prologue ==
  <<At(Label("ncopy"), pushl("ebp"))>> \o SetFrame \o
  <<mrmovl(8, "ebp", "ebx"), mrmovl(16, "ebp", "edx"), mrmovl(12, "ebp", "ecx")>>

Header ==
  <<opl("XOR", "eax", "eax"), opl("AND", "edx", "edx"), jmp("LE", Label("Done")),
    iaddl(-16, "edx"), jmp("L", Label("Rest")), opl("XOR", "edi", "edi")>>

FirstOfLoop ==
  <<At(Label("Loop"), mrmovl(0, "ebx", "esi")), rrmovl("esi", "edi"), iaddl(1, "edi"),
    rmmovl("esi", 0, "ecx"), opl("AND", "esi", "esi"), rrmovl("edi", "esi"),
    jmp("LE", Npos(1)), iaddl(1, "eax")>>

Load(label, offset) == <<At(label, mrmovl(offset, "ebx", "esi"))>>
Store(offset) == <<rmmovl("esi", offset, "ecx")>>
Test == <<opl("AND", "esi", "esi")>>
Count(otherwise) == <<jmp("LE", otherwise), iaddl(1, "eax")>>

Loop == FlattenSeq([k \in 1 .. 15 |->
  Load(Npos(k), 4 * k) \o Store(4 * k) \o Test \o Count(Npos(k + 1))])

Judge ==
  <<At(Label("Judge"), iaddl(64, "ebx")), iaddl(64, "ecx"), iaddl(-16, "edx"), jmp("GE", Label("Loop"))>>

\* A mutant: the number of the remaining words is not scaled to a table entry.
JumpUnscaled ==
  <<At(Label("Rest"), iaddl(16, "edx")), opl("ADD", "edx", "edx"),
    [mrmovl(0, "edx", "edx") EXCEPT !.to = Label("Table")], pushl("edx"), ret>>

Jump ==
  <<At(Label("Rest"), iaddl(16, "edx")), opl("ADD", "edx", "edx"), opl("ADD", "edx", "edx"),
    [mrmovl(0, "edx", "edx") EXCEPT !.to = Label("Table")], pushl("edx"), ret>>

\* Rest15 to Rest1, each falls into the next one.
Rests == FlattenSeq([i \in 1 .. 15 |->
  LET k == 16 - i
  IN Load(Rest(k), 4 * (k - 1)) \o (IF k = 5 THEN Test ELSE <<>>) \o Store(4 * (k - 1))
     \o Test \o Count(Rest(k - 1))])

Return == <<popl("edi"), popl("ebx"), popl("esi"), rrmovl("ebp", "esp"), popl("ebp"), ret>>
Epilogue == [Return EXCEPT ![1] = At(Label("Done"), popl("edi"))]

ncopy == Prologue \o Header \o FirstOfLoop \o Loop \o Judge \o Jump \o Rests \o Epilogue

\* The bytes of an instruction, and of the table behind the ret.
Bytes(line) ==
  CASE line.icode \in {"IHALT", "IRET"} -> 1
    [] line.icode \in {"IRRMOVL", "IOPL", "IPUSHL", "IPOPL"} -> 2
    [] line.icode \in {"IJXX", "ICALL"} -> 5
    [] OTHER -> 6
TableBytes == 16 * 4
-----------------------------------------------------------------------------
(* The driver.  Constants too large for the words of a small instance are    *)
(* replaced by smaller ones, different from each other and from the data.    *)

Preval == 900
Postval == 901
Filler == 902
Ok == 1000
BadCount == 1001
TooLong == 1002
BadCopy == 1003
Corrupted == 1004

Align(n, a) == ((n + a - 1) \div a) * a
srcAt == 0
Predest(n) == Align(4 * (n + 1), 16)
dest(n) == Predest(n) + 4
Postdest(n) == dest(n) + 4 * n
Stack(n) == Postdest(n) + 4 + 4 * 16
\* The table stands behind the ret of ncopy; here code is no data, and it
\* stands behind the stack.
Table(n) == Stack(n)

main(n, checked) ==
  <<irmovl(Stack(n), "esp"), irmovl(Stack(n), "ebp"), irmovl(n, "eax"), pushl("eax"),
    irmovl(dest(n), "eax"), pushl("eax"), irmovl(srcAt, "eax"), pushl("eax"), call(Label("ncopy"))>>
  \o IF checked THEN <<call(Label("check")), halt>> ELSE <<halt>>

check(n, rval, size) ==
  <<At(Label("check"), pushl("ebp"))>> \o SetFrame
  \o <<irmovl(rval, "edx"), opl("SUB", "edx", "eax"), jmp("E", Label("checkb")),
       irmovl(BadCount, "eax"), jmp("YES", Label("cdone")),
       At(Label("checkb"), irmovl(size, "eax")), irmovl(0, "edx"), opl("SUB", "edx", "eax"),
       irmovl(bytelim, "edx"), opl("SUB", "eax", "edx"), jmp("GE", Label("checkm")),
       irmovl(TooLong, "eax"), jmp("YES", Label("cdone")),
       At(Label("checkm"), irmovl(dest(n), "edx")), irmovl(srcAt, "ebx"), irmovl(n, "edi"),
       opl("AND", "edi", "edi"), jmp("E", Label("checkpre")),
       At(Label("mcloop"), mrmovl(0, "edx", "eax")), mrmovl(0, "ebx", "esi"),
       opl("SUB", "esi", "eax"), jmp("E", Label("mok")),
       irmovl(BadCopy, "eax"), jmp("YES", Label("cdone")),
       At(Label("mok"), irmovl(4, "eax")), opl("ADD", "eax", "edx"), opl("ADD", "eax", "ebx"),
       irmovl(1, "eax"), opl("SUB", "eax", "edi"), jmp("G", Label("mcloop")),
       At(Label("checkpre"), irmovl(Predest(n), "edx")), mrmovl(0, "edx", "eax"),
       irmovl(Preval, "edx"), opl("SUB", "edx", "eax"), jmp("E", Label("checkpost")),
       irmovl(Corrupted, "eax"), jmp("YES", Label("cdone")),
       At(Label("checkpost"), irmovl(Postdest(n), "edx")), mrmovl(0, "edx", "eax"),
       irmovl(Postval, "edx"), opl("SUB", "edx", "eax"), jmp("E", Label("checkok")),
       irmovl(Corrupted, "eax"), jmp("YES", Label("cdone")),
       At(Label("checkok"), irmovl(Ok, "eax"))>>
  \o [Return EXCEPT ![1] = At(Label("cdone"), popl("edi"))]

Positives(block) == Cardinality({i \in DOMAIN block : block[i] > 0})
Size(function) ==
  TableBytes
  + MapThenSumSet(LAMBDA b : b * Cardinality({i \in DOMAIN function : Bytes(function[i]) = b}), 1 .. 6)

Lines(function, block, checked) ==
  main(Len(block), checked) \o function
  \o IF checked THEN check(Len(block), Positives(block), Size(function)) ELSE <<>>

\* Where the assembler puts a label.
Place(lines, label) ==
  (CHOOSE i \in DOMAIN lines : lines[i].label = label) - 1

Assembled(lines, n) == [at \in 0 .. Len(lines) - 1 |->
  LET line == lines[at + 1]
  IN [icode |-> line.icode, ifun |-> line.ifun, rA |-> line.rA, rB |-> line.rB,
      valC |-> CASE line.to = NoLabel -> line.valC
                 [] line.to = Label("Table") -> Table(n)
                 [] OTHER -> Place(lines, line.to)]]

Entry(a, base) == (a - base) \div 4 + 1

Loaded(block, lines) ==
  LET n == Len(block)
  IN [a \in Addr |->
       CASE a < 4 * n -> block[Entry(a, srcAt)]
         [] a \in {4 * n, Predest(n)} -> Preval
         [] a \in dest(n) .. Postdest(n) - 1 -> Filler
         [] a = Postdest(n) -> Postval
         [] a \in Table(n) .. Table(n) + TableBytes - 1 -> Place(lines, Rest(Entry(a, Table(n)) - 1))
         [] OTHER -> 0]

\* sim_reset: the registers are zero.
NcopyInit ==
  /\ \E function \in {ncopy} :
       /\ src \in Blocks
       /\ opt_c \in BOOLEAN
       /\ \E lines \in {Lines(function, src, opt_c)} :
            code = Assembled(lines, Len(src)) /\ mem = Loaded(src, lines)
  /\ reg = [r \in Reg |-> 0]
  /\ Empty
  /\ starting_up = TRUE /\ cycles = 0 /\ instructions = 0

\* sim_step_pipe with its counters.
sim_step_pipe ==
  /\ Cycle
  /\ IF W'.stat # "BUB"
     THEN starting_up' = FALSE /\ instructions' = instructions + 1 /\ cycles' = cycles + 1
     ELSE /\ cycles' = IF starting_up THEN cycles ELSE cycles + 1
          /\ UNCHANGED <<starting_up, instructions>>
  /\ UNCHANGED <<src, opt_c>>
-----------------------------------------------------------------------------
\* The function copies the block, counts its positive words and restores what
\* its caller may rely on, whatever the length and the values; nothing around
\* the destination changes, and the checking routine agrees (ncopy.ys, tested
\* as correctness.pl does).  It ends within the time benchmark.pl gives credit
\* for, and what it takes to call it.
NcopyRight ==
  /\ Stat \in {"AOK", "HLT"}
  /\ ~opt_c => 2 * cycles <= 25 * Len(src) + 150
  /\ Stat = "HLT" =>
       LET n == Len(src)
       IN /\ reg["eax"] = IF opt_c THEN Ok ELSE Positives(src)
          /\ reg["esp"] = Stack(n) - 12 /\ reg["ebp"] = Stack(n)
          /\ \A r \in {"esi", "ebx", "edi"} : reg[r] = 0
          /\ \A i \in 1 .. n : mem[dest(n) + 4 * (i - 1)] = src[i]
          /\ \A a \in 0 .. Predest(n) \cup {Postdest(n)} :
               a \in Addr => mem[a] = Loaded(src, <<>>)[a]
=============================================================================
