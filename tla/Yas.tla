--------------------------------- MODULE Yas ---------------------------------
(***************************************************************************)
(* The assembler of the processor simulators, lab6/sim/misc/yas.c.  It      *)
(* reads the source twice: the first pass fills the symbol table, the       *)
(* second one writes a line of object code for each line of the source.     *)
(* The scanner yas-grammar.lex drops $ and comments and tells the names of  *)
(* instructions from other identifiers.                                    *)
(***************************************************************************)
EXTENDS AsmText

CONSTANT Sources   \* sequences of lines

VARIABLES text, pass, at, tokens, scanned, bytepos, symbol_table, hit_error, outfile
vars == <<text, pass, at, tokens, scanned, bytepos, symbol_table, hit_error, outfile>>

Args(names, arg1, arg2, bytes) == [name \in names |-> [arg1 |-> arg1, arg2 |-> arg2, bytes |-> bytes]]
instruction_set ==
  LET Two == {"rrmovl", "cmovle", "cmovl", "cmove", "cmovne", "cmovge", "cmovg",
              "addl", "subl", "andl", "xorl"}
  IN Args({"nop", "halt", "ret", "leave"}, "no", "no", 1) @@ Args(Two, "rA", "rB", 2)
     @@ Args({"irmovl", "iaddl"}, "imm", "rB", 6) @@ Args({"rmmovl"}, "rA", "mem", 6)
     @@ Args({"mrmovl"}, "mem", "rA", 6) @@ Args({"pushl", "popl"}, "rA", "no", 2)
     @@ Args({"jmp", "jle", "jl", "je", "jne", "jge", "jg", "call"}, "imm", "no", 5)
     @@ Args({".byte"}, "imm", "no", 1) @@ Args({".word"}, "imm", "no", 2) @@ Args({".long"}, "imm", "no", 4)

InstrNames == DOMAIN instruction_set \cup {".pos", ".align"}

\* The tokens of a line.
Scan(line) ==
  LET ends == {i \in DOMAIN line : line[i] = Mark("#")}
      read == SelectSeq(IF ends = {} THEN line
                        ELSE SubSeq(line, 1, (CHOOSE i \in ends : \A j \in ends : i <= j) - 1),
                        LAMBDA t : t # Mark("$"))
  IN [i \in DOMAIN read |->
       IF read[i].kind = "word" /\ read[i].text \in InstrNames
       THEN [read[i] EXCEPT !.kind = "instr"] ELSE read[i]]

\* Behind the last token is one of the type TOK_ERR.
Tok(i) == IF i \in DOMAIN tokens THEN tokens[i] ELSE End

\* The first symbol of that name, 0 when there is none.
find_symbol(name) == SelectInSeq(symbol_table, LAMBDA sym : sym.name = name)
-----------------------------------------------------------------------------
(* One argument of an instruction: st is the position tpos, the code so far *)
(* and whether fail was called.                                            *)

Failed(st) == [st EXCEPT !.failed = TRUE]
Named(st, name) ==
  LET found == find_symbol(name)
  IN [st EXCEPT !.tpos = @ + 1, !.failed = @ \/ found = 0,
                !.val = IF found = 0 THEN -1 ELSE symbol_table[found].pos]
Number(st) == [st EXCEPT !.tpos = @ + 1, !.val = Tok(st.tpos).value]
SetReg(st, r) == [st EXCEPT !.tpos = @ + 1, !.regs[r] = Tok(st.tpos).text]

get_reg(st, r) == IF Tok(st.tpos).kind = "reg" THEN SetReg(st, r) ELSE Failed(st)

get_num(st) ==
  CASE Tok(st.tpos).kind = "num" -> Number(st)
    [] Tok(st.tpos).kind = "word" -> Named(st, Tok(st.tpos).text)
    [] OTHER -> Failed(st)

\* Displacement and register are both optional.  A wrong delimiter behind the
\* register is passed over.
get_mem(st) ==
  LET disp == IF Tok(st.tpos).kind \in {"num", "word"} THEN get_num(st) ELSE st
      base == get_reg([disp EXCEPT !.tpos = @ + 1], "rB")
      behind == IF Tok(base.tpos).kind = "mark" /\ Tok(base.tpos) # End THEN base.tpos + 1 ELSE base.tpos
  IN CASE Tok(disp.tpos) # Mark("(") -> disp
       [] Tok(disp.tpos) = Mark("(") /\ Tok(disp.tpos + 1).kind # "reg" ->
            Failed([st EXCEPT !.tpos = disp.tpos + 1])
       [] OTHER -> IF Tok(base.tpos) = Mark(")") THEN [base EXCEPT !.tpos = behind]
                   ELSE Failed([st EXCEPT !.tpos = behind])

get_arg(arg, st) ==
  CASE arg = "no" -> st
    [] arg \in {"rA", "rB"} -> get_reg(st, arg)
    [] arg = "imm" -> get_num(st)
    [] arg = "mem" -> get_mem(st)

First(instr, tpos) ==
  get_arg(instr.arg1, [tpos |-> tpos, failed |-> FALSE, val |-> 0, regs |-> [rA |-> "none", rB |-> "none"]])
-----------------------------------------------------------------------------
(* finish_line, once for each line in each pass.                           *)

Labelled == Tok(1).kind = "word"
InstrAt == IF Labelled THEN 3 ELSE 1
GoodLabel == Labelled => Tok(2) = Mark(":")
\* The scanner reaches the end of the line.
ScanLine ==
  /\ pass \in {1, 2} /\ at <= Len(text) /\ ~scanned
  /\ tokens' = Scan(text[at])
  /\ scanned' = TRUE
  /\ UNCHANGED <<text, pass, at, bytepos, symbol_table, hit_error, outfile>>

start_line == tokens' = <<>> /\ scanned' = FALSE /\ at' = at + 1

Finish(pos, pieces) ==
  /\ start_line
  /\ bytepos' = pos
  /\ symbol_table' = IF pass = 1 /\ Labelled
                     THEN Append(symbol_table, [name |-> Tok(1).text, pos |-> bytepos])
                     ELSE symbol_table
  /\ outfile' = outfile \o pieces
  /\ UNCHANGED <<text, pass>>

\* A label alone counts as well.
EmptyLine ==
  /\ scanned
  /\ GoodLabel
  /\ Len(tokens) = InstrAt - 1
  /\ Finish(bytepos, <<>>)
  /\ UNCHANGED hit_error

BadLine ==
  /\ scanned
  /\ tokens # <<>>
  /\ \/ ~GoodLabel /\ symbol_table' = symbol_table
     \/ /\ GoodLabel
        /\ Len(tokens) >= InstrAt
        /\ \/ Tok(InstrAt).kind # "instr"
           \/ Tok(InstrAt).text = ".pos" /\ Tok(InstrAt + 1).kind # "num"
           \/ Tok(InstrAt).text = ".align" /\ (Tok(InstrAt + 1).kind # "num" \/ Tok(InstrAt + 1).value <= 0)
        /\ symbol_table' = IF pass = 1 /\ Labelled
                           THEN Append(symbol_table, [name |-> Tok(1).text, pos |-> bytepos])
                           ELSE symbol_table
  /\ start_line
  /\ hit_error' = TRUE
  /\ UNCHANGED <<text, pass, bytepos, outfile>>

Directive(name) == scanned /\ GoodLabel /\ Tok(InstrAt).kind = "instr" /\ Tok(InstrAt).text = name
                   /\ Tok(InstrAt + 1).kind = "num"

Pos == Directive(".pos") /\ Finish(Tok(InstrAt + 1).value, <<>>) /\ UNCHANGED hit_error

\* A mutant: an aligned address is moved on, too.
AlignPast ==
  LET a == Tok(InstrAt + 1).value
  IN Directive(".align") /\ a > 0 /\ Finish((bytepos \div a + 1) * a, <<>>) /\ UNCHANGED hit_error

Align ==
  LET a == Tok(InstrAt + 1).value
  IN Directive(".align") /\ a > 0 /\ Finish(((bytepos + a - 1) \div a) * a, <<>>) /\ UNCHANGED hit_error

AtInstr ==
  scanned /\ GoodLabel /\ Tok(InstrAt).kind = "instr" /\ Tok(InstrAt).text \in DOMAIN instruction_set
instr == instruction_set[Tok(InstrAt).text]

Size == AtInstr /\ pass = 1 /\ Finish(bytepos + instr.bytes, <<>>) /\ UNCHANGED hit_error

\* A line with a bad argument is written all the same unless its comma is
\* missing; the caller learns of it from the exit code.
Emit ==
  /\ AtInstr
  /\ pass = 2
  /\ LET first == First(instr, InstrAt + 1)
         comma == Tok(first.tpos) = Mark(",")
         coded == IF instr.arg2 = "no" THEN first
                  ELSE get_arg(instr.arg2, [first EXCEPT !.tpos = @ + 1])
         regByte == {instr.arg1, instr.arg2} \cap {"rA", "rB"} # {}
         piece == [addr |-> bytepos, op |-> Tok(InstrAt).text, bytes |-> instr.bytes, val |-> coded.val,
                   regs |-> IF regByte THEN <<coded.regs.rA, coded.regs.rB>> ELSE <<>>]
     IN IF instr.arg2 = "no" \/ comma
        THEN Finish(bytepos + instr.bytes, <<piece>>) /\ hit_error' = (hit_error \/ coded.failed)
        ELSE Finish(bytepos + instr.bytes, <<>>) /\ hit_error' = TRUE

\* Errors of the first pass are the end of it.
SecondPass ==
  /\ pass = 1
  /\ at = Len(text) + 1
  /\ ~hit_error
  /\ pass' = 2 /\ at' = 1 /\ bytepos' = 0
  /\ UNCHANGED <<text, tokens, scanned, symbol_table, hit_error, outfile>>

Exit ==
  /\ pass \in {1, 2}
  /\ at = Len(text) + 1
  /\ pass = 1 => hit_error
  /\ pass' = 3
  /\ UNCHANGED <<text, at, tokens, scanned, bytepos, symbol_table, hit_error, outfile>>

Init ==
  /\ text \in Sources
  /\ pass = 1 /\ at = 1 /\ tokens = <<>> /\ scanned = FALSE /\ bytepos = 0
  /\ symbol_table = <<>> /\ hit_error = FALSE /\ outfile = <<>>

Next == ScanLine \/ EmptyLine \/ BadLine \/ Pos \/ Align \/ Size \/ Emit \/ SecondPass \/ Exit

\* What load_mem makes of the object file.
Image == FoldLeft(Write, <<>>, outfile)
=============================================================================
