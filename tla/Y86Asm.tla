------------------------------- MODULE Y86Asm -------------------------------
(***************************************************************************)
(* The assembler of the fifth laboratory, y86asm.c.  Lines are parsed one   *)
(* by one into pieces of code, with the address that vmaddr has then; a     *)
(* reference to a symbol is put into the relocation table and patched when  *)
(* all lines are read; binfile writes the pieces at their addresses.        *)
(*                                                                         *)
(* Of two texts matters only whether one begins with the other.            *)
(***************************************************************************)
EXTENDS AsmText

CONSTANTS
  Sources,    \* sequences of lines
  Begins      \* the pairs <<s, t>> of different texts where t begins with s

VARIABLES src, lineno, cur, vmaddr, symtab, reltab, list, phase, image
vars == <<src, lineno, cur, vmaddr, symtab, reltab, list, phase, image>>

\* Names that begin with another one come first.
instr_set ==
  LET Row(type, bytes, names) == [i \in DOMAIN names |-> [name |-> names[i], type |-> type, bytes |-> bytes]]
  IN Row("I_NOP", 1, <<"nop">>) \o Row("I_HALT", 1, <<"halt">>)
     \o Row("I_RRMOVL", 2, <<"rrmovl", "cmovle", "cmovl", "cmove", "cmovne", "cmovge", "cmovg">>)
     \o Row("I_IRMOVL", 6, <<"irmovl">>) \o Row("I_RMMOVL", 6, <<"rmmovl">>)
     \o Row("I_MRMOVL", 6, <<"mrmovl">>) \o Row("I_ALU", 2, <<"addl", "subl", "andl", "xorl">>)
     \o Row("I_JMP", 5, <<"jmp", "jle", "jl", "je", "jne", "jge", "jg">>)
     \o Row("I_CALL", 5, <<"call">>) \o Row("I_RET", 1, <<"ret">>)
     \o Row("I_PUSHL", 2, <<"pushl">>) \o Row("I_POPL", 2, <<"popl">>)
     \o Row("D_DATA", 1, <<".byte">>) \o Row("D_DATA", 2, <<".word">>) \o Row("D_DATA", 4, <<".long">>)
     \o Row("D_POS", 0, <<".pos">>) \o Row("D_ALIGN", 0, <<".align">>)

\* strncmp with the length of s.
Matches(s, t) == s = t \/ <<s, t>> \in Begins

find_instr(text) == SelectInSeq(instr_set, LAMBDA row : Matches(row.name, text))

\* Both tables are lists that grow at the head.
find_symbol(table, name) == SelectInSeq(table, LAMBDA sym : Matches(sym.name, name))

Dup(table, name) == find_symbol(table, name) # 0
-----------------------------------------------------------------------------
(* Parsing.  Position 0 is PARSE_ERR: there is nothing to read at it.      *)

line == src[lineno + 1]
At(i) == IF i \in DOMAIN line THEN line[i] ELSE End

PARSE_ERR == [next |-> 0, as |-> "error", name |-> "none", value |-> 0]
DIGIT(i, v) == [next |-> i, as |-> "digit", name |-> "none", value |-> v]
SYMBOL(i, s) == [next |-> i, as |-> "symbol", name |-> s, value |-> 0]

parse_delim(i, delim) == IF At(i) = Mark(delim) THEN i + 1 ELSE 0
parse_reg(i) == IF At(i).kind = "reg" THEN i + 1 ELSE 0
parse_digit(i) == IF At(i).kind = "num" THEN DIGIT(i + 1, At(i).value) ELSE PARSE_ERR

\* Without $ digits are a symbol too; at anything else the name is a pointer
\* that was never set.
parse_imm(i) ==
  CASE At(i) = End -> PARSE_ERR
    [] At(i) = Mark("$") -> parse_digit(i + 1)
    [] At(i).kind \in {"word", "num"} -> SYMBOL(i + 1, At(i).text)
    [] OTHER -> SYMBOL(i, "unset")

parse_data(i) ==
  CASE At(i) = End -> PARSE_ERR
    [] At(i).kind = "num" -> parse_digit(i)
    [] At(i).kind = "word" -> SYMBOL(i + 1, At(i).text)
    [] OTHER -> SYMBOL(i, "unset")

parse_mem(i) ==
  LET val == IF At(i).kind = "num" THEN parse_digit(i) ELSE DIGIT(i, 0)
      reg == parse_delim(val.next, "(")
  IN [next |-> parse_delim(parse_reg(reg), ")"), reg |-> At(reg).text, value |-> val.value]

\* A label is what stands before a colon, be it nothing.
parse_label ==
  CASE At(cur).kind \in {"word", "num"} /\ At(cur + 1) = Mark(":") -> SYMBOL(cur + 2, At(cur).text)
    [] At(cur) = Mark(":") -> SYMBOL(cur + 1, "")
    [] OTHER -> PARSE_ERR

\* The operands at position i: regs are rA and rB.
Operands(type, i) ==
  LET Fields(next, regs, operand) ==
        [next |-> next, regs |-> regs, as |-> operand.as, name |-> operand.name, value |-> operand.value]
      none == DIGIT(i, 0)
      comma == parse_delim(parse_reg(i), ",")
      imm == parse_imm(i)
      mem == parse_mem(i)
  IN CASE type \in {"I_NOP", "I_HALT", "I_RET"} -> Fields(i, <<>>, none)
       [] type \in {"I_PUSHL", "I_POPL"} -> Fields(parse_reg(i), <<At(i).text, "none">>, none)
       [] type \in {"I_RRMOVL", "I_ALU"} ->
            Fields(parse_reg(comma), <<At(i).text, At(comma).text>>, none)
       [] type = "I_IRMOVL" ->
            LET reg == parse_delim(imm.next, ",")
            IN Fields(parse_reg(reg), <<"none", At(reg).text>>, imm)
       [] type = "I_RMMOVL" ->
            LET to == parse_mem(comma)
            IN Fields(to.next, <<At(i).text, to.reg>>, DIGIT(i, to.value))
       [] type = "I_MRMOVL" ->
            LET reg == parse_delim(mem.next, ",")
            IN Fields(parse_reg(reg), <<At(reg).text, mem.reg>>, DIGIT(i, mem.value))
       [] type \in {"I_JMP", "I_CALL"} -> Fields(imm.next, <<>>, imm)
       [] type \in {"D_DATA", "D_POS"} -> Fields(parse_data(i).next, <<>>, parse_data(i))
       [] type = "D_ALIGN" -> Fields(parse_digit(i).next, <<>>, parse_digit(i))
-----------------------------------------------------------------------------
Parsing == phase = "assemble" /\ lineno < Len(src)
Fails(how) == phase' = how /\ UNCHANGED <<src, lineno, cur, vmaddr, symtab, reltab, list, image>>

\* The line is done: its piece starts at addr, the next one at next.  What
\* follows on the line is not read.
Accept(piece, next, relocs) ==
  /\ lineno' = lineno + 1
  /\ cur' = 1
  /\ reltab' = relocs
  /\ list' = Append(list, piece)
  /\ vmaddr' = next
  /\ UNCHANGED <<src, symtab, phase, image>>

Nothing(addr) == [addr |-> addr, op |-> "", regs |-> <<>>, val |-> 0, bytes |-> 0]

ParseLabel ==
  /\ Parsing
  /\ parse_label # PARSE_ERR
  /\ ~Dup(symtab, parse_label.name)
  /\ symtab' = <<[name |-> parse_label.name, addr |-> vmaddr]>> \o symtab
  /\ cur' = parse_label.next
  /\ UNCHANGED <<src, lineno, vmaddr, reltab, list, phase, image>>

DupSymbol == Parsing /\ parse_label # PARSE_ERR /\ Dup(symtab, parse_label.name) /\ Fails("refused")

ParseComment == Parsing /\ At(cur) \in {End, Mark("#")} /\ Accept(Nothing(vmaddr), vmaddr, reltab)

AtInstr == Parsing /\ At(cur) \notin {End, Mark("#")} /\ parse_label = PARSE_ERR

ins == instr_set[find_instr(At(cur).text)]
opnd == Operands(ins.type, cur + 1)

\* parse_instr uses what find_instr returns before it looks for null.
UnknownInstr == AtInstr /\ find_instr(At(cur).text) = 0 /\ Fails("crashed")

IsInstr == AtInstr /\ find_instr(At(cur).text) # 0 /\ ins.name = At(cur).text

\* Text behind an instruction's name, or an operand that is missing or wrong.
Malformed ==
  /\ AtInstr
  /\ find_instr(At(cur).text) # 0
  /\ \/ ins.name # At(cur).text
     \/ ins.name = At(cur).text /\ opnd.next = 0
     \/ /\ ins.name = At(cur).text
        /\ ins.type \in {"I_JMP", "I_CALL"}
        /\ opnd.as = "symbol"
        /\ At(cur + 1).kind = "num"
  /\ Fails("refused")

\* A jump to an immediate looks at a label that is null.
NullLabel ==
  /\ IsInstr
  /\ ins.type \in {"I_JMP", "I_CALL"}
  /\ opnd.as = "digit"
  /\ Fails("crashed")

\* What happens with a name that was never set is not modelled further.
UnsetName ==
  /\ IsInstr
  /\ ins.type # "D_POS"
  /\ opnd.next # 0
  /\ opnd.name = "unset"
  /\ Fails("undefined")

ParseInstr ==
  /\ IsInstr
  /\ ins.bytes > 0
  /\ opnd.next # 0
  /\ opnd.name # "unset"
  /\ ins.type \in {"I_JMP", "I_CALL"} => opnd.as = "symbol" /\ At(cur + 1).kind = "word"
  /\ Accept([addr |-> vmaddr, op |-> ins.name, regs |-> opnd.regs, val |-> opnd.value, bytes |-> ins.bytes],
            vmaddr + ins.bytes,
            IF opnd.as = "symbol"
            THEN <<[name |-> opnd.name, y86bin |-> lineno + 1]>> \o reltab
            ELSE reltab)

\* A mutant: the counter stays where it was.
PosOfLineOnly ==
  IsInstr /\ ins.type = "D_POS" /\ opnd.next # 0 /\ Accept(Nothing(opnd.value), vmaddr, reltab)

\* A symbol is taken for 0.
ParsePos ==
  IsInstr /\ ins.type = "D_POS" /\ opnd.next # 0 /\ Accept(Nothing(opnd.value), opnd.value, reltab)

\* A label before .align keeps the address from before it.
ParseAlign ==
  /\ IsInstr
  /\ ins.type = "D_ALIGN"
  /\ opnd.next # 0
  /\ opnd.value > 0
  /\ LET aligned == CHOOSE a \in vmaddr .. vmaddr + opnd.value - 1 : a % opnd.value = 0
     IN Accept(Nothing(aligned), aligned, reltab)

\* vmaddr % 0.
AlignToZero == IsInstr /\ ins.type = "D_ALIGN" /\ opnd.next # 0 /\ opnd.value = 0 /\ Fails("crashed")

EndOfFile ==
  /\ phase = "assemble"
  /\ lineno = Len(src)
  /\ phase' = "relocate"
  /\ UNCHANGED <<src, lineno, cur, vmaddr, symtab, reltab, list, image>>

Relocate ==
  /\ phase = "relocate"
  /\ reltab # <<>>
  /\ LET rtmp == Head(reltab)
         found == find_symbol(symtab, rtmp.name)
     IN /\ found # 0
        /\ list' = [list EXCEPT ![rtmp.y86bin].val = symtab[found].addr]
  /\ reltab' = Tail(reltab)
  /\ UNCHANGED <<src, lineno, cur, vmaddr, symtab, phase, image>>

UnknownSymbol ==
  /\ phase = "relocate"
  /\ reltab # <<>>
  /\ find_symbol(symtab, Head(reltab).name) = 0
  /\ Fails("refused")

binfile ==
  /\ phase = "relocate"
  /\ reltab = <<>>
  /\ image' = FoldLeft(Write, <<>>, list)
  /\ phase' = "done"
  /\ UNCHANGED <<src, lineno, cur, vmaddr, symtab, reltab, list>>

Init ==
  /\ src \in Sources
  /\ lineno = 0
  /\ cur = 1
  /\ vmaddr = 0
  /\ symtab = <<>>
  /\ reltab = <<>>
  /\ list = <<>>
  /\ phase = "assemble"
  /\ image = <<>>

Next ==
  \/ ParseLabel \/ DupSymbol \/ ParseComment \/ UnknownInstr \/ Malformed \/ NullLabel \/ UnsetName
  \/ ParseInstr \/ ParsePos \/ ParseAlign \/ AlignToZero \/ EndOfFile
  \/ Relocate \/ UnknownSymbol \/ binfile

Spec == Init /\ [][Next]_vars
-----------------------------------------------------------------------------
(***************************************************************************)
(* What a source means, from the grammar and its lines alone.              *)
(***************************************************************************)
Names(l) == {t \in Range(l) : t.kind \in {"word", "num"}}

\* The colons of the labels at the head of a line, and the text behind them.
Colons(l) ==
  {i \in DOMAIN l :
    /\ l[i] = Mark(":")
    /\ \A j \in 1..i : l[j] = Mark(":") \/ (l[j] \in Names(l) /\ l[j + 1] = Mark(":"))}
LabelsOf(l) == {IF i > 1 /\ l[i - 1] # Mark(":") THEN l[i - 1].text ELSE "" : i \in Colons(l)}
Body(l) ==
  LET behind == {i \in 0 .. Len(l) : Colons(l) \subseteq 1..i}
  IN SubSeq(l, 1 + (CHOOSE i \in behind : \A j \in behind : i <= j), Len(l))
Blank(l) == Body(l) = <<>> \/ Head(Body(l)) = Mark("#")

\* What may follow the name of an instruction on this line, and what it means.
Sentences(l, type) ==
  LET regs == {t \in Range(l) : t.kind = "reg"}
      nums == {t \in Range(l) : t.kind = "num"}
      words == {t \in Range(l) : t.kind = "word"}
      Comma == Mark(",")
      Says(is, rA, rB, sym, value) == [is |-> is, regs |-> <<rA, rB>>, sym |-> sym, value |-> value]
      Memory(r, n) == {<<<<n, Mark("("), r, Mark(")")>>, n.value>>, <<<<Mark("("), r, Mark(")")>>, 0>>}
      Moves(Order(_, _)) ==
        {Says(Order(a, m[1]), a.text, r.text, "none", m[2]) :
           <<a, r, m>> \in UNION {{<<a, r, m>> : m \in Memory(r, n)} :
                                   <<a, r, n>> \in regs \X regs \X (nums \cup {Num("", 0)})}}
  IN CASE type \in {"I_NOP", "I_HALT", "I_RET"} -> {Says(<<>>, "", "", "none", 0)}
       [] type \in {"I_PUSHL", "I_POPL"} -> {Says(<<a>>, a.text, "none", "none", 0) : a \in regs}
       [] type \in {"I_RRMOVL", "I_ALU"} ->
            {Says(<<a, Comma, b>>, a.text, b.text, "none", 0) : <<a, b>> \in regs \X regs}
       [] type = "I_IRMOVL" ->
            {Says(<<Mark("$"), n, Comma, r>>, "none", r.text, "none", n.value) : <<n, r>> \in nums \X regs}
            \cup {Says(<<s, Comma, r>>, "none", r.text, s.text, 0) : <<s, r>> \in Names(l) \X regs}
       [] type = "I_RMMOVL" -> Moves(LAMBDA a, m : <<a, Comma>> \o m)
       [] type = "I_MRMOVL" -> Moves(LAMBDA a, m : m \o <<Comma, a>>)
       [] type \in {"I_JMP", "I_CALL"} -> {Says(<<s>>, "", "", s.text, 0) : s \in words}
       [] type = "D_DATA" ->
            {Says(<<n>>, "", "", "none", n.value) : n \in nums}
            \cup {Says(<<s>>, "", "", s.text, 0) : s \in words}
       [] type = "D_POS" ->
            {Says(<<n>>, "", "", "none", n.value) : n \in nums}
            \cup {Says(<<t>>, "", "", "none", 0) : t \in Range(l) \ nums}
       [] type = "D_ALIGN" -> {Says(<<n>>, "", "", "none", n.value) : n \in {m \in nums : m.value > 0}}

\* The readings of a line that is not blank: none when it is wrong.  Text
\* behind a complete instruction is ignored.
Readings(l) ==
  UNION {{[name |-> row.name, type |-> row.type, bytes |-> row.bytes, says |-> s] :
           s \in {t \in Sentences(l, row.type) : IsPrefix(<<Word(row.name)>> \o t.is, Body(l))}} :
         row \in {r \in Range(instr_set) : IsPrefix(<<Word(r.name)>>, Body(l))}}
Reading(l) == CHOOSE r \in Readings(l) : TRUE

\* The address counter in front of line k of the source s.
Counter(s) ==
  LET here[k \in 1 .. Len(s) + 1] ==
        IF k = 1 THEN 0
        ELSE IF Blank(s[k - 1]) THEN here[k - 1]
        ELSE LET r == Reading(s[k - 1])
             IN CASE r.type = "D_POS" -> r.says.value
                  [] r.type = "D_ALIGN" ->
                       ((here[k - 1] + r.says.value - 1) \div r.says.value) * r.says.value
                  [] OTHER -> here[k - 1] + r.bytes
  IN here

Lines(s, name) == {k \in DOMAIN s : name \in LabelsOf(s[k])}
Labels(s) == UNION {LabelsOf(s[k]) : k \in DOMAIN s}
References(s) ==
  UNION {{r.says.sym : r \in Readings(s[k])} : k \in {l \in DOMAIN s : ~Blank(s[l])}} \ {"none"}

\* A byte belongs to the last line that covers it.
Meaning(s) ==
  LET counter == Counter(s)
      ValueOf(says) == IF says.sym = "none" THEN says.value
                       ELSE counter[CHOOSE k \in Lines(s, says.sym) : TRUE]
      code == {k \in DOMAIN s : ~Blank(s[k]) /\ Reading(s[k]).bytes > 0}
      piece == [k \in code |->
        [addr |-> counter[k], op |-> Reading(s[k]).name, bytes |-> Reading(s[k]).bytes,
         regs |-> IF Reading(s[k]).says.regs = <<"", "">> THEN <<>> ELSE Reading(s[k]).says.regs,
         val |-> ValueOf(Reading(s[k]).says)]]
  IN [a \in UNION {Bytes(piece[k]) : k \in code} |->
       Byte(piece[CHOOSE k \in code :
                    /\ a \in Bytes(piece[k])
                    /\ \A l \in code : a \in Bytes(piece[l]) => l <= k], a)]

Correct(s) ==
  /\ \A k \in DOMAIN s : Blank(s[k]) \/ Readings(s[k]) # {}
  /\ \A k \in DOMAIN s : \A i, j \in Colons(s[k]) :
       i # j /\ i > 1 /\ j > 1 => s[k][i - 1] # s[k][j - 1]
  /\ \A name \in Labels(s) : \A k, l \in Lines(s, name) : k = l
  /\ References(s) \subseteq Labels(s)

\* No name that is used begins with another name that is a label.
NamesApart(s) ==
  \A l \in Labels(s), name \in Labels(s) \cup References(s) :
    Matches(l, name) => l = name
=============================================================================
