------------------------------ MODULE MCReaders ------------------------------
(***************************************************************************)
(* Programs that read a stream, one run for all of them: Rio with its       *)
(* writer, the scanners of the HCL compiler and of the assembler with their *)
(* buffers, the parser behind the first of them, and the simulators'        *)
(* readers of object files.  The initial state says which of them runs.    *)
(***************************************************************************)
EXTENDS Rio, HclTables

VARIABLES
  program,
  text, fetched, short, yy_ch_buf, yy_buf_size, yy_n_chars, yy_buffer_status,
  yytext_ptr, yy_c_buf_p, yy_hold_char, yy_act,                    \* FlexBuffer
  yy_last_accepting, tokens, lineno, echo,                         \* HclScanner
  pass, yy_start, yy_at_bol, yy_state_buf, yy_current_state, yy_cp,
  yy_lp, yy_full_match, calls,                                     \* YasScanner
  begin, read, yyss, yyvs, yystacksize, yychar, yylval, statements, yyresult,  \* HclParser
  form, source, step, upto, contents, byte_cnt, before, store      \* ObjFile

hclVars == <<yy_last_accepting, tokens, lineno, echo>>
yasVars == <<pass, yy_start, yy_at_bol, yy_state_buf, yy_current_state, yy_cp, yy_lp, yy_full_match, calls>>
bufferVars == <<text, fetched, short, yy_ch_buf, yy_buf_size, yy_n_chars, yy_buffer_status,
                yytext_ptr, yy_c_buf_p, yy_hold_char, yy_act>>
parserVars == <<begin, read, yyss, yyvs, yystacksize, yychar, yylval, statements, yyresult>>
fileVars == <<form, source, step, upto, contents, byte_cnt, before, store>>
othersVars == <<hclVars, yasVars, bufferVars, parserVars, fileVars>>
allVars == <<vars, program, othersVars>>

SomeNewlines == {2, 3}

\* Blocks and lines of several lengths, also a line with room for the final 0 only.
SomeCalls ==
  {[op |-> "nb", n |-> k] : k \in {1, 3}} \cup {[op |-> "line", n |-> k] : k \in 1..4}

InCharacters(pieces) == {Characters(a) : a \in pieces}
Around(c, firsts, lasts) == {Characters(a) \o <<c>> \o Characters(b) : a \in firsts, b \in lasts}

\* Two pieces side by side, a NUL anywhere, nothing at all.
HclPieces ==
  {"quote", "boolsig", "bool", "intsig", "int", "in", "i", "boo", "x1_", "'q'", "'", "#c\n", "#", "12", "-3", "-",
   "=", "==", "!", "!=", "<", "<=", ">", ">=", "&&", "&", "||", "|", ";", ":", ",", "(", ")", "{", "}", "[", "]",
   " ", "\t", "\n", "@"}
HclTexts ==
  InCharacters({a \o b : a, b \in HclPieces} \cup {""})
  \cup Around("NUL", {"", "int", "#c\n", "'q'", "'", "#"}, {"", "int", "#c\n", "'"})

YasPieces ==
  {"rrmovl", "jl", "jle", "halt", ".pos", ".p", "%eax", "%ea", "12", "-1", "0x1F", "0x", "$", "(", ":", "x1_", "jmpx",
   "#c\n", "//c", "/*c", "/", "\n", "\r", "\r\n", " ", "@", "-", "\t"}
YasTexts ==
  InCharacters({a \o b \o end : a, b \in YasPieces, end \in {"", "\n"}} \cup {""})
  \cup Around("NUL", {"", "halt\n", "#c\n", "\n"}, {"", "halt\n", "\n"})

Token(name, value) == [name |-> name, value |-> value]
HclTokens ==
  {Token(name, [type |-> "nothing"]) : name \in
     {"$end", "QUOTE", "BOOLARG", "BOOL", "INTARG", "INT", "ASSIGN", "SEMI", "COLON", "COMMA", "LPAREN", "RPAREN",
      "LBRACE", "RBRACE", "LBRACK", "RBRACK", "AND", "OR", "NOT", "IN"}}
  \cup {Token("QSTRING", Var("q")), Token("VAR", Var("x")), Token("NUM", Num(1)), Token("COMP", Var("=="))}
Named(names) == [i \in DOMAIN names |-> CHOOSE token \in HclTokens : token.name = names[i]]
FileBegins == {Named(names) : names \in {<<>>, <<"INT", "VAR", "ASSIGN">>, <<"BOOLARG", "VAR", "QSTRING">>}}

\* All files of ten tokens, and what they begin with.
Kinds == [name \in {token.name : token \in HclTokens} |-> {token \in HclTokens : token.name = name}]
TenTokens == Listed(FilesUpTo(Kinds, 10))
Beginnings == Listed(UNION {{SubSeq(f.text, 1, k) : k \in 0 .. Len(f.text)} : f \in TenTokens})

H == INSTANCE HclScanner WITH Texts <- HclTexts, YY_BUF_SIZE <- 2, YY_READ_BUF_SIZE <- 3, MaxShort <- 1
Y == INSTANCE YasScanner WITH Texts <- YasTexts, YY_BUF_SIZE <- 8, YY_READ_BUF_SIZE <- 3, MaxShort <- 0

P == INSTANCE HclParser WITH
  Tokens <- HclTokens, Begins <- FileBegins, MoreTokens <- 7, YYINITDEPTH <- 4, YYMAXDEPTH <- 12

\* Lines as yas prints them, also far above the memory, lines by hand, and lines that are no code.
L == INSTANCE ObjFile WITH Listings <- {}, Binaries <- {}, Stores <- {}, MEM_SIZE <- 64
YasLine(pos, code, tcount) ==
  [line |-> L!print_code(pos, code, tcount, <<"0", "x", "a", ":", "1">>), says |-> IF tcount > 0 THEN "code" ELSE "nothing",
   printed |-> TRUE, pos |-> pos, code |-> IF tcount > 0 THEN code ELSE <<>>]
YasLines ==
  {YasLine(pos, code, 3) : pos \in {5, 60, 4099}, code \in {<<>>, <<0>>, <<175, 240>>, <<48, 9, 255, 10, 0, 128>>}}
  \cup {YasLine(7, <<>>, 0)}
HandLine(gap, digits, pos, colon, chars, code) ==
  [line |-> gap \o <<"0", "X">> \o digits \o gap \o colon \o gap \o chars \o <<"\n">>,
   says |-> IF colon = <<":">> THEN "code" ELSE "bad", printed |-> FALSE, pos |-> pos, code |-> code]
HandLines ==
  {HandLine(gap, where[1], where[2], colon, what[1], what[2]) :
     gap \in {<<>>, <<" ", "\t">>},
     where \in {<<<<>>, 0>>, <<<<"F">>, 15>>, <<<<"0", "3", "e">>, 62>>},
     colon \in {<<":">>, <<>>},
     what \in {<<<<>>, <<>>>>, <<<<"a">>, <<>>>>, <<<<"0", "a", "B">>, <<10>>>>, <<<<"g", "1">>, <<>>>>,
               <<<<"1", "2", "3", "4", " ", "5", "6">>, <<18, 52>>>>, <<<<"1", "2", "3", "4", "5", "6">>, <<18, 52, 86>>>>}}
NoCode ==
  {[line |-> characters, says |-> "nothing", printed |-> FALSE, pos |-> 0, code |-> <<>>] :
     characters \in {<<>>, <<"\n">>, <<"x", "0">>, <<"0">>, <<"1", "x", "2", ":", "1", "1">>}}

O == INSTANCE ObjFile WITH
  Listings <- {<<a>> : a \in HandLines \cup NoCode} \cup {<<a, b>> : a, b \in YasLines}
              \cup {<<a, b, a>> : a \in YasLines, b \in NoCode} \cup {<<>>},
  Binaries <- {[k \in 1 .. length |-> (k * k) % 256] : length \in {0, 1, 5, 63, 64, 65}},
  Stores <- {[pos |-> at, val |-> value] :
               at \in {-1, 0, 5, 6, 60, 61, 63, 64}, value \in {0, 77, -2147483647 - 1, -305419896}},
  MEM_SIZE <- 64

NoBuffer ==
  /\ text = <<>> /\ fetched = 0 /\ short = 0 /\ yy_ch_buf = <<>> /\ yy_buf_size = 0 /\ yy_n_chars = 0
  /\ yy_buffer_status = "none" /\ yytext_ptr = 0 /\ yy_c_buf_p = 0 /\ yy_hold_char = "none" /\ yy_act = 0
NoHclScanner == yy_last_accepting = <<>> /\ tokens = <<>> /\ lineno = 1 /\ echo = <<>>
NoYasScanner ==
  /\ pass = 0 /\ yy_start = 0 /\ yy_at_bol = TRUE /\ yy_state_buf = <<>> /\ yy_current_state = 0 /\ yy_cp = 0
  /\ yy_lp = 0 /\ yy_full_match = 0 /\ calls = <<>>
NoParser ==
  /\ begin = <<>> /\ read = <<>> /\ yyss = <<>> /\ yyvs = <<>> /\ yystacksize = 0 /\ yychar = "none"
  /\ yylval = <<>> /\ statements = <<>> /\ yyresult = "idle"

NoFile ==
  /\ form = "none" /\ source = <<>> /\ step = "none" /\ upto = 0 /\ contents = <<>> /\ byte_cnt = 0
  /\ before = <<>> /\ store = [pos |-> 0, val |-> 0]

MCInit ==
  /\ Init
  /\ \/ program = "rio" /\ NoBuffer /\ NoHclScanner /\ NoYasScanner /\ NoParser /\ NoFile
     \/ program = "hcl scanner" /\ H!ScannerInit /\ NoYasScanner /\ NoParser /\ NoFile
     \/ program = "yas scanner" /\ Y!ScannerInit /\ NoHclScanner /\ NoParser /\ NoFile
     \/ program = "hcl parser" /\ NoBuffer /\ NoHclScanner /\ NoYasScanner /\ P!ParserInit /\ NoFile
     \/ program = "object file" /\ NoBuffer /\ NoHclScanner /\ NoYasScanner /\ NoParser /\ O!Init

RioStep(A) == program = "rio" /\ A /\ UNCHANGED <<program, othersVars>>
RioNext == RioStep(Next)
HclScannerNext ==
  program = "hcl scanner" /\ H!ScannerNext /\ UNCHANGED <<vars, program, yasVars, parserVars, fileVars>>
YasScannerNext ==
  program = "yas scanner" /\ Y!ScannerNext /\ UNCHANGED <<vars, program, hclVars, parserVars, fileVars>>
HclParserNext ==
  program = "hcl parser" /\ P!yyparse /\ UNCHANGED <<vars, program, hclVars, yasVars, bufferVars, fileVars>>
ObjFileNext ==
  program = "object file" /\ O!Next /\ UNCHANGED <<vars, program, hclVars, yasVars, bufferVars, parserVars>>

\* A scanner stops at the end of the file or with a message, a parser with a
\* result, a simulator when the file is refused or, here, after one store.
Stopped ==
  \/ program = "hcl scanner" /\ yy_act = H!END
  \/ program = "yas scanner" /\ yy_act \in {Y!END, Y!OVERFLOW}
  \/ program = "hcl parser" /\ yyresult # "none"
  \/ program = "object file" /\ step \notin {"file", "loaded"}

MCNext ==
  RioNext \/ HclScannerNext \/ YasScannerNext \/ HclParserNext \/ ObjFileNext \/ (Stopped /\ UNCHANGED allVars)

MCSpec ==
  /\ MCInit /\ [][MCNext]_allVars
  /\ WF_allVars(RioStep(WriterNext)) /\ WF_allVars(RioStep(ReaderNext))
  /\ SF_allVars(RioStep(\E c \in Calls : Useful(c) /\ CallRead(c)))
-----------------------------------------------------------------------------
\* Everything that rio_writen reported arrives when no call fails and the reader
\* goes on (Rio's AllDelivered).
Delivered == program = "rio" => AllDelivered

\* Wherever a token crosses the end of the buffer and however the text arrives,
\* the HCL compiler gets the tokens of the longest matches and the number of the
\* line (lex.yy.c yylex and yy_get_next_buffer).  The assembler is called in
\* both passes as yas-grammar.lex says, the line first, and gives up only for a
\* line that its buffer cannot hold (yas-grammar.c).  The lines it prints are
\* the memory of the simulators (isa.c load_mem), and words are kept in it as bytes.
ScannersRight ==
  /\ program = "hcl scanner" => H!ScannedRight
  /\ program = "yas scanner" => Y!BothPassesRight /\ Y!OnlyLongLines
  /\ program = "object file" => O!ObjectsRight

\* The parser accepts only texts of the grammar of hcl.y, with the trees of the
\* precedences declared there, and rejects a text as soon as no file begins like
\* that; its stack is exhausted only by a text of half its depth (hcl.tab.c).
ParsedRight ==
  program = "hcl parser" =>
    /\ yyresult = "accept" => \E f \in TenTokens : f.text = read /\ f.tree = statements
    /\ yyresult = "abort" => read \notin Beginnings
    /\ yyresult = "exhausted" => 2 * Len(read) >= 12
=============================================================================
