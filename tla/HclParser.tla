------------------------------ MODULE HclParser ------------------------------
(***************************************************************************)
(* The parser of the HCL compiler, lab6/sim/misc/hcl.tab.c, as bison made   *)
(* it of hcl.y: yyparse with its tables, its stacks and the actions of the  *)
(* grammar.  A token is its name and the node the scanner leaves in yylval; *)
(* a token without one leaves the node of an earlier token there.  The      *)
(* grammar has no error token, so that the parser gives up at an error.     *)
(***************************************************************************)
EXTENDS HclTables

CONSTANTS
  Tokens,       \* what the scanner may return: [name, value]
  Begins,       \* texts that a file may begin with
  MoreTokens,   \* bound on the tokens behind such a beginning
  YYINITDEPTH, YYMAXDEPTH

VARIABLES
  begin,        \* the beginning of this file
  read,         \* the tokens of the scanner so far
  yyss, yyvs,   \* the stacks of states and of values; yyssp is at the end
  yystacksize,
  yychar, yylval,
  statements,   \* the statements handed to add_arg, gen_funct and insert_code
  yyresult      \* "none" while the parser runs

parserVars == <<begin, read, yyss, yyvs, yystacksize, yychar, yylval, statements, yyresult>>

Nothing == [type |-> "nothing"]
Kind(name) == {token \in Tokens : token.name = name}

-----------------------------------------------------------------------------
yystate == Last(yyss)
Parsing == yyresult = "none"
Defaulted == yypact[yystate] = YYPACT_NINF

\* The table knows what to do in this state with this token.
Index == yypact[yystate] + YYTRANSLATE(yychar)
Known == Index \in 0 .. YYLAST /\ yycheck[Index] = YYTRANSLATE(yychar)

\* yynewstate and yysetstate: the stack grows when it is full.
NewState(states, values) ==
  LET full == Len(states) >= yystacksize
      exhausted == full /\ YYMAXDEPTH <= yystacksize
  IN /\ yyss' = states /\ yyvs' = values
     /\ yystacksize' =
          IF ~full \/ exhausted THEN yystacksize
          ELSE IF 2 * yystacksize > YYMAXDEPTH THEN YYMAXDEPTH ELSE 2 * yystacksize
     /\ yyresult' =
          IF exhausted THEN "exhausted" ELSE IF Last(states) = YYFINAL THEN "accept" ELSE "none"

\* The scanner returns the end at the latest when the bound is reached.
NextTokens ==
  CASE Len(read) < Len(begin) -> {begin[Len(read) + 1]}
    [] Len(read) = Len(begin) + MoreTokens -> Kind("$end")
    [] OTHER -> Tokens

yylex ==
  /\ Parsing /\ ~Defaulted
  /\ yychar = "YYEMPTY"
  /\ \E token \in NextTokens :
       /\ yychar' = token.name
       /\ yylval' = IF token.value = Nothing THEN yylval ELSE token.value
       /\ read' = Append(read, token)
  /\ UNCHANGED <<begin, yyss, yyvs, yystacksize, statements, yyresult>>

Shift ==
  /\ Parsing /\ ~Defaulted
  /\ yychar # "YYEMPTY" /\ Known
  /\ yychar' = "YYEMPTY"
  /\ NewState(Append(yyss, yytable[Index]), Append(yyvs, yylval))
  /\ UNCHANGED <<begin, read, yylval, statements>>

\* $k of a rule with n symbols on its right.
Dollar(k, n) == yyvs[Len(yyvs) - n + k]

\* The statements of the grammar call a routine of node.c.
Statement(rule) ==
  CASE rule = 4 -> <<[kind |-> "code", qstring |-> Dollar(2, 2).sval]>>
    [] rule \in {5, 6} ->
         <<[kind |-> "arg", var |-> Dollar(2, 3).sval, qstring |-> Dollar(3, 3).sval, isbool |-> rule = 5]>>
    [] rule \in {7, 8} ->
         <<[kind |-> "function", var |-> Dollar(2, 5).sval, expr |-> Dollar(4, 5), isbool |-> rule = 7]>>
    [] OTHER -> <<>>

\* A mutant: a comparison is built from right to left.
ValueReversed(rule) ==
  CASE rule \in {9, 10} -> Dollar(1, 1)
    [] rule \in {11, 17} -> (IF rule = 11 THEN Dollar(2, 3) ELSE Case(Dollar(2, 3)))
    [] rule = 12 -> Not(Dollar(2, 2))
    [] rule = 13 -> And(Dollar(1, 3), Dollar(3, 3))
    [] rule = 14 -> Or(Dollar(1, 3), Dollar(3, 3))
    [] rule = 15 -> Comp(Dollar(2, 3).sval, Dollar(3, 3), Dollar(1, 3))
    [] rule = 16 -> Ele(Dollar(1, 5), Dollar(4, 5))
    [] rule = 18 -> <<Dollar(1, 1)>>
    [] rule = 19 -> Append(Dollar(1, 3), Dollar(3, 3))
    [] rule = 21 -> Append(Dollar(1, 5), Clause(Dollar(2, 5), Dollar(4, 5)))
    [] OTHER -> <<>>

\* $$ of a rule; that of a statement is not used.
Value(rule) ==
  CASE rule \in {9, 10} -> Dollar(1, 1)
    [] rule = 11 -> Dollar(2, 3)
    [] rule = 12 -> Not(Dollar(2, 2))
    [] rule = 13 -> And(Dollar(1, 3), Dollar(3, 3))
    [] rule = 14 -> Or(Dollar(1, 3), Dollar(3, 3))
    [] rule = 15 -> Comp(Dollar(2, 3).sval, Dollar(1, 3), Dollar(3, 3))
    [] rule = 16 -> Ele(Dollar(1, 5), Dollar(4, 5))
    [] rule = 17 -> Case(Dollar(2, 3))
    [] rule = 18 -> <<Dollar(1, 1)>>
    [] rule = 19 -> Append(Dollar(1, 3), Dollar(3, 3))
    [] rule = 21 -> Append(Dollar(1, 5), Clause(Dollar(2, 5), Dollar(4, 5)))
    [] OTHER -> <<>>

Goto(state, nonterminal) ==
  LET index == yypgoto[nonterminal] + state
  IN IF index \in 0 .. YYLAST /\ yycheck[index] = state THEN yytable[index] ELSE yydefgoto[nonterminal]

\* yydefault and yyreduce: with no other thing to do, or without looking.
Reduce ==
  /\ Parsing
  /\ Defaulted \/ (yychar # "YYEMPTY" /\ ~Known)
  /\ yydefact[yystate] # 0
  /\ LET rule == yydefact[yystate]
         left == SubSeq(yyss, 1, Len(yyss) - yyr2[rule])
     IN /\ NewState(Append(left, Goto(Last(left), yyr1[rule] - YYNTOKENS)),
                    Append(SubSeq(yyvs, 1, Len(yyvs) - yyr2[rule]), Value(rule)))
        /\ statements' = statements \o Statement(rule)
  /\ UNCHANGED <<begin, read, yychar, yylval>>

\* yyerrlab: every state is popped, as none shifts the token error.
SyntaxError ==
  /\ Parsing /\ ~Defaulted
  /\ yychar # "YYEMPTY" /\ ~Known
  /\ yydefact[yystate] = 0
  /\ yyss' = <<0>> /\ yyvs' = <<>>
  /\ yyresult' = "abort"
  /\ UNCHANGED <<begin, read, yystacksize, yychar, yylval, statements>>

yyparse == yylex \/ Shift \/ Reduce \/ SyntaxError

ParserInit ==
  /\ begin \in Begins
  /\ read = <<>>
  /\ yyss = <<0>> /\ yyvs = <<>>
  /\ yystacksize = YYINITDEPTH
  /\ yychar = "YYEMPTY" /\ yylval = Nothing
  /\ statements = <<>>
  /\ yyresult = "none"
=============================================================================
