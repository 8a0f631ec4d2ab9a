------------------------------ MODULE HclTables ------------------------------
(***************************************************************************)
(* The tables of the scanner and of the parser of the HCL compiler          *)
(* (lab6/sim/misc/lex.yy.c, hcl.tab.c), the rules of hcl.lex and the        *)
(* grammar of hcl.y.                                                        *)
(***************************************************************************)
EXTENDS FlexTables, HclTree

YY_END_OF_BUFFER == 34
JAM == 59        \* the state without transitions, at JAM_BASE of the tables
JAM_BASE == 72

yy_ec == Classes(<<
  "", " \t\r\f", "\n", "!", "#", "&", "'", "(", ")", ",", "-", "0123456789", ":", ";", "<", "=", ">",
  "acdfhjkmprvwxyzABCDEFGHIJKLMNOPQRSTUVWXYZ", "[", "]", "_", "b", "e", "g", "i", "l", "n", "o", "q",
  "s", "t", "u", "{", "|", "}">>)

yy_accept == From0(<<
  0,0,0,34,33,1,2,32,33,33,33,18,19,17,33,12,16,15,28,14,30,11,22,23,11,11,11,20,33,21,26,0,3,
  24,0,10,13,12,29,27,31,11,11,9,11,25,13,11,8,11,6,11,11,11,11,4,11,7,5,0>>)

yy_meta == From0(<<
  0,1,1,1,1,1,1,1,1,1,1,1,2,1,1,1,1,1,2,1,1,2,2,2,2,2,2,2,2,2,2,2,2,1,1,1>>)

yy_base == From0(<<
  0,0,0,71,72,72,72,54,66,62,60,72,72,72,54,53,72,72,48,47,46,0,72,72,33,33,27,72,24,72,72,54,
  72,72,49,72,43,42,72,72,72,0,25,21,23,72,38,23,18,16,16,20,21,18,18,0,17,0,0,72,35,37,38>>)

yy_def == From0(<<
  0,59,1,59,59,59,59,59,60,59,61,59,59,59,59,59,59,59,59,59,59,62,59,59,62,62,62,59,59,59,59,60,
  59,59,61,59,59,59,59,59,59,62,62,62,62,59,59,62,62,62,62,62,62,62,62,62,62,62,62,0,59,59,59>>)

yy_nxt == From0(<<
  0,4,5,6,7,8,9,10,11,12,13,14,15,16,17,18,19,20,21,22,23,4,24,21,21,25,21,21,21,26,21,21,21,27,
  28,29,31,31,34,34,41,58,57,56,55,54,53,52,51,50,46,49,48,47,37,46,35,32,45,44,43,42,40,39,38,
  37,36,35,33,32,30,59,3,59,59,59,59,59,59,59,59,59,59,59,59,59,59,59,59,59,59,59,59,59,59,59,
  59,59,59,59,59,59,59,59,59,59,59,59>>)

yy_chk == From0(<<
  0,1,1,1,1,1,1,1,1,1,1,1,1,1,1,1,1,1,1,1,1,1,1,1,1,1,1,1,1,1,1,1,1,1,1,1,60,60,61,61,62,56,54,
  53,52,51,50,49,48,47,46,44,43,42,37,36,34,31,28,26,25,24,20,19,18,15,14,10,9,8,7,3,59,59,59,
  59,59,59,59,59,59,59,59,59,59,59,59,59,59,59,59,59,59,59,59,59,59,59,59,59,59,59,59,59,59,59,
  59,59>>)
-----------------------------------------------------------------------------
(* The parser: states and what to do in them.                               *)

yytname == From0(<<
  "$end", "error", "$undefined", "QUOTE", "BOOLARG", "BOOL", "INTARG", "INT", "QSTRING", "VAR",
  "NUM", "ASSIGN", "SEMI", "COLON", "COMMA", "LPAREN", "RPAREN", "LBRACE", "RBRACE", "LBRACK",
  "RBRACK", "AND", "OR", "NOT", "COMP", "IN">>)

YYFINAL == 2
YYLAST == 78
YYNTOKENS == 26
YYPACT_NINF == -18

yypact == From0(<<
  -18, 66, -18, -7, -3, 8, 18, 23, -18, -18, -4, 22, 26, 32, -18, 21, -18, 21, -18, -18, 21, -18,
  21, 25, 30, -14, 6, -5, -18, 21, 21, 21, 24, -18, -18, -18, 43, -5, 14, 20, 21, 21, 53, 4, 36,
  21, -18, -18, 53>>)

yydefact == From0(<<
  2, 0, 1, 0, 0, 0, 0, 0, 3, 4, 0, 0, 0, 0, 5, 0, 6, 0, 9, 10, 0, 20, 0, 0, 0, 0, 0, 12, 7, 0, 0,
  0, 0, 8, 11, 17, 0, 13, 14, 15, 0, 0, 18, 0, 0, 0, 16, 21, 19>>)

yypgoto == From0(<<-18, -18, -18, -17, -18, -18>>)
yydefgoto == From0(<<-1, 1, 8, 23, 43, 26>>)

yytable == From0(<<
  24, 9, 34, 25, 14, 27, 10, 29, 30, 36, 31, 32, 37, 38, 39, 18, 19, 11, 45, 31, 32, 20, 46, 42,
  44, 21, 35, 12, 48, 22, 18, 19, 13, 15, 16, 29, 20, 28, 31, 32, 21, 40, 33, 17, 22, 32, 29, 30,
  47, 31, 32, 29, 30, 0, 31, 32, 41, 29, 30, 0, 31, 32, 0, 0, 29, 30, 2, 31, 32, 3, 4, 5, 6, 7,
  29, 30, 0, 31, 32>>)

yycheck == From0(<<
  17, 8, 16, 20, 8, 22, 9, 21, 22, 26, 24, 25, 29, 30, 31, 9, 10, 9, 14, 24, 25, 15, 18, 40, 41,
  19, 20, 9, 45, 23, 9, 10, 9, 11, 8, 21, 15, 12, 24, 25, 19, 17, 12, 11, 23, 25, 21, 22, 12, 24,
  25, 21, 22, -1, 24, 25, 13, 21, 22, -1, 24, 25, -1, -1, 21, 22, 0, 24, 25, 3, 4, 5, 6, 7, 21,
  22, -1, 24, 25>>)

yyr1 == From0(<<0, 26, 27, 27, 28, 28, 28, 28, 28, 29, 29, 29, 29, 29, 29, 29, 29, 29, 30, 30, 31, 31>>)
yyr2 == From0(<<0, 2, 0, 2, 2, 3, 3, 5, 5, 1, 1, 3, 2, 3, 3, 3, 5, 3, 1, 3, 0, 5>>)

YYTRANSLATE(name) == CHOOSE t \in DOMAIN yytname : yytname[t] = name
-----------------------------------------------------------------------------
(* The texts that each rule of hcl.lex matches.                             *)

Fixed == [quote |-> 4, boolsig |-> 5, bool |-> 6, intsig |-> 7, int |-> 8, in |-> 9]
Signs == <<"=", ";", ":", ",", "(", ")", "{", "}", "[", "]", "&&", "||", "!=", "==", "<", "<=", ">", ">=", "!">>
FixedText ==
  [rule \in 4 .. 9 |-> Characters(CHOOSE word \in DOMAIN Fixed : Fixed[word] = rule)]
  @@ [rule \in 14 .. 32 |-> Characters(Signs[rule - 13])]

Matches(rule, s) ==
  LET n == Len(s)
      All(from, to, set) == n >= from /\ \A i \in from .. to : s[i] \in set
      None(from, to, c) == \A i \in from .. to : s[i] # c
  IN CASE rule = 1 -> s \in {<<" ">>, <<"\r">>, <<"\t">>, <<"\f">>}
       [] rule = 2 -> s = <<"\n">>
       [] rule = 3 -> n >= 2 /\ s[1] = "#" /\ s[n] = "\n" /\ None(2, n - 1, "\n")
       [] rule = 10 -> n >= 2 /\ s[1] = "'" /\ s[n] = "'" /\ None(2, n - 1, "'")
       [] rule = 11 -> s[1] \in Letter /\ (n > 1 => All(2, n, Letter \cup Digit \cup {"_"}))
       [] rule = 12 -> All(1, n, Digit)
       [] rule = 13 -> s[1] = "-" /\ All(2, n, Digit)
       [] rule = 33 -> n = 1 /\ s # <<"\n">>
       [] OTHER -> s = FixedText[rule]
-----------------------------------------------------------------------------
(***************************************************************************)
(* The grammar of hcl.y as the texts of each length with the trees they      *)
(* stand for.  A tree with operators that are not in parentheses is the one  *)
(* of a text if on the right edge of the left operand nothing binds less     *)
(* and on the left edge of the right operand everything binds more: the      *)
(* operators are left associative, OR is the weakest and IN the strongest.   *)
(***************************************************************************)
Prec(name) == CHOOSE p \in 1 .. 5 : <<"OR", "AND", "NOT", "COMP", "IN">>[p] = name
Closed == 6
Low(a, b) == IF a < b THEN a ELSE b

Phrase(symbols, tree, left, right) == [text |-> symbols, tree |-> tree, left |-> left, right |-> right]
Whole(symbols, tree) == Phrase(symbols, tree, Closed, Closed)
Between(kinds, a, p, z) == {<<x>> \o p.text \o <<y>> : x \in kinds[a], y \in kinds[z]}

Infix(op, x, y) ==
  CASE op.name = "AND" -> And(x, y) [] op.name = "OR" -> Or(x, y) [] OTHER -> Comp(op.value.sval, x, y)

Joining(xs, op, ys) ==
  LET p == Prec(op.name)
  IN {Phrase(x.text \o <<op>> \o y.text, Infix(op, x.tree, y.tree), Low(p, x.left), Low(p, y.right)) :
        x \in {x \in xs : x.right >= p}, y \in {y \in ys : y.left > p}}

\* The expressions of n tokens from the shorter phrases.
Exprs(kinds, n, shorter) ==
  LET expr(k) == shorter[k + 1].expr
      members(k) == shorter[k + 1].members
      clauses(k) == shorter[k + 1].clauses
  IN UNION {
       {Whole(<<t>>, t.value) : t \in IF n = 1 THEN kinds["VAR"] \cup kinds["NUM"] ELSE {}},
       {Phrase(<<t>> \o x.text, Not(x.tree), Closed, Low(Prec("NOT"), x.right)) :
          t \in kinds["NOT"], x \in {x \in IF n > 1 THEN expr(n - 1) ELSE {} : x.left > Prec("NOT")}},
       UNION {Joining(expr(k), op, expr(n - 1 - k)) :
                k \in 1 .. n - 2, op \in kinds["AND"] \cup kinds["OR"] \cup kinds["COMP"]},
       UNION {{Whole(y, x.tree) : y \in Between(kinds, "LPAREN", x, "RPAREN")} :
                x \in IF n > 2 THEN expr(n - 2) ELSE {}},
       UNION {{Whole(y, Case(x.tree)) : y \in Between(kinds, "LBRACK", x, "RBRACK")} :
                x \in IF n > 1 THEN clauses(n - 2) ELSE {}},
       UNION {UNION {{Phrase(x.text \o <<t>> \o z, Ele(x.tree, y.tree), Low(Prec("IN"), x.left), Closed) :
                        t \in kinds["IN"], z \in Between(kinds, "LBRACE", y, "RBRACE")} :
                       x \in {x \in expr(k) : x.right >= Prec("IN")}, y \in members(n - 3 - k)} :
                k \in 1 .. n - 4}}

Members(kinds, n, exprs, shorter) ==
  {Whole(x.text, <<x.tree>>) : x \in exprs}
  \cup UNION {{Whole(m.text \o <<t>> \o x.text, Append(m.tree, x.tree)) :
                 m \in shorter[k + 1].members, t \in kinds["COMMA"], x \in shorter[n - k].expr} : k \in 1 .. n - 2}

Clauses(kinds, n, shorter) ==
  UNION {UNION {
    {Whole(c.text \o x.text \o <<t>> \o y.text \o <<u>>, Append(c.tree, Clause(x.tree, y.tree))) :
       c \in shorter[i + 1].clauses, x \in shorter[j + 1].expr, t \in kinds["COLON"],
       y \in shorter[n - 1 - i - j].expr, u \in kinds["SEMI"]} : j \in 1 .. n - 3 - i} : i \in 0 .. n - 4}

\* The statements of n tokens.
Stmts(kinds, n, shorter) ==
  UNION {
    {Whole(<<t, q>>, [kind |-> "code", qstring |-> q.value.sval]) :
       t \in IF n = 2 THEN kinds["QUOTE"] ELSE {}, q \in kinds["QSTRING"]},
    {Whole(<<t, v, q>>, [kind |-> "arg", var |-> v.value.sval, qstring |-> q.value.sval,
                         isbool |-> t.name = "BOOLARG"]) :
       t \in IF n = 3 THEN kinds["BOOLARG"] \cup kinds["INTARG"] ELSE {}, v \in kinds["VAR"], q \in kinds["QSTRING"]},
    {Whole(<<t, v, a>> \o x.text \o <<e>>, [kind |-> "function", var |-> v.value.sval, expr |-> x.tree,
                                           isbool |-> t.name = "BOOL"]) :
       t \in kinds["BOOL"] \cup kinds["INT"], v \in kinds["VAR"], a \in kinds["ASSIGN"], e \in kinds["SEMI"],
       x \in IF n > 4 THEN shorter[n - 3].expr ELSE {}}}

\* The same set, enumerated once.
Listed(set) == {x : x \in set}

\* One length after the other, in files of at most most tokens; a file is a
\* sequence of statements, and an expression needs four more tokens around it.
Level(kinds, shorter, most) ==
  LET n == Len(shorter)
      exprs == IF n > most - 4 THEN {} ELSE Listed(Exprs(kinds, n, shorter))
      stmts == Listed(Stmts(kinds, n, shorter))
      files == {Whole(x.text, <<x.tree>>) : x \in stmts}
               \cup UNION {{Whole(f.text \o x.text, Append(f.tree, x.tree)) :
                              f \in shorter[k + 1].file, x \in shorter[n - k + 1].stmt} : k \in 1 .. n - 1}
  IN [expr |-> exprs, stmt |-> stmts, file |-> Listed(files),
      members |-> IF n > most - 8 THEN {} ELSE Listed(Members(kinds, n, exprs, shorter)),
      clauses |-> IF n > most - 6 THEN {} ELSE Listed(Clauses(kinds, n, shorter))]

NoTokens == [expr |-> {}, members |-> {}, clauses |-> {Whole(<<>>, <<>>)}, stmt |-> {}, file |-> {Whole(<<>>, <<>>)}]

\* The phrases of up to n tokens, at n + 1.
Levels(kinds, most) ==
  LET upTo[n \in 0 .. most] ==
        IF n = 0 THEN <<NoTokens>> ELSE LET shorter == upTo[n - 1] IN Append(shorter, Level(kinds, shorter, most))
  IN upTo[most]

\* The files of at most most tokens and the end.
FilesUpTo(kinds, most) ==
  UNION {{Whole(f.text \o <<t>>, f.tree) : f \in level.file, t \in kinds["$end"]} : level \in LET levels == Levels(kinds, most) IN {levels[n] : n \in DOMAIN levels}}
=============================================================================
