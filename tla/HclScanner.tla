------------------------------ MODULE HclScanner ------------------------------
(***************************************************************************)
(* The scanner of the HCL compiler, lab6/sim/misc/lex.yy.c, as flex made it *)
(* of hcl.lex: the longest text that a rule matches is the next token, and  *)
(* the first such rule counts.  The states and transitions are those of the *)
(* compressed tables; a state above 59 is a template.                       *)
(***************************************************************************)
EXTENDS FlexBuffer, HclTables

VARIABLES
  yy_last_accepting,   \* the last state on the way that accepts, and where: [state, cpos]
  tokens,              \* what yylex returned: [name, text], text where yylval is set
  lineno,
  echo                 \* what the default rule copied to the output

hclScannerVars == <<bufferVars, yy_last_accepting, tokens, lineno, echo>>

-----------------------------------------------------------------------------
RECURSIVE NextState(_, _)
NextState(state, class) ==
  IF yy_chk[yy_base[state] + class] = state THEN yy_nxt[yy_base[state] + class]
  ELSE NextState(yy_def[state], IF yy_def[state] > JAM THEN yy_meta[class] ELSE class)

Noted(state, cpos, last) == IF yy_accept[state] # 0 THEN [state |-> state, cpos |-> cpos] ELSE last

\* yy_find_action: back to the last state that accepts.
FindAction(state, cp, last) ==
  LET backed == yy_accept[state] = 0
  IN [act |-> yy_accept[IF backed THEN last.state ELSE state], cp |-> IF backed THEN last.cpos ELSE cp, last |-> last]

\* yy_match: on until no transition is left.
RECURSIVE Match(_, _, _, _)
Match(buffer, cp, state, last) ==
  LET noted == Noted(state, cp, last)
      next == NextState(state, yy_ec[buffer[cp + 1]])
  IN IF yy_base[next] # JAM_BASE THEN Match(buffer, cp + 1, next, noted) ELSE FindAction(next, cp + 1, noted)

\* The same from the beginning of a token to a place that was reached before;
\* a NUL there is one of the text.
RECURSIVE Again(_, _, _, _, _)
Again(buffer, from, to, state, last) ==
  IF from = to THEN [state |-> state, last |-> last]
  ELSE Again(buffer, from + 1, to,
             NextState(state, IF buffer[from + 1] = NUL THEN 1 ELSE yy_ec[buffer[from + 1]]), Noted(state, from, last))

yy_start == 1
yy_get_previous_state(buffer, from, to) == Again(buffer, from, to, yy_start, yy_last_accepting)

\* yy_try_NUL_trans: the NUL is one of the text.
AfterNul(buffer, cp, previous) ==
  LET last == Noted(previous.state, cp, previous.last)
      next == NextState(previous.state, 1)
  IN IF next # JAM THEN Match(buffer, cp + 1, next, last) ELSE FindAction(previous.state, cp, last)

Found(buffer, yy_bp, found) ==
  /\ YY_DO_BEFORE_ACTION(buffer, yy_bp, found.cp)
  /\ yy_act' = found.act
  /\ yy_last_accepting' = found.last

yylex ==
  /\ yy_act = NEXT_TOKEN
  /\ Found(Restored, yy_c_buf_p, Match(Restored, yy_c_buf_p, yy_start, yy_last_accepting))
  /\ UNCHANGED <<inputVars, yy_buf_size, yy_n_chars, yy_buffer_status, tokens, lineno, echo>>

\* A mutant: the marks at the end are taken for NULs of the text.
ReallyNulAnywhere ==
  /\ yy_act = YY_END_OF_BUFFER
  /\ yy_c_buf_p <= yy_n_chars + 1 /\ yy_n_chars > 0
  /\ LET cp == yytext_ptr + yy_amount_of_matched_text
     IN Found(Restored, yytext_ptr, AfterNul(Restored, cp, yy_get_previous_state(Restored, yytext_ptr, cp)))
  /\ UNCHANGED <<inputVars, yy_buf_size, yy_n_chars, yy_buffer_status, tokens, lineno, echo>>

ReallyNul ==
  /\ AtNul(YY_END_OF_BUFFER)
  /\ LET cp == yytext_ptr + yy_amount_of_matched_text
     IN Found(Restored, yytext_ptr, AfterNul(Restored, cp, yy_get_previous_state(Restored, yytext_ptr, cp)))
  /\ UNCHANGED <<inputVars, yy_buf_size, yy_n_chars, yy_buffer_status, tokens, lineno, echo>>

\* A buffer that the token fills is doubled until there is room.
RECURSIVE Doubled(_)
Doubled(size) == IF size - number_to_move - 1 > 0 THEN size ELSE Doubled(2 * size)

\* A mutant: the token is not looked at again from its beginning.
ReadMoreForgetful ==
  /\ AtEnd(YY_END_OF_BUFFER) /\ yy_buffer_status # "EOF_PENDING"
  /\ LET size == Doubled(yy_buf_size)
     IN \E n \in YY_INPUT(size - number_to_move - 1) :
          /\ ContinueScan(n, size)
          /\ Found(NextBuffer(n), 0, Match(NextBuffer(n), number_to_move, yy_start, yy_last_accepting))
  /\ UNCHANGED <<tokens, lineno, echo>>

ReadMore ==
  /\ AtEnd(YY_END_OF_BUFFER) /\ yy_buffer_status # "EOF_PENDING"
  /\ LET size == Doubled(yy_buf_size)
     IN \E n \in YY_INPUT(size - number_to_move - 1) :
          /\ ContinueScan(n, size)
          /\ LET previous == yy_get_previous_state(NextBuffer(n), 0, number_to_move)
             IN Found(NextBuffer(n), 0, Match(NextBuffer(n), number_to_move, previous.state, previous.last))
  /\ UNCHANGED <<tokens, lineno, echo>>

NoMore == yy_buffer_status = "EOF_PENDING" \/ 0 \in YY_INPUT(Doubled(yy_buf_size) - number_to_move - 1)

MatchAtEnd ==
  /\ AtEnd(YY_END_OF_BUFFER) /\ NoMore
  /\ LastMatch
  /\ LET previous == yy_get_previous_state(NextBuffer(0), 0, number_to_move)
     IN Found(NextBuffer(0), 0, FindAction(previous.state, number_to_move, previous.last))
  /\ UNCHANGED <<tokens, lineno, echo>>

\* yywrap says that there is no other file.
yyterminate ==
  /\ AtEnd(YY_END_OF_BUFFER) /\ NoMore
  /\ EndOfFile
  /\ UNCHANGED <<yy_last_accepting, tokens, lineno, echo>>

(* The actions of the rules: blanks, ends of lines and comments, tokens,     *)
(* anything else.                                                           *)
Token(rule, matched) ==
  LET names == <<"QUOTE", "BOOLARG", "BOOL", "INTARG", "INT", "IN", "QSTRING", "VAR", "NUM", "NUM", "ASSIGN", "SEMI",
                 "COLON", "COMMA", "LPAREN", "RPAREN", "LBRACE", "RBRACE", "LBRACK", "RBRACK", "AND", "OR",
                 "COMP", "COMP", "COMP", "COMP", "COMP", "COMP", "NOT">>
  IN [name |-> names[rule - 3], text |-> IF rule \in 10 .. 13 \cup 26 .. 31 THEN matched ELSE <<>>]

Rule ==
  /\ yy_act \in 1 .. 33
  /\ lineno' = IF yy_act \in {2, 3} THEN lineno + 1 ELSE lineno
  /\ tokens' = IF yy_act \in 4 .. 32 THEN Append(tokens, Token(yy_act, yytext)) ELSE tokens
  /\ echo' = IF yy_act = 33 THEN echo \o yytext ELSE echo
  /\ yy_act' = NEXT_TOKEN
  /\ UNCHANGED <<inputVars, tokenVars, yy_buf_size, yy_n_chars, yy_buffer_status, yy_last_accepting>>

ScannerInit ==
  /\ BufferInit
  /\ yy_last_accepting = [state |-> 0, cpos |-> 0]
  /\ tokens = <<>> /\ lineno = 1 /\ echo = <<>>

ScannerNext == yylex \/ ReallyNul \/ ReadMore \/ MatchAtEnd \/ yyterminate \/ Rule
-----------------------------------------------------------------------------
(***************************************************************************)
(* What hcl.lex says: the longest match, and the first rule with it.        *)
(***************************************************************************)
\* The end of the token that begins at a place, and its rule.
Longest(at) ==
  LET ends == {e \in at .. Len(text) : \E rule \in 1 .. 33 : Matches(rule, SubSeq(text, at, e))}
      end == CHOOSE e \in ends : \A d \in ends : d <= e
      rules == {rule \in 1 .. 33 : Matches(rule, SubSeq(text, at, end))}
  IN [end |-> end, rule |-> CHOOSE r \in rules : \A q \in rules : r <= q]

RECURSIVE Meant(_)
Meant(at) ==
  IF at > Len(text) THEN [tokens |-> <<>>, lines |-> 0, echo |-> <<>>]
  ELSE LET token == Longest(at)
           matched == SubSeq(text, at, token.end)
           rest == Meant(token.end + 1)
       IN CASE token.rule = 1 -> rest
            [] token.rule \in {2, 3} -> [rest EXCEPT !.lines = @ + 1]
            [] token.rule = 33 -> [rest EXCEPT !.echo = matched \o @]
            [] OTHER -> [rest EXCEPT !.tokens = <<Token(token.rule, matched)>> \o @]

\* However the text arrives, the tokens are those of the rules.
ScannedRight ==
  yy_act = END =>
    LET meant == Meant(1) IN tokens = meant.tokens /\ lineno = 1 + meant.lines /\ echo = meant.echo
=============================================================================
