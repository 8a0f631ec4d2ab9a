------------------------------ MODULE YasScanner ------------------------------
(***************************************************************************)
(* The scanner of the assembler, lab6/sim/misc/yas-grammar.c, as flex made  *)
(* it of yas-grammar.lex.  The rule for a whole line saves it and rejects   *)
(* the match, and the next best rule is taken; therefore the states on the  *)
(* way are kept, and a buffer that a token fills cannot be enlarged.  The   *)
(* main program of yas.c calls the scanner twice, with the file from its    *)
(* beginning again.                                                        *)
(***************************************************************************)
EXTENDS FlexBuffer, YasTables

VARIABLES
  pass,
  yy_start, yy_at_bol,                    \* the start condition, at the beginning of a line
  yy_state_buf, yy_current_state, yy_cp,  \* the states on the way, for REJECT
  yy_lp, yy_full_match,
  calls                                   \* the calls to yas.c: [pass, rule, text]

rejectVars == <<yy_state_buf, yy_current_state, yy_cp, yy_lp, yy_full_match>>
yasScannerVars == <<bufferVars, pass, yy_start, yy_at_bol, rejectVars, calls>>

-----------------------------------------------------------------------------
RECURSIVE NextState(_, _)
NextState(state, class) ==
  IF yy_chk[yy_base[state] + class] = state THEN yy_nxt[yy_base[state] + class]
  ELSE NextState(yy_def[state], IF yy_def[state] > JAM THEN yy_meta[class] ELSE class)

YY_AT_BOL == IF yy_at_bol THEN 1 ELSE 0
Beginning == <<yy_start + YY_AT_BOL>>

\* yy_match: the states until no transition is left, and the place behind them.
RECURSIVE Match(_, _, _)
Match(buffer, cp, states) ==
  LET next == NextState(Last(states), yy_ec[buffer[cp + 1]])
  IN IF yy_base[next] # JAM_BASE THEN Match(buffer, cp + 1, Append(states, next))
     ELSE [states |-> Append(states, next), cp |-> cp + 1]

\* The states from the beginning of a token to a place that was reached before.
yy_get_previous_state(buffer, from, to) ==
  FoldLeft(LAMBDA states, c : Append(states, NextState(Last(states), IF c = NUL THEN 1 ELSE yy_ec[c])),
           Beginning, SubSeq(buffer, from + 1, to))

\* yy_try_NUL_trans: the NUL is one of the text.
AfterNul(buffer, cp, states) ==
  LET next == NextState(Last(states), 1)
  IN IF next # JAM THEN Match(buffer, cp + 1, Append(states, next)) ELSE [states |-> states, cp |-> cp]

\* find_rule: the rules of the last state in their order, then those of the
\* state before it.
RECURSIVE FindRule(_, _, _, _)
FindRule(cp, state, states, lp) ==
  IF lp # 0 /\ lp < yy_accept[state + 1]
  THEN [cp |-> cp, state |-> state, states |-> states, lp |-> lp]
  ELSE FindRule(cp - 1, Last(states), Front(states), yy_accept[Last(states)])

Found(buffer, yy_bp, found) ==
  /\ YY_DO_BEFORE_ACTION(buffer, yy_bp, found.cp)
  /\ yy_act' = yy_acclist[found.lp]
  /\ yy_state_buf' = found.states /\ yy_current_state' = found.state
  /\ yy_cp' = found.cp /\ yy_full_match' = found.cp
  /\ yy_lp' = found.lp

FindAction(buffer, yy_bp, way) ==
  Found(buffer, yy_bp, FindRule(way.cp, Last(way.states), Front(way.states), yy_accept[Last(way.states)]))

yylex ==
  /\ yy_act = NEXT_TOKEN
  /\ FindAction(Restored, yy_c_buf_p, Match(Restored, yy_c_buf_p, Beginning))
  /\ UNCHANGED <<inputVars, yy_buf_size, yy_n_chars, yy_buffer_status, pass, yy_start, yy_at_bol, calls>>

ReallyNul ==
  /\ AtNul(YY_END_OF_BUFFER)
  /\ LET cp == yytext_ptr + yy_amount_of_matched_text
     IN FindAction(Restored, yytext_ptr, AfterNul(Restored, cp, yy_get_previous_state(Restored, yytext_ptr, cp)))
  /\ UNCHANGED <<inputVars, yy_buf_size, yy_n_chars, yy_buffer_status, pass, yy_start, yy_at_bol, calls>>

\* yy_get_next_buffer
Room == yy_buf_size - number_to_move - 1
ReadMore ==
  /\ AtEnd(YY_END_OF_BUFFER) /\ yy_buffer_status # "EOF_PENDING" /\ Room > 0
  /\ \E n \in YY_INPUT(Room) :
       /\ ContinueScan(n, yy_buf_size)
       /\ FindAction(NextBuffer(n), 0, Match(NextBuffer(n), number_to_move,
                                             yy_get_previous_state(NextBuffer(n), 0, number_to_move)))
  /\ UNCHANGED <<pass, yy_start, yy_at_bol, calls>>

\* "input buffer overflow, can't enlarge buffer because scanner uses REJECT"
BufferOverflow ==
  /\ AtEnd(YY_END_OF_BUFFER) /\ yy_buffer_status # "EOF_PENDING" /\ Room <= 0
  /\ yy_act' = OVERFLOW
  /\ UNCHANGED <<inputVars, tokenVars, yy_buf_size, yy_n_chars, yy_buffer_status>>
  /\ UNCHANGED <<pass, yy_start, yy_at_bol, rejectVars, calls>>

NoMore == yy_buffer_status = "EOF_PENDING" \/ (Room > 0 /\ 0 \in YY_INPUT(Room))

MatchAtEnd ==
  /\ AtEnd(YY_END_OF_BUFFER) /\ NoMore
  /\ LastMatch
  /\ FindAction(NextBuffer(0), 0, [states |-> yy_get_previous_state(NextBuffer(0), 0, number_to_move),
                                   cp |-> number_to_move])
  /\ UNCHANGED <<pass, yy_start, yy_at_bol, calls>>

yyterminate ==
  /\ AtEnd(YY_END_OF_BUFFER) /\ NoMore
  /\ EndOfFile
  /\ yy_at_bol' = TRUE
  /\ UNCHANGED <<pass, yy_start, rejectVars, calls>>

\* Without an error main reads the file again; the start condition stays.
SecondPass ==
  /\ yy_act = END /\ pass = 1
  /\ \A i \in DOMAIN calls : calls[i].rule # 15
  /\ pass' = 2
  /\ fetched' = 0
  /\ yy_act' = NEXT_TOKEN
  /\ UNCHANGED <<text, short, tokenVars, yy_buf_size, yy_n_chars, yy_buffer_status>>
  /\ UNCHANGED <<yy_start, yy_at_bol, rejectVars, calls>>

YY_RULE_SETUP ==
  yy_at_bol' = IF yytext = <<>> THEN yy_at_bol ELSE Last(yytext) = "\n"

\* The call of a rule; blanks and dollars make none, nor does a character that
\* starts an invalid line.
Call(rule) ==
  calls' = IF rule \in {6, 7, 14} THEN calls ELSE Append(calls, [pass |-> pass, rule |-> rule, text |-> yytext])

\* A mutant: the line is saved, and the place goes back by one character.
SaveLineShort ==
  /\ yy_act = 1
  /\ Call(1) /\ YY_RULE_SETUP
  /\ Found(Restored, yytext_ptr, FindRule(yy_full_match - 1, Last(yy_state_buf), Front(yy_state_buf), yy_accept[Last(yy_state_buf)]))
  /\ UNCHANGED <<inputVars, yy_buf_size, yy_n_chars, yy_buffer_status, pass, yy_start>>

\* save_line and REJECT: the next rule for the same text, then shorter ones.
SaveLine ==
  /\ yy_act = 1
  /\ Call(1) /\ YY_RULE_SETUP
  /\ Found(Restored, yytext_ptr, FindRule(yy_full_match, yy_current_state, yy_state_buf, yy_lp + 1))
  /\ UNCHANGED <<inputVars, yy_buf_size, yy_n_chars, yy_buffer_status, pass, yy_start>>

Rule ==
  /\ yy_act \in 2 .. 16
  /\ Call(yy_act) /\ YY_RULE_SETUP
  /\ yy_start' = CASE yy_act = 14 -> ERR [] yy_act = 15 -> INITIAL [] OTHER -> yy_start
  /\ yy_act' = NEXT_TOKEN
  /\ UNCHANGED <<inputVars, tokenVars, yy_buf_size, yy_n_chars, yy_buffer_status, pass, rejectVars>>

ScannerInit ==
  /\ BufferInit
  /\ pass = 1
  /\ yy_start = INITIAL /\ yy_at_bol = TRUE
  /\ yy_state_buf = <<>> /\ yy_current_state = 0 /\ yy_cp = 0 /\ yy_lp = 0 /\ yy_full_match = 0
  /\ calls = <<>>

ScannerNext ==
  yylex \/ ReallyNul \/ ReadMore \/ BufferOverflow \/ MatchAtEnd \/ yyterminate \/ SecondPass \/ SaveLine \/ Rule
-----------------------------------------------------------------------------
(***************************************************************************)
(* What yas-grammar.lex says: the longest match, the first rule with it, and *)
(* the next one after the rule for a whole line.                            *)
(***************************************************************************)
\* The matches at a place, the longest first and among those the first rule.
Better(d, e) == d.end > e.end \/ (d.end = e.end /\ d.rule <= e.rule)
Best(matches) == CHOOSE m \in matches : \A d \in matches : Better(m, d)

\* The rule for a line is followed by the best of the remaining matches.
RECURSIVE Taken(_)
Taken(matches) ==
  LET best == Best(matches) IN IF best.rule = 1 THEN <<best>> \o Taken(matches \ {best}) ELSE <<best>>

RECURSIVE Meant(_, _)
Meant(at, condition) ==
  IF at > Len(text) THEN <<>>
  ELSE LET bol == at = 1 \/ text[at - 1] = "\n"
           matches == {m \in [end : at .. Len(text), rule : 1 .. 16] :
                         Matches(condition, bol, m.rule, SubSeq(text, at, m.end))}
           taken == Taken(matches)
           visible == SelectSeq(taken, LAMBDA m : m.rule \notin {6, 7, 14})
       IN [i \in DOMAIN visible |-> [rule |-> visible[i].rule, text |-> SubSeq(text, at, visible[i].end)]]
          \o Meant(Last(taken).end + 1,
                   CASE Last(taken).rule = 14 -> ERR [] Last(taken).rule = 15 -> INITIAL [] OTHER -> condition)

CallsOf(p) ==
  LET those == SelectSeq(calls, LAMBDA call : call.pass = p)
  IN [i \in DOMAIN those |-> [rule |-> those[i].rule, text |-> those[i].text]]

\* However the text arrives, both passes make the calls of the rules for a file
\* that ends with a newline, and the first one for every file.
BothPassesRight ==
  yy_act = END =>
    /\ CallsOf(1) = Meant(1, INITIAL)
    /\ pass = 2 /\ text # <<>> /\ Last(text) = "\n" => CallsOf(2) = CallsOf(1)

\* A file is given up only for a line that does not fit the buffer.
OnlyLongLines ==
  yy_act = OVERFLOW =>
    \E k \in 0 .. Len(text) - YY_BUF_SIZE + 1 : \A j \in k + 1 .. k + YY_BUF_SIZE - 2 : text[j] # "\n"
=============================================================================
