------------------------------ MODULE FlexBuffer ------------------------------
(***************************************************************************)
(* The input buffer of a scanner that flex made (lab6/sim/misc/lex.yy.c,    *)
(* yas-grammar.c).  YY_INPUT hands over the text in pieces of any size: a   *)
(* terminal gives a line at a time, and fread less than it could when a     *)
(* signal interrupts it.  A token that meets the end of the buffer is moved *)
(* to its beginning and completed.  Two NUL characters mark the end; the    *)
(* text may hold NULs of its own.  The buffer is a sequence, the pointers   *)
(* into it are offsets; what lies behind the marks is never looked at.      *)
(***************************************************************************)
EXTENDS FlexTables

CONSTANTS
  Texts,             \* what the file may be, as sequences of characters
  YY_BUF_SIZE, YY_READ_BUF_SIZE,
  MaxShort           \* bound on the reads that return less than they could

VARIABLES
  text, fetched,     \* the file and how many characters YY_INPUT has handed over
  short,
  yy_ch_buf, yy_buf_size, yy_n_chars, yy_buffer_status,
  yytext_ptr, yy_c_buf_p,  \* the current token and what follows it
  yy_hold_char,      \* the character that the NUL behind the token replaces
  yy_act             \* what to do: the number of a rule, or one of the values below

\* Beside the numbers of the rules yy_act says how far yylex is.
NEXT_TOKEN == 0
END == -1
OVERFLOW == -2

inputVars == <<text, fetched, short>>
tokenVars == <<yy_ch_buf, yytext_ptr, yy_c_buf_p, yy_hold_char>>
bufferVars == <<inputVars, tokenVars, yy_buf_size, yy_n_chars, yy_buffer_status, yy_act>>

Smaller(a, b) == IF a < b THEN a ELSE b

yytext == SubSeq(yy_ch_buf, yytext_ptr + 1, yy_c_buf_p)

\* The buffer before the NUL was put behind the token.
Restored == [yy_ch_buf EXCEPT ![yy_c_buf_p + 1] = yy_hold_char]

YY_DO_BEFORE_ACTION(buffer, yy_bp, yy_cp) ==
  /\ yytext_ptr' = yy_bp
  /\ yy_hold_char' = buffer[yy_cp + 1]
  /\ yy_ch_buf' = [buffer EXCEPT ![yy_cp + 1] = NUL]
  /\ yy_c_buf_p' = yy_cp

yyrestart ==
  /\ yy_ch_buf' = <<NUL, NUL>>
  /\ yytext_ptr' = 0 /\ yy_c_buf_p' = 0 /\ yy_hold_char' = NUL
  /\ yy_n_chars' = 0
  /\ yy_buffer_status' = "NEW"

\* The numbers of characters YY_INPUT may hand over into so much room.
YY_INPUT(room) ==
  LET most == Smaller(Smaller(room, YY_READ_BUF_SIZE), Len(text) - fetched)
  IN IF short < MaxShort THEN Smaller(1, most) .. most ELSE {most}

Fetch(n, room) ==
  /\ fetched' = fetched + n
  /\ short' = IF n < Smaller(Smaller(room, YY_READ_BUF_SIZE), Len(text) - fetched) THEN short + 1 ELSE short
  /\ UNCHANGED text

\* A NUL was met: inside the text, or the mark at its end.
yy_amount_of_matched_text == yy_c_buf_p - yytext_ptr - 1
AtNul(end_of_buffer) == yy_act = end_of_buffer /\ yy_c_buf_p <= yy_n_chars
AtEnd(end_of_buffer) == yy_act = end_of_buffer /\ yy_c_buf_p > yy_n_chars

\* yy_get_next_buffer: the token so far, n more characters, the marks.
number_to_move == yy_amount_of_matched_text
NextBuffer(n) ==
  SubSeq(Restored, yytext_ptr + 1, yytext_ptr + number_to_move)
  \o SubSeq(text, fetched + 1, fetched + n) \o <<NUL, NUL>>

\* With n characters read into a buffer of that size, scanning can go on.
ContinueScan(n, size) ==
  /\ n > 0
  /\ Fetch(n, size - number_to_move - 1)
  /\ yy_buf_size' = size
  /\ yy_n_chars' = number_to_move + n
  /\ yy_buffer_status' = "NORMAL"

\* No more characters, or none were asked for: the token ends here.
LastMatch ==
  /\ number_to_move > 0
  /\ yy_n_chars' = number_to_move
  /\ yy_buffer_status' = "EOF_PENDING"
  /\ UNCHANGED <<inputVars, yy_buf_size>>

EndOfFile ==
  /\ number_to_move = 0
  /\ yyrestart
  /\ yy_act' = END
  /\ UNCHANGED <<inputVars, yy_buf_size>>

BufferInit ==
  /\ text \in Texts
  /\ fetched = 0 /\ short = 0
  /\ yy_ch_buf = <<NUL, NUL>> /\ yy_buf_size = YY_BUF_SIZE
  /\ yytext_ptr = 0 /\ yy_c_buf_p = 0 /\ yy_hold_char = NUL
  /\ yy_n_chars = 0
  /\ yy_buffer_status = "NEW"
  /\ yy_act = NEXT_TOKEN
=============================================================================
