------------------------------- MODULE AsmText -------------------------------
(***************************************************************************)
(* Assembly source as both assemblers of the repository read it: a line is *)
(* a sequence of tokens with blanks between them.                          *)
(***************************************************************************)
EXTENDS Integers, SequencesExt

\* Letters, digits, a register, a delimiter, the end of the line.
Word(s) == [kind |-> "word", text |-> s, value |-> 0]
Num(s, v) == [kind |-> "num", text |-> s, value |-> v]
Reg(r) == [kind |-> "reg", text |-> r, value |-> 0]
Mark(c) == [kind |-> "mark", text |-> c, value |-> 0]
End == Mark("")

\* The bytes of a piece of code: which byte of which operation it is.
Bytes(piece) == piece.addr .. piece.addr + piece.bytes - 1
Byte(piece, a) == [op |-> piece.op, regs |-> piece.regs, val |-> piece.val, byte |-> a - piece.addr]

\* A piece is written over what the file has at its address.
Write(file, piece) ==
  [a \in DOMAIN file \cup Bytes(piece) |-> IF a \in Bytes(piece) THEN Byte(piece, a) ELSE file[a]]
=============================================================================
