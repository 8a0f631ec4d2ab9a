------------------------------ MODULE FlexTables ------------------------------
(***************************************************************************)
(* Characters, and the tables of the generated scanners.                   *)
(***************************************************************************)
EXTENDS Integers, SequencesExt

NUL == "NUL"

\* A table from place 0 on.
From0(table) == [i \in 0 .. Len(table) - 1 |-> table[i + 1]]

Characters(s) == [i \in 1 .. Len(s) |-> SubSeq(s, i, i)]
SetOf(s) == {SubSeq(s, i, i) : i \in 1 .. Len(s)}

\* yy_ec: characters that the rules do not tell apart.  The first class holds
\* all that no other one does, @ among them.
Classes(groups) ==
  LET In(k) == SetOf(groups[k])
      all == UNION {In(k) : k \in DOMAIN groups}
  IN [c \in all \cup {"@", NUL} |->
       CASE c = NUL -> 0 [] c = "@" -> 1 [] OTHER -> CHOOSE k \in DOMAIN groups : c \in In(k)]

Letter == SetOf("abcdefghijklmnopqrstuvwxyzABCDEFGHIJKLMNOPQRSTUVWXYZ")
Digit == SetOf("0123456789")
=============================================================================
