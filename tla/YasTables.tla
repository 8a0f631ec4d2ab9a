------------------------------ MODULE YasTables ------------------------------
(***************************************************************************)
(* The tables of the scanner of the assembler (lab6/sim/misc/yas-grammar.c) *)
(* and the rules of yas-grammar.lex.                                        *)
(***************************************************************************)
EXTENDS FlexTables

YY_END_OF_BUFFER == 17
JAM == 256       \* the state without transitions, at JAM_BASE of the tables
JAM_BASE == 658

INITIAL == 1
ERR == 3

yy_ec == Classes(<<
  "", " \t", "\n", "\r", "#", "$", "%", "(),:", "*", "-", ".", "/", "0", "123456789", "ABCDEFf",
  "GHIJKLMNOPQRSTUVWYZkqz", "X", "_", "a", "b", "c", "d", "e", "g", "h", "i", "j", "l", "m", "n", "o",
  "p", "r", "s", "t", "u", "v", "w", "x", "y">>)

yy_acclist == From0(<<
  0,17,14,16,6,14,16,5,16,5,16,14,16,7,14,16,14,16,12,14,16,14,16,14,16,14,16,10,14,16,10,14,16,
  13,14,16,13,14,16,13,14,16,13,14,16,13,14,16,13,14,16,13,14,16,13,14,16,13,14,16,13,14,16,13,
  14,16,13,14,16,13,14,16,14,16,6,14,16,1,5,16,1,5,16,14,16,7,14,16,14,16,12,14,16,14,16,14,16,
  14,16,10,14,16,10,14,16,13,14,16,13,14,16,13,14,16,13,14,16,13,14,16,13,14,16,13,14,16,13,14,
  16,13,14,16,13,14,16,13,14,16,13,14,16,13,14,16,16,15,16,16,6,5,5,2,2,7,10,13,13,13,13,13,13,
  13,13,8,13,8,13,8,13,13,13,13,13,13,13,13,13,13,13,13,13,1,1,6,1,5,1,5,1,2,1,2,7,10,13,13,13,
  13,13,13,13,13,8,13,8,13,8,13,13,13,13,13,13,13,13,13,13,13,13,13,15,4,4,3,3,11,13,13,13,13,
  13,13,13,13,13,13,13,13,13,13,13,1,4,1,4,1,3,1,3,11,13,13,13,13,13,13,13,13,13,13,13,13,13,13,
  13,9,8,13,13,13,13,13,13,13,13,9,8,13,13,13,13,13,13,13,13,8,13,8,13,13,13,13,13,13,8,13,8,13,
  13,13,13,13,13>>)

yy_accept == From0(<<
  0,1,1,1,1,1,1,1,2,4,7,9,11,13,16,18,21,23,25,27,30,33,36,39,42,45,48,51,54,57,60,63,66,69,72,
  74,77,80,83,85,88,90,93,95,97,99,102,105,108,111,114,117,120,123,126,129,132,135,138,141,144,
  145,147,148,149,150,151,151,152,153,154,154,155,155,155,155,155,155,155,155,155,156,157,158,
  159,160,161,162,163,165,167,169,170,171,172,173,174,175,176,177,178,179,180,181,181,182,183,
  184,186,188,188,190,192,193,193,194,194,194,194,194,194,194,194,194,195,196,197,198,199,200,
  201,202,204,206,208,209,210,211,212,213,214,215,216,217,218,219,220,220,221,221,221,221,221,
  221,221,221,221,221,221,221,222,223,223,224,225,226,227,228,229,230,231,232,233,234,235,236,
  237,238,239,240,241,241,241,241,241,241,241,241,241,241,241,241,243,245,245,247,249,250,251,
  252,253,254,255,256,257,258,259,260,261,262,263,264,265,266,266,266,266,267,267,268,269,270,
  271,272,273,274,275,276,276,276,276,277,277,278,279,280,281,282,283,284,285,285,287,289,290,
  291,292,293,294,294,296,298,299,300,301,302,303,303>>)

yy_meta == From0(<<
  0,1,1,1,1,1,1,1,1,1,1,1,1,2,2,2,3,3,3,2,2,2,2,2,3,3,3,3,3,3,3,3,3,3,3,3,3,3,3,3,3>>)

yy_base == From0(<<
  0,0,40,78,80,0,0,657,658,83,658,85,87,650,632,658,79,75,87,84,91,0,78,83,635,87,86,630,619,
  620,86,95,614,618,122,127,658,129,131,133,137,139,141,158,144,154,160,196,208,150,162,202,217,
  129,116,203,206,221,153,226,162,658,658,256,658,184,191,658,219,642,242,213,619,606,614,613,
  612,249,262,0,0,620,619,612,608,610,615,607,0,612,611,601,609,612,601,597,596,593,591,596,559,
  566,552,264,658,266,269,658,271,274,658,276,278,282,284,286,288,290,292,296,302,304,326,89,
  287,288,303,289,304,313,322,320,331,333,335,336,349,340,342,351,354,355,364,367,378,369,309,
  658,545,283,544,298,95,547,534,530,521,519,400,658,402,406,658,408,0,521,503,502,468,458,457,
  446,420,423,422,422,414,412,413,379,410,412,414,416,420,422,424,426,428,430,418,658,432,434,
  658,436,0,436,439,443,438,448,365,450,452,454,464,465,466,469,476,479,658,377,369,358,658,358,
  487,350,338,337,301,308,246,218,499,509,515,517,519,521,504,486,507,517,520,523,524,526,219,
  208,206,168,157,154,148,142,532,536,542,545,548,549,552,559,658,589,592,595,597,600,603,606,
  609,612,615,148,618,621>>)

yy_def == From0(<<
  0,256,256,257,257,258,258,256,256,256,256,256,259,256,256,256,256,256,256,256,256,260,260,260,
  260,260,260,260,260,260,260,260,260,260,261,261,256,256,262,261,261,261,261,261,261,261,261,
  263,263,48,48,48,48,48,48,48,48,48,48,48,264,256,256,256,256,256,259,256,256,256,256,256,256,
  256,256,256,256,265,266,267,260,260,260,260,260,260,260,260,260,260,260,260,260,260,260,260,
  260,260,260,260,260,260,260,261,256,256,261,256,256,262,256,256,261,261,261,261,261,261,261,
  261,268,269,261,48,48,48,48,48,48,48,48,48,48,48,48,48,48,48,48,48,48,48,48,48,48,48,264,256,
  256,256,256,256,256,256,256,256,256,256,265,256,256,266,256,256,267,260,260,260,260,260,260,
  260,260,260,260,260,260,260,260,260,261,261,261,261,261,261,261,261,261,261,268,256,256,269,
  256,256,122,48,48,48,48,48,48,48,48,48,48,48,48,48,48,48,256,256,256,256,256,256,260,260,260,
  260,260,260,260,260,261,261,261,261,261,261,48,48,48,48,48,48,48,48,256,260,260,260,260,260,
  260,260,261,48,48,48,48,48,48,48,0,256,256,256,256,256,256,256,256,256,256,256,256,256>>)

yy_nxt == From0(<<
  0,8,9,10,11,12,13,14,15,8,16,17,18,19,20,21,21,21,8,22,21,23,21,21,21,24,25,26,27,28,29,21,30,
  31,32,21,21,21,21,33,21,34,35,36,37,38,39,40,41,34,42,43,44,45,46,47,47,47,34,48,47,49,47,47,
  47,50,51,52,53,54,55,47,56,57,58,47,47,47,47,59,47,61,61,61,61,63,64,65,64,65,67,68,71,71,72,
  73,77,71,71,78,81,79,83,74,71,71,86,75,82,88,89,123,84,76,90,91,92,96,98,123,87,212,97,79,99,
  104,105,212,100,106,107,108,107,108,110,111,104,105,123,112,104,105,104,105,104,105,123,104,
  105,137,164,123,136,120,114,114,121,104,105,123,113,104,105,104,105,147,147,114,114,126,88,
  122,123,114,114,123,88,115,116,127,123,128,88,123,123,88,117,64,65,144,118,88,123,122,67,68,
  119,103,103,104,105,103,103,103,103,103,103,103,103,103,103,104,105,103,103,103,103,103,103,
  103,103,129,67,68,123,123,71,71,123,88,124,88,123,123,138,130,123,139,125,123,131,132,140,123,
  141,133,134,135,123,216,142,123,159,160,143,247,123,145,63,64,65,148,149,150,151,162,163,104,
  105,104,105,106,107,108,107,108,152,110,111,110,111,104,105,246,112,104,105,104,105,104,105,
  104,105,104,105,104,105,114,114,104,105,180,181,182,183,191,192,194,195,197,198,123,147,147,
  185,212,184,123,123,123,200,187,212,188,212,123,123,189,186,104,105,199,201,123,123,202,88,
  212,245,196,196,196,123,123,123,196,196,196,196,196,123,203,123,123,131,123,131,123,123,131,
  88,123,123,123,123,123,123,131,204,205,123,123,123,123,131,244,123,123,88,123,216,123,216,206,
  123,123,123,233,207,123,131,123,216,208,123,123,209,123,210,123,123,240,211,159,160,159,160,
  88,123,162,163,162,163,104,105,104,105,104,105,104,105,191,192,104,105,104,105,104,105,104,
  105,104,105,104,105,191,192,194,195,194,195,88,226,225,226,224,226,223,227,226,88,226,226,226,
  222,226,229,221,123,228,123,123,230,231,131,123,123,131,123,123,123,131,123,123,123,232,123,
  220,123,219,123,234,123,131,123,236,123,123,123,235,237,123,131,88,123,123,123,238,123,123,
  239,123,104,105,131,218,123,131,123,123,88,241,104,105,131,242,123,243,104,105,104,105,104,
  105,104,105,123,131,249,123,88,88,250,248,251,104,105,123,230,123,131,230,123,230,252,123,123,
  123,123,88,123,131,217,123,123,216,123,253,123,131,215,254,230,255,123,131,123,123,131,214,
  123,123,123,213,123,123,131,131,123,123,131,123,123,212,212,179,178,131,177,123,60,60,60,62,
  62,62,66,66,66,80,80,103,103,103,109,109,109,123,123,123,146,146,146,158,158,158,161,161,161,
  190,190,190,193,193,193,176,88,175,174,88,173,172,88,88,88,88,171,170,169,168,167,166,165,157,
  156,155,154,153,69,102,101,95,94,93,85,70,69,256,7,256,256,256,256,256,256,256,256,256,256,
  256,256,256,256,256,256,256,256,256,256,256,256,256,256,256,256,256,256,256,256,256,256,256,
  256,256,256,256,256,256,256>>)

yy_chk == From0(<<
  0,1,1,1,1,1,1,1,1,1,1,1,1,1,1,1,1,1,1,1,1,1,1,1,1,1,1,1,1,1,1,1,1,1,1,1,1,1,1,1,1,2,2,2,2,2,2,
  2,2,2,2,2,2,2,2,2,2,2,2,2,2,2,2,2,2,2,2,2,2,2,2,2,2,2,2,2,2,2,2,2,2,3,3,4,4,9,9,9,11,11,12,12,
  16,16,17,17,18,19,19,18,22,19,23,17,20,20,25,17,22,26,26,123,23,17,26,26,26,30,31,123,25,152,
  30,19,31,34,34,152,31,35,35,35,37,37,38,38,39,39,54,39,40,40,41,41,42,42,54,44,44,54,267,53,
  53,44,42,42,44,45,45,53,40,43,43,46,46,60,60,45,45,49,247,45,49,46,46,58,246,43,43,49,49,50,
  245,58,50,244,43,65,65,58,43,243,50,45,66,66,43,47,47,47,47,47,47,47,47,47,47,47,47,48,48,48,
  48,48,48,48,48,48,48,48,48,51,68,68,51,55,71,71,56,242,48,241,51,55,55,51,56,56,48,52,52,52,
  56,57,57,52,52,52,59,240,57,57,77,77,57,225,59,59,63,63,63,70,70,70,70,78,78,103,103,105,105,
  106,106,106,108,108,70,109,109,111,111,112,112,224,112,113,113,114,114,115,115,116,116,117,
  117,118,118,114,114,119,119,113,113,113,113,120,120,121,121,124,125,127,146,146,115,149,113,
  124,125,127,127,117,149,118,151,126,128,119,116,122,122,126,128,126,128,129,223,151,222,122,
  122,122,131,129,130,122,122,122,122,122,131,130,130,132,132,133,133,134,135,135,221,132,137,
  133,138,134,135,134,136,137,137,136,138,139,138,220,140,141,219,136,217,139,215,139,140,141,
  142,202,140,143,141,145,214,142,142,202,143,143,144,145,144,213,145,158,158,160,160,179,144,
  161,161,163,163,180,180,181,181,182,182,183,183,190,190,184,184,185,185,186,186,187,187,188,
  188,189,189,192,192,193,193,195,195,178,183,177,181,176,184,175,185,180,174,181,184,182,173,
  183,187,172,197,186,200,198,188,189,197,199,197,198,200,198,201,199,203,199,204,200,205,171,
  201,170,203,203,204,201,205,205,206,207,208,204,207,209,206,169,206,207,208,208,210,209,209,
  211,226,226,210,168,210,211,233,211,218,218,227,227,233,218,233,218,228,228,229,229,230,230,
  231,231,232,232,232,234,167,166,232,227,232,248,248,234,228,235,235,229,236,231,234,237,238,
  235,239,165,236,237,157,237,238,156,239,236,249,249,155,238,248,239,250,250,249,251,251,154,
  252,253,250,153,254,251,252,253,252,253,254,255,254,150,148,102,101,255,100,255,257,257,257,
  258,258,258,259,259,259,260,260,261,261,261,262,262,262,263,263,263,264,264,264,265,265,265,
  266,266,266,268,268,268,269,269,269,99,98,97,96,95,94,93,92,91,90,89,87,86,85,84,83,82,81,76,
  75,74,73,72,69,33,32,29,28,27,24,14,13,7,256,256,256,256,256,256,256,256,256,256,256,256,256,
  256,256,256,256,256,256,256,256,256,256,256,256,256,256,256,256,256,256,256,256,256,256,256,
  256,256,256,256,256>>)
-----------------------------------------------------------------------------
(* The texts that each rule of yas-grammar.lex matches; ^ asks for the       *)
(* beginning of a line.                                                     *)

Hex == Digit \cup SetOf("abcdefABCDEF")
Instr == {Characters(word) : word \in {
  "rrmovl", "cmovle", "cmovl", "cmove", "cmovne", "cmovge", "cmovg", "rmmovl", "mrmovl", "irmovl", "addl", "subl",
  "andl", "xorl", "jmp", "jle", "jl", "je", "jne", "jge", "jg", "call", "ret", "pushl", "popl", ".byte", ".word",
  ".long", ".pos", ".align", "halt", "nop", "iaddl", "leave"}}
Reg == {Characters(word) : word \in {"%eax", "%ecx", "%edx", "%ebx", "%esi", "%edi", "%esp", "%ebp"}}

\* {Char}*{Return}*{Newline}, from a place on.
Line(s, from) ==
  LET n == Len(s)
      stop == CHOOSE k \in from .. n : s[k] \in {"\n", "\r"} /\ \A j \in from .. k - 1 : s[j] \notin {"\n", "\r"}
  IN /\ n >= from /\ s[n] \in {"\n", "\r"}
     /\ \A k \in stop .. n - 1 : s[k] = "\r"

Matches(condition, bol, rule, s) ==
  LET n == Len(s)
      All(from, to, set) == n >= from /\ \A i \in from .. to : s[i] \in set
  IN /\ (condition = ERR) = (rule = 15) \/ rule = 16
     /\ CASE rule = 1 -> bol /\ Line(s, 1)
          [] rule = 2 -> s[1] = "#" /\ Line(s, 2)
          [] rule \in {3, 4} -> n > 2 /\ s[1] = "/" /\ s[2] = (IF rule = 3 THEN "/" ELSE "*") /\ Line(s, 3)
          [] rule = 5 -> Line(s, 1) /\ \A i \in 1 .. n : s[i] \in {" ", "\t", "\r", "\n"}
          [] rule = 6 -> All(1, n, {" ", "\t"})
          [] rule = 7 -> All(1, n, {"$"})
          [] rule = 8 -> s \in Instr
          [] rule = 9 -> s \in Reg
          [] rule = 10 -> All(1, n, Digit) \/ (s[1] = "-" /\ All(2, n, Digit))
          [] rule = 11 -> n > 2 /\ s[1] = "0" /\ s[2] \in {"x", "X"} /\ All(3, n, Hex)
          [] rule = 12 -> n = 1 /\ s[1] \in {"(", ")", ":", ","}
          [] rule = 13 -> s[1] \in Letter /\ All(1, n, Letter \cup Digit \cup {"_"})
          [] rule = 14 -> n = 1 /\ s[1] \notin {"\n", "\r"}
          [] rule = 15 -> s[n] \in {"\n", "\r"} /\ \A i \in 1 .. n - 1 : s[i] \notin {"\n", "\r"}
          [] rule = 16 -> n = 1
=============================================================================
