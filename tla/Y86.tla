-------------------------------- MODULE Y86 --------------------------------
(***************************************************************************)
(* What the machines of the architecture laboratory share: words, the      *)
(* register file, the arithmetic unit and the condition codes (isa.c), and  *)
(* the decoding tables the HCL descriptions are written with.              *)
(*                                                                         *)
(* A word is an integer from -Half to Half - 1 and takes WordSize addresses. *)
(* Every instruction is one unit long.  Instructions and data are kept      *)
(* apart: a program that rewrites itself is not modelled (the pipeline has  *)
(* no interlock for it).                                                    *)
(***************************************************************************)
EXTENDS Integers

CONSTANTS
  Half,       \* half the number of words, 2^31 in the code
  WordSize,   \* 4 in the code
  Reg,        \* the program registers; "none" is no register
  Addr,       \* the addresses of the data memory
  And, Xor    \* the operators & and ^ of C on words

Word == -Half .. Half - 1

ASSUME HalfAssumption == Half \in Nat \ {0}
ASSUME WordSizeAssumption == WordSize \in Nat \ {0}
ASSUME RegAssumption == "esp" \in Reg /\ "none" \notin Reg
ASSUME BitwiseAssumption == And \in [Word \X Word -> Word] /\ Xor \in [Word \X Word -> Word]
ASSUME CommutativeAssumption ==
  \A x, y \in Word : And[<<x, y>>] = And[<<y, x>>] /\ Xor[<<x, y>>] = Xor[<<y, x>>]

\* Arithmetic of the machine wraps around.
ToWord(x) == ((x + Half) % (2 * Half)) - Half

compute_alu(op, argA, argB) ==
  CASE op = "ADD" -> ToWord(argA + argB)
    [] op = "SUB" -> ToWord(argB - argA)
    [] op = "AND" -> And[<<argA, argB>>]
    [] op = "XOR" -> Xor[<<argA, argB>>]

\* isa.c asks whether argA is positive where the overflow of a difference
\* asks whether it is negative.
compute_cc(op, argA, argB) ==
  LET val == compute_alu(op, argA, argB)
  IN [zf |-> val = 0,
      sf |-> val < 0,
      of |-> \/ /\ op = "ADD"
                /\ (argA < 0) = (argB < 0)
                /\ (val < 0) # (argA < 0)
             \/ /\ op = "SUB"
                /\ (argA > 0) = (argB < 0)
                /\ (val < 0) # (argB < 0)]

DEFAULT_CC == [zf |-> TRUE, sf |-> FALSE, of |-> FALSE]

cond_holds(cc, cond) ==
  LET less == cc.sf # cc.of
  IN \/ cond = "YES"
     \/ cond = "LE" /\ (less \/ cc.zf)
     \/ cond = "L"  /\ less
     \/ cond = "E"  /\ cc.zf
     \/ cond = "NE" /\ ~cc.zf
     \/ cond = "GE" /\ ~less
     \/ cond = "G"  /\ ~less /\ ~cc.zf

get_reg_val(r, id) == IF id \in Reg THEN r[id] ELSE 0
set_reg_val(r, id, val) == [i \in Reg |-> IF i = id THEN val ELSE r[i]]

\* A write to a bad address does nothing.
set_word_val(m, pos, val) == [a \in Addr |-> IF a = pos THEN val ELSE m[a]]

\* The two writes of a cycle; the M port is last, so popl %esp pops.
WriteBack(r, dstE, valE, dstM, valM) ==
  set_reg_val(set_reg_val(r, dstE, valE), dstM, valM)

CC == [zf : BOOLEAN, sf : BOOLEAN, of : BOOLEAN]
Stats == {"BUB", "AOK", "HLT", "ADR", "INS", "PIP"}
Opcodes ==
  {"IHALT", "INOP", "IRRMOVL", "IIRMOVL", "IRMMOVL", "IMRMOVL", "IOPL",
   "IJXX", "ICALL", "IRET", "IPUSHL", "IPOPL", "IIADDL", "ILEAVE"}
=============================================================================
