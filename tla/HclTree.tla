------------------------------- MODULE HclTree -------------------------------
(***************************************************************************)
(* The expressions of HCL as the parser builds them (node.c make_var to     *)
(* make_case).                                                              *)
(***************************************************************************)
Var(s) == [type |-> "var", sval |-> s]
Num(n) == [type |-> "num", sval |-> n]
Not(e) == [type |-> "not", arg1 |-> e]
And(d, e) == [type |-> "and", arg1 |-> d, arg2 |-> e]
Or(d, e) == [type |-> "or", arg1 |-> d, arg2 |-> e]
Comp(op, d, e) == [type |-> "comp", sval |-> op, arg1 |-> d, arg2 |-> e]
Ele(e, set) == [type |-> "ele", arg1 |-> e, arg2 |-> set]
Clause(c, e) == [type |-> "clause", arg1 |-> c, arg2 |-> e]
Case(clauses) == [type |-> "case", list |-> clauses]
=============================================================================
