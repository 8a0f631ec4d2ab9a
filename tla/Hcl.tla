--------------------------------- MODULE Hcl ---------------------------------
(***************************************************************************)
(* The compiler from HCL to C, lab6/sim/misc/node.c and hcl.y: a file        *)
(* declares signals and defines control functions; every definition becomes *)
(* a C function.  Expressions are trees; what the parser builds them from   *)
(* and how the C text is laid out is left out.  The ways to fail are not    *)
(* told apart: errors at the end, too many of them, a null pointer in the   *)
(* text that is generated or shown in an error message.                     *)
(*                                                                         *)
(* The nodes of a list are linked by a field of the nodes themselves, and   *)
(* so are the clauses of a case: one that is a member of a set is not       *)
(* separated from the members behind it.                                   *)
(***************************************************************************)
EXTENDS Integers, SequencesExt, HclTree

CONSTANTS
  Files,      \* sequences of statements
  SYM_LIM,    \* the places in the symbol table
  ERRLIM      \* errors after which the compiler gives up

VARIABLES file, at, sym_tab, errcnt, functions, exit
vars == <<file, at, sym_tab, errcnt, functions, exit>>

\* The first declaration of a name counts.
find_symbol(name) == SelectInSeq(sym_tab, LAMBDA sym : sym.name = name)

isbool(e) == e.type \in {"not", "and", "or", "comp", "ele"}
Null(e) == e.type = "case" /\ e.list = <<>>

\* A mutant: any number is Boolean.
CheckNoNumbers(arg, wantbool) ==
  CASE arg.type = "var" -> (IF find_symbol(arg.sval) = 0 THEN 2
                            ELSE IF sym_tab[find_symbol(arg.sval)].isbool = wantbool THEN 0 ELSE 1)
    [] arg.type = "num" -> 0
    [] OTHER -> IF wantbool = isbool(arg) /\ ~Null(arg) THEN 0 ELSE 1

\* The errors reported: a name that is not declared is reported twice.
check_arg(arg, wantbool) ==
  CASE arg.type = "var" -> (IF find_symbol(arg.sval) = 0 THEN 2
                            ELSE IF sym_tab[find_symbol(arg.sval)].isbool = wantbool THEN 0 ELSE 1)
    [] arg.type = "num" -> IF wantbool /\ arg.sval \notin {0, 1} THEN 1 ELSE 0
    [] OTHER -> IF wantbool = isbool(arg) /\ ~Null(arg) THEN 0 ELSE 1

Total(counts) == FoldLeft(LAMBDA x, y : x + y, 0, counts)

\* The errors reported while the tree is built.  The members of a set are not
\* looked at: the loop that should visit them starts at the element, which is
\* thus checked twice; a case there is followed along its clauses, all integers.
RECURSIVE Made(_)
Made(e) ==
  CASE e.type \in {"var", "num"} -> 0
    [] e.type = "not" -> Made(e.arg1) + check_arg(e.arg1, TRUE)
    [] e.type \in {"and", "or"} ->
         Made(e.arg1) + Made(e.arg2) + check_arg(e.arg1, TRUE) + check_arg(e.arg2, TRUE)
    [] e.type = "comp" ->
         Made(e.arg1) + Made(e.arg2) + check_arg(e.arg1, FALSE) + check_arg(e.arg2, FALSE)
    [] e.type = "ele" ->
         Made(e.arg1) + Total([i \in DOMAIN e.arg2 |-> Made(e.arg2[i])])
         + (IF Null(e.arg1) THEN 1 ELSE 2) * check_arg(e.arg1, FALSE)
    [] e.type = "case" ->
         Total([i \in DOMAIN e.list |->
           Made(e.list[i].arg1) + Made(e.list[i].arg2)
           + check_arg(e.list[i].arg1, TRUE) + check_arg(e.list[i].arg2, FALSE)])
-----------------------------------------------------------------------------
(* Generated C: a tree of its own.  errors are those reported on the way,   *)
(* crash says that a node was needed where there is none.                   *)

Ok(code) == [errors |-> 0, crash |-> FALSE, code |-> code]
Crash == [errors |-> 0, crash |-> TRUE, code |-> <<>>]

\* One piece of text behind the other.
Joined(Code(_, _), r, s) ==
  IF r.crash \/ s.crash THEN Crash
  ELSE [errors |-> r.errors + s.errors, crash |-> FALSE, code |-> Code(r.code, s.code)]

Operation(op) == [and |-> "&", or |-> "|"][op]

\* The members of a set as they are linked.
Linked(set) == FlattenSeq([i \in DOMAIN set |-> IF set[i].type = "case" THEN set[i].list ELSE <<set[i]>>])

Default(clause) == clause.arg1.type = "num" /\ clause.arg1.sval = 1

RECURSIVE gen_expr(_), gen_clauses(_), gen_members(_, _)
gen_expr(e) ==
  CASE e.type = "var" ->
         LET found == find_symbol(e.sval)
         IN IF found = 0 THEN [Ok(<<>>) EXCEPT !.errors = 2]
            ELSE Ok([c |-> "read", what |-> sym_tab[found].qstring])
    [] e.type = "num" -> Ok([c |-> "num", value |-> e.sval])
    [] e.type = "not" -> Joined(LAMBDA x, y : [c |-> "!", left |-> x], gen_expr(e.arg1), Ok(<<>>))
    [] e.type \in {"and", "or"} ->
         Joined(LAMBDA x, y : [c |-> Operation(e.type), left |-> x, right |-> y],
                gen_expr(e.arg1), gen_expr(e.arg2))
    [] e.type = "comp" ->
         Joined(LAMBDA x, y : [c |-> e.sval, left |-> x, right |-> y], gen_expr(e.arg1), gen_expr(e.arg2))
    [] e.type = "ele" -> gen_members(e.arg1, Linked(e.arg2))
    [] e.type = "case" -> IF Null(e) THEN Crash ELSE gen_clauses(e.list)

\* Conditions are nested to the right and end at a condition 1.  A name or a
\* number in the list, which a set may leave there, has no condition.
gen_clauses(list) ==
  CASE list = <<>> -> Ok([c |-> "num", value |-> 0])
    [] list # <<>> /\ Head(list).type # "clause" -> Crash
    [] list # <<>> /\ Head(list).type = "clause" /\ Default(Head(list)) -> gen_expr(Head(list).arg2)
    [] OTHER ->
         Joined(LAMBDA cond, values : [c |-> "?", left |-> cond, right |-> values[1], other |-> values[2]],
                gen_expr(Head(list).arg1),
                Joined(LAMBDA x, y : <<x, y>>, gen_expr(Head(list).arg2), gen_clauses(Tail(list))))

\* The element is generated again for each member.
gen_members(e, list) ==
  IF list = <<>> THEN Ok([c |-> "none"])
  ELSE Joined(LAMBDA x, y : [c |-> "||", left |-> x, right |-> y],
              Joined(LAMBDA x, y : [c |-> "==", left |-> x, right |-> y],
                     gen_expr(e),
                     IF Head(list).type = "clause" THEN gen_clauses(list) ELSE gen_expr(Head(list))),
              gen_members(e, Tail(list)))
-----------------------------------------------------------------------------
Reading == exit = "run" /\ at <= Len(file)
stmt == file[at]

\* yyerror, n times
Report(n) ==
  /\ errcnt' = IF errcnt + n > ERRLIM THEN ERRLIM + 1 ELSE errcnt + n
  /\ exit' = IF errcnt + n > ERRLIM THEN "failed" ELSE "run"

add_arg ==
  /\ Reading
  /\ stmt.kind = "arg"
  /\ IF Len(sym_tab) < SYM_LIM
     THEN sym_tab' = Append(sym_tab, [name |-> stmt.var, qstring |-> stmt.qstring, isbool |-> stmt.isbool])
          /\ UNCHANGED <<errcnt, exit>>
     ELSE Report(1) /\ UNCHANGED sym_tab
  /\ at' = at + 1
  /\ UNCHANGED <<file, functions>>

\* An empty case is no node at all.
NullFunct ==
  /\ Reading
  /\ stmt.kind = "function"
  /\ Null(stmt.expr)
  /\ Report(1)
  /\ at' = at + 1
  /\ UNCHANGED <<file, sym_tab, functions>>

\* Code is generated whether or not the expression was found correct.
gen_funct ==
  /\ Reading
  /\ stmt.kind = "function"
  /\ ~Null(stmt.expr)
  /\ LET text == gen_expr(stmt.expr)
         errors == Made(stmt.expr) + check_arg(stmt.expr, stmt.isbool) + text.errors
     IN IF text.crash
        THEN exit' = "failed" /\ UNCHANGED <<errcnt, functions>>
        ELSE /\ Report(errors)
             /\ functions' = Append(functions, [at |-> at, code |-> text.code])
  /\ at' = at + 1
  /\ UNCHANGED <<file, sym_tab>>

Finish ==
  /\ exit = "run"
  /\ at = Len(file) + 1
  /\ exit' = IF errcnt # 0 THEN "failed" ELSE "ok"
  /\ UNCHANGED <<file, at, sym_tab, errcnt, functions>>

Init ==
  /\ file \in Files
  /\ at = 1
  /\ sym_tab = <<>>
  /\ errcnt = 0
  /\ functions = <<>>
  /\ exit = "run"

Next == add_arg \/ NullFunct \/ gen_funct \/ Finish
-----------------------------------------------------------------------------
(***************************************************************************)
(* What the C code computes, and what the HCL text means.                  *)
(***************************************************************************)
Compare(op, x, y) ==
  CASE op = "==" -> x = y
    [] op = "!=" -> x # y
    [] op = "<" -> x < y
    [] op = "<=" -> x <= y
    [] op = ">" -> x > y
    [] op = ">=" -> x >= y

RECURSIVE Run(_, _)
Run(code, env) ==
  LET Int01(b) == IF b THEN 1 ELSE 0
      L == Run(code.left, env)
      R == Run(code.right, env)
  IN CASE code.c = "read" -> env[code.what]
       [] code.c = "num" -> code.value
       [] code.c = "none" -> 0
       [] code.c = "!" -> Int01(L = 0)
       [] code.c = "&" -> Int01(L = 1 /\ R = 1)   \* both are 0 or 1
       [] code.c = "|" -> Int01(L = 1 \/ R = 1)
       [] code.c = "||" -> Int01(L # 0 \/ R # 0)
       [] code.c = "?" -> IF L # 0 THEN R ELSE Run(code.other, env)
       [] OTHER -> Int01(Compare(code.c, L, R))

Declared(f, k) == {f[j].var : j \in {i \in 1 .. k - 1 : f[i].kind = "arg"}}
Declaration(f, name) ==
  LET all == {i \in DOMAIN f : f[i].kind = "arg" /\ f[i].var = name}
  IN f[CHOOSE i \in all : \A j \in all : i <= j]

\* The expression e of statement k has the type that is asked for.
RECURSIVE Fits(_, _, _, _)
Fits(f, k, e, bool) ==
  CASE e.type = "var" -> e.sval \in Declared(f, k) /\ Declaration(f, e.sval).isbool = bool
    [] e.type = "num" -> bool => e.sval \in {0, 1}
    [] e.type = "not" -> bool /\ Fits(f, k, e.arg1, TRUE)
    [] e.type \in {"and", "or"} -> bool /\ Fits(f, k, e.arg1, TRUE) /\ Fits(f, k, e.arg2, TRUE)
    [] e.type = "comp" -> bool /\ Fits(f, k, e.arg1, FALSE) /\ Fits(f, k, e.arg2, FALSE)
    [] e.type = "ele" ->
         bool /\ Fits(f, k, e.arg1, FALSE) /\ \A i \in DOMAIN e.arg2 : Fits(f, k, e.arg2[i], FALSE)
    [] e.type = "case" ->
         /\ ~bool
         /\ e.list # <<>>
         /\ \A i \in DOMAIN e.list : Fits(f, k, e.list[i].arg1, TRUE) /\ Fits(f, k, e.list[i].arg2, FALSE)

\* A Boolean means 0 or 1; a case means its first clause that holds.
RECURSIVE Meaning(_, _, _)
Meaning(f, e, env) ==
  LET Int01(b) == IF b THEN 1 ELSE 0
      M(d) == Meaning(f, d, env)
  IN CASE e.type = "var" -> env[Declaration(f, e.sval).qstring]
       [] e.type = "num" -> e.sval
       [] e.type = "not" -> 1 - M(e.arg1)
       [] e.type = "and" -> M(e.arg1) * M(e.arg2)
       [] e.type = "or" -> Int01(M(e.arg1) + M(e.arg2) > 0)
       [] e.type = "comp" -> Int01(Compare(e.sval, M(e.arg1), M(e.arg2)))
       [] e.type = "ele" -> Int01(\E i \in DOMAIN e.arg2 : M(e.arg1) = M(e.arg2[i]))
       [] e.type = "case" ->
            LET holds == {i \in DOMAIN e.list : M(e.list[i].arg1) = 1}
            IN IF holds = {} THEN 0 ELSE M(e.list[CHOOSE i \in holds : \A j \in holds : i <= j].arg2)

\* All sets of the file have names and numbers as members, that are integers.
RECURSIVE Plain(_, _, _)
Plain(f, k, e) ==
  CASE e.type \in {"var", "num"} -> TRUE
    [] e.type = "not" -> Plain(f, k, e.arg1)
    [] e.type \in {"and", "or", "comp"} -> Plain(f, k, e.arg1) /\ Plain(f, k, e.arg2)
    [] e.type = "ele" ->
         /\ Plain(f, k, e.arg1)
         /\ \A i \in DOMAIN e.arg2 :
              e.arg2[i].type = "num" \/ (e.arg2[i].type = "var" /\ Fits(f, k, e.arg2[i], FALSE))
    [] e.type = "case" -> \A i \in DOMAIN e.list : Plain(f, k, e.list[i].arg1) /\ Plain(f, k, e.list[i].arg2)

Functions(f) == {i \in DOMAIN f : f[i].kind = "function"}
PlainSets(f) == \A k \in Functions(f) : Plain(f, k, f[k].expr)
WellTyped(f) ==
  /\ Cardinality(DOMAIN f \ Functions(f)) <= SYM_LIM
  /\ \A k \in Functions(f) : Fits(f, k, f[k].expr, f[k].isbool)

Faithful(env) ==
  \A i \in DOMAIN functions : Run(functions[i].code, env) = Meaning(file, file[functions[i].at].expr, env)
=============================================================================
