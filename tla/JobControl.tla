----------------------------- MODULE JobControl -----------------------------
(***************************************************************************)
(* What job control promises, without table, signals or handlers: the life *)
(* of a job as the comment at the head of lab9/tsh.c draws it (FG, BG, ST, *)
(* at most one job in FG), with the stop of a background job and the end   *)
(* of any job added, which sigchld_handler also performs.  A job ends only *)
(* after its process has died.                                             *)
(***************************************************************************)
CONSTANT Pids

VARIABLES
  job,        \* the state of the job of each process
  dead        \* processes that have terminated

jcVars == <<job, dead>>

Known == {"FG", "BG", "ST"}

JCInit ==
  /\ job = [p \in Pids |-> "none"]
  /\ dead = {}

NoOtherForeground(p) == \A q \in Pids \ {p} : job[q] # "FG"

Become(p, st) == job' = [job EXCEPT ![p] = st] /\ UNCHANGED dead

\* A command line starts a job; its process may be dead already.
Start(p, st) ==
  /\ job[p] = "none"
  /\ st = "FG" => NoOtherForeground(p)
  /\ Become(p, st)

Stop(p) == job[p] \in {"FG", "BG"} /\ Become(p, "ST")

FgCommand(p) == job[p] \in {"BG", "ST"} /\ NoOtherForeground(p) /\ Become(p, "FG")

BgCommand(p) == job[p] = "ST" /\ Become(p, "BG")

Die(p) == p \notin dead /\ dead' = dead \cup {p} /\ UNCHANGED job

End(p) == p \in dead /\ job[p] \in Known /\ Become(p, "gone")

\* Each step changes something: one that does not is a stutter.
JCNext ==
  jcVars' # jcVars /\ \E p \in Pids :
     \/ Start(p, "FG") \/ Start(p, "BG")
     \/ Stop(p) \/ FgCommand(p) \/ BgCommand(p)
     \/ Die(p) \/ End(p)

JCSpec == JCInit /\ [][JCNext]_jcVars

\* At most 1 job can be in the FG state (tsh.c:36).
AtMostOneFG ==
  \A p, q \in Pids : job[p] = "FG" /\ job[q] = "FG" => p = q

=============================================================================
