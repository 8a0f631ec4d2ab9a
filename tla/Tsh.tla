-------------------------------- MODULE Tsh --------------------------------
(***************************************************************************)
(* The job-control shell lab9/tsh.c: one thread of control that three      *)
(* signal handlers interrupt, and the children it forks.                   *)
(*                                                                         *)
(* An action is the code between two points where a handler can usefully   *)
(* run.  main runs only when no handler does; a handler is interrupted by  *)
(* any signal but its own (sigaction with an empty sa_mask), so "stack"    *)
(* holds the active handlers, innermost first.  Signals do not queue:      *)
(* "pending" is a set.  The kernel side (fork, wait, kill, stop, continue) *)
(* is modelled as far as the shell can see it; each job is one process in  *)
(* a group of its own, with default dispositions once it has called exec.  *)
(***************************************************************************)
EXTENDS JobTable, Sequences

CONSTANTS
  MaxPid,             \* children the shell may fork, with pids 1..MaxPid
  UserKeys,           \* the keys typed: "INT" is ctrl-c, "TSTP" is ctrl-z
  ExtSignals          \* what others send to a child: "STOP", "KILL", "CONT"

ASSUME TshAssumption ==
  /\ MaxPid \in Nat \ {0}
  /\ UserKeys \subseteq {"INT", "TSTP"}
  /\ ExtSignals \subseteq {"STOP", "KILL", "CONT"}

VARIABLES
  jobs, nextjid,      \* the job table
  proc,               \* what the kernel knows of each child
  unseen,             \* stopped children whose stop waitpid has not returned
  latched,            \* stopped children with a SIGINT pending
  pending,            \* signals pending for the shell
  blocked,            \* eval has SIGCHLD in the signal mask
  stack,              \* active handlers, the running one first
  victim,             \* pid read by sigint_handler and sigtstp_handler
  status,             \* pid and status returned by the handler's waitpid
  pc,                 \* where main is
  cur,                \* pid in eval and waitfg
  bg,                 \* the command ends with &
  slot,               \* the job pointer of do_bgfg
  shell               \* whether the shell runs, and how it ended

tableVars  == <<jobs, nextjid>>
kernelVars == <<proc, unseen, latched>>
mainVars   == <<pc, cur, bg, slot>>
sigVars    == <<pending, blocked, stack, victim, status>>
vars       == <<tableVars, kernelVars, mainVars, sigVars, shell>>

Pids == 1..MaxPid
Keys == {"INT", "TSTP"}
Signals == Keys \cup {"CHLD"}
Unread == -1                       \* the handler has not called fgpid yet
NoStatus == [pid |-> 0, how |-> "none"]

ProcStates == {"free", "forked", "grouped", "running", "stopped",
               "exited", "killed", "reaped"}
Zombies == {"exited", "killed"}
\* States in which process group pid exists, so that kill(-pid) succeeds.
HasGroup == {"grouped", "running", "stopped"} \cup Zombies
MainLocs == {"prompt", "forked", "added", "announce", "waitfg",
             "bg", "bgset", "bgcont", "fg", "fgcont", "fgset"}
Fates == {"alive", "quit", "forkerror", "killerror", "segv"}

TypeOK ==
  /\ jobs \in [Slots -> [pid : Pids \cup {0}, jid : Nat, state : JobStates]]
  /\ nextjid \in Nat \ {0}
  /\ proc \in [Pids -> ProcStates]
  /\ unseen \subseteq Pids
  /\ latched \subseteq Pids
  /\ pending \subseteq Signals
  /\ blocked \in BOOLEAN
  /\ stack \in Seq(Signals)
  /\ victim \in [Keys -> Pids \cup {Unread}]
  /\ status \in [pid : Pids \cup {0}, how : {"none", "exited", "killed", "stopped"}]
  /\ pc \in MainLocs
  /\ cur \in Pids \cup {0}
  /\ bg \in BOOLEAN
  /\ slot \in Slots \cup {NoSlot}
  /\ shell \in Fates

Init ==
  /\ jobs = initjobs
  /\ nextjid = 1
  /\ proc = [p \in Pids |-> "free"]
  /\ unseen = {}
  /\ latched = {}
  /\ pending = {}
  /\ blocked = FALSE
  /\ stack = <<>>
  /\ victim = [s \in Keys |-> Unread]
  /\ status = NoStatus
  /\ pc = "prompt"
  /\ cur = 0
  /\ bg = FALSE
  /\ slot = NoSlot
  /\ shell = "alive"

MainRuns(l) == shell = "alive" /\ stack = <<>> /\ pc = l

HandlerRuns(s) == shell = "alive" /\ stack # <<>> /\ Head(stack) = s

Active(s) == \E i \in 1..Len(stack) : stack[i] = s

-----------------------------------------------------------------------------
(* main and eval *)

\* Mutant of EvalFork: without the sigprocmask before fork.
EvalForkUnblocked(p, b) ==
  /\ MainRuns("prompt")
  /\ proc[p] = "free" /\ \A q \in Pids : q < p => proc[q] # "free"
  /\ proc' = [proc EXCEPT ![p] = "forked"]
  /\ cur' = p /\ bg' = b /\ pc' = "forked"
  /\ UNCHANGED <<tableVars, unseen, latched, sigVars, slot, shell>>

\* eval blocks SIGCHLD and forks; the handlers cannot tell the two apart.
EvalFork(p, b) ==
  /\ MainRuns("prompt")
  /\ proc[p] = "free" /\ \A q \in Pids : q < p => proc[q] # "free"
  /\ proc' = [proc EXCEPT ![p] = "forked"]
  /\ blocked' = TRUE
  /\ cur' = p /\ bg' = b /\ pc' = "forked"
  /\ UNCHANGED <<tableVars, unseen, latched, pending, stack, victim, status,
                 slot, shell>>

\* fork returns -1: unix_error ends the shell.
EvalForkFails ==
  /\ MainRuns("prompt")
  /\ blocked' = TRUE
  /\ shell' = "forkerror"
  /\ UNCHANGED <<tableVars, kernelVars, mainVars, pending, stack, victim, status>>

EvalAddjob ==
  /\ MainRuns("forked")
  /\ jobs' = addjob(jobs, nextjid, cur, IF bg THEN "BG" ELSE "FG")
  /\ nextjid' = addjobNextjid(jobs, nextjid, cur)
  /\ pc' = "added"
  /\ UNCHANGED <<kernelVars, sigVars, cur, bg, slot, shell>>

\* Mutant of EvalUnblock: SIGCHLD stays blocked.
EvalKeepsBlocked ==
  /\ MainRuns("added")
  /\ pc' = IF bg THEN "announce" ELSE "waitfg"
  /\ UNCHANGED <<tableVars, kernelVars, sigVars, cur, bg, slot, shell>>

EvalUnblock ==
  /\ MainRuns("added")
  /\ blocked' = FALSE
  /\ pc' = IF bg THEN "announce" ELSE "waitfg"
  /\ UNCHANGED <<tableVars, kernelVars, pending, stack, victim, status,
                 cur, bg, slot, shell>>

ToPrompt == pc' = "prompt" /\ cur' = 0 /\ bg' = FALSE /\ slot' = NoSlot

\* eval prints "[jid] (pid) cmdline" for a background job.
EvalAnnounce ==
  /\ MainRuns("announce")
  /\ ToPrompt
  /\ UNCHANGED <<tableVars, kernelVars, sigVars, shell>>

\* Mutant of WaitfgReturn: one iteration, whatever the job does.
WaitfgGivesUp ==
  /\ MainRuns("waitfg")
  /\ ToPrompt
  /\ UNCHANGED <<tableVars, kernelVars, sigVars, shell>>

\* waitfg polls; the iterations that find the job in the foreground change
\* nothing, this is the one that leaves the loop.
WaitfgReturn ==
  /\ MainRuns("waitfg")
  /\ LET i == getjobpid(jobs, cur)
     IN  i # NoSlot => jobs[i].state # "FG"
  /\ ToPrompt
  /\ UNCHANGED <<tableVars, kernelVars, sigVars, shell>>

\* The quit command, or end of file at the prompt.
Quit ==
  /\ MainRuns("prompt")
  /\ shell' = "quit"
  /\ UNCHANGED <<tableVars, kernelVars, mainVars, sigVars>>

\* sigquit_handler: the driver ends the shell, wherever it is.
Terminate ==
  /\ shell = "alive"
  /\ shell' = "quit"
  /\ UNCHANGED <<tableVars, kernelVars, mainVars, sigVars>>

-----------------------------------------------------------------------------
(* do_bgfg, with SIGCHLD unblocked throughout *)

\* The lookup by pid or by %jid; with no match the command only complains.
BgfgLookup(c, i) ==
  /\ MainRuns("prompt")
  /\ i # NoSlot
  /\ \/ \E p \in Pids : i = getjobpid(jobs, p)
     \/ i = getjobjid(jobs, jobs[i].jid)
  /\ slot' = i
  /\ pc' = c
  /\ UNCHANGED <<tableVars, kernelVars, sigVars, cur, bg, shell>>

\* A stopped child continues: an unread stop report is gone, a latched
\* SIGINT now kills it, and the parent gets a SIGCHLD either way.
Continue(p) ==
  IF p \in Pids /\ proc[p] = "stopped"
    THEN /\ proc' = [proc EXCEPT ![p] = IF p \in latched THEN "killed" ELSE "running"]
         /\ unseen' = unseen \ {p}
         /\ latched' = latched \ {p}
         /\ pending' = pending \cup {"CHLD"}
    ELSE UNCHANGED <<kernelVars, pending>>

\* Mutant of BgCheck: kill before the assignment of the state.
BgCheckContinues ==
  /\ MainRuns("bg")
  /\ IF jobs[slot].state = "ST"
       THEN Continue(jobs[slot].pid) /\ pc' = "bgset" /\ UNCHANGED <<cur, bg, slot>>
       ELSE ToPrompt /\ UNCHANGED <<kernelVars, pending>>
  /\ UNCHANGED <<tableVars, blocked, stack, victim, status, shell>>

BgCheck ==
  /\ MainRuns("bg")
  /\ IF jobs[slot].state = "ST"
       THEN pc' = "bgset" /\ UNCHANGED <<cur, bg, slot>>
       ELSE ToPrompt
  /\ UNCHANGED <<tableVars, kernelVars, sigVars, shell>>

BgSet ==
  /\ MainRuns("bgset")
  /\ jobs' = [jobs EXCEPT ![slot].state = "BG"]
  /\ pc' = "bgcont"
  /\ UNCHANGED <<nextjid, kernelVars, sigVars, cur, bg, slot, shell>>

\* kill(-(job->pid), SIGCONT), whose result is ignored.  With pid 0 it goes
\* to the shell's own group, where it changes nothing.
BgCont ==
  /\ MainRuns("bgcont")
  /\ Continue(jobs[slot].pid)
  /\ ToPrompt
  /\ UNCHANGED <<tableVars, blocked, stack, victim, status, shell>>

FgCheck ==
  /\ MainRuns("fg")
  /\ pc' = IF jobs[slot].state = "ST" THEN "fgcont" ELSE "fgset"
  /\ UNCHANGED <<tableVars, kernelVars, sigVars, cur, bg, slot, shell>>

FgCont ==
  /\ MainRuns("fgcont")
  /\ Continue(jobs[slot].pid)
  /\ pc' = "fgset"
  /\ UNCHANGED <<tableVars, blocked, stack, victim, status, cur, bg, slot, shell>>

FgSet ==
  /\ MainRuns("fgset")
  /\ jobs' = [jobs EXCEPT ![slot].state = "FG"]
  /\ cur' = jobs[slot].pid
  /\ pc' = "waitfg"
  /\ UNCHANGED <<nextjid, kernelVars, sigVars, bg, slot, shell>>

-----------------------------------------------------------------------------
(* Signals and handlers *)

\* The kernel runs the handler of a pending signal that is not masked.
Deliver(s) ==
  /\ shell = "alive"
  /\ s \in pending /\ ~Active(s)
  /\ s = "CHLD" => ~blocked
  /\ pending' = pending \ {s}
  /\ stack' = <<s>> \o stack
  /\ UNCHANGED <<tableVars, kernelVars, mainVars, blocked, victim, status, shell>>

\* sigint_handler, sigtstp_handler: no foreground job, nothing to do.
KeyIgnored(s) ==
  /\ HandlerRuns(s) /\ victim[s] = Unread
  /\ fgpid(jobs) = 0
  /\ stack' = Tail(stack)
  /\ UNCHANGED <<tableVars, kernelVars, mainVars, pending, blocked, victim,
                 status, shell>>

KeyReadFg(s) ==
  /\ HandlerRuns(s) /\ victim[s] = Unread
  /\ fgpid(jobs) # 0
  /\ victim' = [victim EXCEPT ![s] = fgpid(jobs)]
  /\ UNCHANGED <<tableVars, kernelVars, mainVars, pending, blocked, stack,
                 status, shell>>

\* What kill(-p, s) does to a child.  Between setpgid and exec the child
\* still has the shell's handlers, which find no foreground job in its copy
\* of the table; a stopped child keeps SIGINT until it is continued.
Signalled(s, p) ==
  \/ /\ s = "INT" /\ proc[p] = "running"
     /\ proc' = [proc EXCEPT ![p] = "killed"]
     /\ pending' = pending \cup {"CHLD"}
     /\ UNCHANGED <<unseen, latched>>
  \/ /\ s = "TSTP" /\ proc[p] = "running"
     /\ proc' = [proc EXCEPT ![p] = "stopped"]
     /\ unseen' = unseen \cup {p}
     /\ pending' = pending \cup {"CHLD"}
     /\ UNCHANGED latched
  \/ /\ s = "INT" /\ proc[p] = "stopped"
     /\ latched' = latched \cup {p}
     /\ UNCHANGED <<proc, unseen, pending>>
  \/ /\ proc[p] \notin {"running", "stopped"} \/ (s = "TSTP" /\ proc[p] = "stopped")
     /\ UNCHANGED <<kernelVars, pending>>

KeyForward(s) ==
  /\ HandlerRuns(s) /\ victim[s] # Unread
  /\ proc[victim[s]] \in HasGroup
  /\ Signalled(s, victim[s])
  /\ victim' = [victim EXCEPT ![s] = Unread]
  /\ stack' = Tail(stack)
  /\ UNCHANGED <<tableVars, mainVars, blocked, status, shell>>

\* kill fails with ESRCH, the group does not exist yet or no longer:
\* unix_error ends the shell.
KeyForwardFails(s) ==
  /\ HandlerRuns(s) /\ victim[s] # Unread
  /\ proc[victim[s]] \notin HasGroup
  /\ shell' = "killerror"
  /\ UNCHANGED <<tableVars, kernelVars, mainVars, sigVars>>

\* sigchld_handler: waitpid(-1, &status, WNOHANG | WUNTRACED) returns a child.
ChldWait(p) ==
  /\ HandlerRuns("CHLD") /\ status = NoStatus
  /\ \/ /\ proc[p] \in Zombies
        /\ status' = [pid |-> p, how |-> proc[p]]
        /\ proc' = [proc EXCEPT ![p] = "reaped"]
        /\ UNCHANGED unseen
     \/ /\ proc[p] = "stopped" /\ p \in unseen
        /\ status' = [pid |-> p, how |-> "stopped"]
        /\ unseen' = unseen \ {p}
        /\ UNCHANGED proc
  /\ UNCHANGED <<tableVars, latched, mainVars, pending, blocked, stack, victim, shell>>

\* waitpid has nothing to return: the loop and the handler end.
ChldDone ==
  /\ HandlerRuns("CHLD") /\ status = NoStatus
  /\ \A p \in Pids : proc[p] \notin Zombies /\ p \notin unseen
  /\ stack' = Tail(stack)
  /\ UNCHANGED <<tableVars, kernelVars, mainVars, pending, blocked, victim,
                 status, shell>>

\* Mutant of ChldUpdate: a stopped child is deleted like a dead one.
ChldDeletesStopped ==
  /\ HandlerRuns("CHLD") /\ status # NoStatus
  /\ status.how = "exited" \/ getjobpid(jobs, status.pid) # NoSlot
  /\ jobs' = deletejob(jobs, status.pid)
  /\ nextjid' = deletejobNextjid(jobs, nextjid, status.pid)
  /\ status' = NoStatus
  /\ UNCHANGED <<kernelVars, mainVars, pending, blocked, stack, victim, shell>>

\* Mutant of ChldUpdate: "if" for "while", one child for each SIGCHLD.
ChldUpdateOnce ==
  /\ HandlerRuns("CHLD") /\ status # NoStatus
  /\ LET i == getjobpid(jobs, status.pid) IN
     \/ /\ status.how = "exited" \/ (status.how = "killed" /\ i # NoSlot)
        /\ jobs' = deletejob(jobs, status.pid)
        /\ nextjid' = deletejobNextjid(jobs, nextjid, status.pid)
     \/ /\ status.how = "stopped" /\ i # NoSlot
        /\ jobs' = [jobs EXCEPT ![i].state = "ST"]
        /\ UNCHANGED nextjid
  /\ status' = NoStatus
  /\ stack' = Tail(stack)
  /\ UNCHANGED <<kernelVars, mainVars, pending, blocked, victim, shell>>

\* The table entry follows the status: deletejob, or state ST.
ChldUpdate ==
  /\ HandlerRuns("CHLD") /\ status # NoStatus
  /\ LET i == getjobpid(jobs, status.pid) IN
     \/ /\ status.how = "exited" \/ (status.how = "killed" /\ i # NoSlot)
        /\ jobs' = deletejob(jobs, status.pid)
        /\ nextjid' = deletejobNextjid(jobs, nextjid, status.pid)
     \/ /\ status.how = "stopped" /\ i # NoSlot
        /\ jobs' = [jobs EXCEPT ![i].state = "ST"]
        /\ UNCHANGED nextjid
  /\ status' = NoStatus
  /\ UNCHANGED <<kernelVars, mainVars, pending, blocked, stack, victim, shell>>

\* The handler uses job->jid of a job that the table does not hold.
ChldNullJob ==
  /\ HandlerRuns("CHLD")
  /\ status.how \in {"killed", "stopped"} /\ getjobpid(jobs, status.pid) = NoSlot
  /\ shell' = "segv"
  /\ UNCHANGED <<tableVars, kernelVars, mainVars, sigVars>>

-----------------------------------------------------------------------------
(* The user, the children and other processes *)

TypeKey(s) ==
  /\ shell = "alive"
  /\ pending' = pending \cup {s}
  /\ UNCHANGED <<tableVars, kernelVars, mainVars, blocked, stack, victim,
                 status, shell>>

ChildSetpgid(p) ==
  /\ shell = "alive" /\ proc[p] = "forked"
  /\ proc' = [proc EXCEPT ![p] = "grouped"]
  /\ UNCHANGED <<tableVars, unseen, latched, mainVars, sigVars, shell>>

ChildExec(p) ==
  /\ shell = "alive" /\ proc[p] = "grouped"
  /\ proc' = [proc EXCEPT ![p] = "running"]
  /\ UNCHANGED <<tableVars, unseen, latched, mainVars, sigVars, shell>>

\* The program ends, or execve fails and the child calls exit(0).
ChildExit(p) ==
  /\ shell = "alive" /\ proc[p] \in {"grouped", "running"}
  /\ proc' = [proc EXCEPT ![p] = "exited"]
  /\ pending' = pending \cup {"CHLD"}
  /\ UNCHANGED <<tableVars, unseen, latched, mainVars, blocked, stack, victim,
                 status, shell>>

\* The child stops itself, or somebody stops it.
ExternalStop(p) ==
  /\ shell = "alive" /\ "STOP" \in ExtSignals /\ proc[p] = "running"
  /\ proc' = [proc EXCEPT ![p] = "stopped"]
  /\ unseen' = unseen \cup {p}
  /\ pending' = pending \cup {"CHLD"}
  /\ UNCHANGED <<tableVars, latched, mainVars, blocked, stack, victim, status, shell>>

ExternalKill(p) ==
  /\ shell = "alive" /\ "KILL" \in ExtSignals
  /\ proc[p] \in {"forked", "grouped", "running", "stopped"}
  /\ proc' = [proc EXCEPT ![p] = "killed"]
  /\ unseen' = unseen \ {p}
  /\ latched' = latched \ {p}
  /\ pending' = pending \cup {"CHLD"}
  /\ UNCHANGED <<tableVars, mainVars, blocked, stack, victim, status, shell>>

ExternalCont(p) ==
  /\ shell = "alive" /\ "CONT" \in ExtSignals /\ proc[p] = "stopped"
  /\ Continue(p)
  /\ UNCHANGED <<tableVars, mainVars, blocked, stack, victim, status, shell>>

\* exit closes the session that is modelled.
Stopped == shell # "alive" /\ UNCHANGED vars

-----------------------------------------------------------------------------

MainNext ==
  \/ \E p \in Pids, b \in BOOLEAN : EvalFork(p, b)
  \/ EvalForkFails \/ EvalAddjob \/ EvalUnblock \/ EvalAnnounce
  \/ WaitfgReturn \/ Quit
  \/ \E c \in {"bg", "fg"}, i \in Slots : BgfgLookup(c, i)
  \/ BgCheck \/ BgSet \/ BgCont \/ FgCheck \/ FgCont \/ FgSet

HandlerNext ==
  \/ Terminate
  \/ \E s \in Signals : Deliver(s)
  \/ \E s \in Keys : KeyIgnored(s) \/ KeyReadFg(s) \/ KeyForward(s) \/ KeyForwardFails(s)
  \/ \E p \in Pids : ChldWait(p)
  \/ ChldDone \/ ChldUpdate \/ ChldNullJob

EnvNext ==
  \/ \E s \in UserKeys : TypeKey(s)
  \/ \E p \in Pids : \/ ChildSetpgid(p) \/ ChildExec(p) \/ ChildExit(p)
                     \/ ExternalStop(p) \/ ExternalKill(p) \/ ExternalCont(p)

Next == MainNext \/ HandlerNext \/ EnvNext \/ Stopped

Spec == Init /\ [][Next]_vars

\* What the shell itself does next, once it has something to do.  The steps
\* that begin a command and those of the environment carry no fairness.
MainStep ==
  EvalAddjob \/ EvalUnblock \/ EvalAnnounce \/ WaitfgReturn
    \/ BgCheck \/ BgSet \/ BgCont \/ FgCheck \/ FgCont \/ FgSet

KeyStep(s) == KeyIgnored(s) \/ KeyReadFg(s) \/ KeyForward(s) \/ KeyForwardFails(s)

ChldStep == (\E p \in Pids : ChldWait(p)) \/ ChldDone \/ ChldUpdate \/ ChldNullJob

\* Keys are typed far more slowly than the shell runs, so an interrupted
\* piece of code gets its turn again: strong fairness for each of them.
Fairness ==
  /\ SF_vars(MainStep)
  /\ \A s \in Keys : SF_vars(KeyStep(s))
  /\ SF_vars(ChldStep)
  /\ SF_vars(Deliver("CHLD"))

FairSpec == Spec /\ Fairness

-----------------------------------------------------------------------------
(* Safety *)

\* Slots in use, and the slot of a child.
Used == {i \in Slots : jobs[i].pid # 0}
Tracked(p) == \E i \in Used : jobs[i].pid = p

\* eval blocks SIGCHLD from before fork until after addjob so that no job is
\* added for a child that was already reaped: a reaped child is in the table
\* only while sigchld_handler still holds its status.
NoStaleJob ==
  \A i \in Used : proc[jobs[i].pid] # "free"
                  /\ (proc[jobs[i].pid] = "reaped" => status.pid = jobs[i].pid)

\* With room in the table every child that is not reaped has a job, but for
\* the one between fork and addjob.
EveryChildTracked ==
  MaxPid <= MAXJOBS =>
    \A p \in Pids :
       proc[p] \notin {"free", "reaped"} /\ ~(pc = "forked" /\ cur = p) => Tracked(p)

\* "At most 1 job can be in the FG state", and when there is one then main
\* waits for it (or is about to, in eval after addjob).
OneForeground ==
  \A i \in Used :
    jobs[i].state = "FG" => /\ pc \in {"added", "waitfg"} /\ ~bg
                            /\ jobs[i].pid = cur
                            /\ \A k \in Used : jobs[k].state = "FG" => k = i

\* A key handler that has read a pid and not yet called kill holds the job
\* main waits for: whatever sigchld_handler did in between, ctrl-c and
\* ctrl-z never reach a background job.
OnlyForegroundSignalled ==
  \A s \in Keys :
    victim[s] # Unread => pc \in {"added", "waitfg"} /\ ~bg /\ victim[s] = cur

\* At the prompt with no SIGCHLD outstanding the table is right about who is
\* stopped.  Nobody but the shell continues a job (CONT not in ExtSignals).
TableMatchesKernel ==
  shell = "alive" /\ pc = "prompt" /\ stack = <<>> /\ "CHLD" \notin pending
    => \A i \in Used : jobs[i].state = "ST" <=> proc[jobs[i].pid] = "stopped"

\* The shell implements job control when the table has room.
JobOf(p) ==
  CASE Tracked(p) -> jobs[getjobpid(jobs, p)].state
    [] ~Tracked(p) /\ (proc[p] = "free" \/ (pc = "forked" /\ cur = p)) -> "none"
    [] OTHER -> "gone"

Dead == {p \in Pids : proc[p] \in Zombies \cup {"reaped"}}

JC == INSTANCE JobControl WITH job <- [p \in Pids |-> JobOf(p)], dead <- Dead

ImplementsJobControl == JC!JCSpec

-----------------------------------------------------------------------------
(* The inductive invariant behind the proofs of TshProofs *)

BgfgLocs == {"bg", "bgset", "bgcont", "fg", "fgcont", "fgset"}

\* The local variables of eval and do_bgfg where they are used.
LocalsInv ==
  /\ pc \in {"forked", "added", "announce"} => cur \in Pids
  /\ pc \in BgfgLocs => slot \in Slots
  /\ pc \in BgfgLocs \cup {"prompt"} => ~bg
  /\ pc \in {"forked", "added"} => blocked

\* SIGCHLD is blocked, so its handler does not run.
MaskInv == blocked => ~Active("CHLD")

\* What the handler of SIGCHLD holds between waitpid and the table update.
StatusInv ==
  status # NoStatus =>
    /\ Active("CHLD")
    /\ status.pid \in Pids /\ status.how # "none"
    /\ status.how \in Zombies <=> proc[status.pid] = "reaped"

\* The child between fork and addjob.
ForkedInv == pc = "forked" => proc[cur] \notin {"free", "reaped"} /\ ~Tracked(cur)

\* No pid is in two slots.
InjectiveInv ==
  \A i, k \in Used : jobs[i].pid = jobs[k].pid => i = k

\* A key handler that has read a victim has not returned.
VictimInv == \A s \in Keys : victim[s] # Unread => Active(s)

IndInv ==
  /\ TypeOK /\ LocalsInv /\ MaskInv /\ StatusInv /\ ForkedInv /\ InjectiveInv
  /\ NoStaleJob /\ OneForeground /\ VictimInv /\ OnlyForegroundSignalled

\* A job is in one of the states of the comment, and only a stopped job gets
\* as far as the assignment of do_bgfg.
StatesInv ==
  /\ \A i \in Used : jobs[i].state \in {"FG", "BG", "ST"}
  /\ pc = "bgset" /\ slot \in Used => jobs[slot].state = "ST"

\* A child that waitpid would return has left a SIGCHLD behind, which is pending
\* or whose handler runs and will ask waitpid again.
ReportsInv ==
  unseen # {} \/ (\E p \in Pids : proc[p] \in Zombies) => "CHLD" \in pending \/ Active("CHLD")

\* The handler has learned that p stopped and not yet said so in the table.
Reporting(p) == status = [pid |-> p, how |-> "stopped"]

Halted(p) == proc[p] \in {"stopped", "reaped"} \cup Zombies

\* Nothing is on its way that says that p stopped.
Settled(p) == Halted(p) /\ p \notin unseen /\ ~Reporting(p)

\* The reports of stopped children, when nobody else continues them.
StopsInv ==
  /\ \A p \in unseen : proc[p] = "stopped"
  /\ status.how = "stopped" => Halted(status.pid) /\ status.pid \notin unseen
  /\ pc = "forked" /\ proc[cur] = "stopped" => cur \in unseen

\* A job is in state ST when its stop was reported, unless fg is between its
\* kill and its assignment; a child that stopped without that is still to be
\* reported, or bg is between its assignment and its kill, or fg assigned FG
\* after the report and now waits for a stopped job (ForegroundRuns).
MatchInv ==
  \A i \in Used :
    LET p == jobs[i].pid IN
    /\ jobs[i].state = "ST" => Settled(p) \/ (pc = "fgset" /\ slot = i)
    /\ jobs[i].state # "ST" /\ proc[p] = "stopped" =>
         \/ p \in unseen \/ Reporting(p)
         \/ pc = "bgcont" /\ slot = i
         \/ pc = "waitfg" /\ jobs[i].state = "FG"
    /\ pc = "bgcont" /\ slot = i => Settled(p) /\ jobs[i].state # "ST"

\* With room in the table sigchld_handler finds the job of every child that
\* waitpid returns, and never follows a null pointer.
NullJobInv ==
  MaxPid <= MAXJOBS => (status # NoStatus => Tracked(status.pid)) /\ shell # "segv"

\* All that is proved of the reachable states.
ShellInv ==
  /\ IndInv /\ EveryChildTracked /\ NullJobInv /\ StatesInv /\ ReportsInv
  /\ "CONT" \notin ExtSignals => StopsInv /\ MatchInv

-----------------------------------------------------------------------------
(* Liveness *)

\* sigchld_handler reaps every zombie and removes its job.
ZombiesReaped ==
  \A p \in Pids :
    proc[p] \in Zombies ~> shell # "alive" \/ (proc[p] = "reaped" /\ ~Tracked(p))

\* waitfg returns once the job it waits for has died.
WaitfgEnds ==
  \A p \in Pids :
    pc = "waitfg" /\ cur = p /\ p \in Dead ~> shell # "alive" \/ pc # "waitfg"

-----------------------------------------------------------------------------
(* A claim of the comments that the code does not keep *)

\* "FG 1 running in foreground": a job in state FG, with nothing left for
\* sigchld_handler to do and main waiting for it, is not stopped.
ForegroundRuns ==
  shell = "alive" /\ pc = "waitfg" /\ stack = <<>> /\ "CHLD" \notin pending
    => \A i \in Used : jobs[i].state = "FG" => proc[jobs[i].pid] # "stopped"

=============================================================================
