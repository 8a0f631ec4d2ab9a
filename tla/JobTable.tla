------------------------------ MODULE JobTable ------------------------------
(***************************************************************************)
(* The job table of the shell (lab9/tsh.c): the array jobs[MAXJOBS] of     *)
(* job_t entries and the counter nextjid, with the helper routines that    *)
(* read and change them.  The operators are pure: they take the table and  *)
(* return a value, a slot, or the table after the call.  The command line  *)
(* stored in an entry is left out, no decision of the shell reads it.      *)
(***************************************************************************)
EXTENDS Integers, FiniteSets

CONSTANT MAXJOBS      \* length of the jobs array (16 in the code)

ASSUME MaxJobsAssumption == MAXJOBS \in Nat \ {0}

Slots == 1..MAXJOBS

NoSlot == 0           \* the NULL that a lookup returns when nothing matches

JobStates == {"UNDEF", "FG", "BG", "ST"}

\* What clearjob leaves in an entry; pid 0 marks the slot as free.
clearjob == [pid |-> 0, jid |-> 0, state |-> "UNDEF"]

initjobs == [i \in Slots |-> clearjob]

\* Every lookup scans the array from the front and takes the first match.
FirstSlot(S) == CHOOSE i \in S : \A j \in S : i <= j

FreeSlots(js) == {i \in Slots : js[i].pid = 0}

TableFull(js) == FreeSlots(js) = {}

\* The slot of the job with this pid.
getjobpid(js, p) ==
  LET found == {i \in Slots : js[i].pid = p}
  IN  IF p < 1 \/ found = {} THEN NoSlot ELSE FirstSlot(found)

\* The slot of the first job with this jid.
getjobjid(js, j) ==
  LET found == {i \in Slots : js[i].jid = j}
  IN  IF j < 1 \/ found = {} THEN NoSlot ELSE FirstSlot(found)

\* Mutant of fgpid: the first job that is not stopped.
FgpidNotStopped(js) ==
  LET run == {i \in Slots : js[i].state \in {"FG", "BG"}}
  IN  IF run = {} THEN 0 ELSE js[FirstSlot(run)].pid

\* The pid in the first entry whose state is FG, 0 if there is none.
fgpid(js) ==
  LET fg == {i \in Slots : js[i].state = "FG"}
  IN  IF fg = {} THEN 0 ELSE js[FirstSlot(fg)].pid

\* The largest jid in the table, 0 for an empty table.
maxjid(js) ==
  LET jids == {0} \cup {js[i].jid : i \in Slots}
  IN  CHOOSE m \in jids : \A n \in jids : n <= m

\* addjob: the table and the counter after adding p.  A full table is left
\* as it was and so is nextjid: the call only prints a complaint.
addjob(js, nj, p, st) ==
  IF p < 1 \/ TableFull(js)
    THEN js
    ELSE [js EXCEPT ![FirstSlot(FreeSlots(js))] =
            [pid |-> p, jid |-> nj, state |-> st]]

addjobNextjid(js, nj, p) ==
  IF p < 1 \/ TableFull(js)
    THEN nj
    ELSE IF nj + 1 > MAXJOBS THEN 1 ELSE nj + 1

\* deletejob: the table and the counter after removing p.
deletejob(js, p) ==
  IF getjobpid(js, p) = NoSlot
    THEN js
    ELSE [js EXCEPT ![getjobpid(js, p)] = clearjob]

deletejobNextjid(js, nj, p) ==
  IF getjobpid(js, p) = NoSlot THEN nj ELSE maxjid(deletejob(js, p)) + 1

=============================================================================
