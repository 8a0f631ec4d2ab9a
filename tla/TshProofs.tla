----------------------------- MODULE TshProofs -----------------------------
(***************************************************************************)
(* Proofs about the shell for any number of children and any MAXJOBS.      *)
(* First what the job table routines return and preserve.  Then IndInv     *)
(* (module Tsh), which is inductive, with the properties of the runs that  *)
(* are its conjuncts.  TypeOK is proved preserved first, the step proof of *)
(* the rest may then assume it in the new state.                           *)
(* On IndInv rests ShellInv: the table agrees with the kernel, no child is *)
(* lost and no report of waitpid forgotten.  From it the shell implements  *)
(* job control (JobControl).                                               *)
(***************************************************************************)
EXTENDS Tsh, LeastNumber, SequenceTheorems, FiniteSetTheorems

-----------------------------------------------------------------------------
(* The job table *)

\* Tables whose entries hold pids of P.
Tables(P) == [Slots -> [pid : P, jid : Nat, state : JobStates]]

\* The scan from the front finds a slot of a non-empty set, and the first one.
LEMMA FirstSlotFound ==
  ASSUME NEW S \in SUBSET Slots, S # {}
  PROVE  FirstSlot(S) \in S /\ \A j \in S : FirstSlot(S) <= j
<1>1. S \in SUBSET Nat
  BY MaxJobsAssumption DEF Slots
<1>2. \E i \in S : \A j \in S : i <= j
  BY <1>1, LeastOfSet
<1> QED
  BY <1>2 DEF FirstSlot

\* getjobpid returns a slot with the pid, and NoSlot only when there is none.
LEMMA GetjobpidFound ==
  ASSUME NEW js, NEW p \in Nat \ {0}
  PROVE  \/ /\ getjobpid(js, p) = NoSlot
            /\ \A i \in Slots : js[i].pid # p
         \/ /\ getjobpid(js, p) \in Slots
            /\ getjobpid(js, p) # NoSlot
            /\ js[getjobpid(js, p)].pid = p
<1> DEFINE found == {i \in Slots : js[i].pid = p}
<1>1. CASE found = {}
  BY <1>1 DEF getjobpid
<1>2. CASE found # {}
  <2>1. FirstSlot(found) \in found
    BY <1>2, FirstSlotFound
  <2>2. getjobpid(js, p) = FirstSlot(found)
    BY <1>2 DEF getjobpid
  <2>3. \A i \in Slots : i # NoSlot
    BY MaxJobsAssumption DEF Slots, NoSlot
  <2> QED
    BY <2>1, <2>2, <2>3
<1> QED
  BY <1>1, <1>2

\* fgpid returns 0 or the pid of an entry in state FG.
LEMMA FgpidFound ==
  ASSUME NEW js, fgpid(js) # 0
  PROVE  \E i \in Slots : js[i].state = "FG" /\ js[i].pid = fgpid(js)
<1> DEFINE fg == {i \in Slots : js[i].state = "FG"}
<1>1. fg # {}
  BY DEF fgpid
<1>2. FirstSlot(fg) \in fg
  BY <1>1, FirstSlotFound
<1>3. fgpid(js) = js[FirstSlot(fg)].pid
  BY <1>1 DEF fgpid
<1> QED
  BY <1>2, <1>3

\* addjob changes nothing, which it does on a full table, or fills a free slot.
LEMMA AddjobShape ==
  ASSUME NEW js, NEW nj, NEW p \in Nat \ {0}, NEW st
  PROVE  \/ addjob(js, nj, p, st) = js /\ TableFull(js)
         \/ \E i \in Slots :
              /\ js[i].pid = 0
              /\ addjob(js, nj, p, st) =
                   [js EXCEPT ![i] = [pid |-> p, jid |-> nj, state |-> st]]
<1>1. CASE TableFull(js)
  BY <1>1 DEF addjob
<1>2. CASE ~TableFull(js)
  <2>1. FirstSlot(FreeSlots(js)) \in FreeSlots(js)
    BY <1>2, FirstSlotFound DEF TableFull, FreeSlots
  <2>2. addjob(js, nj, p, st) =
          [js EXCEPT ![FirstSlot(FreeSlots(js))] = [pid |-> p, jid |-> nj, state |-> st]]
    BY <1>2 DEF addjob
  <2> QED
    BY <2>1, <2>2 DEF FreeSlots
<1> QED
  BY <1>1, <1>2

\* deletejob clears a slot with the pid, or there is none.
LEMMA DeletejobShape ==
  ASSUME NEW js, NEW p \in Nat \ {0}
  PROVE  \/ deletejob(js, p) = js /\ \A i \in Slots : js[i].pid # p
         \/ \E i \in Slots : js[i].pid = p /\ deletejob(js, p) = [js EXCEPT ![i] = clearjob]
BY GetjobpidFound DEF deletejob

\* maxjid is a number no jid of the table exceeds.
LEMMA MaxjidBound ==
  ASSUME NEW P, NEW js \in Tables(P)
  PROVE  maxjid(js) \in Nat /\ \A i \in Slots : js[i].jid <= maxjid(js)
<1> DEFINE Jids(k) == {0} \cup {js[i].jid : i \in 1..k}
           HasMax(k) == \E m \in Jids(k) : \A n \in Jids(k) : n <= m
           Bad == {k \in 0..MAXJOBS : ~HasMax(k)}
<1>1. \A i \in Slots : js[i].jid \in Nat
  BY DEF Tables
<1>2. Bad = {}
  <2> SUFFICES ASSUME Bad # {} PROVE FALSE
    OBVIOUS
  <2>1. PICK k \in Bad : \A j \in Bad : k <= j
    <3>1. Bad \in SUBSET Nat
      BY MaxJobsAssumption
    <3> HIDE DEF Bad
    <3> QED
      BY <3>1, LeastOfSet
  <2>2. k # 0
    <3>1. Jids(0) = {0}
      OBVIOUS
    <3> QED
      BY <3>1
  <2>3. k - 1 \in 0..MAXJOBS /\ k - 1 \notin Bad /\ k \in Slots
    <3>1. k - 1 \in 0..MAXJOBS /\ k \in 1..MAXJOBS /\ ~(k <= k - 1)
      BY <2>2, MaxJobsAssumption
    <3> QED
      BY <2>1, <3>1 DEF Slots
  <2>4. PICK m \in Jids(k - 1) : \A n \in Jids(k - 1) : n <= m
    BY <2>3
  <2>5. Jids(k) = Jids(k - 1) \cup {js[k].jid}
    <3>1. 1..k = 1..(k - 1) \cup {k}
      BY <2>3, MaxJobsAssumption DEF Slots
    <3> QED
      BY <3>1
  <2>6. m \in Nat /\ js[k].jid \in Nat
    <3>1. \A i \in 1..(k - 1) : i \in Slots
      BY <2>3, MaxJobsAssumption DEF Slots
    <3> QED
      BY <1>1, <2>3, <3>1
  <2>7. HasMax(k)
    <3>1. CASE js[k].jid <= m
      BY <2>4, <2>5, <3>1
    <3>2. CASE ~(js[k].jid <= m)
      <4>1. \A n \in Jids(k - 1) : n \in Nat
        <5>1. \A i \in 1..(k - 1) : i \in Slots
          BY <2>3, MaxJobsAssumption DEF Slots
        <5> QED
          BY <1>1, <5>1
      <4>2. \A n \in Jids(k) : n <= js[k].jid
        BY <2>4, <2>5, <2>6, <3>2, <4>1
      <4>3. js[k].jid \in Jids(k)
        BY <2>5
      <4> QED
        BY <4>2, <4>3
    <3> QED
      BY <3>1, <3>2
  <2> QED
    BY <2>1, <2>7
<1>3. HasMax(MAXJOBS)
  <2>1. MAXJOBS \in 0..MAXJOBS
    BY MaxJobsAssumption
  <2>2. \A k \in 0..MAXJOBS : HasMax(k)
    BY <1>2
  <2> QED
    BY <2>1, <2>2
<1>4. maxjid(js) \in Jids(MAXJOBS) /\ \A n \in Jids(MAXJOBS) : n <= maxjid(js)
  BY <1>3 DEF maxjid, Slots
<1> QED
  BY <1>1, <1>4 DEF Slots

\* addjob and deletejob keep the table and nextjid well formed.
LEMMA TableTypes ==
  ASSUME NEW P, 0 \in P, NEW js \in Tables(P), NEW nj \in Nat \ {0},
         NEW p \in P, p \in Nat \ {0}, NEW st \in JobStates
  PROVE  /\ addjob(js, nj, p, st) \in Tables(P)
         /\ addjobNextjid(js, nj, p) \in Nat \ {0}
         /\ deletejob(js, p) \in Tables(P)
         /\ deletejobNextjid(js, nj, p) \in Nat \ {0}
<1>1. addjob(js, nj, p, st) \in Tables(P)
  BY AddjobShape DEF Tables
<1>2. addjobNextjid(js, nj, p) \in Nat \ {0}
  BY DEF addjobNextjid
<1>3. deletejob(js, p) \in Tables(P)
  BY DeletejobShape DEF Tables, clearjob, JobStates
<1>4. deletejobNextjid(js, nj, p) \in Nat \ {0}
  BY <1>3, MaxjidBound DEF deletejobNextjid
<1> QED
  BY <1>1, <1>2, <1>3, <1>4

-----------------------------------------------------------------------------
(* The inductive invariant *)

\* Returning from a handler leaves the interrupted handlers active.
LEMMA StackPop ==
  ASSUME TypeOK, stack # <<>>, stack' = Tail(stack)
  PROVE  /\ stack' \in Seq(Signals)
         /\ \A s : Active(s)' => Active(s)
         /\ \A s : s # Head(stack) /\ Active(s) => Active(s)'
<1>1. stack \in Seq(Signals) /\ stack # <<>>
  BY DEF TypeOK
<1>2. /\ stack' \in Seq(Signals)
      /\ Len(stack') = Len(stack) - 1
      /\ \A i \in 1..Len(stack') : stack'[i] = stack[i + 1]
  BY <1>1, HeadTailProperties
<1>3. Len(stack) \in Nat /\ Head(stack) = stack[1]
  BY <1>1, LenProperties
<1>4. \A s : Active(s)' => Active(s)
  BY <1>2, <1>3 DEF Active
<1>5. ASSUME NEW s, s # Head(stack), Active(s)
      PROVE  Active(s)'
  <2>1. PICK i \in 1..Len(stack) : stack[i] = s
    BY <1>5 DEF Active
  <2>2. i # 1 /\ i - 1 \in 1..Len(stack') /\ stack'[i - 1] = s
    BY <1>2, <1>3, <1>5, <2>1
  <2> QED
    BY <2>2 DEF Active
<1> QED
  BY <1>2, <1>4, <1>5

\* The table of a well-typed state, as the lemmas above name it.
LEMMA TableOfTypeOK ==
  ASSUME TypeOK
  PROVE  jobs \in Tables(Pids \cup {0}) /\ Pids \subseteq Nat \ {0} /\ 0 \notin Pids
BY TshAssumption DEF TypeOK, Tables, Pids

\* Every step keeps the types.
LEMMA TypeStep ==
  ASSUME TypeOK, LocalsInv, StatusInv, [Next]_vars
  PROVE  TypeOK'
<1> USE DEF TypeOK, LocalsInv, BgfgLocs, StatusInv, Pids, Keys, Signals, ProcStates,
            Zombies, MainLocs, Fates, JobStates, Unread, NoStatus, MainRuns, HandlerRuns,
            ToPrompt, Continue, vars, tableVars, kernelVars, mainVars, sigVars
<1>1. ASSUME NEW p \in Pids, NEW b \in BOOLEAN, EvalFork(p, b)
      PROVE  TypeOK'
  BY <1>1 DEF EvalFork
<1>2. CASE EvalForkFails
  BY <1>2 DEF EvalForkFails
<1>3. CASE EvalAddjob
  <2>1. cur \in Pids \cup {0} /\ cur \in Nat \ {0}
    BY <1>3, TableOfTypeOK DEF EvalAddjob
  <2>2. jobs' \in Tables(Pids \cup {0}) /\ nextjid' \in Nat \ {0}
    BY <1>3, <2>1, TableOfTypeOK, TableTypes DEF EvalAddjob
  <2> QED
    BY <1>3, <2>2 DEF EvalAddjob, Tables
<1>4. CASE EvalUnblock
  BY <1>4 DEF EvalUnblock
<1>5. CASE EvalAnnounce
  BY <1>5 DEF EvalAnnounce
<1>6. CASE WaitfgReturn
  BY <1>6 DEF WaitfgReturn
<1>7. CASE Quit
  BY <1>7 DEF Quit
<1>8. CASE Terminate
  BY <1>8 DEF Terminate
<1>9. ASSUME NEW c \in {"bg", "fg"}, NEW i \in Slots, BgfgLookup(c, i)
      PROVE  TypeOK'
  BY <1>9 DEF BgfgLookup
<1>10. CASE BgCheck
  BY <1>10 DEF BgCheck
<1>11. CASE BgSet
  <2>1. jobs' \in Tables(Pids \cup {0})
    BY <1>11, TableOfTypeOK DEF BgSet, Tables
  <2> QED
    BY <1>11, <2>1 DEF BgSet, Tables
<1>12. CASE BgCont
  BY <1>12 DEF BgCont
<1>13. CASE FgCheck
  BY <1>13 DEF FgCheck
<1>14. CASE FgCont
  BY <1>14 DEF FgCont
<1>15. CASE FgSet
  BY <1>15 DEF FgSet
<1>16. ASSUME NEW s \in Signals, Deliver(s)
      PROVE  TypeOK'
  BY <1>16 DEF Deliver
<1>17. ASSUME NEW s \in Keys, KeyIgnored(s)
      PROVE  TypeOK'
  BY <1>17, StackPop DEF KeyIgnored
<1>18. ASSUME NEW s \in Keys, KeyReadFg(s)
      PROVE  TypeOK'
  <2>1. fgpid(jobs) \in Pids
    BY <1>18, FgpidFound DEF KeyReadFg
  <2> QED
    BY <1>18, <2>1 DEF KeyReadFg
<1>19. ASSUME NEW s \in Keys, KeyForward(s)
      PROVE  TypeOK'
  <2>1. /\ proc' \in [Pids -> ProcStates] /\ unseen' \subseteq Pids
        /\ latched' \subseteq Pids /\ pending' \subseteq Signals
    <3>1. victim[s] \in Pids /\ Signalled(s, victim[s])
      BY <1>19 DEF KeyForward
    <3>2. PICK p \in Pids : Signalled(s, p)
      BY <3>1
    <3> QED
      BY <3>2 DEF Signalled
  <2>2. stack' \in Seq(Signals)
    BY <1>19, StackPop DEF KeyForward
  <2> QED
    BY <1>19, <2>1, <2>2 DEF KeyForward
<1>20. ASSUME NEW s \in Keys, KeyForwardFails(s)
      PROVE  TypeOK'
  BY <1>20 DEF KeyForwardFails
<1>21. ASSUME NEW p \in Pids, ChldWait(p)
      PROVE  TypeOK'
  <2>1. /\ status' \in [pid : Pids \cup {0}, how : {"none", "exited", "killed", "stopped"}]
        /\ proc' \in [Pids -> ProcStates] /\ unseen' \subseteq Pids
    <3>1. CASE proc[p] \in Zombies /\ status' = [pid |-> p, how |-> proc[p]]
      BY <1>21, <3>1 DEF ChldWait
    <3>2. CASE status' = [pid |-> p, how |-> "stopped"] /\ UNCHANGED proc
      BY <1>21, <3>2 DEF ChldWait
    <3> QED
      BY <1>21, <3>1, <3>2 DEF ChldWait
  <2> QED
    BY <1>21, <2>1 DEF ChldWait
<1>22. CASE ChldDone
  BY <1>22, StackPop DEF ChldDone
<1>23. CASE ChldUpdate
  <2>1. status.pid \in Pids \cup {0} /\ status.pid \in Nat \ {0}
    BY <1>23, TableOfTypeOK DEF ChldUpdate, StatusInv
  <2>2. jobs' \in Tables(Pids \cup {0}) /\ nextjid' \in Nat \ {0}
    <3>1. ASSUME NEW i \in Slots, UNCHANGED nextjid,
                 jobs' = [jobs EXCEPT ![i].state = "ST"]
          PROVE  jobs' \in Tables(Pids \cup {0}) /\ nextjid' \in Nat \ {0}
      <4>1. [jobs EXCEPT ![i].state = "ST"] \in Tables(Pids \cup {0})
        BY TableOfTypeOK DEF Tables
      <4> QED
        BY <3>1, <4>1
    <3>2. CASE /\ jobs' = deletejob(jobs, status.pid)
               /\ nextjid' = deletejobNextjid(jobs, nextjid, status.pid)
      <4>1. "FG" \in JobStates /\ 0 \in Pids \cup {0}
        OBVIOUS
      <4> QED
        BY <2>1, <3>2, <4>1, TableOfTypeOK, TableTypes
    <3>3. getjobpid(jobs, status.pid) # NoSlot => getjobpid(jobs, status.pid) \in Slots
      BY <2>1, GetjobpidFound
    <3> QED
      BY <1>23, <3>1, <3>2, <3>3 DEF ChldUpdate
  <2> QED
    BY <1>23, <2>2 DEF ChldUpdate, Tables
<1>24. CASE ChldNullJob
  BY <1>24 DEF ChldNullJob
<1>25. ASSUME NEW s \in Keys, TypeKey(s)
      PROVE  TypeOK'
  BY <1>25 DEF TypeKey
<1>26. ASSUME NEW p \in Pids, ChildSetpgid(p)
      PROVE  TypeOK'
  BY <1>26 DEF ChildSetpgid
<1>27. ASSUME NEW p \in Pids, ChildExec(p)
      PROVE  TypeOK'
  BY <1>27 DEF ChildExec
<1>28. ASSUME NEW p \in Pids, ChildExit(p)
      PROVE  TypeOK'
  BY <1>28 DEF ChildExit
<1>29. ASSUME NEW p \in Pids, ExternalStop(p)
      PROVE  TypeOK'
  BY <1>29 DEF ExternalStop
<1>30. ASSUME NEW p \in Pids, ExternalKill(p)
      PROVE  TypeOK'
  BY <1>30 DEF ExternalKill
<1>31. ASSUME NEW p \in Pids, ExternalCont(p)
      PROVE  TypeOK'
  <2>1. \E s \in ProcStates : proc' = [proc EXCEPT ![p] = s]
    BY <1>31 DEF ExternalCont
  <2>2. proc' \in [Pids -> ProcStates]
    BY <2>1
  <2>3. unseen' \subseteq Pids /\ latched' \subseteq Pids /\ pending' \subseteq Signals
    BY <1>31 DEF ExternalCont
  <2> QED
    BY <1>31, <2>2, <2>3 DEF ExternalCont
<1>32. CASE Stopped \/ UNCHANGED vars
  BY <1>32 DEF Stopped
<1> HIDE DEF TypeOK, LocalsInv, StatusInv, Signals
<1> QED
  BY TshAssumption, <1>1, <1>2, <1>3, <1>4, <1>5, <1>6, <1>7, <1>8, <1>9,
     <1>10, <1>11, <1>12, <1>13, <1>14, <1>15, <1>16, <1>17, <1>18, <1>19,
     <1>20, <1>21, <1>22, <1>23, <1>24, <1>25, <1>26, <1>27, <1>28, <1>29,
     <1>30, <1>31, <1>32
     DEF Next, MainNext, HandlerNext, EnvNext, Keys

\* The table after addjob, as the proofs of the steps use it.
LEMMA EvalAddjobShape ==
  ASSUME IndInv, EvalAddjob
  PROVE  \/ jobs' = jobs /\ TableFull(jobs)
         \/ \E i \in Slots, st \in {"FG", "BG"} :
              /\ jobs[i].pid = 0 /\ st = (IF bg THEN "BG" ELSE "FG")
              /\ jobs' = [jobs EXCEPT ![i] = [pid |-> cur, jid |-> nextjid, state |-> st]]
<1> DEFINE st == IF bg THEN "BG" ELSE "FG"
<1>1. cur \in Nat \ {0}
  BY TableOfTypeOK DEF EvalAddjob, MainRuns, IndInv, LocalsInv
<1>2. jobs' = addjob(jobs, nextjid, cur, st) /\ st \in {"FG", "BG"}
  BY DEF EvalAddjob
<1> HIDE DEF st
<1>3. \/ jobs' = jobs /\ TableFull(jobs)
      \/ \E i \in Slots : /\ jobs[i].pid = 0
                          /\ jobs' = [jobs EXCEPT ![i] = [pid |-> cur, jid |-> nextjid, state |-> st]]
  BY <1>1, <1>2, AddjobShape
<1> QED
  BY <1>2, <1>3 DEF st

\* The table after an iteration of the loop of sigchld_handler.
LEMMA ChldUpdateShape ==
  ASSUME IndInv, ChldUpdate
  PROVE  \/ /\ status.how \in Zombies
            /\ jobs' = jobs /\ \A i \in Slots : jobs[i].pid # status.pid
         \/ \E i \in Slots :
              /\ jobs[i].pid = status.pid
              /\ \/ status.how \in Zombies /\ jobs' = [jobs EXCEPT ![i] = clearjob]
                 \/ status.how = "stopped" /\ jobs' = [jobs EXCEPT ![i].state = "ST"]
<1> DEFINE i == getjobpid(jobs, status.pid)
<1>1. status.pid \in Nat \ {0}
  BY TableOfTypeOK DEF ChldUpdate, IndInv, StatusInv
<1>2. i # NoSlot => i \in Slots /\ jobs[i].pid = status.pid
  BY <1>1, GetjobpidFound
<1>3. \/ status.how \in Zombies /\ jobs' = deletejob(jobs, status.pid)
      \/ status.how = "stopped" /\ i # NoSlot /\ jobs' = [jobs EXCEPT ![i].state = "ST"]
  <2> HIDE DEF i
  <2> QED
    BY DEF ChldUpdate, Zombies, i
<1> HIDE DEF i
<1>4. CASE status.how \in Zombies /\ jobs' = deletejob(jobs, status.pid)
  BY <1>1, <1>4, DeletejobShape
<1> QED
  BY <1>2, <1>3, <1>4

\* Every step keeps the rest of the inductive invariant.
LEMMA IndStep ==
  ASSUME IndInv, TypeOK', [Next]_vars
  PROVE  IndInv'
<1> USE DEF IndInv, TypeOK, LocalsInv, BgfgLocs, MaskInv, StatusInv, ForkedInv, InjectiveInv,
            NoStaleJob, OneForeground, VictimInv, OnlyForegroundSignalled, Used, Tracked,
            Active, Pids, Keys, Signals, Zombies, Unread, NoStatus, MainRuns, HandlerRuns,
            ToPrompt, Continue, vars, tableVars, kernelVars, mainVars, sigVars
<1>1. ASSUME NEW p \in Pids, NEW b \in BOOLEAN, EvalFork(p, b)
      PROVE  IndInv'
  BY <1>1 DEF EvalFork
<1>2. CASE EvalForkFails
  BY <1>2 DEF EvalForkFails
<1>3. CASE EvalAddjob
  <2>1. cur \in Nat \ {0}
    BY <1>3, TableOfTypeOK DEF EvalAddjob
  <2>2. CASE jobs' = jobs
    BY <1>3, <2>2 DEF EvalAddjob
  <2>3. ASSUME NEW i \in Slots, NEW st \in {"FG", "BG"}, jobs[i].pid = 0,
               st = (IF bg THEN "BG" ELSE "FG"),
               jobs' = [jobs EXCEPT ![i] = [pid |-> cur, jid |-> nextjid, state |-> st]]
        PROVE  IndInv'
    <3>1. \A k \in Slots : jobs'[k] = IF k = i THEN [pid |-> cur, jid |-> nextjid, state |-> st]
                                       ELSE jobs[k]
      BY <2>3
    <3> HIDE DEF TypeOK
    <3>2. InjectiveInv'
      BY <1>3, <2>1, <2>3, <3>1 DEF EvalAddjob
    <3>3. NoStaleJob' /\ OneForeground'
      BY <1>3, <2>1, <2>3, <3>1 DEF EvalAddjob
    <3> QED
      BY <1>3, <2>3, <3>2, <3>3 DEF EvalAddjob
  <2> HIDE DEF IndInv
  <2> QED
    BY <1>3, <2>2, <2>3, EvalAddjobShape
<1>4. CASE EvalUnblock
  BY <1>4 DEF EvalUnblock
<1>5. CASE EvalAnnounce
  BY <1>5 DEF EvalAnnounce
<1>6. CASE WaitfgReturn
  <2>1. \A i \in Used : jobs[i].state # "FG"
    <3>1. SUFFICES ASSUME NEW i \in Used, jobs[i].state = "FG" PROVE FALSE
      OBVIOUS
    <3>2. jobs[i].pid = cur /\ cur \in Nat \ {0}
      BY <3>1, TableOfTypeOK
    <3>3. getjobpid(jobs, cur) # NoSlot /\ getjobpid(jobs, cur) = i
      BY <3>1, <3>2, GetjobpidFound
    <3> QED
      BY <1>6, <3>1, <3>3 DEF WaitfgReturn
  <2> QED
    BY <1>6, <2>1 DEF WaitfgReturn
<1>7. CASE Quit
  BY <1>7 DEF Quit
<1>8. CASE Terminate
  BY <1>8 DEF Terminate
<1>9. ASSUME NEW c \in {"bg", "fg"}, NEW i \in Slots, BgfgLookup(c, i)
      PROVE  IndInv'
  BY <1>9 DEF BgfgLookup
<1>10. CASE BgCheck
  BY <1>10 DEF BgCheck
<1>11. CASE BgSet
  BY <1>11 DEF BgSet
<1>12. CASE BgCont
  BY <1>12 DEF BgCont
<1>13. CASE FgCheck
  BY <1>13 DEF FgCheck
<1>14. CASE FgCont
  BY <1>14 DEF FgCont
<1>15. CASE FgSet
  BY <1>15 DEF FgSet
<1>16. ASSUME NEW s \in Signals, Deliver(s)
      PROVE  IndInv'
  BY <1>16 DEF Deliver
<1>17. ASSUME NEW s \in Keys, KeyIgnored(s)
      PROVE  IndInv'
  <2> HIDE DEF Active
  <2>1. \A t : (Active(t)' => Active(t)) /\ (t # s /\ Active(t) => Active(t)')
    BY <1>17, StackPop DEF KeyIgnored
  <2> QED
    BY <1>17, <2>1 DEF KeyIgnored
<1>18. ASSUME NEW s \in Keys, KeyReadFg(s)
      PROVE  IndInv'
  <2>1. PICK i \in Slots : jobs[i].state = "FG" /\ jobs[i].pid = fgpid(jobs)
    BY <1>18, FgpidFound DEF KeyReadFg
  <2>2. pc \in {"added", "waitfg"} /\ ~bg /\ fgpid(jobs) = cur
    BY <1>18, <2>1 DEF KeyReadFg
  <2>3. Active(s)
    BY <1>18, LenProperties DEF KeyReadFg
  <2> QED
    BY <1>18, <2>2, <2>3 DEF KeyReadFg
<1>19. ASSUME NEW s \in Keys, KeyForward(s)
      PROVE  IndInv'
  <2> HIDE DEF Active
  <2>1. \A t : (Active(t)' => Active(t)) /\ (t # s /\ Active(t) => Active(t)')
    BY <1>19, StackPop DEF KeyForward
  <2>2. \A p \in Pids : (proc'[p] = "free" <=> proc[p] = "free")
                        /\ (proc'[p] = "reaped" <=> proc[p] = "reaped")
    BY <1>19 DEF KeyForward, Signalled, HasGroup
  <2> QED
    BY <1>19, <2>1, <2>2 DEF KeyForward
<1>20. ASSUME NEW s \in Keys, KeyForwardFails(s)
      PROVE  IndInv'
  BY <1>20 DEF KeyForwardFails
<1>21. ASSUME NEW p \in Pids, ChldWait(p)
      PROVE  IndInv'
  BY <1>21 DEF ChldWait
<1>22. CASE ChldDone
  <2> HIDE DEF Active
  <2>1. \A t : (Active(t)' => Active(t)) /\ (t # "CHLD" /\ Active(t) => Active(t)')
    BY <1>22, StackPop DEF ChldDone
  <2> QED
    BY <1>22, <2>1 DEF ChldDone
<1>23. CASE ChldUpdate
  <2>1. status.pid \in Nat \ {0}
    BY <1>23, TableOfTypeOK DEF ChldUpdate
  <2>2. CASE status.how \in Zombies /\ jobs' = jobs /\ \A i \in Slots : jobs[i].pid # status.pid
    BY <1>23, <2>2 DEF ChldUpdate
  <2>4. ASSUME NEW i \in Slots, jobs[i].pid = status.pid, status.how \in Zombies,
               jobs' = [jobs EXCEPT ![i] = clearjob]
        PROVE  IndInv'
    <3>1. \A k \in Slots : jobs'[k] = IF k = i THEN clearjob ELSE jobs[k]
      BY <2>4
    <3>2. \A k \in Used' : k \in Used /\ k # i /\ jobs'[k] = jobs[k]
      BY <3>1 DEF clearjob
    <3> HIDE DEF TypeOK
    <3>3. NoStaleJob'
      BY <1>23, <2>1, <2>4, <3>2 DEF ChldUpdate
    <3> QED
      BY <1>23, <2>4, <3>2, <3>3 DEF ChldUpdate
  <2>3. ASSUME NEW i \in Slots, jobs[i].pid = status.pid, status.how = "stopped",
               jobs' = [jobs EXCEPT ![i].state = "ST"]
        PROVE  IndInv'
    <3>1. \A k \in Slots : /\ jobs'[k].pid = jobs[k].pid
                            /\ jobs'[k].state = IF k = i THEN "ST" ELSE jobs[k].state
      BY <2>3
    <3> HIDE DEF TypeOK
    <3>2. NoStaleJob'
      BY <1>23, <2>1, <2>3, <3>1 DEF ChldUpdate
    <3> QED
      BY <1>23, <2>3, <3>1, <3>2 DEF ChldUpdate
  <2> HIDE DEF IndInv
  <2> QED
    BY <1>23, <2>2, <2>3, <2>4, ChldUpdateShape
<1>24. CASE ChldNullJob
  BY <1>24 DEF ChldNullJob
<1>25. ASSUME NEW s \in Keys, TypeKey(s)
      PROVE  IndInv'
  BY <1>25 DEF TypeKey
<1>26. ASSUME NEW p \in Pids, ChildSetpgid(p)
      PROVE  IndInv'
  BY <1>26 DEF ChildSetpgid
<1>27. ASSUME NEW p \in Pids, ChildExec(p)
      PROVE  IndInv'
  BY <1>27 DEF ChildExec
<1>28. ASSUME NEW p \in Pids, ChildExit(p)
      PROVE  IndInv'
  BY <1>28 DEF ChildExit
<1>29. ASSUME NEW p \in Pids, ExternalStop(p)
      PROVE  IndInv'
  BY <1>29 DEF ExternalStop
<1>30. ASSUME NEW p \in Pids, ExternalKill(p)
      PROVE  IndInv'
  BY <1>30 DEF ExternalKill
<1>31. ASSUME NEW p \in Pids, ExternalCont(p)
      PROVE  IndInv'
  BY <1>31 DEF ExternalCont
<1>32. CASE Stopped \/ UNCHANGED vars
  BY <1>32 DEF Stopped
<1> HIDE DEF IndInv, TypeOK, Signals
<1> QED
  BY TshAssumption, <1>1, <1>2, <1>3, <1>4, <1>5, <1>6, <1>7, <1>8, <1>9,
     <1>10, <1>11, <1>12, <1>13, <1>14, <1>15, <1>16, <1>17, <1>18, <1>19,
     <1>20, <1>21, <1>22, <1>23, <1>24, <1>25, <1>26, <1>27, <1>28, <1>29,
     <1>30, <1>31, <1>32
     DEF Next, MainNext, HandlerNext, EnvNext, Keys

\* The shell starts with an empty table and nothing pending.
LEMMA InitInvariant ==
  ASSUME Init
  PROVE  IndInv
<1> USE DEF Init, initjobs, clearjob
<1>1. TypeOK
  <2>1. jobs \in [Slots -> [pid : Pids \cup {0}, jid : Nat, state : JobStates]]
    BY DEF JobStates
  <2>2. stack \in Seq(Signals)
    BY EmptySeq
  <2>3. status \in [pid : Pids \cup {0}, how : {"none", "exited", "killed", "stopped"}]
    BY DEF NoStatus
  <2>4. victim \in [Keys -> Pids \cup {Unread}]
    OBVIOUS
  <2>5. proc \in [Pids -> ProcStates]
    BY DEF ProcStates
  <2>6. nextjid \in Nat \ {0} /\ pc \in MainLocs /\ shell \in Fates
    BY DEF MainLocs, Fates
  <2>7. unseen \subseteq Pids /\ latched \subseteq Pids /\ pending \subseteq Signals
    OBVIOUS
  <2>8. blocked \in BOOLEAN /\ cur \in Pids \cup {0} /\ bg \in BOOLEAN
        /\ slot \in Slots \cup {NoSlot}
    OBVIOUS
  <2> HIDE DEF Init
  <2> QED
    BY <2>1, <2>2, <2>3, <2>4, <2>5, <2>6, <2>7, <2>8 DEF TypeOK
<1>2. Used = {} /\ ~Active("CHLD")
  BY DEF Used, Active
<1> QED
  BY <1>1, <1>2
  DEF IndInv, LocalsInv, BgfgLocs, MaskInv, StatusInv, ForkedInv, InjectiveInv, NoStaleJob,
      OneForeground, VictimInv, OnlyForegroundSignalled, Keys

\* Main invariant: the table, the kernel and the locals of the interrupted
\* code agree in every reachable state, however the handlers interleave.
THEOREM Invariance == Spec => []IndInv
<1>1. Init => IndInv
  BY InitInvariant
<1>2. IndInv /\ [Next]_vars => IndInv'
  <2> SUFFICES ASSUME IndInv, [Next]_vars PROVE IndInv'
    OBVIOUS
  <2>1. TypeOK'
    BY TypeStep DEF IndInv
  <2> QED
    BY <2>1, IndStep
<1> QED
  BY <1>1, <1>2, PTL DEF Spec

\* Type correctness of the shell.
THEOREM TypeCorrect == Spec => []TypeOK
<1>1. IndInv => TypeOK
  BY DEF IndInv
<1> QED
  BY <1>1, Invariance, PTL

\* No reaped child stays in the table: eval masks SIGCHLD for long enough.
THEOREM ReapedJobsLeave == Spec => []NoStaleJob
<1>1. IndInv => NoStaleJob
  BY DEF IndInv
<1> QED
  BY <1>1, Invariance, PTL

\* At most one job is in the foreground and main waits for it.
THEOREM AtMostOneForeground == Spec => []OneForeground
<1>1. IndInv => OneForeground
  BY DEF IndInv
<1> QED
  BY <1>1, Invariance, PTL

\* ctrl-c and ctrl-z are aimed at the job main waits for and no other.
THEOREM KeysReachForegroundOnly == Spec => []OnlyForegroundSignalled
<1>1. IndInv => OnlyForegroundSignalled
  BY DEF IndInv
<1> QED
  BY <1>1, Invariance, PTL


-----------------------------------------------------------------------------
(* The table and the kernel *)

\* Filled by distinct children, a table that is at least as long as there are
\* children has room for one that is not in it.
LEMMA RoomForOne ==
  ASSUME MaxPid <= MAXJOBS, TypeOK, InjectiveInv, NEW c \in Pids, ~Tracked(c)
  PROVE  ~TableFull(jobs)
<1> SUFFICES ASSUME \A i \in Slots : jobs[i].pid # 0 PROVE FALSE
  BY DEF TableFull, FreeSlots
<1> DEFINE f == [i \in Slots |-> jobs[i].pid]
<1>1. Used = Slots
  BY DEF Used
<1>2. f \in [Slots -> Pids \ {c}]
  <2>1. \A i \in Slots : jobs[i].pid \in Pids /\ jobs[i].pid # c
    BY <1>1 DEF TypeOK, Tracked
  <2> QED
    BY <2>1
<1>3. IsFiniteSet(Slots) /\ Cardinality(Slots) = MAXJOBS
  BY FS_Interval, MaxJobsAssumption DEF Slots
<1>4. IsFiniteSet(Pids \ {c}) /\ Cardinality(Pids \ {c}) = MaxPid - 1
  <2>1. IsFiniteSet(Pids) /\ Cardinality(Pids) = MaxPid
    BY FS_Interval, TshAssumption DEF Pids
  <2> QED
    BY <2>1, FS_RemoveElement
<1>5. Cardinality(Pids \ {c}) < Cardinality(Slots)
  BY <1>3, <1>4, MaxJobsAssumption, TshAssumption
<1>6. PICK i, k \in Slots : i # k /\ f[i] = f[k]
  <2> HIDE DEF f
  <2> QED
    BY <1>2, <1>3, <1>4, <1>5, FS_PigeonHole
<1>7. i \in Used /\ k \in Used /\ jobs[i].pid = jobs[k].pid
  BY <1>1, <1>6
<1> QED
  BY <1>6, <1>7 DEF InjectiveInv

\* An assignment to the state of one entry, as do_bgfg and sigchld_handler
\* make it, changes no pid and no other state.
LEMMA SetState ==
  ASSUME TypeOK, NEW i \in Slots, NEW st \in {"FG", "BG", "ST"}, jobs' = [jobs EXCEPT ![i].state = st]
  PROVE  \A k \in Slots : /\ jobs'[k].pid = jobs[k].pid
                          /\ jobs'[k].state = IF k = i THEN st ELSE jobs[k].state
BY DEF TypeOK

\* The table after the assignment of do_bgfg, to BG or to FG.
LEMMA BgfgSetShape ==
  ASSUME IndInv, BgSet \/ FgSet
  PROVE  /\ slot \in Slots
         /\ \A k \in Slots : /\ jobs'[k].pid = jobs[k].pid
                             /\ k # slot => jobs'[k].state = jobs[k].state
         /\ jobs'[slot].state = IF pc = "bgset" THEN "BG" ELSE "FG"
<1>1. slot \in Slots /\ TypeOK
  BY DEF IndInv, LocalsInv, BgfgLocs, BgSet, FgSet, MainRuns
<1>2. CASE BgSet
  <2>1. jobs' = [jobs EXCEPT ![slot].state = "BG"] /\ pc = "bgset"
    BY <1>2 DEF BgSet, MainRuns
  <2> QED
    BY <1>1, <2>1 DEF TypeOK
<1>3. CASE FgSet
  <2>1. jobs' = [jobs EXCEPT ![slot].state = "FG"] /\ pc = "fgset"
    BY <1>3 DEF FgSet, MainRuns
  <2> QED
    BY <1>1, <2>1 DEF TypeOK
<1> QED
  BY <1>2, <1>3

\* Every step keeps a job for every child, when the table is long enough.
LEMMA TrackedStep ==
  ASSUME IndInv, EveryChildTracked, TypeOK', [Next]_vars
  PROVE  EveryChildTracked'
<1> SUFFICES ASSUME MaxPid <= MAXJOBS, NEW p \in Pids, proc'[p] \notin {"free", "reaped"},
                    ~(pc' = "forked" /\ cur' = p)
             PROVE  Tracked(p)'
  BY DEF EveryChildTracked
<1> DEFINE Frame ==
      /\ \A i \in Slots : jobs'[i].pid = jobs[i].pid
      /\ proc[p] \notin {"free", "reaped"}
      /\ pc = "forked" => pc' = "forked" /\ cur' = cur
<1>1. ASSUME Frame PROVE Tracked(p)'
  BY <1>1 DEF EveryChildTracked, Tracked, Used
<1> USE DEF IndInv, TypeOK, LocalsInv, BgfgLocs, StatusInv,
            Pids, Keys, Signals, Zombies, Unread, NoStatus, MainRuns, HandlerRuns,
            ToPrompt, Continue, vars, tableVars, kernelVars, mainVars, sigVars
<1>2. CASE \E q \in Pids, b \in BOOLEAN : EvalFork(q, b)
  BY <1>2 DEF EvalFork, EveryChildTracked, Tracked, Used
<1>3. CASE EvalAddjob
  <2>1. p = cur \/ Tracked(p)
    BY <1>3 DEF EvalAddjob, EveryChildTracked
  <2>2. ~TableFull(jobs)
    <3>1. cur \in Pids /\ ~Tracked(cur)
      BY <1>3 DEF EvalAddjob, ForkedInv
    <3> HIDE DEF TypeOK, Pids
    <3> QED
      BY <3>1, RoomForOne
  <2>3. PICK i \in Slots, st \in {"FG", "BG"} :
              /\ jobs[i].pid = 0 /\ st = (IF bg THEN "BG" ELSE "FG")
              /\ jobs' = [jobs EXCEPT ![i] = [pid |-> cur, jid |-> nextjid, state |-> st]]
    <3> HIDE DEF IndInv
    <3> QED
      BY <1>3, <2>2, EvalAddjobShape
  <2>4. \A k \in Slots : jobs'[k].pid = IF k = i THEN cur ELSE jobs[k].pid
    BY <2>3
  <2> QED
    BY <2>1, <2>3, <2>4, <1>3 DEF Tracked, Used, EvalAddjob
<1>4. CASE ChldUpdate
  <2>1. Tracked(p) /\ (status.how \in Zombies => p # status.pid)
    BY <1>4 DEF ChldUpdate, EveryChildTracked
  <2>2. \/ \A k \in Slots : jobs'[k].pid = jobs[k].pid
        \/ \E i \in Slots : /\ jobs[i].pid = status.pid /\ status.how \in Zombies
                            /\ jobs' = [jobs EXCEPT ![i] = clearjob]
    <3>1. ASSUME NEW i \in Slots, jobs' = [jobs EXCEPT ![i].state = "ST"]
          PROVE  \A k \in Slots : jobs'[k].pid = jobs[k].pid
      BY <3>1
    <3> HIDE DEF IndInv
    <3> QED
      BY <1>4, <3>1, ChldUpdateShape
  <2> QED
    BY <2>1, <2>2 DEF Tracked, Used
<1>5. CASE \/ EvalForkFails \/ EvalUnblock \/ EvalAnnounce \/ WaitfgReturn \/ Quit \/ Terminate
           \/ BgCheck \/ FgCheck \/ Stopped \/ UNCHANGED vars
           \/ \E c \in {"bg", "fg"}, i \in Slots : BgfgLookup(c, i)
  <2> SUFFICES Frame
    BY <1>1
  <2> QED
    BY <1>5 DEF EvalForkFails, EvalUnblock, EvalAnnounce, WaitfgReturn, Quit, Terminate,
                BgCheck, FgCheck, Stopped, BgfgLookup
<1>6. CASE BgSet \/ FgSet \/ BgCont \/ FgCont
  <2> SUFFICES Frame
    BY <1>1
  <2>1. CASE BgSet \/ FgSet
    <3>1. \A k \in Slots : jobs'[k].pid = jobs[k].pid
      BY <2>1, BgfgSetShape
    <3> QED
      BY <2>1, <3>1 DEF BgSet, FgSet
  <2>2. CASE BgCont \/ FgCont
    BY <2>2 DEF BgCont, FgCont
  <2> QED
    BY <1>6, <2>1, <2>2
<1>7. CASE ChldDone \/ ChldNullJob \/ \E q \in Pids : ChldWait(q)
  <2> SUFFICES Frame
    BY <1>1
  <2> QED
    BY <1>7 DEF ChldDone, ChldNullJob, ChldWait
<1>8. ASSUME NEW s \in Keys, KeyIgnored(s) \/ KeyReadFg(s) \/ KeyForwardFails(s) \/ TypeKey(s)
      PROVE  Tracked(p)'
  <2> SUFFICES Frame
    BY <1>1
  <2> QED
    BY <1>8 DEF KeyIgnored, KeyReadFg, KeyForwardFails, TypeKey
<1>9. ASSUME NEW s \in Keys, KeyForward(s)
      PROVE  Tracked(p)'
  <2> SUFFICES Frame
    BY <1>1
  <2> QED
    BY <1>9 DEF KeyForward, Signalled
<1>10. ASSUME NEW s \in Signals, Deliver(s)
      PROVE  Tracked(p)'
  <2> SUFFICES Frame
    BY <1>1
  <2> QED
    BY <1>10 DEF Deliver
<1>11. ASSUME NEW q \in Pids, \/ ChildSetpgid(q) \/ ChildExec(q) \/ ChildExit(q)
                              \/ ExternalStop(q) \/ ExternalKill(q) \/ ExternalCont(q)
       PROVE  Tracked(p)'
  <2> SUFFICES Frame
    BY <1>1
  <2> QED
    BY <1>11 DEF ChildSetpgid, ChildExec, ChildExit, ExternalStop, ExternalKill, ExternalCont
<1> HIDE DEF IndInv, TypeOK, Signals
<1> QED
  BY TshAssumption, <1>2, <1>3, <1>4, <1>5, <1>6, <1>7, <1>8, <1>9, <1>10, <1>11
     DEF Next, MainNext, HandlerNext, EnvNext, Keys

\* Every step keeps the states of the jobs.
LEMMA StatesStep ==
  ASSUME IndInv, StatesInv, TypeOK', [Next]_vars
  PROVE  StatesInv'
<1> USE DEF IndInv, LocalsInv, BgfgLocs, Zombies, MainRuns, HandlerRuns, ToPrompt,
            Continue, vars, tableVars, kernelVars, mainVars, sigVars
<1>0. TypeOK
  OBVIOUS
<1>1. ASSUME jobs' = jobs, pc' = "bgset" => pc = "bgset" /\ slot' = slot
      PROVE  StatesInv'
  BY <1>1 DEF StatesInv, Used
<1>2. CASE EvalAddjob
  <2>1. CASE jobs' = jobs
    BY <1>1, <1>2, <2>1 DEF EvalAddjob
  <2>2. ASSUME NEW i \in Slots, NEW st \in {"FG", "BG"},
               jobs' = [jobs EXCEPT ![i] = [pid |-> cur, jid |-> nextjid, state |-> st]]
        PROVE  StatesInv'
    BY <1>2, <2>2 DEF EvalAddjob, StatesInv, Used, TypeOK
  <2> HIDE DEF IndInv
  <2> QED
    BY <1>2, <2>1, <2>2, EvalAddjobShape
<1>3. CASE BgSet \/ FgSet
  <2>1. \A k \in Slots : /\ jobs'[k].pid = jobs[k].pid
                         /\ jobs'[k].state \in {jobs[k].state, "BG", "FG"}
    BY <1>3, BgfgSetShape
  <2>2. pc' # "bgset"
    BY <1>3 DEF BgSet, FgSet
  <2> QED
    BY <2>1, <2>2 DEF StatesInv, Used
<1>4. CASE ChldUpdate
  <2>1. UNCHANGED <<pc, slot>>
    BY <1>4 DEF ChldUpdate
  <2>2. CASE jobs' = jobs
    BY <1>1, <2>1, <2>2
  <2>3. ASSUME NEW i \in Slots, jobs' = [jobs EXCEPT ![i] = clearjob]
        PROVE  StatesInv'
    <3>1. \A k \in Used' : k \in Used /\ jobs'[k] = jobs[k]
      BY <2>3 DEF Used, TypeOK, clearjob
    <3> QED
      BY <2>1, <3>1 DEF StatesInv
  <2>4. ASSUME NEW i \in Slots, jobs' = [jobs EXCEPT ![i].state = "ST"]
        PROVE  StatesInv'
    <3>1. \A k \in Slots : /\ jobs'[k].pid = jobs[k].pid
                           /\ jobs'[k].state = IF k = i THEN "ST" ELSE jobs[k].state
      <4> HIDE DEF IndInv
      <4> QED
        BY <1>0, <2>4, SetState
    <3> QED
      BY <2>1, <3>1 DEF StatesInv, Used
  <2> HIDE DEF IndInv
  <2> QED
    BY <1>4, <2>2, <2>3, <2>4, ChldUpdateShape
<1>5. CASE BgCheck
  BY <1>5 DEF BgCheck, StatesInv, Used
<1>6. CASE \/ EvalForkFails \/ EvalUnblock \/ EvalAnnounce \/ WaitfgReturn \/ Quit \/ Terminate
           \/ FgCheck \/ BgCont \/ FgCont \/ Stopped \/ UNCHANGED vars
           \/ \E c \in {"bg", "fg"}, i \in Slots : BgfgLookup(c, i)
           \/ \E q \in Pids, b \in BOOLEAN : EvalFork(q, b)
  BY <1>1, <1>6 DEF EvalForkFails, EvalUnblock, EvalAnnounce, WaitfgReturn, Quit, Terminate,
              FgCheck, BgCont, FgCont, Stopped, BgfgLookup, EvalFork
<1>7. CASE ChldDone \/ ChldNullJob \/ \E q \in Pids : ChldWait(q)
  BY <1>1, <1>7 DEF ChldDone, ChldNullJob, ChldWait
<1>8. ASSUME NEW s \in Signals, \/ KeyIgnored(s) \/ KeyReadFg(s) \/ KeyForwardFails(s)
                                \/ TypeKey(s) \/ KeyForward(s) \/ Deliver(s)
      PROVE  StatesInv'
  BY <1>1, <1>8 DEF KeyIgnored, KeyReadFg, KeyForwardFails, TypeKey, KeyForward, Deliver
<1>9. ASSUME NEW q \in Pids, \/ ChildSetpgid(q) \/ ChildExec(q) \/ ChildExit(q)
                             \/ ExternalStop(q) \/ ExternalKill(q) \/ ExternalCont(q)
      PROVE  StatesInv'
  BY <1>1, <1>9 DEF ChildSetpgid, ChildExec, ChildExit, ExternalStop, ExternalKill, ExternalCont
<1> HIDE DEF IndInv
<1> QED
  BY TshAssumption, <1>2, <1>3, <1>4, <1>5, <1>6, <1>7, <1>8, <1>9
     DEF Next, MainNext, HandlerNext, EnvNext, Keys, Signals

\* Every step keeps a SIGCHLD for what waitpid would return.
LEMMA ReportsStep ==
  ASSUME IndInv, ReportsInv, TypeOK', [Next]_vars
  PROVE  ReportsInv'
<1> DEFINE Left == unseen # {} \/ \E p \in Pids : proc[p] \in Zombies
           Told == "CHLD" \in pending \/ Active("CHLD")
<1> USE DEF IndInv, TypeOK, Zombies, MainRuns, HandlerRuns, ToPrompt,
            Continue, vars, tableVars, kernelVars, mainVars, sigVars
<1>1. ASSUME Left' => Left, Told => Told' PROVE ReportsInv'
  BY <1>1 DEF ReportsInv
<1>2. ASSUME Told' PROVE ReportsInv'
  BY <1>2 DEF ReportsInv
<1> HIDE DEF Left, Told
<1>3. CASE \/ EvalForkFails \/ EvalUnblock \/ EvalAnnounce \/ WaitfgReturn \/ Quit \/ Terminate
           \/ BgCheck \/ FgCheck \/ BgSet \/ FgSet \/ Stopped \/ UNCHANGED vars
           \/ ChldUpdate \/ ChldNullJob \/ EvalAddjob
           \/ \E c \in {"bg", "fg"}, i \in Slots : BgfgLookup(c, i)
           \/ \E s \in Keys : KeyReadFg(s) \/ KeyForwardFails(s) \/ TypeKey(s)
  <2>1. UNCHANGED <<proc, unseen, stack>> /\ pending \subseteq pending'
    BY <1>3 DEF EvalForkFails, EvalUnblock, EvalAnnounce, WaitfgReturn, Quit, Terminate,
              BgCheck, FgCheck, BgSet, FgSet, Stopped, BgfgLookup, ChldUpdate, ChldNullJob,
              EvalAddjob, KeyReadFg, KeyForwardFails, TypeKey
  <2> QED
    BY <1>1, <2>1 DEF Left, Told, Active
<1>4. ASSUME NEW q \in Pids, NEW st \in ProcStates \ Zombies, proc' = [proc EXCEPT ![q] = st],
             UNCHANGED <<unseen, stack, pending>>
      PROVE  ReportsInv'
  BY <1>1, <1>4 DEF Left, Told, Active
<1>5. ASSUME NEW q \in Pids, \/ ChildSetpgid(q) \/ ChildExec(q)
                             \/ \E b \in BOOLEAN : EvalFork(q, b)
      PROVE  ReportsInv'
  BY <1>4, <1>5 DEF ChildSetpgid, ChildExec, EvalFork, ProcStates
<1>6. ASSUME NEW q \in Pids, ChildExit(q) \/ ExternalStop(q) \/ ExternalKill(q) \/ ExternalCont(q)
      PROVE  ReportsInv'
  <2>1. "CHLD" \in pending'
    BY <1>6 DEF ChildExit, ExternalStop, ExternalKill, ExternalCont
  <2> QED
    BY <1>2, <2>1 DEF Told
<1>7. CASE BgCont \/ FgCont
  <2>1. \/ "CHLD" \in pending'
        \/ UNCHANGED <<proc, unseen, stack, pending>>
    <3>1. Continue(jobs[slot].pid) /\ UNCHANGED stack
      BY <1>7 DEF BgCont, FgCont
    <3> QED
      BY <3>1
  <2> QED
    BY <1>1, <1>2, <2>1 DEF Left, Told, Active
<1>8. ASSUME NEW s \in Signals, Deliver(s)
      PROVE  ReportsInv'
  <2>1. Active(s)' /\ (Active("CHLD") => Active("CHLD")')
    <3>1. /\ Len(stack') = Len(stack) + 1 /\ Len(stack) \in Nat /\ stack'[1] = s
          /\ \A i \in 1..Len(stack) : stack'[i + 1] = stack[i]
      BY <1>8 DEF Deliver
    <3>2. \A i \in 1..Len(stack) : i + 1 \in 1..Len(stack')
      BY <3>1
    <3>3. Active(s)'
      BY <3>1 DEF Active
    <3>4. ASSUME Active("CHLD") PROVE Active("CHLD")'
      <4>1. PICK i \in 1..Len(stack) : stack[i] = "CHLD"
        BY <3>4 DEF Active
      <4>2. stack'[i + 1] = "CHLD" /\ i + 1 \in 1..Len(stack')
        BY <3>1, <3>2, <4>1
      <4> QED
        BY <4>2 DEF Active
    <3> QED
      BY <3>3, <3>4
  <2>2. UNCHANGED <<proc, unseen>> /\ pending' = pending \ {s}
    BY <1>8 DEF Deliver
  <2> QED
    BY <1>1, <1>2, <2>1, <2>2 DEF Left, Told
<1>9. ASSUME NEW s \in Keys, KeyIgnored(s) \/ KeyForward(s)
      PROVE  ReportsInv'
  <2>1. Active("CHLD") => Active("CHLD")'
    BY <1>9, StackPop DEF KeyIgnored, KeyForward, Keys
  <2>2. \/ "CHLD" \in pending'
        \/ UNCHANGED <<proc, unseen, pending>>
    BY <1>9 DEF KeyIgnored, KeyForward, Signalled
  <2> QED
    BY <1>1, <1>2, <2>1, <2>2 DEF Left, Told
<1>10. ASSUME NEW q \in Pids, ChldWait(q)
       PROVE  ReportsInv'
  <2>1. Active("CHLD") /\ UNCHANGED stack
    BY <1>10, LenProperties DEF ChldWait, Active
  <2> QED
    BY <1>2, <2>1 DEF Told, Active
<1>11. CASE ChldDone
  <2>1. ~Left'
    BY <1>11 DEF ChldDone, Left
  <2> QED
    BY <2>1 DEF ReportsInv, Left
<1> HIDE DEF IndInv, TypeOK
<1> QED
  BY TshAssumption, <1>3, <1>5, <1>6, <1>7, <1>8, <1>9, <1>10, <1>11
     DEF Next, MainNext, HandlerNext, EnvNext, Keys, Signals

\* While main runs, the handler of SIGCHLD holds no status.
LEMMA NoStatusInMain ==
  ASSUME IndInv, stack = <<>>
  PROVE  status = NoStatus
BY DEF IndInv, StatusInv, Active

\* eval masks SIGCHLD, so a status is read only after addjob.
LEMMA NotForkedInHandler ==
  ASSUME IndInv, HandlerRuns("CHLD")
  PROVE  pc # "forked"
<1>1. Active("CHLD")
  BY LenProperties DEF IndInv, TypeOK, HandlerRuns, Active
<1> QED
  BY <1>1 DEF IndInv, MaskInv, LocalsInv

\* Every step keeps a job for the child whose status the handler holds.
LEMMA NullJobStep ==
  ASSUME IndInv, EveryChildTracked, NullJobInv, [Next]_vars
  PROVE  NullJobInv'
<1> SUFFICES ASSUME MaxPid <= MAXJOBS
             PROVE  (status' # NoStatus => Tracked(status.pid)') /\ shell' # "segv"
  BY DEF NullJobInv
<1> USE DEF MainRuns, ToPrompt, vars, tableVars, kernelVars, mainVars, sigVars
<1>0. (status # NoStatus => Tracked(status.pid)) /\ shell # "segv"
  BY DEF NullJobInv
<1>1. CASE EvalAddjob \/ BgSet \/ FgSet
  <2>1. status = NoStatus /\ UNCHANGED <<status, shell>>
    BY <1>1, NoStatusInMain DEF EvalAddjob, BgSet, FgSet
  <2> QED
    BY <1>0, <2>1
<1>2. ASSUME NEW p \in Pids, ChldWait(p)
      PROVE  (status' # NoStatus => Tracked(status.pid)') /\ shell' # "segv"
  <2>1. Tracked(p)
    <3>1. pc # "forked" /\ proc[p] \notin {"free", "reaped"}
      BY <1>2, NotForkedInHandler DEF ChldWait, Zombies
    <3> QED
      BY <3>1 DEF EveryChildTracked
  <2>2. status'.pid = p /\ UNCHANGED <<jobs, shell>>
    BY <1>2 DEF ChldWait
  <2> QED
    BY <1>0, <2>1, <2>2 DEF Tracked, Used
<1>3. CASE ChldUpdate
  BY <1>0, <1>3 DEF ChldUpdate, NoStatus
<1>4. CASE ChldNullJob
  <2>1. status # NoStatus /\ status.pid \in Nat \ {0} /\ getjobpid(jobs, status.pid) = NoSlot
    BY <1>4, TableOfTypeOK DEF ChldNullJob, NoStatus, IndInv, StatusInv
  <2> QED
    BY <1>0, <2>1, GetjobpidFound DEF Tracked, Used
<1>5. CASE UNCHANGED <<jobs, status>> /\ shell' # "segv"
  BY <1>0, <1>5 DEF Tracked, Used
<1>6. CASE \/ EvalForkFails \/ EvalUnblock \/ EvalAnnounce \/ WaitfgReturn \/ Quit \/ Terminate
           \/ BgCheck \/ FgCheck \/ BgCont \/ FgCont \/ ChldDone \/ Stopped \/ UNCHANGED vars
           \/ \E c \in {"bg", "fg"}, i \in Slots : BgfgLookup(c, i)
           \/ \E q \in Pids, b \in BOOLEAN : EvalFork(q, b)
  BY <1>0, <1>5, <1>6 DEF EvalForkFails, EvalUnblock, EvalAnnounce, WaitfgReturn, Quit, Terminate,
              BgCheck, FgCheck, BgCont, FgCont, ChldDone, Stopped, BgfgLookup, EvalFork
<1>7. ASSUME NEW s \in Signals, \/ KeyIgnored(s) \/ KeyReadFg(s) \/ KeyForwardFails(s)
                                \/ TypeKey(s) \/ KeyForward(s) \/ Deliver(s)
      PROVE  (status' # NoStatus => Tracked(status.pid)') /\ shell' # "segv"
  BY <1>0, <1>5, <1>7 DEF KeyIgnored, KeyReadFg, KeyForwardFails, TypeKey, KeyForward, Deliver
<1>8. ASSUME NEW q \in Pids, \/ ChildSetpgid(q) \/ ChildExec(q) \/ ChildExit(q)
                             \/ ExternalStop(q) \/ ExternalKill(q) \/ ExternalCont(q)
      PROVE  (status' # NoStatus => Tracked(status.pid)') /\ shell' # "segv"
  BY <1>0, <1>5, <1>8 DEF ChildSetpgid, ChildExec, ChildExit, ExternalStop, ExternalKill, ExternalCont
<1> QED
  BY TshAssumption, <1>1, <1>2, <1>3, <1>4, <1>6, <1>7, <1>8
     DEF Next, MainNext, HandlerNext, EnvNext, Keys, Signals

\* kill(-p, SIGCONT) of do_bgfg leaves p running or dead and reported.
LEMMA ContinueEffect ==
  ASSUME TypeOK, NEW p \in Pids, Continue(p)
  PROVE  /\ proc'[p] # "stopped" /\ p \notin unseen' \ unseen
         /\ p \in unseen' => proc[p] # "stopped"
         /\ \A q \in Pids : q # p => proc'[q] = proc[q] /\ (q \in unseen' <=> q \in unseen)
         /\ proc[p] # "stopped" => proc' = proc /\ unseen' = unseen
BY DEF Continue, TypeOK, kernelVars

\* Every step keeps what is known of the stopped children.
LEMMA StopsStep ==
  ASSUME IndInv, StopsInv, "CONT" \notin ExtSignals, TypeOK', [Next]_vars
  PROVE  StopsInv'
<1> USE DEF StopsInv, Halted, Zombies, NoStatus, MainRuns, ToPrompt,
            vars, tableVars, kernelVars, mainVars, sigVars
<1>0. /\ TypeOK
      /\ proc \in [Pids -> ProcStates] /\ unseen \subseteq Pids
      /\ status.how = "stopped" => status.pid \in Pids
      /\ pc = "forked" => cur \in Pids
  BY DEF IndInv, TypeOK, StatusInv, LocalsInv
<1>1. CASE \/ EvalForkFails \/ EvalUnblock \/ EvalAnnounce \/ WaitfgReturn \/ Quit \/ Terminate
           \/ BgCheck \/ FgCheck \/ BgSet \/ FgSet \/ Stopped \/ UNCHANGED vars
           \/ ChldNullJob \/ EvalAddjob
           \/ \E c \in {"bg", "fg"}, i \in Slots : BgfgLookup(c, i)
           \/ \E s \in Keys : KeyReadFg(s) \/ KeyForwardFails(s) \/ TypeKey(s) \/ KeyIgnored(s)
           \/ \E s \in Signals : Deliver(s)
           \/ ChldDone
  BY <1>1 DEF EvalForkFails, EvalUnblock, EvalAnnounce, WaitfgReturn, Quit, Terminate,
              BgCheck, FgCheck, BgSet, FgSet, Stopped, BgfgLookup, ChldNullJob, ChldDone,
              EvalAddjob, KeyReadFg, KeyForwardFails, TypeKey, KeyIgnored, Deliver
<1>2. ASSUME NEW q \in Pids, NEW b \in BOOLEAN, EvalFork(q, b)
      PROVE  StopsInv'
  <2>1. status = NoStatus
    BY <1>2, NoStatusInMain DEF EvalFork
  <2> QED
    BY <1>0, <1>2, <2>1 DEF EvalFork
<1>3. CASE BgCont \/ FgCont
  <2>1. status = NoStatus /\ status' = status /\ pc' # "forked"
    BY <1>3, NoStatusInMain DEF BgCont, FgCont
  <2>2. Continue(jobs[slot].pid)
    BY <1>3 DEF BgCont, FgCont
  <2> QED
    BY <1>0, <2>1, <2>2 DEF Continue
<1>4. ASSUME NEW s \in Keys, KeyForward(s)
      PROVE  StopsInv'
  <2>1. PICK p \in Pids : Signalled(s, p)
    BY <1>0, <1>4 DEF KeyForward, TypeOK, HasGroup, Unread
  <2>2. UNCHANGED <<status, pc, cur>>
    BY <1>4 DEF KeyForward
  <2> QED
    BY <1>0, <2>1, <2>2 DEF Signalled
<1>5. ASSUME NEW q \in Pids, ChldWait(q)
      PROVE  StopsInv'
  <2>1. pc # "forked"
    BY <1>5, NotForkedInHandler DEF ChldWait
  <2> QED
    BY <1>0, <1>5, <2>1 DEF ChldWait
<1>6. CASE ChldUpdate
  <2>1. pc # "forked"
    BY <1>6, NotForkedInHandler DEF ChldUpdate
  <2> QED
    BY <1>6, <2>1 DEF ChldUpdate
<1>7. ASSUME NEW q \in Pids, ChildSetpgid(q) \/ ChildExec(q) \/ ChildExit(q)
      PROVE  StopsInv'
  BY <1>0, <1>7 DEF ChildSetpgid, ChildExec, ChildExit
<1>8. ASSUME NEW q \in Pids, ExternalStop(q) \/ ExternalKill(q) \/ ExternalCont(q)
      PROVE  StopsInv'
  BY <1>0, <1>8 DEF ExternalStop, ExternalKill, ExternalCont
<1> QED
  BY TshAssumption, <1>1, <1>2, <1>3, <1>4, <1>5, <1>6, <1>7, <1>8
     DEF Next, MainNext, HandlerNext, EnvNext, Keys, Signals

\* What a step may do to a child without disturbing MatchInv: nothing settled
\* is unsettled, and a child that is stopped afterwards is still reported, or
\* was stopped before without a report.
Undisturbed(p) ==
  /\ Settled(p) => Settled(p)'
  /\ proc'[p] = "stopped" =>
       \/ p \in unseen' \/ Reporting(p)'
       \/ proc[p] = "stopped" /\ p \notin unseen /\ ~Reporting(p)

\* A step with nothing but undisturbed children, that leaves the table alone
\* and neither leaves nor enters the places MatchInv names, keeps it.
LEMMA MatchFrame ==
  ASSUME IndInv, MatchInv, \A p \in Pids : Undisturbed(p), jobs' = jobs,
         \/ UNCHANGED <<pc, slot>>
         \/ pc \notin {"fgset", "bgcont", "waitfg"} /\ pc' # "bgcont"
  PROVE  MatchInv'
<1> SUFFICES ASSUME NEW i \in Used, NEW p \in Pids, p = jobs[i].pid
             PROVE  /\ jobs[i].state = "ST" => Settled(p)' \/ (pc' = "fgset" /\ slot' = i)
                    /\ jobs[i].state # "ST" /\ proc'[p] = "stopped" =>
                         \/ p \in unseen' \/ Reporting(p)'
                         \/ pc' = "bgcont" /\ slot' = i
                         \/ pc' = "waitfg" /\ jobs[i].state = "FG"
                    /\ pc' = "bgcont" /\ slot' = i => Settled(p)' /\ jobs[i].state # "ST"
  BY DEF IndInv, TypeOK, MatchInv, Used, Settled, Reporting, Halted
<1> DEFINE S == Settled(p)
           T == Settled(p)'
           R == Reporting(p)
           Q == Reporting(p)'
<1>1. /\ jobs[i].state = "ST" => S \/ (pc = "fgset" /\ slot = i)
      /\ jobs[i].state # "ST" /\ proc[p] = "stopped" =>
           \/ p \in unseen \/ R
           \/ pc = "bgcont" /\ slot = i
           \/ pc = "waitfg" /\ jobs[i].state = "FG"
      /\ pc = "bgcont" /\ slot = i => S /\ jobs[i].state # "ST"
  BY DEF MatchInv
<1>2. /\ S => T
      /\ proc'[p] = "stopped" =>
           p \in unseen' \/ Q \/ (proc[p] = "stopped" /\ p \notin unseen /\ ~R)
  BY DEF Undisturbed
<1> HIDE DEF S, T, R, Q
<1>3. /\ jobs[i].state = "ST" => T \/ (pc' = "fgset" /\ slot' = i)
      /\ jobs[i].state # "ST" /\ proc'[p] = "stopped" =>
           \/ p \in unseen' \/ Q
           \/ pc' = "bgcont" /\ slot' = i
           \/ pc' = "waitfg" /\ jobs[i].state = "FG"
      /\ pc' = "bgcont" /\ slot' = i => T /\ jobs[i].state # "ST"
  BY <1>1, <1>2
<1> QED
  BY <1>3 DEF T, Q

\* The steps of the kernel, of the children and of waitpid disturb no child.
LEMMA KernelUndisturbed ==
  ASSUME IndInv, StopsInv, "CONT" \notin ExtSignals,
         \/ UNCHANGED <<proc, unseen, status>>
         \/ \E q \in Pids, b \in BOOLEAN : EvalFork(q, b)
         \/ \E s \in Keys : KeyForward(s)
         \/ \E q \in Pids : \/ ChldWait(q) \/ ChildSetpgid(q) \/ ChildExec(q) \/ ChildExit(q)
                            \/ ExternalStop(q) \/ ExternalKill(q) \/ ExternalCont(q),
         NEW p \in Pids
  PROVE  Undisturbed(p)
<1> USE DEF Undisturbed, Settled, Reporting, Halted, Zombies, NoStatus, vars, kernelVars, sigVars
<1>0. /\ proc \in [Pids -> ProcStates]
      /\ \A q \in unseen : proc[q] = "stopped"
      /\ status.how = "stopped" => Halted(status.pid) /\ status.pid \in Pids
  BY DEF IndInv, TypeOK, StatusInv, StopsInv
<1>1. CASE UNCHANGED <<proc, unseen, status>>
  BY <1>1
<1>2. ASSUME NEW q \in Pids, NEW b \in BOOLEAN, EvalFork(q, b)
      PROVE  Undisturbed(p)
  BY <1>0, <1>2 DEF EvalFork
<1>3. ASSUME NEW s \in Keys, KeyForward(s)
      PROVE  Undisturbed(p)
  <2>1. PICK q \in Pids : Signalled(s, q)
    BY <1>3 DEF KeyForward, IndInv, TypeOK, HasGroup, Unread
  <2>2. status' = status
    BY <1>3 DEF KeyForward
  <2> QED
    BY <1>0, <2>1, <2>2 DEF Signalled
<1>4. ASSUME NEW q \in Pids, ChldWait(q)
      PROVE  Undisturbed(p)
  BY <1>0, <1>4 DEF ChldWait
<1>5. ASSUME NEW q \in Pids, ChildSetpgid(q) \/ ChildExec(q) \/ ChildExit(q)
      PROVE  Undisturbed(p)
  BY <1>0, <1>5 DEF ChildSetpgid, ChildExec, ChildExit
<1>6. ASSUME NEW q \in Pids, ExternalStop(q) \/ ExternalKill(q) \/ ExternalCont(q)
      PROVE  Undisturbed(p)
  BY <1>0, <1>6 DEF ExternalStop, ExternalKill, ExternalCont
<1> QED
  BY <1>1, <1>2, <1>3, <1>4, <1>5, <1>6

\* waitfg returns to a table without a foreground job.
LEMMA NoForegroundLeft ==
  ASSUME IndInv, WaitfgReturn, NEW i \in Used
  PROVE  jobs[i].state # "FG"
<1> SUFFICES ASSUME jobs[i].state = "FG" PROVE FALSE
  OBVIOUS
<1>1. i \in Slots /\ jobs[i].pid = cur /\ cur \in Nat \ {0}
  BY TableOfTypeOK DEF IndInv, TypeOK, OneForeground, Used
<1>2. getjobpid(jobs, cur) # NoSlot /\ getjobpid(jobs, cur) \in Used
      /\ jobs[getjobpid(jobs, cur)].pid = cur
  BY <1>1, GetjobpidFound DEF Used
<1>3. getjobpid(jobs, cur) = i
  BY <1>1, <1>2 DEF IndInv, InjectiveInv
<1> QED
  BY <1>2, <1>3 DEF WaitfgReturn

\* Every step keeps the states of the jobs in accord with the stops.
LEMMA MatchStep ==
  ASSUME IndInv, StatesInv, StopsInv, MatchInv, "CONT" \notin ExtSignals, TypeOK', [Next]_vars
  PROVE  MatchInv'
<1> USE DEF MainRuns, ToPrompt, vars, tableVars, kernelVars, mainVars, sigVars
<1>0. TypeOK /\ \A i \in Used : i \in Slots /\ jobs[i].pid \in Pids
  BY DEF IndInv, TypeOK, Used
<1>1. CASE \/ UNCHANGED <<jobs, proc, unseen, status>>
              /\ (UNCHANGED <<pc, slot>> \/ (pc \notin {"fgset", "bgcont", "waitfg"} /\ pc' # "bgcont"))
           \/ \E q \in Pids, b \in BOOLEAN : EvalFork(q, b)
           \/ \E s \in Keys : KeyForward(s)
           \/ \E q \in Pids : \/ ChldWait(q) \/ ChildSetpgid(q) \/ ChildExec(q) \/ ChildExit(q)
                              \/ ExternalStop(q) \/ ExternalKill(q) \/ ExternalCont(q)
  <2>1. \A p \in Pids : Undisturbed(p)
    BY <1>1, KernelUndisturbed
  <2>2. jobs' = jobs
        /\ (UNCHANGED <<pc, slot>> \/ (pc \notin {"fgset", "bgcont", "waitfg"} /\ pc' # "bgcont"))
    BY <1>1 DEF EvalFork, KeyForward, ChldWait, ChildSetpgid, ChildExec, ChildExit,
                ExternalStop, ExternalKill, ExternalCont
  <2> QED
    BY <2>1, <2>2, MatchFrame
<1>2. CASE \/ EvalForkFails \/ EvalUnblock \/ EvalAnnounce \/ Quit \/ Terminate
           \/ BgCheck \/ FgCheck \/ Stopped \/ UNCHANGED vars
           \/ ChldNullJob
           \/ \E c \in {"bg", "fg"}, i \in Slots : BgfgLookup(c, i)
           \/ \E s \in Keys : KeyReadFg(s) \/ KeyForwardFails(s) \/ TypeKey(s) \/ KeyIgnored(s)
           \/ \E s \in Signals : Deliver(s)
           \/ ChldDone
  <2>1. UNCHANGED <<jobs, proc, unseen, status>>
        /\ (UNCHANGED <<pc, slot>> \/ (pc \notin {"fgset", "bgcont", "waitfg"} /\ pc' # "bgcont"))
    BY <1>2 DEF EvalForkFails, EvalUnblock, EvalAnnounce, Quit, Terminate,
              BgCheck, FgCheck, Stopped, BgfgLookup, ChldNullJob, ChldDone,
              KeyReadFg, KeyForwardFails, TypeKey, KeyIgnored, Deliver
  <2> QED
    BY <1>1, <2>1
<1>3. CASE WaitfgReturn
  <2>1. \A i \in Used : jobs[i].state # "FG"
    BY <1>3, NoForegroundLeft
  <2>2. UNCHANGED <<jobs, proc, unseen, status>> /\ pc = "waitfg" /\ pc' = "prompt"
    BY <1>3 DEF WaitfgReturn
  <2> QED
    BY <2>1, <2>2 DEF MatchInv, Used, Settled, Reporting, Halted
<1>4. CASE EvalAddjob
  <2>1. UNCHANGED <<proc, unseen, status>> /\ pc = "forked" /\ pc' = "added" /\ cur \in Pids
        /\ (proc[cur] = "stopped" => cur \in unseen)
    BY <1>4 DEF EvalAddjob, StopsInv, IndInv, LocalsInv
  <2>2. CASE jobs' = jobs
    BY <2>1, <2>2 DEF MatchInv, Used, Settled, Reporting, Halted
  <2>3. ASSUME NEW i \in Slots, NEW st \in {"FG", "BG"},
               jobs' = [jobs EXCEPT ![i] = [pid |-> cur, jid |-> nextjid, state |-> st]]
        PROVE  MatchInv'
    <3>1. /\ jobs'[i].pid = cur /\ jobs'[i].state # "ST"
          /\ \A k \in Used' : k # i => k \in Used /\ jobs'[k] = jobs[k]
      BY <1>0, <2>3 DEF Used, TypeOK
    <3> QED
      BY <2>1, <3>1 DEF MatchInv, Settled, Reporting, Halted
  <2> QED
    BY <1>4, <2>2, <2>3, EvalAddjobShape
<1>5. CASE BgSet
  <2>1. /\ slot \in Slots
        /\ \A k \in Slots : jobs'[k].pid = jobs[k].pid /\ (k # slot => jobs'[k].state = jobs[k].state)
        /\ jobs'[slot].state = "BG"
    BY <1>5, BgfgSetShape DEF BgSet
  <2>2. UNCHANGED <<proc, unseen, status, slot>> /\ pc = "bgset" /\ pc' = "bgcont"
    BY <1>5 DEF BgSet
  <2>3. slot \in Used => Settled(jobs[slot].pid)
    BY <2>2 DEF StatesInv, MatchInv
  <2> QED
    BY <2>1, <2>2, <2>3 DEF MatchInv, Used, Settled, Reporting, Halted
<1>6. CASE FgSet
  <2>1. /\ slot \in Slots
        /\ \A k \in Slots : jobs'[k].pid = jobs[k].pid /\ (k # slot => jobs'[k].state = jobs[k].state)
        /\ jobs'[slot].state = "FG"
    BY <1>6, BgfgSetShape DEF FgSet
  <2>2. UNCHANGED <<proc, unseen, status, slot>> /\ pc = "fgset" /\ pc' = "waitfg"
    BY <1>6 DEF FgSet
  <2> QED
    BY <2>1, <2>2 DEF MatchInv, Used, Settled, Reporting, Halted
<1>7. CASE BgCont \/ FgCont
  <2>1. /\ status = NoStatus /\ status' = status /\ jobs' = jobs /\ slot \in Slots
        /\ \/ pc = "bgcont" /\ pc' = "prompt"
           \/ pc = "fgcont" /\ pc' = "fgset" /\ slot' = slot
    BY <1>7, NoStatusInMain DEF BgCont, FgCont, IndInv, LocalsInv, BgfgLocs
  <2>2. ASSUME slot \notin Used PROVE MatchInv'
    <3>1. UNCHANGED <<proc, unseen>>
      BY <1>7, <2>1, <2>2, TableOfTypeOK, <1>0 DEF BgCont, FgCont, Continue, Used
    <3> QED
      BY <2>1, <2>2, <3>1 DEF MatchInv, Used, Settled, Reporting, Halted
  <2>3. ASSUME slot \in Used PROVE MatchInv'
    <3> DEFINE c == jobs[slot].pid
    <3>1. c \in Pids /\ Continue(c)
      BY <1>0, <1>7, <2>3 DEF BgCont, FgCont
    <3>2. /\ proc'[c] # "stopped"
          /\ \A q \in Pids : q # c => proc'[q] = proc[q] /\ (q \in unseen' <=> q \in unseen)
      BY <1>0, <3>1, ContinueEffect
    <3>3. \A k \in Used : k # slot => jobs[k].pid # c
      BY <2>3 DEF IndInv, InjectiveInv
    <3>4. pc = "bgcont" => jobs[slot].state # "ST"
      BY <2>3 DEF MatchInv
    <3> HIDE DEF c
    <3>5. \A q \in Pids : q # c => (Settled(q) <=> Settled(q)') /\ (Reporting(q) <=> Reporting(q)')
      BY <2>1, <3>2 DEF Settled, Reporting, Halted
    <3>6. \A k \in Used : k # slot =>
             LET q == jobs[k].pid IN
             /\ jobs[k].state = "ST" => Settled(q)'
             /\ jobs[k].state # "ST" /\ proc'[q] = "stopped" => q \in unseen' \/ Reporting(q)'
      BY <1>0, <2>1, <3>2, <3>3, <3>5 DEF MatchInv
    <3>7. \A k \in Used : k = slot => proc'[jobs[k].pid] # "stopped"
      BY <3>2 DEF c
    <3> QED
      BY <2>1, <3>4, <3>6, <3>7 DEF MatchInv, Used, Settled, Reporting, Halted
  <2> QED
    BY <2>2, <2>3
<1>8. CASE ChldUpdate
  <2>1. /\ UNCHANGED <<proc, unseen, pc, slot>> /\ status' = NoStatus
        /\ status.pid \in Pids
    BY <1>8 DEF ChldUpdate, IndInv, StatusInv
  <2>2. \A q \in Pids : /\ Settled(q)' <=> Halted(q) /\ q \notin unseen
                        /\ ~Reporting(q)'
    BY <2>1 DEF Settled, Reporting, Halted, NoStatus
  <2>3. CASE status.how \in Zombies /\ \A k \in Used' : k \in Used /\ jobs'[k] = jobs[k]
    <3>1. \A q \in Pids : ~Reporting(q)
      BY <2>3 DEF Reporting, Zombies
    <3> QED
      BY <1>0, <2>1, <2>2, <2>3, <3>1 DEF MatchInv, Settled, Reporting, Halted
  <2>4. ASSUME NEW i \in Slots, jobs[i].pid = status.pid, status.how = "stopped",
               jobs' = [jobs EXCEPT ![i].state = "ST"]
        PROVE  MatchInv'
    <3>1. \A k \in Slots : /\ jobs'[k].pid = jobs[k].pid
                           /\ jobs'[k].state = IF k = i THEN "ST" ELSE jobs[k].state
      BY <1>0, <2>4, SetState
    <3>2. i \in Used
      BY <2>1, <2>4 DEF Used, Pids
    <3>3. /\ Halted(status.pid) /\ status.pid \notin unseen /\ Reporting(status.pid)
          /\ \A q \in Pids : Reporting(q) => q = status.pid
      BY <2>4, <1>0 DEF StopsInv, Reporting, TypeOK
    <3>4. \A k \in Used : k # i => jobs[k].pid # status.pid
      BY <2>4, <3>2 DEF IndInv, InjectiveInv
    <3>5. \A k \in Used : k # i => ~Reporting(jobs[k].pid)
      BY <1>0, <3>3, <3>4
    <3> QED
      BY <1>0, <2>1, <2>2, <2>4, <3>1, <3>2, <3>3, <3>5 DEF MatchInv, Used, Settled
  <2>5. ASSUME NEW i \in Slots, jobs' = [jobs EXCEPT ![i] = clearjob]
        PROVE  \A k \in Used' : k \in Used /\ jobs'[k] = jobs[k]
    BY <1>0, <2>5 DEF Used, clearjob, TypeOK
  <2>6. jobs' = jobs => \A k \in Used' : k \in Used /\ jobs'[k] = jobs[k]
    BY DEF Used
  <2> QED
    BY <1>8, <2>3, <2>4, <2>5, <2>6, ChldUpdateShape
<1> QED
  BY TshAssumption, <1>1, <1>2, <1>3, <1>4, <1>5, <1>6, <1>7, <1>8
     DEF Next, MainNext, HandlerNext, EnvNext, Keys, Signals

\* All that is proved of the reachable states, for any number of children,
\* any MAXJOBS and any signals from outside.
THEOREM ShellInvariance == Spec => []ShellInv
<1>1. Init => ShellInv
  <2> SUFFICES ASSUME Init PROVE ShellInv
    OBVIOUS
  <2>1. IndInv
    BY InitInvariant
  <2>2. Used = {}
    BY DEF Init, initjobs, clearjob, Used
  <2> QED
    BY <2>1, <2>2
    DEF ShellInv, Init, NoStatus, EveryChildTracked, NullJobInv, StatesInv, ReportsInv, Zombies, StopsInv, MatchInv
<1>2. ShellInv /\ [Next]_vars => ShellInv'
  <2> SUFFICES ASSUME ShellInv, [Next]_vars PROVE ShellInv'
    OBVIOUS
  <2>1. TypeOK'
    BY TypeStep DEF ShellInv, IndInv
  <2>2. IndInv'
    BY <2>1, IndStep DEF ShellInv
  <2>3. EveryChildTracked' /\ NullJobInv' /\ StatesInv' /\ ReportsInv'
    BY <2>1, TrackedStep, NullJobStep, StatesStep, ReportsStep DEF ShellInv
  <2>4. "CONT" \notin ExtSignals => StopsInv' /\ MatchInv'
    BY <2>1, StopsStep, MatchStep DEF ShellInv
  <2> QED
    BY <2>2, <2>3, <2>4 DEF ShellInv
<1> QED
  BY <1>1, <1>2, PTL DEF Spec

\* A table as long as there are children loses none of them: every child that
\* is neither reaped nor between fork and addjob has a job.
THEOREM ChildrenTracked == Spec => []EveryChildTracked
<1>1. ShellInv => EveryChildTracked
  BY DEF ShellInv
<1> QED
  BY <1>1, ShellInvariance, PTL

\* With a table that long sigchld_handler, which uses a job without looking
\* whether there is one, never uses a null job.
THEOREM NoNullJob ==
  ASSUME MaxPid <= MAXJOBS
  PROVE  Spec => [](shell # "segv")
<1>1. ShellInv => shell # "segv"
  BY DEF ShellInv, NullJobInv
<1> QED
  BY <1>1, ShellInvariance, PTL

\* At the prompt with no SIGCHLD outstanding the table is right about who is
\* stopped, as long as only the shell continues its jobs.
THEOREM TableIsRight ==
  ASSUME "CONT" \notin ExtSignals
  PROVE  Spec => []TableMatchesKernel
<1>1. ShellInv => TableMatchesKernel
  <2> SUFFICES ASSUME ShellInv, pc = "prompt", stack = <<>>, "CHLD" \notin pending, NEW i \in Used
               PROVE  jobs[i].state = "ST" <=> proc[jobs[i].pid] = "stopped"
    BY DEF TableMatchesKernel
  <2> DEFINE p == jobs[i].pid
  <2>1. status = NoStatus
    BY NoStatusInMain DEF ShellInv
  <2>2. unseen = {} /\ p \in Pids /\ proc[p] \notin Zombies
    BY DEF ShellInv, ReportsInv, Active, IndInv, TypeOK, Used
  <2>3. proc[p] # "reaped"
    BY <2>1, <2>2 DEF ShellInv, IndInv, NoStaleJob, NoStatus, Pids
  <2>4. /\ jobs[i].state = "ST" => Settled(p)
        /\ jobs[i].state # "ST" /\ proc[p] = "stopped" => p \in unseen \/ Reporting(p)
    BY DEF ShellInv, MatchInv
  <2> QED
    BY <2>1, <2>2, <2>3, <2>4 DEF Settled, Reporting, Halted, NoStatus
<1> QED
  BY <1>1, ShellInvariance, PTL

-----------------------------------------------------------------------------
(* The shell implements job control *)

\* A child that is not started, and the job of a child by its place.
Unstarted(p) == proc[p] = "free" \/ (pc = "forked" /\ cur = p)

LEMMA JobOfSlot ==
  ASSUME IndInv, NEW p \in Pids
  PROVE  /\ \A i \in Used : jobs[i].pid = p => JobOf(p) = jobs[i].state
         /\ ~Tracked(p) => JobOf(p) = IF Unstarted(p) THEN "none" ELSE "gone"
<1>1. ASSUME NEW i \in Used, jobs[i].pid = p
      PROVE  JobOf(p) = jobs[i].state
  <2>1. p \in Nat \ {0} /\ i \in Slots /\ Tracked(p)
    BY <1>1, TshAssumption DEF Used, Pids, Tracked
  <2>2. getjobpid(jobs, p) \in Used /\ jobs[getjobpid(jobs, p)].pid = p
    BY <1>1, <2>1, GetjobpidFound DEF Used
  <2>3. getjobpid(jobs, p) = i
    BY <1>1, <2>2 DEF IndInv, InjectiveInv
  <2> QED
    BY <2>1, <2>3 DEF JobOf
<1> QED
  BY <1>1 DEF JobOf, Unstarted

\* The same in the next state.
LEMMA JobOfSlotNext ==
  ASSUME IndInv', NEW p \in Pids
  PROVE  /\ \A i \in Used' : jobs'[i].pid = p => JobOf(p)' = jobs'[i].state
         /\ ~Tracked(p)' => JobOf(p)' = IF Unstarted(p)' THEN "none" ELSE "gone"
<1>1. ASSUME NEW i \in Used', jobs'[i].pid = p
      PROVE  JobOf(p)' = jobs'[i].state
  <2>1. p \in Nat \ {0} /\ i \in Slots /\ Tracked(p)'
    BY <1>1, TshAssumption DEF Used, Pids, Tracked
  <2>2. getjobpid(jobs', p) \in Used' /\ jobs'[getjobpid(jobs', p)].pid = p
    BY <1>1, <2>1, GetjobpidFound DEF Used
  <2>3. getjobpid(jobs', p) = i
    BY <1>1, <2>2 DEF IndInv, InjectiveInv
  <2> QED
    BY <2>1, <2>3 DEF JobOf
<1> QED
  BY <1>1 DEF JobOf, Unstarted

\* A child whose entry and start a step leaves alone keeps its job.
LEMMA JobFrame ==
  ASSUME IndInv, IndInv', NEW q \in Pids,
         \A k \in Slots : jobs[k].pid = q \/ jobs'[k].pid = q =>
           jobs'[k].pid = jobs[k].pid /\ jobs'[k].state = jobs[k].state,
         Unstarted(q) <=> Unstarted(q)'
  PROVE  JobOf(q)' = JobOf(q)
<1>1. Tracked(q) <=> Tracked(q)'
  BY DEF Tracked, Used
<1>2. CASE ~Tracked(q)
  BY <1>1, <1>2, JobOfSlot, JobOfSlotNext
<1>3. CASE Tracked(q)
  <2>1. PICK i \in Used : jobs[i].pid = q
    BY <1>3 DEF Tracked
  <2>2. i \in Slots /\ i \in Used' /\ jobs'[i].pid = q /\ jobs'[i].state = jobs[i].state
    BY <2>1 DEF Used
  <2> QED
    BY <2>1, <2>2, JobOfSlot, JobOfSlotNext
<1> QED
  BY <1>2, <1>3

\* The job function of the abstract specification after a change of one job.
LEMMA BecomeShape ==
  ASSUME NEW p \in Pids, NEW st, JobOf(p)' = st, Dead' = Dead,
         \A q \in Pids : q # p => JobOf(q)' = JobOf(q)
  PROVE  JC!Become(p, st)
BY DEF JC!Become

\* The step of the abstract specification, or none.
LEMMA StepShape ==
  ASSUME NEW p \in Pids,
         \/ JC!Start(p, "FG") \/ JC!Start(p, "BG")
         \/ JC!Stop(p) \/ JC!FgCommand(p) \/ JC!BgCommand(p)
         \/ JC!Die(p) \/ JC!End(p)
  PROVE  [JC!JCNext]_(JC!jcVars)
BY DEF JC!JCNext

LEMMA StutterShape ==
  ASSUME \A q \in Pids : JobOf(q)' = JobOf(q), Dead' = Dead
  PROVE  [JC!JCNext]_(JC!jcVars)
BY DEF JC!jcVars

\* Every step of the shell, the kernel and the environment is a step of job
\* control or changes nothing of it.
LEMMA RefinementStep ==
  ASSUME MaxPid <= MAXJOBS, ShellInv, IndInv', [Next]_vars
  PROVE  [JC!JCNext]_(JC!jcVars)
<1> USE DEF MainRuns, ToPrompt, vars, tableVars, kernelVars, mainVars, sigVars
<1> DEFINE Goal == [JC!JCNext]_(JC!jcVars)
<1>0. /\ IndInv /\ StatesInv /\ TypeOK /\ proc \in [Pids -> ProcStates]
      /\ \A i \in Used : i \in Slots /\ jobs[i].pid \in Pids
  BY DEF ShellInv, IndInv, TypeOK, Used
<1>1. ASSUME jobs' = jobs, \A q \in Pids : Unstarted(q) <=> Unstarted(q)'
      PROVE  \A q \in Pids : JobOf(q)' = JobOf(q)
  BY <1>0, <1>1, JobFrame
<1>2. ASSUME jobs' = jobs, \A q \in Pids : Unstarted(q) <=> Unstarted(q)', Dead' = Dead
      PROVE  Goal
  BY <1>1, <1>2, StutterShape
<1>3. ASSUME jobs' = jobs, \A q \in Pids : Unstarted(q) <=> Unstarted(q)',
             NEW p \in Pids, p \notin Dead, Dead' = Dead \cup {p}
      PROVE  Goal
  <2>1. JC!Die(p)
    BY <1>1, <1>3 DEF JC!Die
  <2> QED
    BY <2>1, StepShape
<1>4. CASE \/ EvalForkFails \/ EvalUnblock \/ EvalAnnounce \/ WaitfgReturn \/ Quit \/ Terminate
           \/ BgCheck \/ FgCheck \/ Stopped \/ UNCHANGED vars \/ ChldNullJob \/ ChldDone
           \/ \E c \in {"bg", "fg"}, i \in Slots : BgfgLookup(c, i)
           \/ \E s \in Keys : KeyReadFg(s) \/ KeyForwardFails(s) \/ TypeKey(s) \/ KeyIgnored(s)
           \/ \E s \in Signals : Deliver(s)
  <2>1. /\ jobs' = jobs /\ proc' = proc
        /\ UNCHANGED <<pc, cur>> \/ (pc # "forked" /\ pc' # "forked")
    BY <1>4 DEF EvalForkFails, EvalUnblock, EvalAnnounce, WaitfgReturn, Quit, Terminate,
              BgCheck, FgCheck, Stopped, BgfgLookup, ChldNullJob, ChldDone,
              KeyReadFg, KeyForwardFails, TypeKey, KeyIgnored, Deliver
  <2> QED
    BY <1>2, <2>1 DEF Unstarted, Dead
<1>5. ASSUME NEW p \in Pids, NEW b \in BOOLEAN, EvalFork(p, b)
      PROVE  Goal
  <2>1. /\ jobs' = jobs /\ pc = "prompt" /\ pc' = "forked" /\ cur' = p /\ proc[p] = "free"
        /\ \A q \in Pids : proc'[q] = IF q = p THEN "forked" ELSE proc[q]
    BY <1>0, <1>5 DEF EvalFork
  <2> QED
    BY <1>2, <2>1 DEF Unstarted, Dead, Zombies
<1>6. ASSUME NEW p \in Pids, NEW st \in ProcStates, proc' = [proc EXCEPT ![p] = st],
             jobs' = jobs, proc[p] # "free", st # "free",
             UNCHANGED <<pc, cur>> \/ (pc # "forked" /\ pc' # "forked"),
             p \in Dead => st \in Zombies \cup {"reaped"}
      PROVE  Goal
  <2>1. \A q \in Pids : proc'[q] = IF q = p THEN st ELSE proc[q]
    BY <1>0, <1>6
  <2>2. \A q \in Pids : Unstarted(q) <=> Unstarted(q)'
    BY <1>6, <2>1 DEF Unstarted
  <2>3. Dead' = Dead \/ (p \notin Dead /\ Dead' = Dead \cup {p})
    BY <1>6, <2>1 DEF Dead
  <2> QED
    BY <1>2, <1>3, <1>6, <2>2, <2>3
<1>7. ASSUME jobs' = jobs, proc' = proc, UNCHANGED <<pc, cur>> \/ (pc # "forked" /\ pc' # "forked")
      PROVE  Goal
  BY <1>2, <1>7 DEF Unstarted, Dead
<1> HIDE DEF Goal
<1>8. ASSUME NEW p \in Pids, \/ ChildSetpgid(p) \/ ChildExec(p) \/ ChildExit(p)
                             \/ ExternalStop(p) \/ ExternalKill(p)
      PROVE  Goal
  BY <1>6, <1>8 DEF ChildSetpgid, ChildExec, ChildExit, ExternalStop, ExternalKill, Dead, Zombies, ProcStates
<1>9. ASSUME NEW p, Continue(p), jobs' = jobs,
             UNCHANGED <<pc, cur>> \/ (pc # "forked" /\ pc' # "forked")
      PROVE  Goal
  <2>1. CASE p \in Pids /\ proc[p] = "stopped"
    <3>1. \E st \in {"killed", "running"} : proc' = [proc EXCEPT ![p] = st]
      BY <1>9, <2>1 DEF Continue
    <3> QED
      BY <1>6, <1>9, <2>1, <3>1 DEF Dead, Zombies, ProcStates
  <2>2. CASE ~(p \in Pids /\ proc[p] = "stopped")
    BY <1>7, <1>9, <2>2 DEF Continue
  <2> QED
    BY <2>1, <2>2
<1>10. ASSUME NEW p \in Pids, ExternalCont(p)
       PROVE  Goal
  BY <1>9, <1>10 DEF ExternalCont
<1>11. CASE BgCont \/ FgCont
  <2>1. PICK p : p = jobs[slot].pid
    OBVIOUS
  <2>2. Continue(p) /\ jobs' = jobs /\ pc # "forked" /\ pc' # "forked"
    BY <1>11, <2>1 DEF BgCont, FgCont
  <2> QED
    BY <1>9, <2>2 DEF Goal
<1>12. ASSUME NEW s \in Keys, KeyForward(s)
       PROVE  Goal
  <2>1. PICK p \in Pids : Signalled(s, p)
    BY <1>0, <1>12 DEF KeyForward, TypeOK, HasGroup, Unread
  <2>2. jobs' = jobs /\ UNCHANGED <<pc, cur>>
    BY <1>12 DEF KeyForward
  <2> QED
    BY <1>6, <1>7, <2>1, <2>2 DEF Signalled, Dead, Zombies, ProcStates
<1>13. ASSUME NEW p \in Pids, ChldWait(p)
       PROVE  Goal
  BY <1>6, <1>7, <1>13 DEF ChldWait, Dead, Zombies, ProcStates
<1>14. CASE EvalAddjob
  <2>1. /\ UNCHANGED <<proc, cur, bg>> /\ pc = "forked" /\ pc' = "added" /\ cur \in Pids
        /\ ~Tracked(cur) /\ ~TableFull(jobs)
    BY <1>0, <1>14, RoomForOne DEF EvalAddjob, IndInv, LocalsInv, ForkedInv
  <2>2. PICK i \in Slots, st \in {"FG", "BG"} :
              /\ jobs[i].pid = 0
              /\ jobs' = [jobs EXCEPT ![i] = [pid |-> cur, jid |-> nextjid, state |-> st]]
    BY <1>0, <1>14, <2>1, EvalAddjobShape
  <2>3. \A k \in Slots : /\ k # i => jobs'[k] = jobs[k]
                         /\ k = i => jobs'[k].pid = cur /\ jobs'[k].state = st
    BY <1>0, <2>2 DEF TypeOK
  <2>4. JobOf(cur) = "none"
    BY <1>0, <2>1, JobOfSlot DEF Unstarted
  <2>5. JobOf(cur)' = st
    <3>1. i \in Used' /\ jobs'[i].pid = cur /\ jobs'[i].state = st
      BY <2>1, <2>3 DEF Used, Pids
    <3> QED
      BY <2>1, <3>1, JobOfSlotNext
  <2>6. ASSUME NEW q \in Pids, q # cur PROVE JobOf(q)' = JobOf(q)
    <3>1. \A k \in Slots : jobs[k].pid = q \/ jobs'[k].pid = q => k # i
      BY <2>2, <2>3, <2>6 DEF Pids
    <3>2. Unstarted(q) <=> Unstarted(q)'
      BY <2>1, <2>6 DEF Unstarted
    <3> QED
      BY <1>0, <2>3, <3>1, <3>2, JobFrame
  <2>7. Dead' = Dead
    BY <2>1 DEF Dead
  <2>8. JC!Become(cur, st)
    BY <2>1, <2>5, <2>6, <2>7, BecomeShape
  <2>9. \A q \in Pids : JobOf(q) # "FG"
    <3>1. \A k \in Used : jobs[k].state # "FG"
      BY <1>0, <2>1 DEF IndInv, OneForeground
    <3> QED
      BY <1>0, <3>1, JobOfSlot DEF Tracked
  <2>10. JC!Start(cur, st)
    BY <2>1, <2>4, <2>8, <2>9 DEF JC!Start, JC!NoOtherForeground
  <2> QED
    BY <2>1, <2>10, StepShape DEF Goal
<1>15. CASE BgSet \/ FgSet
  <2>p. PICK p : p = jobs[slot].pid
    OBVIOUS
  <2>s. PICK st : st = IF pc = "bgset" THEN "BG" ELSE "FG"
    OBVIOUS
  <2>1. /\ UNCHANGED proc /\ pc \in {"bgset", "fgset"} /\ pc' # "forked"
        /\ slot \in Slots
        /\ \A k \in Slots : jobs'[k].pid = jobs[k].pid /\ (k # slot => jobs'[k].state = jobs[k].state)
        /\ jobs'[slot].state = st
    BY <1>0, <1>15, <2>s, BgfgSetShape DEF BgSet, FgSet
  <2>2. Dead' = Dead /\ \A q \in Pids : Unstarted(q) <=> Unstarted(q)'
    BY <2>1 DEF Dead, Unstarted
  <2>3. ASSUME NEW q \in Pids, q # p PROVE JobOf(q)' = JobOf(q)
    BY <1>0, <2>p, <2>1, <2>2, <2>3, JobFrame
  <2>4. CASE slot \notin Used
    <3>1. p \notin Pids
      BY <2>p, <2>1, <2>4 DEF Used, Pids
    <3> QED
      BY <2>2, <2>3, <3>1, StutterShape DEF Goal
  <2>5. CASE slot \in Used
    <3>1. p \in Pids /\ JobOf(p) = jobs[slot].state
      BY <1>0, <2>p, <2>5, JobOfSlot
    <3>2. slot \in Used' /\ jobs'[slot].pid = p
      BY <2>p, <2>1, <2>5 DEF Used
    <3>3. JobOf(p)' = st
      BY <2>1, <3>1, <3>2, JobOfSlotNext
    <3>4. JC!Become(p, st)
      BY <2>2, <2>3, <3>1, <3>3, BecomeShape
    <3>5. \A k \in Used : jobs[k].state # "FG"
      BY <1>0, <2>1 DEF IndInv, OneForeground
    <3>6. \A q \in Pids : JobOf(q) # "FG"
      BY <1>0, <3>5, JobOfSlot DEF Tracked
    <3>7. CASE pc = "bgset"
      <4>1. JC!BgCommand(p)
        BY <1>0, <2>5, <3>1, <3>4, <3>7, <2>s DEF StatesInv, JC!BgCommand
      <4> QED
        BY <3>1, <4>1, StepShape DEF Goal
    <3>8. CASE pc = "fgset"
      <4>1. JC!FgCommand(p)
        BY <1>0, <2>5, <3>1, <3>4, <3>6, <3>8, <2>s DEF StatesInv, JC!FgCommand, JC!NoOtherForeground
      <4> QED
        BY <3>1, <4>1, StepShape DEF Goal
    <3> QED
      BY <2>1, <3>7, <3>8
  <2> QED
    BY <2>4, <2>5
<1>16. CASE ChldUpdate
  <2>p. PICK p : p = status.pid
    OBVIOUS
  <2>1. /\ UNCHANGED <<proc, pc, cur>> /\ p \in Pids
        /\ status.how \in Zombies <=> proc[p] = "reaped"
    BY <2>p, <1>0, <1>16 DEF ChldUpdate, IndInv, StatusInv
  <2>2. Dead' = Dead /\ \A q \in Pids : Unstarted(q) <=> Unstarted(q)'
    BY <2>1 DEF Dead, Unstarted
  <2>3. CASE jobs' = jobs
    BY <1>2, <2>2, <2>3 DEF Goal
  <2>4. ASSUME NEW i \in Slots, jobs[i].pid = p, status.how \in Zombies,
               jobs' = [jobs EXCEPT ![i] = clearjob]
        PROVE  Goal
    <3>1. i \in Used /\ \A k \in Slots : /\ k # i => jobs'[k] = jobs[k]
                                         /\ k = i => jobs'[k].pid = 0
      BY <1>0, <2>1, <2>4 DEF Used, Pids, TypeOK, clearjob
    <3>2. JobOf(p) \in JC!Known
      BY <1>0, <2>1, <2>4, <3>1, JobOfSlot DEF StatesInv, JC!Known
    <3>3. ~Tracked(p)'
      BY <1>0, <2>4, <3>1 DEF Tracked, Used, IndInv, InjectiveInv
    <3>4. ~Unstarted(p)'
      BY <1>0, <2>1, <2>4 DEF Unstarted, IndInv, ForkedInv
    <3>5. JobOf(p)' = "gone"
      BY <2>1, <3>3, <3>4, JobOfSlotNext
    <3>6. ASSUME NEW q \in Pids, q # p PROVE JobOf(q)' = JobOf(q)
      <4>1. \A k \in Slots : jobs[k].pid = q \/ jobs'[k].pid = q => k # i
        BY <2>4, <3>1, <3>6 DEF Pids
      <4> QED
        BY <1>0, <2>2, <3>1, <4>1, JobFrame
    <3>7. p \in Dead
      BY <2>1, <2>4 DEF Dead
    <3>8. JC!End(p)
      BY <2>1, <2>2, <3>2, <3>5, <3>6, <3>7, BecomeShape DEF JC!End
    <3> QED
      BY <2>1, <3>8, StepShape DEF Goal
  <2>5. ASSUME NEW i \in Slots, jobs[i].pid = p, jobs' = [jobs EXCEPT ![i].state = "ST"]
        PROVE  Goal
    <3>1. \A k \in Slots : /\ jobs'[k].pid = jobs[k].pid
                           /\ jobs'[k].state = IF k = i THEN "ST" ELSE jobs[k].state
      BY <1>0, <2>5, SetState
    <3>2. i \in Used /\ i \in Used'
      BY <2>1, <2>5, <3>1 DEF Used, Pids
    <3>3. JobOf(p) = jobs[i].state /\ JobOf(p) \in {"FG", "BG", "ST"} /\ JobOf(p)' = "ST"
      BY <1>0, <2>1, <2>5, <3>1, <3>2, JobOfSlot, JobOfSlotNext DEF StatesInv
    <3>4. ASSUME NEW q \in Pids, q # p PROVE JobOf(q)' = JobOf(q)
      <4>1. \A k \in Slots : jobs[k].pid = q \/ jobs'[k].pid = q => k # i
        BY <2>5, <3>1, <3>4
      <4> QED
        BY <1>0, <2>2, <3>1, <4>1, JobFrame
    <3>5. CASE JobOf(p) = "ST"
      BY <2>2, <3>3, <3>4, <3>5, StutterShape DEF Goal
    <3>6. CASE JobOf(p) \in {"FG", "BG"}
      <4>1. JC!Stop(p)
        BY <2>1, <2>2, <3>3, <3>4, <3>6, BecomeShape DEF JC!Stop
      <4> QED
        BY <2>1, <4>1, StepShape DEF Goal
    <3> QED
      BY <3>3, <3>5, <3>6
  <2> QED
    BY <1>0, <1>16, <2>p, <2>3, <2>4, <2>5, ChldUpdateShape DEF Goal
<1> QED
  BY TshAssumption, <1>4, <1>5, <1>8, <1>10, <1>11, <1>12, <1>13, <1>14, <1>15, <1>16
     DEF Next, MainNext, HandlerNext, EnvNext, Keys, Signals, Goal

\* The shell implements job control when the table has room for every child:
\* whatever the handlers interrupt, jobs move as the comment at the head of
\* tsh.c draws it, and none ends before its process has died.
THEOREM ShellImplementsJobControl ==
  ASSUME MaxPid <= MAXJOBS
  PROVE  Spec => ImplementsJobControl
<1>1. Init => JC!JCInit
  <2> SUFFICES ASSUME Init PROVE JC!JCInit
    OBVIOUS
  <2>1. \A p \in Pids : ~Tracked(p) /\ Unstarted(p) /\ p \notin Dead
    BY DEF Init, initjobs, clearjob, Tracked, Used, Unstarted, Dead, Zombies
  <2>2. \A p \in Pids : JobOf(p) = "none"
    BY <2>1, InitInvariant, JobOfSlot
  <2>3. Dead = {}
    BY <2>1 DEF Dead
  <2> QED
    BY <2>2, <2>3 DEF JC!JCInit
<1>2. ShellInv /\ ShellInv' /\ [Next]_vars => [JC!JCNext]_(JC!jcVars)
  BY RefinementStep DEF ShellInv
<1> QED
  BY <1>1, <1>2, ShellInvariance, PTL DEF Spec, ImplementsJobControl, JC!JCSpec

=============================================================================
