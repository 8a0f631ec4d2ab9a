-------------------------------- MODULE Csim --------------------------------
(***************************************************************************)
(* The cache simulator lab8/csim.c.  An access is one call of access_cache;*)
(* a line of the trace makes none, one or two of them.  The timestamps,    *)
(* which the code leaves to malloc, are those of a fresh heap: 0.          *)
(***************************************************************************)
EXTENDS Integers, FiniteSets

CONSTANTS
  s, E, b,      \* the options of the command line
  Addrs,        \* addresses in the trace
  MaxTime       \* bound on accesses in the runs

\* With E = 0 the code reads and writes set[-1].
ASSUME CsimAssumption ==
  /\ s \in Nat /\ E \in Nat \ {0} /\ b \in Nat
  /\ Addrs \subseteq Nat /\ MaxTime \in Nat

\* Powers of two are positive numbers, of which the prover knows nothing.
ASSUME PowerAssumption == {2^s, 2^b, 2^(s + b)} \subseteq Nat \ {0}

VARIABLES
  sim,          \* the simulator_t with its cache
  addr          \* the address of the last access, {} before the first

vars == <<sim, addr>>

\* explain_address, for s + b < 31: the shifts are of int.
SetOf(a) == (a \div 2^b) % 2^s
TagOf(a) == a \div 2^(s + b)

Sets == 0..2^s - 1
Lines == 1..E
Tags == {TagOf(a) : a \in Addrs}

TypeOK ==
  /\ addr \subseteq Addrs
  /\ sim.time \in Nat /\ sim.hits \in Nat /\ sim.misses \in Nat /\ sim.evictions \in Nat
  /\ sim.sets \in [Sets -> [Lines -> [valid : BOOLEAN, tag : Tags \cup {0}, timestamp : 0..sim.time]]]

init_cache == [x \in Sets |-> [i \in Lines |-> [valid |-> FALSE, tag |-> 0, timestamp |-> 0]]]
init_simulator == [sets |-> init_cache, time |-> 0, hits |-> 0, misses |-> 0, evictions |-> 0]
Init == sim = init_simulator /\ addr = {}

\* The lines of a set that hold a tag.
Matching(set, tag) == {i \in Lines : set[i].valid /\ set[i].tag = tag}

\* Mutant of Victim: the largest timestamp.
VictimNewest(set) ==
  CHOOSE i \in Lines : \A j \in Lines :
    \/ set[i].timestamp > set[j].timestamp
    \/ set[i].timestamp = set[j].timestamp /\ i <= j

\* The first line with the smallest timestamp.
Victim(set) ==
  CHOOSE i \in Lines : \A j \in Lines :
    \/ set[i].timestamp < set[j].timestamp
    \/ set[i].timestamp = set[j].timestamp /\ i <= j

\* Mutant of access_cache: a hit does not count as a use.
AccessFifo(c, a) ==
  LET set == c.sets[SetOf(a)]
      now == c.time + 1
      v   == Victim(set)
  IN IF Matching(set, TagOf(a)) # {}
       THEN [c EXCEPT !.time = now, !.hits = @ + 1]
       ELSE [c EXCEPT !.time = now, !.misses = @ + 1,
                      !.evictions = @ + IF set[v].valid THEN 1 ELSE 0,
                      !.sets[SetOf(a)][v] = [valid |-> TRUE, tag |-> TagOf(a), timestamp |-> now]]

\* Mutant of access_cache: the clock advances after it is read by a hit and
\* not on a miss.
AccessClockStops(c, a) ==
  LET set == c.sets[SetOf(a)]
      v   == Victim(set)
      now == c.time + 1
  IN IF Matching(set, TagOf(a)) # {}
       THEN [c EXCEPT !.time = now, !.hits = @ + 1]
       ELSE [c EXCEPT !.misses = @ + 1,
                      !.evictions = @ + IF set[v].valid THEN 1 ELSE 0,
                      !.sets[SetOf(a)][v] = [valid |-> TRUE, tag |-> TagOf(a), timestamp |-> now]]

access_cache(c, a) ==
  LET set  == c.sets[SetOf(a)]
      tag  == TagOf(a)
      now  == c.time + 1
      line == [valid |-> TRUE, tag |-> tag, timestamp |-> now]
  IN IF Matching(set, tag) # {}
       THEN LET i == CHOOSE i \in Matching(set, tag) : \A j \in Matching(set, tag) : i <= j
            IN  [c EXCEPT !.time = now, !.hits = @ + 1, !.sets[SetOf(a)][i] = line]
       ELSE LET v == Victim(set)
            IN  [c EXCEPT !.time = now, !.misses = @ + 1,
                          !.evictions = @ + IF set[v].valid THEN 1 ELSE 0,
                          !.sets[SetOf(a)][v] = line]

\* The lines of the trace: an instruction fetch, a load or store, a modify.
Instruction == UNCHANGED vars

LoadOrStore(a) ==
  /\ sim.time < MaxTime
  /\ sim' = access_cache(sim, a)
  /\ addr' = {a}

Modify(a) ==
  /\ sim.time + 1 < MaxTime
  /\ sim' = access_cache(access_cache(sim, a), a)
  /\ addr' = {a}

Next == Instruction \/ \E a \in Addrs : LoadOrStore(a) \/ Modify(a)

Spec == Init /\ [][Next]_vars

-----------------------------------------------------------------------------
(* Properties *)

\* The tags in the lines of a set, and which of them has the smaller timestamp.
HeldIn(set) == {set[i].tag : i \in {j \in Lines : set[j].valid}}
OlderIn(set) ==
  {p \in HeldIn(set) \X HeldIn(set) :
     \E i, j \in Lines :
       /\ set[i].valid /\ set[i].tag = p[1]
       /\ set[j].valid /\ set[j].tag = p[2]
       /\ set[i].timestamp < set[j].timestamp}

Lru == INSTANCE LruCache WITH
  held <- [x \in Sets |-> HeldIn(sim.sets[x])],
  older <- [x \in Sets |-> OlderIn(sim.sets[x])],
  hits <- sim.hits, misses <- sim.misses, evictions <- sim.evictions,
  accessed <- {<<SetOf(a), TagOf(a)>> : a \in addr}

\* The timestamps implement least-recently-used replacement, and the counts are
\* those of such a cache (lines 87-145).
ImplementsLru == Lru!LruSpec

\* A set never holds a tag twice and no two filled lines share a timestamp, on
\* which the choice of the victim rests (lines 99-143).
LinesDistinct ==
  \A x \in Sets : \A i, j \in Lines :
    LET u == sim.sets[x][i]  v == sim.sets[x][j] IN
    i # j /\ u.valid /\ v.valid => u.tag # v.tag /\ u.timestamp # v.timestamp

\* Every access is a hit or a miss, and what was brought in is still there or
\* was evicted (lines 98-143).
CountsAddUp ==
  LET filled == {p \in Sets \X Lines : sim.sets[p[1]][p[2]].valid} IN
  /\ sim.hits + sim.misses = sim.time
  /\ sim.misses = sim.evictions + Cardinality(filled)

=============================================================================
