------------------------------ MODULE LruCache ------------------------------
(***************************************************************************)
(* What a set-associative cache with least-recently-used replacement does: *)
(* per set the tags it holds, which of them was used before which, and the *)
(* counts that lab8/csim.c reports.                                        *)
(***************************************************************************)
EXTENDS Integers, FiniteSets

CONSTANTS Sets, Tags, E

VARIABLES
  held,        \* the tags in a set
  older,       \* <<t, u>> in older[s]: t was last used before u
  hits, misses, evictions,
  accessed     \* the set and tag of the last access, {} before the first

lruVars == <<held, older, hits, misses, evictions, accessed>>

LruInit ==
  /\ held = [s \in Sets |-> {}]
  /\ older = [s \in Sets |-> {}]
  /\ hits = 0 /\ misses = 0 /\ evictions = 0
  /\ accessed = {}

\* The order in which the tags were used, once t is used and those of kept stay.
Used(kept, order, t) ==
  LET others == kept \ {t}
  IN (order \cap (others \X others)) \cup (others \X {t})

\* Access t in set s; extra more accesses follow at once, which must all hit.
Hit(s, t, extra) ==
  /\ t \in held[s]
  /\ older' = [older EXCEPT ![s] = Used(held[s], @, t)]
  /\ hits' = hits + 1 + extra
  /\ UNCHANGED <<held, misses, evictions>>

Fill(s, t, extra) ==
  /\ t \notin held[s] /\ Cardinality(held[s]) < E
  /\ held' = [held EXCEPT ![s] = @ \cup {t}]
  /\ older' = [older EXCEPT ![s] = Used(held[s], @, t)]
  /\ misses' = misses + 1 /\ hits' = hits + extra
  /\ UNCHANGED evictions

\* The tag that was used before all others makes room.
Replace(s, t, extra) ==
  /\ t \notin held[s] /\ Cardinality(held[s]) = E
  /\ \E v \in held[s] :
       /\ \A u \in held[s] \ {v} : <<v, u>> \in older[s]
       /\ held' = [held EXCEPT ![s] = (@ \ {v}) \cup {t}]
       /\ older' = [older EXCEPT ![s] = Used(held[s] \ {v}, @, t)]
  /\ misses' = misses + 1 /\ evictions' = evictions + 1 /\ hits' = hits + extra

LruNext ==
  \E s \in Sets, t \in Tags, extra \in 0..1 :
    /\ Hit(s, t, extra) \/ Fill(s, t, extra) \/ Replace(s, t, extra)
    /\ accessed' = {<<s, t>>}

LruSpec == LruInit /\ [][LruNext]_lruVars

=============================================================================
