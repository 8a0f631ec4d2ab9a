-------------------------------- MODULE MCMm --------------------------------
(***************************************************************************)
(* Values of the constants of Mm.tla for model checking.                   *)
(***************************************************************************)
EXTENDS Mm, SequencesExt

\* Mallocs that leave holes of the sizes given when every second block is freed.
Holes(sizes) ==
  [k \in 1 .. 2 * Len(sizes) |->
     [i |-> k, size |-> IF k % 2 = 1 THEN sizes[(k + 1) \div 2] ELSE 16]]

\* The holes of a script are freed in every order.
FreedInOrder(sizes, more) ==
  {[do |-> Holes(sizes) \o [k \in DOMAIN order |-> [i |-> 2 * order[k] - 1, size |-> 0]],
    more |-> more] : order \in SetToSeqs(DOMAIN sizes)}

\* Trees of five sizes, trees of four with a chain, and a heap with three blocks.
SomeScripts ==
  FreedInOrder(<<16, 24, 32, 40, 48>>, 2)
  \cup FreedInOrder(<<16, 24, 24, 32, 40>>, 2)
  \cup {[do |-> [k \in 1 .. 3 |-> [i |-> k, size |-> 16]], more |-> 4]}
=============================================================================
