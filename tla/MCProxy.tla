------------------------------ MODULE MCProxy ------------------------------
(***************************************************************************)
(* Scripts of the peers for the runs of Proxy.                             *)
(***************************************************************************)
EXTENDS Proxy, TLC

\* The connections are alike: sound for runs without liveness.
Symmetry == Permutations(Conns)

\* Clients that send a whole request, of each kind.
WholeRequests ==
  {[kind |-> k, headers |-> 1, cut |-> FALSE] : k \in {"get", "baduri", "post"}}

\* Plain requests only.
GetRequests == {[kind |-> "get", headers |-> 0, cut |-> FALSE]}

\* A request that opens a server connection and one that does not.
GetAndPost == GetRequests \cup {[kind |-> "post", headers |-> 0, cut |-> FALSE]}

\* Clients that may also stop in the middle, or send no path.
AllRequests ==
  WholeRequests \cup
  {[kind |-> "nothing", headers |-> 0, cut |-> TRUE],
   [kind |-> "get", headers |-> 1, cut |-> TRUE],
   [kind |-> "noslash", headers |-> 0, cut |-> FALSE]}

OneResponse == {[headers |-> 1, cut |-> FALSE, body |-> 1]}

\* Servers that may close early.
AllResponses ==
  OneResponse \cup
  {[headers |-> 0, cut |-> TRUE, body |-> 0]}

=============================================================================
