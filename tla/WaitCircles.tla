---------------------------- MODULE WaitCircles ----------------------------
(***************************************************************************)
(* Which transactions wait for each other in a circle: what PostgreSQL's   *)
(* deadlock detector looks for, once for all the modules whose             *)
(* transactions wait for rows or unique keys.                              *)
(***************************************************************************)

\* Whoever waits in S waits for members of S only.
Closed(S, Node, waits) == \A u \in S, v \in Node : <<u, v>> \in waits => v \in S

\* n waits for itself, through any number of others: it is in every closed set
\* that holds those it waits for.
OnCircle(n, Node, waits) ==
    \A S \in SUBSET Node :
      /\ Closed(S, Node, waits)
      /\ \A v \in Node : <<n, v>> \in waits => v \in S
      => n \in S
=============================================================================
