------------------------- MODULE WaitCirclesProofs -------------------------
(***************************************************************************)
(* Facts about transactions that wait in a circle, and about the measures  *)
(* by which the modules' transactions come closer to their ends.           *)
(***************************************************************************)
EXTENDS WaitCircles, FiniteSetTheorems, WellFoundedInduction, TLAPS

\* A nonempty collection of subsets of a finite set has a smallest one: the
\* form of induction the modules' measures use.
LEMMA SmallestSet ==
  ASSUME NEW N, IsFiniteSet(N), NEW C, C \subseteq SUBSET N, C # {}
  PROVE  \E S \in C : \A T \in C : T \subseteq S => T = S
<1>1. IsWellFoundedOn(StrictSubsetOrdering(N), SUBSET N)
  BY FS_StrictSubsetOrderingWellFounded, FS_FiniteSubsetsOfFinite
<1>2. PICK S \in C : \A T \in C : <<T, S>> \notin StrictSubsetOrdering(N)
  BY <1>1, WFMin
<1>3. ASSUME NEW T \in C, T \subseteq S PROVE T = S
  BY <1>2, <1>3 DEF StrictSubsetOrdering
<1> QED
  BY <1>3

\* Who is on a circle waits, and another waits for it.
LEMMA CircleNeighbours ==
  ASSUME NEW Node, NEW n \in Node, NEW waits, OnCircle(n, Node, waits), <<n, n>> \notin waits
  PROVE  /\ \E v \in Node : <<n, v>> \in waits
         /\ \E u \in Node : <<u, n>> \in waits
<1>1. Closed({}, Node, waits) /\ {} \in SUBSET Node
  BY DEF Closed
<1>2. \E v \in Node : <<n, v>> \in waits
  BY <1>1 DEF OnCircle
<1>3. ASSUME ~ \E u \in Node : <<u, n>> \in waits PROVE FALSE
  <2>1. Closed(Node \ {n}, Node, waits)
    BY <1>3 DEF Closed
  <2>2. Node \ {n} \in SUBSET Node /\ \A v \in Node : <<n, v>> \in waits => v \in Node \ {n}
    OBVIOUS
  <2> QED
    BY <2>1, <2>2 DEF OnCircle
<1> QED
  BY <1>2, <1>3
=============================================================================
