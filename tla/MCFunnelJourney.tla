-------------------------- MODULE MCFunnelJourney --------------------------
(* Two journeys of one contact, two requests that overlap.                   *)
EXTENDS FunnelJourney, TLC
CONSTANTS p1, p2, q1, q2
MCJourney == {p1, p2}
MCOneJourney == {p1}
MCRequest == {q1, q2}
Symmetry == Permutations(MCJourney) \cup Permutations(MCRequest)
=============================================================================
