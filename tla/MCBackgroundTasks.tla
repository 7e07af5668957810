------------------------- MODULE MCBackgroundTasks -------------------------
(* Two tasks, two workers, two requests that overlap, two numbers.           *)
EXTENDS BackgroundTasks, TLC
CONSTANTS m1, m2, w1, w2, q1, q2, a, b
MCTask == {m1, m2}
MCWorker == {w1, w2}
MCRequest == {q1, q2}
MCPhones == {a, b}
Symmetry == Permutations(MCTask) \cup Permutations(MCWorker)
            \cup Permutations(MCRequest) \cup Permutations(MCPhones)
=============================================================================
