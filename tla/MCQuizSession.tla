---- MODULE MCQuizSession ----
(***************************************************************************)
(* QuizSession and QuizPromises on small instances.                        *)
(***************************************************************************)
EXTENDS QuizInvariant, TLC

CONSTANTS q1, q2, q3, r1, r2, r3

Symmetry == Permutations(Requests) \cup Permutations(Questions)

====
