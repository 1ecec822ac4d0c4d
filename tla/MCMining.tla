------------------------------ MODULE MCMining ------------------------------
(***************************************************************************)
(* Mining for TLC: two RandomX jobs that share a dataset, one with another *)
(* seed and one of another algorithm with another scratchpad size.         *)
(***************************************************************************)
EXTENDS Mining, TLC

CONSTANTS j1, j2, j3, j4, s1, s2

MCSeedOf(j) == CASE j \in {j1, j2} -> s1 [] j = j3 -> s2 [] OTHER -> NoSeed

MCL3(j) == IF j = j4 THEN 2 ELSE 1

\* Without donations the jobs with the first seed are alike.
Symmetry == Permutations(Workers) \cup Permutations({j1, j2})
=============================================================================
