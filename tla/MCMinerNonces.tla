--------------------------- MODULE MCMinerNonces ---------------------------
(***************************************************************************)
(* MinerNonces for TLC: two jobs of the user and one of the donation pool, *)
(* all with the same scratchpad size.                                      *)
(***************************************************************************)
EXTENDS MinerNonces, TLC

CONSTANTS u1, u2, d1, s1

\* The user's jobs share a dataset, the donation needs none.
MCSeedOfRandomX(j) == IF j = d1 THEN NoSeed ELSE s1

MCL3(j) == 1

\* The user's jobs are alike.
Symmetry == Permutations({u1, u2})
=============================================================================
