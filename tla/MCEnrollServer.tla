--------------------------- MODULE MCEnrollServer ---------------------------
(* Small instances of EnrollServer for TLC.                                *)
EXTENDS EnrollServer, TLC

\* The identities of threads and of accounts never matter.
Symmetry == Permutations(Thread) \cup Permutations(Subject)
=============================================================================
