--------------------------- MODULE MCCredentials ---------------------------
(* Small instances of Credentials for TLC.                                 *)
EXTENDS Credentials, TLC

\* The identities of workers never matter.
Symmetry == Permutations(Worker)
=============================================================================
