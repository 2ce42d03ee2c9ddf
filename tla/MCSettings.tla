----------------------------- MODULE MCSettings -----------------------------
(* Small instances of Settings for TLC.                                    *)
EXTENDS Settings, TLC

\* The identities of calls and of addresses never matter to a safety property.
Symmetry == Permutations(Call) \cup Permutations(Server)
=============================================================================
