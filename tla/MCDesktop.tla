----------------------------- MODULE MCDesktop -----------------------------
EXTENDS Desktop, TLC

L(key, val) == [key |-> key, val |-> val]

\* No file, and one with a manual proxy of the user's, as the app's own is, between
\* other lines and with an empty line at the end.
MCLayout == {
    Missing,
    <<L("mode", "proxy"), L("other", "own"), L("addr", "own"), L("keyless", "own")>> }
MCValue == {"v1"}

Symmetry == Permutations(Box) \cup Permutations(Toggle)
=============================================================================
