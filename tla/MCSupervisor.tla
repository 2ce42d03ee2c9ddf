---------------------------- MODULE MCSupervisor ----------------------------
(* Small instances of Supervisor for TLC.                                  *)
EXTENDS Supervisor, TLC

\* The identities of threads, callers and processes never matter.
Symmetry == Permutations(Thread) \cup Permutations(Caller)
            \cup Permutations(Ssh) \cup Permutations(Relay)

(***************************************************************************)
(* The behaviours of a patient user, who presses Connect only after        *)
(* stop() has returned: the one call that may overtake anything is then a  *)
(* start() that overtakes the old thread.                                  *)
(***************************************************************************)
PatientNext == Next /\ (~running /\ running' => \A c \in Caller : stopPc[c] = "idle")
PatientSpec == Init /\ [][PatientNext]_vars /\ Fairness
=============================================================================
