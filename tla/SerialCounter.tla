--------------------------- MODULE SerialCounter ---------------------------
(***************************************************************************)
(* What next_serial() promises to sign_certificate() (server/enroll/       *)
(* enroll.py:219-238): the number after the last one, to one request at a  *)
(* time, through every end of the service; until the count is lost, after  *)
(* which it promises nothing.  EnrollServer implements it with a file, a   *)
(* flock and fsync.                                                        *)
(***************************************************************************)
EXTENDS Naturals

VARIABLES
    last,    \* the number that was given last
    given,   \* numbers of requests that are not signed yet
    used,    \* numbers of certificates
    lost     \* the count was lost

vars == <<last, given, used, lost>>

Init == last = 0 /\ given = {} /\ used = {} /\ lost = FALSE

Give ==
    /\ last' = last + 1
    /\ given' = given \cup {last + 1}
    /\ UNCHANGED <<used, lost>>

Certify(n) ==
    /\ given' = given \ {n}
    /\ used' = used \cup {n}
    /\ UNCHANGED <<last, lost>>

\* The request fails: its number is of no certificate.
Drop(n) ==
    /\ given' = given \ {n}
    /\ UNCHANGED <<last, used, lost>>

\* The service ends: the count goes on above every certificate.
Restart ==
    /\ given' = {}
    /\ last' \in Nat /\ \A n \in used : n <= last'
    /\ UNCHANGED <<used, lost>>

Lose == lost'

Next ==
    \/ Give
    \/ \E n \in given : Certify(n) \/ Drop(n)
    \/ Restart
    \/ Lose

Spec == Init /\ [][Next]_vars
=============================================================================
