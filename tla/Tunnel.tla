------------------------------- MODULE Tunnel -------------------------------
(***************************************************************************)
(* What the app shows of its tunnel, from Connect to Disconnect: the states*)
(* of tunnel.rs:18-26 and the order in which a user may see them.  While   *)
(* the tunnel is wanted the status follows the attempts; after Disconnect  *)
(* the old attempt may report on until it ends, and it ends with Stopped or*)
(* Error.  A Connect that comes before that end overtakes: from then on    *)
(* nothing is promised until the app is launched anew.  Supervisor         *)
(* implements it with threads, two slots and processes.                    *)
(***************************************************************************)
VARIABLES
    wanted,    \* the user asked for a tunnel, and it was not given up
    shown,     \* the status
    busy,      \* something of an attempt or a disconnect is under way
    overtaken  \* a Connect came while it was

vars == <<wanted, shown, busy, overtaken>>

Shown == {"Stopped", "Starting", "Connected", "Reconnecting", "Error"}
Down  == {"Stopped", "Error"}

Init == wanted = FALSE /\ shown = "Stopped" /\ busy = FALSE /\ overtaken = FALSE

\* Nothing is under way: the status says so.
Connect ==
    /\ ~wanted /\ ~busy /\ shown \in Down
    /\ wanted' = TRUE /\ busy' = TRUE
    /\ UNCHANGED <<shown, overtaken>>

\* How the status of a wanted tunnel may change: it comes up, or retries, or is
\* given up; it never reads Stopped.
Order ==
    {<<"Stopped", "Starting">>, <<"Error", "Starting">>, <<"Reconnecting", "Starting">>,
     <<"Starting", "Connected">>, <<"Reconnecting", "Connected">>,
     <<"Starting", "Reconnecting">>, <<"Connected", "Reconnecting">>,
     <<"Starting", "Error">>, <<"Reconnecting", "Error">>}

Report ==
    /\ wanted /\ busy
    /\ <<shown, shown'>> \in Order
    /\ UNCHANGED <<wanted, busy, overtaken>>

GiveUp ==
    /\ wanted /\ shown = "Error"
    /\ wanted' = FALSE /\ busy' = FALSE
    /\ UNCHANGED <<shown, overtaken>>

Disconnect ==
    /\ wanted' = FALSE /\ busy' = TRUE
    /\ UNCHANGED <<shown, overtaken>>

\* What was under way when the tunnel was disconnected goes on, and ends.
WindDown ==
    /\ ~wanted /\ busy
    /\ shown' \in Shown
    /\ busy' \in BOOLEAN /\ (shown' \in Down \/ busy')
    /\ UNCHANGED <<wanted, overtaken>>

Overtake == ~wanted /\ busy /\ overtaken'

Adrift == overtaken /\ overtaken'

\* The app is quit and launched again.
Relaunch ==
    /\ wanted' = FALSE /\ shown' = "Stopped" /\ busy' = FALSE
    /\ overtaken' = FALSE

Next == \/ Connect \/ Report \/ GiveUp \/ Disconnect \/ WindDown
        \/ Overtake \/ Adrift \/ Relaunch

Spec == Init /\ [][Next]_vars
=============================================================================
