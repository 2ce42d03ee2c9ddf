----------------------------- MODULE Supervisor -----------------------------
(***************************************************************************)
(* The tunnel supervisor of SplitStream: Supervisor::start, ::stop and the *)
(* thread that start() spawns (src/src-tauri/src/tunnel.rs).               *)
(*                                                                         *)
(* Four pieces of state are shared by every thread of the app: the         *)
(* `running` flag, the reported `status` and the two slots that hold the   *)
(* ssh child and the wstunnel relay.  start() only sets the flag and       *)
(* spawns a thread; stop() only clears it and empties the slots: nothing   *)
(* joins the old thread.  A thread therefore notices that it was stopped   *)
(* only at its next load of the flag, up to a sleep later, and by then the *)
(* user may have pressed Connect again.                                    *)
(*                                                                         *)
(* Every load, lock and store is a step.  A polling loop is modelled by    *)
(* its last iteration, whose outcome each try could have had; a spawn and  *)
(* the store of its handle are one step, because nothing can see a process *)
(* before it listens.  Each slot's lock is held while its process is       *)
(* killed and waited for (take() inside `if let`), so that is one step.    *)
(***************************************************************************)
EXTENDS Naturals, FiniteSets

CONSTANTS
    Thread,          \* threads start() may spawn; bounds how many can overlap
    Caller,          \* worker threads of the app that may be inside stop()
    Ssh,             \* ids for ssh processes; bounds how many can be alive
    Relay,           \* ids for relay processes
    NoProc,          \* None: an empty slot, a thread that owns no child
    RelayModes,      \* what start_tunnel() may decide: {FALSE}, or {TRUE, FALSE}
    InitialBackoff,  \* 5 seconds in the code
    MaxBackoff,      \* 60 seconds in the code
    MaxQuit          \* bounds how often the app is quit and launched again

ASSUME SupervisorAssumption ==
    /\ NoProc \notin Ssh \cup Relay
    /\ Ssh \cap Relay = {}
    /\ RelayModes \subseteq BOOLEAN
    /\ InitialBackoff \in Nat /\ MaxBackoff \in Nat
    /\ InitialBackoff <= MaxBackoff
    /\ MaxQuit \in Nat

VARIABLES
    running,     \* Supervisor.running
    status,      \* Supervisor.status
    child,       \* Supervisor.child: an ssh process or NoProc
    relayChild,  \* Supervisor.relay_child: a relay process or NoProc
    pc,          \* where each supervising thread is
    own,         \* the thread's local `child`, before it is stored
    useRelay,    \* the thread's `relay` argument is Some
    backoff,     \* the thread's local `backoff`
    stopPc,      \* where each caller of stop() is
    proc,        \* the operating system's view of every process
    orphans,     \* live processes that an earlier launch of the app left
    overlapped,  \* some start() ran before the previous thread or stop() ended
    quits        \* how often the app was quit

shared  == <<running, status, child, relayChild>>
local   == <<own, useRelay, backoff>>
world   == <<proc, orphans>>
history == <<overlapped, quits>>
vars    == <<shared, pc, local, stopPc, world, history>>

Proc == Ssh \cup Relay

\* The points of the thread between two accesses to shared state.
Looping == {"top", "starting", "relay", "relaySpawn", "relayWait", "relayDown",
            "spawn", "probe", "up", "store", "watch", "check", "health",
            "take", "reap", "after", "retry", "sleep"}
Label     == Looping \cup {"idle", "failed", "finish", "final"}
StopLabel == {"idle", "child", "relay", "status"}
StatusSet == {"Stopped", "Starting", "Connected", "Reconnecting", "Error"}

(***************************************************************************)
(* Processes.  "starting": alive, not listening; "serving": its listener   *)
(* answers; "hung": it holds the port and answers nobody.                  *)
(***************************************************************************)
ProcState == {"dead", "starting", "serving", "hung"}
Live(p)   == proc[p] # "dead"
Holds(p)  == proc[p] \in {"serving", "hung"}

Held(p) == p \in {child, relayChild} \/ \E t \in Thread : own[t] = p
Free(S) == {p \in S : ~Live(p) /\ ~Held(p)}

\* socks_healthy(): whoever listens on the local port completes the handshake.
Answering == \E p \in Ssh : proc[p] = "serving"

\* tcp_reachable("127.0.0.1", local_port): a TCP connect, so a hung listener does.
RelayListening == \E p \in Relay : Holds(p)

\* kill() and wait() on whatever a slot or a local variable held.
Killed(p) == IF p = NoProc THEN proc ELSE [proc EXCEPT ![p] = "dead"]

Init ==
    /\ running = FALSE
    /\ status = "Stopped"
    /\ child = NoProc
    /\ relayChild = NoProc
    /\ pc = [t \in Thread |-> "idle"]
    /\ own = [t \in Thread |-> NoProc]
    /\ useRelay = [t \in Thread |-> FALSE]
    /\ backoff = [t \in Thread |-> InitialBackoff]
    /\ stopPc = [c \in Caller |-> "idle"]
    /\ proc = [p \in Proc |-> "dead"]
    /\ orphans = {}
    /\ overlapped = FALSE
    /\ quits = 0

-----------------------------------------------------------------------------
(***************************************************************************)
(* start(): the flag is swapped; when it was clear, a thread is spawned.   *)
(***************************************************************************)
InProgress == \/ \E t \in Thread : pc[t] # "idle"
              \/ \E c \in Caller : stopPc[c] # "idle"

Start(t, r) ==
    /\ ~running
    /\ pc[t] = "idle"
    /\ running' = TRUE
    /\ pc' = [pc EXCEPT ![t] = "top"]
    /\ useRelay' = [useRelay EXCEPT ![t] = r]
    /\ backoff' = [backoff EXCEPT ![t] = InitialBackoff]
    /\ overlapped' = (overlapped \/ InProgress)
    /\ UNCHANGED <<status, child, relayChild, own, stopPc, world, quits>>

(***************************************************************************)
(* The supervising thread.                                                 *)
(***************************************************************************)
Goto(t, from, to) == pc[t] = from /\ pc' = [pc EXCEPT ![t] = to]

\* while running.load(..)
LoadRunning(t) ==
    /\ Goto(t, "top", IF running THEN "starting" ELSE "finish")
    /\ UNCHANGED <<shared, local, stopPc, world, history>>

\* Mutant: the new attempt is not reported.
SetStartingSilently(t) ==
    /\ Goto(t, "starting", IF useRelay[t] THEN "relay" ELSE "spawn")
    /\ UNCHANGED <<shared, local, stopPc, world, history>>

SetStarting(t) ==
    /\ Goto(t, "starting", IF useRelay[t] THEN "relay" ELSE "spawn")
    /\ status' = "Starting"
    /\ UNCHANGED <<running, child, relayChild, local, stopPc, world, history>>

\* need = the slot is empty, or try_wait() says the relay exited
CheckRelay(t) ==
    /\ Goto(t, "relay", IF relayChild # NoProc /\ Live(relayChild)
                        THEN "spawn" ELSE "relaySpawn")
    /\ UNCHANGED <<shared, local, stopPc, world, history>>

SpawnRelay(t) ==
    /\ Goto(t, "relaySpawn", "relayWait")
    /\ \E p \in Free(Relay) : /\ proc' = [proc EXCEPT ![p] = "starting"]
                              /\ relayChild' = p
    /\ UNCHANGED <<running, status, child, local, stopPc, orphans, history>>

SpawnRelayFails(t) ==
    /\ Goto(t, "relaySpawn", "failed")
    /\ status' = "Error"
    /\ UNCHANGED <<running, child, relayChild, local, stopPc, world, history>>

\* The wait for the relay's listener ends: it is up, or 30 tries found
\* nothing, or the flag was cleared.
RelayComesUp(t) ==
    /\ Goto(t, "relayWait", "spawn")
    /\ RelayListening
    /\ UNCHANGED <<shared, local, stopPc, world, history>>

RelayGivesUp(t) ==
    /\ Goto(t, "relayWait", "relayDown")
    /\ ~RelayListening \/ ~running
    /\ UNCHANGED <<shared, local, stopPc, world, history>>

\* Not an early exit: ssh is spawned all the same.
ReportRelayDown(t) ==
    /\ Goto(t, "relayDown", "spawn")
    /\ status' = "Reconnecting"
    /\ UNCHANGED <<running, child, relayChild, local, stopPc, world, history>>

SpawnSsh(t) ==
    /\ Goto(t, "spawn", "probe")
    /\ \E p \in Free(Ssh) : /\ proc' = [proc EXCEPT ![p] = "starting"]
                            /\ own' = [own EXCEPT ![t] = p]
    /\ UNCHANGED <<shared, useRelay, backoff, stopPc, orphans, history>>

SpawnSshFails(t) ==
    /\ Goto(t, "spawn", "failed")
    /\ status' = "Error"
    /\ UNCHANGED <<running, child, relayChild, local, stopPc, world, history>>

\* Mutant: a failed spawn returns with the flag still set.
GiveUpFlagKept(t) ==
    /\ Goto(t, "failed", "idle")
    /\ UNCHANGED <<shared, local, stopPc, world, history>>

\* Both failures clear the flag and return, past the end of the loop body
\* that would kill the relay.
GiveUp(t) ==
    /\ Goto(t, "failed", "idle")
    /\ running' = FALSE
    /\ UNCHANGED <<status, child, relayChild, local, stopPc, world, history>>

\* The probe: any listener's answer counts, this thread's own child or not.
ProbeUp(t) ==
    /\ Goto(t, "probe", "up")
    /\ Answering
    /\ UNCHANGED <<shared, local, stopPc, world, history>>

ProbeFails(t) ==
    /\ Goto(t, "probe", "reap")
    /\ ~running \/ ~Answering \/ ~Live(own[t])
    /\ UNCHANGED <<shared, local, stopPc, world, history>>

SetConnected(t) ==
    /\ Goto(t, "up", "store")
    /\ backoff' = [backoff EXCEPT ![t] = InitialBackoff]
    /\ status' = "Connected"
    /\ UNCHANGED <<running, child, relayChild, own, useRelay, stopPc, world, history>>

\* A handle already in the slot is dropped; dropping a Child does not kill it.
StoreChild(t) ==
    /\ Goto(t, "store", "watch")
    /\ child' = own[t]
    /\ own' = [own EXCEPT ![t] = NoProc]
    /\ UNCHANGED <<running, status, relayChild, useRelay, backoff, stopPc, world, history>>

\* Mutant: a cleared flag leaves the watch past the kill.
WatchRunningLeaves(t) ==
    /\ Goto(t, "watch", IF running THEN "check" ELSE "after")
    /\ UNCHANGED <<shared, local, stopPc, world, history>>

WatchRunning(t) ==
    /\ Goto(t, "watch", IF running THEN "check" ELSE "take")
    /\ UNCHANGED <<shared, local, stopPc, world, history>>

\* After five seconds: is the process in the slot, whoever's it is, dead?
CheckChild(t) ==
    /\ Goto(t, "check", IF child # NoProc /\ Live(child) THEN "health" ELSE "take")
    /\ UNCHANGED <<shared, local, stopPc, world, history>>

\* Mutant: a live process is good enough, no handshake is made.
CheckHealthSkipped(t) ==
    /\ Goto(t, "health", "watch")
    /\ UNCHANGED <<shared, local, stopPc, world, history>>

CheckHealth(t) ==
    /\ Goto(t, "health", IF Answering THEN "watch" ELSE "take")
    /\ UNCHANGED <<shared, local, stopPc, world, history>>

\* Mutant: the handle is dropped without a kill.
TakeChildUnkilled(t) ==
    /\ Goto(t, "take", "after")
    /\ child' = NoProc
    /\ UNCHANGED <<running, status, relayChild, local, stopPc, world, history>>

TakeChild(t) ==
    /\ Goto(t, "take", "after")
    /\ proc' = Killed(child)
    /\ child' = NoProc
    /\ UNCHANGED <<running, status, relayChild, local, stopPc, orphans, history>>

\* Mutant: a child that never came up is dropped without a kill.
ReapUnkilled(t) ==
    /\ Goto(t, "reap", "after")
    /\ own' = [own EXCEPT ![t] = NoProc]
    /\ UNCHANGED <<shared, useRelay, backoff, stopPc, world, history>>

Reap(t) ==
    /\ Goto(t, "reap", "after")
    /\ proc' = Killed(own[t])
    /\ own' = [own EXCEPT ![t] = NoProc]
    /\ UNCHANGED <<shared, useRelay, backoff, stopPc, orphans, history>>

AfterAttempt(t) ==
    /\ Goto(t, "after", IF running THEN "retry" ELSE "finish")
    /\ UNCHANGED <<shared, local, stopPc, world, history>>

\* Mutant: the relay is torn down for every retry.
ReportRetryUnrelayed(t) ==
    /\ Goto(t, "retry", "sleep")
    /\ status' = "Reconnecting"
    /\ proc' = Killed(relayChild)
    /\ relayChild' = NoProc
    /\ UNCHANGED <<running, child, local, stopPc, orphans, history>>

ReportRetry(t) ==
    /\ Goto(t, "retry", "sleep")
    /\ status' = "Reconnecting"
    /\ UNCHANGED <<running, child, relayChild, local, stopPc, world, history>>

\* Mutant: the delay doubles without a cap.
DoubledUncapped(b) == 2 * b

\* The sleep ends, early when the flag is cleared, and the delay doubles.
Doubled(b) == IF 2 * b < MaxBackoff THEN 2 * b ELSE MaxBackoff

Backoff(t) ==
    /\ Goto(t, "sleep", "top")
    /\ backoff' = [backoff EXCEPT ![t] = Doubled(@)]
    /\ UNCHANGED <<shared, own, useRelay, stopPc, world, history>>

\* Mutant: the handle is dropped and the relay runs on.
KillRelayUnkilled(t) ==
    /\ Goto(t, "finish", "final")
    /\ relayChild' = NoProc
    /\ UNCHANGED <<running, status, child, local, stopPc, world, history>>

KillRelay(t) ==
    /\ Goto(t, "finish", "final")
    /\ proc' = Killed(relayChild)
    /\ relayChild' = NoProc
    /\ UNCHANGED <<running, status, child, local, stopPc, orphans, history>>

\* Mutant: the thread ends without a last word.
SetStoppedSilently(t) ==
    /\ Goto(t, "final", "idle")
    /\ UNCHANGED <<shared, local, stopPc, world, history>>

SetStopped(t) ==
    /\ Goto(t, "final", "idle")
    /\ status' = "Stopped"
    /\ UNCHANGED <<running, child, relayChild, local, stopPc, world, history>>

Supervise(t) ==
    \/ LoadRunning(t) \/ SetStarting(t)
    \/ CheckRelay(t) \/ SpawnRelay(t) \/ SpawnRelayFails(t)
    \/ RelayComesUp(t) \/ RelayGivesUp(t) \/ ReportRelayDown(t)
    \/ SpawnSsh(t) \/ SpawnSshFails(t) \/ GiveUp(t)
    \/ ProbeUp(t) \/ ProbeFails(t) \/ SetConnected(t) \/ StoreChild(t)
    \/ WatchRunning(t) \/ CheckChild(t) \/ CheckHealth(t) \/ TakeChild(t)
    \/ Reap(t) \/ AfterAttempt(t) \/ ReportRetry(t) \/ Backoff(t)
    \/ KillRelay(t) \/ SetStopped(t)

-----------------------------------------------------------------------------
(***************************************************************************)
(* stop(), called by stop_tunnel, sign_out and reset_all.                  *)
(***************************************************************************)
StopGoto(c, from, to) == stopPc[c] = from /\ stopPc' = [stopPc EXCEPT ![c] = to]

StopBegin(c) ==
    /\ StopGoto(c, "idle", "child")
    /\ running' = FALSE
    /\ UNCHANGED <<status, child, relayChild, pc, local, world, history>>

StopChild(c) ==
    /\ StopGoto(c, "child", "relay")
    /\ proc' = Killed(child)
    /\ child' = NoProc
    /\ UNCHANGED <<running, status, relayChild, pc, local, orphans, history>>

StopRelay(c) ==
    /\ StopGoto(c, "relay", "status")
    /\ proc' = Killed(relayChild)
    /\ relayChild' = NoProc
    /\ UNCHANGED <<running, status, child, pc, local, orphans, history>>

StopStatus(c) ==
    /\ StopGoto(c, "status", "idle")
    /\ status' = "Stopped"
    /\ UNCHANGED <<running, child, relayChild, pc, local, world, history>>

StopRest(c) == StopChild(c) \/ StopRelay(c) \/ StopStatus(c)

-----------------------------------------------------------------------------
(***************************************************************************)
(* The tray's Quit calls app.exit(0): the threads die and the handles with *)
(* them, but no process is killed.  The next launch starts afresh.         *)
(***************************************************************************)
Quit ==
    /\ quits < MaxQuit
    /\ quits' = quits + 1
    /\ running' = FALSE
    /\ status' = "Stopped"
    /\ child' = NoProc
    /\ relayChild' = NoProc
    /\ pc' = [t \in Thread |-> "idle"]
    /\ own' = [t \in Thread |-> NoProc]
    /\ useRelay' = [t \in Thread |-> FALSE]
    /\ backoff' = [t \in Thread |-> InitialBackoff]
    /\ stopPc' = [c \in Caller |-> "idle"]
    /\ orphans' = {p \in Proc : Live(p)}
    /\ overlapped' = FALSE
    /\ UNCHANGED proc

(***************************************************************************)
(* The environment: ssh and wstunnel.  One process at a time can bind a    *)
(* local port; a listener may stop answering and answer again.             *)
(***************************************************************************)
Rivals(p) == (IF p \in Ssh THEN Ssh ELSE Relay) \ {p}

ProcServes(p) ==
    /\ proc[p] \in {"starting", "hung"}
    /\ \A q \in Rivals(p) : ~Holds(q)
    /\ proc' = [proc EXCEPT ![p] = "serving"]
    /\ UNCHANGED <<shared, pc, local, stopPc, orphans, history>>

ProcHangs(p) ==
    /\ proc[p] = "serving"
    /\ proc' = [proc EXCEPT ![p] = "hung"]
    /\ UNCHANGED <<shared, pc, local, stopPc, orphans, history>>

ProcExits(p) ==
    /\ Live(p)
    /\ proc' = [proc EXCEPT ![p] = "dead"]
    /\ orphans' = orphans \ {p}
    /\ UNCHANGED <<shared, pc, local, stopPc, history>>

Environment == \/ \E p \in Proc : ProcServes(p) \/ ProcExits(p)
               \/ \E p \in Ssh : ProcHangs(p)

Next ==
    \/ \E t \in Thread : Supervise(t) \/ \E r \in RelayModes : Start(t, r)
    \/ \E c \in Caller : StopBegin(c) \/ StopRest(c)
    \/ Quit
    \/ Environment

(***************************************************************************)
(* Threads and callers of stop() keep running: every loop of the code has  *)
(* a timeout and no lock is held forever.  Nothing makes the user press a  *)
(* button, or a process listen, hang or exit.                              *)
(***************************************************************************)
Fairness == /\ \A t \in Thread : WF_vars(Supervise(t))
            /\ \A c \in Caller : WF_vars(StopRest(c))

Spec     == Init /\ [][Next]_vars
FairSpec == Spec /\ Fairness

-----------------------------------------------------------------------------
(* Invariants. *)

\* Every variable has its type; a delay is never below the initial one nor
\* above the cap (tunnel.rs:280, 363, 405).
TypeOK ==
    /\ running \in BOOLEAN
    /\ status \in StatusSet
    /\ child \in Ssh \cup {NoProc}
    /\ relayChild \in Relay \cup {NoProc}
    /\ pc \in [Thread -> Label]
    /\ own \in [Thread -> Ssh \cup {NoProc}]
    /\ useRelay \in [Thread -> BOOLEAN]
    /\ backoff \in [Thread -> InitialBackoff..MaxBackoff]
    /\ stopPc \in [Caller -> StopLabel]
    /\ proc \in [Proc -> ProcState]
    /\ orphans \subseteq Proc
    /\ overlapped \in BOOLEAN
    /\ quits \in 0..MaxQuit

\* While the flag is set, and start() therefore refuses (tunnel.rs:268), some
\* thread is still in its loop: a wedged flag would make Connect a no-op.
RunningIsSupervised == running => \E t \in Thread : pc[t] \in Looping \cup {"failed"}

\* Whatever thread put an ssh process in the slot, some thread that will
\* empty it is still watching (tunnel.rs:365-388).
Watching == {"watch", "check", "health", "take"}
ChildIsWatched == child # NoProc => \E t \in Thread : pc[t] \in Watching

\* Where a thread may be while the status it reported last is still showing.
Leaving == {"after", "retry", "finish", "final"}
Attempt == {"spawn", "probe", "up", "reap"} \cup Leaving
ReportedFrom(s) ==
    CASE s = "Starting"     -> {"relay", "relaySpawn", "relayWait", "relayDown"} \cup Attempt
      [] s = "Connected"    -> {"store"} \cup Watching \cup Leaving
      [] s = "Reconnecting" -> {"sleep", "top", "starting"} \cup Attempt
      [] OTHER              -> Label

\* A status that says something is going on is backed by a thread at a point
\* where that is true, however starts and stops interleave.
StatusIsOwned ==
    status \in {"Starting", "Connected", "Reconnecting"} =>
        \E t \in Thread : pc[t] \in ReportedFrom(status)

\* Unless a start() overtook the previous thread or stop(), every process the
\* app spawned and that is alive can still be killed through a slot or a
\* thread (tunnel.rs:303, 365, 385-410, 417-426).
NoLostProcess == ~overlapped => \A p \in Proc : Live(p) => Held(p) \/ p \in orphans

(* Implementation. *)

\* What the window shows follows Tunnel: while the tunnel is wanted the statuses
\* come in the order of the attempts and never say Stopped, after stop() the old
\* thread's last word is Stopped or Error, and nothing is said after it
\* (tunnel.rs:289-412, 415-428), unless a start() overtook.
Display == INSTANCE Tunnel WITH wanted <- running, shown <- status,
                                busy <- InProgress, overtaken <- overlapped
ShowsTunnel == Display!Spec

(* Action properties. *)

\* Unless a start() overtook, and with no process left by an earlier launch,
\* the handshake that makes a thread report Connected was answered by its own
\* ssh (tunnel.rs:352; the probe itself cannot tell).
OwnHandshake ==
    \A t \in Thread : pc[t] = "probe" /\ pc'[t] = "up" => proc[own[t]] = "serving"
HandshakeIsOurs == [][~overlapped /\ orphans = {} => OwnHandshake]_vars

\* The relay outlives individual ssh restarts (tunnel.rs:32-34): while the
\* tunnel is wanted nothing but its own exit replaces it.
RelaySurvivesRetry ==
    [][~overlapped /\ running /\ running' /\ relayChild # NoProc =>
          (relayChild' # relayChild => ~Live(relayChild))]_vars

\* "leaving it running would hold the local port and make the next start fail"
\* (tunnel.rs:421-422): when a thread comes to its end no relay of this launch
\* is alive, unless a start() overtook.  A thread whose ssh could not be spawned
\* does leave the relay (tunnel.rs:334-343 returns past 407-410): the next
\* thread that runs to its end takes it along.
RelayNotLeftRunning ==
    [][\A t \in Thread : pc[t] = "final" /\ pc'[t] = "idle" /\ ~overlapped /\ ~running =>
          \A p \in Relay \ orphans : ~Live(p)]_vars

(* Liveness. *)

ThreadsEnded == \A t \in Thread : pc[t] = "idle"

\* Once the flag stays clear every thread ends, the app says Stopped or Error,
\* and, unless a start() overtook, no ssh of this launch is alive.
StopQuiesces ==
    <>[](~running) =>
        <>[](/\ ThreadsEnded
             /\ status \in {"Stopped", "Error"}
             /\ overlapped \/ \A p \in Ssh : Live(p) => p \in orphans)

\* Connected does not outlast the tunnel: if nothing answers on the port any
\* more, the status changes or something answers again (tunnel.rs:369-398).
DeadTunnelNoticed ==
    (status = "Connected" /\ ~Answering) ~> (status # "Connected" \/ Answering)

(* What the repository says and the code does not do. *)

\* "Supervises the plink child process and reports honest status"
\* (tunnel.rs:1): a supervised tunnel does not go on reading Stopped.
HonestStatus == (running /\ status = "Stopped") ~> (~running \/ status # "Stopped")
=============================================================================
