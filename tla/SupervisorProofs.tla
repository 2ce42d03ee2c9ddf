-------------------------- MODULE SupervisorProofs --------------------------
(***************************************************************************)
(* Machine-checked proofs about Supervisor, for every number of threads,   *)
(* callers and processes.                                                  *)
(***************************************************************************)
EXTENDS Supervisor, TLAPS

LEMMA DoubledInRange ==
  ASSUME NEW b \in InitialBackoff..MaxBackoff
  PROVE  Doubled(b) \in InitialBackoff..MaxBackoff
BY SupervisorAssumption DEF Doubled

LEMMA TypeInit == Init => TypeOK
<1> SUFFICES ASSUME Init PROVE TypeOK
  OBVIOUS
<1>1. running \in BOOLEAN /\ overlapped \in BOOLEAN
  BY DEF Init
<1>2. quits \in 0..MaxQuit /\ backoff \in [Thread -> InitialBackoff..MaxBackoff]
  BY SupervisorAssumption DEF Init
<1> QED
  BY <1>1, <1>2 DEF Init, TypeOK, Label, StopLabel, StatusSet, ProcState, Proc

LEMMA TypeStep == TypeOK /\ [Next]_vars => TypeOK'
<1> SUFFICES ASSUME TypeOK, [Next]_vars PROVE TypeOK'
  OBVIOUS
<1> USE SupervisorAssumption DEF TypeOK, shared, local, world, history
<1>1. ASSUME NEW t \in Thread, Supervise(t) PROVE TypeOK'
  <2> USE DEF Goto, Label, Looping, StatusSet, Proc, ProcState
  <2>1. CASE LoadRunning(t)
    BY <2>1 DEF LoadRunning
  <2>2. CASE SetStarting(t)
    BY <2>2 DEF SetStarting
  <2>3. CASE CheckRelay(t)
    BY <2>3 DEF CheckRelay
  <2>4. CASE SpawnRelay(t)
    BY <2>4 DEF SpawnRelay, Free
  <2>5. CASE SpawnRelayFails(t)
    BY <2>5 DEF SpawnRelayFails
  <2>6. CASE RelayComesUp(t)
    BY <2>6 DEF RelayComesUp
  <2>7. CASE RelayGivesUp(t)
    BY <2>7 DEF RelayGivesUp
  <2>8. CASE ReportRelayDown(t)
    BY <2>8 DEF ReportRelayDown
  <2>9. CASE SpawnSsh(t)
    BY <2>9 DEF SpawnSsh, Free
  <2>10. CASE SpawnSshFails(t)
    BY <2>10 DEF SpawnSshFails
  <2>11. CASE GiveUp(t)
    BY <2>11 DEF GiveUp
  <2>12. CASE ProbeUp(t)
    BY <2>12 DEF ProbeUp
  <2>13. CASE ProbeFails(t)
    BY <2>13 DEF ProbeFails
  <2>14. CASE SetConnected(t)
    BY <2>14 DEF SetConnected
  <2>15. CASE StoreChild(t)
    BY <2>15 DEF StoreChild
  <2>16. CASE WatchRunning(t)
    BY <2>16 DEF WatchRunning
  <2>17. CASE CheckChild(t)
    BY <2>17 DEF CheckChild
  <2>18. CASE CheckHealth(t)
    BY <2>18 DEF CheckHealth
  <2>19. CASE TakeChild(t)
    BY <2>19 DEF TakeChild, Killed
  <2>20. CASE Reap(t)
    BY <2>20 DEF Reap, Killed
  <2>21. CASE AfterAttempt(t)
    BY <2>21 DEF AfterAttempt
  <2>22. CASE ReportRetry(t)
    BY <2>22 DEF ReportRetry
  <2>23. CASE Backoff(t)
    BY <2>23, DoubledInRange DEF Backoff
  <2>24. CASE KillRelay(t)
    BY <2>24 DEF KillRelay, Killed
  <2>25. CASE SetStopped(t)
    BY <2>25 DEF SetStopped
  <2> QED
    BY <1>1, <2>1, <2>2, <2>3, <2>4, <2>5, <2>6, <2>7, <2>8, <2>9, <2>10, <2>11, <2>12, <2>13, <2>14, <2>15, <2>16, <2>17, <2>18, <2>19, <2>20, <2>21, <2>22, <2>23, <2>24, <2>25 DEF Supervise
<1>2. ASSUME NEW t \in Thread, NEW r \in RelayModes, Start(t, r) PROVE TypeOK'
  BY <1>2 DEF Start, Label, Looping
<1>3. ASSUME NEW c \in Caller, StopBegin(c) PROVE TypeOK'
  BY <1>3 DEF StopBegin, StopGoto, StopLabel
<1>4. ASSUME NEW c \in Caller, StopChild(c) PROVE TypeOK'
  BY <1>4 DEF StopChild, StopGoto, StopLabel, Killed, Proc, ProcState
<1>5. ASSUME NEW c \in Caller, StopRelay(c) PROVE TypeOK'
  BY <1>5 DEF StopRelay, StopGoto, StopLabel, Killed, Proc, ProcState
<1>6. ASSUME NEW c \in Caller, StopStatus(c) PROVE TypeOK'
  BY <1>6 DEF StopStatus, StopGoto, StopLabel, StatusSet
<1>7. ASSUME Quit PROVE TypeOK'
  <2>1. /\ pc' \in [Thread -> Label] /\ own' \in [Thread -> Ssh \cup {NoProc}]
        /\ useRelay' \in [Thread -> BOOLEAN] /\ stopPc' \in [Caller -> StopLabel]
        /\ backoff' \in [Thread -> InitialBackoff..MaxBackoff]
    BY <1>7 DEF Quit, Label, StopLabel
  <2>2. running' \in BOOLEAN /\ overlapped' \in BOOLEAN
    BY <1>7 DEF Quit
  <2>3. quits' \in 0..MaxQuit
    BY <1>7 DEF Quit
  <2> QED
    BY <1>7, <2>1, <2>2, <2>3 DEF Quit, StatusSet
<1>8. ASSUME Environment PROVE TypeOK'
  BY <1>8 DEF Environment, ProcServes, ProcHangs, ProcExits, Proc, ProcState
<1>9. ASSUME UNCHANGED vars PROVE TypeOK'
  BY <1>9 DEF vars

<1> QED
  BY <1>1, <1>2, <1>3, <1>4, <1>5, <1>6, <1>7, <1>8, <1>9 DEF Next, StopRest

\* Every reachable value has its type, and every delay between two attempts
\* lies between the initial one and the cap (tunnel.rs:280, 363, 405).
THEOREM TypeCorrect == Spec => []TypeOK
BY TypeInit, TypeStep, PTL DEF Spec

\* The flag is cleared before, or read clear as, a thread leaves its loop.
LEMMA RunningStep ==
  TypeOK /\ RunningIsSupervised /\ [Next]_vars
    => RunningIsSupervised'
<1> SUFFICES ASSUME TypeOK, RunningIsSupervised, [Next]_vars
             PROVE RunningIsSupervised'
  OBVIOUS
<1> USE DEF TypeOK, RunningIsSupervised, Looping, shared, local, world, history
<1>1. ASSUME NEW t \in Thread, Supervise(t) PROVE RunningIsSupervised'
  <2> USE DEF Goto
  <2>1. CASE GiveUp(t)
    BY <2>1 DEF GiveUp
  <2>2. CASE LoadRunning(t) \/ AfterAttempt(t)
    BY <2>2 DEF LoadRunning, AfterAttempt
  <2>3. CASE KillRelay(t) \/ SetStopped(t)
    BY <2>3 DEF KillRelay, SetStopped, Killed
  <2>4. CASE SetStarting(t) \/ CheckRelay(t) \/ SpawnRelay(t)
             \/ SpawnRelayFails(t) \/ RelayComesUp(t) \/ RelayGivesUp(t)
             \/ ReportRelayDown(t) \/ SpawnSsh(t) \/ SpawnSshFails(t)
             \/ ProbeUp(t) \/ ProbeFails(t) \/ SetConnected(t) \/ StoreChild(t)
             \/ WatchRunning(t) \/ CheckChild(t) \/ CheckHealth(t)
             \/ TakeChild(t) \/ Reap(t) \/ ReportRetry(t) \/ Backoff(t)
    BY <2>4 DEF SetStarting, CheckRelay, SpawnRelay, SpawnRelayFails, RelayComesUp,
       RelayGivesUp, ReportRelayDown, SpawnSsh, SpawnSshFails, ProbeUp, ProbeFails,
       SetConnected, StoreChild, WatchRunning, CheckChild, CheckHealth, TakeChild,
       Reap, ReportRetry, Backoff, Free, Killed
  <2> QED BY <1>1, <2>1, <2>2, <2>3, <2>4 DEF Supervise
<1>2. ASSUME NEW t \in Thread, NEW r \in RelayModes, Start(t, r) PROVE RunningIsSupervised'
  BY <1>2 DEF Start
<1>3. ASSUME NEW c \in Caller, StopBegin(c) \/ StopRest(c) PROVE RunningIsSupervised'
  BY <1>3 DEF StopBegin, StopRest, StopChild, StopRelay, StopStatus, StopGoto
<1>4. ASSUME Quit PROVE RunningIsSupervised'
  BY <1>4 DEF Quit
<1>5. ASSUME Environment \/ UNCHANGED vars PROVE RunningIsSupervised'
  BY <1>5 DEF Environment, ProcServes, ProcHangs, ProcExits, vars
<1> QED
  BY <1>1, <1>2, <1>3, <1>4, <1>5 DEF Next

\* A handle is stored on entering the watch loop and taken on leaving it.
LEMMA WatchStep == TypeOK /\ ChildIsWatched /\ [Next]_vars => ChildIsWatched'
<1> SUFFICES ASSUME TypeOK, ChildIsWatched, [Next]_vars PROVE ChildIsWatched'
  OBVIOUS
<1> USE DEF TypeOK, ChildIsWatched, Watching, shared, local, world, history
<1>1. ASSUME NEW t \in Thread, Supervise(t) PROVE ChildIsWatched'
  <2> USE DEF Goto
  <2>1. CASE StoreChild(t)
    BY <2>1 DEF StoreChild
  <2>2. CASE TakeChild(t)
    BY <2>2 DEF TakeChild, Killed
  <2>3. CASE LoadRunning(t) \/ SetStarting(t) \/ CheckRelay(t) \/ SpawnRelay(t)
             \/ SpawnRelayFails(t) \/ RelayComesUp(t) \/ RelayGivesUp(t)
             \/ ReportRelayDown(t) \/ SpawnSsh(t) \/ SpawnSshFails(t)
             \/ GiveUp(t) \/ ProbeUp(t) \/ ProbeFails(t) \/ SetConnected(t)
             \/ WatchRunning(t) \/ CheckChild(t) \/ CheckHealth(t) \/ Reap(t)
             \/ AfterAttempt(t) \/ ReportRetry(t) \/ Backoff(t) \/ KillRelay(t)
             \/ SetStopped(t)
    BY <2>3 DEF LoadRunning, SetStarting, CheckRelay, SpawnRelay, SpawnRelayFails,
       RelayComesUp, RelayGivesUp, ReportRelayDown, SpawnSsh, SpawnSshFails, GiveUp,
       ProbeUp, ProbeFails, SetConnected, WatchRunning, CheckChild, CheckHealth,
       Reap, AfterAttempt, ReportRetry, Backoff, KillRelay, SetStopped, Free, Killed
  <2> QED BY <1>1, <2>1, <2>2, <2>3 DEF Supervise
<1>2. ASSUME NEW t \in Thread, NEW r \in RelayModes, Start(t, r) PROVE ChildIsWatched'
  BY <1>2 DEF Start, Watching
<1>3. ASSUME NEW c \in Caller, StopBegin(c) \/ StopRest(c) PROVE ChildIsWatched'
  BY <1>3 DEF StopBegin, StopRest, StopChild, StopRelay, StopStatus, StopGoto
<1>4. ASSUME Quit PROVE ChildIsWatched'
  BY <1>4 DEF Quit
<1>5. ASSUME Environment \/ UNCHANGED vars PROVE ChildIsWatched'
  BY <1>5 DEF Environment, ProcServes, ProcHangs, ProcExits, vars
<1> QED
  BY <1>1, <1>2, <1>3, <1>4, <1>5 DEF Next

\* A thread leaves the points of a status only by storing another one.
LEMMA OwnedStep == TypeOK /\ StatusIsOwned /\ [Next]_vars => StatusIsOwned'
<1> SUFFICES ASSUME TypeOK, StatusIsOwned, [Next]_vars PROVE StatusIsOwned'
  OBVIOUS
<1> USE DEF TypeOK, StatusIsOwned, ReportedFrom, Attempt, Leaving, Watching, shared, local, world, history
<1>1. ASSUME NEW t \in Thread, Supervise(t) PROVE StatusIsOwned'
  <2> USE DEF Goto
  <2>1. CASE SetStarting(t)
    BY <2>1 DEF SetStarting
  <2>2. CASE SetConnected(t)
    BY <2>2 DEF SetConnected
  <2>3. CASE ReportRelayDown(t)
    BY <2>3 DEF ReportRelayDown
  <2>4. CASE ReportRetry(t)
    BY <2>4 DEF ReportRetry
  <2>5. CASE SpawnRelayFails(t) \/ SpawnSshFails(t)
    BY <2>5 DEF SpawnRelayFails, SpawnSshFails
  <2>6. CASE GiveUp(t)
    BY <2>6 DEF GiveUp
  <2>7. CASE SetStopped(t)
    BY <2>7 DEF SetStopped
  <2>8. CASE LoadRunning(t) \/ CheckRelay(t) \/ SpawnRelay(t) \/ RelayComesUp(t)
             \/ RelayGivesUp(t) \/ SpawnSsh(t) \/ ProbeUp(t) \/ ProbeFails(t)
             \/ StoreChild(t) \/ WatchRunning(t) \/ CheckChild(t)
             \/ CheckHealth(t) \/ TakeChild(t) \/ Reap(t) \/ AfterAttempt(t)
             \/ Backoff(t) \/ KillRelay(t)
    BY <2>8 DEF LoadRunning, CheckRelay, SpawnRelay, RelayComesUp, RelayGivesUp,
       SpawnSsh, ProbeUp, ProbeFails, StoreChild, WatchRunning, CheckChild,
       CheckHealth, TakeChild, Reap, AfterAttempt, Backoff, KillRelay, Free, Killed
  <2> QED BY <1>1, <2>1, <2>2, <2>3, <2>4, <2>5, <2>6, <2>7, <2>8 DEF Supervise
<1>2. ASSUME NEW t \in Thread, NEW r \in RelayModes, Start(t, r) PROVE StatusIsOwned'
  BY <1>2 DEF Start
<1>3. ASSUME NEW c \in Caller, StopBegin(c) \/ StopRest(c) PROVE StatusIsOwned'
  BY <1>3 DEF StopBegin, StopRest, StopChild, StopRelay, StopStatus, StopGoto
<1>4. ASSUME Quit PROVE StatusIsOwned'
  BY <1>4 DEF Quit
<1>5. ASSUME Environment \/ UNCHANGED vars PROVE StatusIsOwned'
  BY <1>5 DEF Environment, ProcServes, ProcHangs, ProcExits, vars
<1> QED
  BY <1>1, <1>2, <1>3, <1>4, <1>5 DEF Next

-----------------------------------------------------------------------------
\* What makes the remaining invariants inductive.

\* Only a thread between its spawn and its store or reap owns a process.
OwnersAttempt == \A t \in Thread : own[t] # NoProc => pc[t] \in {"probe", "up", "store", "reap"}

\* Unless a start() overtook, one thread at most is not idle ...
Solo == ~overlapped => \A t, u \in Thread : pc[t] # "idle" /\ pc[u] # "idle" => t = u

\* ... and while the flag is set nobody is on the way out of the loop or in stop().
StopIsOver ==
  ~overlapped /\ running => /\ \A t \in Thread : pc[t] \notin {"finish", "final"}
                            /\ \A c \in Caller : stopPc[c] = "idle"

\* A thread about to spawn the relay replaces none that is alive.
RelayNeeded ==
  ~overlapped => \A t \in Thread : pc[t] = "relaySpawn" =>
                     relayChild = NoProc \/ ~Live(relayChild)

\* A thread that killed the relay leaves nothing in the slot, and nobody fills it.
RelayGone == ~overlapped => \A t \in Thread : pc[t] = "final" => relayChild = NoProc

\* While the tunnel is wanted, the status at each point of its thread.
Showing ==
  ~overlapped /\ running =>
      \A t \in Thread :
          /\ pc[t] \in {"top", "starting"} => status \in {"Stopped", "Error", "Reconnecting"}
          /\ pc[t] \in {"relay", "relaySpawn", "relayWait", "relayDown"} => status = "Starting"
          /\ pc[t] \in {"spawn", "probe", "up", "reap"} => status \in {"Starting", "Reconnecting"}
          /\ pc[t] \in {"store"} \cup Watching => status = "Connected"
          /\ pc[t] \in {"after", "retry"} => status \in {"Starting", "Connected", "Reconnecting"}
          /\ pc[t] = "sleep" => status = "Reconnecting"
          /\ pc[t] = "failed" => status = "Error"

\* The local handle is set by the spawn and given up by the store or the reap.
LEMMA OwnersStep == TypeOK /\ OwnersAttempt /\ [Next]_vars => OwnersAttempt'
<1> SUFFICES ASSUME TypeOK, OwnersAttempt, [Next]_vars PROVE OwnersAttempt'
  OBVIOUS
<1> USE DEF TypeOK, OwnersAttempt, shared, local, world, history
<1>1. ASSUME NEW t \in Thread, Supervise(t) PROVE OwnersAttempt'
  <2> USE DEF Goto
  <2>1. CASE SpawnSsh(t) \/ StoreChild(t) \/ Reap(t)
    BY <2>1 DEF SpawnSsh, StoreChild, Reap, Free, Killed
  <2>2. CASE LoadRunning(t) \/ SetStarting(t) \/ CheckRelay(t) \/ SpawnRelay(t)
             \/ SpawnRelayFails(t) \/ RelayComesUp(t) \/ RelayGivesUp(t)
             \/ ReportRelayDown(t) \/ SpawnSshFails(t) \/ GiveUp(t) \/ ProbeUp(t)
             \/ ProbeFails(t) \/ SetConnected(t) \/ WatchRunning(t)
             \/ CheckChild(t) \/ CheckHealth(t) \/ TakeChild(t)
             \/ AfterAttempt(t) \/ ReportRetry(t) \/ Backoff(t) \/ KillRelay(t)
             \/ SetStopped(t)
    BY <2>2 DEF LoadRunning, SetStarting, CheckRelay, SpawnRelay, SpawnRelayFails,
       RelayComesUp, RelayGivesUp, ReportRelayDown, SpawnSshFails, GiveUp, ProbeUp,
       ProbeFails, SetConnected, WatchRunning, CheckChild, CheckHealth, TakeChild,
       AfterAttempt, ReportRetry, Backoff, KillRelay, SetStopped, Free, Killed
  <2> QED BY <1>1, <2>1, <2>2 DEF Supervise
<1>2. ASSUME NEW t \in Thread, NEW r \in RelayModes, Start(t, r) PROVE OwnersAttempt'
  BY <1>2 DEF Start
<1>3. ASSUME NEW c \in Caller, StopBegin(c) \/ StopRest(c) PROVE OwnersAttempt'
  BY <1>3 DEF StopBegin, StopRest, StopChild, StopRelay, StopStatus, StopGoto
<1>4. ASSUME Quit PROVE OwnersAttempt'
  BY <1>4 DEF Quit
<1>5. ASSUME Environment \/ UNCHANGED vars PROVE OwnersAttempt'
  BY <1>5 DEF Environment, ProcServes, ProcHangs, ProcExits, vars
<1> QED
  BY <1>1, <1>2, <1>3, <1>4, <1>5 DEF Next

\* A thread that starts beside another one sets `overlapped`.
LEMMA SoloStep == TypeOK /\ Solo /\ [Next]_vars => Solo'
<1> SUFFICES ASSUME TypeOK, Solo, [Next]_vars PROVE Solo'
  OBVIOUS
<1> USE DEF TypeOK, Solo, shared, local, world, history
<1>1. ASSUME NEW t \in Thread, Supervise(t) PROVE Solo'
  <2> USE DEF Goto
  <2>1. CASE GiveUp(t) \/ SetStopped(t)
    BY <2>1 DEF GiveUp, SetStopped
  <2>2. CASE LoadRunning(t) \/ SetStarting(t) \/ CheckRelay(t) \/ SpawnRelay(t)
             \/ SpawnRelayFails(t) \/ RelayComesUp(t) \/ RelayGivesUp(t)
             \/ ReportRelayDown(t) \/ SpawnSsh(t) \/ SpawnSshFails(t)
             \/ ProbeUp(t) \/ ProbeFails(t) \/ SetConnected(t) \/ StoreChild(t)
             \/ WatchRunning(t) \/ CheckChild(t) \/ CheckHealth(t)
             \/ TakeChild(t) \/ Reap(t) \/ AfterAttempt(t) \/ ReportRetry(t)
             \/ Backoff(t) \/ KillRelay(t)
    BY <2>2 DEF LoadRunning, SetStarting, CheckRelay, SpawnRelay, SpawnRelayFails,
       RelayComesUp, RelayGivesUp, ReportRelayDown, SpawnSsh, SpawnSshFails,
       ProbeUp, ProbeFails, SetConnected, StoreChild, WatchRunning, CheckChild,
       CheckHealth, TakeChild, Reap, AfterAttempt, ReportRetry, Backoff, KillRelay,
       Free, Killed
  <2> QED BY <1>1, <2>1, <2>2 DEF Supervise
<1>2. ASSUME NEW t \in Thread, NEW r \in RelayModes, Start(t, r) PROVE Solo'
  BY <1>2 DEF Start, InProgress
<1>3. ASSUME NEW c \in Caller, StopBegin(c) \/ StopRest(c) PROVE Solo'
  BY <1>3 DEF StopBegin, StopRest, StopChild, StopRelay, StopStatus, StopGoto
<1>4. ASSUME Quit PROVE Solo'
  BY <1>4 DEF Quit
<1>5. ASSUME Environment \/ UNCHANGED vars PROVE Solo'
  BY <1>5 DEF Environment, ProcServes, ProcHangs, ProcExits, vars
<1> QED
  BY <1>1, <1>2, <1>3, <1>4, <1>5 DEF Next

\* Only stop() and a failed spawn clear the flag, and only a start() that
\* overtakes sets it before they are done.
LEMMA StopIsOverStep == TypeOK /\ StopIsOver /\ [Next]_vars => StopIsOver'
<1> SUFFICES ASSUME TypeOK, StopIsOver, [Next]_vars PROVE StopIsOver'
  OBVIOUS
<1> USE DEF TypeOK, StopIsOver, StopLabel, shared, local, world, history
<1>1. ASSUME NEW t \in Thread, Supervise(t) PROVE StopIsOver'
  <2> USE DEF Goto
  <2>1. CASE GiveUp(t)
    BY <2>1 DEF GiveUp
  <2>2. CASE LoadRunning(t) \/ AfterAttempt(t)
    BY <2>2 DEF LoadRunning, AfterAttempt
  <2>3. CASE SetStarting(t) \/ CheckRelay(t) \/ SpawnRelay(t)
             \/ SpawnRelayFails(t) \/ RelayComesUp(t) \/ RelayGivesUp(t)
             \/ ReportRelayDown(t) \/ SpawnSsh(t) \/ SpawnSshFails(t)
             \/ ProbeUp(t) \/ ProbeFails(t) \/ SetConnected(t) \/ StoreChild(t)
             \/ WatchRunning(t) \/ CheckChild(t) \/ CheckHealth(t)
             \/ TakeChild(t) \/ Reap(t) \/ ReportRetry(t) \/ Backoff(t)
             \/ KillRelay(t) \/ SetStopped(t)
    BY <2>3 DEF SetStarting, CheckRelay, SpawnRelay, SpawnRelayFails, RelayComesUp,
       RelayGivesUp, ReportRelayDown, SpawnSsh, SpawnSshFails, ProbeUp, ProbeFails,
       SetConnected, StoreChild, WatchRunning, CheckChild, CheckHealth, TakeChild,
       Reap, ReportRetry, Backoff, KillRelay, SetStopped, Free, Killed
  <2> QED BY <1>1, <2>1, <2>2, <2>3 DEF Supervise
<1>2. ASSUME NEW t \in Thread, NEW r \in RelayModes, Start(t, r) PROVE StopIsOver'
  BY <1>2 DEF Start, InProgress
<1>3. ASSUME NEW c \in Caller, StopBegin(c) \/ StopRest(c) PROVE StopIsOver'
  BY <1>3 DEF StopBegin, StopRest, StopChild, StopRelay, StopStatus, StopGoto
<1>4. ASSUME Quit PROVE StopIsOver'
  BY <1>4 DEF Quit
<1>5. ASSUME Environment \/ UNCHANGED vars PROVE StopIsOver'
  BY <1>5 DEF Environment, ProcServes, ProcHangs, ProcExits, vars
<1> QED
  BY <1>1, <1>2, <1>3, <1>4, <1>5 DEF Next

\* Nobody else stores a relay, and an exited process does not come back.
LEMMA RelayNeededStep ==
  TypeOK /\ Solo /\ RelayNeeded /\ [Next]_vars
    => RelayNeeded'
<1> SUFFICES ASSUME TypeOK, Solo, RelayNeeded, [Next]_vars PROVE RelayNeeded'
  OBVIOUS
<1> USE DEF TypeOK, RelayNeeded, Live, Solo, Proc, shared, local, world, history
<1>1. ASSUME NEW t \in Thread, Supervise(t) PROVE RelayNeeded'
  <2> USE DEF Goto
  <2>1. CASE CheckRelay(t)
    BY <2>1 DEF CheckRelay
  <2>2. CASE SpawnRelay(t)
    BY <2>2 DEF SpawnRelay, Free
  <2>3. CASE SpawnSsh(t)
    BY <2>3 DEF SpawnSsh, Free
  <2>4. CASE TakeChild(t) \/ Reap(t) \/ KillRelay(t)
    BY <2>4 DEF TakeChild, Reap, KillRelay, Killed
  <2>5. CASE LoadRunning(t) \/ SetStarting(t) \/ SpawnRelayFails(t)
             \/ RelayComesUp(t) \/ RelayGivesUp(t) \/ ReportRelayDown(t)
             \/ SpawnSshFails(t) \/ GiveUp(t) \/ ProbeUp(t) \/ ProbeFails(t)
             \/ SetConnected(t) \/ StoreChild(t) \/ WatchRunning(t)
             \/ CheckChild(t) \/ CheckHealth(t) \/ AfterAttempt(t)
             \/ ReportRetry(t) \/ Backoff(t) \/ SetStopped(t)
    BY <2>5 DEF LoadRunning, SetStarting, SpawnRelayFails, RelayComesUp,
       RelayGivesUp, ReportRelayDown, SpawnSshFails, GiveUp, ProbeUp, ProbeFails,
       SetConnected, StoreChild, WatchRunning, CheckChild, CheckHealth,
       AfterAttempt, ReportRetry, Backoff, SetStopped
  <2> QED BY <1>1, <2>1, <2>2, <2>3, <2>4, <2>5 DEF Supervise
<1>2. ASSUME NEW t \in Thread, NEW r \in RelayModes, Start(t, r) PROVE RelayNeeded'
  BY <1>2 DEF Start, InProgress
<1>3. ASSUME NEW c \in Caller, StopBegin(c) \/ StopRest(c) PROVE RelayNeeded'
  BY <1>3 DEF StopBegin, StopRest, StopChild, StopRelay, StopStatus, StopGoto, Killed
<1>4. ASSUME Quit PROVE RelayNeeded'
  BY <1>4 DEF Quit
<1>5. ASSUME Environment \/ UNCHANGED vars PROVE RelayNeeded'
  BY <1>5 DEF Environment, ProcServes, ProcHangs, ProcExits, vars
<1> QED
  BY <1>1, <1>2, <1>3, <1>4, <1>5 DEF Next

\* The slot is emptied on the way out, where no other thread can be in the loop.
LEMMA RelayGoneStep == TypeOK /\ Solo /\ RelayGone /\ [Next]_vars => RelayGone'
<1> SUFFICES ASSUME TypeOK, Solo, RelayGone, [Next]_vars PROVE RelayGone'
  OBVIOUS
<1> USE DEF TypeOK, RelayGone, Solo, shared, local, world, history
<1>1. ASSUME NEW t \in Thread, Supervise(t) PROVE RelayGone'
  <2> USE DEF Goto
  <2>1. CASE SpawnRelay(t)
    BY <2>1 DEF SpawnRelay, Free
  <2>2. CASE KillRelay(t)
    BY <2>2 DEF KillRelay
  <2>3. CASE LoadRunning(t) \/ SetStarting(t) \/ CheckRelay(t)
             \/ SpawnRelayFails(t) \/ RelayComesUp(t) \/ RelayGivesUp(t)
             \/ ReportRelayDown(t) \/ SpawnSsh(t) \/ SpawnSshFails(t)
             \/ GiveUp(t) \/ ProbeUp(t) \/ ProbeFails(t) \/ SetConnected(t)
             \/ StoreChild(t) \/ WatchRunning(t) \/ CheckChild(t)
             \/ CheckHealth(t) \/ TakeChild(t) \/ Reap(t) \/ AfterAttempt(t)
             \/ ReportRetry(t) \/ Backoff(t) \/ SetStopped(t)
    BY <2>3 DEF LoadRunning, SetStarting, CheckRelay, SpawnRelayFails, RelayComesUp,
       RelayGivesUp, ReportRelayDown, SpawnSsh, SpawnSshFails, GiveUp, ProbeUp,
       ProbeFails, SetConnected, StoreChild, WatchRunning, CheckChild, CheckHealth,
       TakeChild, Reap, AfterAttempt, ReportRetry, Backoff, SetStopped
  <2> QED BY <1>1, <2>1, <2>2, <2>3 DEF Supervise
<1>2. ASSUME NEW t \in Thread, NEW r \in RelayModes, Start(t, r) PROVE RelayGone'
  BY <1>2 DEF Start
<1>3. ASSUME NEW c \in Caller, StopBegin(c) \/ StopRest(c) PROVE RelayGone'
  BY <1>3 DEF StopBegin, StopRest, StopChild, StopRelay, StopStatus, StopGoto
<1>4. ASSUME Quit PROVE RelayGone'
  BY <1>4 DEF Quit
<1>5. ASSUME Environment \/ UNCHANGED vars PROVE RelayGone'
  BY <1>5 DEF Environment, ProcServes, ProcHangs, ProcExits, vars
<1> QED
  BY <1>1, <1>2, <1>3, <1>4, <1>5 DEF Next

\* A slot or a local variable is overwritten only when it holds nothing alive.
LEMMA NoLostStep ==
  TypeOK /\ OwnersAttempt /\ ChildIsWatched /\ Solo /\ RelayNeeded /\
  NoLostProcess /\ [Next]_vars
    => NoLostProcess'
<1> SUFFICES ASSUME TypeOK, OwnersAttempt, ChildIsWatched, Solo, RelayNeeded,
                    NoLostProcess, [Next]_vars
             PROVE NoLostProcess'
  OBVIOUS
<1> USE SupervisorAssumption DEF TypeOK, NoLostProcess, Live, Held, Proc, shared, local, world, history
<1>1. ASSUME NEW t \in Thread, Supervise(t) PROVE NoLostProcess'
  <2> USE DEF Goto
  <2>1. CASE SpawnSsh(t)
    BY <2>1 DEF SpawnSsh, Free, OwnersAttempt
  <2>2. CASE SpawnRelay(t)
    BY <2>2 DEF SpawnRelay, Free, RelayNeeded
  <2>3. CASE StoreChild(t)
    BY <2>3 DEF StoreChild, ChildIsWatched, Solo, Watching
  <2>4. CASE Reap(t)
    BY <2>4 DEF Reap, Killed
  <2>5. CASE TakeChild(t)
    BY <2>5 DEF TakeChild, Killed
  <2>6. CASE KillRelay(t)
    BY <2>6 DEF KillRelay, Killed
  <2>7. CASE LoadRunning(t) \/ SetStarting(t) \/ CheckRelay(t)
             \/ SpawnRelayFails(t) \/ RelayComesUp(t) \/ RelayGivesUp(t)
             \/ ReportRelayDown(t) \/ SpawnSshFails(t) \/ GiveUp(t) \/ ProbeUp(t)
             \/ ProbeFails(t) \/ SetConnected(t) \/ WatchRunning(t)
             \/ CheckChild(t) \/ CheckHealth(t) \/ AfterAttempt(t)
             \/ ReportRetry(t) \/ Backoff(t) \/ SetStopped(t)
    BY <2>7 DEF LoadRunning, SetStarting, CheckRelay, SpawnRelayFails, RelayComesUp,
       RelayGivesUp, ReportRelayDown, SpawnSshFails, GiveUp, ProbeUp, ProbeFails,
       SetConnected, WatchRunning, CheckChild, CheckHealth, AfterAttempt,
       ReportRetry, Backoff, SetStopped
  <2> QED BY <1>1, <2>1, <2>2, <2>3, <2>4, <2>5, <2>6, <2>7 DEF Supervise
<1>2. ASSUME NEW t \in Thread, NEW r \in RelayModes, Start(t, r) PROVE NoLostProcess'
  BY <1>2 DEF Start
<1>3. ASSUME NEW c \in Caller, StopBegin(c) \/ StopRest(c) PROVE NoLostProcess'
  BY <1>3 DEF StopBegin, StopRest, StopChild, StopRelay, StopStatus, StopGoto, Killed
<1>4. ASSUME Quit PROVE NoLostProcess'
  BY <1>4 DEF Quit
<1>5. ASSUME Environment \/ UNCHANGED vars PROVE NoLostProcess'
  BY <1>5 DEF Environment, ProcServes, ProcHangs, ProcExits, vars
<1> QED
  BY <1>1, <1>2, <1>3, <1>4, <1>5 DEF Next

\* A thread comes to each point by the store that shows there, or from points
\* where it shows already; nobody else stores.
LEMMA ShowingStep ==
  TypeOK /\ StatusIsOwned /\ Solo /\ StopIsOver /\ Showing /\ [Next]_vars => Showing'
<1> SUFFICES ASSUME TypeOK, StatusIsOwned, Solo, StopIsOver, Showing, [Next]_vars
             PROVE Showing'
  OBVIOUS
<1> USE DEF TypeOK, Showing, Solo, StopIsOver, Watching, shared, local, world, history
<1>1. ASSUME NEW t \in Thread, Supervise(t) PROVE Showing'
  <2> USE DEF Goto
  <2>1. CASE LoadRunning(t) BY <2>1 DEF LoadRunning
  <2>2. CASE SetStarting(t) BY <2>2 DEF SetStarting
  <2>3. CASE CheckRelay(t) BY <2>3 DEF CheckRelay
  <2>4. CASE SpawnRelay(t) BY <2>4 DEF SpawnRelay, Free
  <2>5. CASE SpawnRelayFails(t) BY <2>5 DEF SpawnRelayFails
  <2>6. CASE RelayComesUp(t) BY <2>6 DEF RelayComesUp
  <2>7. CASE RelayGivesUp(t) BY <2>7 DEF RelayGivesUp
  <2>8. CASE ReportRelayDown(t) BY <2>8 DEF ReportRelayDown
  <2>9. CASE SpawnSsh(t) BY <2>9 DEF SpawnSsh, Free
  <2>10. CASE SpawnSshFails(t) BY <2>10 DEF SpawnSshFails
  <2>11. CASE GiveUp(t) BY <2>11 DEF GiveUp
  <2>12. CASE ProbeUp(t) BY <2>12 DEF ProbeUp
  <2>13. CASE ProbeFails(t) BY <2>13 DEF ProbeFails
  <2>14. CASE SetConnected(t) BY <2>14 DEF SetConnected
  <2>15. CASE StoreChild(t) BY <2>15 DEF StoreChild
  <2>16. CASE WatchRunning(t) BY <2>16 DEF WatchRunning
  <2>17. CASE CheckChild(t) BY <2>17 DEF CheckChild
  <2>18. CASE CheckHealth(t) BY <2>18 DEF CheckHealth
  <2>19. CASE TakeChild(t) BY <2>19 DEF TakeChild
  <2>20. CASE Reap(t) BY <2>20 DEF Reap
  <2>21. CASE AfterAttempt(t) BY <2>21 DEF AfterAttempt
  <2>22. CASE ReportRetry(t) BY <2>22 DEF ReportRetry
  <2>23. CASE Backoff(t) BY <2>23 DEF Backoff
  <2>24. CASE KillRelay(t) BY <2>24 DEF KillRelay
  <2>25. CASE SetStopped(t) BY <2>25 DEF SetStopped
  <2> QED
    BY <1>1, <2>1, <2>2, <2>3, <2>4, <2>5, <2>6, <2>7, <2>8, <2>9, <2>10, <2>11,
       <2>12, <2>13, <2>14, <2>15, <2>16, <2>17, <2>18, <2>19, <2>20, <2>21, <2>22,
       <2>23, <2>24, <2>25 DEF Supervise
<1>2. ASSUME NEW t \in Thread, NEW r \in RelayModes, Start(t, r) PROVE Showing'
  <2> SUFFICES ASSUME ~overlapped', NEW u \in Thread, pc'[u] # "idle"
               PROVE  u = t /\ status' \in {"Stopped", "Error"} /\ pc'[t] = "top"
    OBVIOUS
  <2>1. \A v \in Thread : pc[v] = "idle"
    BY <1>2 DEF Start, InProgress
  <2>2. status \in {"Stopped", "Error"}
    BY <2>1 DEF StatusIsOwned, StatusSet, ReportedFrom, Attempt, Leaving
  <2> QED BY <1>2, <2>1, <2>2 DEF Start
<1>3. ASSUME NEW c \in Caller, StopBegin(c) \/ StopRest(c) PROVE Showing'
  BY <1>3 DEF StopBegin, StopRest, StopChild, StopRelay, StopStatus, StopGoto
<1>4. ASSUME Quit PROVE Showing'
  BY <1>4 DEF Quit
<1>5. ASSUME Environment \/ UNCHANGED vars PROVE Showing'
  BY <1>5 DEF Environment, ProcServes, ProcHangs, ProcExits, vars
<1> QED
  BY <1>1, <1>2, <1>3, <1>4, <1>5 DEF Next

-----------------------------------------------------------------------------
(***************************************************************************)
(* The inductive invariant: the four safety invariants and what they need. *)
(***************************************************************************)
IndInv ==
  /\ TypeOK
  /\ RunningIsSupervised /\ ChildIsWatched /\ StatusIsOwned
  /\ OwnersAttempt /\ Solo /\ StopIsOver /\ RelayNeeded /\ RelayGone
  /\ NoLostProcess /\ Showing

LEMMA IndInit == Init => IndInv
<1> SUFFICES ASSUME Init PROVE IndInv
  OBVIOUS
<1>1. TypeOK
  BY TypeInit
<1>2. RunningIsSupervised /\ ChildIsWatched /\ StatusIsOwned /\ Showing
  BY DEF Init, RunningIsSupervised, ChildIsWatched, StatusIsOwned, Showing
<1>3. OwnersAttempt /\ Solo /\ StopIsOver /\ RelayNeeded /\ RelayGone
  BY DEF Init, OwnersAttempt, Solo, StopIsOver, RelayNeeded, RelayGone
<1>4. NoLostProcess
  BY DEF Init, NoLostProcess, Live
<1> QED BY <1>1, <1>2, <1>3, <1>4 DEF IndInv

LEMMA IndStep == IndInv /\ [Next]_vars => IndInv'
BY TypeStep, RunningStep, WatchStep, OwnedStep, OwnersStep, SoloStep,
   StopIsOverStep, RelayNeededStep, RelayGoneStep, NoLostStep, ShowingStep DEF IndInv

THEOREM Inductive == Spec => []IndInv
BY IndInit, IndStep, PTL DEF Spec

\* Whenever start() would refuse, a thread is still supervising
\* (tunnel.rs:268-270, 289, 307, 341, 394).
THEOREM RunningSupervised == Spec => []RunningIsSupervised
BY Inductive, PTL DEF IndInv

\* No ssh process stays in the slot without a thread that will empty it
\* (tunnel.rs:365-388, 417-420).
THEOREM ChildWatched == Spec => []ChildIsWatched
BY Inductive, PTL DEF IndInv

\* Starting, Connected and Reconnecting are always backed by a thread at a
\* point where they are true (tunnel.rs:290, 325, 364, 397, 411, 427).
THEOREM StatusOwned == Spec => []StatusIsOwned
BY Inductive, PTL DEF IndInv

\* Unless a start() overtook, every live process of this launch can still be
\* killed (tunnel.rs:303, 365, 385-391, 407, 417-426).
THEOREM NothingLost == Spec => []NoLostProcess
BY Inductive, PTL DEF IndInv

\* Unless a start() overtook, a supervised tunnel reads Stopped or Error only
\* before its first store or after a failed spawn (tunnel.rs:290, 305, 339, 411).
DownStatusIsHonest ==
  ~overlapped /\ running /\ status \in {"Stopped", "Error"} =>
      \E t \in Thread : pc[t] \in {"top", "starting", "failed"}

THEOREM DownHonest == Spec => []DownStatusIsHonest
<1>1. IndInv => DownStatusIsHonest
  <2> SUFFICES ASSUME IndInv, ~overlapped, running, status \in {"Stopped", "Error"}
               PROVE  \E t \in Thread : pc[t] \in {"top", "starting", "failed"}
    BY DEF DownStatusIsHonest
  <2>1. PICK t \in Thread : pc[t] \in Looping \cup {"failed"}
    BY DEF IndInv, RunningIsSupervised
  <2> QED BY <2>1 DEF IndInv, Showing, Looping, Watching
<1> QED BY <1>1, Inductive, PTL

-----------------------------------------------------------------------------
(***************************************************************************)
(* Action properties.                                                      *)
(***************************************************************************)
\* The only ssh process alive at a probe that nothing overlapped is the
\* thread's own: it is held, the slot is empty, and the others are idle.
LEMMA OnlyOwnSsh ==
  ASSUME IndInv, ~overlapped, orphans = {},
         NEW t \in Thread, pc[t] = "probe", NEW p \in Ssh, Live(p)
  PROVE  own[t] = p
<1> USE DEF IndInv
<1>1. p \in Proc /\ p # relayChild
  BY SupervisorAssumption DEF Proc, TypeOK
<1>2. Held(p)
  BY <1>1 DEF NoLostProcess
<1>3. child = NoProc
  BY DEF ChildIsWatched, Watching, Solo
<1>4. PICK u \in Thread : own[u] = p
  BY <1>1, <1>2, <1>3, SupervisorAssumption DEF Held
<1>5. u = t
  BY <1>4, SupervisorAssumption DEF OwnersAttempt, Solo
<1> QED BY <1>4, <1>5

LEMMA HandshakeStep ==
  IndInv /\ [Next]_vars => [~overlapped /\ orphans = {} => OwnHandshake]_vars
<1> SUFFICES ASSUME IndInv, [Next]_vars, ~overlapped, orphans = {},
                    NEW t \in Thread, pc[t] = "probe", pc'[t] = "up"
             PROVE  proc[own[t]] = "serving"
  BY DEF OwnHandshake
<1>1. Answering
  <2> USE DEF IndInv, TypeOK
  <2>1. ASSUME NEW u \in Thread, Supervise(u) PROVE Answering
    <3> USE DEF Goto
    <3>1. CASE ProbeUp(u)
      BY <3>1 DEF ProbeUp
    <3>2. CASE LoadRunning(u) \/ SetStarting(u) \/ CheckRelay(u) \/ SpawnRelay(u)
                 \/ SpawnRelayFails(u) \/ RelayComesUp(u) \/ RelayGivesUp(u)
                 \/ ReportRelayDown(u) \/ SpawnSsh(u) \/ SpawnSshFails(u)
                 \/ GiveUp(u) \/ ProbeFails(u) \/ SetConnected(u)
                 \/ StoreChild(u) \/ WatchRunning(u) \/ CheckChild(u)
                 \/ CheckHealth(u) \/ TakeChild(u) \/ Reap(u) \/ AfterAttempt(u)
                 \/ ReportRetry(u) \/ Backoff(u) \/ KillRelay(u) \/ SetStopped(u)
      BY <3>2 DEF LoadRunning, SetStarting, CheckRelay, SpawnRelay, SpawnRelayFails,
         RelayComesUp, RelayGivesUp, ReportRelayDown, SpawnSsh, SpawnSshFails,
         GiveUp, ProbeFails, SetConnected, StoreChild, WatchRunning, CheckChild,
         CheckHealth, TakeChild, Reap, AfterAttempt, ReportRetry, Backoff,
         KillRelay, SetStopped
    <3> QED BY <2>1, <3>1, <3>2 DEF Supervise
  <2>2. ASSUME NEW u \in Thread, NEW r \in RelayModes, Start(u, r) PROVE FALSE
    BY <2>2 DEF Start
  <2>3. ASSUME NEW c \in Caller, StopBegin(c) \/ StopRest(c) PROVE FALSE
    BY <2>3 DEF StopBegin, StopRest, StopChild, StopRelay, StopStatus
  <2>4. ASSUME Quit PROVE FALSE
    BY <2>4 DEF Quit
  <2>5. ASSUME Environment \/ UNCHANGED vars PROVE FALSE
    BY <2>5 DEF Environment, ProcServes, ProcHangs, ProcExits, vars
  <2> HIDE DEF IndInv, TypeOK
  <2> QED BY <2>1, <2>2, <2>3, <2>4, <2>5 DEF Next
<1>2. PICK p \in Ssh : proc[p] = "serving"
  BY <1>1 DEF Answering
<1>3. own[t] = p
  BY <1>2, OnlyOwnSsh DEF Live
<1> QED BY <1>2, <1>3

\* Unless a start() overtook, and with no process of an earlier launch alive,
\* Connected is reported only when the thread's own ssh answered (tunnel.rs:352).
THEOREM HandshakeOurs == Spec => HandshakeIsOurs
BY Inductive, HandshakeStep, PTL DEF Spec, HandshakeIsOurs

LEMMA RelayStep ==
  IndInv /\ [Next]_vars =>
    [~overlapped /\ running /\ running' /\ relayChild # NoProc =>
        (relayChild' # relayChild => ~Live(relayChild))]_vars
<1> SUFFICES ASSUME IndInv, [Next]_vars, ~overlapped, running, running',
                    relayChild # NoProc, relayChild' # relayChild
             PROVE  ~Live(relayChild)
  OBVIOUS
<1>1. ASSUME NEW t \in Thread, Supervise(t) PROVE ~Live(relayChild)
  <2> USE DEF Goto, shared
  <2>1. CASE SpawnRelay(t)
    BY <2>1 DEF SpawnRelay, IndInv, RelayNeeded
  <2>2. CASE KillRelay(t)
    BY <2>2 DEF KillRelay, IndInv, StopIsOver
  <2>3. CASE LoadRunning(t) \/ SetStarting(t) \/ CheckRelay(t)
               \/ SpawnRelayFails(t) \/ RelayComesUp(t) \/ RelayGivesUp(t)
               \/ ReportRelayDown(t) \/ SpawnSsh(t) \/ SpawnSshFails(t)
               \/ GiveUp(t) \/ ProbeUp(t) \/ ProbeFails(t) \/ SetConnected(t)
               \/ StoreChild(t) \/ WatchRunning(t) \/ CheckChild(t)
               \/ CheckHealth(t) \/ TakeChild(t) \/ Reap(t) \/ AfterAttempt(t)
               \/ ReportRetry(t) \/ Backoff(t) \/ SetStopped(t)
    BY <2>3 DEF LoadRunning, SetStarting, CheckRelay, SpawnRelayFails, RelayComesUp,
       RelayGivesUp, ReportRelayDown, SpawnSsh, SpawnSshFails, GiveUp, ProbeUp,
       ProbeFails, SetConnected, StoreChild, WatchRunning, CheckChild, CheckHealth,
       TakeChild, Reap, AfterAttempt, ReportRetry, Backoff, SetStopped
  <2> QED BY <1>1, <2>1, <2>2, <2>3 DEF Supervise
<1>2. ASSUME NEW t \in Thread, NEW r \in RelayModes, Start(t, r) PROVE FALSE
  BY <1>2 DEF Start
<1>3. ASSUME NEW c \in Caller, StopBegin(c) \/ StopRest(c) PROVE FALSE
  BY <1>3 DEF StopBegin, StopRest, StopChild, StopRelay, StopStatus, StopGoto,
     IndInv, StopIsOver
<1>4. ASSUME Quit PROVE FALSE
  BY <1>4 DEF Quit
<1>5. ASSUME Environment \/ UNCHANGED vars PROVE FALSE
  BY <1>5 DEF Environment, ProcServes, ProcHangs, ProcExits, vars, shared
<1> QED
  BY <1>1, <1>2, <1>3, <1>4, <1>5 DEF Next

\* While the tunnel is wanted and no start() overtook, nothing but its own exit
\* makes the relay be replaced (tunnel.rs:32-34, 294-303, 407, 423).
THEOREM RelaySurvives == Spec => RelaySurvivesRetry
BY Inductive, RelayStep, PTL DEF Spec, RelaySurvivesRetry

\* No relay is in the slot by then, and one that is alive would be.
LEMMA NoRelayAtEnd ==
  ASSUME IndInv, ~overlapped, NEW t \in Thread, pc[t] = "final", NEW p \in Relay \ orphans
  PROVE  ~Live(p)
<1>1. relayChild = NoProc
  BY DEF IndInv, RelayGone
<1>2. p \in Proc /\ p \notin Ssh /\ p # NoProc
  BY SupervisorAssumption DEF Proc
<1>3. ~Held(p)
  BY <1>1, <1>2 DEF Held, IndInv, TypeOK
<1> QED BY <1>2, <1>3 DEF IndInv, NoLostProcess

\* When a thread comes to its end no relay of this launch is alive, unless a
\* start() overtook (tunnel.rs:407-411, 421-422).
THEOREM RelayKilled == Spec => RelayNotLeftRunning
<1>1. IndInv /\ [Next]_vars =>
        [\A t \in Thread : pc[t] = "final" /\ pc'[t] = "idle" /\ ~overlapped /\ ~running =>
            \A p \in Relay \ orphans : ~Live(p)]_vars
  BY NoRelayAtEnd
<1> QED BY <1>1, Inductive, PTL DEF Spec, RelayNotLeftRunning

-----------------------------------------------------------------------------
(***************************************************************************)
(* Supervisor implements Tunnel.                                           *)
(***************************************************************************)
\* A step of a thread of a wanted tunnel reports what may follow, or nothing.
LEMMA WantedReports ==
  ASSUME IndInv, IndInv', ~overlapped', NEW t \in Thread, Supervise(t), running
  PROVE  [Display!Next]_(Display!vars)
<1> USE DEF IndInv
<1>1. ~overlapped /\ overlapped' = overlapped /\ stopPc' = stopPc
  BY DEF TypeOK, Supervise, LoadRunning, SetStarting, CheckRelay, SpawnRelay,
     SpawnRelayFails, RelayComesUp, RelayGivesUp, ReportRelayDown, SpawnSsh,
     SpawnSshFails, GiveUp, ProbeUp, ProbeFails, SetConnected, StoreChild,
     WatchRunning, CheckChild, CheckHealth, TakeChild, Reap, AfterAttempt,
     ReportRetry, Backoff, KillRelay, SetStopped, history
<1>2. pc[t] # "idle"
  BY DEF Supervise, LoadRunning, SetStarting, CheckRelay, SpawnRelay,
     SpawnRelayFails, RelayComesUp, RelayGivesUp, ReportRelayDown, SpawnSsh,
     SpawnSshFails, GiveUp, ProbeUp, ProbeFails, SetConnected, StoreChild,
     WatchRunning, CheckChild, CheckHealth, TakeChild, Reap, AfterAttempt,
     ReportRetry, Backoff, KillRelay, SetStopped, Goto
<1>3. InProgress
  BY <1>2 DEF InProgress
<1>4. CASE GiveUp(t)
  <2>1. status = "Error" /\ status' = status /\ running' = FALSE
    BY <1>1, <1>4 DEF GiveUp, Goto, Showing, shared
  <2>2. \A u \in Thread : pc'[u] = "idle"
    BY <1>1, <1>2, <1>4 DEF GiveUp, Goto, Solo, TypeOK
  <2>3. \A c \in Caller : stopPc'[c] = "idle"
    BY <1>1 DEF StopIsOver
  <2>4. InProgress' = FALSE
    BY <2>2, <2>3 DEF InProgress
  <2> QED BY <1>1, <2>1, <2>4 DEF Display!Next, Display!GiveUp
<1>5. CASE ~GiveUp(t)
  <2>1. ~SetStopped(t) /\ ~KillRelay(t)
    BY <1>1 DEF SetStopped, KillRelay, Goto, StopIsOver
  <2>2. running' = running /\ pc'[t] # "idle"
    BY <1>5, <2>1 DEF TypeOK, Supervise, LoadRunning, SetStarting, CheckRelay, SpawnRelay,
       SpawnRelayFails, RelayComesUp, RelayGivesUp, ReportRelayDown, SpawnSsh,
       SpawnSshFails, ProbeUp, ProbeFails, SetConnected, StoreChild, WatchRunning,
       CheckChild, CheckHealth, TakeChild, Reap, AfterAttempt, ReportRetry, Backoff,
       Goto, shared
  <2>3. InProgress'
    BY <2>2 DEF InProgress
  <2>4. InProgress' = InProgress
    BY <1>3, <2>3 DEF InProgress
  <2>5. status' = status \/ <<status, status'>> \in Display!Order
    <3>1. CASE SetStarting(t) BY <1>1, <3>1 DEF SetStarting, Goto, Showing, Display!Order
    <3>2. CASE SpawnRelayFails(t) BY <1>1, <3>2 DEF SpawnRelayFails, Goto, Showing, Display!Order
    <3>3. CASE ReportRelayDown(t) BY <1>1, <3>3 DEF ReportRelayDown, Goto, Showing, Display!Order
    <3>4. CASE SpawnSshFails(t) BY <1>1, <3>4 DEF SpawnSshFails, Goto, Showing, Display!Order
    <3>5. CASE SetConnected(t) BY <1>1, <3>5 DEF SetConnected, Goto, Showing, Display!Order
    <3>6. CASE ReportRetry(t) BY <1>1, <3>6 DEF ReportRetry, Goto, Showing, Display!Order
    <3>7. CASE LoadRunning(t) \/ CheckRelay(t) \/ SpawnRelay(t) \/ RelayComesUp(t)
               \/ RelayGivesUp(t) \/ SpawnSsh(t) \/ ProbeUp(t) \/ ProbeFails(t)
               \/ StoreChild(t) \/ WatchRunning(t) \/ CheckChild(t) \/ CheckHealth(t)
               \/ TakeChild(t) \/ Reap(t) \/ AfterAttempt(t) \/ Backoff(t)
      BY <3>7 DEF LoadRunning, CheckRelay, SpawnRelay, RelayComesUp, RelayGivesUp, SpawnSsh,
         ProbeUp, ProbeFails, StoreChild, WatchRunning, CheckChild, CheckHealth, TakeChild,
         Reap, AfterAttempt, Backoff, shared
    <3> QED BY <1>5, <2>1, <3>1, <3>2, <3>3, <3>4, <3>5, <3>6, <3>7 DEF Supervise
  <2>6. CASE status' = status
    BY <1>1, <2>2, <2>4, <2>6 DEF Display!vars
  <2>7. CASE <<status, status'>> \in Display!Order
    BY <1>1, <1>3, <2>2, <2>4, <2>7 DEF Display!Next, Display!Report
  <2> QED BY <2>5, <2>6, <2>7
<1> QED BY <1>4, <1>5

\* Whatever is under way of a tunnel no longer wanted ends with Stopped or Error.
LEMMA WindsDown ==
  ASSUME IndInv', ~running, running' = running, overlapped' = overlapped, InProgress
  PROVE  Display!WindDown
<1>1. status' \in Display!Shown
  BY DEF IndInv, TypeOK, StatusSet, Display!Shown
<1>2. InProgress' \in BOOLEAN
  BY DEF InProgress
<1>3. status' \in Display!Down \/ InProgress'
  BY <1>1 DEF IndInv, StatusIsOwned, ReportedFrom, Attempt, Leaving, Watching, InProgress,
     Display!Down, Display!Shown
<1> QED BY <1>1, <1>2, <1>3 DEF Display!WindDown

\* Every step is a step of Tunnel, or shows nothing.
LEMMA DisplayStep == IndInv /\ IndInv' /\ [Next]_vars => [Display!Next]_(Display!vars)
<1> SUFFICES ASSUME IndInv, IndInv', [Next]_vars PROVE [Display!Next]_(Display!vars)
  OBVIOUS
<1>1. overlapped \in BOOLEAN /\ overlapped' \in BOOLEAN /\ running \in BOOLEAN
      /\ running' \in BOOLEAN
  BY DEF IndInv, TypeOK
<1>2. CASE overlapped /\ overlapped'
  BY <1>2 DEF Display!Next, Display!Adrift
<1>3. ASSUME NEW t \in Thread, NEW r \in RelayModes, Start(t, r), ~overlapped
      PROVE  [Display!Next]_(Display!vars)
  <2>1. CASE InProgress
    BY <1>3, <2>1 DEF Start, Display!Next, Display!Overtake
  <2>2. CASE ~InProgress
    <3>1. status \in Display!Down
      BY <2>2 DEF IndInv, TypeOK, StatusSet, StatusIsOwned, ReportedFrom, Attempt, Leaving,
         Watching, InProgress, Display!Down
    <3>2. running' = TRUE /\ status' = status /\ overlapped' = overlapped
      BY <1>1, <1>3, <2>2 DEF Start
    <3>3. pc'[t] = "top"
      BY <1>3 DEF Start, IndInv, TypeOK
    <3>4. InProgress' = TRUE
      BY <3>3 DEF InProgress
    <3> QED BY <1>3, <2>2, <3>1, <3>2, <3>4 DEF Start, Display!Next, Display!Connect
  <2> QED BY <2>1, <2>2
<1>4. ASSUME ~overlapped', NEW t \in Thread, Supervise(t) PROVE [Display!Next]_(Display!vars)
  <2>1. CASE running BY <1>4, <2>1, WantedReports
  <2>2. CASE ~running
    <3>1. /\ pc[t] # "idle" /\ running' = running /\ overlapped' = overlapped
      BY <1>4, <2>2 DEF IndInv, TypeOK, Supervise, LoadRunning, SetStarting, CheckRelay,
         SpawnRelay, SpawnRelayFails, RelayComesUp, RelayGivesUp, ReportRelayDown, SpawnSsh,
         SpawnSshFails, GiveUp, ProbeUp, ProbeFails, SetConnected, StoreChild, WatchRunning,
         CheckChild, CheckHealth, TakeChild, Reap, AfterAttempt, ReportRetry, Backoff,
         KillRelay, SetStopped, Goto, shared, history
    <3>2. InProgress
      BY <3>1 DEF InProgress
    <3> QED BY <2>2, <3>1, <3>2, WindsDown DEF Display!Next
  <2> QED BY <2>1, <2>2
<1>5. ASSUME NEW c \in Caller, StopBegin(c) PROVE [Display!Next]_(Display!vars)
  <2>1. running' = FALSE /\ status' = status /\ overlapped' = overlapped
    BY <1>5 DEF StopBegin, history
  <2>2. stopPc'[c] = "child"
    BY <1>5 DEF StopBegin, StopGoto, IndInv, TypeOK
  <2>3. InProgress' = TRUE
    BY <2>2 DEF InProgress
  <2> QED BY <2>1, <2>3 DEF Display!Next, Display!Disconnect
<1>6. ASSUME ~overlapped, NEW c \in Caller, StopRest(c) PROVE [Display!Next]_(Display!vars)
  <2>1. stopPc[c] # "idle" /\ running' = running /\ overlapped' = overlapped
    BY <1>6 DEF StopRest, StopChild, StopRelay, StopStatus, StopGoto, history
  <2>2. InProgress /\ ~running
    BY <1>6, <2>1 DEF InProgress, IndInv, StopIsOver
  <2> QED BY <2>1, <2>2, WindsDown DEF Display!Next
<1>7. CASE Quit
  <2>1. InProgress' = FALSE
    BY <1>7 DEF Quit, InProgress
  <2> QED BY <1>7, <2>1 DEF Quit, Display!Next, Display!Relaunch
<1>8. CASE Environment \/ UNCHANGED vars
  <2>1. UNCHANGED <<running, status, overlapped, pc, stopPc>>
    BY <1>8 DEF Environment, ProcServes, ProcHangs, ProcExits, vars, shared, history
  <2>2. InProgress' = InProgress
    BY <2>1 DEF InProgress
  <2> QED BY <2>1, <2>2 DEF Display!vars
<1>9. ASSUME NEW t \in Thread, Supervise(t) PROVE overlapped' = overlapped
  BY <1>9 DEF Supervise, LoadRunning, SetStarting, CheckRelay, SpawnRelay,
     SpawnRelayFails, RelayComesUp, RelayGivesUp, ReportRelayDown, SpawnSsh,
     SpawnSshFails, GiveUp, ProbeUp, ProbeFails, SetConnected, StoreChild,
     WatchRunning, CheckChild, CheckHealth, TakeChild, Reap, AfterAttempt,
     ReportRetry, Backoff, KillRelay, SetStopped, history
<1>10. ASSUME NEW c \in Caller, StopRest(c) PROVE overlapped' = overlapped
  BY <1>10 DEF StopRest, StopChild, StopRelay, StopStatus, history
<1>11. ASSUME NEW t \in Thread, NEW r \in RelayModes, Start(t, r), overlapped PROVE overlapped'
  BY <1>11 DEF Start
<1> QED
  BY <1>1, <1>2, <1>3, <1>4, <1>5, <1>6, <1>7, <1>8, <1>9, <1>10, <1>11 DEF Next

\* For any number of threads, callers and processes, what the app shows of the
\* tunnel follows Tunnel (tunnel.rs:289-412, 415-428).
THEOREM ImplementsTunnel == Spec => ShowsTunnel
<1>1. Init => Display!Init
  <2> SUFFICES ASSUME Init PROVE Display!Init
    OBVIOUS
  <2>1. InProgress = FALSE
    BY DEF Init, InProgress
  <2> QED BY <2>1 DEF Init, Display!Init
<1> QED BY <1>1, DisplayStep, Inductive, PTL DEF Spec, ShowsTunnel, Display!Spec
=============================================================================
