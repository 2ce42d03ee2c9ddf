---------------------------- MODULE EnrollServer ----------------------------
(***************************************************************************)
(* The enrollment service (server/enroll/enroll.py): waitress serves POST  *)
(* /enroll on several threads of one process.  A request is checked against*)
(* its two tokens, then against the hour's quota of its subject, is given  *)
(* a serial from a file under an flock, and is signed by ssh-keygen.       *)
(*                                                                         *)
(* The checks of the tokens read nothing that another request writes, so   *)
(* they are one step.  _rate_limit() has no lock: every look at the deque  *)
(* and every change of it is a step.  next_serial() is a step per system   *)
(* call, since the process may die, and the power may fail, between any    *)
(* two; the container is then started again.                               *)
(*                                                                         *)
(* Time is counted in ticks, of which Hour make the hour of the quota.     *)
(***************************************************************************)
EXTENDS Integers, Sequences, FiniteSets

CONSTANTS
    Thread,           \* waitress threads
    Subject,          \* accounts of the identity provider
    Nobody,           \* no account, and no thread
    RequireEmail,     \* require_email
    RequireVerified,  \* require_verified_email
    HasAllowlist,     \* allowed_emails is not empty
    RateLimit,        \* rate_limit_per_hour
    Hour,             \* ticks in an hour
    MaxTime,          \* bounds the clock
    MaxRequest,       \* bounds how many requests get past the tokens
    MaxCrash          \* bounds how often the service ends

ASSUME EnrollServerAssumption ==
    /\ RequireEmail \in BOOLEAN /\ RequireVerified \in BOOLEAN
    /\ HasAllowlist \in BOOLEAN
    /\ RateLimit \in Nat /\ Hour \in Nat \ {0}
    /\ MaxTime \in Nat /\ MaxRequest \in Nat /\ MaxCrash \in Nat
    /\ Nobody \notin Thread /\ Nobody \notin Subject
    /\ IsFiniteSet(Thread) /\ Thread # {}

VARIABLES
    clock,     \* time.time()
    hits,      \* _hits: the deque of each subject
    file,      \* the serial in SERIAL_FILE as a reader sees it, 0 when it is empty
    disk,      \* the serials a power failure may leave in it
    lock,      \* the thread that holds the flock, or Nobody
    pc,        \* where each thread is
    sub,       \* the subject of the request's access token
    owner,     \* the subject of its id token
    now,       \* the time a thread read in _rate_limit()
    current,   \* the serial a thread has in next_serial() and after
    requests, crashes,
    used,      \* serials of the certificates signed so far
    passed,    \* the times of requests that passed the quota, since the start
    raced,     \* two requests of a subject were in _rate_limit() at once, since then
    lost       \* an end of the service, or a failed write, left the file empty

quota   == <<hits, now>>
serial  == <<file, disk, lock, current>>
request == <<sub, owner>>
bounds  == <<requests, crashes>>
history == <<used, passed, raced, lost>>
vars    == <<clock, quota, serial, pc, request, bounds, history>>

Label  == {"idle", "now", "look", "pop", "count", "append",
           "lock", "read", "truncate", "write", "sync", "unlock", "sign"}
Limiting == {"look", "pop", "count", "append"}

Init ==
    /\ clock = 0
    /\ hits = [s \in Subject |-> <<>>]
    /\ file = 0 /\ disk = {0} /\ lock = Nobody
    /\ pc = [t \in Thread |-> "idle"]
    /\ sub = [t \in Thread |-> Nobody] /\ owner = [t \in Thread |-> Nobody]
    /\ now = [t \in Thread |-> 0] /\ current = [t \in Thread |-> 0]
    /\ requests = 0 /\ crashes = 0
    /\ used = {} /\ passed = [s \in Subject |-> <<>>]
    /\ raced = FALSE /\ lost = FALSE

Goto(t, from, to) == pc[t] = from /\ pc' = [pc EXCEPT ![t] = to]

-----------------------------------------------------------------------------
(***************************************************************************)
(* enroll(): which requests get past the tokens.                           *)
(***************************************************************************)
\* access, id: whose the token is, Nobody when it does not verify; email is
\* what the id token says of it.
Request ==
    [wellFormed : BOOLEAN, access : Subject \cup {Nobody}, scope : BOOLEAN,
     id : Subject \cup {Nobody}, email : {"none", "listed", "unlisted"},
     verified : BOOLEAN]

EmailAllowed(r) ==
    IF r.email = "none" THEN ~RequireEmail
    ELSE /\ RequireVerified => r.verified
         /\ HasAllowlist => r.email = "listed"

\* Mutant: the tokens are not compared.
AdmittedUnmatched(r) ==
    /\ r.wellFormed
    /\ r.access # Nobody /\ r.scope
    /\ r.id # Nobody
    /\ EmailAllowed(r)

\* Mutant: a token that does not verify is no error.
AdmittedAnonymous(r) == r.wellFormed /\ r.scope /\ r.id = r.access /\ EmailAllowed(r)

Admitted(r) ==
    /\ r.wellFormed
    /\ r.access # Nobody /\ r.scope
    /\ r.id # Nobody /\ r.id = r.access
    /\ EmailAllowed(r)

\* A request that is denied changes nothing.
Admit(t) ==
    /\ requests < MaxRequest
    /\ Goto(t, "idle", "now")
    /\ requests' = requests + 1
    /\ \E r \in Request :
          /\ Admitted(r)
          /\ sub' = [sub EXCEPT ![t] = r.access]
          /\ owner' = [owner EXCEPT ![t] = r.id]
    /\ UNCHANGED <<clock, quota, serial, crashes, history>>

\* The answer leaves, with a certificate or an error.
Answer(t) ==
    /\ sub' = [sub EXCEPT ![t] = Nobody]
    /\ owner' = [owner EXCEPT ![t] = Nobody]
    /\ now' = [now EXCEPT ![t] = 0]
    /\ current' = [current EXCEPT ![t] = 0]

-----------------------------------------------------------------------------
(***************************************************************************)
(* _rate_limit(): old hits are popped, the rest counted, a hit appended.   *)
(***************************************************************************)
window(t) == hits[sub[t]]

ReadClock(t) ==
    /\ Goto(t, "now", "look")
    /\ now' = [now EXCEPT ![t] = clock]
    /\ raced' = (raced \/ \E u \in Thread \ {t} : pc[u] \in Limiting /\ sub[u] = sub[t])
    /\ UNCHANGED <<clock, hits, serial, request, bounds, used, passed, lost>>

\* Mutant: a hit of exactly an hour ago is dropped.
ExpiredEarly(t) == window(t) # <<>> /\ now[t] - Head(window(t)) >= Hour

Expired(t) == window(t) # <<>> /\ now[t] - Head(window(t)) > Hour

LookOld(t) ==
    /\ Goto(t, "look", IF Expired(t) THEN "pop" ELSE "count")
    /\ UNCHANGED <<clock, quota, serial, request, bounds, history>>

PopOld(t) ==
    /\ Goto(t, "pop", "look")
    /\ window(t) # <<>>
    /\ hits' = [hits EXCEPT ![sub[t]] = Tail(@)]
    /\ UNCHANGED <<clock, now, serial, request, bounds, history>>

\* Another thread popped the last one: IndexError.
PopEmpty(t) ==
    /\ Goto(t, "pop", "idle")
    /\ window(t) = <<>>
    /\ Answer(t)
    /\ UNCHANGED <<clock, hits, file, disk, lock, bounds, history>>

\* Mutant: one more than the limit passes.
CountHitsOffByOne(t) ==
    /\ Goto(t, "count", "append")
    /\ Len(window(t)) <= RateLimit
    /\ UNCHANGED <<clock, quota, serial, request, bounds, history>>

CountHits(t) ==
    /\ Goto(t, "count", "append")
    /\ Len(window(t)) < RateLimit
    /\ UNCHANGED <<clock, quota, serial, request, bounds, history>>

TooMany(t) ==
    /\ Goto(t, "count", "idle")
    /\ Len(window(t)) >= RateLimit
    /\ Answer(t)
    /\ UNCHANGED <<clock, hits, file, disk, lock, bounds, history>>

AppendHit(t) ==
    /\ Goto(t, "append", "lock")
    /\ hits' = [hits EXCEPT ![sub[t]] = Append(@, now[t])]
    /\ passed' = [passed EXCEPT ![sub[t]] = Append(@, now[t])]
    /\ UNCHANGED <<clock, now, serial, request, bounds, used, raced, lost>>

Limit(t) == \/ ReadClock(t) \/ LookOld(t) \/ PopOld(t) \/ PopEmpty(t)
            \/ CountHits(t) \/ TooMany(t) \/ AppendHit(t)

-----------------------------------------------------------------------------
(***************************************************************************)
(* next_serial(): read, truncate, write, fsync, under the flock.           *)
(***************************************************************************)
\* Mutant: the flock is shared (LOCK_SH).
LockSerialShared(t) ==
    /\ Goto(t, "lock", "read")
    /\ lock' = t
    /\ UNCHANGED <<clock, quota, file, disk, current, request, bounds, history>>

LockSerial(t) ==
    /\ lock = Nobody
    /\ Goto(t, "lock", "read")
    /\ lock' = t
    /\ UNCHANGED <<clock, quota, file, disk, current, request, bounds, history>>

ReadSerial(t) ==
    /\ Goto(t, "read", "truncate")
    /\ current' = [current EXCEPT ![t] = file + 1]
    /\ UNCHANGED <<clock, quota, file, disk, lock, request, bounds, history>>

Truncate(t) ==
    /\ Goto(t, "truncate", "write")
    /\ file' = 0
    /\ disk' = disk \cup {0}
    /\ UNCHANGED <<clock, quota, lock, current, request, bounds, history>>

WriteSerial(t) ==
    /\ Goto(t, "write", "sync")
    /\ file' = current[t]
    /\ disk' = disk \cup {current[t]}
    /\ UNCHANGED <<clock, quota, lock, current, request, bounds, history>>

\* Mutant: the file is left open, and locked, when the write fails.
WriteSerialFailsLocked(t) ==
    /\ Goto(t, "write", "idle")
    /\ lost' = TRUE
    /\ Answer(t)
    /\ UNCHANGED <<clock, hits, file, disk, lock, bounds, used, passed, raced>>

\* The disk is full: OSError, and the with statement closes the empty file.
WriteSerialFails(t) ==
    /\ Goto(t, "write", "idle")
    /\ lock' = Nobody
    /\ lost' = TRUE
    /\ Answer(t)
    /\ UNCHANGED <<clock, hits, file, disk, bounds, used, passed, raced>>

\* Mutant: the file is not synced.
SyncSerialSkipped(t) ==
    /\ Goto(t, "sync", "unlock")
    /\ UNCHANGED <<clock, quota, serial, request, bounds, history>>

SyncSerial(t) ==
    /\ Goto(t, "sync", "unlock")
    /\ disk' = {file}
    /\ UNCHANGED <<clock, quota, file, lock, current, request, bounds, history>>

UnlockSerial(t) ==
    /\ Goto(t, "unlock", "sign")
    /\ lock' = Nobody
    /\ UNCHANGED <<clock, quota, file, disk, current, request, bounds, history>>

NextSerial(t) == \/ LockSerial(t) \/ ReadSerial(t) \/ Truncate(t) \/ WriteSerial(t)
                 \/ WriteSerialFails(t) \/ SyncSerial(t) \/ UnlockSerial(t)

(***************************************************************************)
(* sign_certificate() once it has its serial.                              *)
(***************************************************************************)
Sign(t) ==
    /\ Goto(t, "sign", "idle")
    /\ used' = used \cup {current[t]}
    /\ Answer(t)
    /\ UNCHANGED <<clock, hits, file, disk, lock, bounds, passed, raced, lost>>

\* ssh-keygen fails or takes more than 15 s.
SignFails(t) ==
    /\ Goto(t, "sign", "idle")
    /\ Answer(t)
    /\ UNCHANGED <<clock, hits, file, disk, lock, bounds, history>>

-----------------------------------------------------------------------------
(***************************************************************************)
(* The service ends and is started again: the deques are empty, the flock  *)
(* is released, and the file is as it was left.                            *)
(***************************************************************************)
Restarted ==
    /\ crashes < MaxCrash
    /\ crashes' = crashes + 1
    /\ hits' = [s \in Subject |-> <<>>]
    /\ passed' = [s \in Subject |-> <<>>]
    /\ raced' = FALSE
    /\ lock' = Nobody
    /\ pc' = [t \in Thread |-> "idle"]
    /\ sub' = [t \in Thread |-> Nobody] /\ owner' = [t \in Thread |-> Nobody]
    /\ now' = [t \in Thread |-> 0] /\ current' = [t \in Thread |-> 0]
    /\ UNCHANGED <<clock, requests, used>>

ServiceEnds ==
    /\ Restarted
    /\ lost' = (lost \/ \E t \in Thread : pc[t] = "write")
    /\ UNCHANGED <<file, disk>>

PowerFails ==
    /\ Restarted
    /\ file' \in disk
    /\ disk' = {file'}
    /\ lost' = (lost \/ (file' = 0 /\ disk # {0}))

Tick ==
    /\ clock < MaxTime
    /\ clock' = clock + 1
    /\ UNCHANGED <<quota, serial, pc, request, bounds, history>>

Serve(t) == Limit(t) \/ NextSerial(t) \/ Sign(t) \/ SignFails(t)

Next ==
    \/ \E t \in Thread : Admit(t) \/ Serve(t)
    \/ ServiceEnds \/ PowerFails \/ Tick

\* A thread with a request goes on with it.
Fairness == \A t \in Thread : WF_vars(Serve(t))

Spec     == Init /\ [][Next]_vars
FairSpec == Spec /\ Fairness

-----------------------------------------------------------------------------
(* Invariants. *)

\* Every variable has its type, and a request under way has a subject.
TypeOK ==
    /\ clock \in 0..MaxTime
    /\ hits \in [Subject -> Seq(0..MaxTime)] /\ passed \in [Subject -> Seq(0..MaxTime)]
    /\ file \in Nat /\ disk \subseteq Nat /\ used \subseteq Nat
    /\ lock \in Thread \cup {Nobody}
    /\ pc \in [Thread -> Label]
    /\ sub \in [Thread -> Subject \cup {Nobody}]
    /\ owner \in [Thread -> Subject \cup {Nobody}]
    /\ now \in [Thread -> 0..MaxTime] /\ current \in [Thread -> Nat]
    /\ \A t \in Thread : pc[t] # "idle" => sub[t] \in Subject
    /\ requests \in 0..MaxRequest /\ crashes \in 0..MaxCrash
    /\ raced \in BOOLEAN /\ lost \in BOOLEAN

\* A serial that next_serial() returned is of no certificate and of no other
\* request, whatever ended the service before, as long as that did not leave
\* the file empty (enroll.py:219-237).
SerialsUnique ==
    ~lost => \A t \in Thread : pc[t] = "sign" =>
                /\ current[t] \notin used
                /\ \A u \in Thread \ {t} : pc[u] = "sign" => current[u] # current[t]

\* Requests of s that passed the quota within the last hour.
InLastHour(s) == {i \in DOMAIN passed[s] : clock - passed[s][i] <= Hour}

\* The quota is exact, at every edge of the hour, as long as no two requests of
\* a subject are counted together (enroll.py:158-165) ...
QuotaExact == ~raced => \A s \in Subject : Cardinality(InLastHour(s)) <= RateLimit

\* ... and when they are, the deque outgrows it by less than the threads.
HitsBounded == \A s \in Subject : Len(hits[s]) < RateLimit + Cardinality(Thread)

(* The invariant that SerialsUnique follows from, by conjuncts. *)

\* The flock is held by the thread inside next_serial(), by one at most.
Locked == {"read", "truncate", "write", "sync", "unlock"}
LockHeld == \A t \in Thread : pc[t] \in Locked <=> lock = t

\* n is above the serial of every certificate and every request to be signed.
Fresh(n) ==
    /\ \A m \in used : m < n
    /\ \A t \in Thread : pc[t] = "sign" => current[t] < n

\* So is what the thread in next_serial() has; it is in the file and on the disk
\* once it was written and synced.
Counting ==
    \A t \in Thread :
        /\ pc[t] \in Locked \ {"read"} => Fresh(current[t])
        /\ pc[t] \in {"sync", "unlock"} => file = current[t]
        /\ pc[t] = "unlock" => disk = {file}

\* The next number is fresh by the file, but while it is written, and by
\* whatever is on the disk, unless it is noticed to be lost.
FileHolds == (\A t \in Thread : pc[t] # "write") => Fresh(file + 1)
DiskHolds == \A n \in disk : (n = 0 /\ disk # {0}) \/ Fresh(n + 1)

SerialInv == LockHeld /\ (~lost => Counting /\ FileHolds /\ DiskHolds /\ SerialsUnique)

(* Implementation. *)

\* next_serial() counts: the number given last is one less than that of the
\* thread between its read and its unlock, or else what the file holds.
Taking == {"truncate", "write", "sync", "unlock"}
Last   == IF lock # Nobody /\ pc[lock] \in Taking THEN current[lock] - 1 ELSE file
Given  == {current[t] : t \in {u \in Thread : pc[u] = "sign"}}

Counter == INSTANCE SerialCounter WITH last <- Last, given <- Given

\* "Monotonic certificate serial" (enroll.py:220): every serial is the number
\* after the one given last, to one request, and after an end of the service
\* the count goes on above every certificate, until it is lost.
CountsSerials == Counter!Spec

(* Action properties. *)

\* The quota of a subject is spent by requests that carry both its tokens
\* alone (enroll.py:327-364): nobody uses up the hour of somebody else.
OwnQuotaSpent ==
    [][\A s \in Subject : Len(passed'[s]) > Len(passed[s]) =>
          \E t \in Thread : /\ pc[t] = "append" /\ pc'[t] = "lock"
                            /\ sub[t] = s /\ owner[t] = s]_vars

(* Liveness. *)

\* A request that passed the quota is answered: nothing keeps the flock.
RequestsAnswered == \A t \in Thread : pc[t] = "lock" ~> pc[t] = "idle"
=============================================================================
