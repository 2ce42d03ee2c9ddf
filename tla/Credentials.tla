---------------------------- MODULE Credentials ----------------------------
(***************************************************************************)
(* The credentials of SplitStream on disk and the operations that write    *)
(* and delete them: signing in, renewing, connecting with a certificate    *)
(* (which may renew first), cancelling, signing out and resetting          *)
(* (src-tauri/src/main.rs, enroll.rs and auth.rs).                         *)
(*                                                                         *)
(* Each runs on a worker thread of its own; no lock spans any of them, and *)
(* the UI disables only the button that was pressed.  The files are the    *)
(* private key, the certificate, the enrollment record and the tokens; each*)
(* write and each removal is a step, the app may end between any two, and  *)
(* a write may fail.  A removal whose error the code ignores is taken to   *)
(* succeed.                                                                *)
(*                                                                         *)
(* A key pair is numbered by the enrolment that generated it; the          *)
(* certificate and the record carry the number of the key they are for.    *)
(* Refresh tokens are numbered in the order the provider issued them.      *)
(***************************************************************************)
EXTENDS Naturals, FiniteSets

CONSTANTS
    Worker,      \* threads that may run one of the operations
    MaxKey,      \* bounds how many key pairs are ever generated
    MaxToken,    \* bounds how many refresh tokens are ever issued
    Commands,    \* the operations the user may ask for
    Rotates,     \* the provider replaces a refresh token when it is used
    MaxRestart   \* bounds how often the app ends and starts again

ASSUME CredentialsAssumption ==
    /\ MaxKey \in Nat /\ MaxToken \in Nat /\ MaxRestart \in Nat
    /\ Rotates \in BOOLEAN
    /\ Commands \subseteq {"sign_in", "renew", "start_tunnel", "cancel_sign_in",
                     "sign_out", "reset_all"}

VARIABLES
    keyFile,     \* id_ed25519: the key in it, 0 when the file is not there
    certFile,    \* id_ed25519-cert.pub: the key it certifies, or 0
    recordFile,  \* enrollment.json: the key it was issued for, or 0
    tokensFile,  \* tokens.json: the refresh token in it, or 0
    auth,        \* App.auth
    cancel,      \* App.cancel_signin
    pc, op,      \* where each worker is, and in which operation
    key,         \* the key pair a worker's enroll() generated
    tok,         \* the tokens a worker holds
    held,        \* the record start_tunnel() loaded before it renewed
    keys,        \* key pairs generated so far
    tokens,      \* refresh tokens issued so far
    spent,       \* refresh tokens the provider no longer honours
    life,        \* how old the certificate of each key is
    restarts,
    alone,       \* no other operation ran since this worker's began
    raced,       \* two enrolments were once under way together
    mishap,      \* the app ended amid an operation, or a refreshed token got lost
    wiped        \* no sign-in began since the last sign-out or reset ended

files    == <<keyFile, certFile, recordFile, tokensFile>>
app      == <<auth, cancel>>
local    == <<op, key, tok, held>>
provider == <<tokens, spent>>
history  == <<restarts, alone, raced, mishap, wiped>>
vars     == <<files, app, pc, local, keys, provider, life, history>>

Keys   == 1..MaxKey
Tokens == 1..MaxToken

Enrolling == {"rmCert", "writeKey", "post", "writeCert", "writeRecord"}
Label == {"idle", "waiting", "uncancel", "poll", "request", "load", "refresh", "save",
          "enrolling", "enroll", "done", "failed", "start", "connect", "cancel",
          "forget", "clearKey", "clearCert", "clearRecord", "signedOut"} \cup Enrolling
Op    == {"none", "sign_in", "renew", "start_tunnel", "cancel_sign_in",
          "sign_out", "reset_all"}
AuthState == {"SignedOut", "Waiting", "Enrolling", "SignedIn", "Failed"}
Life      == {"fresh", "due", "expired"}

\* is_valid() and needs_renewal() of the record for key k
IsValid(k)      == k # 0 /\ life[k] # "expired"
NeedsRenewal(k) == life[k] # "fresh"

Busy(w) == pc[w] # "idle"

Init ==
    /\ keyFile = 0 /\ certFile = 0 /\ recordFile = 0 /\ tokensFile = 0
    /\ auth = "SignedOut" /\ cancel = FALSE
    /\ pc = [w \in Worker |-> "idle"] /\ op = [w \in Worker |-> "none"]
    /\ key = [w \in Worker |-> 0] /\ tok = [w \in Worker |-> 0]
    /\ held = [w \in Worker |-> 0]
    /\ keys = 0 /\ tokens = 0 /\ spent = {}
    /\ life = [k \in Keys |-> "fresh"]
    /\ restarts = 0
    /\ alone = [w \in Worker |-> FALSE] /\ raced = FALSE /\ mishap = FALSE /\ wiped = TRUE

Goto(w, from, to) == pc[w] = from /\ pc' = [pc EXCEPT ![w] = to]

\* A worker ends: what it held is gone.
Return(w, from) ==
    /\ Goto(w, from, "idle")
    /\ op' = [op EXCEPT ![w] = "none"]
    /\ key' = [key EXCEPT ![w] = 0]
    /\ tok' = [tok EXCEPT ![w] = 0]
    /\ held' = [held EXCEPT ![w] = 0]
    /\ alone' = [alone EXCEPT ![w] = FALSE]

-----------------------------------------------------------------------------
(***************************************************************************)
(* The commands the user's buttons invoke.                                 *)
(***************************************************************************)
Begin(w, what, first, record) ==
    /\ what \in Commands
    /\ Goto(w, "idle", first)
    /\ op' = [op EXCEPT ![w] = what]
    /\ held' = [held EXCEPT ![w] = record]
    /\ alone' = [v \in Worker |-> IF v = w THEN \A u \in Worker \ {w} : ~Busy(u)
                                            ELSE alone[v] /\ ~Busy(v)]
    /\ wiped' = (wiped /\ what # "sign_in")
    /\ UNCHANGED <<files, app, key, tok, keys, provider, life, restarts, raced, mishap>>

SignIn(w)       == Begin(w, "sign_in", "waiting", 0)
Renew(w)        == Begin(w, "renew", "load", 0)
CancelSignIn(w) == Begin(w, "cancel_sign_in", "cancel", 0)
SignOut(w)      == Begin(w, "sign_out", "cancel", 0)
ResetAll(w)     == Begin(w, "reset_all", "forget", 0)

\* start_tunnel() renews first when the certificate is due.  Without a record
\* it takes the manual path, which touches none of this.
StartTunnel(w) ==
    /\ recordFile # 0
    /\ Begin(w, "start_tunnel",
             IF IsValid(recordFile) /\ ~NeedsRenewal(recordFile) THEN "start" ELSE "load",
             recordFile)

-----------------------------------------------------------------------------
(***************************************************************************)
(* sign_in(): the prompt is shown, the cancel flag cleared, and a thread   *)
(* waits for the browser.                                                  *)
(***************************************************************************)
SetWaiting(w) ==
    /\ Goto(w, "waiting", "uncancel")
    /\ auth' = "Waiting"
    /\ UNCHANGED <<files, cancel, local, keys, provider, life, history>>

ClearCancel(w) ==
    /\ Goto(w, "uncancel", "poll")
    /\ cancel' = FALSE
    /\ UNCHANGED <<files, auth, local, keys, provider, life, history>>

\* The flag is looked at between two requests (of the device flow) or two
\* looks at the listener (of the redirect flow); the loop is modelled by its
\* last turn.
Poll(w) ==
    /\ ~cancel
    /\ Goto(w, "poll", "request")
    /\ UNCHANGED <<files, app, local, keys, provider, life, history>>

PollGranted(w) ==
    /\ tokens < MaxToken
    /\ Goto(w, "request", "save")
    /\ tokens' = tokens + 1
    /\ tok' = [tok EXCEPT ![w] = tokens + 1]
    /\ UNCHANGED <<files, app, op, key, held, keys, spent, life, history>>

\* Cancelled, too late, refused, or the network failed.
PollFails(w) ==
    /\ pc[w] \in {"poll", "request"}
    /\ pc' = [pc EXCEPT ![w] = "failed"]
    /\ UNCHANGED <<files, app, local, keys, provider, life, history>>

\* renew_quietly(): the stored refresh token is used ...
LoadTokens(w) ==
    /\ Goto(w, "load", IF tokensFile = 0 THEN "failed" ELSE "refresh")
    /\ tok' = [tok EXCEPT ![w] = tokensFile]
    /\ UNCHANGED <<files, app, op, key, held, keys, provider, life, history>>

\* ... and what the provider answers may carry another one.
Refresh(w) ==
    /\ tok[w] \notin spent
    /\ Goto(w, "refresh", "save")
    /\ IF Rotates
       THEN /\ tokens < MaxToken
            /\ tokens' = tokens + 1
            /\ spent' = spent \cup {tok[w]}
            /\ tok' = [tok EXCEPT ![w] = tokens + 1]
       ELSE UNCHANGED <<provider, tok>>
    /\ UNCHANGED <<files, app, op, key, held, keys, life, history>>

RefreshFails(w) ==
    /\ Goto(w, "refresh", "failed")
    /\ UNCHANGED <<files, app, local, keys, provider, life, history>>

\* The provider replaced the token and its answer was lost.
RefreshAnswerLost(w) ==
    /\ Rotates
    /\ tok[w] \notin spent
    /\ Goto(w, "refresh", "failed")
    /\ spent' = spent \cup {tok[w]}
    /\ mishap' = TRUE
    /\ UNCHANGED <<files, app, local, keys, tokens, life, restarts, alone, raced, wiped>>

\* Tokens are saved before the enrolment that may fail.
AfterSave(w) == IF op[w] = "sign_in" THEN "enrolling" ELSE "enroll"

\* Mutant: a renewal does not save the tokens it was given.
SaveTokensOnce(w) ==
    /\ Goto(w, "save", AfterSave(w))
    /\ tokensFile' = IF op[w] = "sign_in" THEN tok[w] ELSE tokensFile
    /\ UNCHANGED <<keyFile, certFile, recordFile, app, local, keys, provider, life, history>>

SaveTokens(w) ==
    /\ Goto(w, "save", AfterSave(w))
    /\ tokensFile' = tok[w]
    /\ UNCHANGED <<keyFile, certFile, recordFile, app, local, keys, provider, life, history>>

SaveTokensFails(w) ==
    /\ Goto(w, "save", "failed")
    /\ mishap' = TRUE
    /\ UNCHANGED <<files, app, local, keys, provider, life, restarts, alone, raced, wiped>>

SetEnrolling(w) ==
    /\ Goto(w, "enrolling", "enroll")
    /\ auth' = "Enrolling"
    /\ UNCHANGED <<files, cancel, local, keys, provider, life, history>>

-----------------------------------------------------------------------------
(***************************************************************************)
(* enroll(): a new key replaces the old one, and the old certificate goes, *)
(* before the service is asked for a new certificate.                      *)
(***************************************************************************)
\* Mutant: what was generated is not a new key.
RemoveKeyReused(w) ==
    /\ keys < MaxKey
    /\ Goto(w, "enroll", "rmCert")
    /\ key' = [key EXCEPT ![w] = keys + 1]
    /\ keyFile' = 0
    /\ raced' = (raced \/ \E v \in Worker \ {w} : pc[v] \in Enrolling)
    /\ UNCHANGED <<certFile, recordFile, tokensFile, app, op, tok, held, keys, provider,
                   life, restarts, alone, mishap, wiped>>

RemoveKey(w) ==
    /\ keys < MaxKey
    /\ Goto(w, "enroll", "rmCert")
    /\ keys' = keys + 1
    /\ key' = [key EXCEPT ![w] = keys + 1]
    /\ keyFile' = 0
    /\ raced' = (raced \/ \E v \in Worker \ {w} : pc[v] \in Enrolling)
    /\ UNCHANGED <<certFile, recordFile, tokensFile, app, op, tok, held, provider,
                   life, restarts, alone, mishap, wiped>>

\* No enrollment URL, or no directory or randomness for a key.
EnrollFails(w) ==
    /\ Goto(w, "enroll", "failed")
    /\ UNCHANGED <<files, app, local, keys, provider, life, history>>

\* Mutant: the old certificate is left beside the new key.
RemoveCertSkipped(w) ==
    /\ Goto(w, "rmCert", "writeKey")
    /\ UNCHANGED <<files, app, local, keys, provider, life, history>>

RemoveCert(w) ==
    /\ Goto(w, "rmCert", "writeKey")
    /\ certFile' = 0
    /\ UNCHANGED <<keyFile, recordFile, tokensFile, app, local, keys, provider, life, history>>

WriteKey(w) ==
    /\ Goto(w, "writeKey", "post")
    /\ keyFile' = key[w]
    /\ UNCHANGED <<certFile, recordFile, tokensFile, app, local, keys, provider, life, history>>

\* The service signed the key.
PostGranted(w) ==
    /\ Goto(w, "post", "writeCert")
    /\ UNCHANGED <<files, app, local, keys, provider, life, history>>

\* Mutant: the certificate of the answer is not stored.
WriteCertSkipped(w) ==
    /\ Goto(w, "writeCert", "writeRecord")
    /\ UNCHANGED <<files, app, local, keys, provider, life, history>>

WriteCert(w) ==
    /\ Goto(w, "writeCert", "writeRecord")
    /\ certFile' = key[w]
    /\ UNCHANGED <<keyFile, recordFile, tokensFile, app, local, keys, provider, life, history>>

WriteRecord(w) ==
    /\ Goto(w, "writeRecord", "done")
    /\ recordFile' = key[w]
    /\ UNCHANGED <<keyFile, certFile, tokensFile, app, local, keys, provider, life, history>>

\* A write fails; or the key cannot be restricted, the service refuses, is not
\* reached or answers with something else.
EnrollStepFails(w) ==
    /\ pc[w] \in Enrolling \ {"rmCert"}
    /\ pc' = [pc EXCEPT ![w] = "failed"]
    /\ UNCHANGED <<files, app, local, keys, provider, life, history>>

Enroll(w) ==
    \/ RemoveKey(w) \/ EnrollFails(w) \/ RemoveCert(w) \/ WriteKey(w)
    \/ PostGranted(w) \/ WriteCert(w) \/ WriteRecord(w) \/ EnrollStepFails(w)

-----------------------------------------------------------------------------
(***************************************************************************)
(* How the operations end.                                                 *)
(***************************************************************************)
\* Mutant: the outcome of a failed sign-in is not stored.
SignInFailsSilently(w) ==
    /\ op[w] = "sign_in"
    /\ Return(w, "failed")
    /\ UNCHANGED <<files, app, keys, provider, life, restarts, raced, mishap, wiped>>

SignInFails(w) ==
    /\ op[w] = "sign_in"
    /\ Return(w, "failed")
    /\ auth' = "Failed"
    /\ UNCHANGED <<files, cancel, keys, provider, life, restarts, raced, mishap, wiped>>

SignedIn(w) ==
    /\ op[w] = "sign_in"
    /\ Return(w, "done")
    /\ auth' = "SignedIn"
    /\ UNCHANGED <<files, cancel, keys, provider, life, restarts, raced, mishap, wiped>>

\* renew() hands the outcome to the UI.
RenewEnds(w) ==
    /\ op[w] = "renew"
    /\ Return(w, IF pc[w] = "done" THEN "done" ELSE "failed")
    /\ UNCHANGED <<files, app, keys, provider, life, restarts, raced, mishap, wiped>>

\* start_tunnel(): the fresh record is connected with ...
RenewedForConnect(w) ==
    /\ op[w] = "start_tunnel"
    /\ Goto(w, "done", "start")
    /\ held' = [held EXCEPT ![w] = key[w]]
    /\ UNCHANGED <<files, app, op, key, tok, keys, provider, life, history>>

\* ... or, when the renewal failed, the old one, if it is still valid.
ConnectOnOld(w) ==
    /\ op[w] = "start_tunnel"
    /\ IsValid(held[w])
    /\ Goto(w, "failed", "start")
    /\ auth' = "Failed"
    /\ UNCHANGED <<files, cancel, local, keys, provider, life, history>>

ConnectRefused(w) ==
    /\ op[w] = "start_tunnel"
    /\ ~IsValid(held[w])
    /\ Return(w, "failed")
    /\ UNCHANGED <<files, app, keys, provider, life, restarts, raced, mishap, wiped>>

\* The server answers, or is asked for through its relay ...
ServerReached(w) ==
    /\ Goto(w, "start", "connect")
    /\ UNCHANGED <<files, app, local, keys, provider, life, history>>

\* ... or there is no relay to go through, or no wstunnel.
StartRefused(w) ==
    /\ Return(w, "start")
    /\ UNCHANGED <<files, app, keys, provider, life, restarts, raced, mishap, wiped>>

\* The supervisor is started on the key and certificate files.
StartSupervisor(w) ==
    /\ Return(w, "connect")
    /\ UNCHANGED <<files, app, keys, provider, life, restarts, raced, mishap, wiped>>

-----------------------------------------------------------------------------
(***************************************************************************)
(* cancel_sign_in(), sign_out() and reset_all().  The last does not set    *)
(* the cancel flag.                                                        *)
(***************************************************************************)
SetCancel(w) ==
    /\ Goto(w, "cancel", IF op[w] = "sign_out" THEN "forget" ELSE "signedOut")
    /\ cancel' = TRUE
    /\ UNCHANGED <<files, auth, local, keys, provider, life, history>>

Forget(w) ==
    /\ Goto(w, "forget", "clearKey")
    /\ tokensFile' = 0
    /\ UNCHANGED <<keyFile, certFile, recordFile, app, local, keys, provider, life, history>>

ClearKey(w) ==
    /\ Goto(w, "clearKey", "clearCert")
    /\ keyFile' = 0
    /\ UNCHANGED <<certFile, recordFile, tokensFile, app, local, keys, provider, life, history>>

\* Mutant: the certificate is not among the files that are deleted.
ClearCertSkipped(w) ==
    /\ Goto(w, "clearCert", "clearRecord")
    /\ UNCHANGED <<files, app, local, keys, provider, life, history>>

ClearCert(w) ==
    /\ Goto(w, "clearCert", "clearRecord")
    /\ certFile' = 0
    /\ UNCHANGED <<keyFile, recordFile, tokensFile, app, local, keys, provider, life, history>>

ClearRecord(w) ==
    /\ Goto(w, "clearRecord", "signedOut")
    /\ recordFile' = 0
    /\ UNCHANGED <<keyFile, certFile, tokensFile, app, local, keys, provider, life, history>>

SetSignedOut(w) ==
    /\ Return(w, "signedOut")
    /\ auth' = "SignedOut"
    /\ wiped' = (wiped \/ op[w] # "cancel_sign_in")
    /\ UNCHANGED <<files, cancel, keys, provider, life, restarts, raced, mishap>>

Step(w) ==
    \/ SetWaiting(w) \/ ClearCancel(w) \/ Poll(w) \/ PollGranted(w) \/ PollFails(w)
    \/ LoadTokens(w) \/ Refresh(w) \/ RefreshFails(w) \/ RefreshAnswerLost(w)
    \/ SaveTokens(w) \/ SaveTokensFails(w) \/ SetEnrolling(w)
    \/ Enroll(w)
    \/ SignInFails(w) \/ SignedIn(w) \/ RenewEnds(w)
    \/ RenewedForConnect(w) \/ ConnectOnOld(w) \/ ConnectRefused(w)
    \/ ServerReached(w) \/ StartRefused(w) \/ StartSupervisor(w)
    \/ SetCancel(w) \/ Forget(w) \/ ClearKey(w) \/ ClearCert(w) \/ ClearRecord(w)
    \/ SetSignedOut(w)

\* The app ends, wherever its workers are, and starts again: what it shows is
\* read from the record.
Restart ==
    /\ restarts < MaxRestart
    /\ restarts' = restarts + 1
    /\ mishap' = (mishap \/ \E w \in Worker : Busy(w))
    /\ auth' = IF IsValid(recordFile) THEN "SignedIn" ELSE "SignedOut"
    /\ cancel' = FALSE
    /\ pc' = [w \in Worker |-> "idle"]
    /\ op' = [w \in Worker |-> "none"]
    /\ key' = [w \in Worker |-> 0]
    /\ tok' = [w \in Worker |-> 0]
    /\ held' = [w \in Worker |-> 0]
    /\ alone' = [w \in Worker |-> FALSE]
    /\ UNCHANGED <<files, keys, provider, life, raced, wiped>>

\* Time passes: a certificate comes within two hours of its end, then ends.
Age(k) ==
    /\ k = recordFile \/ \E w \in Worker : held[w] = k
    /\ \/ life[k] = "fresh" /\ life' = [life EXCEPT ![k] = "due"]
       \/ life[k] = "due" /\ life' = [life EXCEPT ![k] = "expired"]
    /\ UNCHANGED <<files, app, pc, local, keys, provider, history>>

Command(w) == \/ SignIn(w) \/ Renew(w) \/ StartTunnel(w)
              \/ CancelSignIn(w) \/ SignOut(w) \/ ResetAll(w)

Next ==
    \/ \E w \in Worker : Command(w) \/ Step(w)
    \/ Restart
    \/ \E k \in Keys : Age(k)

\* Every request, poll and wait of a worker has a time limit.
Fairness == \A w \in Worker : WF_vars(Step(w))

Spec     == Init /\ [][Next]_vars
FairSpec == Spec /\ Fairness

-----------------------------------------------------------------------------
(* Invariants. *)

\* Every variable has its type; keys and tokens are numbered as generated.
TypeOK ==
    /\ keyFile \in 0..keys /\ certFile \in 0..keys /\ recordFile \in 0..keys
    /\ tokensFile \in 0..tokens
    /\ auth \in AuthState /\ cancel \in BOOLEAN
    /\ pc \in [Worker -> Label] /\ op \in [Worker -> Op]
    /\ key \in [Worker -> 0..keys] /\ held \in [Worker -> 0..keys]
    /\ tok \in [Worker -> 0..tokens]
    /\ keys \in 0..MaxKey /\ tokens \in 0..MaxToken
    /\ spent \subseteq 1..tokens
    /\ life \in [Keys -> Life]
    /\ restarts \in 0..MaxRestart
    /\ alone \in [Worker -> BOOLEAN]
    /\ raced \in BOOLEAN /\ mishap \in BOOLEAN /\ wiped \in BOOLEAN

\* "a stale certificate beside a new key produces a baffling auth failure"
\* (enroll.rs:102-103): unless two enrolments ran together, there never is one,
\* wherever a write failed, the app ended or a sign-out came between.
CertMatchesKey == ~raced /\ certFile # 0 /\ keyFile # 0 => certFile = keyFile

\* The refresh token on disk is one the provider honours, or its successor is
\* about to be saved (main.rs:630-632), unless the app ended or an answer or a
\* write was lost just then.  Several renewals and a sign-in may run together.
RefreshTokenKept ==
    ~mishap /\ tokensFile \in spent =>
        \E w \in Worker : pc[w] = "save" /\ tok[w] \notin spent

(* Action properties. *)

Undisturbed(w) == alone[w] /\ restarts' = restarts

\* A sign-out or a reset that nothing ran beside leaves no credential on disk
\* and says so (main.rs:194-200, 608-615; enroll.rs:233-244).
CleanSignOut ==
    [][\A w \in Worker :
          /\ Undisturbed(w) /\ op[w] \in {"sign_out", "reset_all"}
          /\ pc[w] = "signedOut" /\ pc'[w] = "idle"
          => files = <<0, 0, 0, 0>> /\ auth' = "SignedOut"]_vars

\* An enrolment that nothing ran beside ends well only with a key, its
\* certificate and its record on disk (enroll.rs:148-231).
EnrolledIsUsable ==
    [][\A w \in Worker :
          Undisturbed(w) /\ pc[w] = "done" /\ pc'[w] # "done"
          => recordFile # 0 /\ keyFile = recordFile /\ certFile = recordFile]_vars

(* Liveness. *)

\* Waiting and Enrolling do not last (main.rs:497-530, 553-597): whatever ran
\* beside it, some thread stores an outcome.
AuthSettles == auth \in {"Waiting", "Enrolling"} ~> auth \notin {"Waiting", "Enrolling"}

(* What the repository says and the code does not do. *)

\* "A renewal failure on a still-valid certificate is not fatal -- connect on
\* what we have" (main.rs:653-654): the files are those of the valid record.
ConnectsOnWhatWeHave ==
    [][\A w \in Worker :
          /\ Undisturbed(w) /\ op[w] = "start_tunnel" /\ IsValid(held[w])
          /\ pc[w] = "connect" /\ pc'[w] = "idle"
          => keyFile = held[w] /\ certFile = held[w]]_vars

\* "Delete everything this app has created and return it to a first run ...
\* Anything left behind would make "reset" a lie" (main.rs:171-178): with no
\* sign-in begun since, and nothing under way, no credential is on disk.
ResetIsComplete == wiped /\ (\A w \in Worker : ~Busy(w)) => files = <<0, 0, 0, 0>>
=============================================================================
