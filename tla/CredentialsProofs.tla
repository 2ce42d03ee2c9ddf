-------------------------- MODULE CredentialsProofs --------------------------
(***************************************************************************)
(* Proofs about Credentials.  A certificate matches its key because, of    *)
(* enrolments that never ran together, the one under way removed the key   *)
(* first and the certificate next, and nobody else writes either           *)
(* (EnrollInv).  The refresh token is kept because the one a worker is     *)
(* about to save was issued to it alone (TokenInv).  What an enrolment or  *)
(* a sign-out ends with, when nothing ran beside it, follows from what it  *)
(* has left of the files at each of its steps (AloneInv).                  *)
(***************************************************************************)
EXTENDS Credentials, TLAPS

USE CredentialsAssumption

-----------------------------------------------------------------------------
(* Types. *)

\* What a command does first.
First == {"waiting", "load", "cancel", "forget", "start"}

LEMMA CommandBegins ==
    ASSUME NEW w \in Worker, Command(w)
    PROVE  /\ \E first \in First : pc[w] = "idle" /\ pc' = [pc EXCEPT ![w] = first]
           /\ \E what \in Op, record \in {0, recordFile} :
                  op' = [op EXCEPT ![w] = what] /\ held' = [held EXCEPT ![w] = record]
           /\ UNCHANGED <<keyFile, certFile, recordFile, tokensFile, auth, cancel, key, tok,
                          keys, tokens, spent, life, restarts, raced, mishap>>
<1>1. PICK what \in Op, first \in First, record \in {0, recordFile} :
          Begin(w, what, first, record)
  BY DEF Command, SignIn, Renew, CancelSignIn, SignOut, ResetAll, StartTunnel, Op, First
<1>2. pc[w] = "idle" /\ pc' = [pc EXCEPT ![w] = first]
  BY <1>1 DEF Begin, Goto
<1>3. op' = [op EXCEPT ![w] = what] /\ held' = [held EXCEPT ![w] = record]
  BY <1>1 DEF Begin
<1>4. UNCHANGED <<keyFile, certFile, recordFile, tokensFile, auth, cancel, key, tok,
                  keys, tokens, spent, life, restarts, raced, mishap>>
  BY <1>1 DEF Begin, files, app, provider
<1> QED BY <1>2, <1>3, <1>4

\* TypeOK but for the flags of the history; and a worker that uses a refresh
\* token has one.
Types ==
    /\ keyFile \in 0..keys /\ certFile \in 0..keys /\ recordFile \in 0..keys
    /\ tokensFile \in 0..tokens
    /\ auth \in AuthState /\ cancel \in BOOLEAN
    /\ pc \in [Worker -> Label] /\ op \in [Worker -> Op]
    /\ key \in [Worker -> 0..keys] /\ held \in [Worker -> 0..keys]
    /\ tok \in [Worker -> 0..tokens]
    /\ keys \in 0..MaxKey /\ tokens \in 0..MaxToken
    /\ spent \subseteq 1..tokens
    /\ life \in [Keys -> Life]
    /\ restarts \in 0..MaxRestart
    /\ \A w \in Worker : pc[w] = "refresh" => tok[w] # 0

\* Every step keeps the types.
LEMMA TypesStep == Types /\ [Next]_vars => Types'
<1> SUFFICES ASSUME Types, [Next]_vars PROVE Types'
  OBVIOUS
<1> USE DEF Types, Goto, files, app, local, provider, history, Keys, Label, Enrolling,
            Op, AuthState, Life
<1>1. ASSUME NEW w \in Worker, Command(w) PROVE Types'
  <2>1. PICK first \in First : pc[w] = "idle" /\ pc' = [pc EXCEPT ![w] = first]
    BY <1>1, CommandBegins
  <2>2. UNCHANGED <<keyFile, certFile, recordFile, tokensFile, auth, cancel, key, tok, keys,
                    tokens, spent, life, restarts, raced, mishap>>
    BY <1>1, CommandBegins
  <2>3. PICK what \in Op, record \in {0, recordFile} :
            op' = [op EXCEPT ![w] = what] /\ held' = [held EXCEPT ![w] = record]
    BY <1>1, CommandBegins
  <2> QED BY <2>1, <2>2, <2>3 DEF First
<1>2. ASSUME NEW w \in Worker, Step(w) PROVE Types'
  <2>1. CASE SetWaiting(w) BY <2>1 DEF SetWaiting
  <2>2. CASE ClearCancel(w) BY <2>2 DEF ClearCancel
  <2>3. CASE Poll(w) BY <2>3 DEF Poll
  <2>4. CASE PollGranted(w) BY <2>4 DEF PollGranted
  <2>5. CASE PollFails(w) BY <2>5 DEF PollFails
  <2>6. CASE LoadTokens(w) BY <2>6 DEF LoadTokens
  <2>7. CASE Refresh(w)
    <3>1. CASE Rotates
      <4>1. tok[w] \in 1..tokens /\ tokens + 1 \in 1..MaxToken
        BY <2>7, <3>1 DEF Refresh
      <4>2. tokens' = tokens + 1 /\ spent' = spent \cup {tok[w]}
        BY <2>7, <3>1 DEF Refresh
      <4>3. tok \in [Worker -> 0..(tokens + 1)] /\ spent \cup {tok[w]} \subseteq 1..(tokens + 1)
            /\ tokensFile \in 0..(tokens + 1) /\ tokens + 1 \in 0..(tokens + 1)
        <5>1. tokens \in Nat
          OBVIOUS
        <5>2. /\ 0..tokens \subseteq 0..(tokens + 1) /\ 1..tokens \subseteq 1..(tokens + 1)
              /\ tokens + 1 \in 0..(tokens + 1)
          BY <5>1
        <5>3. spent \cup {tok[w]} \subseteq 1..tokens
          BY <4>1
        <5>4. tok \in [Worker -> 0..(tokens + 1)]
          BY <5>2
        <5> QED BY <5>2, <5>3, <5>4
      <4>4. tok' \in [Worker -> 0..(tokens + 1)] /\ tokens' \in 0..MaxToken
        BY <2>7, <3>1, <4>1, <4>2, <4>3 DEF Refresh
      <4>5. UNCHANGED <<keyFile, certFile, recordFile, tokensFile, auth, cancel, op, key, held,
                        keys, life, restarts>>
            /\ pc' = [pc EXCEPT ![w] = "save"]
            /\ \A v \in Worker \ {w} : tok'[v] = tok[v]
        BY <2>7, <3>1 DEF Refresh
      <4> QED BY <4>2, <4>3, <4>4, <4>5
    <3>2. CASE ~Rotates BY <2>7, <3>2 DEF Refresh
    <3> QED BY <3>1, <3>2
  <2>8. CASE RefreshFails(w) BY <2>8 DEF RefreshFails
  <2>9. CASE RefreshAnswerLost(w)
    <3>1. tok[w] \in 1..tokens
      BY <2>9 DEF RefreshAnswerLost
    <3>2. spent' \subseteq 1..tokens
      BY <2>9, <3>1 DEF RefreshAnswerLost
    <3> QED BY <2>9, <3>2 DEF RefreshAnswerLost
  <2>10. CASE SaveTokens(w) BY <2>10 DEF SaveTokens, AfterSave
  <2>11. CASE SaveTokensFails(w) BY <2>11 DEF SaveTokensFails
  <2>12. CASE SetEnrolling(w) BY <2>12 DEF SetEnrolling
  <2>13. CASE RemoveKey(w) BY <2>13 DEF RemoveKey
  <2>14. CASE EnrollFails(w) BY <2>14 DEF EnrollFails
  <2>15. CASE RemoveCert(w) BY <2>15 DEF RemoveCert
  <2>16. CASE WriteKey(w) BY <2>16 DEF WriteKey
  <2>17. CASE PostGranted(w) BY <2>17 DEF PostGranted
  <2>18. CASE WriteCert(w) BY <2>18 DEF WriteCert
  <2>19. CASE WriteRecord(w) BY <2>19 DEF WriteRecord
  <2>20. CASE EnrollStepFails(w) BY <2>20 DEF EnrollStepFails
  <2>21. CASE SignInFails(w) BY <2>21 DEF SignInFails, Return
  <2>22. CASE SignedIn(w) BY <2>22 DEF SignedIn, Return
  <2>23. CASE RenewEnds(w) BY <2>23 DEF RenewEnds, Return
  <2>24. CASE RenewedForConnect(w) BY <2>24 DEF RenewedForConnect
  <2>25. CASE ConnectOnOld(w) BY <2>25 DEF ConnectOnOld
  <2>26. CASE ConnectRefused(w) BY <2>26 DEF ConnectRefused, Return
  <2>27. CASE ServerReached(w) \/ StartRefused(w) \/ StartSupervisor(w)
    <3>1. CASE ServerReached(w) BY <3>1 DEF ServerReached
    <3>2. CASE StartRefused(w) BY <3>2 DEF StartRefused, Return
    <3>3. CASE StartSupervisor(w) BY <3>3 DEF StartSupervisor, Return
    <3> QED BY <2>27, <3>1, <3>2, <3>3
  <2>28. CASE SetCancel(w) BY <2>28 DEF SetCancel
  <2>29. CASE Forget(w) BY <2>29 DEF Forget
  <2>30. CASE ClearKey(w) BY <2>30 DEF ClearKey
  <2>31. CASE ClearCert(w) BY <2>31 DEF ClearCert
  <2>32. CASE ClearRecord(w) BY <2>32 DEF ClearRecord
  <2>33. CASE SetSignedOut(w) BY <2>33 DEF SetSignedOut, Return
  <2> QED
    BY <1>2, <2>1, <2>2, <2>3, <2>4, <2>5, <2>6, <2>7, <2>8, <2>9, <2>10, <2>11,
       <2>12, <2>13, <2>14, <2>15, <2>16, <2>17, <2>18, <2>19, <2>20, <2>21,
       <2>22, <2>23, <2>24, <2>25, <2>26, <2>27, <2>28, <2>29, <2>30, <2>31,
       <2>32, <2>33
    DEF Step, Enroll
<1>3. CASE Restart
  <2>1. /\ pc' \in [Worker -> Label] /\ op' \in [Worker -> Op]
        /\ \A w \in Worker : pc'[w] = "idle"
    BY <1>3 DEF Restart
  <2>2. /\ key' \in [Worker -> 0..keys] /\ held' \in [Worker -> 0..keys]
        /\ tok' \in [Worker -> 0..tokens]
    BY <1>3 DEF Restart
  <2>3. auth' \in AuthState /\ cancel' \in BOOLEAN
    BY <1>3 DEF Restart
  <2>4. UNCHANGED <<keyFile, certFile, recordFile, tokensFile, keys, tokens, spent, life>>
    BY <1>3 DEF Restart
  <2>5. restarts' = restarts + 1 /\ restarts + 1 \in 0..MaxRestart
    BY <1>3 DEF Restart
  <2> QED BY <2>1, <2>2, <2>3, <2>4, <2>5
<1>4. ASSUME NEW k \in Keys, Age(k) PROVE Types'
  BY <1>4 DEF Age
<1>5. CASE UNCHANGED vars BY <1>5 DEF vars
<1> QED BY <1>1, <1>2, <1>3, <1>4, <1>5 DEF Next


LEMMA TypesInit == Init => Types
<1> SUFFICES ASSUME Init PROVE Types
  OBVIOUS
<1>1. /\ pc \in [Worker -> Label] /\ op \in [Worker -> Op]
      /\ \A w \in Worker : pc[w] = "idle"
  BY DEF Init, Label, Op
<1>2. key \in [Worker -> 0..keys] /\ held \in [Worker -> 0..keys] /\ tok \in [Worker -> 0..tokens]
  BY DEF Init
<1>3. life \in [Keys -> Life] /\ auth \in AuthState
  BY DEF Init, Life, AuthState
<1>4. keys \in 0..MaxKey /\ tokens \in 0..MaxToken /\ restarts \in 0..MaxRestart
  BY DEF Init
<1>5. /\ keyFile \in 0..keys /\ certFile \in 0..keys /\ recordFile \in 0..keys
      /\ tokensFile \in 0..tokens
  BY DEF Init
<1>6. spent \subseteq 1..tokens /\ cancel \in BOOLEAN
  BY DEF Init
<1> QED BY <1>1, <1>2, <1>3, <1>4, <1>5, <1>6 DEF Types

-----------------------------------------------------------------------------
(* The flags. *)

Flags ==
    /\ alone \in [Worker -> BOOLEAN]
    /\ raced \in BOOLEAN /\ mishap \in BOOLEAN /\ wiped \in BOOLEAN

\* Every step keeps them.
LEMMA FlagsStep == Flags /\ [Next]_vars => Flags'
<1> SUFFICES ASSUME Flags, [Next]_vars PROVE Flags'
  OBVIOUS
<1> USE DEF Flags, history
<1>1. ASSUME NEW w \in Worker, Command(w) PROVE Flags'
  <2>1. PICK what \in Op, first \in First, record \in {0, recordFile} :
            Begin(w, what, first, record)
    BY <1>1 DEF Command, SignIn, Renew, CancelSignIn, SignOut, ResetAll, StartTunnel, Op, First
  <2>2. alone' = [v \in Worker |-> IF v = w THEN \A u \in Worker \ {w} : ~Busy(u)
                                            ELSE alone[v] /\ ~Busy(v)]
    BY <2>1 DEF Begin
  <2>3. alone' \in [Worker -> BOOLEAN]
    <3> SUFFICES ASSUME NEW v \in Worker
                 PROVE  (IF v = w THEN \A u \in Worker \ {w} : ~Busy(u)
                                  ELSE alone[v] /\ ~Busy(v)) \in BOOLEAN
      BY <2>2
    <3>1. CASE v = w BY <3>1, Zenon
    <3>2. CASE v # w BY <3>2, Zenon
    <3> QED BY <3>1, <3>2
  <2>4. wiped' = (wiped /\ what # "sign_in")
    BY <2>1 DEF Begin
  <2>5. wiped' \in BOOLEAN
    BY <2>4, Zenon
  <2>6. raced' = raced /\ mishap' = mishap
    BY <2>1 DEF Begin
  <2> QED BY <2>3, <2>5, <2>6
<1>2. ASSUME NEW w \in Worker, Step(w) PROVE Flags'
  <2>1. CASE Return(w, pc[w]) /\ UNCHANGED <<raced, mishap, wiped>>
    BY <2>1 DEF Return
  <2>2. CASE RemoveKey(w)
    <3>1. raced' = (raced \/ \E v \in Worker \ {w} : pc[v] \in Enrolling)
      BY <2>2 DEF RemoveKey
    <3>2. raced' \in BOOLEAN
      BY <3>1, Zenon
    <3> QED BY <2>2, <3>2 DEF RemoveKey
  <2>3. CASE SetSignedOut(w)
    <3>1. wiped' = (wiped \/ op[w] # "cancel_sign_in")
      BY <2>3 DEF SetSignedOut
    <3>2. wiped' \in BOOLEAN
      BY <3>1, Zenon
    <3> QED BY <2>3, <3>2 DEF SetSignedOut, Return
  <2>4. CASE RefreshAnswerLost(w) \/ SaveTokensFails(w)
    BY <2>4 DEF RefreshAnswerLost, SaveTokensFails
  <2>5. CASE UNCHANGED history
    BY <2>5
  <2>6. SignInFails(w) \/ SignedIn(w) \/ RenewEnds(w) \/ ConnectRefused(w)
        \/ StartRefused(w) \/ StartSupervisor(w)
        => Return(w, pc[w]) /\ UNCHANGED <<raced, mishap, wiped>>
    BY DEF SignInFails, SignedIn, RenewEnds, ConnectRefused, StartRefused, StartSupervisor,
           Return, Goto
  <2>7. SetWaiting(w) \/ ClearCancel(w) \/ Poll(w) \/ PollGranted(w) \/ PollFails(w)
        \/ LoadTokens(w) \/ Refresh(w) \/ RefreshFails(w) \/ SaveTokens(w) \/ SetEnrolling(w)
        => UNCHANGED history
    BY DEF SetWaiting, ClearCancel, Poll, PollGranted, PollFails, LoadTokens, Refresh,
           RefreshFails, SaveTokens, SetEnrolling
  <2>8. EnrollFails(w) \/ RemoveCert(w) \/ WriteKey(w) \/ PostGranted(w) \/ WriteCert(w)
        \/ WriteRecord(w) \/ EnrollStepFails(w) => UNCHANGED history
    BY DEF EnrollFails, RemoveCert, WriteKey, PostGranted, WriteCert, WriteRecord, EnrollStepFails
  <2>9. RenewedForConnect(w) \/ ConnectOnOld(w) \/ ServerReached(w) \/ SetCancel(w)
        \/ Forget(w) \/ ClearKey(w) \/ ClearCert(w) \/ ClearRecord(w) => UNCHANGED history
    BY DEF RenewedForConnect, ConnectOnOld, ServerReached, SetCancel, Forget, ClearKey, ClearCert, ClearRecord
  <2> QED BY <1>2, <2>1, <2>2, <2>3, <2>4, <2>5, <2>6, <2>7, <2>8, <2>9 DEF Step, Enroll
<1>3. CASE Restart
  <2>1. mishap' = (mishap \/ \E w \in Worker : Busy(w))
    BY <1>3 DEF Restart
  <2>2. mishap' \in BOOLEAN
    BY <2>1, Zenon
  <2> QED BY <1>3, <2>2 DEF Restart
<1>4. ASSUME NEW k \in Keys, Age(k) PROVE Flags'
  BY <1>4 DEF Age
<1>5. CASE UNCHANGED vars BY <1>5 DEF vars
<1> QED BY <1>1, <1>2, <1>3, <1>4, <1>5 DEF Next

\* The variables have their types, for any number of workers, keys and tokens.
THEOREM TypeCorrect == Spec => []TypeOK
<1>1. Init => Flags
  BY DEF Init, Flags
<1>2. Types /\ Flags => TypeOK
  BY DEF Types, Flags, TypeOK
<1> QED BY <1>1, <1>2, TypesInit, TypesStep, FlagsStep, PTL DEF Spec

-----------------------------------------------------------------------------
(* The key and its certificate. *)

\* What the enrolment under way, the only one, has left of the files so far.
EnrollInv ==
    ~raced =>
        /\ \A w, v \in Worker : pc[w] \in Enrolling /\ pc[v] \in Enrolling => w = v
        /\ \A w \in Worker :
              /\ pc[w] \in {"rmCert", "writeKey"} => keyFile = 0
              /\ pc[w] \in {"writeKey", "post", "writeCert"} => certFile = 0
              /\ pc[w] \in {"post", "writeCert", "writeRecord"} => keyFile \in {0, key[w]}
              /\ pc[w] = "writeRecord" => certFile \in {0, key[w]}
        /\ CertMatchesKey

\* Every step keeps it.
LEMMA EnrollStep == Types /\ EnrollInv /\ [Next]_vars => EnrollInv'
<1> SUFFICES ASSUME Types, EnrollInv, [Next]_vars PROVE EnrollInv'
  OBVIOUS
<1> USE DEF EnrollInv, CertMatchesKey, Types, Goto, files, app, local, provider, history, Enrolling
<1>1. ASSUME NEW w \in Worker, Command(w) PROVE EnrollInv'
  <2>1. PICK first \in First : pc[w] = "idle" /\ pc' = [pc EXCEPT ![w] = first]
    BY <1>1, CommandBegins
  <2>2. UNCHANGED <<keyFile, certFile, recordFile, tokensFile, auth, cancel, key, tok, keys,
                    tokens, spent, life, restarts, raced, mishap>>
    BY <1>1, CommandBegins
  <2> QED BY <2>1, <2>2 DEF First
<1>2. ASSUME NEW w \in Worker, Step(w) PROVE EnrollInv'
  <2>1. CASE SetWaiting(w) BY <2>1 DEF SetWaiting
  <2>2. CASE ClearCancel(w) BY <2>2 DEF ClearCancel
  <2>3. CASE Poll(w) BY <2>3 DEF Poll
  <2>4. CASE PollGranted(w) BY <2>4 DEF PollGranted
  <2>5. CASE PollFails(w) BY <2>5 DEF PollFails
  <2>6. CASE LoadTokens(w) BY <2>6 DEF LoadTokens
  <2>7. CASE Refresh(w) BY <2>7 DEF Refresh
  <2>8. CASE RefreshFails(w) BY <2>8 DEF RefreshFails
  <2>9. CASE RefreshAnswerLost(w) BY <2>9 DEF RefreshAnswerLost
  <2>10. CASE SaveTokens(w) BY <2>10 DEF SaveTokens, AfterSave
  <2>11. CASE SaveTokensFails(w) BY <2>11 DEF SaveTokensFails
  <2>12. CASE SetEnrolling(w) BY <2>12 DEF SetEnrolling
  <2>13. CASE RemoveKey(w) BY <2>13 DEF RemoveKey
  <2>14. CASE EnrollFails(w) BY <2>14 DEF EnrollFails
  <2>15. CASE RemoveCert(w) BY <2>15 DEF RemoveCert
  <2>16. CASE WriteKey(w) BY <2>16 DEF WriteKey
  <2>17. CASE PostGranted(w) BY <2>17 DEF PostGranted
  <2>18. CASE WriteCert(w) BY <2>18 DEF WriteCert
  <2>19. CASE WriteRecord(w) BY <2>19 DEF WriteRecord
  <2>20. CASE EnrollStepFails(w) BY <2>20 DEF EnrollStepFails
  <2>21. CASE SignInFails(w) BY <2>21 DEF SignInFails, Return
  <2>22. CASE SignedIn(w) BY <2>22 DEF SignedIn, Return
  <2>23. CASE RenewEnds(w) BY <2>23 DEF RenewEnds, Return
  <2>24. CASE RenewedForConnect(w) BY <2>24 DEF RenewedForConnect
  <2>25. CASE ConnectOnOld(w) BY <2>25 DEF ConnectOnOld
  <2>26. CASE ConnectRefused(w) BY <2>26 DEF ConnectRefused, Return
  <2>27. CASE ServerReached(w) \/ StartRefused(w) \/ StartSupervisor(w)
    <3>1. CASE ServerReached(w) BY <3>1 DEF ServerReached
    <3>2. CASE StartRefused(w) BY <3>2 DEF StartRefused, Return
    <3>3. CASE StartSupervisor(w) BY <3>3 DEF StartSupervisor, Return
    <3> QED BY <2>27, <3>1, <3>2, <3>3
  <2>28. CASE SetCancel(w) BY <2>28 DEF SetCancel
  <2>29. CASE Forget(w) BY <2>29 DEF Forget
  <2>30. CASE ClearKey(w) BY <2>30 DEF ClearKey
  <2>31. CASE ClearCert(w) BY <2>31 DEF ClearCert
  <2>32. CASE ClearRecord(w) BY <2>32 DEF ClearRecord
  <2>33. CASE SetSignedOut(w) BY <2>33 DEF SetSignedOut, Return
  <2> QED
    BY <1>2, <2>1, <2>2, <2>3, <2>4, <2>5, <2>6, <2>7, <2>8, <2>9, <2>10, <2>11,
       <2>12, <2>13, <2>14, <2>15, <2>16, <2>17, <2>18, <2>19, <2>20, <2>21,
       <2>22, <2>23, <2>24, <2>25, <2>26, <2>27, <2>28, <2>29, <2>30, <2>31,
       <2>32, <2>33
    DEF Step, Enroll
<1>3. CASE Restart BY <1>3 DEF Restart, Busy
<1>4. ASSUME NEW k \in Keys, Age(k) PROVE EnrollInv'
  BY <1>4 DEF Age
<1>5. CASE UNCHANGED vars BY <1>5 DEF vars
<1> QED BY <1>1, <1>2, <1>3, <1>4, <1>5 DEF Next

\* For any number of workers and keys: a certificate never stands beside the key
\* of another, unless two enrolments ran together.
THEOREM CertMatches == Spec => []CertMatchesKey
<1>1. Init => EnrollInv
  BY DEF Init, EnrollInv, CertMatchesKey, Enrolling
<1>2. EnrollInv => CertMatchesKey
  BY DEF EnrollInv, CertMatchesKey
<1> QED BY <1>1, <1>2, TypesInit, TypesStep, EnrollStep, PTL DEF Spec

-----------------------------------------------------------------------------
(* The refresh token. *)

\* Of a provider that replaces them, a token that is about to be saved was
\* issued to that worker alone and is in no file.
TokenInv ==
    /\ ~Rotates => spent = {}
    /\ \A w \in Worker : pc[w] = "save" =>
          /\ tok[w] # 0 /\ tok[w] \notin spent
          /\ Rotates => tok[w] # tokensFile /\ \A v \in Worker \ {w} : tok[v] # tok[w]
    /\ RefreshTokenKept

\* Every step keeps it.
LEMMA TokenStep == Types /\ TokenInv /\ [Next]_vars => TokenInv'
<1> SUFFICES ASSUME Types, TokenInv, [Next]_vars PROVE TokenInv'
  OBVIOUS
<1> USE DEF TokenInv, RefreshTokenKept, Types, Goto, files, app, local, provider, history
<1>1. ASSUME NEW w \in Worker, Command(w) PROVE TokenInv'
  <2>1. PICK first \in First : pc[w] = "idle" /\ pc' = [pc EXCEPT ![w] = first]
    BY <1>1, CommandBegins
  <2>2. UNCHANGED <<keyFile, certFile, recordFile, tokensFile, auth, cancel, key, tok, keys,
                    tokens, spent, life, restarts, raced, mishap>>
    BY <1>1, CommandBegins
  <2> QED BY <2>1, <2>2 DEF First
<1>2. ASSUME NEW w \in Worker, Step(w) PROVE TokenInv'
  <2>1. CASE SetWaiting(w) BY <2>1 DEF SetWaiting
  <2>2. CASE ClearCancel(w) BY <2>2 DEF ClearCancel
  <2>3. CASE Poll(w) BY <2>3 DEF Poll
  <2>4. CASE PollGranted(w) BY <2>4 DEF PollGranted
  <2>5. CASE PollFails(w) BY <2>5 DEF PollFails
  <2>6. CASE LoadTokens(w) BY <2>6 DEF LoadTokens
  <2>7. CASE Refresh(w)
    <3>1. CASE Rotates
      <4>1. /\ tokens' = tokens + 1 /\ spent' = spent \cup {tok[w]} /\ tok'[w] = tokens + 1
            /\ pc'[w] = "save" /\ tokensFile' = tokensFile /\ mishap' = mishap
        BY <2>7, <3>1 DEF Refresh
      <4>2. \A v \in Worker \ {w} : tok'[v] = tok[v] /\ pc'[v] = pc[v]
        BY <2>7, <3>1 DEF Refresh
      <4>3. /\ \A v \in Worker : tok[v] \in 0..tokens
            /\ tokensFile \in 0..tokens /\ tokens \in Nat /\ tok[w] # tokens + 1
        OBVIOUS
      <4>4. tok'[w] \notin spent' /\ tok'[w] # 0 /\ tok'[w] # tokensFile
            /\ \A v \in Worker \ {w} : tok'[v] # tok'[w]
        BY <4>1, <4>2, <4>3
      <4>5. \A v \in Worker \ {w} : pc'[v] = "save" => tok[v] # tok[w]
        BY <3>1, <4>2
      <4>6. \A v \in Worker : pc'[v] = "save" =>
                /\ tok'[v] # 0 /\ tok'[v] \notin spent'
                /\ tok'[v] # tokensFile' /\ \A u \in Worker \ {v} : tok'[u] # tok'[v]
        <5>1. ASSUME NEW v \in Worker, v # w, pc'[v] = "save"
              PROVE  /\ tok'[v] # 0 /\ tok'[v] \notin spent'
                     /\ tok'[v] # tokensFile' /\ \A u \in Worker \ {v} : tok'[u] # tok'[v]
          BY <3>1, <4>1, <4>2, <4>4, <4>5, <5>1
        <5> QED BY <4>1, <4>4, <5>1
      <4> QED BY <3>1, <4>1, <4>4, <4>6
    <3>2. CASE ~Rotates BY <2>7, <3>2 DEF Refresh
    <3> QED BY <3>1, <3>2
  <2>8. CASE RefreshFails(w) BY <2>8 DEF RefreshFails
  <2>9. CASE RefreshAnswerLost(w) BY <2>9 DEF RefreshAnswerLost
  <2>10. CASE SaveTokens(w) BY <2>10 DEF SaveTokens, AfterSave
  <2>11. CASE SaveTokensFails(w) BY <2>11 DEF SaveTokensFails
  <2>12. CASE SetEnrolling(w) BY <2>12 DEF SetEnrolling
  <2>13. CASE RemoveKey(w) BY <2>13 DEF RemoveKey
  <2>14. CASE EnrollFails(w) BY <2>14 DEF EnrollFails
  <2>15. CASE RemoveCert(w) BY <2>15 DEF RemoveCert
  <2>16. CASE WriteKey(w) BY <2>16 DEF WriteKey
  <2>17. CASE PostGranted(w) BY <2>17 DEF PostGranted
  <2>18. CASE WriteCert(w) BY <2>18 DEF WriteCert
  <2>19. CASE WriteRecord(w) BY <2>19 DEF WriteRecord
  <2>20. CASE EnrollStepFails(w) BY <2>20 DEF EnrollStepFails, Enrolling
  <2>21. CASE SignInFails(w) BY <2>21 DEF SignInFails, Return
  <2>22. CASE SignedIn(w) BY <2>22 DEF SignedIn, Return
  <2>23. CASE RenewEnds(w) BY <2>23 DEF RenewEnds, Return
  <2>24. CASE RenewedForConnect(w) BY <2>24 DEF RenewedForConnect
  <2>25. CASE ConnectOnOld(w) BY <2>25 DEF ConnectOnOld
  <2>26. CASE ConnectRefused(w) BY <2>26 DEF ConnectRefused, Return
  <2>27. CASE ServerReached(w) \/ StartRefused(w) \/ StartSupervisor(w)
    <3>1. CASE ServerReached(w) BY <3>1 DEF ServerReached
    <3>2. CASE StartRefused(w) BY <3>2 DEF StartRefused, Return
    <3>3. CASE StartSupervisor(w) BY <3>3 DEF StartSupervisor, Return
    <3> QED BY <2>27, <3>1, <3>2, <3>3
  <2>28. CASE SetCancel(w) BY <2>28 DEF SetCancel
  <2>29. CASE Forget(w) BY <2>29 DEF Forget
  <2>30. CASE ClearKey(w) BY <2>30 DEF ClearKey
  <2>31. CASE ClearCert(w) BY <2>31 DEF ClearCert
  <2>32. CASE ClearRecord(w) BY <2>32 DEF ClearRecord
  <2>33. CASE SetSignedOut(w) BY <2>33 DEF SetSignedOut, Return
  <2> QED
    BY <1>2, <2>1, <2>2, <2>3, <2>4, <2>5, <2>6, <2>7, <2>8, <2>9, <2>10, <2>11,
       <2>12, <2>13, <2>14, <2>15, <2>16, <2>17, <2>18, <2>19, <2>20, <2>21,
       <2>22, <2>23, <2>24, <2>25, <2>26, <2>27, <2>28, <2>29, <2>30, <2>31,
       <2>32, <2>33
    DEF Step, Enroll
<1>3. CASE Restart BY <1>3 DEF Restart, Busy
<1>4. ASSUME NEW k \in Keys, Age(k) PROVE TokenInv'
  BY <1>4 DEF Age
<1>5. CASE UNCHANGED vars BY <1>5 DEF vars
<1> QED BY <1>1, <1>2, <1>3, <1>4, <1>5 DEF Next

\* For any number of workers and tokens: the stored refresh token is one the
\* provider honours, or its successor is about to be stored.
THEOREM TokenKept == Spec => []RefreshTokenKept
<1>1. Init => TokenInv
  BY DEF Init, TokenInv, RefreshTokenKept
<1>2. TokenInv => RefreshTokenKept
  BY DEF TokenInv
<1> QED BY <1>1, <1>2, TypesInit, TypesStep, TokenStep, PTL DEF Spec
-----------------------------------------------------------------------------
(* An operation that nothing runs beside. *)

\* What it has left of the files so far: an enrolment, its key and what was issued
\* for it; a sign-out or a reset, nothing.
Left(w) ==
    /\ pc[w] = "cancel" => op[w] # "reset_all"
    /\ op[w] \in {"sign_out", "reset_all"} =>
          /\ pc[w] \in {"clearKey", "clearCert", "clearRecord", "signedOut"} => tokensFile = 0
          /\ pc[w] \in {"clearCert", "clearRecord", "signedOut"} => keyFile = 0
          /\ pc[w] \in {"clearRecord", "signedOut"} => certFile = 0
          /\ pc[w] = "signedOut" => recordFile = 0
    /\ pc[w] \in Enrolling \cup {"done"} => key[w] # 0
    /\ pc[w] \in {"post", "writeCert", "writeRecord", "done"} => keyFile = key[w]
    /\ pc[w] \in {"writeRecord", "done"} => certFile = key[w]
    /\ pc[w] = "done" => recordFile = key[w]

AloneInv == \A w \in Worker : alone[w] =>
    Busy(w) /\ Left(w) /\ \A v \in Worker \ {w} : ~Busy(v)

\* A step is its worker's alone: the others stay where they are.
LEMMA StepIsOwn ==
    ASSUME Types, Flags, NEW w \in Worker, Step(w)
    PROVE  /\ Busy(w)
           /\ \A v \in Worker \ {w} : pc'[v] = pc[v] /\ alone'[v] = alone[v]
           /\ alone'[w] => alone[w] /\ pc'[w] # "idle"
<1> USE DEF Types, Flags, Goto, Busy, local, history
<1>1. CASE SetWaiting(w) BY <1>1 DEF SetWaiting
<1>2. CASE ClearCancel(w) BY <1>2 DEF ClearCancel
<1>3. CASE Poll(w) BY <1>3 DEF Poll
<1>4. CASE PollGranted(w) BY <1>4 DEF PollGranted
<1>5. CASE PollFails(w) BY <1>5 DEF PollFails
<1>6. CASE LoadTokens(w) BY <1>6 DEF LoadTokens
<1>7. CASE Refresh(w) BY <1>7 DEF Refresh
<1>8. CASE RefreshFails(w) BY <1>8 DEF RefreshFails
<1>9. CASE RefreshAnswerLost(w) BY <1>9 DEF RefreshAnswerLost
<1>10. CASE SaveTokens(w) BY <1>10 DEF SaveTokens, AfterSave
<1>11. CASE SaveTokensFails(w) BY <1>11 DEF SaveTokensFails
<1>12. CASE SetEnrolling(w) BY <1>12 DEF SetEnrolling
<1>13. CASE RemoveKey(w) BY <1>13 DEF RemoveKey
<1>14. CASE EnrollFails(w) BY <1>14 DEF EnrollFails
<1>15. CASE RemoveCert(w) BY <1>15 DEF RemoveCert
<1>16. CASE WriteKey(w) BY <1>16 DEF WriteKey
<1>17. CASE PostGranted(w) BY <1>17 DEF PostGranted
<1>18. CASE WriteCert(w) BY <1>18 DEF WriteCert
<1>19. CASE WriteRecord(w) BY <1>19 DEF WriteRecord
<1>20. CASE EnrollStepFails(w) BY <1>20 DEF EnrollStepFails, Enrolling
<1>21. CASE RenewedForConnect(w) BY <1>21 DEF RenewedForConnect
<1>22. CASE ConnectOnOld(w) BY <1>22 DEF ConnectOnOld
<1>23. CASE SetCancel(w) BY <1>23 DEF SetCancel
<1>24. CASE Forget(w) BY <1>24 DEF Forget
<1>25. CASE ClearKey(w) BY <1>25 DEF ClearKey
<1>26. CASE ClearCert(w) BY <1>26 DEF ClearCert
<1>27. CASE ClearRecord(w) BY <1>27 DEF ClearRecord
<1>28. CASE SignInFails(w) BY <1>28 DEF SignInFails, Return
<1>29. CASE SignedIn(w) BY <1>29 DEF SignedIn, Return
<1>30. CASE RenewEnds(w) BY <1>30 DEF RenewEnds, Return
<1>31. CASE ConnectRefused(w) BY <1>31 DEF ConnectRefused, Return
<1>32. CASE ServerReached(w) \/ StartRefused(w) \/ StartSupervisor(w)
  <2>1. CASE ServerReached(w) BY <2>1 DEF ServerReached
  <2>2. CASE StartRefused(w) BY <2>2 DEF StartRefused, Return
  <2>3. CASE StartSupervisor(w) BY <2>3 DEF StartSupervisor, Return
  <2> QED BY <1>32, <2>1, <2>2, <2>3
<1>33. CASE SetSignedOut(w) BY <1>33 DEF SetSignedOut, Return
<1> QED
  BY <1>1, <1>2, <1>3, <1>4, <1>5, <1>6, <1>7, <1>8, <1>9, <1>10, <1>11, <1>12,
     <1>13, <1>14, <1>15, <1>16, <1>17, <1>18, <1>19, <1>20, <1>21, <1>22,
     <1>23, <1>24, <1>25, <1>26, <1>27, <1>28, <1>29, <1>30, <1>31, <1>32,
     <1>33
  DEF Step, Enroll

\* And of what it holds alone its own step leaves what it should.
LEMMA StepLeaves ==
    ASSUME NEW w \in Worker, Types, Left(w), Step(w), pc'[w] # "idle"
    PROVE  Left(w)'
<1> USE DEF Types, Left, Goto, Enrolling, files, local, provider
<1>1. CASE SetWaiting(w) BY <1>1 DEF SetWaiting
<1>2. CASE ClearCancel(w) BY <1>2 DEF ClearCancel
<1>3. CASE Poll(w) BY <1>3 DEF Poll
<1>4. CASE PollGranted(w) BY <1>4 DEF PollGranted
<1>5. CASE PollFails(w) BY <1>5 DEF PollFails
<1>6. CASE LoadTokens(w) BY <1>6 DEF LoadTokens
<1>7. CASE Refresh(w) BY <1>7 DEF Refresh
<1>8. CASE RefreshFails(w) BY <1>8 DEF RefreshFails
<1>9. CASE RefreshAnswerLost(w) BY <1>9 DEF RefreshAnswerLost
<1>10. CASE SaveTokens(w) BY <1>10 DEF SaveTokens, AfterSave
<1>11. CASE SaveTokensFails(w) BY <1>11 DEF SaveTokensFails
<1>12. CASE SetEnrolling(w) BY <1>12 DEF SetEnrolling
<1>13. CASE RemoveKey(w) BY <1>13 DEF RemoveKey
<1>14. CASE EnrollFails(w) BY <1>14 DEF EnrollFails
<1>15. CASE RemoveCert(w) BY <1>15 DEF RemoveCert
<1>16. CASE WriteKey(w) BY <1>16 DEF WriteKey
<1>17. CASE PostGranted(w) BY <1>17 DEF PostGranted
<1>18. CASE WriteCert(w) BY <1>18 DEF WriteCert
<1>19. CASE WriteRecord(w) BY <1>19 DEF WriteRecord
<1>20. CASE EnrollStepFails(w) BY <1>20 DEF EnrollStepFails
<1>21. CASE RenewedForConnect(w) BY <1>21 DEF RenewedForConnect
<1>22. CASE ConnectOnOld(w) BY <1>22 DEF ConnectOnOld
<1>23. CASE SetCancel(w) BY <1>23 DEF SetCancel
<1>24. CASE Forget(w) BY <1>24 DEF Forget
<1>25. CASE ClearKey(w) BY <1>25 DEF ClearKey
<1>26. CASE ClearCert(w) BY <1>26 DEF ClearCert
<1>27. CASE ClearRecord(w) BY <1>27 DEF ClearRecord
<1>28. CASE SignInFails(w) BY <1>28 DEF SignInFails, Return
<1>29. CASE SignedIn(w) BY <1>29 DEF SignedIn, Return
<1>30. CASE RenewEnds(w) BY <1>30 DEF RenewEnds, Return
<1>31. CASE ConnectRefused(w) BY <1>31 DEF ConnectRefused, Return
<1>32. CASE ServerReached(w) \/ StartRefused(w) \/ StartSupervisor(w)
  <2>1. CASE ServerReached(w) BY <2>1 DEF ServerReached
  <2>2. CASE StartRefused(w) BY <2>2 DEF StartRefused, Return
  <2>3. CASE StartSupervisor(w) BY <2>3 DEF StartSupervisor, Return
  <2> QED BY <1>32, <2>1, <2>2, <2>3
<1>33. CASE SetSignedOut(w) BY <1>33 DEF SetSignedOut, Return
<1> QED
  BY <1>1, <1>2, <1>3, <1>4, <1>5, <1>6, <1>7, <1>8, <1>9, <1>10, <1>11, <1>12,
     <1>13, <1>14, <1>15, <1>16, <1>17, <1>18, <1>19, <1>20, <1>21, <1>22,
     <1>23, <1>24, <1>25, <1>26, <1>27, <1>28, <1>29, <1>30, <1>31, <1>32,
     <1>33
  DEF Step, Enroll

\* Every step keeps it.
LEMMA AloneStep == Types /\ Flags /\ AloneInv /\ [Next]_vars => AloneInv'
<1> SUFFICES ASSUME Types, Flags, AloneInv, [Next]_vars PROVE AloneInv'
  OBVIOUS
<1>1. ASSUME NEW w \in Worker, Command(w) PROVE AloneInv'
  <2>1. PICK what \in Op, first \in First, record \in {0, recordFile} :
            /\ Begin(w, what, first, record)
            /\ first = "cancel" => what # "reset_all"
    BY <1>1 DEF Command, SignIn, Renew, CancelSignIn, SignOut, ResetAll, StartTunnel, Op, First
  <2>2. /\ pc' = [pc EXCEPT ![w] = first] /\ op' = [op EXCEPT ![w] = what]
        /\ first # "idle"
    BY <2>1 DEF Begin, Goto, First
  <2>3. \A v \in Worker \ {w} : alone'[v] => alone[v] /\ ~Busy(v)
    BY <2>1 DEF Begin
  <2>4. \A v \in Worker \ {w} : ~alone'[v]
    BY <2>3 DEF AloneInv
  <2>5. alone'[w] => \A v \in Worker \ {w} : ~Busy(v)
    BY <2>1 DEF Begin
  <2>6. pc'[w] = first /\ op'[w] = what /\ \A v \in Worker \ {w} : pc'[v] = pc[v]
    BY <2>2 DEF Types
  <2>7. Left(w)'
    <3>1. pc'[w] \in First
      BY <2>6
    <3>2. pc'[w] = "cancel" => op'[w] # "reset_all"
      BY <2>1, <2>6
    <3> QED BY <3>1, <3>2 DEF Left, First, Enrolling
  <2> QED BY <2>2, <2>4, <2>5, <2>6, <2>7 DEF AloneInv, Busy
<1>2. ASSUME NEW w \in Worker, Step(w) PROVE AloneInv'
  <2>1. /\ Busy(w)
        /\ \A v \in Worker \ {w} : pc'[v] = pc[v] /\ alone'[v] = alone[v]
        /\ alone'[w] => alone[w] /\ pc'[w] # "idle"
    BY <1>2, StepIsOwn
  <2>2. \A v \in Worker \ {w} : ~alone'[v]
    BY <2>1 DEF AloneInv
  <2>3. ASSUME alone'[w]
        PROVE  Busy(w)' /\ Left(w)' /\ \A v \in Worker \ {w} : ~Busy(v)'
    BY <1>2, <2>1, <2>3, StepLeaves DEF AloneInv, Busy
  <2> QED BY <2>2, <2>3 DEF AloneInv
<1>3. CASE Restart BY <1>3 DEF Restart, AloneInv
<1>4. ASSUME NEW k \in Keys, Age(k) PROVE AloneInv'
  BY <1>4 DEF Age, AloneInv, Left, Busy, files, local, history
<1>5. CASE UNCHANGED vars
  BY <1>5 DEF vars, AloneInv, Left, Busy, files, local, history
<1> QED BY <1>1, <1>2, <1>3, <1>4, <1>5 DEF Next

LEMMA AloneHolds == Spec => [](Types /\ Flags /\ AloneInv)
<1>1. Init => Flags /\ AloneInv
  BY DEF Init, Flags, AloneInv
<1> QED BY <1>1, TypesInit, TypesStep, FlagsStep, AloneStep, PTL DEF Spec

\* A sign-out or a reset that nothing ran beside leaves no credential on disk and
\* says so (main.rs:194-200, 608-615), wherever the enrolment before it failed.
THEOREM SignsOutClean == Spec => CleanSignOut
<1>1. Types /\ Flags /\ AloneInv /\ [Next]_vars =>
          [\A w \in Worker :
             /\ Undisturbed(w) /\ op[w] \in {"sign_out", "reset_all"}
             /\ pc[w] = "signedOut" /\ pc'[w] = "idle"
             => files = <<0, 0, 0, 0>> /\ auth' = "SignedOut"]_vars
  <2> SUFFICES ASSUME Types, Flags, AloneInv, Next, NEW w \in Worker,
                      Undisturbed(w), op[w] \in {"sign_out", "reset_all"},
                      pc[w] = "signedOut", pc'[w] = "idle"
               PROVE  files = <<0, 0, 0, 0>> /\ auth' = "SignedOut"
    OBVIOUS
  <2>1. files = <<0, 0, 0, 0>>
    BY DEF AloneInv, Left, Undisturbed, files
  <2>2. ASSUME NEW v \in Worker, Command(v) PROVE FALSE
    <3>1. pc[v] = "idle" /\ \E first \in First : pc' = [pc EXCEPT ![v] = first]
      BY <2>2, CommandBegins
    <3> QED BY <3>1 DEF Types
  <2>3. ASSUME NEW v \in Worker, Step(v) PROVE auth' = "SignedOut"
    <3>1. v = w
      BY <2>3, StepIsOwn
    <3>2. SetSignedOut(w)
      <4>1. Step(w)
        BY <2>3, <3>1
      <4> QED BY <4>1
          DEF Step, Enroll, Enrolling, Goto, Return, SetSignedOut, SetWaiting, ClearCancel, Poll,
              PollGranted, PollFails, LoadTokens, Refresh, RefreshFails, RefreshAnswerLost,
              SaveTokens, SaveTokensFails, SetEnrolling, RemoveKey, EnrollFails, RemoveCert,
              WriteKey, PostGranted, WriteCert, WriteRecord, EnrollStepFails, SignInFails,
              SignedIn, RenewEnds, RenewedForConnect, ConnectOnOld, ConnectRefused,
              ServerReached, StartRefused, StartSupervisor, SetCancel, Forget, ClearKey, ClearCert, ClearRecord
    <3> QED BY <3>2 DEF SetSignedOut
  <2>4. ~Restart
    BY DEF Undisturbed, Restart, Types
  <2>5. \A k \in Keys : ~Age(k)
    BY DEF Age
  <2> QED BY <2>1, <2>2, <2>3, <2>4, <2>5 DEF Next
<1> QED BY <1>1, AloneHolds, PTL DEF Spec, CleanSignOut

\* An enrolment that nothing ran beside ends well only with a key, its certificate
\* and its record on disk (enroll.rs:148-231), all of the one key it generated.
THEOREM EnrolmentIsUsable == Spec => EnrolledIsUsable
<1>1. Types /\ Flags /\ AloneInv /\ [Next]_vars =>
          [\A w \in Worker :
             Undisturbed(w) /\ pc[w] = "done" /\ pc'[w] # "done"
             => recordFile # 0 /\ keyFile = recordFile /\ certFile = recordFile]_vars
  BY DEF AloneInv, Left, Undisturbed
<1> QED BY <1>1, AloneHolds, PTL DEF Spec, EnrolledIsUsable
=============================================================================
