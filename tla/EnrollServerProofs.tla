------------------------ MODULE EnrollServerProofs ------------------------
(***************************************************************************)
(* Proofs about EnrollServer.  SerialsUnique is not inductive: that a      *)
(* serial is fresh when it is returned follows from the freshness of what  *)
(* the thread in next_serial() read, and that from the file and the disk   *)
(* being no older than the last serial (SerialInv).  Nor is the quota: its *)
(* bounds need what each thread in _rate_limit() has found (HitsInv), and  *)
(* how the deque relates to the requests that passed (QuotaInv); whose it  *)
(* is needs the two tokens of a request to stay one account's (OneOwner).  *)
(***************************************************************************)
EXTENDS EnrollServer, FiniteSetTheorems, SequenceTheorems, TLAPS

-----------------------------------------------------------------------------
(* Types. *)

\* What the proofs below need to know of types: serials are numbers, and
\* threads are where threads can be.
SerialTypes ==
    /\ file \in Nat /\ disk \subseteq Nat /\ disk # {} /\ used \subseteq Nat
    /\ lock \in Thread \cup {Nobody}
    /\ pc \in [Thread -> Label]
    /\ current \in [Thread -> Nat]

\* Every step keeps the types of the serials.
LEMMA SerialTypesStep == SerialTypes /\ [Next]_vars => SerialTypes'
<1> SUFFICES ASSUME SerialTypes, [Next]_vars PROVE SerialTypes'
  OBVIOUS
<1> USE DEF SerialTypes, Label, Goto, serial, request, quota, bounds, history, Answer
<1>1. ASSUME NEW t \in Thread, Admit(t) PROVE SerialTypes'
  BY <1>1 DEF Admit
<1>2. ASSUME NEW t \in Thread, Limit(t) PROVE SerialTypes'
  <2>1. CASE ReadClock(t) BY <2>1 DEF ReadClock
  <2>2. CASE LookOld(t)   BY <2>2 DEF LookOld
  <2>3. CASE PopOld(t)    BY <2>3 DEF PopOld
  <2>4. CASE PopEmpty(t)  BY <2>4 DEF PopEmpty
  <2>5. CASE CountHits(t) BY <2>5 DEF CountHits
  <2>6. CASE TooMany(t)   BY <2>6 DEF TooMany
  <2>7. CASE AppendHit(t) BY <2>7 DEF AppendHit
  <2> QED BY <1>2, <2>1, <2>2, <2>3, <2>4, <2>5, <2>6, <2>7 DEF Limit
<1>3. ASSUME NEW t \in Thread, NextSerial(t) PROVE SerialTypes'
  <2>1. CASE LockSerial(t)       BY <2>1 DEF LockSerial
  <2>2. CASE ReadSerial(t)       BY <2>2 DEF ReadSerial
  <2>3. CASE Truncate(t)         BY <2>3 DEF Truncate
  <2>4. CASE WriteSerial(t)      BY <2>4 DEF WriteSerial
  <2>5. CASE WriteSerialFails(t) BY <2>5 DEF WriteSerialFails
  <2>6. CASE SyncSerial(t)       BY <2>6 DEF SyncSerial
  <2>7. CASE UnlockSerial(t)     BY <2>7 DEF UnlockSerial
  <2> QED BY <1>3, <2>1, <2>2, <2>3, <2>4, <2>5, <2>6, <2>7 DEF NextSerial
<1>4. ASSUME NEW t \in Thread, Sign(t) PROVE SerialTypes'
  BY <1>4 DEF Sign
<1>5. ASSUME NEW t \in Thread, SignFails(t) PROVE SerialTypes'
  BY <1>5 DEF SignFails
<1>6. CASE ServiceEnds BY <1>6 DEF ServiceEnds, Restarted
<1>7. CASE PowerFails  BY <1>7 DEF PowerFails, Restarted
<1>8. CASE Tick        BY <1>8 DEF Tick
<1>9. CASE UNCHANGED vars BY <1>9 DEF vars
<1> QED BY <1>1, <1>2, <1>3, <1>4, <1>5, <1>6, <1>7, <1>8, <1>9 DEF Next, Serve

-----------------------------------------------------------------------------
(* The invariant. *)

\* A step that touches neither the serials nor who is in next_serial() or about
\* to sign keeps SerialInv.
LEMMA Elsewhere ==
    ASSUME SerialTypes, SerialInv,
           UNCHANGED <<file, disk, lock, used, lost>>,
           pc' \in [Thread -> Label],
           \A u \in Thread : /\ pc'[u] \in Locked \cup {"sign"} \/ pc[u] \in Locked \cup {"sign"}
                               => pc'[u] = pc[u] /\ current'[u] = current[u]
    PROVE  SerialInv'
<1> USE DEF SerialTypes, Locked
<1>1. LockHeld'
  BY DEF SerialInv, LockHeld
<1>2. ASSUME ~lost, NEW n \in Nat, Fresh(n) PROVE Fresh(n)'
  BY <1>2 DEF Fresh
<1>3. ASSUME ~lost PROVE Counting'
  BY <1>2, <1>3 DEF SerialInv, Counting
<1>4. ASSUME ~lost PROVE FileHolds'
  BY <1>2, <1>4 DEF SerialInv, FileHolds
<1>5. ASSUME ~lost PROVE DiskHolds'
  BY <1>2, <1>5 DEF SerialInv, DiskHolds
<1>6. ASSUME ~lost PROVE SerialsUnique'
  BY <1>6 DEF SerialInv, SerialsUnique
<1> QED BY <1>1, <1>3, <1>4, <1>5, <1>6 DEF SerialInv

\* next_serial() keeps SerialInv, call by call.
LEMMA NextSerialStep ==
    ASSUME SerialTypes, SerialInv, NEW t \in Thread, NextSerial(t)
    PROVE  SerialInv'
<1> USE EnrollServerAssumption
    DEF SerialTypes, Goto, serial, request, quota, bounds, history, Locked
<1>1. CASE LockSerial(t)
  <2> USE <1>1 DEF LockSerial
  <2>1. LockHeld'
    BY DEF SerialInv, LockHeld
  <2>2. Fresh(file)' = Fresh(file) /\ \A n \in Nat : Fresh(n) => Fresh(n)'
    BY DEF Fresh
  <2>3. ~lost => Counting' /\ FileHolds' /\ DiskHolds' /\ SerialsUnique'
    BY <2>2 DEF SerialInv, LockHeld, Counting, FileHolds, DiskHolds, SerialsUnique
  <2> QED BY <2>1, <2>3 DEF SerialInv
<1>2. CASE ReadSerial(t)
  <2> USE <1>2 DEF ReadSerial
  <2>1. LockHeld'
    BY DEF SerialInv, LockHeld
  <2>2. \A n \in Nat : Fresh(n) => Fresh(n)'
    BY DEF Fresh
  <2>3. ~lost => Counting'
    BY <2>2 DEF SerialInv, LockHeld, Counting, FileHolds
  <2>4. ~lost => FileHolds' /\ DiskHolds' /\ SerialsUnique'
    BY <2>2 DEF SerialInv, LockHeld, FileHolds, DiskHolds, SerialsUnique
  <2> QED BY <2>1, <2>3, <2>4 DEF SerialInv
<1>3. CASE Truncate(t)
  <2> USE <1>3 DEF Truncate
  <2>1. LockHeld'
    BY DEF SerialInv, LockHeld
  <2>2. \A n \in Nat : Fresh(n) => Fresh(n)'
    BY DEF Fresh
  <2>3. ~lost => Counting'
    BY <2>2 DEF SerialInv, LockHeld, Counting
  <2>4. ~lost => DiskHolds'
    <3>1. CASE disk = {0} BY <2>2, <3>1 DEF SerialInv, DiskHolds
    <3>2. CASE disk # {0}
      <4>1. PICK m \in disk : m # 0
        BY <3>2
      <4>2. disk' # {0}
        BY <4>1
      <4> QED BY <2>2, <4>2 DEF SerialInv, DiskHolds
    <3> QED BY <3>1, <3>2
  <2>5. FileHolds'
    BY DEF FileHolds
  <2>6. \A u \in Thread : pc'[u] = "sign" => pc[u] = "sign" /\ current'[u] = current[u]
    OBVIOUS
  <2>7. ~lost => SerialsUnique'
    BY <2>6 DEF SerialInv, SerialsUnique
  <2> QED BY <2>1, <2>3, <2>4, <2>5, <2>7 DEF SerialInv
<1>4. CASE WriteSerial(t)
  <2> USE <1>4 DEF WriteSerial
  <2>1. LockHeld'
    BY DEF SerialInv, LockHeld
  <2>2. \A n \in Nat : Fresh(n) => Fresh(n)' /\ Fresh(n + 1)'
    BY DEF Fresh
  <2>3. ~lost => Fresh(current[t])
    BY DEF SerialInv, Counting
  <2>4. ~lost => Counting'
    BY <2>2, <2>3 DEF SerialInv, LockHeld, Counting
  <2>5. ~lost => FileHolds' /\ DiskHolds' /\ SerialsUnique'
    BY <2>2, <2>3 DEF SerialInv, FileHolds, DiskHolds, SerialsUnique
  <2> QED BY <2>1, <2>4, <2>5 DEF SerialInv
<1>5. CASE WriteSerialFails(t)
  BY <1>5 DEF WriteSerialFails, Answer, SerialInv, LockHeld
<1>6. CASE SyncSerial(t)
  <2> USE <1>6 DEF SyncSerial
  <2>1. LockHeld'
    BY DEF SerialInv, LockHeld
  <2>2. \A n \in Nat : Fresh(n) => Fresh(n)' /\ Fresh(n + 1)'
    BY DEF Fresh
  <2>3. ~lost => Fresh(current[t]) /\ file = current[t]
    BY DEF SerialInv, Counting
  <2>4. ~lost => Counting'
    BY <2>2, <2>3 DEF SerialInv, LockHeld, Counting
  <2>5. ~lost => FileHolds' /\ DiskHolds' /\ SerialsUnique'
    BY <2>2, <2>3 DEF SerialInv, FileHolds, DiskHolds, SerialsUnique
  <2> QED BY <2>1, <2>4, <2>5 DEF SerialInv
<1>7. CASE UnlockSerial(t)
  <2> USE <1>7 DEF UnlockSerial
  <2>1. LockHeld'
    BY DEF SerialInv, LockHeld
  <2>2. ~lost => Fresh(current[t]) /\ file = current[t] /\ disk = {file}
    BY DEF SerialInv, Counting
  <2>3. ~lost => Fresh(file + 1)'
    BY <2>2 DEF Fresh
  <2>4. ~lost => Counting'
    BY DEF SerialInv, LockHeld, Counting
  <2>5. ~lost => FileHolds' /\ DiskHolds'
    BY <2>2, <2>3 DEF FileHolds, DiskHolds
  <2>6. ~lost => SerialsUnique'
    BY <2>2 DEF SerialInv, SerialsUnique, Fresh
  <2> QED BY <2>1, <2>4, <2>5, <2>6 DEF SerialInv
<1> QED BY <1>1, <1>2, <1>3, <1>4, <1>5, <1>6, <1>7 DEF NextSerial

\* So does signing, which makes a certificate of a serial a request had.
LEMMA SignStep ==
    ASSUME SerialTypes, SerialInv, NEW t \in Thread, Sign(t) \/ SignFails(t)
    PROVE  SerialInv'
<1> USE DEF SerialTypes, Goto, Sign, SignFails, Answer, serial, request, quota, bounds,
            history, Locked
<1>1. LockHeld'
  BY DEF SerialInv, LockHeld
<1>2. pc[t] = "sign"
  OBVIOUS
<1>3. \A n \in used' : n \in used \/ n = current[t]
  OBVIOUS
<1>4. \A u \in Thread : pc'[u] = "sign" =>
          u # t /\ pc[u] = "sign" /\ current'[u] = current[u]
  OBVIOUS
<1>5. \A n \in Nat : Fresh(n) => Fresh(n)'
  BY ONLY t \in Thread, <1>2, <1>3, <1>4 DEF Fresh
<1>6. ~lost => Counting'
  BY <1>5 DEF SerialInv, Counting
<1>7. ~lost => FileHolds'
  BY <1>5 DEF SerialInv, FileHolds
<1>8. disk' = disk /\ \A n \in disk : n + 1 \in Nat
  OBVIOUS
<1>9. ~lost => DiskHolds'
  BY ONLY <1>5, <1>8, SerialInv DEF SerialInv, DiskHolds
<1>10. ~lost => SerialsUnique'
  BY <1>2, <1>3, <1>4 DEF SerialInv, SerialsUnique
<1> QED BY <1>1, <1>6, <1>7, <1>9, <1>10 DEF SerialInv

\* So does an end of the service, which at worst loses the count and says so.
LEMMA CrashStep ==
    ASSUME SerialTypes, SerialInv, ServiceEnds \/ PowerFails
    PROVE  SerialInv'
<1> USE EnrollServerAssumption DEF SerialTypes, Locked
<1>0. Restarted
  BY DEF ServiceEnds, PowerFails
<1> USE <1>0 DEF Restarted
<1>1. LockHeld'
  BY DEF LockHeld
<1>2. \A n \in Nat : Fresh(n) => Fresh(n)'
  BY DEF Fresh
<1>3. Counting' /\ SerialsUnique'
  BY DEF Counting, SerialsUnique
<1>4. CASE ServiceEnds
  <2>1. ~lost' => ~lost /\ \A t \in Thread : pc[t] # "write"
    BY <1>4, Zenon DEF ServiceEnds
  <2>2. file' = file /\ disk' = disk
    BY <1>4 DEF ServiceEnds
  <2>3. ~lost' => FileHolds'
    BY <1>2, <2>1, <2>2 DEF SerialInv, FileHolds
  <2>4. ~lost' => DiskHolds'
    BY <1>2, <2>1, <2>2 DEF SerialInv, DiskHolds
  <2> QED BY <1>1, <1>3, <2>3, <2>4 DEF SerialInv
<1>5. CASE PowerFails
  <2>1. ~lost' => ~lost /\ (file' # 0 \/ disk = {0})
    BY <1>5, Zenon DEF PowerFails
  <2>2. file' \in disk /\ disk' = {file'}
    BY <1>5 DEF PowerFails
  <2>3. ~lost' => Fresh(file' + 1)
    BY <2>1, <2>2 DEF SerialInv, DiskHolds
  <2>4. ~lost' => FileHolds' /\ DiskHolds'
    BY <1>2, <2>2, <2>3 DEF FileHolds, DiskHolds
  <2> QED BY <1>1, <1>3, <2>4 DEF SerialInv
<1> QED BY <1>4, <1>5

\* Every step keeps SerialInv.
LEMMA SerialInvStep == SerialTypes /\ SerialInv /\ [Next]_vars => SerialInv'
<1> SUFFICES ASSUME SerialTypes, SerialInv, [Next]_vars PROVE SerialInv'
  OBVIOUS
<1>1. SerialTypes'
  BY SerialTypesStep
<1>2. ASSUME NEW t \in Thread, Admit(t) PROVE SerialInv'
  BY <1>1, <1>2, Elsewhere DEF Admit, Goto, SerialTypes, serial, history, Locked, Label
<1>3. ASSUME NEW t \in Thread, Limit(t) PROVE SerialInv'
  <2> USE <1>1, Elsewhere DEF SerialTypes, Goto, serial, history, Answer, Locked, Label
  <2>1. CASE ReadClock(t) BY <2>1 DEF ReadClock
  <2>2. CASE LookOld(t)   BY <2>2 DEF LookOld
  <2>3. CASE PopOld(t)    BY <2>3 DEF PopOld
  <2>4. CASE PopEmpty(t)  BY <2>4 DEF PopEmpty
  <2>5. CASE CountHits(t) BY <2>5 DEF CountHits
  <2>6. CASE TooMany(t)   BY <2>6 DEF TooMany
  <2>7. CASE AppendHit(t) BY <2>7 DEF AppendHit
  <2> QED BY <1>3, <2>1, <2>2, <2>3, <2>4, <2>5, <2>6, <2>7 DEF Limit
<1>4. CASE Tick BY <1>1, <1>4, Elsewhere DEF Tick, SerialTypes, serial, history
<1>5. CASE UNCHANGED vars BY <1>1, <1>5, Elsewhere DEF vars, SerialTypes, serial, history
<1> QED BY <1>2, <1>3, <1>4, <1>5, NextSerialStep, SignStep, CrashStep DEF Next, Serve

\* A new service, with an empty file, has both.
LEMMA SerialInit == Init => SerialTypes /\ SerialInv
<1> SUFFICES ASSUME Init PROVE SerialTypes /\ SerialInv
  OBVIOUS
<1> USE EnrollServerAssumption DEF Init
<1>1. SerialTypes
  BY DEF SerialTypes, Label
<1>2. LockHeld
  BY DEF LockHeld, Locked
<1>3. Counting /\ FileHolds /\ DiskHolds /\ SerialsUnique
  BY DEF Counting, FileHolds, DiskHolds, SerialsUnique, Fresh, Locked
<1> QED BY <1>1, <1>2, <1>3 DEF SerialInv

\* For any number of threads and requests, and wherever the service ends, a
\* serial that next_serial() returned is of no certificate and no other request,
\* as long as the file was not left empty.
THEOREM SerialsAreUnique == Spec => []SerialsUnique
<1>1. SerialTypes /\ SerialInv /\ [Next]_vars => (SerialTypes /\ SerialInv)'
  BY SerialTypesStep, SerialInvStep
<1>2. SerialInv => SerialsUnique
  BY DEF SerialInv, SerialsUnique
<1> QED BY <1>1, <1>2, SerialInit, PTL DEF Spec

-----------------------------------------------------------------------------
(* next_serial() implements SerialCounter. *)

\* A step that touches neither the serials nor who takes or carries one is no
\* step of the counter.
LEMMA CounterRests ==
    ASSUME SerialTypes, SerialInv,
           UNCHANGED <<file, lock, used, lost>>,
           pc' \in [Thread -> Label],
           \A u \in Thread : /\ pc'[u] \in Taking \cup {"sign"} \/ pc[u] \in Taking \cup {"sign"}
                               => pc'[u] = pc[u] /\ current'[u] = current[u]
    PROVE  UNCHANGED <<Last, Given, used, lost>>
<1> USE DEF SerialTypes, Taking
<1>1. Given' = Given
  BY DEF Given
<1>2. Last' = Last
  <2>1. CASE lock = Nobody BY <2>1 DEF Last
  <2>2. CASE lock \in Thread BY <2>2 DEF Last
  <2> QED BY <2>1, <2>2
<1> QED BY <1>1, <1>2

\* The serial of the thread that holds the flock, and of no other, counts.
LEMMA LastOf ==
    ASSUME SerialTypes, SerialInv, NEW t \in Thread, pc[t] \in Locked
    PROVE  /\ lock = t
           /\ Last = IF pc[t] \in Taking THEN current[t] - 1 ELSE file
<1>1. lock = t
  BY DEF SerialInv, LockHeld
<1> QED BY <1>1, EnrollServerAssumption DEF Last

\* Each call of next_serial() gives the next number or is no step of the counter.
LEMMA NextSerialCounts ==
    ASSUME SerialTypes, SerialInv, NEW t \in Thread, NextSerial(t), ~lost'
    PROVE  Counter!Give \/ UNCHANGED <<Last, Given, used, lost>>
<1> USE EnrollServerAssumption
    DEF SerialTypes, Goto, serial, request, quota, bounds, history, Locked, Taking
<1>1. CASE LockSerial(t)
  <2>1. Given' = Given BY <1>1 DEF LockSerial, Given
  <2>2. Last' = Last BY <1>1 DEF LockSerial, Last
  <2> QED BY <1>1, <2>1, <2>2 DEF LockSerial
<1>2. CASE ReadSerial(t)
  <2>1. Given' = Given BY <1>2 DEF ReadSerial, Given
  <2>2. Last' = Last BY <1>2, LastOf DEF ReadSerial, Last
  <2> QED BY <1>2, <2>1, <2>2 DEF ReadSerial
<1>3. CASE Truncate(t)
  <2>1. Given' = Given BY <1>3 DEF Truncate, Given
  <2>2. Last' = Last BY <1>3, LastOf DEF Truncate, Last
  <2> QED BY <1>3, <2>1, <2>2 DEF Truncate
<1>4. CASE WriteSerial(t)
  <2>1. Given' = Given BY <1>4 DEF WriteSerial, Given
  <2>2. Last' = Last BY <1>4, LastOf DEF WriteSerial, Last
  <2> QED BY <1>4, <2>1, <2>2 DEF WriteSerial
<1>5. CASE WriteSerialFails(t)
  BY <1>5 DEF WriteSerialFails
<1>6. CASE SyncSerial(t)
  <2>1. Given' = Given BY <1>6 DEF SyncSerial, Given
  <2>2. Last' = Last BY <1>6, LastOf DEF SyncSerial, Last
  <2> QED BY <1>6, <2>1, <2>2 DEF SyncSerial
<1>7. CASE UnlockSerial(t)
  <2> USE <1>7 DEF UnlockSerial
  <2>1. Last = current[t] - 1
    BY LastOf
  <2>2. Last' = file
    BY DEF Last
  <2>3. ~lost /\ file = current[t]
    BY DEF SerialInv, Counting
  <2>4. Given' = Given \cup {current[t]}
    BY DEF Given
  <2>5. current[t] = Last + 1
    BY <2>1
  <2> QED BY <2>2, <2>3, <2>4, <2>5 DEF Counter!Give
<1> QED BY <1>1, <1>2, <1>3, <1>4, <1>5, <1>6, <1>7 DEF NextSerial

\* A signed request's number is certified, a failed one's is dropped.
LEMMA SignCounts ==
    ASSUME SerialTypes, SerialInv, ~lost, NEW t \in Thread, Sign(t) \/ SignFails(t)
    PROVE  \E n \in Given : Counter!Certify(n) \/ Counter!Drop(n)
<1> USE EnrollServerAssumption DEF SerialTypes, Goto, history, Answer
<1>1. pc[t] = "sign" /\ pc' = [pc EXCEPT ![t] = "idle"] /\ lock' = lock /\ file' = file /\ lost' = lost
  BY DEF Sign, SignFails
<1>2. \A u \in Thread \ {t} : current'[u] = current[u]
  BY DEF Sign, SignFails
<1>3. current[t] \in Given
  BY <1>1 DEF Given
<1>4. Last' = Last
  BY <1>1, <1>2 DEF Last, Taking
<1>5. Given' = Given \ {current[t]}
  <2>1. \A u \in Thread \ {t} : pc[u] = "sign" => current[u] # current[t]
    BY <1>1 DEF SerialInv, SerialsUnique
  <2> QED BY <1>1, <1>2, <2>1 DEF Given
<1>6. CASE Sign(t)
  <2>1. used' = used \cup {current[t]}
    BY <1>6 DEF Sign
  <2>2. Counter!Certify(current[t])
    BY <1>1, <1>4, <1>5, <2>1 DEF Counter!Certify
  <2> QED BY <1>3, <2>2
<1>7. CASE SignFails(t)
  <2>1. used' = used
    BY <1>7 DEF SignFails
  <2>2. Counter!Drop(current[t])
    BY <1>1, <1>4, <1>5, <2>1 DEF Counter!Drop
  <2> QED BY <1>3, <2>2
<1> QED BY <1>6, <1>7

\* lost is TRUE or FALSE.
LostType == lost \in BOOLEAN
LEMMA LostStep == LostType /\ [Next]_vars => LostType'
<1> SUFFICES ASSUME lost \in BOOLEAN, [Next]_vars PROVE lost' \in BOOLEAN
  BY DEF LostType
<1> USE DEF history
<1>1. ASSUME NEW t \in Thread, Admit(t) \/ Limit(t) PROVE lost' \in BOOLEAN
  BY <1>1 DEF Admit, Limit, ReadClock, LookOld, PopOld, PopEmpty, CountHits, TooMany, AppendHit
<1>2. ASSUME NEW t \in Thread, NextSerial(t) PROVE lost' \in BOOLEAN
  BY <1>2 DEF NextSerial, LockSerial, ReadSerial, Truncate, WriteSerial,
              WriteSerialFails, SyncSerial, UnlockSerial
<1>3. ASSUME NEW t \in Thread, Sign(t) \/ SignFails(t) PROVE lost' \in BOOLEAN
  BY <1>3 DEF Sign, SignFails
<1>4. CASE ServiceEnds
  <2>1. lost' = (lost \/ \E t \in Thread : pc[t] = "write")
    BY <1>4 DEF ServiceEnds
  <2> QED BY <2>1, Zenon
<1>5. CASE PowerFails
  <2>1. lost' = (lost \/ (file' = 0 /\ disk # {0}))
    BY <1>5 DEF PowerFails
  <2> QED BY <2>1, Zenon
<1>6. CASE Tick BY <1>6 DEF Tick
<1>7. CASE UNCHANGED vars BY <1>7 DEF vars
<1> QED BY <1>1, <1>2, <1>3, <1>4, <1>5, <1>6, <1>7 DEF Next, Serve

\* After an end of the service the count goes on above every certificate.
LEMMA CrashCounts ==
    ASSUME SerialTypes, SerialInv, SerialTypes', SerialInv', lost \in BOOLEAN, ~lost',
           ServiceEnds \/ PowerFails
    PROVE  Counter!Restart
<1>1. /\ pc' = [t \in Thread |-> "idle"] /\ lock' = Nobody
      /\ used' = used
  BY DEF ServiceEnds, PowerFails, Restarted
<1>2. lost' = lost
  <2>1. ~lost
    BY Zenon DEF ServiceEnds, PowerFails
  <2>2. lost = FALSE
    BY <2>1
  <2>3. lost' = FALSE
    <3>1. CASE ServiceEnds
      <4>1. lost' = (lost \/ \E t \in Thread : pc[t] = "write")
        BY <3>1 DEF ServiceEnds
      <4> QED BY <4>1, Zenon
    <3>2. CASE PowerFails
      <4>1. lost' = (lost \/ (file' = 0 /\ disk # {0}))
        BY <3>2 DEF PowerFails
      <4> QED BY <4>1, Zenon
    <3> QED BY <3>1, <3>2
  <2> QED BY <2>2, <2>3
<1>3. Given' = {}
  BY <1>1 DEF Given
<1>4. Last' = file'
  BY <1>1 DEF Last
<1>5. FileHolds' /\ lock' = Nobody
  BY <1>1 DEF SerialInv
<1>6. \A n \in used' : n < file' + 1
  BY <1>1, <1>5 DEF FileHolds, Fresh
<1>7. \A n \in used : n <= file'
  <2>1. ASSUME NEW f \in Nat, f = file' PROVE \A n \in used : n <= f
    <3>1. \A n \in used : n \in Nat /\ n < f + 1
      BY <1>1, <1>6, <2>1 DEF SerialTypes
    <3> QED BY <3>1
  <2> QED BY <2>1 DEF SerialTypes
<1> QED BY <1>1, <1>2, <1>3, <1>4, <1>7 DEF Counter!Restart, SerialTypes

\* Every step of the service is a step of the counter, or none.
LEMMA CounterStep ==
    ASSUME SerialTypes, SerialInv, lost \in BOOLEAN, [Next]_vars
    PROVE  [Counter!Next]_(Counter!vars)
<1>1. SerialTypes' /\ SerialInv'
  BY SerialTypesStep, SerialInvStep
<1>2. CASE lost'
  BY <1>2 DEF Counter!Next, Counter!Lose
<1>3. CASE ~lost'
  <2>1. SUFFICES \/ Counter!Next
                 \/ UNCHANGED <<Last, Given, used, lost>>
    BY DEF Counter!vars
  <2>2. ASSUME NEW t \in Thread, Admit(t) PROVE UNCHANGED <<Last, Given, used, lost>>
    BY <1>1, <2>2, CounterRests DEF Admit, Goto, SerialTypes, serial, history, Taking, Label
  <2>3. ASSUME NEW t \in Thread, Limit(t) PROVE UNCHANGED <<Last, Given, used, lost>>
    <3> USE <1>1, CounterRests DEF SerialTypes, Goto, serial, history, Answer, Taking, Label
    <3>1. CASE ReadClock(t) BY <3>1 DEF ReadClock
    <3>2. CASE LookOld(t)   BY <3>2 DEF LookOld
    <3>3. CASE PopOld(t)    BY <3>3 DEF PopOld
    <3>4. CASE PopEmpty(t)  BY <3>4 DEF PopEmpty
    <3>5. CASE CountHits(t) BY <3>5 DEF CountHits
    <3>6. CASE TooMany(t)   BY <3>6 DEF TooMany
    <3>7. CASE AppendHit(t) BY <3>7 DEF AppendHit
    <3> QED BY <2>3, <3>1, <3>2, <3>3, <3>4, <3>5, <3>6, <3>7 DEF Limit
  <2>4. ASSUME NEW t \in Thread, NextSerial(t)
        PROVE  Counter!Give \/ UNCHANGED <<Last, Given, used, lost>>
    BY <1>3, <2>4, NextSerialCounts
  <2>5. ASSUME NEW t \in Thread, Sign(t) \/ SignFails(t)
        PROVE  \E n \in Given : Counter!Certify(n) \/ Counter!Drop(n)
    <3>1. ~lost
      BY <1>3, <2>5 DEF Sign, SignFails, history
    <3> QED BY <2>5, <3>1, SignCounts
  <2>6. CASE ServiceEnds \/ PowerFails
    BY <1>1, <1>3, <2>6, CrashCounts DEF Counter!Next
  <2>7. CASE Tick
    BY <1>1, <2>7, CounterRests DEF Tick, SerialTypes, serial, history
  <2>8. CASE UNCHANGED vars
    BY <1>1, <2>8, CounterRests DEF vars, SerialTypes, serial, history
  <2> QED BY <2>2, <2>3, <2>4, <2>5, <2>6, <2>7, <2>8 DEF Next, Serve, Counter!Next
<1> QED BY <1>2, <1>3

\* For any number of threads, requests and ends of the service, next_serial()
\* counts: each serial is the number after the one given last, goes to one
\* request, and is above every certificate after an end, until the count is lost.
THEOREM SerialsAreCounted == Spec => CountsSerials
<1>1. Init => Counter!Init
  <2> SUFFICES ASSUME Init PROVE Counter!Init
    OBVIOUS
  <2>1. Last = 0
    BY DEF Init, Last
  <2>2. Given = {}
    BY DEF Init, Given
  <2> QED BY <2>1, <2>2 DEF Init, Counter!Init
<1>2. SerialTypes /\ SerialInv /\ [Next]_vars => (SerialTypes /\ SerialInv)'
  BY SerialTypesStep, SerialInvStep
<1>3. SerialTypes /\ SerialInv /\ LostType /\ [Next]_vars
        => [Counter!Next]_(Counter!vars)
  BY CounterStep DEF LostType
<1>4. Init => LostType
  BY DEF Init, LostType
<1> QED BY <1>1, <1>2, <1>3, <1>4, LostStep, SerialInit, PTL
        DEF Spec, CountsSerials, Counter!Spec

-----------------------------------------------------------------------------
(* The quota's deque.  Each thread about to append has found it below the  *)
(* limit, so what is in it and is about to be stays below limit and threads*)
(* together, whatever the interleaving (HitsInv).                          *)

\* Every variable has its type, whatever the requests and the ends of the service.
THEOREM TypeCorrect == Spec => []TypeOK
<1>1. Init => TypeOK
  <2> SUFFICES ASSUME Init PROVE TypeOK
    OBVIOUS
  <2>1. <<>> \in Seq(0..MaxTime)
    BY EmptySeq
  <2>2. hits \in [Subject -> Seq(0..MaxTime)] /\ passed \in [Subject -> Seq(0..MaxTime)]
    BY <2>1 DEF Init
  <2>3. clock \in 0..MaxTime /\ requests \in 0..MaxRequest /\ crashes \in 0..MaxCrash
    BY EnrollServerAssumption DEF Init
  <2>4. now \in [Thread -> 0..MaxTime] /\ current \in [Thread -> Nat]
    BY EnrollServerAssumption DEF Init
  <2>5. /\ pc \in [Thread -> Label] /\ \A t \in Thread : pc[t] = "idle"
        /\ sub \in [Thread -> Subject \cup {Nobody}]
        /\ owner \in [Thread -> Subject \cup {Nobody}]
    BY DEF Init, Label
  <2>6. /\ file \in Nat /\ disk \subseteq Nat /\ used \subseteq Nat
        /\ lock \in Thread \cup {Nobody}
    BY DEF Init
  <2>7. raced \in BOOLEAN /\ lost \in BOOLEAN
    BY DEF Init
  <2> QED BY <2>2, <2>3, <2>4, <2>5, <2>6, <2>7 DEF TypeOK
<1>2. TypeOK /\ [Next]_vars => TypeOK'
  <2> SUFFICES ASSUME TypeOK, [Next]_vars PROVE TypeOK'
    OBVIOUS
  <2> USE EnrollServerAssumption
      DEF TypeOK, Label, Goto, serial, request, quota, bounds, history, Answer, window
  <2>1. ASSUME NEW t \in Thread, Admit(t) PROVE TypeOK'
    <3>1. PICK r \in Request :
              /\ Admitted(r)
              /\ sub' = [sub EXCEPT ![t] = r.access]
              /\ owner' = [owner EXCEPT ![t] = r.id]
      BY <2>1 DEF Admit
    <3>2. r.access \in Subject /\ r.id \in Subject
      BY <3>1 DEF Admitted, Request
    <3>3. requests' \in 0..MaxRequest
      BY <2>1 DEF Admit
    <3> QED BY <2>1, <3>1, <3>2, <3>3 DEF Admit
  <2>2. ASSUME NEW t \in Thread, Limit(t) PROVE TypeOK'
    <3>1. CASE ReadClock(t) BY <3>1 DEF ReadClock
    <3>2. CASE LookOld(t)   BY <3>2 DEF LookOld
    <3>3. CASE PopOld(t)
      <4>1. Tail(hits[sub[t]]) \in Seq(0..MaxTime)
        BY <3>3, HeadTailProperties DEF PopOld
      <4> QED BY <3>3, <4>1 DEF PopOld
    <3>4. CASE PopEmpty(t)  BY <3>4 DEF PopEmpty
    <3>5. CASE CountHits(t) BY <3>5 DEF CountHits
    <3>6. CASE TooMany(t)   BY <3>6 DEF TooMany
    <3>7. CASE AppendHit(t)
      <4>1. sub[t] \in Subject /\ now[t] \in 0..MaxTime
        BY <3>7 DEF AppendHit
      <4>2. /\ Append(hits[sub[t]], now[t]) \in Seq(0..MaxTime)
            /\ Append(passed[sub[t]], now[t]) \in Seq(0..MaxTime)
        BY <4>1, AppendProperties
      <4> QED BY <3>7, <4>2 DEF AppendHit
    <3> QED BY <2>2, <3>1, <3>2, <3>3, <3>4, <3>5, <3>6, <3>7 DEF Limit
  <2>3. ASSUME NEW t \in Thread, NextSerial(t) PROVE TypeOK'
    <3>1. CASE LockSerial(t)       BY <3>1 DEF LockSerial
    <3>2. CASE ReadSerial(t)       BY <3>2 DEF ReadSerial
    <3>3. CASE Truncate(t)         BY <3>3 DEF Truncate
    <3>4. CASE WriteSerial(t)      BY <3>4 DEF WriteSerial
    <3>5. CASE WriteSerialFails(t) BY <3>5 DEF WriteSerialFails
    <3>6. CASE SyncSerial(t)       BY <3>6 DEF SyncSerial
    <3>7. CASE UnlockSerial(t)     BY <3>7 DEF UnlockSerial
    <3> QED BY <2>3, <3>1, <3>2, <3>3, <3>4, <3>5, <3>6, <3>7 DEF NextSerial
  <2>4. ASSUME NEW t \in Thread, Sign(t) \/ SignFails(t) PROVE TypeOK'
    <3>1. used' \subseteq Nat
      <4>1. used' = used \/ used' = used \cup {current[t]}
        BY <2>4 DEF Sign, SignFails
      <4>2. current[t] \in Nat /\ used \subseteq Nat
        OBVIOUS
      <4> QED BY ONLY <4>1, <4>2
    <3>2. /\ Goto(t, "sign", "idle") /\ Answer(t)
          /\ UNCHANGED <<clock, hits, file, disk, lock, requests, crashes, passed, raced, lost>>
      BY <2>4 DEF Sign, SignFails
    <3> QED BY <3>1, <3>2
  <2>5. CASE ServiceEnds \/ PowerFails
    <3>1. crashes' \in 0..MaxCrash
      BY <2>5 DEF ServiceEnds, PowerFails, Restarted
    <3>2. hits' \in [Subject -> Seq(0..MaxTime)] /\ passed' \in [Subject -> Seq(0..MaxTime)]
      <4>1. <<>> \in Seq(0..MaxTime)
        BY EmptySeq
      <4>2. hits' = [s \in Subject |-> <<>>] /\ passed' = [s \in Subject |-> <<>>]
        BY <2>5 DEF ServiceEnds, PowerFails, Restarted
      <4> QED BY ONLY <4>1, <4>2
    <3>3. file' \in Nat /\ disk' \subseteq Nat /\ lost' \in BOOLEAN
      <4>1. CASE ServiceEnds BY <4>1 DEF ServiceEnds
      <4>2. CASE PowerFails  BY <4>2 DEF PowerFails
      <4> QED BY <2>5, <4>1, <4>2
    <3>4. /\ now' \in [Thread -> 0..MaxTime] /\ current' \in [Thread -> Nat]
          /\ pc' \in [Thread -> Label] /\ \A t \in Thread : pc'[t] = "idle"
      BY <2>5 DEF ServiceEnds, PowerFails, Restarted
    <3>5. /\ sub' \in [Thread -> Subject \cup {Nobody}]
          /\ owner' \in [Thread -> Subject \cup {Nobody}]
          /\ lock' = Nobody /\ raced' = FALSE /\ UNCHANGED <<clock, requests, used>>
      BY <2>5 DEF ServiceEnds, PowerFails, Restarted
    <3> QED BY <3>1, <3>2, <3>3, <3>4, <3>5
  <2>6. CASE Tick
    <3>1. clock' \in 0..MaxTime
      BY <2>6 DEF Tick
    <3> QED BY <2>6, <3>1 DEF Tick
  <2>7. CASE UNCHANGED vars BY <2>7 DEF vars
  <2> QED BY <2>1, <2>2, <2>3, <2>4, <2>5, <2>6, <2>7 DEF Next, Serve
<1> QED BY <1>1, <1>2, PTL DEF Spec

\* The threads that are about to append to the deque of s.
Appending(s) == {t \in Thread : pc[t] = "append" /\ sub[t] = s}

HitsInv ==
    \A s \in Subject :
        Len(hits[s]) + Cardinality(Appending(s)) < RateLimit + Cardinality(Thread)

LEMMA AppendingIsFinite ==
    ASSUME NEW S \in SUBSET Thread
    PROVE  IsFiniteSet(S) /\ Cardinality(S) \in Nat /\ Cardinality(S) <= Cardinality(Thread)
BY EnrollServerAssumption, FS_Subset, FS_CardinalityType

\* A step that lets no thread append keeps HitsInv unless a deque grows.
LEMMA HitsShrink ==
    ASSUME TypeOK, HitsInv,
           \A t \in Thread : pc'[t] = "append" => pc[t] = "append" /\ sub'[t] = sub[t],
           \A s \in Subject : Len(hits'[s]) \in Nat /\ Len(hits'[s]) <= Len(hits[s])
    PROVE  HitsInv'
<1> SUFFICES ASSUME NEW s \in Subject
             PROVE  Len(hits'[s]) + Cardinality(Appending(s)') < RateLimit + Cardinality(Thread)
  BY DEF HitsInv
<1>1. Appending(s)' \subseteq Appending(s) /\ Appending(s) \subseteq Thread
  BY DEF Appending
<1>2. IsFiniteSet(Appending(s)) /\ Cardinality(Appending(s)) \in Nat
  BY <1>1, AppendingIsFinite
<1>3. ASSUME NEW A, A = Appending(s)'
      PROVE  Cardinality(A) \in Nat /\ Cardinality(A) <= Cardinality(Appending(s))
  BY <1>1, <1>2, <1>3, FS_Subset, FS_CardinalityType
<1>4. Len(hits[s]) \in Nat /\ RateLimit \in Nat /\ Cardinality(Thread) \in Nat
  BY EnrollServerAssumption, FS_CardinalityType, LenProperties DEF TypeOK
<1>5. ASSUME NEW n \in Nat, n = Len(hits'[s]), NEW A, A = Appending(s)'
      PROVE  n + Cardinality(A) < RateLimit + Cardinality(Thread)
  BY <1>2, <1>3, <1>4, <1>5 DEF HitsInv
<1> QED BY <1>5

LEMMA HitsStep == TypeOK /\ TypeOK' /\ HitsInv /\ [Next]_vars => HitsInv'
<1> SUFFICES ASSUME TypeOK, TypeOK', HitsInv, [Next]_vars PROVE HitsInv'
  OBVIOUS
<1> USE DEF Goto, serial, request, quota, bounds, history, Answer, window
<1>1. \A s \in Subject :
          /\ hits[s] \in Seq(0..MaxTime) /\ Len(hits[s]) \in Nat
          /\ hits'[s] \in Seq(0..MaxTime) /\ Len(hits'[s]) \in Nat
  BY LenProperties DEF TypeOK
<1>2. ASSUME hits' = hits,
             \A t \in Thread : pc'[t] = "append" => pc[t] = "append" /\ sub'[t] = sub[t]
      PROVE  HitsInv'
  BY <1>1, <1>2, HitsShrink
<1>3. ASSUME NEW t \in Thread, Admit(t) PROVE HitsInv'
  BY <1>3, <1>2 DEF Admit, TypeOK
<1>4. ASSUME NEW t \in Thread, Limit(t) PROVE HitsInv'
  <2> USE DEF TypeOK
  <2>1. CASE ReadClock(t) BY <1>2, <2>1 DEF ReadClock
  <2>2. CASE LookOld(t)   BY <1>2, <2>2 DEF LookOld
  <2>3. CASE PopOld(t)
    <3>1. sub[t] \in Subject /\ hits[sub[t]] # <<>>
      BY <2>3 DEF PopOld
    <3>2. Len(Tail(hits[sub[t]])) = Len(hits[sub[t]]) - 1
      BY <1>1, <3>1, HeadTailProperties
    <3>3. \A s \in Subject : hits'[s] = IF s = sub[t] THEN Tail(hits[s]) ELSE hits[s]
      BY <2>3 DEF PopOld
    <3>4. ASSUME NEW s \in Subject PROVE Len(hits'[s]) <= Len(hits[s])
      <4>1. CASE s = sub[t]
        <5>1. hits'[s] = Tail(hits[s]) /\ Len(Tail(hits[s])) = Len(hits[s]) - 1
          BY <3>2, <3>3, <4>1
        <5>2. Len(Tail(hits[s])) <= Len(hits[s])
          BY <1>1, <5>1
        <5> QED BY <5>1, <5>2
      <4>2. CASE s # sub[t] BY <1>1, <3>3, <4>2
      <4> QED BY <4>1, <4>2
    <3>5. \A u \in Thread : pc'[u] = "append" => pc[u] = "append" /\ sub'[u] = sub[u]
      BY <2>3 DEF PopOld
    <3> QED BY <1>1, <3>4, <3>5, HitsShrink
  <2>4. CASE PopEmpty(t)  BY <1>2, <2>4 DEF PopEmpty
  <2>5. CASE CountHits(t)
    <3> SUFFICES ASSUME NEW s \in Subject
                 PROVE  Len(hits'[s]) + Cardinality(Appending(s)')
                            < RateLimit + Cardinality(Thread)
      BY DEF HitsInv
    <3>1. /\ hits' = hits /\ sub' = sub /\ Len(hits[sub[t]]) < RateLimit
          /\ \A u \in Thread \ {t} : pc'[u] = pc[u]
      BY <2>5 DEF CountHits
    <3>2. CASE s = sub[t]
      <4>1. ASSUME NEW A, A = Appending(s)'
            PROVE  Cardinality(A) \in Nat /\ Cardinality(A) <= Cardinality(Thread)
        BY <4>1, AppendingIsFinite DEF Appending
      <4>2. RateLimit \in Nat /\ Cardinality(Thread) \in Nat
        BY EnrollServerAssumption, FS_CardinalityType
      <4>3. ASSUME NEW A, A = Appending(s)'
            PROVE  Len(hits[s]) + Cardinality(A) < RateLimit + Cardinality(Thread)
        <5>1. Len(hits[s]) \in Nat /\ Len(hits[s]) < RateLimit
          BY <1>1, <3>1, <3>2
        <5>2. Cardinality(A) \in Nat /\ Cardinality(A) <= Cardinality(Thread)
          BY <4>1, <4>3
        <5> QED BY ONLY <4>2, <5>1, <5>2
      <4> QED BY <3>1, <4>3
    <3>3. CASE s # sub[t]
      <4>1. Appending(s)' = Appending(s)
        BY <3>1, <3>3 DEF Appending
      <4> QED BY <3>1, <4>1 DEF HitsInv
    <3> QED BY <3>2, <3>3
  <2>6. CASE TooMany(t)   BY <1>2, <2>6 DEF TooMany
  <2>7. CASE AppendHit(t)
    <3> SUFFICES ASSUME NEW s \in Subject
                 PROVE  Len(hits'[s]) + Cardinality(Appending(s)')
                            < RateLimit + Cardinality(Thread)
      BY DEF HitsInv
    <3>1. /\ hits' = [hits EXCEPT ![sub[t]] = Append(@, now[t])] /\ sub' = sub
          /\ pc[t] = "append" /\ pc'[t] = "lock" /\ \A u \in Thread \ {t} : pc'[u] = pc[u]
          /\ now[t] \in 0..MaxTime
      BY <2>7 DEF AppendHit
    <3>2. CASE s = sub[t]
      <4>1. hits'[s] = Append(hits[s], now[t])
        BY <3>1, <3>2
      <4>2. Len(hits'[s]) = Len(hits[s]) + 1
        <5>1. Len(Append(hits[s], now[t])) = Len(hits[s]) + 1
          BY <1>1, <3>1, AppendProperties
        <5> QED BY <4>1, <5>1
      <4>3. Appending(s)' = Appending(s) \ {t} /\ t \in Appending(s)
        BY <3>1, <3>2 DEF Appending
      <4>4. IsFiniteSet(Appending(s)) /\ Cardinality(Appending(s)) \in Nat
        BY AppendingIsFinite DEF Appending
      <4>5. Cardinality(Appending(s) \ {t}) = Cardinality(Appending(s)) - 1
        BY <4>3, <4>4, FS_RemoveElement
      <4>6. ASSUME NEW A, A = Appending(s)'
            PROVE  Cardinality(A) = Cardinality(Appending(s)) - 1
        BY <4>3, <4>5, <4>6
      <4>7. RateLimit \in Nat /\ Cardinality(Thread) \in Nat
        BY EnrollServerAssumption, FS_CardinalityType
      <4>8. ASSUME NEW n, n = Len(hits'[s]), NEW A, A = Appending(s)'
            PROVE  n + Cardinality(A) < RateLimit + Cardinality(Thread)
        BY <1>1, <4>2, <4>4, <4>6, <4>7, <4>8 DEF HitsInv
      <4> QED BY <4>8
    <3>3. CASE s # sub[t]
      <4>1. Appending(s)' = Appending(s) /\ hits'[s] = hits[s]
        BY <3>1, <3>3 DEF Appending
      <4> QED BY <4>1 DEF HitsInv
    <3> QED BY <3>2, <3>3
  <2> QED BY <1>4, <2>1, <2>2, <2>3, <2>4, <2>5, <2>6, <2>7 DEF Limit
<1>5. ASSUME NEW t \in Thread, NextSerial(t) PROVE HitsInv'
  <2> USE <1>2 DEF TypeOK
  <2>1. CASE LockSerial(t)       BY <2>1 DEF LockSerial
  <2>2. CASE ReadSerial(t)       BY <2>2 DEF ReadSerial
  <2>3. CASE Truncate(t)         BY <2>3 DEF Truncate
  <2>4. CASE WriteSerial(t)      BY <2>4 DEF WriteSerial
  <2>5. CASE WriteSerialFails(t) BY <2>5 DEF WriteSerialFails
  <2>6. CASE SyncSerial(t)       BY <2>6 DEF SyncSerial
  <2>7. CASE UnlockSerial(t)     BY <2>7 DEF UnlockSerial
  <2> QED BY <1>5, <2>1, <2>2, <2>3, <2>4, <2>5, <2>6, <2>7 DEF NextSerial
<1>6. ASSUME NEW t \in Thread, Sign(t) \/ SignFails(t) PROVE HitsInv'
  BY <1>6, <1>2 DEF Sign, SignFails, TypeOK
<1>7. CASE ServiceEnds \/ PowerFails
  <2>1. /\ \A t \in Thread : pc'[t] = "idle"
        /\ \A s \in Subject : hits'[s] = <<>>
    BY <1>7 DEF ServiceEnds, PowerFails, Restarted
  <2>2. \A s \in Subject : Len(hits'[s]) <= Len(hits[s])
    BY <1>1, <2>1, EmptySeq
  <2> QED BY <1>1, <2>1, <2>2, HitsShrink
<1>8. CASE Tick \/ UNCHANGED vars
  BY <1>8, <1>2 DEF Tick, vars
<1> QED BY <1>3, <1>4, <1>5, <1>6, <1>7, <1>8 DEF Next, Serve

\* For any number of threads, however they interleave in _rate_limit(), which
\* has no lock (enroll.py:158-165), the deque of a subject stays below the limit
\* and the number of threads together.
THEOREM DequesBounded == Spec => []HitsBounded
<1>1. Init => HitsInv
  <2> SUFFICES ASSUME Init, NEW s \in Subject
               PROVE  Len(hits[s]) + Cardinality(Appending(s)) < RateLimit + Cardinality(Thread)
    BY DEF HitsInv
  <2>1. Appending(s) = {} /\ hits[s] = <<>>
    BY DEF Init, Appending
  <2>2. Len(hits[s]) = 0 /\ Cardinality(Appending(s)) = 0
    BY <2>1, EmptySeq, FS_EmptySet
  <2>3. Cardinality(Thread) \in Nat \ {0} /\ RateLimit \in Nat
    BY EnrollServerAssumption, FS_EmptySet, FS_CardinalityType
  <2> QED BY <2>2, <2>3
<1>2. TypeOK /\ HitsInv => HitsBounded
  <2> SUFFICES ASSUME TypeOK, HitsInv, NEW s \in Subject
               PROVE  Len(hits[s]) < RateLimit + Cardinality(Thread)
    BY DEF HitsBounded
  <2>1. /\ Cardinality(Appending(s)) \in Nat /\ Len(hits[s]) \in Nat
        /\ RateLimit \in Nat /\ Cardinality(Thread) \in Nat
    BY AppendingIsFinite, EnrollServerAssumption, FS_CardinalityType, LenProperties
    DEF Appending, TypeOK
  <2> QED BY <2>1 DEF HitsInv
<1> QED BY <1>1, <1>2, HitsStep, TypeCorrect, PTL DEF Spec

-----------------------------------------------------------------------------
(* The exact quota.  While no two requests of a subject are counted        *)
(* together, its deque is the end of what passed, and what was dropped of  *)
(* it is more than an hour old (Fits).                                     *)

Fits(h, p, c) ==
    /\ Len(h) <= RateLimit /\ Len(h) <= Len(p)
    /\ \A i \in 1..Len(p) - Len(h) : c - p[i] > Hour
    /\ \A i \in 1..Len(h) : h[i] = p[Len(p) - Len(h) + i]

LEMMA FitsLater ==
    ASSUME NEW h \in Seq(Nat), NEW p \in Seq(Nat), NEW c \in Nat, NEW d \in Nat,
           Fits(h, p, c), c <= d
    PROVE  Fits(h, p, d)
<1>1. \A i \in 1..Len(p) - Len(h) : p[i] \in Nat
  BY LenProperties, ElementOfSeq DEF Fits
<1>2. \A i \in 1..Len(p) - Len(h) : d - p[i] > Hour
  BY <1>1, EnrollServerAssumption DEF Fits
<1> QED BY <1>2 DEF Fits

LEMMA FitsPop ==
    ASSUME NEW h \in Seq(Nat), NEW p \in Seq(Nat), NEW c \in Nat,
           Fits(h, p, c), h # <<>>, c - Head(h) > Hour
    PROVE  Fits(Tail(h), p, c)
<1>1. /\ Head(h) = h[1] /\ Len(Tail(h)) = Len(h) - 1 /\ Tail(h) \in Seq(Nat)
      /\ \A i \in 1..Len(h) - 1 : Tail(h)[i] = h[i + 1]
  BY HeadTailProperties
<1>2. Len(h) \in Nat /\ Len(h) # 0 /\ Len(p) \in Nat /\ RateLimit \in Nat
  BY LenProperties, EmptySeq, EnrollServerAssumption
<1>3. h[1] = p[Len(p) - Len(h) + 1]
  BY <1>2 DEF Fits
<1>4. \A i \in 1..Len(p) - Len(Tail(h)) : c - p[i] > Hour
  BY <1>1, <1>2, <1>3 DEF Fits
<1>5. \A i \in 1..Len(Tail(h)) : Tail(h)[i] = p[Len(p) - Len(Tail(h)) + i]
  <2> SUFFICES ASSUME NEW i \in 1..Len(Tail(h))
               PROVE  Tail(h)[i] = p[Len(p) - Len(Tail(h)) + i]
    OBVIOUS
  <2>1. i + 1 \in 1..Len(h) /\ Tail(h)[i] = h[i + 1]
    BY <1>1, <1>2
  <2>2. Len(p) - Len(h) + (i + 1) = Len(p) - Len(Tail(h)) + i
    BY <1>1, <1>2
  <2>3. h[i + 1] = p[Len(p) - Len(h) + (i + 1)]
    BY <2>1 DEF Fits
  <2> QED BY <2>1, <2>2, <2>3
<1> QED BY <1>1, <1>2, <1>4, <1>5 DEF Fits

LEMMA FitsAppend ==
    ASSUME NEW h \in Seq(Nat), NEW p \in Seq(Nat), NEW c \in Nat, NEW n \in Nat,
           Fits(h, p, c), Len(h) < RateLimit
    PROVE  Fits(Append(h, n), Append(p, n), c)
<1>1. Len(h) \in Nat /\ Len(p) \in Nat /\ RateLimit \in Nat
  BY LenProperties, EnrollServerAssumption
<1>2. /\ Len(Append(h, n)) = Len(h) + 1 /\ Len(Append(p, n)) = Len(p) + 1
      /\ \A i \in 1..Len(h) : Append(h, n)[i] = h[i]
      /\ \A i \in 1..Len(p) : Append(p, n)[i] = p[i]
      /\ Append(h, n)[Len(h) + 1] = n /\ Append(p, n)[Len(p) + 1] = n
  BY AppendProperties
<1>3. Len(Append(p, n)) - Len(Append(h, n)) = Len(p) - Len(h)
  BY <1>1, <1>2
<1>4. \A i \in 1..Len(p) - Len(h) : c - Append(p, n)[i] > Hour
  BY <1>1, <1>2 DEF Fits
<1>5. ASSUME NEW i \in 1..Len(h) + 1
      PROVE  Append(h, n)[i] = Append(p, n)[Len(p) - Len(h) + i]
  <2>1. CASE i = Len(h) + 1
    <3>1. Len(p) - Len(h) + i = Len(p) + 1
      BY <1>1, <2>1
    <3> QED BY <1>2, <2>1, <3>1
  <2>2. CASE i # Len(h) + 1
    <3>1. i \in 1..Len(h) /\ Len(p) - Len(h) + i \in 1..Len(p)
      BY <1>1, <2>2 DEF Fits
    <3> QED BY <1>2, <3>1 DEF Fits
  <2> QED BY <2>1, <2>2
<1>6. /\ Len(Append(h, n)) <= RateLimit /\ Len(Append(h, n)) <= Len(Append(p, n))
      /\ 1..Len(Append(h, n)) = 1..Len(h) + 1
  BY <1>1, <1>2 DEF Fits
<1> QED BY ONLY <1>3, <1>4, <1>5, <1>6 DEF Fits

LEMMA FitsBounds ==
    ASSUME NEW h \in Seq(Nat), NEW p \in Seq(Nat), NEW c \in Nat, Fits(h, p, c)
    PROVE  Cardinality({i \in DOMAIN p : c - p[i] <= Hour}) <= RateLimit
<1> DEFINE Late == {i \in DOMAIN p : c - p[i] <= Hour}
           Kept == (Len(p) - Len(h) + 1)..Len(p)
<1>1. /\ Len(h) \in Nat /\ Len(p) \in Nat /\ RateLimit \in Nat /\ Hour \in Nat
      /\ Len(h) <= Len(p) /\ Len(h) <= RateLimit /\ DOMAIN p = 1..Len(p)
  BY LenProperties, EnrollServerAssumption DEF Fits
<1>2. ASSUME NEW i \in Late PROVE i \in Kept
  <2>1. i \in 1..Len(p) /\ p[i] \in Nat /\ c - p[i] <= Hour
    BY <1>1, <1>2, ElementOfSeq
  <2>2. ASSUME i \in 1..Len(p) - Len(h) PROVE FALSE
    <3>1. c - p[i] > Hour
      BY <2>2 DEF Fits
    <3> QED BY <1>1, <2>1, <3>1
  <2> QED BY <1>1, <2>1, <2>2
<1>3. IsFiniteSet(Kept) /\ Cardinality(Kept) \in Nat /\ Cardinality(Kept) <= Len(h)
  <2>1. Len(p) - Len(h) + 1 \in Int /\ Len(p) \in Int
    BY <1>1
  <2>2. /\ IsFiniteSet(Kept)
        /\ Cardinality(Kept) = IF Len(p) - Len(h) + 1 > Len(p) THEN 0
                               ELSE Len(p) - (Len(p) - Len(h) + 1) + 1
    BY <2>1, FS_Interval
  <2> QED BY <1>1, <2>2
<1>4. Cardinality(Late) \in Nat /\ Cardinality(Late) <= Cardinality(Kept)
  <2>1. Late \in SUBSET Kept
    BY <1>2
  <2>2. IsFiniteSet(Late) /\ Cardinality(Late) <= Cardinality(Kept)
    BY ONLY <1>3, <2>1, FS_Subset
  <2> QED BY <2>2, FS_CardinalityType
<1> HIDE DEF Late, Kept
<1>5. Cardinality(Late) <= RateLimit
  BY <1>1, <1>3, <1>4
<1> QED BY <1>5 DEF Late

LEMMA QuotaSeqs ==
    TypeOK => \A s \in Subject : hits[s] \in Seq(Nat) /\ passed[s] \in Seq(Nat)
<1> SUFFICES ASSUME TypeOK, NEW s \in Subject
             PROVE  hits[s] \in Seq(Nat) /\ passed[s] \in Seq(Nat)
  OBVIOUS
<1>1. hits[s] \in Seq(0..MaxTime) /\ passed[s] \in Seq(0..MaxTime)
  BY DEF TypeOK
<1>2. 0..MaxTime \subseteq Nat
  OBVIOUS
<1> QED BY ONLY <1>1, <1>2, SeqMonotonic

NowPast == \A t \in Thread : now[t] <= clock

\* No two requests of a subject are counted together; what each found holds.
Counted ==
    /\ \A t, u \in Thread : t # u /\ pc[t] \in Limiting /\ pc[u] \in Limiting => sub[t] # sub[u]
    /\ \A t \in Thread : pc[t] = "pop" => now[t] - Head(hits[sub[t]]) > Hour
    /\ \A t \in Thread : pc[t] = "append" => Len(hits[sub[t]]) < RateLimit

Fitting == \A s \in Subject : Fits(hits[s], passed[s], clock)

QuotaInv == NowPast /\ (~raced => Counted /\ Fitting)

LEMMA QuotaInit == Init => QuotaInv
<1> SUFFICES ASSUME Init PROVE QuotaInv
  OBVIOUS
<1>1. NowPast
  BY DEF Init, NowPast
<1>2. Counted
  BY DEF Init, Counted, Limiting
<1>3. Fits(<<>>, <<>>, clock)
  BY EmptySeq, EnrollServerAssumption DEF Fits
<1>4. Fitting
  BY <1>3 DEF Init, Fitting
<1> QED BY <1>1, <1>2, <1>4 DEF QuotaInv

LEMMA NowKept ==
    ASSUME TypeOK, NowPast, clock' = clock,
           \A t \in Thread : now'[t] \in {now[t], 0, clock}
    PROVE  NowPast'
<1> SUFFICES ASSUME NEW t \in Thread PROVE now'[t] <= clock'
  BY DEF NowPast
<1>1. now[t] <= clock /\ 0 <= clock /\ clock <= clock
  BY DEF NowPast, TypeOK
<1>2. now'[t] = now[t] \/ now'[t] = 0 \/ now'[t] = clock
  OBVIOUS
<1> QED BY ONLY <1>1, <1>2, clock' = clock, Zenon

\* A step that only takes threads out of _rate_limit() keeps QuotaInv.
LEMMA QuotaRests ==
    ASSUME TypeOK, QuotaInv, UNCHANGED <<clock, hits, passed, raced>>,
           \A t \in Thread : now'[t] = now[t] \/ now'[t] = 0,
           \A t \in Thread : pc'[t] \in Limiting =>
              pc'[t] = pc[t] /\ sub'[t] = sub[t] /\ now'[t] = now[t]
    PROVE  QuotaInv'
<1>1. NowPast'
  BY NowKept DEF QuotaInv
<1>2. Counted => Counted'
  BY DEF Counted, Limiting
<1>3. Fitting => Fitting'
  BY DEF Fitting
<1> QED BY <1>1, <1>2, <1>3 DEF QuotaInv

LEMMA LimitQuota ==
    ASSUME TypeOK, TypeOK', QuotaInv, NEW t \in Thread, Limit(t)
    PROVE  QuotaInv'
<1> USE DEF Goto, serial, request, quota, bounds, history, Answer, window
<1>1. NowPast'
  <2> USE NowKept DEF QuotaInv, TypeOK
  <2>1. CASE ReadClock(t) BY <2>1 DEF ReadClock
  <2>2. CASE LookOld(t)   BY <2>2 DEF LookOld
  <2>3. CASE PopOld(t)    BY <2>3 DEF PopOld
  <2>4. CASE PopEmpty(t)  BY <2>4 DEF PopEmpty
  <2>5. CASE CountHits(t) BY <2>5 DEF CountHits
  <2>6. CASE TooMany(t)   BY <2>6 DEF TooMany
  <2>7. CASE AppendHit(t) BY <2>7 DEF AppendHit
  <2> QED BY <2>1, <2>2, <2>3, <2>4, <2>5, <2>6, <2>7 DEF Limit
<1> SUFFICES ASSUME ~raced' PROVE Counted' /\ Fitting'
  BY <1>1 DEF QuotaInv
<1>2. ~raced
  BY DEF Limit, ReadClock, LookOld, PopOld, PopEmpty, CountHits, TooMany, AppendHit
<1>3. Counted /\ Fitting /\ NowPast
  BY <1>2 DEF QuotaInv
<1>4. /\ clock' = clock /\ clock \in Nat /\ Hour \in Nat /\ sub[t] \in Subject
      /\ pc[t] # "idle"
      /\ \A s \in Subject : hits[s] \in Seq(Nat) /\ passed[s] \in Seq(Nat)
  <2>1. \A s \in Subject : hits[s] \in Seq(Nat) /\ passed[s] \in Seq(Nat)
    BY QuotaSeqs
  <2> QED
    BY <2>1, EnrollServerAssumption
    DEF TypeOK, Limit, ReadClock, LookOld, PopOld, PopEmpty, CountHits, TooMany, AppendHit
<1>5. \A u \in Thread \ {t} : pc'[u] = pc[u] /\ sub'[u] = sub[u] /\ now'[u] = now[u]
  BY DEF TypeOK, Limit, ReadClock, LookOld, PopOld, PopEmpty, CountHits, TooMany, AppendHit
<1>6. CASE ReadClock(t)
  <2>1. /\ hits' = hits /\ passed' = passed /\ sub' = sub /\ pc'[t] = "look"
        /\ \A u \in Thread \ {t} : ~(pc[u] \in Limiting /\ sub[u] = sub[t])
    BY <1>6 DEF ReadClock, TypeOK
  <2> QED BY <1>3, <1>4, <1>5, <2>1 DEF Counted, Fitting
<1>7. CASE LookOld(t)
  <2>1. /\ hits' = hits /\ passed' = passed /\ sub' = sub /\ now' = now
        /\ pc[t] = "look" /\ pc'[t] = IF Expired(t) THEN "pop" ELSE "count"
    BY <1>7 DEF LookOld, TypeOK
  <2>2. pc'[t] = "pop" => now[t] - Head(hits[sub[t]]) > Hour
    BY <2>1 DEF Expired
  <2>3. Counted'
    BY <1>3, <1>5, <2>1, <2>2 DEF Counted, Limiting
  <2> QED BY <1>3, <1>4, <2>1, <2>3 DEF Fitting
<1>8. CASE PopOld(t)
  <2>1. /\ hits' = [hits EXCEPT ![sub[t]] = Tail(@)] /\ passed' = passed /\ sub' = sub
        /\ now' = now /\ pc[t] = "pop" /\ pc'[t] = "look" /\ hits[sub[t]] # <<>>
    BY <1>8 DEF PopOld, TypeOK
  <2>2. hits'[sub[t]] = Tail(hits[sub[t]]) /\ \A s \in Subject \ {sub[t]} : hits'[s] = hits[s]
    BY <1>4, <2>1 DEF TypeOK
  <2>3. \A u \in Thread \ {t} : pc[u] \in {"pop", "append"} =>
            hits'[sub[u]] = hits[sub[u]]
    <3>1. \A u \in Thread \ {t} : pc[u] \in {"pop", "append"} => sub[u] # sub[t]
      BY <1>3, <2>1 DEF Counted, Limiting
    <3>2. \A u \in Thread \ {t} : pc[u] \in {"pop", "append"} => sub[u] \in Subject
      BY DEF TypeOK
    <3> QED BY <2>2, <3>1, <3>2
  <2>4. Counted'
    BY <1>3, <1>5, <2>1, <2>3 DEF Counted, Limiting
  <2>5. clock - Head(hits[sub[t]]) > Hour
    <3>1. now[t] - Head(hits[sub[t]]) > Hour /\ now[t] <= clock
      BY <1>3, <2>1 DEF Counted, NowPast
    <3>2. now[t] \in Nat
      BY DEF TypeOK
    <3>3. Head(hits[sub[t]]) \in Nat
      <4>1. hits[sub[t]] \in Seq(Nat) /\ hits[sub[t]] # <<>>
        BY <1>4, <2>1
      <4> QED BY ONLY <4>1, HeadTailProperties
    <3> QED BY <1>4, <3>1, <3>2, <3>3
  <2>6. Fits(Tail(hits[sub[t]]), passed[sub[t]], clock)
    BY <1>3, <1>4, <2>1, <2>5, FitsPop DEF Fitting
  <2> QED BY <1>3, <1>4, <2>1, <2>2, <2>4, <2>6 DEF Fitting
<1>9. CASE PopEmpty(t) \/ TooMany(t)
  <2>1. hits' = hits /\ passed' = passed /\ pc'[t] = "idle"
    BY <1>9 DEF PopEmpty, TooMany, TypeOK
  <2>2. Counted'
    BY <1>3, <1>5, <2>1 DEF Counted, Limiting
  <2> QED BY <1>3, <1>4, <2>1, <2>2 DEF Fitting
<1>10. CASE CountHits(t)
  <2>1. /\ hits' = hits /\ passed' = passed /\ sub' = sub /\ now' = now
        /\ pc[t] = "count" /\ pc'[t] = "append" /\ Len(hits[sub[t]]) < RateLimit
    BY <1>10 DEF CountHits, TypeOK
  <2>2. Counted'
    BY <1>3, <1>5, <2>1 DEF Counted, Limiting
  <2> QED BY <1>3, <1>4, <2>1, <2>2 DEF Fitting
<1>11. CASE AppendHit(t)
  <2>1. /\ hits' = [hits EXCEPT ![sub[t]] = Append(@, now[t])]
        /\ passed' = [passed EXCEPT ![sub[t]] = Append(@, now[t])]
        /\ sub' = sub /\ now' = now /\ pc[t] = "append" /\ pc'[t] = "lock"
    BY <1>11 DEF AppendHit, TypeOK
  <2>2. /\ hits'[sub[t]] = Append(hits[sub[t]], now[t])
        /\ passed'[sub[t]] = Append(passed[sub[t]], now[t])
        /\ \A s \in Subject \ {sub[t]} : hits'[s] = hits[s] /\ passed'[s] = passed[s]
    BY <1>4, <2>1 DEF TypeOK
  <2>3. \A u \in Thread \ {t} : pc[u] \in {"pop", "append"} =>
            hits'[sub[u]] = hits[sub[u]]
    <3>1. \A u \in Thread \ {t} : pc[u] \in {"pop", "append"} => sub[u] # sub[t]
      BY <1>3, <2>1 DEF Counted, Limiting
    <3>2. \A u \in Thread \ {t} : pc[u] \in {"pop", "append"} => sub[u] \in Subject
      BY DEF TypeOK
    <3> QED BY <2>2, <3>1, <3>2
  <2>4. Counted'
    BY <1>3, <1>5, <2>1, <2>3 DEF Counted, Limiting
  <2>5. Fits(Append(hits[sub[t]], now[t]), Append(passed[sub[t]], now[t]), clock)
    <3>1. now[t] \in Nat /\ Len(hits[sub[t]]) < RateLimit
      BY <1>3, <2>1 DEF Counted, TypeOK
    <3> QED BY <1>3, <1>4, <3>1, FitsAppend DEF Fitting
  <2> QED BY <1>3, <1>4, <2>1, <2>2, <2>4, <2>5 DEF Fitting
<1> QED BY <1>6, <1>7, <1>8, <1>9, <1>10, <1>11 DEF Limit

LEMMA QuotaStep == TypeOK /\ TypeOK' /\ QuotaInv /\ [Next]_vars => QuotaInv'
<1> SUFFICES ASSUME TypeOK, TypeOK', QuotaInv, [Next]_vars PROVE QuotaInv'
  OBVIOUS
<1> USE DEF Goto, serial, request, quota, bounds, history, Answer
<1>1. ASSUME NEW t \in Thread, Admit(t) PROVE QuotaInv'
  BY <1>1, QuotaRests DEF Admit, TypeOK, Limiting
<1>2. ASSUME NEW t \in Thread, Limit(t) PROVE QuotaInv'
  BY <1>2, LimitQuota
<1>3. ASSUME NEW t \in Thread, NextSerial(t) PROVE QuotaInv'
  <2> USE QuotaRests DEF TypeOK, Limiting
  <2>1. CASE LockSerial(t)       BY <2>1 DEF LockSerial
  <2>2. CASE ReadSerial(t)       BY <2>2 DEF ReadSerial
  <2>3. CASE Truncate(t)         BY <2>3 DEF Truncate
  <2>4. CASE WriteSerial(t)      BY <2>4 DEF WriteSerial
  <2>5. CASE WriteSerialFails(t) BY <2>5 DEF WriteSerialFails
  <2>6. CASE SyncSerial(t)       BY <2>6 DEF SyncSerial
  <2>7. CASE UnlockSerial(t)     BY <2>7 DEF UnlockSerial
  <2> QED BY <1>3, <2>1, <2>2, <2>3, <2>4, <2>5, <2>6, <2>7 DEF NextSerial
<1>4. ASSUME NEW t \in Thread, Sign(t) \/ SignFails(t) PROVE QuotaInv'
  BY <1>4, QuotaRests DEF Sign, SignFails, TypeOK, Limiting
<1>5. CASE ServiceEnds \/ PowerFails
  <2>1. /\ \A t \in Thread : pc'[t] = "idle" /\ now'[t] = 0
        /\ \A s \in Subject : hits'[s] = <<>> /\ passed'[s] = <<>>
        /\ clock' = clock
    BY <1>5 DEF ServiceEnds, PowerFails, Restarted
  <2>2. Fits(<<>>, <<>>, clock)
    BY EmptySeq, EnrollServerAssumption DEF Fits
  <2>3. NowPast'
    BY <2>1, NowKept DEF QuotaInv
  <2>4. Counted'
    BY <2>1 DEF Counted, Limiting
  <2> QED BY <2>1, <2>2, <2>3, <2>4 DEF QuotaInv, Fitting
<1>6. CASE Tick
  <2>1. clock' = clock + 1 /\ UNCHANGED <<hits, passed, raced, now, pc, sub>>
    BY <1>6 DEF Tick
  <2>2. NowPast'
    BY <2>1 DEF QuotaInv, NowPast, TypeOK
  <2>3. Counted => Counted'
    BY <2>1 DEF Counted
  <2>4. ASSUME Fitting, NEW s \in Subject PROVE Fits(hits[s], passed[s], clock + 1)
    <3>1. hits[s] \in Seq(Nat) /\ passed[s] \in Seq(Nat)
      BY QuotaSeqs
    <3>2. clock \in Nat /\ clock + 1 \in Nat /\ clock <= clock + 1
      BY DEF TypeOK
    <3> QED BY <2>4, <3>1, <3>2, FitsLater DEF Fitting
  <2>5. Fitting => Fitting'
    BY <2>1, <2>4 DEF Fitting
  <2> QED BY <2>1, <2>2, <2>3, <2>5 DEF QuotaInv
<1>7. CASE UNCHANGED vars
  BY <1>7, QuotaRests DEF vars
<1> QED BY <1>1, <1>2, <1>3, <1>4, <1>5, <1>6, <1>7 DEF Next, Serve

\* While no two requests of a subject are counted together, no more of them pass
\* within an hour than the limit, to the tick (enroll.py:158-165).
THEOREM QuotaIsExact == Spec => []QuotaExact
<1>1. TypeOK /\ QuotaInv => QuotaExact
  <2> SUFFICES ASSUME TypeOK, QuotaInv, ~raced, NEW s \in Subject
               PROVE  Cardinality(InLastHour(s)) <= RateLimit
    BY DEF QuotaExact
  <2>1. /\ hits[s] \in Seq(Nat) /\ passed[s] \in Seq(Nat) /\ clock \in Nat
        /\ Fits(hits[s], passed[s], clock)
    BY QuotaSeqs DEF TypeOK, QuotaInv, Fitting
  <2> QED BY <2>1, FitsBounds DEF InLastHour
<1> QED BY <1>1, QuotaInit, QuotaStep, TypeCorrect, PTL DEF Spec

-----------------------------------------------------------------------------
(* Whose quota is spent. *)

\* From the check of its tokens to its answer a request is of one account.
OneOwner == \A t \in Thread : owner[t] = sub[t]

\* A step that leaves both alone, or answers, keeps it.
LEMMA OneOwnerStep == TypeOK /\ OneOwner /\ [Next]_vars => OneOwner'
<1> SUFFICES ASSUME TypeOK, OneOwner, [Next]_vars PROVE OneOwner'
  OBVIOUS
<1>1. ASSUME NEW t \in Thread, Admit(t) PROVE OneOwner'
  <2>1. PICK r \in Request : /\ Admitted(r)
                              /\ sub' = [sub EXCEPT ![t] = r.access]
                              /\ owner' = [owner EXCEPT ![t] = r.id]
    BY <1>1 DEF Admit
  <2>2. r.id = r.access
    BY <2>1 DEF Admitted
  <2> QED BY <2>1, <2>2 DEF OneOwner, TypeOK
<1>2. ASSUME NEW t \in Thread, Answer(t) PROVE OneOwner'
  BY <1>2 DEF Answer, OneOwner, TypeOK
<1>3. CASE UNCHANGED request
  BY <1>3 DEF request, OneOwner
<1>4. ASSUME NEW t \in Thread, Limit(t) PROVE OneOwner'
  <2>1. (\E u \in Thread : Answer(u)) \/ UNCHANGED request
    BY <1>4 DEF Limit, ReadClock, LookOld, PopOld, PopEmpty, CountHits, TooMany, AppendHit
  <2> QED BY <1>2, <1>3, <2>1
<1>5. ASSUME NEW t \in Thread, NextSerial(t) \/ Sign(t) \/ SignFails(t) PROVE OneOwner'
  <2>1. (\E u \in Thread : Answer(u)) \/ UNCHANGED request
    BY <1>5 DEF NextSerial, LockSerial, ReadSerial, Truncate, WriteSerial, WriteSerialFails,
                SyncSerial, UnlockSerial, Sign, SignFails
  <2> QED BY <1>2, <1>3, <2>1
<1>6. CASE ServiceEnds \/ PowerFails
  BY <1>6 DEF ServiceEnds, PowerFails, Restarted, OneOwner
<1>7. CASE Tick \/ UNCHANGED vars
  BY <1>3, <1>7 DEF Tick, vars
<1> QED BY <1>1, <1>4, <1>5, <1>6, <1>7 DEF Next, Serve

\* The times of the requests that passed grow by AppendHit alone.
LEMMA PassedGrows ==
    ASSUME TypeOK, Next, NEW s \in Subject, Len(passed'[s]) > Len(passed[s])
    PROVE  \E t \in Thread : AppendHit(t) /\ sub[t] = s
<1>1. passed[s] \in Seq(0..MaxTime) /\ Len(passed[s]) \in Nat
  BY LenProperties DEF TypeOK
<1>2. passed' # passed
  BY <1>1
<1>3. ~Restarted
  <2> SUFFICES ASSUME Restarted PROVE FALSE
    OBVIOUS
  <2>1. passed'[s] = <<>> /\ Len(<<>>) = 0
    BY EmptySeq DEF Restarted
  <2> QED BY <1>1, <2>1
<1>4. ASSUME NEW t \in Thread, Admit(t) \/ NextSerial(t) \/ Sign(t) \/ SignFails(t) PROVE FALSE
  <2>1. passed' = passed
    BY <1>4 DEF Admit, NextSerial, LockSerial, ReadSerial, Truncate, WriteSerial,
                WriteSerialFails, SyncSerial, UnlockSerial, Sign, SignFails, history
  <2> QED BY <1>2, <2>1
<1>5. ASSUME NEW t \in Thread, Limit(t) PROVE AppendHit(t)
  <2>1. AppendHit(t) \/ passed' = passed
    BY <1>5 DEF Limit, ReadClock, LookOld, PopOld, PopEmpty, CountHits, TooMany, history
  <2> QED BY <1>2, <2>1
<1>6. ~Tick
  BY <1>2 DEF Tick, history
<1>7. PICK t \in Thread : AppendHit(t)
  BY <1>3, <1>4, <1>5, <1>6 DEF Next, Serve, ServiceEnds, PowerFails
<1>8. sub[t] = s
  <2> SUFFICES ASSUME sub[t] # s PROVE FALSE
    OBVIOUS
  <2>1. passed'[s] = passed[s]
    BY <1>7 DEF AppendHit, TypeOK
  <2> QED BY <1>1, <2>1
<1> QED BY <1>7, <1>8

\* For any number of threads and subjects: what spends the quota of a subject is
\* a request that carries both its tokens (enroll.py:327-364).
THEOREM SpendsItsOwn == Spec => OwnQuotaSpent
<1>1. Init => OneOwner
  BY DEF Init, OneOwner
<1>2. TypeOK /\ OneOwner /\ [Next]_vars =>
          [\A s \in Subject : Len(passed'[s]) > Len(passed[s]) =>
              \E t \in Thread : /\ pc[t] = "append" /\ pc'[t] = "lock"
                                /\ sub[t] = s /\ owner[t] = s]_vars
  <2> SUFFICES ASSUME TypeOK, OneOwner, Next, NEW s \in Subject,
                      Len(passed'[s]) > Len(passed[s])
               PROVE  \E t \in Thread : /\ pc[t] = "append" /\ pc'[t] = "lock"
                                        /\ sub[t] = s /\ owner[t] = s
    OBVIOUS
  <2>1. PICK t \in Thread : AppendHit(t) /\ sub[t] = s
    BY PassedGrows
  <2>2. pc[t] = "append" /\ pc'[t] = "lock"
    BY <2>1 DEF AppendHit, Goto, TypeOK
  <2> QED BY <2>1, <2>2 DEF OneOwner
<1> QED BY <1>1, <1>2, OneOwnerStep, TypeCorrect, PTL DEF Spec, OwnQuotaSpent
=============================================================================
