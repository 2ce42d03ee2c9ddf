---------------------------- MODULE EgressProofs ----------------------------
(***************************************************************************)
(* Proofs about Egress.  Only the run that holds the flock touches the     *)
(* kernel's tables (LockHeld), so unless a call of its own failed the chain*)
(* it builds is the rules it has appended so far (Building) and what it has*)
(* done to a family stays done (Progress); no chain ever rejects before it *)
(* permits, and only failed calls add to the tables (Tables).              *)
(***************************************************************************)
EXTENDS Egress, SequenceTheorems, TLAPS

USE EgressAssumption

-----------------------------------------------------------------------------
(* The rules. *)

Rule   == {"established", "lo", "dns", "set", "reject"}
Permit == {"established", "lo", "dns", "set"}
Inside == {"conf", "new", "unhook", "insert", "flush", "unlock"} \cup Rule

LEMMA RulesAre ==
    /\ Rules \in Seq(Rule) /\ Len(Rules) = 5 /\ DOMAIN Rules = 1..5
    /\ Rules[1] = "established" /\ Rules[2] = "lo" /\ Rules[3] = "dns"
    /\ Rules[4] = "set" /\ Rules[5] = "reject"
BY DEF Rules, Rule

LEMMA LabelsAre == Label = {"idle", "flock"} \cup Inside
<1>1. {Rules[i] : i \in DOMAIN Rules} = Rule
  BY RulesAre DEF Rule
<1> QED BY <1>1 DEF Label, Inside

\* The first n rules, in their order.
Prefix(c, n) == Len(c) = n /\ \A i \in 1..n : c[i] = Rules[i]

LEMMA PrefixIsRules ==
    ASSUME NEW c \in Seq(Rule), Prefix(c, 5) PROVE c = Rules
BY RulesAre, SeqEqual DEF Prefix

LEMMA PrefixGrows ==
    ASSUME NEW c \in Seq(Rule), NEW i \in 1..5, Prefix(c, i - 1)
    PROVE  Prefix(Append(c, Rules[i]), i)
<1>1. Rules[i] \in Rule
  BY RulesAre DEF Rule
<1>2. Len(Append(c, Rules[i])) = i
  BY <1>1, AppendProperties DEF Prefix
<1>3. ASSUME NEW j \in 1..i PROVE Append(c, Rules[i])[j] = Rules[j]
  <2>1. CASE j = i BY <2>1, <1>1, AppendProperties DEF Prefix
  <2>2. CASE j # i BY <2>2, <1>1, AppendProperties DEF Prefix
  <2> QED BY <2>1, <2>2
<1> QED BY <1>2, <1>3 DEF Prefix

\* No rule rejects before each that permits.
PermitsFirst(c) ==
    \A p \in 1..Len(c) : c[p] = "reject" =>
        \A m \in Permit : \E q \in 1..p : c[q] = m

LEMMA PrefixPermits ==
    ASSUME NEW c \in Seq(Rule), NEW n \in 0..5, Prefix(c, n) PROVE PermitsFirst(c)
<1> SUFFICES ASSUME NEW p \in 1..Len(c), c[p] = "reject", NEW m \in Permit
             PROVE  \E q \in 1..p : c[q] = m
  BY DEF PermitsFirst
<1>1. p \in 1..5 /\ p <= n
  BY DEF Prefix
<1>2. p = 5
  BY <1>1, RulesAre DEF Prefix
<1>3. c[1] = "established" /\ c[2] = "lo" /\ c[3] = "dns" /\ c[4] = "set"
  BY <1>1, <1>2, RulesAre DEF Prefix
<1>4. PICK q \in 1..4 : c[q] = m
  BY <1>3 DEF Permit
<1> QED BY <1>2, <1>4

\* The first n rules are in the chain, whatever else is.
Contains(c, n) == \A j \in 1..n : \E q \in 1..Len(c) : c[q] = Rules[j]

LEMMA AppendPermits ==
    ASSUME NEW c \in Seq(Rule), NEW i \in 1..5, PermitsFirst(c), Contains(c, i - 1)
    PROVE  PermitsFirst(Append(c, Rules[i])) /\ Contains(Append(c, Rules[i]), i)
<1> DEFINE d == Append(c, Rules[i])
<1>1. /\ Len(c) \in Nat /\ Len(d) = Len(c) + 1 /\ d[Len(c) + 1] = Rules[i]
      /\ \A q \in 1..Len(c) : d[q] = c[q]
  BY AppendProperties, LenProperties, RulesAre DEF Rule
<1>2. Contains(d, i)
  <2> SUFFICES ASSUME NEW j \in 1..i PROVE \E q \in 1..Len(d) : d[q] = Rules[j]
    BY DEF Contains
  <2>1. CASE j = i
    <3>1. Len(c) + 1 \in 1..Len(d)
      BY <1>1
    <3> QED BY <2>1, <1>1, <3>1
  <2>2. CASE j # i
    <3>0. j \in 1..(i - 1)
      BY <2>2
    <3>1. PICK q \in 1..Len(c) : c[q] = Rules[j]
      BY <3>0 DEF Contains
    <3>2. q \in 1..Len(d) /\ d[q] = Rules[j]
      BY <3>1, <1>1
    <3> QED BY <3>2
  <2> QED BY <2>1, <2>2
<1>3. PermitsFirst(d)
  <2> SUFFICES ASSUME NEW p \in 1..Len(d), d[p] = "reject", NEW m \in Permit
               PROVE  \E q \in 1..p : d[q] = m
    BY DEF PermitsFirst
  <2>1. CASE p <= Len(c)
    <3>1. p \in 1..Len(c) /\ c[p] = "reject"
      BY <2>1, <1>1
    <3>2. PICK q \in 1..p : c[q] = m
      BY <3>1 DEF PermitsFirst
    <3>3. q \in 1..Len(c)
      BY <3>1, <1>1
    <3> QED BY <3>2, <3>3, <1>1
  <2>2. CASE ~(p <= Len(c))
    <3>1. p = Len(c) + 1 /\ Rules[i] = "reject"
      BY <2>2, <1>1
    <3>2. i = 5
      BY <3>1, RulesAre
    <3>3. PICK j \in 1..4 : Rules[j] = m
      BY RulesAre DEF Permit
    <3>4. PICK q \in 1..Len(c) : c[q] = Rules[j]
      BY <3>2 DEF Contains
    <3>5. q \in 1..p /\ d[q] = m
      BY <3>1, <3>3, <3>4, <1>1
    <3> QED BY <3>5
  <2> QED BY <2>1, <2>2
<1> QED BY <1>2, <1>3

LEMMA TwicePermits ==
    ASSUME NEW c \in Seq(Rule), Len(c) = 10,
           \A i \in 1..10 : c[i] = IF i <= 5 THEN Rules[i] ELSE Rules[i - 5]
    PROVE  PermitsFirst(c)
<1> SUFFICES ASSUME NEW p \in 1..10, c[p] = "reject", NEW m \in Permit
             PROVE  \E q \in 1..p : c[q] = m
  BY DEF PermitsFirst
<1>1. c[1] = "established" /\ c[2] = "lo" /\ c[3] = "dns" /\ c[4] = "set"
  BY RulesAre
<1>2. p \notin 1..4
  BY <1>1
<1>3. PICK q \in 1..4 : c[q] = m
  BY <1>1 DEF Permit
<1> QED BY <1>2, <1>3

LEMMA RulesPermit == PermitsFirst(Rules) /\ PermitsFirst(Rules \o Rules) /\ PermitsFirst(<<>>)
<1>1. PermitsFirst(Rules)
  BY RulesAre, PrefixPermits DEF Prefix
<1>2. PermitsFirst(<<>>)
  BY EmptySeq DEF PermitsFirst
<1>3. /\ Rules \o Rules \in Seq(Rule)
      /\ Len(Rules \o Rules) = Len(Rules) + Len(Rules)
      /\ \A i \in 1..Len(Rules) + Len(Rules) :
            (Rules \o Rules)[i] = IF i <= Len(Rules) THEN Rules[i] ELSE Rules[i - Len(Rules)]
  <2>1. Rules \in Seq(Rule)
    BY RulesAre
  <2> QED BY ONLY <2>1, ConcatProperties, Zenon
<1>4. /\ Len(Rules \o Rules) = 10
      /\ \A i \in 1..10 : (Rules \o Rules)[i] = IF i <= 5 THEN Rules[i] ELSE Rules[i - 5]
  <2>1. Len(Rules) = 5 /\ 5 + 5 = 10
    BY RulesAre
  <2> QED BY ONLY <1>3, <2>1, Zenon
<1>5. PermitsFirst(Rules \o Rules)
  BY <1>3, <1>4, TwicePermits
<1> QED BY <1>1, <1>2, <1>5

-----------------------------------------------------------------------------
(* Types, and the flock. *)

Types ==
    /\ enabled \in BOOLEAN /\ owner \in Uid
    /\ hooks \in [Family -> [Uid -> Nat]]
    /\ chain \in [Family -> Seq(Rule)]
    /\ exists \in [Family -> BOOLEAN]
    /\ skipped \in [Family -> BOOLEAN]
    /\ failed \in [Family -> SUBSET {"chain", "hook"}]
    /\ lock \in Run \cup {Nobody}
    /\ pc \in [Run -> {"idle", "flock"} \cup Inside]
    /\ family \in [Run -> Family]
    /\ mode \in [Run -> BOOLEAN] /\ uid \in [Run -> Uid]
    /\ edits \in 0..MaxEdit /\ mishaps \in 0..MaxMishap
    /\ settled \in BOOLEAN

\* A run that has got past flock holds the lock, and no other does.
LockHeld == \A r \in Run : pc[r] \in Inside <=> lock = r

LEMMA TypesInit == Init => Types /\ LockHeld
<1> SUFFICES ASSUME Init PROVE Types /\ LockHeld
  OBVIOUS
<1>1. hooks \in [Family -> [Uid -> Nat]]
  BY DEF Init
<1>2. chain \in [Family -> Seq(Rule)]
  <2>1. /\ <<>> \in Seq(Rule) /\ Rules \in Seq(Rule) /\ Rules \o Rules \in Seq(Rule)
    BY RulesAre, EmptySeq, ConcatProperties
  <2> QED BY <2>1 DEF Init
<1>3. "v4" \in Family
  BY DEF Family
<1>4. LockHeld
  BY DEF Init, LockHeld, Inside, Rule
<1>8. exists \in [Family -> BOOLEAN]
  <2>1. \A f \in Family : (chain[f] # <<>> \/ \E u \in Uid : hooks[f][u] > 0) \in BOOLEAN
    OBVIOUS
  <2> QED BY <2>1, Zenon DEF Init
<1>9. failed \in [Family -> SUBSET {"chain", "hook"}]
  BY DEF Init
<1>5. /\ mode \in [Run -> BOOLEAN] /\ skipped \in [Family -> BOOLEAN]
      /\ settled \in BOOLEAN /\ enabled \in BOOLEAN
  BY DEF Init
<1>6. /\ lock \in Run \cup {Nobody} /\ pc \in [Run -> {"idle", "flock"} \cup Inside]
      /\ family \in [Run -> Family] /\ uid \in [Run -> Uid] /\ owner \in Uid
  BY <1>3 DEF Init
<1>7. edits \in 0..MaxEdit /\ mishaps \in 0..MaxMishap
  BY DEF Init
<1> QED BY <1>1, <1>2, <1>4, <1>5, <1>6, <1>7, <1>8, <1>9 DEF Types

\* What the next label of an append is.
LEMMA AfterRuleIs ==
    ASSUME NEW i \in 1..5
    PROVE  /\ Rules[i] \in Rule
           /\ i < 5 => AfterRule(i) = Rules[i + 1]
           /\ i = 5 => AfterRule(i) = "unhook"
           /\ AfterRule(i) \in Inside \ {"conf", "new", "insert", "flush", "unlock"}
BY RulesAre DEF AfterRule, Inside, Rule

LEMMA FailedIs ==
    ASSUME Types, NEW r \in Run, NEW what \in {"chain", "hook"}, Failed(r, what)
    PROVE  /\ failed' \in [Family -> SUBSET {"chain", "hook"}]
           /\ what \in failed'[family[r]]
           /\ \A f \in Family : failed[f] \subseteq failed'[f]
           /\ \A f \in Family \ {family[r]} : failed'[f] = failed[f]
<1>1. family[r] \in Family /\ failed[family[r]] \cup {what} \in SUBSET {"chain", "hook"}
  BY DEF Types
<1> QED BY <1>1 DEF Types, Failed

\* An accident is counted; a call that had to fail is not.
LEMMA Counts ==
    ASSUME Types, Mishap \/ \E r \in Run : Excuse(r)
    PROVE  /\ mishaps' \in 0..MaxMishap /\ mishaps' >= mishaps /\ settled' \in BOOLEAN
           /\ edits' = edits
<1>1. mishaps \in 0..MaxMishap /\ settled \in BOOLEAN
  BY DEF Types
<1>2. CASE Mishap
  <2>1. mishaps < MaxMishap /\ mishaps' = mishaps + 1 /\ edits' = edits
    BY <1>2 DEF Mishap, Accident
  <2>2. settled' \in BOOLEAN
    BY <1>2 DEF Mishap
  <2>3. mishaps' \in 0..MaxMishap /\ mishaps' >= mishaps
    BY <1>1, <2>1
  <2> QED BY <2>1, <2>2, <2>3
<1>3. CASE ~Mishap
  BY <1>1, <1>3 DEF Excuse, bound
<1> QED BY <1>2, <1>3

LEMMA TypesStep == Types /\ [Next]_vars => Types'
<1> SUFFICES ASSUME Types, [Next]_vars PROVE Types'
  OBVIOUS
<1> USE DEF Goto, conf, rules, read, bound
<1>1. ASSUME NEW r \in Run, Begin(r) PROVE Types'
  BY <1>1 DEF Begin, Types
<1>2. ASSUME NEW r \in Run, Lock(r) PROVE Types'
  BY <1>2 DEF Lock, Inside, Types
<1>3. ASSUME NEW r \in Run, LockTimesOut(r) PROVE Types'
  BY <1>3 DEF LockTimesOut, Types
<1>4. ASSUME NEW r \in Run, ReadConf(r) PROVE Types'
  BY <1>4 DEF ReadConf, AfterConf, Inside, Family, Types
<1>5. ASSUME NEW r \in Run, NewChain(r) PROVE Types'
  BY <1>5, RulesAre, EmptySeq DEF NewChain, Inside, Rule, Types
<1>6. ASSUME NEW r \in Run, AppendRule(r) PROVE Types'
  <2>1. PICK i \in 1..5 :
            /\ Goto(r, Rules[i], AfterRule(i))
            /\ chain' = [chain EXCEPT ![family[r]] = Append(@, Rules[i])]
    BY <1>6, RulesAre DEF AppendRule
  <2>2. Append(chain[family[r]], Rules[i]) \in Seq(Rule)
    BY AfterRuleIs, AppendProperties DEF Types
  <2>3. chain' \in [Family -> Seq(Rule)]
    BY <2>1, <2>2 DEF Types
  <2>4. pc' \in [Run -> {"idle", "flock"} \cup Inside]
    BY <2>1, AfterRuleIs DEF Types
  <2> QED BY <1>6, <2>3, <2>4 DEF AppendRule, Types
<1>7. ASSUME NEW r \in Run, AppendRuleFails(r) PROVE Types'
  <2>1. PICK i \in 1..5 : Goto(r, Rules[i], AfterRule(i))
    BY <1>7, RulesAre DEF AppendRuleFails
  <2>2. pc' \in [Run -> {"idle", "flock"} \cup Inside]
    BY <2>1, AfterRuleIs DEF Types
  <2>3. failed' \in [Family -> SUBSET {"chain", "hook"}]
    BY <1>7, FailedIs DEF AppendRuleFails
  <2>4. mishaps' \in 0..MaxMishap /\ settled' \in BOOLEAN /\ edits' = edits
    BY <1>7, Counts DEF AppendRuleFails
  <2> QED BY <1>7, <2>2, <2>3, <2>4 DEF AppendRuleFails, Types
<1>8. ASSUME NEW r \in Run, Unhook(r) PROVE Types'
  <2>1. pc' \in [Run -> {"idle", "flock"} \cup Inside]
    BY <1>8 DEF Unhook, Inside, Types
  <2>2. hooks' \in [Family -> [Uid -> Nat]]
    <3>1. CASE hooks[family[r]][uid[r]] > 0
      <4>1. hooks[family[r]][uid[r]] - 1 \in Nat
        BY <3>1 DEF Types
      <4>2. [hooks[family[r]] EXCEPT ![uid[r]] = @ - 1] \in [Uid -> Nat]
        BY <4>1 DEF Types
      <4> QED BY <1>8, <3>1, <4>2 DEF Unhook, Types
    <3>2. CASE ~(hooks[family[r]][uid[r]] > 0) BY <1>8, <3>2 DEF Unhook, Types
    <3> QED BY <3>1, <3>2
  <2> QED BY <1>8, <2>1, <2>2 DEF Unhook, Types
<1>9. ASSUME NEW r \in Run, Insert(r) PROVE Types'
  BY <1>9 DEF Insert, NextFamily, Inside, Family, Types
<1>10. ASSUME NEW r \in Run, Flush(r) PROVE Types'
  <2>1. exists' \in [Family -> BOOLEAN]
    <3>1. (\E u \in Uid : hooks[family[r]][u] > 0) \in BOOLEAN
      OBVIOUS
    <3> QED BY <3>1, <1>10, Zenon DEF Flush, Types
  <2>2. chain' \in [Family -> Seq(Rule)]
    BY <1>10, EmptySeq DEF Flush, Empties, Types
  <2> QED BY <1>10, <2>1, <2>2 DEF Flush, NextFamily, Inside, Family, Types
<1>11. ASSUME NEW r \in Run, Unlock(r) PROVE Types'
  <2>1. settled' \in BOOLEAN
    BY <1>11 DEF Unlock
  <2> QED BY <1>11, <2>1 DEF Unlock, Types
<1>12. ASSUME NEW r \in Run, Killed(r) PROVE Types'
  <2>1. mishaps' \in 0..MaxMishap /\ settled' \in BOOLEAN /\ edits' = edits
    BY <1>12, Counts DEF Killed
  <2> QED BY <1>12, <2>1 DEF Killed, Types
<1>13. CASE EditConf
  <2>1. edits' \in 0..MaxEdit
    BY <1>13 DEF EditConf, Types
  <2> QED BY <1>13, <2>1 DEF EditConf, Types
<1>14. CASE Reboot
  <2>1. mishaps' \in 0..MaxMishap /\ settled' \in BOOLEAN /\ edits' = edits
    BY <1>14, Counts DEF Reboot
  <2>2. chain' \in [Family -> Seq(Rule)]
    BY <1>14, EmptySeq DEF Reboot
  <2> QED BY <1>14, <2>1, <2>2 DEF Reboot, Types
<1>15. CASE UNCHANGED vars
  BY <1>15 DEF vars, Types
<1>16. ASSUME NEW r \in Run, ConfMissing(r) \/ IpsetMissing(r) PROVE Types'
  <2>1. Leaves(r)
    BY <1>16 DEF ConfMissing, IpsetMissing
  <2>2. mishaps' \in 0..MaxMishap
    BY <2>1 DEF Leaves, Accident, Types
  <2> QED BY <2>1, <2>2 DEF Leaves, Accident, Types
<1>17. ASSUME NEW r \in Run, NewChainFails(r) \/ UnhookFails(r) \/ InsertFails(r) PROVE Types'
  <2>1. failed' \in [Family -> SUBSET {"chain", "hook"}]
    BY <1>17, FailedIs DEF NewChainFails, UnhookFails, InsertFails
  <2>2. mishaps' \in 0..MaxMishap /\ settled' \in BOOLEAN /\ edits' = edits
    BY <1>17, Counts DEF NewChainFails, UnhookFails, InsertFails
  <2>3. pc' \in [Run -> {"idle", "flock"} \cup Inside] /\ family' \in [Run -> Family]
    <3>1. CASE NewChainFails(r)
      BY <3>1, RulesAre DEF NewChainFails, Inside, Rule, Types
    <3>2. CASE UnhookFails(r)
      BY <3>2 DEF UnhookFails, Inside, Types
    <3>3. CASE InsertFails(r)
      BY <3>3 DEF InsertFails, NextFamily, Inside, Family, Types
    <3> QED BY <1>17, <3>1, <3>2, <3>3
  <2>4. UNCHANGED <<conf, hooks, chain, exists, skipped, lock, read>>
    BY <1>17 DEF NewChainFails, UnhookFails, InsertFails
  <2> QED BY <2>1, <2>2, <2>3, <2>4 DEF Types
<1>18. ASSUME NEW r \in Run, FlushFails(r) PROVE Types'
  <2>1. failed' \in [Family -> SUBSET {"chain", "hook"}] /\ chain' \in [Family -> Seq(Rule)]
    <3>1. CASE Failed(r, "chain") /\ UNCHANGED chain
      BY <3>1, FailedIs DEF Types
    <3>2. CASE Empties(r) /\ UNCHANGED failed
      BY <3>2, EmptySeq DEF Empties, Types
    <3> QED BY <1>18, <3>1, <3>2 DEF FlushFails
  <2>2. mishaps' \in 0..MaxMishap /\ settled' \in BOOLEAN /\ edits' = edits
    BY <1>18, Counts DEF FlushFails
  <2> QED BY <1>18, <2>1, <2>2 DEF FlushFails, NextFamily, Inside, Family, Types
<1> QED
  BY <1>1, <1>2, <1>3, <1>4, <1>5, <1>6, <1>7, <1>8, <1>9, <1>10, <1>11, <1>12, <1>13,
     <1>14, <1>15, <1>16, <1>17, <1>18
  DEF Next, Step

LEMMA LockStep == Types /\ LockHeld /\ [Next]_vars => LockHeld'
<1> SUFFICES ASSUME Types, LockHeld, [Next]_vars PROVE LockHeld'
  OBVIOUS
<1> USE DEF Types, LockHeld, Goto
<1>1. ASSUME NEW r \in Run, Begin(r) PROVE LockHeld'
  BY <1>1 DEF Begin, Inside, Rule
<1>2. ASSUME NEW r \in Run, Lock(r) PROVE LockHeld'
  BY <1>2 DEF Lock, Inside, Rule
<1>3. ASSUME NEW r \in Run, LockTimesOut(r) PROVE LockHeld'
  BY <1>3 DEF LockTimesOut, Inside, Rule
<1>4. ASSUME NEW r \in Run, NEW from \in Inside, NEW to \in Inside, Goto(r, from, to),
             lock' = lock
      PROVE  LockHeld'
  BY <1>4
<1>5. ASSUME NEW r \in Run, ReadConf(r) PROVE LockHeld'
  BY <1>5, <1>4 DEF ReadConf, AfterConf, Inside
<1>6. ASSUME NEW r \in Run, NewChain(r) \/ NewChainFails(r) PROVE LockHeld'
  BY <1>6, <1>4, RulesAre DEF NewChain, NewChainFails, Inside, Rule
<1>7. ASSUME NEW r \in Run, AppendRule(r) \/ AppendRuleFails(r) PROVE LockHeld'
  <2>1. PICK i \in 1..5 : Goto(r, Rules[i], AfterRule(i))
    BY <1>7, RulesAre DEF AppendRule, AppendRuleFails
  <2>2. Rules[i] \in Inside /\ AfterRule(i) \in Inside /\ lock' = lock
    BY <1>7, AfterRuleIs DEF AppendRule, AppendRuleFails, Inside
  <2> QED BY <2>1, <2>2, <1>4
<1>8. ASSUME NEW r \in Run, Unhook(r) \/ UnhookFails(r) PROVE LockHeld'
  BY <1>8, <1>4 DEF Unhook, UnhookFails, Inside
<1>9. ASSUME NEW r \in Run, Insert(r) \/ InsertFails(r) \/ Flush(r) \/ FlushFails(r)
      PROVE  LockHeld'
  BY <1>9, <1>4 DEF Insert, InsertFails, Flush, FlushFails, NextFamily, Inside
<1>15. ASSUME NEW r \in Run, ConfMissing(r) \/ IpsetMissing(r) PROVE LockHeld'
  BY <1>15 DEF ConfMissing, IpsetMissing, Leaves, Inside, Rule
<1>10. ASSUME NEW r \in Run, Unlock(r) PROVE LockHeld'
  BY <1>10 DEF Unlock, Inside, Rule
<1>11. ASSUME NEW r \in Run, Killed(r) PROVE LockHeld'
  BY <1>11 DEF Killed, Inside, Rule
<1>12. CASE EditConf
  BY <1>12 DEF EditConf
<1>13. CASE Reboot
  BY <1>13 DEF Reboot, Inside, Rule
<1>14. CASE UNCHANGED vars
  BY <1>14 DEF vars
<1> QED
  BY <1>1, <1>2, <1>3, <1>5, <1>6, <1>7, <1>8, <1>9, <1>10, <1>11, <1>12, <1>13, <1>14,
     <1>15
  DEF Next, Step

-----------------------------------------------------------------------------
(* What a run has done to the tables. *)

\* What the run that finished with a family leaves there.
Done(r, f) ==
    /\ "hook" \in failed[f] \/ hooks[f][uid[r]] = IF mode[r] THEN 1 ELSE 0
    /\ "chain" \in failed[f] \/ IF mode[r] THEN Prefix(chain[f], 5) ELSE chain[f] = <<>>

\* Before it appends a rule the chain is those before it, unless a call failed;
\* if it could not be emptied, the rules before it are in it, unless one was not
\* appended.
Building(r) ==
    \A i \in 1..5 : pc[r] = Rules[i] =>
        /\ mode[r]
        /\ Len(chain[family[r]]) <= 4 + i + 5 * mishaps
        /\ "chain" \in failed[family[r]] \/ Prefix(chain[family[r]], i - 1)
        /\ ~skipped[family[r]] => Contains(chain[family[r]], i - 1)

MostHooks == IF MaxHook = 0 THEN 1 ELSE MaxHook

Progress(r) ==
    /\ pc[r] \in {"new", "insert"} => mode[r]
    /\ pc[r] \in {"unhook", "insert"} /\ mode[r] =>
          "chain" \in failed[family[r]] \/ Prefix(chain[family[r]], 5)
    /\ pc[r] \in {"insert", "flush"} =>
          "hook" \in failed[family[r]] \/ hooks[family[r]][uid[r]] = 0
    /\ pc[r] = "insert" => hooks[family[r]][uid[r]] < MostHooks + mishaps
    /\ pc[r] = "flush" => ~mode[r]
    /\ pc[r] \in Inside \ {"conf"} /\ family[r] = "v6" => Done(r, "v4")
    /\ pc[r] = "unlock" => Done(r, "v4") /\ Done(r, "v6")

RunInv == \A r \in Run : Building(r) /\ Progress(r)

\* The tables, whoever built them.
Tables ==
    /\ \A f \in Family, u \in Uid : hooks[f][u] <= MostHooks + mishaps
    /\ \A f \in Family : /\ Len(chain[f]) <= 10 + 5 * mishaps
                         /\ ~skipped[f] => PermitsFirst(chain[f])

LEMMA MostHooksIs == MostHooks \in Nat /\ 1 <= MostHooks
BY DEF MostHooks

LEMMA RulesDiffer ==
    /\ \A i \in 1..5 : Rules[i] \in Rule
    /\ \A i, j \in 1..5 : Rules[i] = Rules[j] => i = j
    /\ \A i \in 1..5 : Rules[i] = "established" => i = 1
BY RulesAre DEF Rule

LEMMA NextRule ==
    ASSUME NEW i \in 1..5, NEW j \in 1..5, AfterRule(i) = Rules[j]
    PROVE  i < 5 /\ j = i + 1 /\ i = j - 1
BY RulesAre DEF AfterRule

\* A run outside the lock, or with the configuration to read, has done nothing.
LEMMA NothingDone ==
    ASSUME NEW r \in Run, pc'[r] \notin Inside \/ pc'[r] = "conf"
    PROVE  Building(r)' /\ Progress(r)'
<1>1. \A i \in 1..5 : pc'[r] # Rules[i]
  BY RulesDiffer DEF Inside, Rule
<1>2. Building(r)'
  BY <1>1 DEF Building
<1>3. pc'[r] \notin {"new", "insert", "unhook", "flush", "unlock"} /\ pc'[r] \notin Inside \ {"conf"}
  BY DEF Inside, Rule
<1>4. Progress(r)'
  BY <1>3 DEF Progress
<1> QED BY <1>2, <1>4

\* What is left alone stays.
LEMMA NothingNew ==
    ASSUME Types, NEW r \in Run, Building(r), Progress(r),
           pc'[r] = pc[r], family'[r] = family[r], mode' = mode, uid' = uid,
           hooks' = hooks, chain' = chain, skipped' = skipped, failed' = failed,
           mishaps' \in Nat, mishaps' >= mishaps
    PROVE  Building(r)' /\ Progress(r)'
<1>1. /\ family[r] \in Family /\ hooks[family[r]][uid[r]] \in Nat
      /\ Len(chain[family[r]]) \in Nat /\ mishaps \in Nat
  BY LenProperties DEF Types
<1>2. Building(r)'
  <2> SUFFICES ASSUME NEW i \in 1..5, pc'[r] = Rules[i]
               PROVE  /\ mode'[r] /\ Len(chain'[family'[r]]) <= 4 + i + 5 * mishaps'
                      /\ \/ "chain" \in failed'[family'[r]]
                         \/ Prefix(chain'[family'[r]], i - 1)
                      /\ ~skipped'[family'[r]] => Contains(chain'[family'[r]], i - 1)
    BY DEF Building
  <2>1. /\ mode[r] /\ Len(chain[family[r]]) <= 4 + i + 5 * mishaps
        /\ "chain" \in failed[family[r]] \/ Prefix(chain[family[r]], i - 1)
        /\ ~skipped[family[r]] => Contains(chain[family[r]], i - 1)
    BY DEF Building
  <2>2. Len(chain[family[r]]) <= 4 + i + 5 * mishaps'
    BY <1>1, <2>1
  <2> QED BY <2>1, <2>2
<1>3. Done(r, "v4")' = Done(r, "v4") /\ Done(r, "v6")' = Done(r, "v6")
  BY DEF Done, Prefix
<1>4. Progress(r)'
  BY <1>1, <1>3, MostHooksIs DEF Progress, Prefix
<1> QED BY <1>2, <1>4

LEMMA RunInit == Init => RunInv
<1> SUFFICES ASSUME Init, NEW r \in Run PROVE Building(r) /\ Progress(r)
  BY DEF RunInv
<1>1. pc[r] = "idle" /\ \A i \in 1..5 : pc[r] # Rules[i]
  BY RulesDiffer DEF Init, Rule
<1> QED BY <1>1 DEF Building, Progress, Inside, Rule

LEMMA RunStep == Types /\ LockHeld /\ RunInv /\ Tables /\ [Next]_vars => RunInv'
<1> SUFFICES ASSUME Types, LockHeld, RunInv, Tables, [Next]_vars PROVE RunInv'
  OBVIOUS
<1> USE DEF RunInv, conf, rules, read, bound
<1>0. mishaps \in Nat
  BY DEF Types
\* A step of the run inside is about that run alone.
<1>1. ASSUME NEW r \in Run, NEW from \in Inside, NEW to, Goto(r, from, to),
             Building(r)' /\ Progress(r)'
      PROVE  RunInv'
  <2>1. ASSUME NEW s \in Run, s # r PROVE pc'[s] \notin Inside
    BY <1>1, <2>1 DEF LockHeld, Goto, Types
  <2> QED BY <1>1, <2>1, NothingDone
<1>2. ASSUME NEW r \in Run, Begin(r) \/ LockTimesOut(r) \/ Lock(r) PROVE RunInv'
  <2>1. pc'[r] \notin Inside \/ pc'[r] = "conf"
    BY <1>2 DEF Begin, LockTimesOut, Lock, Goto, Types, Inside, Rule
  <2>2. ASSUME NEW s \in Run, s # r PROVE Building(s)' /\ Progress(s)'
    <3>1. /\ pc'[s] = pc[s] /\ family' = family /\ mode' = mode /\ uid' = uid
          /\ hooks' = hooks /\ chain' = chain /\ skipped' = skipped /\ failed' = failed
          /\ mishaps' = mishaps
      BY <1>2, <2>2 DEF Begin, LockTimesOut, Lock, Goto, Types
    <3> QED BY <1>0, <3>1, NothingNew
  <2> QED BY <2>1, <2>2, NothingDone
<1>3. ASSUME NEW r \in Run, ReadConf(r) PROVE RunInv'
  <2>1. Goto(r, "conf", AfterConf) /\ mode'[r] = enabled /\ family'[r] = "v4"
    BY <1>3 DEF ReadConf, Types
  <2>2. pc'[r] = IF enabled THEN "new" ELSE "unhook"
    BY <2>1 DEF AfterConf, Goto, Types
  <2>3. Building(r)'
    BY <2>2, RulesDiffer DEF Building, Rule
  <2>4. Progress(r)'
    BY <2>1, <2>2 DEF Progress
  <2> QED BY <2>1, <2>3, <2>4, <1>1 DEF Inside
\* The chain of the family is emptied, or is not.
<1>4. ASSUME NEW r \in Run, Goto(r, "new", Rules[1]),
             family' = family, mode' = mode, uid' = uid, hooks' = hooks,
             Len(chain'[family[r]]) <= 5 + 5 * mishaps',
             "chain" \in failed'[family[r]] \/ chain'[family[r]] = <<>>,
             \A f \in Family \ {family[r]} : chain'[f] = chain[f] /\ failed'[f] = failed[f]
      PROVE  RunInv'
  <2>1. pc[r] = "new" /\ pc'[r] = "established"
    BY <1>4, RulesAre DEF Goto, Types
  <2>2. mode[r] /\ (family[r] = "v6" => Done(r, "v4"))
    BY <2>1 DEF Progress, Inside
  <2>3. Building(r)'
    <3> SUFFICES ASSUME NEW i \in 1..5, pc'[r] = Rules[i]
                 PROVE  /\ mode'[r] /\ Len(chain'[family'[r]]) <= 4 + i + 5 * mishaps'
                        /\ \/ "chain" \in failed'[family'[r]]
                           \/ Prefix(chain'[family'[r]], i - 1)
                        /\ Contains(chain'[family'[r]], i - 1)
      BY DEF Building
    <3>1. i = 1
      BY <2>1, RulesDiffer
    <3>2. Prefix(<<>>, 0) /\ Contains(chain'[family'[r]], 0)
      BY EmptySeq DEF Prefix, Contains
    <3> QED BY <1>4, <2>2, <3>1, <3>2
  <2>4. Progress(r)'
    <3>1. family[r] = "v6" => Done(r, "v4")'
      BY <1>4, <2>2 DEF Done, Types, Family, Prefix
    <3> QED BY <1>4, <2>1, <3>1 DEF Progress
  <2> QED BY <1>4, <2>3, <2>4, <1>1 DEF Inside
<1>16. ASSUME NEW r \in Run, NewChain(r) PROVE RunInv'
  <2>1. /\ Goto(r, "new", Rules[1]) /\ chain' = [chain EXCEPT ![family[r]] = <<>>]
        /\ UNCHANGED <<family, mode, uid, hooks, failed, mishaps>>
    BY <1>16 DEF NewChain
  <2>2. /\ chain'[family[r]] = <<>> /\ Len(<<>>) = 0
        /\ \A f \in Family \ {family[r]} : chain'[f] = chain[f]
    BY <2>1, EmptySeq DEF Types
  <2> QED BY <1>0, <1>4, <2>1, <2>2
<1>17. ASSUME NEW r \in Run, NewChainFails(r) PROVE RunInv'
  <2>1. /\ Goto(r, "new", Rules[1]) /\ Failed(r, "chain") /\ mishaps' = mishaps + 1
        /\ UNCHANGED <<family, mode, uid, hooks, chain>>
    BY <1>17 DEF NewChainFails, Mishap, Accident
  <2>2. /\ "chain" \in failed'[family[r]]
        /\ \A f \in Family \ {family[r]} : failed'[f] = failed[f]
    BY <2>1, FailedIs
  <2>3. Len(chain[family[r]]) <= 5 + 5 * mishaps'
    BY <1>0, <2>1, LenProperties DEF Tables, Types
  <2> QED BY <1>4, <2>1, <2>2, <2>3
<1>5. ASSUME NEW r \in Run, NEW i \in 1..5, Goto(r, Rules[i], AfterRule(i)),
             family' = family, mode' = mode, uid' = uid, hooks' = hooks,
             Len(chain'[family[r]]) <= 5 + i + 5 * mishaps',
             "chain" \in failed'[family[r]] \/ Prefix(chain'[family[r]], i),
             ~skipped'[family[r]] => Contains(chain'[family[r]], i),
             \A f \in Family \ {family[r]} : chain'[f] = chain[f] /\ failed'[f] = failed[f]
      PROVE  RunInv'
  <2>1. /\ pc[r] = Rules[i] /\ pc'[r] = AfterRule(i) /\ Rules[i] \in Inside
        /\ Rules[i] \in Rule
    BY <1>5, AfterRuleIs DEF Goto, Types, Inside
  <2>2. mode[r] /\ (family[r] = "v6" => Done(r, "v4"))
    BY <2>1 DEF Building, Progress, Inside, Rule
  <2>3. Building(r)'
    <3> SUFFICES ASSUME NEW j \in 1..5, pc'[r] = Rules[j]
                 PROVE  /\ mode'[r] /\ Len(chain'[family'[r]]) <= 4 + j + 5 * mishaps'
                        /\ \/ "chain" \in failed'[family'[r]]
                           \/ Prefix(chain'[family'[r]], j - 1)
                        /\ ~skipped'[family'[r]] => Contains(chain'[family'[r]], j - 1)
      BY DEF Building
    <3>1. j = i + 1 /\ i = j - 1
      BY <2>1, NextRule
    <3> QED BY <1>5, <2>2, <3>1
  <2>4. family[r] = "v6" => Done(r, "v4")'
    BY <1>5, <2>2 DEF Done, Types, Prefix, Family
  <2>5. CASE i < 5
    <3>1. pc'[r] \in Rule
      BY <2>1, <2>5, AfterRuleIs, RulesDiffer
    <3>2. Progress(r)'
      BY <1>5, <2>4, <3>1 DEF Progress, Rule
    <3> QED BY <1>5, <2>1, <2>3, <3>2, <1>1
  <2>6. CASE i = 5
    <3>1. pc'[r] = "unhook"
      BY <2>1, <2>6, AfterRuleIs
    <3>2. Progress(r)'
      BY <1>5, <2>4, <2>6, <3>1 DEF Progress
    <3> QED BY <1>5, <2>1, <2>3, <3>2, <1>1
  <2> QED BY <2>5, <2>6
<1>6. ASSUME NEW r \in Run, AppendRule(r) PROVE RunInv'
  <2>1. PICK i \in 1..5 :
            /\ Goto(r, Rules[i], AfterRule(i))
            /\ chain' = [chain EXCEPT ![family[r]] = Append(@, Rules[i])]
    BY <1>6, RulesAre DEF AppendRule
  <2>2. UNCHANGED <<family, mode, uid, hooks, skipped, failed, mishaps>>
    BY <1>6 DEF AppendRule
  <2>3. /\ chain'[family[r]] = Append(chain[family[r]], Rules[i])
        /\ chain[family[r]] \in Seq(Rule) /\ pc[r] = Rules[i]
        /\ \A f \in Family \ {family[r]} : chain'[f] = chain[f]
    BY <2>1 DEF Types, Goto
  <2>4. /\ Len(chain[family[r]]) <= 4 + i + 5 * mishaps
        /\ "chain" \in failed[family[r]] \/ Prefix(chain[family[r]], i - 1)
        /\ ~skipped[family[r]] => Contains(chain[family[r]], i - 1)
    BY <2>3 DEF Building
  <2>5. Len(chain'[family[r]]) <= 5 + i + 5 * mishaps'
    <3>1. /\ Len(chain'[family[r]]) = Len(chain[family[r]]) + 1
          /\ Len(chain[family[r]]) \in Nat
      BY <2>3, RulesDiffer, AppendProperties, LenProperties
    <3> QED BY <1>0, <2>2, <2>4, <3>1
  <2>6. "chain" \in failed'[family[r]] \/ Prefix(chain'[family[r]], i)
    BY <2>2, <2>3, <2>4, PrefixGrows
  <2>7. ~skipped'[family[r]] => Contains(chain'[family[r]], i)
    <3>1. ~skipped[family[r]] => PermitsFirst(chain[family[r]])
      BY DEF Tables, Types
    <3> QED BY <2>2, <2>3, <2>4, <3>1, AppendPermits
  <2> QED BY <2>1, <2>2, <2>3, <2>5, <2>6, <2>7, <1>5
<1>7. ASSUME NEW r \in Run, AppendRuleFails(r) PROVE RunInv'
  <2>1. PICK i \in 1..5 : Goto(r, Rules[i], AfterRule(i))
    BY <1>7, RulesAre DEF AppendRuleFails
  <2>2. /\ UNCHANGED <<family, mode, uid, hooks, chain>> /\ Failed(r, "chain")
        /\ skipped' = [skipped EXCEPT ![family[r]] = TRUE] /\ Excuse(r)
    BY <1>7 DEF AppendRuleFails
  <2>3. /\ Len(chain[family[r]]) <= 4 + i + 5 * mishaps /\ Len(chain[family[r]]) \in Nat
        /\ mishaps' \in Nat /\ mishaps' >= mishaps
    <3>1. mishaps' \in 0..MaxMishap /\ mishaps' >= mishaps
      BY <2>2, Counts
    <3> QED BY <2>1, <3>1, LenProperties DEF Building, Goto, Types
  <2>4. /\ Len(chain'[family[r]]) <= 5 + i + 5 * mishaps' /\ skipped'[family[r]]
        /\ "chain" \in failed'[family[r]]
        /\ \A f \in Family \ {family[r]} : failed'[f] = failed[f]
    BY <1>0, <2>2, <2>3, FailedIs DEF Types
  <2> QED BY <2>1, <2>2, <2>4, <1>5
\* The hook is gone, or could not be deleted.
<1>8. ASSUME NEW r \in Run, Goto(r, "unhook", IF mode[r] THEN "insert" ELSE "flush"),
             family' = family, mode' = mode, uid' = uid, chain' = chain,
             hooks' = hooks, failed[family[r]] \subseteq failed'[family[r]],
             \A f \in Family \ {family[r]} : failed'[f] = failed[f],
             "hook" \in failed'[family[r]] \/ hooks[family[r]][uid[r]] = 0,
             hooks[family[r]][uid[r]] < MostHooks + mishaps'
      PROVE  RunInv'
  <2>1. pc[r] = "unhook" /\ pc'[r] = IF mode[r] THEN "insert" ELSE "flush"
    BY <1>8 DEF Goto, Types
  <2>2. family[r] = "v6" => Done(r, "v4")'
    BY <1>8, <2>1 DEF Done, Progress, Inside, Family, Prefix
  <2>3. mode[r] => "chain" \in failed'[family[r]] \/ Prefix(chain[family[r]], 5)
    BY <1>8, <2>1 DEF Progress
  <2>4. Building(r)'
    BY <2>1, RulesDiffer DEF Building, Rule
  <2>5. Progress(r)'
    BY <1>8, <2>1, <2>2, <2>3 DEF Progress, Prefix
  <2> QED BY <1>8, <2>4, <2>5, <1>1 DEF Inside
<1>18. ASSUME NEW r \in Run, Unhook(r) PROVE RunInv'
  <2>1. UNCHANGED <<family, mode, uid, chain, failed, mishaps>>
    BY <1>18 DEF Unhook
  <2>2. CASE hooks[family[r]][uid[r]] > 0
    <3>1. /\ Goto(r, "unhook", "unhook") /\ pc[r] = "unhook" /\ pc'[r] = "unhook"
          /\ \A f \in Family \ {family[r]} : hooks'[f] = hooks[f]
      BY <1>18, <2>2 DEF Unhook, Goto, Types
    <3>2. family[r] = "v6" => Done(r, "v4")'
      BY <2>1, <3>1 DEF Done, Progress, Inside, Family, Prefix
    <3>3. mode[r] => "chain" \in failed[family[r]] \/ Prefix(chain[family[r]], 5)
      BY <3>1 DEF Progress
    <3>4. Building(r)'
      BY <3>1, RulesDiffer DEF Building, Rule
    <3>5. Progress(r)'
      BY <2>1, <3>1, <3>2, <3>3 DEF Progress, Prefix
    <3> QED BY <3>1, <3>4, <3>5, <1>1 DEF Inside
  <2>3. CASE ~(hooks[family[r]][uid[r]] > 0)
    <3>1. /\ Goto(r, "unhook", IF mode[r] THEN "insert" ELSE "flush")
          /\ hooks' = hooks /\ hooks[family[r]][uid[r]] = 0
      BY <1>18, <2>3 DEF Unhook, Types
    <3> QED BY <1>0, <2>1, <3>1, <1>8, MostHooksIs
  <2> QED BY <2>2, <2>3
<1>19. ASSUME NEW r \in Run, UnhookFails(r) PROVE RunInv'
  <2>1. /\ Goto(r, "unhook", IF mode[r] THEN "insert" ELSE "flush")
        /\ UNCHANGED <<family, mode, uid, chain, hooks>>
        /\ Failed(r, "hook") /\ mishaps' = mishaps + 1
    BY <1>19 DEF UnhookFails, Mishap, Accident
  <2>2. hooks[family[r]][uid[r]] < MostHooks + mishaps'
    <3>1. /\ family[r] \in Family /\ uid[r] \in Uid /\ hooks[family[r]][uid[r]] \in Nat
      BY DEF Types
    <3> QED BY <1>0, <2>1, <3>1, MostHooksIs DEF Tables
  <2>3. "hook" \in {"chain", "hook"}
    OBVIOUS
  <2> QED BY <2>1, <2>2, <2>3, <1>8, FailedIs DEF Types
<1>9. ASSUME NEW r \in Run, NEW from \in {"insert", "flush"}, NEW first \in {"new", "unhook"},
             NextFamily(r, from, first), mode' = mode, uid' = uid,
             first = "new" <=> mode[r],
             NEW fam \in Family, family[r] = fam, Done(r, fam)',
             \A f \in Family \ {family[r]} :
                hooks'[f] = hooks[f] /\ chain'[f] = chain[f] /\ failed'[f] = failed[f]
      PROVE  RunInv'
  <2>1. /\ pc[r] = from /\ pc'[r] = (IF family[r] = "v4" THEN first ELSE "unlock")
        /\ family'[r] = "v6" /\ Goto(r, from, IF family[r] = "v4" THEN first ELSE "unlock")
    BY <1>9 DEF NextFamily, Goto, Types
  <2>2. Done(r, "v4")'
    <3>1. CASE fam = "v4" BY <1>9, <3>1
    <3>2. CASE fam = "v6"
      <4>1. Done(r, "v4")
        BY <1>9, <2>1, <3>2 DEF Progress, Inside
      <4> QED BY <1>9, <3>2, <4>1 DEF Done, Family, Prefix
    <3> QED BY <3>1, <3>2 DEF Types, Family
  <2>3. pc'[r] = "unlock" => Done(r, "v6")'
    BY <1>9, <2>1 DEF Types, Family
  <2>4. Building(r)'
    BY <1>9, <2>1, RulesDiffer DEF Building, Rule
  <2>5. Progress(r)'
    BY <1>9, <2>1, <2>2, <2>3 DEF Progress
  <2> QED BY <2>1, <2>4, <2>5, <1>1 DEF Inside
<1>10. ASSUME NEW r \in Run, Insert(r) \/ InsertFails(r) PROVE RunInv'
  <2>1. NextFamily(r, "insert", "new") /\ UNCHANGED <<mode, uid, chain>>
    BY <1>10 DEF Insert, InsertFails
  <2>2. PICK fam \in Family : family[r] = fam
    BY DEF Types
  <2>3. /\ mode[r]
        /\ "hook" \in failed[fam] \/ hooks[fam][uid[r]] = 0
        /\ "chain" \in failed[fam] \/ Prefix(chain[fam], 5)
    BY <2>1, <2>2 DEF Progress, NextFamily, Goto
  <2>4. CASE Insert(r)
    <3>1. hooks' = [hooks EXCEPT ![fam][uid[r]] = @ + 1] /\ failed' = failed
      BY <2>2, <2>4 DEF Insert
    <3>2. hooks'[fam][uid[r]] = hooks[fam][uid[r]] + 1
      BY <2>2, <3>1 DEF Types
    <3>3. \A f \in Family \ {fam} : hooks'[f] = hooks[f]
      BY <3>1 DEF Types
    <3>4. Done(r, fam)'
      BY <2>1, <2>3, <3>1, <3>2 DEF Done, Prefix
    <3> QED BY <2>1, <2>2, <2>3, <3>1, <3>3, <3>4, <1>9
  <2>5. CASE InsertFails(r)
    <3>1. Failed(r, "hook") /\ hooks' = hooks
      BY <2>5 DEF InsertFails
    <3>2. /\ "hook" \in failed'[fam] /\ failed[fam] \subseteq failed'[fam]
          /\ \A f \in Family \ {fam} : failed'[f] = failed[f]
      BY <2>2, <3>1, FailedIs
    <3>3. Done(r, fam)'
      BY <2>1, <2>3, <3>2 DEF Done, Prefix
    <3> QED BY <2>1, <2>2, <2>3, <3>1, <3>2, <3>3, <1>9
  <2> QED BY <1>10, <2>4, <2>5
<1>11. ASSUME NEW r \in Run, Flush(r) \/ FlushFails(r) PROVE RunInv'
  <2>1. /\ NextFamily(r, "flush", "unhook") /\ UNCHANGED <<mode, uid, hooks>>
        /\ \/ Empties(r) /\ UNCHANGED failed
           \/ Failed(r, "chain") /\ UNCHANGED chain
    BY <1>11 DEF Flush, FlushFails
  <2>2. PICK fam \in Family : family[r] = fam
    BY DEF Types
  <2>3. ~mode[r] /\ ("hook" \in failed[fam] \/ hooks[fam][uid[r]] = 0)
    BY <2>1, <2>2 DEF Progress, NextFamily, Goto
  <2>4. CASE Empties(r) /\ UNCHANGED failed
    <3>1. chain'[fam] = <<>> /\ \A f \in Family \ {fam} : chain'[f] = chain[f]
      BY <2>2, <2>4 DEF Empties, Types
    <3>2. Done(r, fam)'
      BY <2>1, <2>3, <2>4, <3>1 DEF Done
    <3> QED BY <2>1, <2>2, <2>3, <2>4, <3>1, <3>2, <1>9
  <2>5. CASE Failed(r, "chain") /\ UNCHANGED chain
    <3>1. /\ "chain" \in failed'[fam] /\ failed[fam] \subseteq failed'[fam]
          /\ \A f \in Family \ {fam} : failed'[f] = failed[f]
      BY <2>2, <2>5, FailedIs
    <3>2. Done(r, fam)'
      BY <2>1, <2>3, <3>1 DEF Done
    <3> QED BY <2>1, <2>2, <2>3, <2>5, <3>1, <3>2, <1>9
  <2> QED BY <2>1, <2>4, <2>5
\* The run leaves the lock, with the tables as they are.
<1>12. ASSUME NEW r \in Run, Unlock(r) \/ Killed(r) \/ ConfMissing(r) \/ IpsetMissing(r)
       PROVE  RunInv'
  <2>1. pc'[r] = "idle" /\ \A s \in Run \ {r} : pc'[s] = pc[s]
    BY <1>12 DEF Unlock, Killed, ConfMissing, IpsetMissing, Leaves, Goto, Types
  <2>2. /\ family' = family /\ mode' = mode /\ uid' = uid /\ failed' = failed
        /\ hooks' = hooks /\ chain' = chain /\ skipped' = skipped
        /\ mishaps' \in Nat /\ mishaps' >= mishaps
    BY <1>0, <1>12 DEF Unlock, Killed, ConfMissing, IpsetMissing, Leaves, Mishap, Accident
  <2>3. "idle" \notin Inside
    BY DEF Inside, Rule
  <2> QED BY <2>1, <2>2, <2>3, NothingDone, NothingNew
<1>13. CASE EditConf \/ UNCHANGED vars
  <2>1. /\ pc' = pc /\ family' = family /\ mode' = mode /\ uid' = uid /\ failed' = failed
        /\ hooks' = hooks /\ chain' = chain /\ skipped' = skipped /\ mishaps' = mishaps
    BY <1>13 DEF EditConf, vars
  <2> QED BY <1>0, <2>1, NothingNew
<1>14. CASE Reboot
  <2>1. \A r \in Run : pc'[r] = "idle"
    BY <1>14 DEF Reboot
  <2>2. "idle" \notin Inside
    BY DEF Inside, Rule
  <2> QED BY <2>1, <2>2, NothingDone
<1> QED
  BY <1>2, <1>3, <1>6, <1>7, <1>10, <1>11, <1>12, <1>13, <1>14, <1>16, <1>17, <1>18, <1>19
  DEF Next, Step

-----------------------------------------------------------------------------
(* The tables. *)

\* What a run that applied the configuration left, until the next one starts.
Closed ==
    settled /\ (lock = Nobody \/ pc[lock] = "conf") =>
        \A f \in Family : IF enabled THEN hooks[f][owner] = 1 /\ Prefix(chain[f], 5)
                                     ELSE hooks[f][owner] = 0

EgressInv == Types /\ LockHeld /\ RunInv /\ Tables /\ Closed

LEMMA TablesInit == Init => Tables /\ Closed
<1> SUFFICES ASSUME Init PROVE Tables /\ Closed
  OBVIOUS
<1>1. \A f \in Family, u \in Uid : hooks[f][u] <= MostHooks + mishaps
  <2>1. PICK h \in [Uid -> 0..MaxHook] : hooks = [f \in Family |-> h]
    BY DEF Init
  <2>2. \A u \in Uid : h[u] <= MostHooks
    BY DEF MostHooks
  <2> QED BY <2>1, <2>2, MostHooksIs DEF Init
<1>2. Len(<<>>) <= 10 /\ Len(Rules) <= 10
  BY RulesAre, EmptySeq
<1>3. Len(Rules \o Rules) <= 10
  <2>1. Rules \in Seq(Rule) /\ Len(Rules) = 5
    BY RulesAre
  <2>2. Len(Rules \o Rules) = Len(Rules) + Len(Rules)
    BY ONLY <2>1, ConcatProperties, Zenon
  <2> QED BY <2>1, <2>2
<1>4. \A f \in Family : Len(chain[f]) <= 10 /\ PermitsFirst(chain[f])
  <2>1. PICK c \in {<<>>, Rules, Rules \o Rules} : chain = [f \in Family |-> c]
    BY DEF Init
  <2>2. Len(c) <= 10 /\ PermitsFirst(c)
    BY ONLY <1>2, <1>3, RulesPermit, c \in {<<>>, Rules, Rules \o Rules}, Zenon
  <2> QED BY <2>1, <2>2
<1>5. mishaps = 0
  BY DEF Init
<1> QED BY <1>1, <1>4, <1>5 DEF Tables, Closed, Init

LEMMA TablesStep == Types /\ RunInv /\ Tables /\ [Next]_vars => Tables'
<1> SUFFICES ASSUME Types, RunInv, Tables, [Next]_vars PROVE Tables'
  OBVIOUS
<1> USE DEF conf, rules, read, bound
<1>a. Types'
  BY TypesStep
<1>b. mishaps \in Nat
  BY DEF Types
<1>c. mishaps' \in Nat
  <2>1. mishaps' \in 0..MaxMishap
    BY <1>a DEF Types
  <2> QED BY <2>1
<1>0. mishaps \in Nat /\ mishaps' \in Nat /\ Types'
  BY <1>a, <1>b, <1>c
<1>1. ASSUME hooks' = hooks, chain' = chain, mishaps' >= mishaps,
             \A f \in Family : skipped[f] => skipped'[f]
      PROVE  Tables'
  <2>1. \A f \in Family, u \in Uid : hooks'[f][u] <= MostHooks + mishaps'
    <3> SUFFICES ASSUME NEW f \in Family, NEW u \in Uid
                 PROVE  hooks[f][u] <= MostHooks + mishaps'
      BY <1>1
    <3>1. hooks[f][u] <= MostHooks + mishaps /\ hooks[f][u] \in Nat
      BY DEF Tables, Types
    <3> QED BY <3>1, <1>0, <1>1, MostHooksIs
  <2>2. \A f \in Family : Len(chain'[f]) <= 10 + 5 * mishaps'
    <3> SUFFICES ASSUME NEW f \in Family PROVE Len(chain[f]) <= 10 + 5 * mishaps'
      BY <1>1
    <3>1. Len(chain[f]) <= 10 + 5 * mishaps /\ Len(chain[f]) \in Nat
      BY LenProperties DEF Tables, Types
    <3> QED BY <3>1, <1>0, <1>1
  <2> QED BY <1>1, <2>1, <2>2 DEF Tables
<1>2. \A f \in Family, u \in Uid : hooks[f][u] \in Nat
  BY DEF Types
<1>3. PermitsFirst(<<>>) /\ Len(<<>>) = 0
  BY RulesPermit, EmptySeq
\* One family's chain is emptied.
<1>4. ASSUME NEW r \in Run, hooks' = hooks, Empties(r), mishaps' >= mishaps,
             \A f \in Family \ {family[r]} : skipped'[f] = skipped[f]
      PROVE  Tables'
  <2>1. /\ chain'[family[r]] = <<>>
        /\ \A f \in Family \ {family[r]} : chain'[f] = chain[f]
    BY <1>4 DEF Empties, Types
  <2>2. \A f \in Family, u \in Uid : hooks'[f][u] <= MostHooks + mishaps'
    BY <1>0, <1>2, <1>4, MostHooksIs DEF Tables
  <2>3. \A f \in Family : Len(chain'[f]) <= 10 + 5 * mishaps'
    <3> SUFFICES ASSUME NEW f \in Family PROVE Len(chain'[f]) <= 10 + 5 * mishaps'
      OBVIOUS
    <3>1. Len(chain[f]) <= 10 + 5 * mishaps /\ Len(chain[f]) \in Nat
      BY LenProperties DEF Tables, Types
    <3>2. CASE f = family[r]
      <4>1. Len(chain'[f]) = 0
        BY <3>2, <1>3, <2>1
      <4>2. \A n \in Nat : 0 <= 10 + 5 * n
        OBVIOUS
      <4> QED BY <4>1, <4>2, <1>0
    <3>3. CASE f # family[r]
      <4>1. Len(chain'[f]) = Len(chain[f])
        BY <3>3, <2>1
      <4> QED BY <4>1, <3>1, <1>0, <1>4
    <3> QED BY <3>2, <3>3
  <2> QED BY <1>3, <1>4, <2>1, <2>2, <2>3 DEF Tables
<1>5. ASSUME NEW r \in Run, AppendRule(r) PROVE Tables'
  <2>1. PICK i \in 1..5 :
            pc[r] = Rules[i] /\ chain' = [chain EXCEPT ![family[r]] = Append(@, Rules[i])]
    BY <1>5, RulesAre DEF AppendRule, Goto
  <2>2. hooks' = hooks /\ skipped' = skipped /\ mishaps' = mishaps
    BY <1>5 DEF AppendRule
  <2>3. /\ chain'[family[r]] = Append(chain[family[r]], Rules[i])
        /\ chain[family[r]] \in Seq(Rule) /\ family[r] \in Family
        /\ \A f \in Family \ {family[r]} : chain'[f] = chain[f]
    BY <2>1 DEF Types
  <2>4. Len(chain'[family[r]]) <= 10 + 5 * mishaps'
    <3>1. Len(chain[family[r]]) <= 4 + i + 5 * mishaps
      BY <2>1 DEF RunInv, Building
    <3> QED BY <1>0, <2>2, <2>3, <3>1, RulesDiffer, AppendProperties, LenProperties
  <2>5. ASSUME ~skipped[family[r]] PROVE PermitsFirst(chain'[family[r]])
    <3>1. PermitsFirst(chain[family[r]]) /\ Contains(chain[family[r]], i - 1)
      BY <2>1, <2>3, <2>5 DEF Tables, RunInv, Building
    <3> QED BY <2>3, <3>1, AppendPermits
  <2> QED BY <2>2, <2>3, <2>4, <2>5 DEF Tables
<1>6. ASSUME NEW r \in Run, AppendRuleFails(r) PROVE Tables'
  <2>1. mishaps' >= mishaps
    BY <1>6, Counts DEF AppendRuleFails
  <2>2. \A f \in Family : skipped[f] => skipped'[f]
    BY <1>6 DEF AppendRuleFails, Types
  <2> QED BY <1>6, <2>1, <2>2, <1>1 DEF AppendRuleFails
<1>7. ASSUME NEW r \in Run, Unhook(r) PROVE Tables'
  <2>1. chain' = chain /\ skipped' = skipped /\ mishaps' = mishaps
    BY <1>7 DEF Unhook
  <2>2. CASE hooks[family[r]][uid[r]] > 0
    <3>1. hooks' = [hooks EXCEPT ![family[r]][uid[r]] = @ - 1]
      BY <1>7, <2>2 DEF Unhook
    <3>2. \A f \in Family, u \in Uid : hooks'[f][u] <= hooks[f][u]
      BY <1>2, <3>1 DEF Types
    <3>3. \A f \in Family, u \in Uid : hooks'[f][u] \in Nat
      BY <1>0 DEF Types
    <3>4. \A f \in Family, u \in Uid : hooks'[f][u] <= MostHooks + mishaps
      BY <1>0, <1>2, <3>2, <3>3, MostHooksIs DEF Tables
    <3> QED BY <2>1, <3>4 DEF Tables
  <2>3. CASE ~(hooks[family[r]][uid[r]] > 0)
    BY <1>0, <1>1, <1>7, <2>1, <2>3 DEF Unhook
  <2> QED BY <2>2, <2>3
<1>8. ASSUME NEW r \in Run, Insert(r) PROVE Tables'
  <2>1. chain' = chain /\ skipped' = skipped /\ mishaps' = mishaps
    BY <1>8 DEF Insert
  <2>2. hooks[family[r]][uid[r]] < MostHooks + mishaps
    BY <1>8 DEF Insert, NextFamily, Goto, RunInv, Progress
  <2>3. hooks' = [hooks EXCEPT ![family[r]][uid[r]] = @ + 1]
    BY <1>8 DEF Insert
  <2>4. family[r] \in Family /\ uid[r] \in Uid
    BY DEF Types
  <2>5. \A f \in Family, u \in Uid :
            hooks'[f][u] = hooks[f][u] \/ hooks'[f][u] = hooks[family[r]][uid[r]] + 1
    BY <2>3 DEF Types
  <2>6. hooks[family[r]][uid[r]] + 1 <= MostHooks + mishaps
    BY <1>0, <1>2, <2>2, <2>4, MostHooksIs
  <2> QED BY <2>1, <2>5, <2>6 DEF Tables
<1>9. ASSUME NEW r \in Run, NewChain(r) PROVE Tables'
  <2>1. Empties(r) /\ hooks' = hooks /\ mishaps' = mishaps
    BY <1>9 DEF NewChain, Empties
  <2>2. \A f \in Family \ {family[r]} : skipped'[f] = skipped[f]
    BY <1>9 DEF NewChain, Types
  <2> QED BY <1>0, <1>4, <2>1, <2>2
<1>10. ASSUME NEW r \in Run, Flush(r) PROVE Tables'
  BY <1>0, <1>4, <1>10 DEF Flush
<1>11. ASSUME NEW r \in Run, FlushFails(r) PROVE Tables'
  <2>1. hooks' = hooks /\ skipped' = skipped /\ mishaps' >= mishaps
    BY <1>11, Counts DEF FlushFails
  <2>2. Empties(r) \/ chain' = chain
    BY <1>11 DEF FlushFails
  <2> QED BY <2>1, <2>2, <1>1, <1>4
<1>12. CASE Reboot
  <2>1. /\ \A f \in Family, u \in Uid : hooks'[f][u] = 0
        /\ \A f \in Family : chain'[f] = <<>>
    BY <1>12 DEF Reboot
  <2> QED BY <1>0, <1>3, <2>1, MostHooksIs DEF Tables
<1>13. ASSUME NEW r \in Run,
              \/ Begin(r) \/ Lock(r) \/ LockTimesOut(r) \/ ReadConf(r) \/ Unlock(r)
              \/ Killed(r) \/ ConfMissing(r) \/ IpsetMissing(r)
              \/ NewChainFails(r) \/ UnhookFails(r) \/ InsertFails(r)
       PROVE  Tables'
  <2>1. UNCHANGED <<hooks, chain, skipped>> /\ mishaps' >= mishaps
    BY <1>0, <1>13
    DEF Begin, Lock, LockTimesOut, ReadConf, Unlock, Killed, ConfMissing, IpsetMissing, Leaves,
        NewChainFails, UnhookFails, InsertFails, Excuse, Mishap, Accident
  <2> QED BY <2>1, <1>1
<1>14. CASE EditConf \/ UNCHANGED vars
  <2>1. UNCHANGED <<hooks, chain, skipped, mishaps>>
    BY <1>14 DEF EditConf, vars
  <2> QED BY <1>0, <2>1, <1>1
<1> QED
  BY <1>5, <1>6, <1>7, <1>8, <1>9, <1>10, <1>11, <1>12, <1>13, <1>14 DEF Next, Step

LEMMA ClosedStep == Types /\ LockHeld /\ RunInv /\ Closed /\ [Next]_vars => Closed'
<1> SUFFICES ASSUME Types, LockHeld, RunInv, Closed, [Next]_vars PROVE Closed'
  OBVIOUS
<1> USE DEF conf, rules, read, bound
<1>1. ASSUME NEW r \in Run, Begin(r) \/ LockTimesOut(r) PROVE Closed'
  <2>1. /\ UNCHANGED <<enabled, owner, hooks, chain, lock, settled>>
        /\ pc[r] \in {"idle", "flock"} /\ \A s \in Run \ {r} : pc'[s] = pc[s]
    BY <1>1 DEF Begin, LockTimesOut, Goto, Types
  <2>2. lock # r
    BY <2>1 DEF LockHeld, Inside, Rule
  <2>3. lock # Nobody => pc'[lock] = pc[lock]
    BY <2>1, <2>2 DEF Types
  <2> QED BY <2>1, <2>3 DEF Closed, Prefix
<1>2. ASSUME NEW r \in Run, Lock(r) PROVE Closed'
  <2>1. lock = Nobody /\ UNCHANGED <<enabled, owner, hooks, chain, settled>>
    BY <1>2 DEF Lock
  <2> QED BY <2>1 DEF Closed, Prefix
\* A run past reading the configuration is not between runs.
<1>3. ASSUME NEW r \in Run, NEW from \in Inside, NEW to, to # "conf", Goto(r, from, to),
             lock' = lock
      PROVE  Closed'
  <2>1. lock' = r /\ pc'[r] = to /\ r # Nobody
    BY <1>3 DEF LockHeld, Goto, Types
  <2> QED BY <1>3, <2>1 DEF Closed
<1>4. ASSUME NEW r \in Run, ReadConf(r) PROVE Closed'
  BY <1>4, <1>3 DEF ReadConf, AfterConf, Inside
<1>5. ASSUME NEW r \in Run, NewChain(r) \/ NewChainFails(r) PROVE Closed'
  <2>1. Rules[1] # "conf"
    BY RulesAre
  <2> QED BY <1>5, <1>3, <2>1 DEF NewChain, NewChainFails, Inside
<1>6. ASSUME NEW r \in Run, AppendRule(r) \/ AppendRuleFails(r) PROVE Closed'
  <2>1. PICK i \in 1..5 : Goto(r, Rules[i], AfterRule(i))
    BY <1>6, RulesAre DEF AppendRule, AppendRuleFails
  <2>2. Rules[i] \in Inside /\ AfterRule(i) # "conf" /\ lock' = lock
    BY <1>6, AfterRuleIs DEF AppendRule, AppendRuleFails, Inside
  <2> QED BY <2>1, <2>2, <1>3
<1>7. ASSUME NEW r \in Run, Unhook(r) \/ UnhookFails(r) PROVE Closed'
  BY <1>7, <1>3 DEF Unhook, UnhookFails, Inside
<1>8. ASSUME NEW r \in Run, Insert(r) \/ InsertFails(r) \/ Flush(r) \/ FlushFails(r)
      PROVE  Closed'
  BY <1>8, <1>3 DEF Insert, InsertFails, Flush, FlushFails, NextFamily, Inside
<1>12. ASSUME NEW r \in Run, ConfMissing(r) \/ IpsetMissing(r) PROVE Closed'
  <2>1. /\ pc[r] = "conf" /\ UNCHANGED <<enabled, owner, hooks, chain, settled>>
    BY <1>12 DEF ConfMissing, IpsetMissing, Leaves, Goto
  <2>2. lock = r
    BY <2>1 DEF LockHeld, Inside
  <2> QED BY <2>1, <2>2 DEF Closed, Prefix
<1>9. ASSUME NEW r \in Run, Unlock(r) PROVE Closed'
  <2>1. /\ pc[r] = "unlock" /\ UNCHANGED <<enabled, owner, hooks, chain>>
        /\ settled' => mode[r] = enabled /\ uid[r] = owner /\ \A f \in Family : failed[f] = {}
    BY <1>9 DEF Unlock, Goto
  <2>2. \A f \in Family : Done(r, f)
    BY <2>1 DEF RunInv, Progress, Family
  <2> QED BY <2>1, <2>2 DEF Closed, Done, Prefix
<1>10. CASE (\E r \in Run : Killed(r)) \/ EditConf \/ Reboot
  <2>1. settled' = FALSE
    BY <1>10 DEF Killed, EditConf, Reboot, Mishap
  <2> QED BY <2>1 DEF Closed
<1>11. CASE UNCHANGED vars
  BY <1>11 DEF vars, Closed, Prefix
<1> QED
  BY <1>1, <1>2, <1>4, <1>5, <1>6, <1>7, <1>8, <1>9, <1>10, <1>11, <1>12 DEF Next, Step

THEOREM Inductive == Spec => []EgressInv
<1>1. Init => EgressInv
  BY TypesInit, RunInit, TablesInit DEF EgressInv
<1>2. EgressInv /\ [Next]_vars => EgressInv'
  BY TypesStep, LockStep, RunStep, TablesStep, ClosedStep DEF EgressInv
<1> QED BY <1>1, <1>2, PTL DEF Spec

-----------------------------------------------------------------------------
(* What the runs check. *)

\* Every variable has its type, and only a failed call, one at a time, makes a
\* run add to the copies of a hook or of the rules.
THEOREM TypeCorrect == Spec => []TypeOK
<1>1. EgressInv => TypeOK
  <2> SUFFICES ASSUME EgressInv PROVE TypeOK
    OBVIOUS
  <2> USE DEF EgressInv
  <2>1. hooks \in [Family -> [Uid -> 0..mishaps + (IF MaxHook = 0 THEN 1 ELSE MaxHook)]]
    <3>1. \A f \in Family, u \in Uid : hooks[f][u] \in 0..mishaps + MostHooks
      <4>1. mishaps \in Nat /\ \A f \in Family, u \in Uid : hooks[f][u] \in Nat
        BY DEF Types
      <4> QED BY <4>1, MostHooksIs DEF Tables
    <3> QED BY <3>1 DEF Types, MostHooks
  <2>2. \A f \in Family : Len(chain[f]) <= (2 + mishaps) * Len(Rules)
    <3>1. Len(Rules) = 5 /\ mishaps \in Nat
      BY RulesAre DEF Types
    <3>2. (2 + mishaps) * 5 = 10 + 5 * mishaps
      BY <3>1
    <3> QED BY <3>1, <3>2 DEF Tables
  <2>3. pc \in [Run -> Label]
    BY LabelsAre DEF Types
  <2> QED BY <2>1, <2>2, <2>3 DEF Types, TypeOK
<1> QED BY <1>1, Inductive, PTL

\* At no step of any number of runs, killed runs and reboots does the chain
\* reject the tunnel's own session or what the allowlist permits, unless a
\* rule could not be appended (split-tunnel-egress.sh:72).
THEOREM SessionKept == Spec => []NeverCut
<1>1. EgressInv => NeverCut
  <2> SUFFICES ASSUME EgressInv, NEW f \in Family, NEW u \in Uid, ~skipped[f],
                      NEW m \in Permit, Rejected(f, u, {m})
               PROVE  FALSE
    BY DEF NeverCut, Permit
  <2>1. chain[f] \in Seq(Rule) /\ PermitsFirst(chain[f])
    BY DEF EgressInv, Types, Tables
  <2>2. DOMAIN chain[f] = 1..Len(chain[f])
    BY <2>1, LenProperties
  <2>3. PICK p \in 1..Len(chain[f]) :
            chain[f][p] = "reject" /\ \A q \in 1..p : chain[f][q] \notin {m}
    BY <2>2 DEF Rejected
  <2> QED BY <2>1, <2>3 DEF PermitsFirst
<1> QED BY <1>1, Inductive, PTL

\* Between runs, a configuration that has been applied is in force in both
\* families, however many runs overlap (split-tunnel-egress.sh:20-21, 83-86).
THEOREM ClosedOnceApplied == Spec => []ClosedBetweenRuns
<1>1. EgressInv => ClosedBetweenRuns
  <2> SUFFICES ASSUME EgressInv, settled, lock = Nobody \/ pc[lock] = "conf",
                      NEW f \in Family
               PROVE  Rejected(f, owner, {}) = enabled
    BY DEF ClosedBetweenRuns, Applied
  <2>1. IF enabled THEN hooks[f][owner] = 1 /\ Prefix(chain[f], 5) ELSE hooks[f][owner] = 0
    BY DEF EgressInv, Closed
  <2>2. CASE enabled
    <3>1. chain[f][5] = "reject" /\ 5 \in DOMAIN chain[f]
      BY <2>1, <2>2, RulesAre, LenProperties DEF Prefix, EgressInv, Types
    <3> QED BY <2>1, <2>2, <3>1 DEF Rejected
  <2>3. CASE ~enabled
    <3>1. ~Rejected(f, owner, {})
      BY <2>1, <2>3 DEF Rejected
    <3>2. Rejected(f, owner, {}) \in BOOLEAN
      BY DEF Rejected
    <3>3. enabled = FALSE
      BY <2>3 DEF EgressInv, Types
    <3> QED BY ONLY <3>1, <3>2, <3>3, Zenon
  <2> QED BY <2>2, <2>3
<1> QED BY <1>1, Inductive, PTL

\* A run that comes to its end leaves what it read applied to both families,
\* hooked once with the whole chain, or neither, whatever failed and killed runs
\* left there before it, but for what its own calls failed to do
\* (split-tunnel-egress.sh:30-31, 83-86).
THEOREM AppliedByEachRun == Spec => RunApplies
<1> DEFINE Left ==
      \A r \in Run : pc[r] = "unlock" =>
        \A f \in Family :
            /\ "hook" \in failed[f] \/ hooks[f][uid[r]] = IF mode[r] THEN 1 ELSE 0
            /\ "chain" \in failed[f] \/ chain[f] = IF mode[r] THEN Rules ELSE <<>>
<1>1. EgressInv => Left
  <2> SUFFICES ASSUME EgressInv, NEW r \in Run, pc[r] = "unlock", NEW f \in Family
               PROVE  /\ "hook" \in failed[f] \/ hooks[f][uid[r]] = IF mode[r] THEN 1 ELSE 0
                      /\ "chain" \in failed[f] \/ chain[f] = IF mode[r] THEN Rules ELSE <<>>
    OBVIOUS
  <2>1. Done(r, f) /\ chain[f] \in Seq(Rule)
    BY DEF EgressInv, RunInv, Progress, Family, Types
  <2> QED BY <2>1, PrefixIsRules DEF Done
<1>2. Left =>
        [\A r \in Run : pc[r] = "unlock" /\ pc'[r] = "idle" /\ mishaps' = mishaps =>
          \A f \in Family :
            /\ "hook" \in failed[f] \/ hooks[f][uid[r]] = IF mode[r] THEN 1 ELSE 0
            /\ "chain" \in failed[f] \/ chain[f] = IF mode[r] THEN Rules ELSE <<>>]_vars
  OBVIOUS
<1> QED BY <1>1, <1>2, Inductive, PTL DEF RunApplies
=============================================================================
