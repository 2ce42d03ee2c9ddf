------------------------------- MODULE Egress -------------------------------
(***************************************************************************)
(* The egress allowlist of the tunnel user                                 *)
(* (server/egress/split-tunnel-egress.sh), run by a timer and by hand: each*)
(* iptables call is a step.  Runs wait for one another under an flock; a   *)
(* run may be killed, any call may fail (another program holds the xtables *)
(* lock; the script looks at no exit status and goes on), and a reboot     *)
(* empties the kernel's tables.                                            *)
(***************************************************************************)
EXTENDS Naturals, Sequences

CONSTANTS
    Run,        \* runs of the script that may be under way together
    Nobody,     \* no run
    Uid,        \* values UID_OWNER may be given
    MaxHook,    \* bounds the copies of a hook found at the start
    MaxEdit, MaxMishap   \* bound the edits of the configuration, and the accidents

ASSUME EgressAssumption ==
    MaxHook \in Nat /\ MaxEdit \in Nat /\ MaxMishap \in Nat /\ Nobody \notin Run

VARIABLES
    enabled, owner,   \* ENABLED and UID_OWNER in egress.conf
    hooks,            \* of each family, the OUTPUT rules of each uid that jump to the chain
    chain,            \* of each family, the rules of SPLITTUNNEL, <<>> also when there is none
    exists,           \* of each family, the chain exists
    skipped,          \* of each family, a rule of the chain was not appended
    failed,           \* of each family, what the last run failed to do to it
    lock,             \* the run that holds the flock, or Nobody
    pc, family, mode, uid,   \* where a run is; its family; what it read
    edits, mishaps,
    settled           \* the configuration as it stands has been applied, with no accident since

conf  == <<enabled, owner>>
rules == <<hooks, chain, exists, skipped, failed>>
read  == <<mode, uid>>
bound == <<edits, mishaps, settled>>
vars  == <<conf, rules, lock, pc, family, read, bound>>

Family == {"v4", "v6"}
\* What build_chain() appends, in its order; the log rule decides nothing.
Rules  == <<"established", "lo", "dns", "set", "reject">>
Label  == {"idle", "flock", "conf", "new", "unhook", "insert", "flush", "unlock"}
          \cup {Rules[i] : i \in DOMAIN Rules}

\* What a racing run of an older version left is found in both families alike.
Init ==
    /\ enabled \in BOOLEAN /\ owner \in Uid
    /\ \E h \in [Uid -> 0..MaxHook] : hooks = [f \in Family |-> h]
    /\ \E c \in {<<>>, Rules, Rules \o Rules} : chain = [f \in Family |-> c]
    /\ exists = [f \in Family |-> chain[f] # <<>> \/ \E u \in Uid : hooks[f][u] > 0]
    /\ skipped = [f \in Family |-> FALSE] /\ failed = [f \in Family |-> {}]
    /\ lock = Nobody
    /\ pc = [r \in Run |-> "idle"] /\ family = [r \in Run |-> "v4"]
    /\ mode = [r \in Run |-> FALSE] /\ uid = [r \in Run |-> owner]
    /\ edits = 0 /\ mishaps = 0 /\ settled = FALSE

Goto(r, from, to) == pc[r] = from /\ pc' = [pc EXCEPT ![r] = to]

Accident == mishaps < MaxMishap /\ mishaps' = mishaps + 1 /\ UNCHANGED edits
Mishap   == Accident /\ settled' = FALSE

\* A call of the run that should have changed the chain, or the hook, did not.
Failed(r, what) == failed' = [failed EXCEPT ![family[r]] = @ \cup {what}]

\* Whether a packet of u that the rules of c match is rejected; it is accepted
\* where OUTPUT does not jump to the chain and when it comes to the chain's end.
Rejected(f, u, c) ==
    /\ hooks[f][u] > 0
    /\ \E p \in DOMAIN chain[f] :
          chain[f][p] = "reject" /\ \A q \in 1..p : chain[f][q] \notin c

-----------------------------------------------------------------------------
Begin(r) == Goto(r, "idle", "flock") /\ UNCHANGED <<conf, rules, lock, family, read, bound>>

Lock(r) ==
    /\ lock = Nobody
    /\ Goto(r, "flock", "conf")
    /\ lock' = r
    /\ UNCHANGED <<conf, rules, family, read, bound>>

\* flock -w 60 gives up.
LockTimesOut(r) ==
    /\ lock # Nobody
    /\ Goto(r, "flock", "idle")
    /\ UNCHANGED <<conf, rules, lock, family, read, bound>>

\* No configuration is readable, or there is no ipset: the run leaves all as it was.
Leaves(r) ==
    /\ Accident
    /\ Goto(r, "conf", "idle")
    /\ lock' = Nobody
    /\ UNCHANGED <<conf, rules, family, read, settled>>

ConfMissing(r)  == Leaves(r)
IpsetMissing(r) == enabled /\ Leaves(r)

\* An allowlist that is not enabled is torn down.
AfterConf == IF enabled THEN "new" ELSE "unhook"

\* The addresses are resolved next; which they are does not matter here.
ReadConf(r) ==
    /\ Goto(r, "conf", AfterConf)
    /\ failed' = [f \in Family |-> {}]
    /\ mode' = [mode EXCEPT ![r] = enabled]
    /\ uid' = [uid EXCEPT ![r] = owner]
    /\ family' = [family EXCEPT ![r] = "v4"]
    /\ UNCHANGED <<conf, hooks, chain, exists, skipped, lock, bound>>

\* build_chain(): -N, or -F when the chain exists.
NewChain(r) ==
    /\ Goto(r, "new", Rules[1])
    /\ chain' = [chain EXCEPT ![family[r]] = <<>>]
    /\ exists' = [exists EXCEPT ![family[r]] = TRUE]
    /\ skipped' = [skipped EXCEPT ![family[r]] = FALSE]
    /\ UNCHANGED <<conf, hooks, failed, lock, family, read, bound>>

\* Neither -N nor -F: the rules that follow are appended to the old ones, if any.
NewChainFails(r) ==
    /\ Goto(r, "new", Rules[1])
    /\ Mishap
    /\ Failed(r, "chain")
    /\ UNCHANGED <<conf, hooks, chain, exists, skipped, lock, family, read>>

AfterRule(i) == IF i < Len(Rules) THEN Rules[i + 1] ELSE "unhook"

\* Mutant: the rule that rejects comes first.
AppendRuleReversed(r) == \E i \in DOMAIN Rules :
    /\ Goto(r, Rules[i], AfterRule(i))
    /\ exists[family[r]]
    /\ chain' = [chain EXCEPT ![family[r]] = <<Rules[i]>> \o @]
    /\ UNCHANGED <<conf, hooks, exists, skipped, failed, lock, family, read, bound>>

AppendRule(r) == \E i \in DOMAIN Rules :
    /\ Goto(r, Rules[i], AfterRule(i))
    /\ exists[family[r]]
    /\ chain' = [chain EXCEPT ![family[r]] = Append(@, Rules[i])]
    /\ UNCHANGED <<conf, hooks, exists, skipped, failed, lock, family, read, bound>>

\* By accident, or for want of a chain.
Excuse(r) == Mishap \/ (~exists[family[r]] /\ UNCHANGED bound)

AppendRuleFails(r) == \E i \in DOMAIN Rules :
    /\ Goto(r, Rules[i], AfterRule(i))
    /\ Excuse(r)
    /\ Failed(r, "chain")
    /\ skipped' = [skipped EXCEPT ![family[r]] = TRUE]
    /\ UNCHANGED <<conf, hooks, chain, exists, lock, family, read>>

\* Mutant: the copies there are are left.
UnhookSkipped(r) ==
    /\ Goto(r, "unhook", IF mode[r] THEN "insert" ELSE "flush")
    /\ UNCHANGED <<conf, rules, lock, family, read, bound>>

\* Mutant: one copy is deleted.
UnhookOnce(r) ==
    /\ Goto(r, "unhook", IF mode[r] THEN "insert" ELSE "flush")
    /\ hooks' = [hooks EXCEPT ![family[r]][uid[r]] = IF @ > 0 THEN @ - 1 ELSE 0]
    /\ UNCHANGED <<conf, chain, exists, skipped, failed, lock, family, read, bound>>

\* unhook(): -D while -C finds one.
Unhook(r) ==
    /\ IF hooks[family[r]][uid[r]] > 0
       THEN /\ Goto(r, "unhook", "unhook")
            /\ hooks' = [hooks EXCEPT ![family[r]][uid[r]] = @ - 1]
       ELSE /\ Goto(r, "unhook", IF mode[r] THEN "insert" ELSE "flush")
            /\ UNCHANGED hooks
    /\ UNCHANGED <<conf, chain, exists, skipped, failed, lock, family, read, bound>>

\* -C does not find the copies there are, or -D does not delete one.
UnhookFails(r) ==
    /\ hooks[family[r]][uid[r]] > 0
    /\ Goto(r, "unhook", IF mode[r] THEN "insert" ELSE "flush")
    /\ Mishap
    /\ Failed(r, "hook")
    /\ UNCHANGED <<conf, hooks, chain, exists, skipped, lock, family, read>>

\* Mutant: IPv4 only.
NextFamilySkipped(r, from, first) ==
    /\ Goto(r, from, "unlock")
    /\ family' = [family EXCEPT ![r] = "v6"]

\* The other family is next, or the run ends.
NextFamily(r, from, first) ==
    /\ Goto(r, from, IF family[r] = "v4" THEN first ELSE "unlock")
    /\ family' = [family EXCEPT ![r] = "v6"]

Insert(r) ==
    /\ NextFamily(r, "insert", "new")
    /\ exists[family[r]]
    /\ hooks' = [hooks EXCEPT ![family[r]][uid[r]] = @ + 1]
    /\ UNCHANGED <<conf, chain, exists, skipped, failed, lock, read, bound>>

InsertFails(r) ==
    /\ NextFamily(r, "insert", "new")
    /\ Excuse(r)
    /\ Failed(r, "hook")
    /\ UNCHANGED <<conf, hooks, chain, exists, skipped, lock, read>>

Empties(r) == chain' = [chain EXCEPT ![family[r]] = <<>>]

\* teardown(): -F, and -X, which fails while there is a hook.
Flush(r) ==
    /\ NextFamily(r, "flush", "unhook")
    /\ Empties(r)
    /\ exists' = [exists EXCEPT ![family[r]] = \E u \in Uid : hooks[family[r]][u] > 0]
    /\ UNCHANGED <<conf, hooks, skipped, failed, lock, read, bound>>

\* -F fails, and with it -X; or -X alone does.
FlushFails(r) ==
    /\ NextFamily(r, "flush", "unhook")
    /\ Mishap
    /\ (Failed(r, "chain") /\ UNCHANGED chain) \/ (Empties(r) /\ UNCHANGED failed)
    /\ UNCHANGED <<conf, hooks, exists, skipped, lock, read>>

Unlock(r) ==
    /\ Goto(r, "unlock", "idle")
    /\ lock' = Nobody
    /\ settled' = (mode[r] = enabled /\ uid[r] = owner /\ \A f \in Family : failed[f] = {})
    /\ UNCHANGED <<conf, rules, family, read, edits, mishaps>>

Step(r) ==
    \/ Lock(r) \/ LockTimesOut(r) \/ ConfMissing(r) \/ ReadConf(r) \/ IpsetMissing(r)
    \/ NewChain(r) \/ NewChainFails(r) \/ AppendRule(r) \/ AppendRuleFails(r)
    \/ Unhook(r) \/ UnhookFails(r) \/ Insert(r) \/ InsertFails(r)
    \/ Flush(r) \/ FlushFails(r) \/ Unlock(r)

-----------------------------------------------------------------------------
\* The administrator edits egress.conf; the next run applies it.
EditConf ==
    /\ edits < MaxEdit /\ edits' = edits + 1
    /\ enabled' \in BOOLEAN /\ owner' \in Uid
    /\ settled' = FALSE
    /\ UNCHANGED <<rules, lock, pc, family, read, mishaps>>

Killed(r) ==
    /\ Mishap
    /\ pc[r] # "idle" /\ pc' = [pc EXCEPT ![r] = "idle"]
    /\ lock' = IF lock = r THEN Nobody ELSE lock
    /\ UNCHANGED <<conf, rules, family, read>>

Reboot ==
    /\ Mishap
    /\ hooks' = [f \in Family |-> [u \in Uid |-> 0]]
    /\ chain' = [f \in Family |-> <<>>]
    /\ exists' = [f \in Family |-> FALSE]
    /\ skipped' = [f \in Family |-> FALSE]
    /\ lock' = Nobody
    /\ pc' = [r \in Run |-> "idle"]
    /\ UNCHANGED <<conf, failed, family, read>>

Next == (\E r \in Run : Begin(r) \/ Step(r) \/ Killed(r)) \/ EditConf \/ Reboot

\* The timer starts runs for ever, and a run goes on.
Fairness == \A r \in Run : WF_vars(Begin(r)) /\ WF_vars(Step(r))

Spec     == Init /\ [][Next]_vars
FairSpec == Spec /\ Fairness

-----------------------------------------------------------------------------
(* Invariants. *)

\* Every variable has its type; only a failed call, one at a time, makes a run
\* add to the copies of a hook or of the rules.
TypeOK ==
    /\ enabled \in BOOLEAN /\ owner \in Uid
    /\ hooks \in [Family -> [Uid -> 0..mishaps + (IF MaxHook = 0 THEN 1 ELSE MaxHook)]]
    /\ \A f \in Family : Len(chain[f]) <= (2 + mishaps) * Len(Rules)
    /\ exists \in [Family -> BOOLEAN] /\ failed \in [Family -> SUBSET {"chain", "hook"}]
    /\ lock \in Run \cup {Nobody}
    /\ pc \in [Run -> Label] /\ family \in [Run -> Family]
    /\ mode \in [Run -> BOOLEAN] /\ uid \in [Run -> Uid]
    /\ skipped \in [Family -> BOOLEAN] /\ edits \in 0..MaxEdit /\ mishaps \in 0..MaxMishap
    /\ settled \in BOOLEAN

\* "Established first, or we cut the tunnel's own SSH session"
\* (split-tunnel-egress.sh:72): in the midst of a refresh, after a killed run
\* and with hooks of a racing run, neither that session nor what the allowlist
\* permits is ever rejected, unless a rule could not be appended.
NeverCut ==
    \A f \in Family, u \in Uid : ~skipped[f] =>
        \A m \in {"established", "lo", "dns", "set"} : ~Rejected(f, u, {m})

Applied(on, u) == \A f \in Family : Rejected(f, u, {}) = on

\* Once a run has applied the configuration as it stands, other traffic of the
\* tunnel user is rejected in both families between runs, however many follow
\* and overlap.  Within a run it is not: the chain is emptied in place and the
\* hook is taken off and put back (split-tunnel-egress.sh:71, 84-85), although
\* server/README.md:97-98 says the user "may only reach the resolved addresses".
ClosedBetweenRuns ==
    settled /\ (lock = Nobody \/ pc[lock] = "conf") => Applied(enabled, owner)

(* Action properties. *)

\* A run that comes to its end has applied the configuration it read to both
\* families, whatever failed and killed runs before it left there
\* (split-tunnel-egress.sh:8, 11-14, 30-31, 83-84): hooked exactly once and
\* with the whole chain, or neither; but for what its own calls failed to do.
RunApplies ==
    [][\A r \in Run : pc[r] = "unlock" /\ pc'[r] = "idle" /\ mishaps' = mishaps =>
          \A f \in Family :
              /\ "hook" \in failed[f] \/ hooks[f][uid[r]] = IF mode[r] THEN 1 ELSE 0
              /\ "chain" \in failed[f] \/ chain[f] = IF mode[r] THEN Rules ELSE <<>>]_vars

(* Liveness. *)

\* A configuration that stays is applied, whatever was found or went wrong
\* before (split-tunnel-egress.sh:8 "Idempotent.  Safe to run on a timer").
EventuallyApplied ==
    \A on \in BOOLEAN, u \in Uid :
        <>[](enabled = on /\ owner = u) => []<>Applied(on, u)
=============================================================================
