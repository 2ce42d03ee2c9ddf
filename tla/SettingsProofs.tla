--------------------------- MODULE SettingsProofs ---------------------------
(***************************************************************************)
(* Proofs about Settings.  None of the properties is inductive as stated.  *)
(* What the window says of a server (DotInv) needs the answer still to     *)
(* come; that the saves settle on one configuration (SavesInv) needs what  *)
(* each save in flight has left to do; a clean reset (ResetInv) needs that *)
(* nothing else runs beside it; and that a sign-in uses the provider found *)
(* for its own server (FlowInv) needs the form, the copy in memory and the *)
(* configuration the flow carries to agree at every step of it, and the    *)
(* object its answer goes to to be the window's copy still.                *)
(***************************************************************************)
EXTENDS Settings, TLAPS

USE SettingsAssumption

CallType == [kind : Kind, at : At, cfg : Config, via : Proxy \cup {None}]

LEMMA ConfigTypes ==
    /\ Default \in Config
    /\ Idle \in CallType
    /\ \A cfg \in Config : Load(Whole(cfg)) = cfg
    /\ \A cfg \in Config, s \in Server \cup {None} :
          /\ [cfg EXCEPT !.base = s] \in Config
          /\ [cfg EXCEPT !.base = s].base = s
          /\ [cfg EXCEPT !.oidc = s] \in Config
    /\ \A cfg \in Config, p \in Proxy \cup {None} : [cfg EXCEPT !.good = p] \in Config
BY DEF Default, Config, Idle, CallType, Kind, At, Load, Whole

LEMMA LoadTypes == TypeOK => Load(file) \in Config
BY ConfigTypes DEF TypeOK, Load, Whole, Absent, Truncated, Garbled

(* How a step of a call leaves the calls. *)

LEMMA GotoTypes ==
    ASSUME TypeOK, NEW c \in Call, NEW to \in At, Goto(c, to)
    PROVE  /\ call' \in [Call -> CallType]
           /\ \A d \in Call : call'[d].kind = call[d].kind /\ call'[d].cfg = call[d].cfg
           /\ call'[c].at = to /\ \A d \in Call \ {c} : call'[d] = call[d]
BY DEF TypeOK, Goto, CallType

LEMMA ReturnsTypes ==
    ASSUME TypeOK, NEW c \in Call, Returns(c)
    PROVE  /\ call' \in [Call -> CallType]
           /\ call'[c] = Idle /\ \A d \in Call \ {c} : call'[d] = call[d]
BY ConfigTypes DEF TypeOK, Returns, CallType

LEMMA InvokeTypes ==
    ASSUME TypeOK, NEW c \in Call, NEW kind \in Kind, NEW at \in At, NEW cfg \in Config,
           Invoke(c, kind, at, cfg)
    PROVE  /\ call' \in [Call -> CallType] /\ \A d \in Call \ {c} : call'[d] = call[d]
           /\ call[c] = Idle
           /\ call'[c].kind = kind /\ call'[c].at = at /\ call'[c].cfg = cfg
<1>1. [Idle EXCEPT !.kind = kind, !.at = at, !.cfg = cfg] \in CallType
  BY ConfigTypes DEF Idle, CallType
<1>2. /\ [Idle EXCEPT !.kind = kind, !.at = at, !.cfg = cfg].kind = kind
      /\ [Idle EXCEPT !.kind = kind, !.at = at, !.cfg = cfg].at = at
      /\ [Idle EXCEPT !.kind = kind, !.at = at, !.cfg = cfg].cfg = cfg
  BY DEF Idle
<1> QED BY <1>1, <1>2 DEF TypeOK, Invoke, CallType

-----------------------------------------------------------------------------
(* Types. *)

\* What TypeOK says of the light, and of the files and copies.
LightType == /\ newest \in Call \cup {NoCall}
             /\ dot \in {"idle", "checking", "up", "down"} /\ about \in Server \cup {None}
             /\ signin \in BOOLEAN

LEMMA SetDotTypes ==
    ASSUME NEW state \in {"idle", "checking", "up", "down"}, SetDot(state)
    PROVE  dot' \in {"idle", "checking", "up", "down"} /\ signin' \in BOOLEAN
BY DEF SetDot

LEMMA AnsweredTypes ==
    ASSUME TypeOK, NEW c \in Call, NEW state \in {"up", "down"}, Answered(c, state)
    PROVE  call' \in [Call -> CallType] /\ LightType'
<1>1. call[c].cfg.base \in Server \cup {None}
  BY DEF TypeOK, Config
<1>2. LightType'
  BY <1>1, SetDotTypes DEF Answered, TypeOK, LightType, light
<1> QED BY <1>2, ReturnsTypes DEF Answered

LEMMA CountTypes ==
    TypeOK => edits \in Nat /\ presses \in Nat /\ restarts \in Nat /\ fails \in Nat
BY DEF TypeOK

LEMMA FormTypes == TypeOK => Form \in Config /\ Form.base = form
BY ConfigTypes DEF TypeOK, Form

\* A save, from the timer, an option or Connect.
LEMMA SaveTypes ==
    ASSUME TypeOK, NEW c \in Call, NEW kind \in Kind, Save(c, kind),
           edits' \in 0..MaxEdit, presses' \in 0..MaxPress, saveDue' \in BOOLEAN
    PROVE  TypeOK'
<1>1. call' \in [Call -> CallType]
  BY InvokeTypes, FormTypes DEF Save, At
<1>2. win' \in Config /\ kept' \subseteq Call
  BY FormTypes DEF Save
<1>3. stale' \in BOOLEAN
  BY DEF Save, Replaces, Others
<1>4. /\ UNCHANGED <<file, mem, lastGood, form, probeDue, newest, dot, about, signin>>
      /\ UNCHANGED <<restarts, fails, revived>> /\ edited' = TRUE /\ alone' = FALSE
  BY DEF Save, backend, light
<1>5. /\ file' \in {Absent, Truncated, Garbled} \cup {Whole(cfg) : cfg \in Config}
      /\ mem' \in Config /\ lastGood' \in Proxy \cup {None} /\ form' \in Server \cup {None}
  BY <1>4 DEF TypeOK
<1>6. LightType' /\ restarts' \in 0..MaxRestart /\ fails' \in 0..MaxFail
  BY <1>4 DEF TypeOK, LightType
<1>7. probeDue' \in BOOLEAN /\ edited' \in BOOLEAN /\ alone' \in BOOLEAN /\ revived' \in BOOLEAN
  BY <1>4 DEF TypeOK
<1> QED BY <1>1, <1>2, <1>3, <1>5, <1>6, <1>7 DEF TypeOK, CallType, LightType

LEMMA WrittenTypes ==
    ASSUME TypeOK, NEW c \in Call
    PROVE  Written(c) \subseteq {Absent, Truncated, Garbled} \cup {Whole(cfg) : cfg \in Config}
<1>1. mem \in Config /\ call[c].cfg \in Config
  BY DEF TypeOK
<1>2. Whole(IF SavesMem(c) THEN mem ELSE call[c].cfg) \in {Whole(cfg) : cfg \in Config}
  BY <1>1
<1> QED BY <1>2 DEF Written

\* Which commands come to which steps.
Saving == {"save", "discover", "flowSave", "connect", "start", "probe", "recheck"}

FromWindow == {"save", "discover", "flowSave", "connect"}

KindAt ==
    \A c \in Call :
        /\ call[c].at \in {"open", "write"} => call[c].kind \in Saving
        /\ call[c].at = "mem" => call[c].kind \in FromWindow
        /\ call[c].at \in {"detect", "remember", "note"} => call[c].kind \in {"probe", "recheck"}
        /\ call[c].at = "signIn" => call[c].kind = "flowSave"
        /\ call[c].at = "record" => call[c].kind = "connect"
        /\ call[c].kind = "discover" =>
              call[c].at \in {"request", "open", "write", "mem", "answer"}
        /\ call[c].at = "answer" => call[c].kind = "discover"
        /\ call[c].at \in {"remove", "forget", "default", "load", "dot"} =>
              call[c].kind = "reset"

LEMMA TypesStep == TypeOK /\ KindAt /\ [Next]_vars => TypeOK'
<1> SUFFICES ASSUME TypeOK, KindAt, [Next]_vars PROVE TypeOK'
  OBVIOUS
<1> USE DEF backend, timers, light, copy, window, bounds, history
\* What is left to show of a step of a call that touches no more than this.
<1>1. ASSUME call' \in [Call -> CallType], LightType',
             file' \in {Absent, Truncated, Garbled} \cup {Whole(cfg) : cfg \in Config},
             mem' \in Config, lastGood' \in Proxy \cup {None},
             win' \in Config, kept' \subseteq Call,
             stale' \in BOOLEAN, UNCHANGED <<form, timers, bounds, edited, alone, revived>>
      PROVE  TypeOK'
  BY <1>1 DEF TypeOK, CallType, LightType
<1>2. /\ LightType /\ call \in [Call -> CallType] /\ mem \in Config /\ win \in Config
      /\ file \in {Absent, Truncated, Garbled} \cup {Whole(cfg) : cfg \in Config}
      /\ lastGood \in Proxy \cup {None} /\ stale \in BOOLEAN /\ kept \subseteq Call
  BY DEF TypeOK, LightType, CallType
<1>3. ASSUME NEW s \in Server \cup {None}, Type(s) PROVE TypeOK'
  <2>1. edits' \in 0..MaxEdit
    BY <1>3 DEF Type, TypeOK
  <2>2. dot' \in {"idle", "checking", "up", "down"} /\ signin' \in BOOLEAN
    BY <1>3, SetDotTypes DEF Type
  <2> QED BY <1>3, <2>1, <2>2 DEF Type, TypeOK
<1>4. ASSUME NEW c \in Call, SaveTyped(c) \/ SaveOption(c) \/ PressConnect(c) PROVE TypeOK'
  <2>1. \E kind \in {"save", "connect"} : Save(c, kind)
    BY <1>4 DEF SaveTyped, SaveOption, PressConnect
  <2>2. edits' \in 0..MaxEdit /\ presses' \in 0..MaxPress /\ saveDue' \in BOOLEAN
    <3>1. CASE SaveTyped(c)    BY <3>1 DEF SaveTyped, TypeOK
    <3>2. CASE SaveOption(c)   BY <3>2 DEF SaveOption, TypeOK
    <3>3. CASE PressConnect(c) BY <3>3 DEF PressConnect, TypeOK
    <3> QED BY <1>4, <3>1, <3>2, <3>3
  <2> QED BY <2>1, <2>2, SaveTypes DEF Kind
<1>5. ASSUME NEW c \in Call, Probe(c) \/ Recheck(c) PROVE TypeOK'
  <2>1. PICK kind \in {"probe", "recheck"} : ProbeServer(c, kind)
    BY <1>5 DEF Probe, Recheck
  <2>2. presses' \in 0..MaxPress /\ probeDue' \in BOOLEAN
    <3>1. CASE Probe(c)   BY <3>1 DEF Probe, TypeOK
    <3>2. CASE Recheck(c) BY <3>2 DEF Recheck, TypeOK
    <3> QED BY <1>5, <3>1, <3>2
  <2>3. call' \in [Call -> CallType]
    <3>1. CASE form = None BY <1>2, <2>1, <3>1 DEF ProbeServer
    <3>2. CASE form # None
      <4>1. [mem EXCEPT !.base = form] \in Config
        BY ConfigTypes DEF TypeOK
      <4>2. Invoke(c, kind, "detect", [mem EXCEPT !.base = form])
        BY <2>1, <3>2 DEF ProbeServer
      <4>3. kind \in Kind /\ "detect" \in At
        BY DEF Kind, At
      <4> QED BY ONLY TypeOK, <4>1, <4>2, <4>3, InvokeTypes
    <3> QED BY <3>1, <3>2
  <2>4. LightType'
    BY <1>2, <2>1, SetDotTypes DEF ProbeServer, LightType
  <2> QED BY <2>1, <2>2, <2>3, <2>4 DEF ProbeServer, TypeOK, CallType, LightType
<1>a. CASE TypeOther
  <2>1. edits' \in 0..MaxEdit
    BY <1>a DEF TypeOther, TypeOK
  <2>2. LightType' /\ call' \in [Call -> CallType] /\ saveDue' \in BOOLEAN /\ alone' \in BOOLEAN
    BY <1>2, <1>a DEF TypeOther, LightType
  <2>3. /\ UNCHANGED <<file, mem, lastGood, form, win, kept, probeDue, presses, restarts, fails>>
        /\ UNCHANGED <<stale, edited, revived>>
    BY <1>a DEF TypeOther
  <2> QED BY <2>1, <2>2, <2>3 DEF TypeOK, LightType, CallType
<1>6. ASSUME NEW c \in Call, PressSignIn(c) PROVE TypeOK'
  <2>1. [mem EXCEPT !.base = form] \in Config
    BY ConfigTypes DEF TypeOK
  <2>2. call' \in [Call -> CallType]
    BY <1>6, <2>1, InvokeTypes DEF PressSignIn, Kind, At
  <2>3. stale' \in BOOLEAN /\ edited' \in BOOLEAN /\ kept' \subseteq Call
    BY <1>2, <1>6 DEF PressSignIn, Races
  <2>4. presses' \in 0..MaxPress
    BY <1>6 DEF PressSignIn, TypeOK
  <2> QED BY <1>6, <2>2, <2>3, <2>4 DEF PressSignIn, TypeOK, CallType
<1>7. ASSUME NEW c \in Call, PressReset(c) PROVE TypeOK'
  <2>1. call' \in [Call -> CallType]
    BY <1>7, ConfigTypes, InvokeTypes DEF PressReset, Kind, At
  <2>2. stale' \in BOOLEAN /\ alone' \in BOOLEAN
    BY <1>7 DEF PressReset, Races
  <2>3. presses' \in 0..MaxPress
    BY <1>7 DEF PressReset, TypeOK
  <2> QED BY <1>7, <2>1, <2>2, <2>3 DEF PressReset, TypeOK, CallType
<1>8. ASSUME NEW c \in Call, Open(c) PROVE TypeOK'
  <2>1. call' \in [Call -> CallType]
    BY <1>8, GotoTypes DEF Open, At
  <2> QED BY <1>8, <1>1, <1>2, <2>1 DEF Open, LightType
<1>9. ASSUME NEW c \in Call, Write(c) PROVE TypeOK'
  <2>1. file' \in {Absent, Truncated, Garbled} \cup {Whole(cfg) : cfg \in Config}
    BY <1>9, WrittenTypes DEF Write
  <2>2. \/ Answered(c, "up")
        \/ Returns(c) /\ UNCHANGED light
        \/ Goto(c, "mem") /\ UNCHANGED light
    BY <1>9 DEF Write
  <2>3. call' \in [Call -> CallType] /\ LightType'
    BY <1>2, <2>2, AnsweredTypes, ReturnsTypes, GotoTypes DEF LightType, At
  <2> QED BY <1>9, <1>1, <1>2, <2>1, <2>3 DEF Write
<1>10. ASSUME NEW c \in Call, SaveFails(c) PROVE TypeOK'
  <2>1. /\ fails' \in 0..MaxFail /\ stale' \in BOOLEAN /\ kept' \subseteq Call
        /\ UNCHANGED <<backend, form, win, timers, edits, presses, restarts,
                       edited, alone, revived>>
    BY <1>10 DEF SaveFails, TypeOK
  <2>2. \/ Answered(c, "up")
        \/ Returns(c) /\ UNCHANGED light
        \/ Returns(c) /\ signin' = TRUE /\ UNCHANGED <<newest, dot, about>>
        \/ \E to \in {"signIn", "record"} : Goto(c, to) /\ UNCHANGED light
    <3>1. call[c].kind \in Saving
      BY <1>10 DEF SaveFails, KindAt
    <3> QED BY <1>10, <3>1 DEF SaveFails, Checking, Saving
  <2>3. call' \in [Call -> CallType] /\ LightType'
    BY <1>2, <2>2, AnsweredTypes, ReturnsTypes, GotoTypes DEF LightType, At
  <2> QED BY <2>1, <2>3 DEF TypeOK, CallType, LightType
<1>11. ASSUME NEW c \in Call, SetMem(c) PROVE TypeOK'
  <2>1. mem' \in Config
    BY <1>11 DEF SetMem, TypeOK
  <2>2. call[c].kind \in FromWindow
    BY <1>11 DEF SetMem, KindAt
  <2>3. Returns(c) \/ \E to \in {"signIn", "record", "answer"} : Goto(c, to)
    BY <1>11, <2>2 DEF SetMem, FromWindow
  <2>4. call' \in [Call -> CallType]
    BY <2>3, ReturnsTypes, GotoTypes DEF At
  <2> QED BY <1>11, <1>1, <1>2, <2>1, <2>4 DEF SetMem, LightType
<1>b. ASSUME NEW c \in Call, SaveDiscovered(c) PROVE TypeOK'
  <2>1. call[c].cfg.oidc \in Server \cup {None}
    BY DEF TypeOK, Config
  <2>2. win' \in Config
    BY <1>b, <2>1, FormTypes, ConfigTypes DEF SaveDiscovered
  <2>3. call' = [call EXCEPT ![c] = [Idle EXCEPT !.kind = "flowSave", !.at = "open",
                                                 !.cfg = win']]
    BY <1>b DEF SaveDiscovered
  <2>4. ASSUME NEW cfg \in Config
        PROVE  [Idle EXCEPT !.kind = "flowSave", !.at = "open", !.cfg = cfg] \in CallType
    BY ConfigTypes DEF Idle, CallType, Kind, At
  <2>5. call' \in [Call -> CallType]
    BY <1>2, <2>2, <2>3, <2>4
  <2>6. stale' \in BOOLEAN /\ kept' \subseteq Call
    BY <1>b DEF SaveDiscovered, Replaces, Others
  <2> QED BY <1>b, <1>1, <1>2, <2>2, <2>5, <2>6 DEF SaveDiscovered, LightType
<1>12. ASSUME NEW c \in Call, DiscoverAnswers(c) PROVE TypeOK'
  <2>1. call[c].cfg.base \in Server \cup {None} /\ call[c].cfg \in Config
    BY DEF TypeOK, Config
  <2>2. [call[c].cfg EXCEPT !.oidc = call[c].cfg.base] \in Config
    BY <2>1, ConfigTypes
  <2>3. call' \in [Call -> CallType]
    <3>1. call' = [call EXCEPT ![c].at = "open", ![c].cfg.oidc = call[c].cfg.base]
      BY <1>12 DEF DiscoverAnswers
    <3>2. \A d \in Call \ {c} : call'[d] = call[d]
      BY <1>2, <3>1
    <3>3. call'[c] = [kind |-> call[c].kind, at |-> "open", via |-> call[c].via,
                      cfg |-> [call[c].cfg EXCEPT !.oidc = call[c].cfg.base]]
      BY <1>2, <3>1 DEF CallType
    <3>4. call'[c] \in CallType
      BY <1>2, <2>2, <3>3 DEF CallType, At
    <3> QED BY <1>2, <3>1, <3>2, <3>4
  <2> QED BY <1>12, <1>1, <1>2, <2>3 DEF DiscoverAnswers, LightType
<1>13. ASSUME NEW c \in Call, DiscoverFails(c) \/ SignIn(c) PROVE TypeOK'
  <2>1. call' \in [Call -> CallType]
    BY <1>13, ReturnsTypes DEF DiscoverFails, SignIn
  <2> QED BY <1>13, <1>1, <1>2, <2>1 DEF DiscoverFails, SignIn, LightType
<1>14. ASSUME NEW c \in Call, NoteRecord(c) PROVE TypeOK'
  <2>1. call' \in [Call -> CallType]
    BY <1>2, <1>14 DEF NoteRecord, CallType, Kind, At
  <2>2. stale' \in BOOLEAN
    BY <1>14 DEF NoteRecord, Races
  <2> QED BY <1>14, <1>1, <1>2, <2>1, <2>2 DEF NoteRecord, LightType
<1>15. ASSUME NEW c \in Call, NoRecord(c) PROVE TypeOK'
  <2>1. call' \in [Call -> CallType]
    BY <1>15, ReturnsTypes DEF NoRecord
  <2> QED BY <1>15, <1>1, <1>2, <2>1 DEF NoRecord, LightType
<1>16. ASSUME NEW c \in Call, Detect(c) PROVE TypeOK'
  <2>1. PICK p \in DetectFor : call' = [call EXCEPT ![c].at = "request", ![c].via = p]
    BY <1>16 DEF Detect
  <2>2. p \in Proxy \cup {None}
    BY <1>2, <2>1 DEF DetectFor
  <2>3. call' \in [Call -> CallType]
    <3>1. /\ \A d \in Call \ {c} : call'[d] = call[d]
          /\ call'[c] = [kind |-> call[c].kind, at |-> "request", via |-> p,
                         cfg |-> call[c].cfg]
      BY <1>2, <2>1 DEF CallType
    <3>2. call'[c] \in CallType
      BY <1>2, <2>2, <3>1 DEF CallType, At
    <3> QED BY <1>2, <2>1, <3>1, <3>2
  <2> QED BY <1>16, <1>1, <1>2, <2>3 DEF Detect, LightType
<1>17. ASSUME NEW c \in Call, CheckAnswers(c) \/ CheckFails(c) PROVE TypeOK'
  <2>1. \/ \E state \in {"up", "down"} : Answered(c, state)
        \/ Goto(c, "remember") /\ UNCHANGED light
    BY <1>17 DEF CheckAnswers, CheckFails
  <2>2. call' \in [Call -> CallType] /\ LightType'
    BY <1>2, <2>1, AnsweredTypes, GotoTypes DEF LightType, At
  <2> QED BY <1>17, <1>1, <1>2, <2>2 DEF CheckAnswers, CheckFails
<1>18. ASSUME NEW c \in Call, Remember(c) PROVE TypeOK'
  <2>1. call' \in [Call -> CallType] /\ lastGood' \in Proxy \cup {None}
    BY <1>2, <1>18, GotoTypes DEF Remember, At, CallType
  <2> QED BY <1>18, <1>1, <1>2, <2>1 DEF Remember, LightType
<1>19. ASSUME NEW c \in Call, Note(c) PROVE TypeOK'
  <2>1. mem' \in Config
    BY <1>2, <1>19, ConfigTypes DEF Note, CallType
  <2>2. \/ Answered(c, "up") /\ UNCHANGED stale
        \/ Goto(c, "open") /\ UNCHANGED light /\ Races(c)
    BY <1>19 DEF Note
  <2>3. call' \in [Call -> CallType] /\ LightType' /\ stale' \in BOOLEAN
    BY <1>2, <2>2, AnsweredTypes, GotoTypes DEF LightType, At, Races
  <2> QED BY <1>19, <1>1, <1>2, <2>1, <2>3 DEF Note
<1>20. ASSUME NEW c \in Call, RemoveFile(c) \/ Forget(c) \/ SetDefault(c) PROVE TypeOK'
  <2>1. call' \in [Call -> CallType]
    BY <1>20, GotoTypes DEF RemoveFile, Forget, SetDefault, At
  <2> QED BY <1>20, <1>1, <1>2, <2>1, ConfigTypes DEF RemoveFile, Forget, SetDefault, LightType
<1>21. ASSUME NEW c \in Call, FillForm(c) PROVE TypeOK'
  <2>1. call' \in [Call -> CallType]
    BY <1>21, GotoTypes DEF FillForm, At
  <2>2. win' \in Config /\ form' \in Server \cup {None} /\ kept' \subseteq Call
    BY <1>2, <1>21 DEF FillForm, Config
  <2>3. revived' \in BOOLEAN
    BY <1>21 DEF FillForm
  <2> QED BY <1>21, <2>1, <2>2, <2>3 DEF FillForm, TypeOK, CallType
<1>c. ASSUME NEW c \in Call, ResetShown(c) PROVE TypeOK'
  <2>1. call' \in [Call -> CallType]
    BY <1>c, ReturnsTypes DEF ResetShown
  <2>2. dot' \in {"idle", "checking", "up", "down"} /\ signin' \in BOOLEAN
    BY <1>c, SetDotTypes DEF ResetShown
  <2> QED BY <1>c, <1>1, <1>2, <2>1, <2>2 DEF ResetShown, LightType
<1>22. CASE Restart
  <2>1. call' \in [Call -> CallType]
    BY <1>22, ConfigTypes DEF Restart
  <2>2. /\ mem' \in Config /\ win' \in Config /\ lastGood' \in Proxy \cup {None}
        /\ form' \in Server \cup {None} /\ kept' \subseteq Call
    BY <1>22, LoadTypes DEF Restart, Config
  <2>3. dot' \in {"idle", "checking", "up", "down"} /\ signin' \in BOOLEAN
    BY <1>22, SetDotTypes DEF Restart
  <2>4. restarts' \in 0..MaxRestart
    BY <1>22 DEF Restart, TypeOK
  <2>5. probeDue' \in BOOLEAN
    BY <1>22 DEF Restart
  <2> QED BY <1>22, <2>1, <2>2, <2>3, <2>4, <2>5 DEF Restart, TypeOK, CallType
<1>23. CASE UNCHANGED vars
  BY <1>23 DEF vars, TypeOK
<1> QED
  BY <1>3, <1>4, <1>5, <1>6, <1>7, <1>8, <1>9, <1>10, <1>11, <1>12, <1>13, <1>14, <1>15,
     <1>16, <1>17, <1>18, <1>19, <1>20, <1>21, <1>22, <1>23, <1>a, <1>b, <1>c
  DEF Next, Work

LEMMA KindStep == TypeOK /\ KindAt /\ [Next]_vars => KindAt'
<1> SUFFICES ASSUME TypeOK, KindAt, [Next]_vars PROVE KindAt'
  OBVIOUS
<1> USE DEF backend, timers, light, copy, window, bounds, history, Saving, FromWindow
<1>1. ASSUME UNCHANGED call PROVE KindAt'
  BY <1>1 DEF KindAt
<1>2. ASSUME NEW c \in Call, Returns(c) PROVE KindAt'
  BY <1>2, ReturnsTypes DEF KindAt, Idle
<1>3. ASSUME NEW c \in Call, NEW to \in At, Goto(c, to),
             to \in {"open", "write"} => call[c].kind \in Saving,
             to = "mem" => call[c].kind \in FromWindow,
             to = "signIn" => call[c].kind = "flowSave",
             to = "record" => call[c].kind = "connect",
             call[c].kind = "discover" => to \in {"open", "write", "mem", "answer"},
             to = "answer" => call[c].kind = "discover",
             to \in {"detect", "remember", "note"} => call[c].kind \in {"probe", "recheck"},
             to \in {"remove", "forget", "default", "load", "dot"} => call[c].kind = "reset"
      PROVE  KindAt'
  BY <1>3, GotoTypes DEF KindAt
<1>4. ASSUME NEW c \in Call, NEW kind \in Kind, NEW at \in {"open", "detect", "request"},
             NEW cfg \in Config, Invoke(c, kind, at, cfg), at = "open" => kind \in Saving,
             at = "detect" => kind \in {"probe", "recheck"}, kind = "discover" => at = "request"
      PROVE  KindAt'
  BY <1>4, InvokeTypes DEF KindAt, At
<1>5. ASSUME NEW c \in Call, NEW state, Answered(c, state) PROVE KindAt'
  BY <1>2, <1>5 DEF Answered
<1>6. ASSUME NEW s, Type(s) \/ TypeOther PROVE KindAt'
  BY <1>1, <1>6 DEF Type, TypeOther
<1>7. ASSUME NEW c \in Call, SaveTyped(c) \/ SaveOption(c) \/ PressConnect(c) PROVE KindAt'
  <2>1. \E kind \in {"save", "connect"} : Invoke(c, kind, "open", Form)
    BY <1>7 DEF SaveTyped, SaveOption, PressConnect, Save
  <2> QED BY <1>4, <2>1, FormTypes DEF Kind
<1>8. ASSUME NEW c \in Call, Probe(c) \/ Recheck(c) PROVE KindAt'
  <2>1. [mem EXCEPT !.base = form] \in Config
    BY ConfigTypes DEF TypeOK
  <2>2. \/ UNCHANGED call
        \/ \E kind \in {"probe", "recheck"} :
              Invoke(c, kind, "detect", [mem EXCEPT !.base = form])
    BY <1>8 DEF Probe, Recheck, ProbeServer
  <2> QED BY <1>1, <1>4, <2>1, <2>2 DEF Kind
<1>9. ASSUME NEW c \in Call, PressSignIn(c) PROVE KindAt'
  <2>1. [mem EXCEPT !.base = form] \in Config
    BY ConfigTypes DEF TypeOK
  <2> QED BY <1>4, <1>9, <2>1 DEF PressSignIn, Kind
<1>10. ASSUME NEW c \in Call, PressReset(c) PROVE KindAt'
  <2>1. Invoke(c, "reset", "remove", Default) /\ Default \in Config
    BY <1>10, ConfigTypes DEF PressReset
  <2>2. /\ call'[c].kind = "reset" /\ call'[c].at = "remove"
        /\ \A d \in Call \ {c} : call'[d] = call[d]
    BY <2>1, InvokeTypes DEF Kind, At
  <2> QED BY <2>2 DEF KindAt
<1>11. ASSUME NEW c \in Call, Open(c) PROVE KindAt'
  BY <1>3, <1>11 DEF Open, At, KindAt
<1>12. ASSUME NEW c \in Call, Write(c) PROVE KindAt'
  <2>1. CASE Checking(c) \/ call[c].kind = "start"
    BY <1>2, <1>5, <1>12, <2>1 DEF Write, Checking
  <2>2. CASE ~Checking(c) /\ call[c].kind # "start"
    <3>1. Goto(c, "mem")
      BY <1>12, <2>2 DEF Write
    <3>2. call[c].kind \in FromWindow
      BY <1>12, <2>2 DEF Write, KindAt, Checking
    <3> QED BY <1>3, <3>1, <3>2 DEF At
  <2> QED BY <2>1, <2>2
<1>13. ASSUME NEW c \in Call, SaveFails(c) PROVE KindAt'
  <2>1. call[c].kind \in Saving
    BY <1>13 DEF SaveFails, KindAt
  <2>2. \/ Answered(c, "up") \/ Returns(c)
        \/ call[c].kind = "flowSave" /\ Goto(c, "signIn")
        \/ call[c].kind = "connect" /\ Goto(c, "record")
    BY <1>13, <2>1 DEF SaveFails, Checking
  <2> QED BY <1>2, <1>3, <1>5, <2>2 DEF At
<1>14. ASSUME NEW c \in Call, SetMem(c) PROVE KindAt'
  <2>1. call[c].kind \in FromWindow
    BY <1>14 DEF SetMem, KindAt
  <2>2. \/ Returns(c)
        \/ call[c].kind = "flowSave" /\ Goto(c, "signIn")
        \/ call[c].kind = "connect" /\ Goto(c, "record")
        \/ call[c].kind = "discover" /\ Goto(c, "answer")
    BY <1>14, <2>1 DEF SetMem
  <2> QED BY <1>2, <1>3, <2>1, <2>2 DEF At
<1>a. ASSUME NEW c \in Call, SaveDiscovered(c) PROVE KindAt'
  <2>1. call' = [call EXCEPT ![c] = [Idle EXCEPT !.kind = "flowSave", !.at = "open",
                                                 !.cfg = win']]
    BY <1>a DEF SaveDiscovered
  <2>2. call'[c].kind = "flowSave" /\ call'[c].at = "open"
    BY <2>1 DEF TypeOK, Idle
  <2>3. \A d \in Call \ {c} : call'[d] = call[d]
    BY <2>1 DEF TypeOK
  <2> QED BY <2>2, <2>3 DEF KindAt
<1>15. ASSUME NEW c \in Call, DiscoverAnswers(c) PROVE KindAt'
  <2>1. /\ call' = [call EXCEPT ![c].at = "open", ![c].cfg.oidc = call[c].cfg.base]
        /\ call[c].kind = "discover"
    BY <1>15 DEF DiscoverAnswers
  <2>2. call'[c].kind = "discover" /\ call'[c].at = "open"
    BY <2>1 DEF TypeOK
  <2>3. \A d \in Call \ {c} : call'[d] = call[d]
    BY <2>1 DEF TypeOK
  <2> QED BY <2>2, <2>3 DEF KindAt
<1>16. ASSUME NEW c \in Call,
              DiscoverFails(c) \/ SignIn(c) \/ NoRecord(c) \/ CheckFails(c) \/ ResetShown(c)
       PROVE  KindAt'
  BY <1>2, <1>5, <1>16 DEF DiscoverFails, SignIn, NoRecord, CheckFails, ResetShown
<1>17. ASSUME NEW c \in Call, NoteRecord(c) PROVE KindAt'
  <2>1. call' = [call EXCEPT ![c].kind = "start", ![c].at = "open"]
    BY <1>17 DEF NoteRecord
  <2>2. call'[c].kind = "start" /\ call'[c].at = "open"
    BY <2>1 DEF TypeOK
  <2>3. \A d \in Call \ {c} : call'[d] = call[d]
    BY <2>1 DEF TypeOK
  <2> QED BY <2>2, <2>3 DEF KindAt
<1>18. ASSUME NEW c \in Call, Detect(c) PROVE KindAt'
  <2>1. PICK p \in DetectFor : call' = [call EXCEPT ![c].at = "request", ![c].via = p]
    BY <1>18 DEF Detect
  <2>2. call'[c].at = "request" /\ \A d \in Call \ {c} : call'[d] = call[d]
    BY <2>1 DEF TypeOK
  <2> QED BY <2>2 DEF KindAt
<1>19. ASSUME NEW c \in Call, CheckAnswers(c) \/ Remember(c) \/ Note(c) PROVE KindAt'
  <2>1. call[c].kind \in {"probe", "recheck"}
    BY <1>19 DEF CheckAnswers, Remember, Note, KindAt, Checking
  <2>2. \/ Answered(c, "up")
        \/ Goto(c, "remember") \/ Goto(c, "note") \/ Goto(c, "open")
    BY <1>19 DEF CheckAnswers, Remember, Note
  <2> QED BY <1>3, <1>5, <2>1, <2>2 DEF At
<1>20. ASSUME NEW c \in Call, RemoveFile(c) \/ Forget(c) \/ SetDefault(c) \/ FillForm(c)
       PROVE  KindAt'
  <2>1. /\ call[c].kind = "reset"
        /\ Goto(c, "forget") \/ Goto(c, "default") \/ Goto(c, "load") \/ Goto(c, "dot")
    BY <1>20 DEF RemoveFile, Forget, SetDefault, FillForm, KindAt
  <2> QED BY <1>3, <2>1 DEF At
<1>21. CASE Restart
  BY <1>21 DEF Restart, KindAt, Idle
<1>22. CASE UNCHANGED vars
  BY <1>1, <1>22 DEF vars
<1> QED
  BY <1>6, <1>7, <1>8, <1>9, <1>10, <1>11, <1>12, <1>13, <1>14, <1>15, <1>16, <1>17,
     <1>18, <1>19, <1>20, <1>21, <1>22, <1>a
  DEF Next, Work

-----------------------------------------------------------------------------
(* What the window says of a server. *)

\* The probe with the newest number is under way, and is of the address typed
\* unless that is to be probed anew or survived a reset.
DotInv ==
    /\ newest # NoCall => Checking(newest)
    /\ newest # NoCall /\ ~probeDue /\ form # None /\ ~revived => call[newest].cfg.base = form
    /\ DotIsAboutForm
    /\ CheckingIsPending

\* What does not touch the newest probe, the light or the address.
LEMMA DotRests ==
    ASSUME TypeOK, DotInv, UNCHANGED <<form, probeDue, revived, newest, dot, about>>,
           newest # NoCall => /\ call'[newest].kind = call[newest].kind
                              /\ call'[newest].cfg.base = call[newest].cfg.base
    PROVE  DotInv'
BY DEF DotInv, DotIsAboutForm, CheckingIsPending, Checking, TypeOK

\* A call that is no probe leaves the newest probe alone.
LEMMA OtherRests ==
    ASSUME TypeOK, DotInv, UNCHANGED <<form, probeDue, revived, newest, dot, about>>,
           NEW c \in Call, ~Checking(c), \A d \in Call \ {c} : call'[d] = call[d]
    PROVE  DotInv'
<1>1. newest # NoCall => newest \in Call \ {c}
  BY DEF DotInv, TypeOK
<1> QED BY <1>1, DotRests

LEMMA GotoRests ==
    ASSUME TypeOK, DotInv, UNCHANGED <<form, probeDue, revived, newest, dot, about>>,
           NEW c \in Call, NEW to \in At, Goto(c, to)
    PROVE  DotInv'
<1>1. newest # NoCall => newest \in Call
  BY DEF TypeOK
<1> QED BY <1>1, GotoTypes, DotRests

LEMMA AnsweredRests ==
    ASSUME TypeOK, DotInv, UNCHANGED <<form, probeDue, revived>>,
           NEW c \in Call, NEW state \in {"up", "down"}, Answered(c, state)
    PROVE  DotInv'
<1>1. CASE newest = c
  <2>1. dot' = state /\ newest' = NoCall /\ about' = call[c].cfg.base
    BY <1>1 DEF Answered, SetDot
  <2>2. newest # NoCall
    BY <1>1
  <2> QED BY <1>1, <2>1, <2>2 DEF DotInv, DotIsAboutForm, CheckingIsPending
<1>2. CASE newest # c
  <2>1. newest # NoCall => newest \in Call \ {c}
    BY <1>2 DEF TypeOK
  <2>2. \A d \in Call \ {c} : call'[d] = call[d]
    BY ReturnsTypes DEF Answered
  <2>3. UNCHANGED <<newest, dot, about>>
    BY <1>2 DEF Answered, light
  <2> QED BY <2>1, <2>2, <2>3, DotRests
<1> QED BY <1>1, <1>2

LEMMA DotStep == TypeOK /\ KindAt /\ DotInv /\ [Next]_vars => DotInv'
<1> SUFFICES ASSUME TypeOK, KindAt, DotInv, [Next]_vars PROVE DotInv'
  OBVIOUS
<1> USE DEF backend, timers, light, copy, window, bounds, history, FromWindow
<1>1. ASSUME NEW s, Type(s) PROVE DotInv'
  <2>1. probeDue' /\ dot' = "checking" /\ newest' = newest /\ call' = call
    BY <1>1 DEF Type, SetDot
  <2> QED BY <2>1 DEF DotInv, DotIsAboutForm, CheckingIsPending, Checking
<1>a. CASE TypeOther
  <2>1. UNCHANGED <<form, probeDue, revived, newest, dot, about, call>>
    BY <1>a DEF TypeOther
  <2> QED BY <2>1, DotRests
<1>2. ASSUME NEW c \in Call, NEW kind \in Kind \ {"probe", "recheck"}, NEW at \in At,
             NEW cfg \in Config, Invoke(c, kind, at, cfg),
             UNCHANGED <<form, probeDue, revived, newest, dot, about>>
      PROVE  DotInv'
  <2>1. ~Checking(c)
    BY <1>2 DEF Invoke, Checking, Idle
  <2> QED BY <1>2, <2>1, InvokeTypes, OtherRests
<1>3. ASSUME NEW c \in Call, SaveTyped(c) \/ SaveOption(c) \/ PressConnect(c) PROVE DotInv'
  <2>1. /\ \E kind \in {"save", "connect"} : Invoke(c, kind, "open", Form)
        /\ UNCHANGED <<form, probeDue, revived, newest, dot, about>>
    BY <1>3 DEF SaveTyped, SaveOption, PressConnect, Save
  <2> QED BY <1>2, <2>1, FormTypes DEF Kind, At
<1>4. ASSUME NEW c \in Call, Probe(c) \/ Recheck(c) PROVE DotInv'
  <2>1. PICK kind \in {"probe", "recheck"} : ProbeServer(c, kind)
    BY <1>4 DEF Probe, Recheck
  <2>2. UNCHANGED <<form, revived>>
    BY <2>1 DEF ProbeServer
  <2>3. CASE form = None
    <3>1. dot' = "idle" /\ newest' = newest /\ call' = call /\ form' = None
      BY <2>1, <2>2, <2>3 DEF ProbeServer, SetDot
    <3> QED BY <3>1 DEF DotInv, DotIsAboutForm, CheckingIsPending, Checking
  <2>4. CASE form # None
    <3>1. dot' = "checking" /\ newest' = c
      BY <2>1, <2>4 DEF ProbeServer, SetDot
    <3>2. [mem EXCEPT !.base = form] \in Config /\ [mem EXCEPT !.base = form].base = form
      BY ConfigTypes DEF TypeOK
    <3>3. Invoke(c, kind, "detect", [mem EXCEPT !.base = form])
      BY <2>1, <2>4 DEF ProbeServer
    <3>4. call'[c].kind = kind /\ call'[c].cfg = [mem EXCEPT !.base = form]
      BY <3>2, <3>3, InvokeTypes DEF Kind, At
    <3> QED BY <2>2, <3>1, <3>2, <3>4 DEF DotInv, DotIsAboutForm, CheckingIsPending, Checking
  <2> QED BY <2>3, <2>4
<1>5. ASSUME NEW c \in Call, PressSignIn(c) \/ PressReset(c) PROVE DotInv'
  <2>1. UNCHANGED <<form, probeDue, revived, newest, dot, about>>
    BY <1>5 DEF PressSignIn, PressReset
  <2>2. \/ Invoke(c, "discover", "request", [mem EXCEPT !.base = form])
        \/ Invoke(c, "reset", "remove", Default)
    BY <1>5 DEF PressSignIn, PressReset
  <2>3. [mem EXCEPT !.base = form] \in Config /\ Default \in Config
    BY ConfigTypes DEF TypeOK
  <2> QED BY <1>2, <2>1, <2>2, <2>3 DEF Kind, At
<1>6. ASSUME NEW c \in Call, ~Checking(c), Returns(c),
             UNCHANGED <<form, probeDue, revived, newest, dot, about>>
      PROVE  DotInv'
  BY <1>6, ReturnsTypes, OtherRests
<1>7. ASSUME NEW c \in Call, Open(c) \/ Remember(c) \/ RemoveFile(c) \/ Forget(c) \/ SetDefault(c)
      PROVE  DotInv'
  <2>1. UNCHANGED <<form, probeDue, revived, newest, dot, about>>
    BY <1>7 DEF Open, Remember, RemoveFile, Forget, SetDefault
  <2>2. \E to \in At : Goto(c, to)
    BY <1>7 DEF Open, Remember, RemoveFile, Forget, SetDefault, At
  <2> QED BY <2>1, <2>2, GotoRests
<1>8. ASSUME NEW c \in Call, Write(c) \/ SaveFails(c) PROVE DotInv'
  <2>1. UNCHANGED <<form, probeDue, revived>>
    BY <1>8 DEF Write, SaveFails
  <2>2. call[c].kind \in Saving
    BY <1>8 DEF Write, SaveFails, KindAt
  <2>3. \/ Answered(c, "up")
        \/ ~Checking(c) /\ Returns(c) /\ UNCHANGED <<newest, dot, about>>
        \/ (\E to \in At : Goto(c, to)) /\ UNCHANGED <<newest, dot, about>>
    BY <1>8, <2>2 DEF Write, SaveFails, Checking, Saving, At
  <2> QED BY <1>6, <2>1, <2>3, AnsweredRests, GotoRests
<1>9. ASSUME NEW c \in Call, SetMem(c) PROVE DotInv'
  <2>1. UNCHANGED <<form, probeDue, revived, newest, dot, about>>
    BY <1>9 DEF SetMem
  <2>2. call[c].kind \in FromWindow
    BY <1>9 DEF SetMem, KindAt
  <2>3. \A d \in Call \ {c} : call'[d] = call[d]
    BY <1>9, <2>2 DEF SetMem, Returns, Goto, TypeOK
  <2> QED BY <2>1, <2>2, <2>3, OtherRests DEF Checking
<1>b. ASSUME NEW c \in Call, SaveDiscovered(c) PROVE DotInv'
  <2>1. UNCHANGED <<form, probeDue, revived, newest, dot, about>>
    BY <1>b DEF SaveDiscovered
  <2>2. ~Checking(c)
    BY <1>b DEF SaveDiscovered, KindAt, Checking
  <2>3. \A d \in Call \ {c} : call'[d] = call[d]
    BY <1>b DEF SaveDiscovered, TypeOK
  <2> QED BY <2>1, <2>2, <2>3, OtherRests
<1>10. ASSUME NEW c \in Call, DiscoverAnswers(c) \/ NoteRecord(c) PROVE DotInv'
  <2>1. UNCHANGED <<form, probeDue, revived, newest, dot, about>>
    BY <1>10 DEF DiscoverAnswers, NoteRecord
  <2>2. ~Checking(c)
    BY <1>10 DEF DiscoverAnswers, NoteRecord, KindAt, Checking
  <2>3. \A d \in Call \ {c} : call'[d] = call[d]
    BY <1>10 DEF DiscoverAnswers, NoteRecord, TypeOK
  <2> QED BY <2>1, <2>2, <2>3, OtherRests
<1>11. ASSUME NEW c \in Call, DiscoverFails(c) \/ SignIn(c) \/ NoRecord(c) PROVE DotInv'
  <2>1. UNCHANGED <<form, probeDue, revived, newest, dot, about>> /\ Returns(c)
    BY <1>11 DEF DiscoverFails, SignIn, NoRecord
  <2>2. ~Checking(c)
    BY <1>11 DEF DiscoverFails, SignIn, NoRecord, KindAt, Checking
  <2> QED BY <1>6, <2>1, <2>2
<1>12. ASSUME NEW c \in Call, Detect(c) PROVE DotInv'
  <2>1. PICK p \in DetectFor : call' = [call EXCEPT ![c].at = "request", ![c].via = p]
    BY <1>12 DEF Detect
  <2>2. \A d \in Call : call'[d].kind = call[d].kind /\ call'[d].cfg = call[d].cfg
    BY <2>1 DEF TypeOK
  <2>3. newest # NoCall => newest \in Call
    BY DEF TypeOK
  <2>4. UNCHANGED <<form, probeDue, revived, newest, dot, about>>
    BY <1>12 DEF Detect
  <2> QED BY <2>2, <2>3, <2>4, DotRests
<1>13. ASSUME NEW c \in Call, CheckAnswers(c) \/ CheckFails(c) \/ Note(c) PROVE DotInv'
  <2>1. UNCHANGED <<form, probeDue, revived>>
    BY <1>13 DEF CheckAnswers, CheckFails, Note
  <2>2. \/ \E state \in {"up", "down"} : Answered(c, state)
        \/ (\E to \in At : Goto(c, to)) /\ UNCHANGED <<newest, dot, about>>
    BY <1>13 DEF CheckAnswers, CheckFails, Note, At
  <2> QED BY <2>1, <2>2, AnsweredRests, GotoRests
<1>14. ASSUME NEW c \in Call, FillForm(c) PROVE DotInv'
  <2>1. /\ UNCHANGED <<dot, newest, about, probeDue>> /\ revived' = (form' # None)
        /\ Goto(c, "dot")
    BY <1>14 DEF FillForm
  <2>2. \A d \in Call : call'[d].kind = call[d].kind
    BY <2>1, GotoTypes DEF At
  <2>3. newest # NoCall => newest \in Call
    BY DEF TypeOK
  <2> QED BY <2>1, <2>2, <2>3 DEF DotInv, DotIsAboutForm, CheckingIsPending, Checking
<1>c. ASSUME NEW c \in Call, ResetShown(c) PROVE DotInv'
  <2>1. /\ dot' = "idle" /\ UNCHANGED <<newest, form, revived, probeDue>>
        /\ call[c].kind = "reset" /\ Returns(c)
    BY <1>c DEF ResetShown, SetDot, KindAt
  <2>2. newest # NoCall => newest \in Call \ {c}
    BY <2>1 DEF DotInv, Checking, TypeOK
  <2>3. \A d \in Call \ {c} : call'[d] = call[d]
    BY <2>1, ReturnsTypes
  <2> QED BY <2>1, <2>2, <2>3 DEF DotInv, DotIsAboutForm, CheckingIsPending, Checking
<1>15. CASE Restart
  <2>1. dot' = "idle" /\ newest' = NoCall
    BY <1>15 DEF Restart, SetDot
  <2> QED BY <2>1 DEF DotInv, DotIsAboutForm, CheckingIsPending
<1>16. CASE UNCHANGED vars
  <2>1. UNCHANGED <<form, probeDue, revived, newest, dot, about, call>>
    BY <1>16 DEF vars
  <2> QED BY <2>1, DotRests
<1> QED
  BY <1>1, <1>3, <1>4, <1>5, <1>7, <1>8, <1>9, <1>10, <1>11, <1>12, <1>13, <1>14, <1>15,
     <1>16, <1>a, <1>b, <1>c
  DEF Next, Work

-----------------------------------------------------------------------------
(* That the file, the app and the window agree. *)

Agree == Load(file) = mem /\ mem.base = win.base

\* What a writer that no other crossed finds, and leaves at each step.
Stage(c) ==
    /\ call[c].kind \in {"save", "connect", "flowSave"} =>
          /\ call[c].cfg.base = win.base
          /\ call[c].at = "write" => file = Truncated
          /\ call[c].at = "mem" => Load(file) = call[c].cfg
    /\ call[c].kind = "discover" /\ call[c].at = "request" => Agree
    /\ SavesMem(c) => mem.base = win.base /\ (call[c].at = "write" => file = Truncated)
    /\ call[c].at \in {"forget", "default", "load"} => file = Absent
    /\ call[c].at = "load" => mem = Default

\* The window has what was typed unless a save is due; and unless writers ran
\* together there is one at most, at its stage, and with none all agree.
SavesInv ==
    /\ ~saveDue => win.base = form
    /\ ~stale => /\ \A c, d \in Call : Writing(c) /\ Writing(d) => c = d
                 /\ \A c \in Call : Writing(c) => Stage(c)
                 /\ (\A c \in Call : ~Writing(c)) => Agree

\* No writer moves.
LEMMA SavesRest ==
    ASSUME SavesInv, UNCHANGED <<file, mem, win>>, ~stale' => ~stale,
           ~saveDue' => ~saveDue /\ form' = form,
           \A c \in Call : Writing(c) \/ Writing(c)' => call'[c] = call[c]
    PROVE  SavesInv'
<1>1. \A c \in Call : Writing(c)' <=> Writing(c)
  BY DEF Writing
<1>2. ~saveDue' => win'.base = form'
  BY DEF SavesInv
<1>3. ASSUME ~stale', NEW c \in Call, Writing(c)' PROVE Stage(c)'
  <2>1. Stage(c) /\ call'[c] = call[c]
    BY <1>1, <1>3 DEF SavesInv
  <2> QED BY <2>1 DEF Stage, SavesMem, Checking, Agree
<1>4. ~stale' => ((\A c \in Call : ~Writing(c)') => Agree')
  BY <1>1 DEF SavesInv, Agree
<1> QED BY <1>1, <1>2, <1>3, <1>4 DEF SavesInv

\* One writer moves, or a call becomes one.
LEMMA SavesMove ==
    ASSUME NEW c \in Call, \A d \in Call \ {c} : call'[d] = call[d],
           ~saveDue' => win'.base = form',
           ~stale' => /\ \A d \in Call \ {c} : ~Writing(d)
                      /\ Writing(c)' => Stage(c)'
                      /\ ~Writing(c)' => Agree'
    PROVE  SavesInv'
<1>1. ~stale' => \A d \in Call \ {c} : ~Writing(d)'
  BY DEF Writing
<1> QED BY <1>1 DEF SavesInv

LEMMA SavesStep == TypeOK /\ KindAt /\ SavesInv /\ [Next]_vars => SavesInv'
<1> SUFFICES ASSUME TypeOK, KindAt, SavesInv, [Next]_vars PROVE SavesInv'
  OBVIOUS
<1> USE DEF backend, timers, light, copy, window, bounds, history
<1>0. saveDue \in BOOLEAN /\ stale \in BOOLEAN
  BY DEF TypeOK
<1>1. ASSUME UNCHANGED <<file, mem, win, call>>, ~stale' => ~stale,
             ~saveDue' => ~saveDue /\ form' = form
      PROVE  SavesInv'
  BY <1>1, SavesRest
\* A call that is no writer, before or after.
<1>2. ASSUME NEW c \in Call, \A d \in Call \ {c} : call'[d] = call[d],
             ~Writing(c), ~Writing(c)', UNCHANGED <<file, mem, win, stale, saveDue, form>>
      PROVE  SavesInv'
  BY <1>2, SavesRest
\* What is known of a writer.
<1>3. ASSUME NEW c \in Call, Writing(c), ~stale
      PROVE  Stage(c) /\ \A d \in Call \ {c} : ~Writing(d)
  BY <1>3 DEF SavesInv
<1>4. ASSUME NEW c \in Call, ~Writing(c), ~stale, ~Others(c) PROVE Agree
  BY <1>4 DEF SavesInv, Others
<1>5. ~saveDue => win.base = form
  BY DEF SavesInv
<1>6. ASSUME NEW s, Type(s) \/ TypeOther PROVE SavesInv'
  BY <1>1, <1>6 DEF Type, TypeOther
<1>7. ASSUME NEW c \in Call, SaveTyped(c) \/ SaveOption(c) \/ PressConnect(c) PROVE SavesInv'
  <2>1. PICK kind \in {"save", "connect"} : Save(c, kind)
    BY <1>7 DEF SaveTyped, SaveOption, PressConnect
  <2>2. /\ call'[c].kind = kind /\ call'[c].at = "open" /\ call'[c].cfg = Form
        /\ \A d \in Call \ {c} : call'[d] = call[d]
    BY <2>1, InvokeTypes, FormTypes DEF Save, Kind, At
  <2>3. win' = Form /\ form' = form /\ stale' = Others(c)
    BY <2>1 DEF Save, Replaces
  <2>4. Stage(c)'
    BY <2>2, <2>3 DEF Stage, SavesMem, Checking
  <2>5. win'.base = form'
    BY <2>3, FormTypes
  <2> QED BY <2>2, <2>3, <2>4, <2>5, SavesMove DEF Others, Writing
<1>8. ASSUME NEW c \in Call, Probe(c) \/ Recheck(c) PROVE SavesInv'
  <2>1. PICK kind \in {"probe", "recheck"} : ProbeServer(c, kind)
    BY <1>8 DEF Probe, Recheck
  <2>2. UNCHANGED <<file, mem, win, stale, saveDue, form>>
    BY <2>1 DEF ProbeServer
  <2>3. CASE form = None
    BY <1>1, <2>1, <2>2, <2>3 DEF ProbeServer
  <2>4. CASE form # None
    <3>1. [mem EXCEPT !.base = form] \in Config
      BY ConfigTypes DEF TypeOK
    <3>2. Invoke(c, kind, "detect", [mem EXCEPT !.base = form])
      BY <2>1, <2>4 DEF ProbeServer
    <3>3. /\ call[c] = Idle /\ call'[c].kind = kind /\ call'[c].at = "detect"
          /\ \A d \in Call \ {c} : call'[d] = call[d]
      BY <3>1, <3>2, InvokeTypes DEF Kind, At
    <3>4. ~Writing(c) /\ ~Writing(c)'
      BY <3>3 DEF Writing, Idle
    <3> QED BY <1>2, <2>2, <3>3, <3>4
  <2> QED BY <2>3, <2>4
<1>9. ASSUME NEW c \in Call, PressSignIn(c) \/ PressReset(c) PROVE SavesInv'
  <2>1. UNCHANGED <<file, mem, win, saveDue, form>> /\ stale' = (stale \/ Others(c))
    BY <1>9 DEF PressSignIn, PressReset, Races
  <2>2. [mem EXCEPT !.base = form] \in Config /\ Default \in Config
    BY ConfigTypes DEF TypeOK
  <2>3. \/ Invoke(c, "discover", "request", [mem EXCEPT !.base = form])
        \/ Invoke(c, "reset", "remove", Default)
    BY <1>9 DEF PressSignIn, PressReset
  <2>4. /\ call[c] = Idle /\ \A d \in Call \ {c} : call'[d] = call[d]
        /\ \/ call'[c].kind = "discover" /\ call'[c].at = "request"
           \/ call'[c].kind = "reset" /\ call'[c].at = "remove"
    BY <2>2, <2>3, InvokeTypes DEF Kind, At
  <2>5. ~stale' => Agree /\ \A d \in Call \ {c} : ~Writing(d)
    <3>1. ~Writing(c)
      BY <2>4 DEF Writing, Idle
    <3> QED BY <1>4, <2>1, <3>1 DEF Others
  <2>6. ~stale' => Stage(c)'
    BY <2>1, <2>4, <2>5 DEF Stage, SavesMem, Checking, Agree
  <2>7. Writing(c)'
    BY <2>4 DEF Writing
  <2> QED BY <1>5, <2>1, <2>4, <2>5, <2>6, <2>7, SavesMove
<1>10. ASSUME NEW c \in Call, Open(c) PROVE SavesInv'
  <2>1. /\ Writing(c) /\ file' = Truncated /\ UNCHANGED <<mem, win, saveDue, form, stale>>
        /\ call[c].kind \in Saving
    BY <1>10 DEF Open, Writing, KindAt
  <2>2. /\ call'[c].kind = call[c].kind /\ call'[c].at = "write" /\ call'[c].cfg = call[c].cfg
        /\ \A d \in Call \ {c} : call'[d] = call[d]
    BY <1>10, GotoTypes DEF Open, At
  <2>3. Writing(c)' /\ (~stale => Stage(c)')
    BY <1>3, <2>1, <2>2 DEF Stage, SavesMem, Checking, Writing
  <2> QED BY <1>3, <1>5, <2>1, <2>2, <2>3, SavesMove
<1>11. ASSUME NEW c \in Call, Write(c) PROVE SavesInv'
  <2>1. /\ Writing(c) /\ call[c].at = "write" /\ UNCHANGED <<mem, win, saveDue, form, stale>>
        /\ file' \in Written(c) /\ call[c].kind \in Saving
    BY <1>11 DEF Write, Writing, KindAt
  <2>2. mem \in Config /\ call[c].cfg \in Config
    BY DEF TypeOK
  <2>3. CASE SavesMem(c)
    <3>1. call'[c] = Idle /\ \A d \in Call \ {c} : call'[d] = call[d]
      BY <1>11, <2>3, ReturnsTypes DEF Write, SavesMem, Answered
    <3>2. ~stale => Agree'
      <4> SUFFICES ASSUME ~stale PROVE Agree'
        OBVIOUS
      <4>1. file = Truncated /\ mem.base = win.base
        BY <1>3, <2>1, <2>3 DEF Stage
      <4>2. file' = Whole(mem)
        BY <2>1, <2>3, <4>1 DEF Written, Truncated, Absent
      <4> QED BY <2>1, <2>2, <4>1, <4>2, ConfigTypes DEF Agree
    <3>3. ~Writing(c)'
      BY <3>1 DEF Writing, Idle
    <3> QED BY <1>3, <1>5, <2>1, <3>1, <3>2, <3>3, SavesMove
  <2>4. CASE ~SavesMem(c)
    <3>1. /\ call'[c].kind = call[c].kind /\ call'[c].at = "mem" /\ call'[c].cfg = call[c].cfg
          /\ \A d \in Call \ {c} : call'[d] = call[d]
      BY <1>11, <2>4, GotoTypes DEF Write, SavesMem, At
    <3>2. ~stale => Stage(c)'
      <4> SUFFICES ASSUME ~stale PROVE Stage(c)'
        OBVIOUS
      <4>1. CASE call[c].kind = "discover"
        BY <3>1, <4>1 DEF Stage, SavesMem, Checking
      <4>2. CASE call[c].kind # "discover"
        <5>1. call[c].kind \in {"save", "connect", "flowSave"}
          BY <2>1, <2>4, <4>2 DEF Saving, SavesMem, Checking
        <5>2. file = Truncated /\ call[c].cfg.base = win.base
          BY <1>3, <2>1, <5>1 DEF Stage
        <5>3. file' = Whole(call[c].cfg)
          BY <2>1, <2>4, <5>2 DEF Written, Truncated, Absent
        <5>4. Load(file') = call[c].cfg
          BY <2>2, <5>3, ConfigTypes
        <5> QED BY <2>1, <3>1, <5>1, <5>2, <5>4 DEF Stage, SavesMem, Checking
      <4> QED BY <4>1, <4>2
    <3>3. Writing(c)'
      BY <3>1 DEF Writing
    <3> QED BY <1>3, <1>5, <2>1, <3>1, <3>2, <3>3, SavesMove
  <2> QED BY <2>3, <2>4
<1>12. ASSUME NEW c \in Call, SaveFails(c) PROVE SavesInv'
  <2>1. stale' = TRUE /\ UNCHANGED <<win, form, saveDue>>
    BY <1>12 DEF SaveFails
  <2> QED BY <1>5, <2>1 DEF SavesInv
<1>13. ASSUME NEW c \in Call, SetMem(c) PROVE SavesInv'
  <2>1. /\ Writing(c) /\ call[c].at = "mem" /\ mem' = call[c].cfg
        /\ UNCHANGED <<file, saveDue, form>> /\ call[c].kind \in FromWindow
    BY <1>13 DEF SetMem, Writing, KindAt
  <2>2. CASE call[c].kind = "discover"
    <3>1. UNCHANGED <<win, stale>> /\ Goto(c, "answer")
      BY <1>13, <2>2 DEF SetMem
    <3>2. /\ call'[c].kind = "discover" /\ call'[c].at = "answer"
          /\ \A d \in Call \ {c} : call'[d] = call[d]
      BY <2>2, <3>1, GotoTypes DEF At
    <3>3. Stage(c)' /\ Writing(c)'
      BY <3>2 DEF Stage, SavesMem, Checking, Writing
    <3> QED BY <1>3, <1>5, <2>1, <3>1, <3>2, <3>3, SavesMove
  <2>3. CASE call[c].kind # "discover"
    <3>1. UNCHANGED <<win, stale>> /\ (Returns(c) \/ Goto(c, "signIn") \/ Goto(c, "record"))
      BY <1>13, <2>1, <2>3 DEF SetMem, FromWindow
    <3>2. /\ call'[c] = Idle \/ (/\ call'[c].kind = call[c].kind
                                 /\ call'[c].at \in {"signIn", "record"})
          /\ \A d \in Call \ {c} : call'[d] = call[d]
      BY <3>1, ReturnsTypes, GotoTypes DEF At
    <3>3. ~Writing(c)'
      BY <2>1, <2>3, <3>2 DEF Writing, Idle, FromWindow
    <3>4. ~stale => Agree'
      <4>1. call[c].kind \in {"save", "connect", "flowSave"}
        BY <2>1, <2>3 DEF FromWindow
      <4>2. ~stale => Load(file) = call[c].cfg /\ call[c].cfg.base = win.base
        BY <1>3, <2>1, <4>1 DEF Stage
      <4> QED BY <2>1, <3>1, <4>2 DEF Agree
    <3> QED BY <1>3, <1>5, <2>1, <3>1, <3>2, <3>3, <3>4, SavesMove
  <2> QED BY <2>2, <2>3
<1>a. ASSUME NEW c \in Call, SaveDiscovered(c) PROVE SavesInv'
  <2>1. /\ win' = IF c \in kept THEN [Form EXCEPT !.oidc = call[c].cfg.oidc] ELSE Form
        /\ stale' = Others(c) /\ UNCHANGED form
        /\ call' = [call EXCEPT ![c] = [Idle EXCEPT !.kind = "flowSave", !.at = "open",
                                                    !.cfg = win']]
    BY <1>a DEF SaveDiscovered, Replaces
  <2>2. /\ call'[c].kind = "flowSave" /\ call'[c].at = "open" /\ call'[c].cfg = win'
        /\ \A d \in Call \ {c} : call'[d] = call[d]
    BY <2>1 DEF TypeOK, Idle
  <2>3. win'.base = form'
    BY <2>1, FormTypes DEF Config
  <2>4. Stage(c)' /\ Writing(c)'
    BY <2>2 DEF Stage, SavesMem, Checking, Writing
  <2> QED BY <2>1, <2>2, <2>3, <2>4, SavesMove DEF Others
<1>14. ASSUME NEW c \in Call, DiscoverAnswers(c) PROVE SavesInv'
  <2>1. /\ Writing(c) /\ UNCHANGED <<file, mem, win, saveDue, form, stale>>
        /\ call' = [call EXCEPT ![c].at = "open", ![c].cfg.oidc = call[c].cfg.base]
        /\ call[c].kind = "discover"
    BY <1>14 DEF DiscoverAnswers, Writing
  <2>2. call'[c].kind = "discover" /\ call'[c].at = "open"
    BY <2>1 DEF TypeOK
  <2>3. \A d \in Call \ {c} : call'[d] = call[d]
    BY <2>1 DEF TypeOK
  <2>4. Writing(c)' /\ Stage(c)'
    BY <2>2 DEF Stage, SavesMem, Checking, Writing
  <2> QED BY <1>3, <1>5, <2>1, <2>3, <2>4, SavesMove
<1>15. ASSUME NEW c \in Call, DiscoverFails(c) PROVE SavesInv'
  <2>1. /\ Writing(c) /\ UNCHANGED <<file, mem, win, saveDue, form, stale>>
        /\ call[c].kind = "discover" /\ call[c].at = "request"
    BY <1>15 DEF DiscoverFails, Writing
  <2>2. call'[c] = Idle /\ \A d \in Call \ {c} : call'[d] = call[d]
    BY <1>15, ReturnsTypes DEF DiscoverFails
  <2>3. ~Writing(c)' /\ (~stale => Agree')
    BY <1>3, <2>1, <2>2 DEF Stage, Agree, Writing, Idle
  <2> QED BY <1>3, <1>5, <2>1, <2>2, <2>3, SavesMove
<1>16. ASSUME NEW c \in Call, SignIn(c) \/ NoRecord(c) PROVE SavesInv'
  <2>1. UNCHANGED <<file, mem, win, saveDue, form, stale>>
    BY <1>16 DEF SignIn, NoRecord
  <2>2. call'[c] = Idle /\ \A d \in Call \ {c} : call'[d] = call[d]
    BY <1>16, ReturnsTypes DEF SignIn, NoRecord
  <2>3. ~Writing(c) /\ ~Writing(c)'
    BY <1>16, <2>2 DEF SignIn, NoRecord, KindAt, Writing, Idle
  <2> QED BY <1>2, <2>1, <2>2, <2>3
<1>17. ASSUME NEW c \in Call, NoteRecord(c) PROVE SavesInv'
  <2>1. /\ UNCHANGED <<file, mem, win, saveDue, form>> /\ stale' = (stale \/ Others(c))
        /\ call' = [call EXCEPT ![c].kind = "start", ![c].at = "open"]
        /\ ~Writing(c)
    BY <1>17 DEF NoteRecord, Races, Writing, KindAt
  <2>2. call'[c].kind = "start" /\ call'[c].at = "open"
    BY <2>1 DEF TypeOK
  <2>3. \A d \in Call \ {c} : call'[d] = call[d]
    BY <2>1 DEF TypeOK
  <2>4. Writing(c)' /\ (~stale' => Stage(c)')
    BY <1>4, <2>1, <2>2 DEF Stage, Agree, SavesMem, Checking, Writing
  <2> QED BY <1>5, <2>1, <2>3, <2>4, SavesMove DEF Others
<1>18. ASSUME NEW c \in Call, Detect(c) PROVE SavesInv'
  <2>1. PICK p \in DetectFor : call' = [call EXCEPT ![c].at = "request", ![c].via = p]
    BY <1>18 DEF Detect
  <2>2. /\ call'[c].at = "request" /\ call'[c].kind = call[c].kind
        /\ call[c].kind \in {"probe", "recheck"} /\ call[c].at = "detect"
    BY <1>18, <2>1 DEF TypeOK, Detect, KindAt
  <2>3. \A d \in Call \ {c} : call'[d] = call[d]
    BY <2>1 DEF TypeOK
  <2>4. ~Writing(c) /\ ~Writing(c)'
    BY <2>2 DEF Writing
  <2>5. UNCHANGED <<file, mem, win, saveDue, form, stale>>
    BY <1>18 DEF Detect
  <2> QED BY <1>2, <2>3, <2>4, <2>5
<1>19. ASSUME NEW c \in Call, CheckAnswers(c) \/ CheckFails(c) \/ Remember(c) PROVE SavesInv'
  <2>1. /\ UNCHANGED <<file, mem, win, saveDue, form, stale>>
        /\ call[c].kind \in {"probe", "recheck"} /\ call[c].at \in {"request", "remember"}
    BY <1>19 DEF CheckAnswers, CheckFails, Remember, Checking, KindAt
  <2>2. Returns(c) \/ Goto(c, "remember") \/ Goto(c, "note")
    BY <1>19 DEF CheckAnswers, CheckFails, Remember, Answered
  <2>3. /\ call'[c] = Idle \/ (/\ call'[c].kind = call[c].kind
                               /\ call'[c].at \in {"remember", "note"})
        /\ \A d \in Call \ {c} : call'[d] = call[d]
    BY <2>2, ReturnsTypes, GotoTypes DEF At
  <2>4. ~Writing(c) /\ ~Writing(c)'
    BY <2>1, <2>3 DEF Writing, Idle
  <2> QED BY <1>2, <2>1, <2>3, <2>4
<1>20. ASSUME NEW c \in Call, Note(c) PROVE SavesInv'
  <2>1. /\ call[c].kind \in {"probe", "recheck"} /\ ~Writing(c)
        /\ UNCHANGED <<file, win, saveDue, form>> /\ mem' = [mem EXCEPT !.good = call[c].via]
    BY <1>20 DEF Note, KindAt, Writing
  <2>2. CASE mem' = mem
    <3>1. Returns(c) /\ UNCHANGED stale
      BY <1>20, <2>2 DEF Note, Answered
    <3>2. call'[c] = Idle /\ \A d \in Call \ {c} : call'[d] = call[d]
      BY <3>1, ReturnsTypes
    <3>3. ~Writing(c)'
      BY <3>2 DEF Writing, Idle
    <3> QED BY <1>2, <2>1, <2>2, <3>1, <3>2, <3>3
  <2>3. CASE mem' # mem
    <3>1. Goto(c, "open") /\ stale' = (stale \/ Others(c))
      BY <1>20, <2>3 DEF Note, Races
    <3>2. /\ call'[c].kind = call[c].kind /\ call'[c].at = "open"
          /\ \A d \in Call \ {c} : call'[d] = call[d]
      BY <3>1, GotoTypes DEF At
    <3>3. mem'.base = mem.base
      BY <2>1 DEF TypeOK, Config
    <3>4. Writing(c)' /\ (~stale' => Stage(c)')
      BY <1>4, <2>1, <3>1, <3>2, <3>3 DEF Stage, Agree, SavesMem, Checking, Writing
    <3> QED BY <1>5, <2>1, <3>1, <3>2, <3>4, SavesMove DEF Others
  <2> QED BY <2>2, <2>3
<1>21. ASSUME NEW c \in Call, RemoveFile(c) \/ Forget(c) \/ SetDefault(c) PROVE SavesInv'
  <2>1. call[c].kind = "reset" /\ Writing(c) /\ UNCHANGED <<win, saveDue, form, stale>>
    BY <1>21 DEF RemoveFile, Forget, SetDefault, KindAt, Writing
  <2>2. \E to \in {"forget", "default", "load"} : Goto(c, to)
    BY <1>21 DEF RemoveFile, Forget, SetDefault
  <2>3. /\ call'[c].kind = "reset" /\ call'[c].at # "dot"
        /\ \A d \in Call \ {c} : call'[d] = call[d]
    BY <2>1, <2>2, GotoTypes DEF At
  <2>4. ~stale => file' = Absent
    BY <1>3, <1>21, <2>1 DEF RemoveFile, Forget, SetDefault, Stage
  <2>5. call'[c].at = "load" => mem' = Default
    BY <1>21, GotoTypes DEF RemoveFile, Forget, SetDefault, At
  <2>6. Writing(c)' /\ (~stale => Stage(c)')
    BY <2>3, <2>4, <2>5 DEF Writing, Stage, SavesMem, Checking
  <2> QED BY <1>3, <1>5, <2>1, <2>3, <2>6, SavesMove
<1>22. ASSUME NEW c \in Call, FillForm(c) PROVE SavesInv'
  <2>1. /\ call[c].kind = "reset" /\ call[c].at = "load" /\ Writing(c)
        /\ UNCHANGED <<file, mem, saveDue, stale>>
        /\ win' = mem /\ form' = mem.base
    BY <1>22 DEF FillForm, KindAt, Writing
  <2>2. /\ call'[c].kind = "reset" /\ call'[c].at = "dot"
        /\ \A d \in Call \ {c} : call'[d] = call[d]
    BY <1>22, <2>1, GotoTypes DEF FillForm, At
  <2>3. ~Writing(c)'
    BY <2>2 DEF Writing
  <2>4. ~stale => Agree'
    <3>1. ~stale => file = Absent /\ mem = Default
      BY <1>3, <2>1 DEF Stage
    <3>2. Load(Absent) = Default
      BY DEF Load, Absent
    <3> QED BY <2>1, <3>1, <3>2 DEF Agree
  <2> QED BY <1>3, <2>1, <2>2, <2>3, <2>4, SavesMove
<1>b. ASSUME NEW c \in Call, ResetShown(c) PROVE SavesInv'
  <2>1. UNCHANGED <<file, mem, win, stale, saveDue, form>> /\ ~Writing(c)
    BY <1>b DEF ResetShown, KindAt, Writing
  <2>2. call'[c] = Idle /\ \A d \in Call \ {c} : call'[d] = call[d]
    BY <1>b, ReturnsTypes DEF ResetShown
  <2>3. ~Writing(c)'
    BY <2>2 DEF Writing, Idle
  <2> QED BY <1>2, <2>1, <2>2, <2>3
<1>23. CASE Restart
  <2>1. /\ \A c \in Call : call'[c] = Idle
        /\ mem' = Load(file') /\ win' = mem' /\ form' = mem'.base
    BY <1>23 DEF Restart
  <2>2. \A c \in Call : ~Writing(c)'
    BY <2>1 DEF Writing, Idle
  <2> QED BY <2>1, <2>2 DEF SavesInv, Agree
<1>24. CASE UNCHANGED vars
  BY <1>1, <1>24 DEF vars
<1> QED
  BY <1>6, <1>7, <1>8, <1>9, <1>10, <1>11, <1>12, <1>13, <1>14, <1>15, <1>16, <1>17, <1>18,
     <1>19, <1>20, <1>21, <1>22, <1>23, <1>24, <1>a, <1>b
  DEF Next, Work

-----------------------------------------------------------------------------
(* A reset that nothing runs beside. *)

\* As long as nothing runs beside it, the reset is the one call there is, and
\* what it has done stays done.
ResetInv ==
    alone => \A c \in Call : call[c] # Idle =>
        /\ call[c].at \in {"remove", "forget", "default", "load", "dot"}
        /\ \A d \in Call \ {c} : call[d] = Idle
        /\ call[c].at \in {"forget", "default", "load", "dot"} => file = Absent
        /\ call[c].at \in {"default", "load", "dot"} => lastGood = None
        /\ call[c].at \in {"load", "dot"} => mem = Default
        /\ call[c].at = "dot" => form = None /\ win = Default

LEMMA ResetStep == TypeOK /\ KindAt /\ ResetInv /\ [Next]_vars => ResetInv'
<1> SUFFICES ASSUME TypeOK, KindAt, ResetInv, [Next]_vars PROVE ResetInv'
  OBVIOUS
<1> USE DEF backend, timers, light, copy, window, bounds, history
<1>1. ASSUME alone' = FALSE PROVE ResetInv'
  BY <1>1 DEF ResetInv
<1>2. ASSUME NEW s, Type(s) \/ TypeOther PROVE ResetInv'
  BY <1>1, <1>2 DEF Type, TypeOther
<1>3. ASSUME NEW c \in Call, SaveTyped(c) \/ SaveOption(c) \/ PressConnect(c) PROVE ResetInv'
  BY <1>1, <1>3 DEF SaveTyped, SaveOption, PressConnect, Save
<1>4. ASSUME NEW c \in Call, Probe(c) \/ Recheck(c) \/ PressSignIn(c) PROVE ResetInv'
  BY <1>1, <1>4 DEF Probe, Recheck, ProbeServer, PressSignIn
<1>5. ASSUME NEW c \in Call, PressReset(c) PROVE ResetInv'
  <2>1. /\ call'[c].at = "remove" /\ \A d \in Call \ {c} : call'[d] = call[d]
    BY <1>5, ConfigTypes, InvokeTypes DEF PressReset, Kind, At
  <2>2. alone' => \A d \in Call : call[d] = Idle
    BY <1>5 DEF PressReset
  <2> QED BY <2>1, <2>2 DEF ResetInv
\* A step of another command than a reset.
<1>6. ASSUME NEW c \in Call, alone' = alone, call[c] # Idle,
             call[c].at \notin {"remove", "forget", "default", "load", "dot"}
      PROVE  ResetInv'
  BY <1>6 DEF ResetInv
<1>7. ASSUME NEW c \in Call,
             \/ Open(c) \/ Write(c) \/ SaveFails(c) \/ SetMem(c) \/ SaveDiscovered(c)
             \/ DiscoverAnswers(c) \/ DiscoverFails(c) \/ SignIn(c) \/ NoteRecord(c)
             \/ NoRecord(c) \/ Detect(c) \/ CheckAnswers(c) \/ CheckFails(c) \/ Remember(c)
             \/ Note(c)
      PROVE  ResetInv'
  <2>1. /\ alone' = alone
        /\ call[c].at \in {"open", "write", "mem", "request", "answer", "signIn", "record",
                           "detect", "remember", "note"}
    BY <1>7
    DEF Open, Write, SaveFails, SetMem, SaveDiscovered, DiscoverAnswers, DiscoverFails, SignIn,
        NoteRecord, NoRecord, Detect, CheckAnswers, CheckFails, Remember, Note
  <2>2. call[c] # Idle
    BY <2>1 DEF Idle
  <2> QED BY <1>6, <2>1, <2>2
<1>8. ASSUME NEW c \in Call, RemoveFile(c) \/ Forget(c) \/ SetDefault(c) PROVE ResetInv'
  <2> SUFFICES ASSUME alone PROVE ResetInv'
    BY <1>8 DEF RemoveFile, Forget, SetDefault, ResetInv
  <2>0. call[c].at \in {"remove", "forget", "default"}
    BY <1>8 DEF RemoveFile, Forget, SetDefault
  <2>1. call[c].at \in {"remove", "forget", "default"} /\ call[c] # Idle
    BY <2>0 DEF Idle
  <2>2. \A d \in Call \ {c} : call[d] = Idle
    BY <2>1 DEF ResetInv
  <2>3. \A d \in Call \ {c} : call'[d] = Idle
    BY <1>8, <2>2, GotoTypes DEF RemoveFile, Forget, SetDefault, At
  <2>4. CASE RemoveFile(c)
    <3>1. call'[c].at = "forget" /\ file' = Absent
      BY <2>4, GotoTypes DEF RemoveFile, At
    <3> QED BY <2>3, <3>1 DEF ResetInv
  <2>5. CASE Forget(c)
    <3>1. call'[c].at = "default" /\ file' = Absent /\ lastGood' = None
      BY <2>1, <2>5, GotoTypes DEF Forget, At, ResetInv
    <3> QED BY <2>3, <3>1 DEF ResetInv
  <2>6. CASE SetDefault(c)
    <3>1. /\ call'[c].at = "load" /\ file' = Absent /\ lastGood' = None
          /\ mem' = Default
      BY <2>1, <2>6, GotoTypes DEF SetDefault, At, ResetInv
    <3> QED BY <2>3, <3>1 DEF ResetInv
  <2> QED BY <1>8, <2>4, <2>5, <2>6
<1>9. ASSUME NEW c \in Call, FillForm(c) PROVE ResetInv'
  <2> SUFFICES ASSUME alone PROVE ResetInv'
    BY <1>9 DEF FillForm, ResetInv
  <2>1. /\ call[c].at = "load" /\ UNCHANGED <<file, lastGood, mem>>
        /\ win' = mem /\ form' = mem.base
    BY <1>9 DEF FillForm
  <2>2. call[c] # Idle
    BY <2>1 DEF Idle
  <2>3. /\ file = Absent /\ lastGood = None /\ mem = Default
        /\ \A d \in Call \ {c} : call[d] = Idle
    BY <2>1, <2>2 DEF ResetInv
  <2>4. call'[c].at = "dot" /\ \A d \in Call \ {c} : call'[d] = Idle
    BY <1>9, <2>3, GotoTypes DEF FillForm, At
  <2>5. win' = Default /\ form' = None
    BY <2>1, <2>3 DEF Default
  <2> QED BY <2>1, <2>3, <2>4, <2>5 DEF ResetInv
<1>a. ASSUME NEW c \in Call, ResetShown(c) PROVE ResetInv'
  <2>1. /\ call'[c] = Idle /\ alone' = alone
        /\ \A d \in Call \ {c} : call'[d] = call[d]
    BY <1>a, ReturnsTypes DEF ResetShown
  <2>2. call[c] # Idle
    BY <1>a DEF ResetShown, Idle
  <2> QED BY <2>1, <2>2 DEF ResetInv
<1>10. CASE Restart
  BY <1>1, <1>10 DEF Restart
<1>11. CASE UNCHANGED vars
  BY <1>11 DEF vars, ResetInv
<1> QED
  BY <1>2, <1>3, <1>4, <1>5, <1>7, <1>8, <1>9, <1>10, <1>11, <1>a DEF Next, Work

-----------------------------------------------------------------------------
(* What a sign-in works with. *)

InFlow(c) == call[c].kind \in {"discover", "flowSave"}

\* Calls that will write the copy in memory, not only the proxy in it.
SetsMem(c) ==
    \/ call[c].kind \in FromWindow /\ call[c].at \in {"open", "write", "mem"}
    \/ call[c].kind \in {"discover", "reset"} /\ call[c].at # "dot"

\* Until the user does something else there is one sign-in, for the address in
\* the window; and once the window saves what discover() gave, no other call
\* will write the copy in memory unless two writers ran together.
FlowInv ==
    ~edited =>
        /\ \A c, d \in Call : InFlow(c) /\ InFlow(d) => c = d
        /\ \A c \in Call : call[c].kind = "discover" =>
              /\ call[c].cfg.base = form /\ c \in kept
              /\ call[c].at # "request" => call[c].cfg.oidc = form
        /\ \A c \in Call : call[c].kind = "flowSave" =>
              /\ call[c].cfg.base = form /\ call[c].cfg.oidc = form
              /\ ~stale => \A d \in Call \ {c} : ~SetsMem(d)
              /\ ~stale /\ call[c].at = "signIn" => mem.base = form /\ mem.oidc = form

\* A step of one call that leaves its part in the sign-in as it is.
LEMMA FlowRests ==
    ASSUME FlowInv, UNCHANGED <<form, edited, mem.base, mem.oidc>>, ~stale' => ~stale,
           NEW c \in Call, \A d \in Call \ {c} : call'[d] = call[d],
           \A d \in kept : d \in kept' \/ (d = c /\ ~InFlow(c)'),
           SetsMem(c)' => SetsMem(c),
           InFlow(c)' => /\ call'[c].kind = call[c].kind /\ call'[c].cfg = call[c].cfg
                         /\ call'[c].at # "request" => call[c].at # "request"
                         /\ ~stale' /\ call'[c].at = "signIn" => call[c].at = "signIn"
    PROVE  FlowInv'
<1> SUFFICES ASSUME ~edited' PROVE FlowInv'
  BY DEF FlowInv
<1>1. \A d \in Call : InFlow(d)' => InFlow(d) /\ call'[d].kind = call[d].kind
                                              /\ call'[d].cfg = call[d].cfg
  BY DEF InFlow
<1>2. \A d \in Call : SetsMem(d)' => SetsMem(d)
  BY DEF SetsMem
<1>3. \A d, e \in Call : InFlow(d)' /\ InFlow(e)' => d = e
  BY <1>1 DEF FlowInv
<1>4. ASSUME NEW d \in Call, call'[d].kind = "discover"
      PROVE  /\ call'[d].cfg.base = form' /\ d \in kept'
             /\ call'[d].at # "request" => call'[d].cfg.oidc = form'
  <2>1. InFlow(d)'
    BY <1>4 DEF InFlow
  <2> QED BY <1>1, <1>4, <2>1 DEF FlowInv
<1>5. ASSUME NEW d \in Call, call'[d].kind = "flowSave"
      PROVE  /\ call'[d].cfg.base = form' /\ call'[d].cfg.oidc = form'
             /\ ~stale' => \A e \in Call \ {d} : ~SetsMem(e)'
             /\ ~stale' /\ call'[d].at = "signIn" => mem'.base = form' /\ mem'.oidc = form'
  <2>1. InFlow(d)'
    BY <1>5 DEF InFlow
  <2>2. call[d].kind = "flowSave" /\ call'[d].cfg = call[d].cfg
    BY <1>1, <1>5, <2>1
  <2>3. ~stale' /\ call'[d].at = "signIn" => call[d].at = "signIn"
    BY <2>1
  <2> QED BY <1>2, <2>2, <2>3 DEF FlowInv
<1> QED BY <1>3, <1>4, <1>5 DEF FlowInv

\* A command that sets the copy in memory, and is no sign-in.
LEMMA FlowOutlived ==
    ASSUME FlowInv, UNCHANGED <<form, edited, stale, kept>>,
           NEW c \in Call, \A d \in Call \ {c} : call'[d] = call[d],
           SetsMem(c), ~InFlow(c), ~InFlow(c)', SetsMem(c)' => SetsMem(c)
    PROVE  FlowInv'
<1> SUFFICES ASSUME ~edited' PROVE FlowInv'
  BY DEF FlowInv
<1>1. \A d \in Call : InFlow(d)' => d # c /\ call'[d] = call[d] /\ InFlow(d)
  BY DEF InFlow
<1>2. \A d \in Call : call[d].kind = "flowSave" => stale
  BY DEF FlowInv, InFlow
<1>3. \A d \in Call : call'[d].kind = "discover" => InFlow(d)' /\ call[d].kind = "discover"
  BY <1>1 DEF InFlow
<1>4. \A d \in Call : call'[d].kind = "flowSave" => InFlow(d)' /\ call[d].kind = "flowSave"
  BY <1>1 DEF InFlow
<1> QED BY <1>1, <1>2, <1>3, <1>4 DEF FlowInv

LEMMA FlowStep == TypeOK /\ KindAt /\ FlowInv /\ [Next]_vars => FlowInv'
<1> SUFFICES ASSUME TypeOK, KindAt, FlowInv, [Next]_vars PROVE FlowInv'
  OBVIOUS
<1> USE DEF backend, timers, light, copy, window, bounds, history
<1>0. edited \in BOOLEAN /\ stale \in BOOLEAN
  BY DEF TypeOK
<1>1. ASSUME edited' = TRUE PROVE FlowInv'
  BY <1>1 DEF FlowInv
<1>2. ASSUME UNCHANGED <<form, edited, mem, stale, call, kept>> PROVE FlowInv'
  BY <1>2 DEF FlowInv, InFlow, SetsMem
\* A step of a call that is no sign-in and writes nothing of the window.
<1>3. ASSUME NEW c \in Call, \A d \in Call \ {c} : call'[d] = call[d],
             ~InFlow(c)', ~SetsMem(c)', UNCHANGED <<form, edited, mem>>, ~stale' => ~stale,
             kept' \in {kept, kept \ {c}}
      PROVE  FlowInv'
  BY <1>3, FlowRests
<1>4. ASSUME NEW s, Type(s) PROVE FlowInv'
  BY <1>1, <1>4 DEF Type
<1>a. CASE TypeOther
  BY <1>2, <1>a DEF TypeOther
<1>5. ASSUME NEW c \in Call, SaveTyped(c) \/ SaveOption(c) \/ PressConnect(c) \/ PressReset(c)
                             \/ FillForm(c)
      PROVE  FlowInv'
  BY <1>1, <1>5 DEF SaveTyped, SaveOption, PressConnect, Save, PressReset, FillForm
<1>6. ASSUME NEW c \in Call, Probe(c) \/ Recheck(c) PROVE FlowInv'
  <2>1. PICK kind \in {"probe", "recheck"} : ProbeServer(c, kind)
    BY <1>6 DEF Probe, Recheck
  <2>2. UNCHANGED <<mem, stale, form, edited, kept>>
    BY <2>1 DEF ProbeServer
  <2>3. CASE form = None
    BY <1>2, <2>1, <2>2, <2>3 DEF ProbeServer
  <2>4. CASE form # None
    <3>1. [mem EXCEPT !.base = form] \in Config
      BY ConfigTypes DEF TypeOK
    <3>2. Invoke(c, kind, "detect", [mem EXCEPT !.base = form])
      BY <2>1, <2>4 DEF ProbeServer
    <3>3. /\ call'[c].kind = kind /\ \A d \in Call \ {c} : call'[d] = call[d]
      BY <3>1, <3>2, InvokeTypes DEF Kind, At
    <3>4. ~InFlow(c)' /\ ~SetsMem(c)'
      BY <3>3 DEF InFlow, SetsMem, FromWindow
    <3> QED BY <1>3, <2>2, <3>3, <3>4
  <2> QED BY <2>3, <2>4
<1>7. ASSUME NEW c \in Call, PressSignIn(c) PROVE FlowInv'
  <2>1. [mem EXCEPT !.base = form] \in Config /\ [mem EXCEPT !.base = form].base = form
    BY ConfigTypes DEF TypeOK
  <2>2. /\ call'[c].kind = "discover" /\ call'[c].at = "request"
        /\ call'[c].cfg.base = form' /\ c \in kept'
        /\ \A d \in Call \ {c} : call'[d] = call[d]
    <3>1. /\ Invoke(c, "discover", "request", [mem EXCEPT !.base = form])
          /\ form' = form /\ c \in kept'
      BY <1>7 DEF PressSignIn
    <3>2. "discover" \in Kind /\ "request" \in At
      BY DEF Kind, At
    <3>3. /\ call'[c].kind = "discover" /\ call'[c].at = "request"
          /\ call'[c].cfg = [mem EXCEPT !.base = form]
          /\ \A d \in Call \ {c} : call'[d] = call[d]
      BY <2>1, <3>1, <3>2, InvokeTypes
    <3> QED BY <2>1, <3>1, <3>3
  <2>3. ~edited' => \A d \in Call : ~InFlow(d)
    BY <1>7 DEF PressSignIn, InFlow
  <2> QED BY <2>2, <2>3 DEF FlowInv, InFlow
<1>8. ASSUME NEW c \in Call, NEW to \in At, Goto(c, to), UNCHANGED <<form, edited, mem, kept>>,
             ~stale' => ~stale, ~stale' => to # "signIn",
             to \in {"open", "write", "mem"} =>
                call[c].at \in {"open", "write"} \/ call[c].kind \notin FromWindow,
             call[c].at # "dot", call[c].at # "request" \/ ~InFlow(c)
      PROVE  FlowInv'
  <2>1. /\ call'[c].kind = call[c].kind /\ call'[c].cfg = call[c].cfg /\ call'[c].at = to
        /\ \A d \in Call \ {c} : call'[d] = call[d]
    BY <1>8, GotoTypes
  <2>2. SetsMem(c)' => SetsMem(c)
    BY <1>8, <2>1 DEF SetsMem
  <2>3. InFlow(c)' => InFlow(c)
    BY <2>1 DEF InFlow
  <2> QED BY <1>8, <2>1, <2>2, <2>3, FlowRests
<1>9. ASSUME NEW c \in Call, Returns(c), UNCHANGED <<form, edited, mem>>, ~stale' => ~stale,
             kept' \in {kept, kept \ {c}}
      PROVE  FlowInv'
  <2>1. call'[c] = Idle /\ \A d \in Call \ {c} : call'[d] = call[d]
    BY <1>9, ReturnsTypes
  <2>2. ~InFlow(c)' /\ ~SetsMem(c)'
    BY <2>1 DEF InFlow, SetsMem, Idle, FromWindow
  <2> QED BY <1>3, <1>9, <2>1, <2>2
<1>10. ASSUME NEW c \in Call, Open(c) PROVE FlowInv'
  BY <1>8, <1>10 DEF Open, At
<1>11. ASSUME NEW c \in Call, Write(c) PROVE FlowInv'
  <2>1. /\ UNCHANGED <<form, edited, mem, stale, kept>> /\ call[c].at = "write"
        /\ Returns(c) \/ Goto(c, "mem")
    BY <1>11 DEF Write, Answered
  <2> QED BY <1>8, <1>9, <2>1 DEF At
<1>12. ASSUME NEW c \in Call, SaveFails(c) PROVE FlowInv'
  <2>1. /\ UNCHANGED <<form, edited, mem>> /\ stale' /\ call[c].at \in {"open", "write"}
        /\ call[c].kind \in Saving
    BY <1>12 DEF SaveFails, KindAt
  <2>2. \/ Returns(c) /\ kept' \in {kept, kept \ {c}}
        \/ kept' = kept /\ (Goto(c, "signIn") \/ Goto(c, "record"))
    BY <1>12, <2>1 DEF SaveFails, Answered, Checking, Saving
  <2> QED BY <1>8, <1>9, <2>1, <2>2 DEF At
<1>13. ASSUME NEW c \in Call, SetMem(c) PROVE FlowInv'
  <2>1. /\ call[c].at = "mem" /\ mem' = call[c].cfg /\ UNCHANGED <<form, edited, stale, kept>>
        /\ call[c].kind \in FromWindow /\ SetsMem(c)
    BY <1>13 DEF SetMem, KindAt, SetsMem
  <2>2. CASE call[c].kind \in {"save", "connect"}
    <3>1. Returns(c) \/ (call[c].kind = "connect" /\ Goto(c, "record"))
      BY <1>13, <2>2 DEF SetMem
    <3>2. /\ \A d \in Call \ {c} : call'[d] = call[d]
          /\ call'[c] = Idle \/ call'[c].kind = "connect"
      BY <3>1, ReturnsTypes, GotoTypes DEF At
    <3>3. ~InFlow(c) /\ ~InFlow(c)'
      BY <2>2, <3>2 DEF InFlow, Idle
    <3> QED BY <2>1, <3>1, <3>2, <3>3, FlowOutlived
  <2>3. CASE call[c].kind = "flowSave"
    <3>1. Goto(c, "signIn")
      BY <1>13, <2>3 DEF SetMem
    <3>2. /\ call'[c].kind = "flowSave" /\ call'[c].at = "signIn" /\ call'[c].cfg = call[c].cfg
          /\ \A d \in Call \ {c} : call'[d] = call[d]
      BY <2>3, <3>1, GotoTypes DEF At
    <3> SUFFICES ASSUME ~edited' PROVE FlowInv'
      BY DEF FlowInv
    <3>3. \A d \in Call \ {c} : ~InFlow(d)
      BY <2>1, <2>3 DEF FlowInv, InFlow
    <3>4. \A d \in Call \ {c} : ~InFlow(d)' /\ (SetsMem(d)' <=> SetsMem(d))
      BY <3>2, <3>3 DEF InFlow, SetsMem
    <3>5. /\ call[c].cfg.base = form /\ call[c].cfg.oidc = form
          /\ ~stale => \A d \in Call \ {c} : ~SetsMem(d)
      BY <2>1, <2>3 DEF FlowInv
    <3> QED BY <2>1, <3>1, <3>2, <3>4, <3>5 DEF FlowInv, InFlow
  <2>4. CASE call[c].kind = "discover"
    <3>1. /\ call'[c].kind = "discover" /\ call'[c].cfg = call[c].cfg
          /\ \A d \in Call \ {c} : call'[d] = call[d]
      BY <1>13, <2>4, GotoTypes DEF SetMem, At
    <3> SUFFICES ASSUME ~edited' PROVE FlowInv'
      BY DEF FlowInv
    <3>2. \A d \in Call \ {c} : ~InFlow(d)'
      BY <2>1, <2>4, <3>1 DEF FlowInv, InFlow
    <3>3. call[c].cfg.base = form /\ call[c].cfg.oidc = form /\ c \in kept
      BY <2>1, <2>4 DEF FlowInv
    <3> QED BY <2>1, <3>1, <3>2, <3>3 DEF FlowInv, InFlow
  <2> QED BY <2>1, <2>2, <2>3, <2>4 DEF FromWindow
<1>b. ASSUME NEW c \in Call, SaveDiscovered(c) PROVE FlowInv'
  <2>1. /\ win' = IF c \in kept THEN [Form EXCEPT !.oidc = call[c].cfg.oidc] ELSE Form
        /\ stale' = Others(c) /\ UNCHANGED <<form, edited>>
        /\ call' = [call EXCEPT ![c] = [Idle EXCEPT !.kind = "flowSave", !.at = "open",
                                                    !.cfg = win']]
        /\ call[c].kind = "discover" /\ call[c].at = "answer"
    BY <1>b DEF SaveDiscovered, Replaces, KindAt
  <2>2. /\ call'[c].kind = "flowSave" /\ call'[c].at = "open" /\ call'[c].cfg = win'
        /\ \A d \in Call \ {c} : call'[d] = call[d]
    BY <2>1 DEF TypeOK, Idle
  <2> SUFFICES ASSUME ~edited' PROVE FlowInv'
    BY DEF FlowInv
  <2>3. win'.base = form' /\ win'.oidc = form'
    <3>1. call[c].cfg.oidc = form /\ c \in kept
      BY <2>1 DEF FlowInv
    <3> QED BY <2>1, <3>1, FormTypes DEF Config
  <2>4. \A d \in Call \ {c} : ~InFlow(d)'
    BY <2>1, <2>2 DEF FlowInv, InFlow
  <2>5. ~stale' => \A d \in Call \ {c} : ~SetsMem(d)'
    BY <2>1, <2>2 DEF Others, Writing, SetsMem
  <2> QED BY <2>2, <2>3, <2>4, <2>5 DEF FlowInv, InFlow
<1>14. ASSUME NEW c \in Call, DiscoverAnswers(c) PROVE FlowInv'
  <2>1. /\ UNCHANGED <<mem, form, stale, edited, kept>> /\ call[c].kind = "discover"
        /\ call' = [call EXCEPT ![c].at = "open", ![c].cfg.oidc = call[c].cfg.base]
    BY <1>14 DEF DiscoverAnswers
  <2>2. /\ call'[c].kind = "discover"
        /\ call'[c].cfg.base = call[c].cfg.base /\ call'[c].cfg.oidc = call[c].cfg.base
    BY <2>1 DEF TypeOK, Config
  <2>3. \A d \in Call \ {c} : call'[d] = call[d]
    BY <2>1 DEF TypeOK
  <2> SUFFICES ASSUME ~edited' PROVE FlowInv'
    BY DEF FlowInv
  <2>4. call[c].cfg.base = form /\ c \in kept /\ \A d \in Call \ {c} : ~InFlow(d)
    BY <2>1 DEF FlowInv, InFlow
  <2>5. \A d \in Call \ {c} : ~InFlow(d)'
    BY <2>3, <2>4 DEF InFlow
  <2> QED BY <2>1, <2>2, <2>4, <2>5 DEF FlowInv, InFlow
<1>15. ASSUME NEW c \in Call, \/ DiscoverFails(c) \/ SignIn(c) \/ NoRecord(c)
                              \/ CheckFails(c) \/ ResetShown(c)
       PROVE  FlowInv'
  BY <1>9, <1>15 DEF DiscoverFails, SignIn, NoRecord, CheckFails, Answered, ResetShown
<1>16. ASSUME NEW c \in Call, NoteRecord(c) PROVE FlowInv'
  <2>1. /\ UNCHANGED <<mem, form, edited, kept>> /\ (~stale' => ~stale)
        /\ call' = [call EXCEPT ![c].kind = "start", ![c].at = "open"]
    BY <1>16 DEF NoteRecord, Races
  <2>2. call'[c].kind = "start"
    BY <2>1 DEF TypeOK
  <2>3. \A d \in Call \ {c} : call'[d] = call[d]
    BY <2>1 DEF TypeOK
  <2>4. ~InFlow(c)' /\ ~SetsMem(c)'
    BY <2>2 DEF InFlow, SetsMem, FromWindow
  <2> QED BY <1>3, <2>1, <2>3, <2>4
<1>17. ASSUME NEW c \in Call, Detect(c) PROVE FlowInv'
  <2>1. PICK p \in DetectFor : call' = [call EXCEPT ![c].at = "request", ![c].via = p]
    BY <1>17 DEF Detect
  <2>2. /\ call'[c].kind = call[c].kind /\ call[c].kind \in {"probe", "recheck"}
    BY <1>17, <2>1 DEF TypeOK, Detect, KindAt
  <2>3. \A d \in Call \ {c} : call'[d] = call[d]
    BY <2>1 DEF TypeOK
  <2>4. ~InFlow(c)' /\ ~SetsMem(c)'
    BY <2>2 DEF InFlow, SetsMem, FromWindow
  <2>5. UNCHANGED <<mem, form, edited, stale, kept>>
    BY <1>17 DEF Detect
  <2> QED BY <1>3, <2>3, <2>4, <2>5
<1>18. ASSUME NEW c \in Call, CheckAnswers(c) \/ Remember(c) PROVE FlowInv'
  <2>1. /\ UNCHANGED <<mem, form, edited, stale, kept>>
        /\ call[c].kind \in {"probe", "recheck"} /\ call[c].at # "dot"
        /\ Returns(c) \/ Goto(c, "remember") \/ Goto(c, "note")
    BY <1>18 DEF CheckAnswers, Remember, Answered, Checking, KindAt
  <2>2. ~InFlow(c)
    BY <2>1 DEF InFlow
  <2> QED BY <1>8, <1>9, <2>1, <2>2 DEF At
<1>19. ASSUME NEW c \in Call, Note(c) PROVE FlowInv'
  <2>1. /\ call[c].kind \in {"probe", "recheck"} /\ UNCHANGED <<form, edited, kept>>
        /\ mem' = [mem EXCEPT !.good = call[c].via] /\ (~stale' => ~stale)
        /\ Returns(c) \/ Goto(c, "open")
    BY <1>19 DEF Note, KindAt, Answered, Races
  <2>2. mem'.base = mem.base /\ mem'.oidc = mem.oidc
    BY <2>1 DEF TypeOK, Config
  <2>3. /\ call'[c] = Idle \/ call'[c].kind = call[c].kind
        /\ \A d \in Call \ {c} : call'[d] = call[d]
    BY <2>1, ReturnsTypes, GotoTypes DEF At
  <2>4. ~InFlow(c)' /\ ~SetsMem(c)'
    BY <2>1, <2>3 DEF InFlow, SetsMem, Idle, FromWindow
  <2> QED BY <2>1, <2>2, <2>3, <2>4, FlowRests
<1>20. ASSUME NEW c \in Call, RemoveFile(c) \/ Forget(c) \/ SetDefault(c) PROVE FlowInv'
  <2>1. /\ UNCHANGED <<form, edited, stale, kept>> /\ call[c].kind = "reset"
        /\ call[c].at # "dot"
        /\ Goto(c, "forget") \/ Goto(c, "default") \/ Goto(c, "load")
    BY <1>20 DEF RemoveFile, Forget, SetDefault, KindAt
  <2>2. call'[c].kind = "reset" /\ \A d \in Call \ {c} : call'[d] = call[d]
    BY <2>1, GotoTypes DEF At
  <2>3. SetsMem(c) /\ ~InFlow(c) /\ ~InFlow(c)'
    BY <2>1, <2>2 DEF SetsMem, InFlow
  <2> QED BY <2>1, <2>2, <2>3, FlowOutlived
<1>21. CASE Restart
  <2>1. \A c \in Call : call'[c] = Idle
    BY <1>21 DEF Restart
  <2>2. \A c \in Call : call'[c].kind = "none"
    BY <2>1 DEF Idle
  <2> QED BY <2>2 DEF FlowInv, InFlow
<1>22. CASE UNCHANGED vars
  BY <1>2, <1>22 DEF vars
<1> QED
  BY <1>4, <1>5, <1>6, <1>7, <1>10, <1>11, <1>12, <1>13, <1>14, <1>15, <1>16, <1>17, <1>18,
     <1>19, <1>20, <1>21, <1>22, <1>a, <1>b
  DEF Next, Work

-----------------------------------------------------------------------------
(* The theorems. *)

IInv == TypeOK /\ KindAt /\ DotInv /\ SavesInv /\ ResetInv /\ FlowInv

LEMMA SettingsInit == Init => IInv
<1> SUFFICES ASSUME Init PROVE IInv
  OBVIOUS
<1>1. \A c \in Call : call[c] = Idle
  BY DEF Init
<1>2. KindAt
  BY <1>1 DEF KindAt, Idle
<1>3. DotInv
  BY DEF Init, DotInv, DotIsAboutForm, CheckingIsPending
<1>4. call \in [Call -> CallType] /\ mem \in Config /\ win \in Config
  BY ConfigTypes DEF Init
<1>5. /\ edits \in 0..MaxEdit /\ presses \in 0..MaxPress /\ restarts \in 0..MaxRestart
      /\ fails \in 0..MaxFail
  BY DEF Init
<1>6. /\ saveDue \in BOOLEAN /\ probeDue \in BOOLEAN /\ signin \in BOOLEAN
      /\ stale \in BOOLEAN /\ edited \in BOOLEAN /\ alone \in BOOLEAN /\ revived \in BOOLEAN
  BY DEF Init
<1>7. /\ file = Absent /\ lastGood = None /\ form = None /\ kept = {} /\ newest = NoCall
      /\ dot = "idle" /\ about = None
  BY DEF Init
<1>8. TypeOK
  BY <1>4, <1>5, <1>6, <1>7 DEF TypeOK, CallType
<1>9. SavesInv
  <2>1. \A c \in Call : ~Writing(c)
    BY <1>1 DEF Writing, Idle
  <2>2. Agree
    BY DEF Init, Agree, Load, Absent, Default
  <2>3. win.base = form
    BY DEF Init, Default
  <2> QED BY <2>1, <2>2, <2>3 DEF SavesInv
<1>10. ResetInv
  BY <1>1 DEF ResetInv
<1>11. FlowInv
  <2>1. \A c \in Call : call[c].kind = "none"
    BY <1>1 DEF Idle
  <2> QED BY <2>1 DEF FlowInv, InFlow
<1> QED BY <1>2, <1>3, <1>8, <1>9, <1>10, <1>11 DEF IInv

THEOREM Inductive == Spec => []IInv
<1>1. IInv /\ [Next]_vars => IInv'
  BY TypesStep, KindStep, DotStep, SavesStep, ResetStep, FlowStep DEF IInv
<1> QED BY <1>1, SettingsInit, PTL DEF Spec

\* Every variable has its type, whatever calls run together.
THEOREM TypeCorrect == Spec => []TypeOK
<1>1. IInv => TypeOK
  BY DEF IInv
<1> QED BY <1>1, Inductive, PTL

\* Whatever the user types while however many probes, saves and resets are under
\* way, an answer that stands is about the address in the window (app.js:231-232).
THEOREM DotAboutForm == Spec => []DotIsAboutForm
<1>1. IInv => DotIsAboutForm
  BY DEF IInv, DotInv
<1> QED BY <1>1, Inductive, PTL

\* "Checking" never stands without a probe that is due, or under way and the
\* one to be shown (app.js:225-241).
THEOREM CheckingPending == Spec => []CheckingIsPending
<1>1. IInv => CheckingIsPending
  BY DEF IInv, DotInv
<1> QED BY <1>1, Inductive, PTL

\* "Every change is written once typing settles" (app.js:124): with any number of
\* calls, at rest the file, the app and the window agree on what was typed,
\* unless since a save that ran alone two writers crossed or a write failed.
THEOREM SavesSettle == Spec => []SettledAgree
<1>1. IInv => SettledAgree
  <2> SUFFICES ASSUME IInv, Settled, ~stale PROVE Load(file) = mem /\ mem.base = form
    BY DEF SettledAgree
  <2>1. \A c \in Call : ~Writing(c)
    BY DEF Settled, Writing, Idle
  <2>2. Agree /\ win.base = form
    BY <2>1 DEF IInv, SavesInv, Settled
  <2> QED BY <2>2 DEF Agree
<1> QED BY <1>1, Inductive, PTL

\* reset_all(), with nothing beside it, ends with no file, nothing in memory, in
\* the window or remembered of the network (main.rs:182-202).
THEOREM ResetIsClean == Spec => CleanReset
<1>1. IInv /\ [Next]_vars => [\A c \in Call : ResetShown(c) /\ alone =>
          /\ file = Absent /\ mem = Default /\ lastGood = None
          /\ form = None /\ win = Default]_vars
  <2> SUFFICES ASSUME IInv, NEW c \in Call, ResetShown(c), alone
               PROVE  /\ file = Absent /\ mem = Default /\ lastGood = None
                      /\ form = None /\ win = Default
    OBVIOUS
  <2>1. call[c].at = "dot" /\ call[c] # Idle
    BY DEF ResetShown, Idle
  <2> QED BY <2>1 DEF IInv, ResetInv
<1> QED BY <1>1, Inductive, PTL DEF Spec, CleanReset

\* sign_in() works with the address that was in the window when Sign in was
\* pressed and with what discover() learnt of that one (app.js:516-530), however
\* many probes ran meanwhile, unless the user did something else, a save failed
\* or two calls wrote together.
THEOREM SignInDiscovered == Spec => SignInOnDiscovered
<1>1. IInv /\ [Next]_vars => [\A c \in Call :
          SignIn(c) /\ ~edited /\ ~stale => mem.base = form /\ mem.oidc = form]_vars
  <2> SUFFICES ASSUME IInv, NEW c \in Call, SignIn(c), ~edited, ~stale
               PROVE  mem.base = form /\ mem.oidc = form
    OBVIOUS
  <2>1. call[c].at = "signIn" /\ call[c].kind = "flowSave"
    BY DEF SignIn, IInv, KindAt
  <2> QED BY <2>1 DEF IInv, FlowInv
<1> QED BY <1>1, Inductive, PTL DEF Spec, SignInOnDiscovered
=============================================================================
