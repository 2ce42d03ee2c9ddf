------------------------------ MODULE Settings ------------------------------
(***************************************************************************)
(* The settings of SplitStream: config.json, the app's copy of it (App.cfg,*)
(* src-tauri/src/main.rs), the proxy it remembers (net.rs), and the window *)
(* (src/app.js), which keeps a copy of its own, saves the whole of it when *)
(* typing settles, and probes the address that was typed.                  *)
(*                                                                         *)
(* The commands run on worker threads of the app, any number at a time: a  *)
(* call is one under way.  A save truncates the file, writes it and then   *)
(* replaces the copy in memory, without a lock over the three; only        *)
(* check_server() and start_tunnel() save the copy and hold its lock while *)
(* they do.  Where the window only shows what a call returned, it does so  *)
(* in the call's last step.                                                *)
(*                                                                         *)
(* A configuration is the address of the enrollment service, which stands  *)
(* for all that the user types, the sign-in settings the server at some    *)
(* address gave, and the proxy that worked last.                           *)
(***************************************************************************)
EXTENDS Naturals

CONSTANTS
    Server,       \* addresses the user may type
    Proxy,        \* proxies a detection may find
    None,         \* an empty field, no proxy
    Call,         \* calls that may be under way together
    NoCall,
    MaxEdit, MaxPress, MaxRestart, MaxFail   \* bound what the user does, and failures

ASSUME SettingsAssumption ==
    /\ None \notin Server \cup Proxy
    /\ NoCall \notin Call
    /\ MaxEdit \in Nat /\ MaxPress \in Nat /\ MaxRestart \in Nat /\ MaxFail \in Nat

VARIABLES
    file,       \* config.json
    mem,        \* App.cfg
    lastGood,   \* LAST_GOOD
    call,       \* of each call: its command, where it is, what it works with
    form,       \* the address in the window
    win,        \* the window's copy, `cfg`
    kept,       \* the sign-ins that hold the object that is still `cfg`
    saveDue, probeDue,   \* saveTimer, probeTimer
    newest,     \* the probe that has the number probeSeq
    dot, about, \* what the window says of a server, and of which
    signin,     \* whether Sign in can be pressed
    edits, presses, restarts, fails,
    stale,      \* writers ran together or a write failed, since a save ran alone
    edited,     \* a new address, save, reset or sign-in since Sign in was pressed
    alone,      \* nothing ran beside the reset under way
    revived     \* the address in the window survived a reset

backend == <<file, mem, lastGood>>
timers  == <<saveDue, probeDue>>
light   == <<newest, dot, about, signin>>
copy    == <<win, kept>>
window  == <<form, copy, timers, light>>
bounds  == <<edits, presses, restarts, fails>>
history == <<stale, edited, alone, revived>>
vars    == <<backend, call, window, bounds, history>>

Config  == [base : Server \cup {None}, oidc : Server \cup {None}, good : Proxy \cup {None}]
Default == [base |-> None, oidc |-> None, good |-> None]

\* The file: there is none, it is truncated, it holds a whole configuration, or
\* the bytes of two.
Absent     == [is |-> "absent", cfg |-> Default]
Truncated  == [is |-> "truncated", cfg |-> Default]
Garbled    == [is |-> "garbled", cfg |-> Default]
Whole(cfg) == [is |-> "whole", cfg |-> cfg]

\* Config::load(): what cannot be read is the default.
Load(f) == f.cfg

Idle == [kind |-> "none", at |-> "idle", cfg |-> Default, via |-> None]
Kind == {"none", "save", "discover", "flowSave", "connect", "start", "probe", "recheck",
         "reset"}
At   == {"idle", "open", "write", "mem", "signIn", "record", "detect", "request",
         "remember", "note", "answer", "remove", "forget", "default", "load", "dot"}

Init ==
    /\ file = Absent /\ mem = Default /\ lastGood = None
    /\ call = [c \in Call |-> Idle]
    /\ form = None /\ win = Default /\ kept = {}
    /\ saveDue = FALSE /\ probeDue = FALSE
    /\ newest = NoCall /\ dot = "idle" /\ about = None /\ signin = FALSE
    /\ edits = 0 /\ presses = 0 /\ restarts = 0 /\ fails = 0
    /\ stale = FALSE /\ edited = FALSE /\ alone = FALSE /\ revived = FALSE

Checking(c) == call[c].kind \in {"probe", "recheck"}
Goto(c, to) == call' = [call EXCEPT ![c].at = to]
Returns(c)  == call' = [call EXCEPT ![c] = Idle]

\* check_server() and start_tunnel() hold the lock of App.cfg while they save it.
SavesMem(c) == Checking(c) \/ call[c].kind = "start"
MemFree     == \A c \in Call : SavesMem(c) => call[c].at \notin {"open", "write"}

\* Calls that read or hold a configuration they will write.
Writing(c) ==
    \/ call[c].at \in {"open", "write", "mem"}
    \/ call[c].kind \in {"discover", "reset"} /\ call[c].at # "dot"
Others(c)  == \E d \in Call \ {c} : Writing(d)
\* A save from the window replaces all there is.
Replaces(c) == stale' = Others(c)
Races(c)    == stale' = (stale \/ Others(c))

-----------------------------------------------------------------------------
(***************************************************************************)
(* The window calls.                                                       *)
(***************************************************************************)
Invoke(c, kind, at, cfg) ==
    /\ call[c] = Idle
    /\ call' = [call EXCEPT ![c] = [Idle EXCEPT !.kind = kind, !.at = at, !.cfg = cfg]]

\* Mutant: the fields of the form are left out.
FormUnread == win

\* readForm(): the window's copy with the fields of the form.
Form == [win EXCEPT !.base = form]

\* Mutant: a state the window has no colour for.
SetDotBusy(state) ==
    /\ dot' = IF state = "checking" THEN "busy" ELSE state
    /\ signin' = (state = "up")

\* setDot()
SetDot(state) == dot' = state /\ signin' = (state = "up")

\* The user edits the address: both timers start again.
Type(s) ==
    /\ edits < MaxEdit /\ edits' = edits + 1
    /\ s # form /\ form' = s
    /\ saveDue' = TRUE /\ probeDue' = TRUE
    /\ SetDot("checking")
    /\ edited' = TRUE /\ alone' = FALSE /\ revived' = FALSE
    /\ UNCHANGED <<backend, call, copy, newest, about, presses, restarts, fails, stale>>

\* The user types in another field: the timer of the save alone starts again.
TypeOther ==
    /\ edits < MaxEdit /\ edits' = edits + 1
    /\ saveDue' = TRUE
    /\ alone' = FALSE
    /\ UNCHANGED <<backend, call, form, copy, probeDue, light, presses, restarts, fails,
                   stale, edited, revived>>

Save(c, kind) ==
    /\ Invoke(c, kind, "open", Form) /\ Replaces(c)
    /\ win' = Form /\ kept' = {}
    /\ edited' = TRUE /\ alone' = FALSE
    /\ UNCHANGED <<backend, form, probeDue, light, restarts, fails, revived>>

\* save(), when typing has settled ...
SaveTyped(c) ==
    /\ saveDue /\ saveDue' = FALSE
    /\ Save(c, "save")
    /\ UNCHANGED <<edits, presses>>

\* ... or as soon as an option is changed ...
SaveOption(c) ==
    /\ edits < MaxEdit /\ edits' = edits + 1
    /\ Save(c, "save")
    /\ UNCHANGED <<saveDue, presses>>

\* ... or Connect is pressed, which is enabled again every 2 s (paintSteps()).
PressConnect(c) ==
    /\ presses < MaxPress /\ presses' = presses + 1
    /\ Save(c, "connect")
    /\ UNCHANGED <<saveDue, edits>>

\* probeServer(): an empty address is not probed, and takes no new number.
ProbeServer(c, kind) ==
    /\ IF form = None
       THEN SetDot("idle") /\ UNCHANGED <<call, newest>>
       ELSE /\ MemFree
            /\ Invoke(c, kind, "detect", [mem EXCEPT !.base = form])
            /\ SetDot("checking") /\ newest' = c
    /\ alone' = FALSE
    /\ UNCHANGED <<backend, form, copy, saveDue, about, edits, restarts, fails, stale,
                   edited, revived>>

\* The timer of the probe is the longer of the two, and still ends first when
\* that of the save was started again.
Probe(c) ==
    /\ probeDue /\ probeDue' = FALSE
    /\ ProbeServer(c, "probe")
    /\ UNCHANGED presses

\* The button, disabled while its own probe runs; a timer that runs goes on.
Recheck(c) ==
    /\ presses < MaxPress /\ presses' = presses + 1
    /\ \A d \in Call : call[d].kind # "recheck"
    /\ ProbeServer(c, "recheck")
    /\ UNCHANGED probeDue

\* Sign in: discover(), then save(), then sign_in().  The button is disabled
\* until the three are done, or until a probe paints it again.
PressSignIn(c) ==
    /\ presses < MaxPress /\ presses' = presses + 1
    /\ signin /\ form # None
    /\ MemFree
    /\ Invoke(c, "discover", "request", [mem EXCEPT !.base = form]) /\ Races(c)
    /\ signin' = FALSE
    /\ edited' = \E d \in Call : call[d].kind \in {"discover", "flowSave"}
    /\ kept' = kept \cup {c}
    /\ alone' = FALSE
    /\ UNCHANGED <<backend, form, win, timers, newest, dot, about, edits, restarts,
                   fails, revived>>

\* The button is disabled until reset_all() returns.
PressReset(c) ==
    /\ presses < MaxPress /\ presses' = presses + 1
    /\ \A d \in Call : call[d].at \notin {"remove", "forget", "default"}
    /\ Invoke(c, "reset", "remove", Default) /\ Races(c)
    /\ alone' = ((\A d \in Call : call[d] = Idle) /\ ~saveDue /\ ~probeDue)
    /\ edited' = TRUE
    /\ UNCHANGED <<backend, window, edits, restarts, fails, revived>>

-----------------------------------------------------------------------------
(***************************************************************************)
(* Config::save(), and what its callers do after it.                       *)
(***************************************************************************)
\* fs::write() creates or truncates the file ...
Open(c) ==
    /\ call[c].at = "open"
    /\ Goto(c, "write")
    /\ file' = Truncated
    /\ UNCHANGED <<mem, lastGood, window, bounds, history>>

\* ... and writes to it: to a removed file in vain, and beside the bytes of
\* another that wrote since the file was truncated.
Written(c) ==
    LET body == Whole(IF SavesMem(c) THEN mem ELSE call[c].cfg)
    IN  CASE file = Absent    -> {Absent}
          [] file = Truncated -> {body}
          [] OTHER            -> {body, Garbled}

\* Mutant: every probe is shown.
AnsweredAny(c, state) ==
    /\ Returns(c)
    /\ SetDot(state) /\ newest' = NoCall /\ about' = call[c].cfg.base

\* Only the newest probe is shown.
Answered(c, state) ==
    /\ Returns(c)
    /\ IF newest = c
       THEN SetDot(state) /\ newest' = NoCall /\ about' = call[c].cfg.base
       ELSE UNCHANGED light

Write(c) ==
    /\ call[c].at = "write"
    /\ file' \in Written(c)
    /\ CASE Checking(c)            -> Answered(c, "up")
         [] call[c].kind = "start" -> Returns(c) /\ UNCHANGED light
         [] OTHER                  -> Goto(c, "mem") /\ UNCHANGED light
    /\ UNCHANGED <<mem, lastGood, form, copy, timers, bounds, history>>

\* The file cannot be opened, or not be written.  save() shows the error and
\* goes on, check_server() and start_tunnel() do not look, discover() ends the
\* sign-in.
SaveFails(c) ==
    /\ fails < MaxFail /\ fails' = fails + 1
    /\ call[c].at \in {"open", "write"}
    /\ stale' = TRUE
    /\ kept' = IF call[c].kind = "discover" THEN kept \ {c} ELSE kept
    /\ CASE call[c].kind \in {"save", "start"} -> Returns(c) /\ UNCHANGED light
         [] call[c].kind = "flowSave" -> Goto(c, "signIn") /\ UNCHANGED light
         [] call[c].kind = "connect"  -> Goto(c, "record") /\ UNCHANGED light
         [] call[c].kind = "discover" -> Returns(c) /\ signin' = TRUE
                                         /\ UNCHANGED <<newest, dot, about>>
         [] Checking(c)               -> Answered(c, "up")
    /\ UNCHANGED <<backend, form, win, timers, edits, presses, restarts,
                   edited, alone, revived>>

\* The copy in memory is replaced.
SetMem(c) ==
    /\ call[c].at = "mem" /\ MemFree
    /\ mem' = call[c].cfg
    /\ CASE call[c].kind = "save"     -> Returns(c)
         [] call[c].kind = "flowSave" -> Goto(c, "signIn")
         [] call[c].kind = "connect"  -> Goto(c, "record")
         [] call[c].kind = "discover" -> Goto(c, "answer")
    /\ UNCHANGED <<file, lastGood, window, bounds, history>>

\* The window puts what discover() returned into the object that was its copy
\* when Sign in was pressed, and saves: in vain if the copy was replaced since.
SaveDiscovered(c) ==
    /\ call[c].at = "answer"
    /\ win' = IF c \in kept THEN [Form EXCEPT !.oidc = call[c].cfg.oidc] ELSE Form
    /\ kept' = {}
    /\ call' = [call EXCEPT ![c] = [Idle EXCEPT !.kind = "flowSave", !.at = "open",
                                               !.cfg = win']]
    /\ Replaces(c)
    /\ UNCHANGED <<backend, form, timers, light, bounds, edited, alone, revived>>

\* Mutant: the settings of the server are not kept.
DiscoverAnswersUnkept(c) ==
    /\ call[c].kind = "discover" /\ call[c].at = "request"
    /\ Goto(c, "open")
    /\ UNCHANGED <<backend, window, bounds, history>>

DiscoverAnswers(c) ==
    /\ call[c].kind = "discover" /\ call[c].at = "request"
    /\ call' = [call EXCEPT ![c].at = "open", ![c].cfg.oidc = call[c].cfg.base]
    /\ UNCHANGED <<backend, window, bounds, history>>

DiscoverFails(c) ==
    /\ call[c].kind = "discover" /\ call[c].at = "request"
    /\ Returns(c) /\ signin' = TRUE /\ kept' = kept \ {c}
    /\ UNCHANGED <<backend, form, win, timers, newest, dot, about, bounds, history>>

\* sign_in() takes the settings it works with; what follows is in Credentials.
SignIn(c) ==
    /\ call[c].at = "signIn" /\ MemFree
    /\ Returns(c) /\ signin' = TRUE
    /\ UNCHANGED <<backend, form, copy, timers, newest, dot, about, bounds, history>>

\* start_tunnel(): where the record says to connect goes into the copy in memory
\* (no part of a configuration here), which is saved ...
NoteRecord(c) ==
    /\ call[c].at = "record" /\ MemFree
    /\ call' = [call EXCEPT ![c].kind = "start", ![c].at = "open"]
    /\ Races(c)
    /\ UNCHANGED <<backend, window, bounds, edited, alone, revived>>

\* ... if there is a record to connect with.
NoRecord(c) ==
    /\ call[c].at = "record"
    /\ Returns(c)
    /\ UNCHANGED <<backend, window, bounds, history>>

-----------------------------------------------------------------------------
(***************************************************************************)
(* check_server().                                                         *)
(***************************************************************************)
\* detect_for(): the environment, the registry and Windows may each name a
\* proxy or not, from one time to the next; else it is the remembered one.
DetectFor == {IF found = None THEN lastGood ELSE found : found \in Proxy \cup {None}}

Detect(c) ==
    /\ call[c].at = "detect"
    /\ \E p \in DetectFor : call' = [call EXCEPT ![c].at = "request", ![c].via = p]
    /\ UNCHANGED <<backend, window, bounds, history>>

CheckAnswers(c) ==
    /\ Checking(c) /\ call[c].at = "request"
    /\ IF call[c].via = None
       THEN Answered(c, "up")
       ELSE Goto(c, "remember") /\ UNCHANGED light
    /\ UNCHANGED <<backend, form, copy, timers, bounds, history>>

\* Mutant: the window does not catch the error.
CheckFailsUncaught(c) ==
    /\ Checking(c) /\ call[c].at = "request"
    /\ Returns(c)
    /\ newest' = IF newest = c THEN NoCall ELSE newest
    /\ UNCHANGED <<backend, form, copy, timers, dot, about, signin, bounds, history>>

CheckFails(c) ==
    /\ Checking(c) /\ call[c].at = "request"
    /\ Answered(c, "down")
    /\ UNCHANGED <<backend, form, copy, timers, bounds, history>>

\* net::remember()
Remember(c) ==
    /\ call[c].at = "remember"
    /\ Goto(c, "note")
    /\ lastGood' = call[c].via
    /\ UNCHANGED <<file, mem, window, bounds, history>>

\* The proxy is noted in the copy in memory, which is saved if that changed it.
Note(c) ==
    /\ call[c].at = "note" /\ MemFree
    /\ mem' = [mem EXCEPT !.good = call[c].via]
    /\ IF mem' = mem
       THEN Answered(c, "up") /\ UNCHANGED stale
       ELSE Goto(c, "open") /\ Races(c) /\ UNCHANGED light
    /\ UNCHANGED <<file, lastGood, form, copy, timers, bounds, edited, alone, revived>>

-----------------------------------------------------------------------------
(***************************************************************************)
(* reset_all(), as far as it is about the settings, and the window after.  *)
(***************************************************************************)
RemoveFile(c) ==
    /\ call[c].at = "remove"
    /\ Goto(c, "forget")
    /\ file' = Absent
    /\ UNCHANGED <<mem, lastGood, window, bounds, history>>

\* Mutant: the proxy is still remembered.
ForgetNothing(c) ==
    /\ call[c].at = "forget"
    /\ Goto(c, "default")
    /\ UNCHANGED <<backend, window, bounds, history>>

\* net::forget()
Forget(c) ==
    /\ call[c].at = "forget"
    /\ Goto(c, "default")
    /\ lastGood' = None
    /\ UNCHANGED <<file, mem, window, bounds, history>>

SetDefault(c) ==
    /\ call[c].at = "default" /\ MemFree
    /\ Goto(c, "load")
    /\ mem' = Default
    /\ UNCHANGED <<file, lastGood, window, bounds, history>>

\* loadState(): get_config() fills the form; timers and probes go on ...
FillForm(c) ==
    /\ call[c].at = "load" /\ MemFree
    /\ Goto(c, "dot")
    /\ win' = mem /\ form' = mem.base /\ kept' = {}
    /\ revived' = (form' # None) /\ edited' = TRUE
    /\ UNCHANGED <<backend, timers, light, bounds, stale, alone>>

\* ... and when all else is read, no server is known.
ResetShown(c) ==
    /\ call[c].at = "dot"
    /\ Returns(c)
    /\ SetDot("idle")
    /\ UNCHANGED <<backend, form, copy, timers, newest, about, bounds, history>>

\* The app ends, wherever its calls are, and is launched: the remembered proxy
\* comes from the file, and the address is probed.
Restart ==
    /\ restarts < MaxRestart /\ restarts' = restarts + 1
    /\ mem' = Load(file) /\ lastGood' = Load(file).good
    /\ call' = [c \in Call |-> Idle]
    /\ win' = Load(file) /\ kept' = {} /\ form' = Load(file).base
    /\ saveDue' = FALSE /\ probeDue' = (form' # None)
    /\ newest' = NoCall /\ about' = None /\ SetDot("idle")
    /\ stale' = FALSE /\ edited' = FALSE /\ alone' = FALSE /\ revived' = FALSE
    /\ UNCHANGED <<file, edits, presses, fails>>

Work(c) ==
    \/ Open(c) \/ Write(c) \/ SaveFails(c) \/ SetMem(c) \/ SaveDiscovered(c)
    \/ DiscoverAnswers(c) \/ DiscoverFails(c) \/ SignIn(c) \/ NoteRecord(c) \/ NoRecord(c)
    \/ Detect(c) \/ CheckAnswers(c) \/ CheckFails(c) \/ Remember(c) \/ Note(c)
    \/ RemoveFile(c) \/ Forget(c) \/ SetDefault(c)
    \/ FillForm(c) \/ ResetShown(c)

Next ==
    \/ \E s \in Server \cup {None} : Type(s)
    \/ TypeOther
    \/ \E c \in Call :
          \/ SaveTyped(c) \/ SaveOption(c) \/ Probe(c) \/ Recheck(c)
          \/ PressSignIn(c) \/ PressConnect(c) \/ PressReset(c)
          \/ Work(c)
    \/ Restart

Spec == Init /\ [][Next]_vars

-----------------------------------------------------------------------------
(* Invariants. *)

\* Every variable has its type.
TypeOK ==
    /\ file \in {Absent, Truncated, Garbled} \cup {Whole(cfg) : cfg \in Config}
    /\ mem \in Config /\ win \in Config /\ kept \subseteq Call /\ form \in Server \cup {None}
    /\ lastGood \in Proxy \cup {None}
    /\ call \in [Call -> [kind : Kind, at : At, cfg : Config, via : Proxy \cup {None}]]
    /\ saveDue \in BOOLEAN /\ probeDue \in BOOLEAN
    /\ newest \in Call \cup {NoCall}
    /\ dot \in {"idle", "checking", "up", "down"} /\ about \in Server \cup {None}
    /\ signin \in BOOLEAN
    /\ edits \in 0..MaxEdit /\ presses \in 0..MaxPress /\ restarts \in 0..MaxRestart
    /\ fails \in 0..MaxFail
    /\ stale \in BOOLEAN /\ edited \in BOOLEAN /\ alone \in BOOLEAN
    /\ revived \in BOOLEAN

Settled == (\A c \in Call : call[c] = Idle) /\ ~saveDue

\* "Every change is written once typing settles" (app.js:124): when no call and
\* no save is due, the file, the app and the window agree on what the user
\* typed, unless since the last save that ran alone two writers ran together or
\* a write failed.
SettledAgree == Settled /\ ~stale => Load(file) = mem /\ mem.base = form

\* When no probe is due or under way, what the window says of a server it says
\* of the address in the window: an answer of an older probe never stands.  An
\* emptied field is excepted (see ProbeServer), and an address that a save put
\* back under a reset, which does not drop the probes it finds under way.
DotIsAboutForm ==
    ~probeDue /\ newest = NoCall /\ form # None /\ ~revived /\ dot \in {"up", "down"} =>
        about = form

\* The window says "Checking" only while the answer is to come: a probe is due,
\* or the one that will be shown is under way.
CheckingIsPending ==
    dot = "checking" => probeDue \/ (newest # NoCall /\ Checking(newest))

\* "Persist it too, so the next launch starts knowing" (main.rs:330).
NextLaunchKnows ==
    Settled /\ ~stale /\ lastGood # None => Load(file).good = lastGood

-----------------------------------------------------------------------------
(* Action properties. *)

\* Sign in works with the settings of the address that was in the window when
\* it was pressed, unless that was edited, saved or reset meanwhile, a save
\* failed or two calls wrote together.
SignInOnDiscovered ==
    [][\A c \in Call :
        SignIn(c) /\ ~edited /\ ~stale => mem.base = form /\ mem.oidc = form]_vars

\* A reset that nothing runs beside brings back the first run: no file, nothing
\* in memory, in the window or remembered of the network.
CleanReset ==
    [][\A c \in Call : ResetShown(c) /\ alone =>
        /\ file = Absent /\ mem = Default /\ lastGood = None
        /\ form = None /\ win = Default]_vars

=============================================================================
