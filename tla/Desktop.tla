------------------------------- MODULE Desktop -------------------------------
(***************************************************************************)
(* What SplitStream changes outside its own directory: Spotify's settings  *)
(* (src-tauri/src/spotify.rs), which are pointed at the tunnel's listener  *)
(* while it runs, and the start-up entry (autostart.rs), with the buttons  *)
(* of the window (src/app.js) and the commands (main.rs) that touch them.  *)
(*                                                                         *)
(* A button is disabled while its own command runs, and no other is.  The  *)
(* checkbox of the start-up entry never is, and each refresh enables       *)
(* Connect/Disconnect again: the presses of these two run together.        *)
(*                                                                         *)
(* Spotify's file is a sequence of lines, a key and a value; what the app  *)
(* does not look at is a line of the key "other", and a line without `='   *)
(* is one of the key "keyless".  A mode is "none", "proxy" (4) or "own"    *)
(* (any other), an address a port of 127.0.0.1 as @socks5, or "own".       *)
(***************************************************************************)
EXTENDS Naturals, Sequences, SequencesExt

CONSTANTS
    Port,         \* local ports the user may choose
    Down,         \* the tunnel's port while it does not run
    DefaultPort,  \* 1080
    Toggle,       \* presses of Connect/Disconnect that may be under way together
    Box,          \* presses of the checkbox that may be
    Layout,       \* what Spotify may have in its file at first
    Value,        \* values of its own settings
    Missing,      \* no file
    MaxPress, MaxEvent   \* bound what the user does, and what befalls the app

Key  == {"mode", "addr", "other", "keyless"}
Line == [key : Key, val : {"none", "proxy", "own"} \cup Port \cup Value]

ASSUME DesktopAssumption ==
    /\ DefaultPort \in Port /\ Down \notin Port
    /\ Port \cap {"none", "proxy", "own"} = {}
    /\ Box \cap {"fix", "off", "reset"} = {} /\ Toggle \cap {"fix", "off", "reset"} = {}
    /\ Box \cap Toggle = {}
    /\ Missing \notin Seq(Line) /\ Layout \subseteq Seq(Line) \cup {Missing}
    /\ MaxPress \in Nat /\ MaxEvent \in Nat

VARIABLES
    prefs,     \* Spotify's file
    backup,    \* the copy of it
    tunnel,    \* the port the tunnel was started on, or Down
    cfg,       \* App.cfg: manage_spotify and local_port
    job,       \* of each control: its command, where it is, what it works with
    entry,     \* where the start-up entry is: the Task Scheduler, the Run key
    legacy,    \* where that of the app's old name is
    policy,    \* of each home: what the machine allows there
    box,       \* the checkbox
    presses, events,
    rest,      \* Spotify's own settings, as it last wrote them
    theirs,    \* the proxy the user had in Spotify's file
    torn,      \* a write of Spotify's file was crossed, failed or was cut short
    sound,     \* nothing but lone commands moved the tunnel and Spotify
    mixed,     \* two commands changed the start-up entry together
    blind      \* the checkbox was last read from a machine that did not answer

spotify == <<prefs, backup>>
startup == <<entry, legacy, policy, box>>
bounds  == <<presses, events>>
history == <<rest, theirs, torn, sound, mixed, blind>>
vars    == <<spotify, tunnel, cfg, job, startup, bounds, history>>

Control == {"fix", "off", "reset"} \cup Toggle \cup Box
Home    == {"task", "run"}
Policy  == [Home -> {"allowed", "denied", "broken"}]
Config  == [manage : BOOLEAN, port : Port]
Default == [manage |-> FALSE, port |-> DefaultPort]

Op  == {"none", "apply", "restore", "enable", "disable"}
At  == {"idle", "preflight", "stop", "backup", "copy", "read", "truncate", "write",
        "purge", "create", "add", "deleteTask", "deleteRun", "query", "default"}
Job == [op : Op, at : At, port : Port, body : Seq(Line)]

Idle == [op |-> "none", at |-> "idle", port |-> DefaultPort, body |-> <<>>]

IsOurs(line) == line.key \in {"mode", "addr"}
\* Spotify's own lines, each in its place.
Rest(lines)  == [i \in {j \in DOMAIN lines : ~IsOurs(lines[j])} |-> lines[i]]

Vals(lines, key) == {lines[i].val : i \in {j \in DOMAIN lines : lines[j].key = key}}
\* get_key(): the first line of the key, unless one without `=' comes before it.
GetKey(lines, key) ==
    LET at == SelectInSeq(lines, LAMBDA line : line.key \in {key, "keyless"})
    IN  IF at = 0 \/ lines[at].key = "keyless" THEN "none" ELSE lines[at].val

\* state().points_at_us
PointsAtUs(lines, port) ==
    GetKey(lines, "mode") = "proxy" /\ GetKey(lines, "addr") = port

Init ==
    /\ prefs \in Layout /\ backup = Missing
    /\ tunnel = Down /\ cfg \in {c \in Config : c.port = DefaultPort}
    /\ job = [x \in Control |-> Idle]
    /\ entry = {} /\ legacy = {"task"} /\ policy \in Policy /\ box = FALSE
    /\ presses = 0 /\ events = 0
    /\ LET lines == IF prefs = Missing THEN <<>> ELSE prefs
       IN  /\ rest = Rest(lines)
           /\ theirs = [mode |-> Vals(lines, "mode"), addr |-> Vals(lines, "addr")]
           /\ sound = ~\E p \in Port : PointsAtUs(lines, p)
    /\ torn = FALSE /\ mixed = FALSE /\ blind = FALSE

Goto(x, at) == job' = [job EXCEPT ![x].at = at]
Returns(x)  == job' = [job EXCEPT ![x] = Idle]

InPrefs(x) == job[x].at \in {"backup", "copy", "read", "truncate", "write"}
InEntry(x) == job[x].at \in {"purge", "create", "add", "deleteTask", "deleteRun", "query"}
Alone(x)   == \A y \in Control \ {x} : ~InPrefs(y)
Quiet      == \A x \in Control : job[x] = Idle
Befalls    == events < MaxEvent /\ events' = events + 1

-----------------------------------------------------------------------------
(***************************************************************************)
(* Spotify's file.                                                         *)
(***************************************************************************)
\* Mutant: the first such line alone is replaced, the lines after it are lost.
SetKeyCut(lines, key, val) ==
    LET at == SelectInSeq(lines, LAMBDA line : line.key = key)
        n  == IF at = 0 THEN Len(lines) ELSE at - 1
    IN  Append(SubSeq(lines, 1, n), [key |-> key, val |-> val])

\* set_key(): every line of the key is replaced, or there is a new one at the end.
SetKey(lines, key, val) ==
    LET line == [key |-> key, val |-> val]
    IN  IF \E i \in DOMAIN lines : lines[i].key = key
        THEN [i \in DOMAIN lines |-> IF lines[i].key = key THEN line ELSE lines[i]]
        ELSE Append(lines, line)

Applied(lines, port) == SetKey(SetKey(lines, "mode", "proxy"), "addr", port)
Restored(lines)      == SetKey(lines, "mode", "none")

\* A command that changes the file begins beside another.
Joins(x) == torn' = (torn \/ \E y \in Control \ {x} : InPrefs(y))

\* Mutant: the copy is made each time.
LookForBackupNever(x) ==
    /\ job[x].at = "backup"
    /\ IF prefs = Missing THEN Returns(x) ELSE Goto(x, "copy")
    /\ UNCHANGED <<spotify, tunnel, cfg, startup, bounds, history>>

\* apply(): no file is an error; a copy of it is made once.
LookForBackup(x) ==
    /\ job[x].at = "backup"
    /\ IF prefs = Missing
       THEN Returns(x)
       ELSE Goto(x, IF backup = Missing THEN "copy" ELSE "read")
    /\ UNCHANGED <<spotify, tunnel, cfg, startup, bounds, history>>

CopyPrefs(x) ==
    /\ job[x].at = "copy"
    /\ Goto(x, "read")
    /\ backup' = prefs
    /\ UNCHANGED <<prefs, tunnel, cfg, startup, bounds, history>>

\* What comes after Spotify in a reset is the start-up entry.
PrefsDone(x) == IF x = "reset" THEN Goto(x, "purge") ELSE Returns(x)

\* restore() has nothing to do without a file.
ReadPrefs(x) ==
    /\ job[x].at = "read"
    /\ IF prefs = Missing
       THEN PrefsDone(x)
       ELSE job' = [job EXCEPT ![x].at = "truncate", ![x].body =
                IF job[x].op = "apply" THEN Applied(prefs, job[x].port) ELSE Restored(prefs)]
    /\ UNCHANGED <<spotify, tunnel, cfg, startup, bounds, history>>

\* fs::write() truncates the file ...
TruncatePrefs(x) ==
    /\ job[x].at = "truncate"
    /\ Goto(x, "write")
    /\ prefs' = <<>>
    /\ UNCHANGED <<backup, tunnel, cfg, startup, bounds, history>>

\* ... and writes it.
WritePrefs(x) ==
    /\ job[x].at = "write"
    /\ PrefsDone(x)
    /\ prefs' = job[x].body
    /\ UNCHANGED <<backup, tunnel, cfg, startup, bounds, history>>

\* The file cannot be copied, read, opened to write, or written.  Only the
\* buttons of the Spotify card look at the error.
PrefsFail(x) ==
    /\ Befalls
    /\ job[x].at \in {"copy", "read", "truncate", "write"}
    /\ PrefsDone(x)
    /\ torn' = (torn \/ job[x].at = "write") /\ sound' = FALSE
    /\ UNCHANGED <<spotify, tunnel, cfg, startup, presses, rest, theirs, mixed, blind>>

\* Spotify writes a setting of its own, and its file if there was none.
SpotifySaves ==
    /\ Befalls
    /\ \E v \in Value :
          LET lines == IF prefs = Missing THEN <<>> ELSE prefs
          IN  prefs' = SetKey(lines, "other", v)
    /\ rest' = Rest(prefs')
    /\ torn' = (torn \/ \E x \in Control : InPrefs(x))
    /\ sound' = (sound /\ (prefs = Missing => tunnel = Down))
    /\ UNCHANGED <<backup, tunnel, cfg, job, startup, presses, theirs, mixed, blind>>

-----------------------------------------------------------------------------
(***************************************************************************)
(* The buttons, and the tunnel.                                            *)
(***************************************************************************)
Press(x, op, at) ==
    /\ presses < MaxPress /\ presses' = presses + 1
    /\ job[x] = Idle
    /\ job' = [job EXCEPT ![x] = [Idle EXCEPT !.op = op, !.at = at, !.port = cfg.port]]

\* "Fix": spotify_apply(), at the port of the settings, and "No proxy":
\* spotify_restore(); whether the tunnel runs or not.
PressFix ==
    /\ Press("fix", "apply", "backup") /\ Joins("fix")
    /\ sound' = FALSE
    /\ UNCHANGED <<spotify, tunnel, cfg, startup, events, rest, theirs, mixed, blind>>

PressOff ==
    /\ Press("off", "restore", "read") /\ Joins("off")
    /\ sound' = FALSE
    /\ UNCHANGED <<spotify, tunnel, cfg, startup, events, rest, theirs, mixed, blind>>

\* Connect: start_tunnel() copies the settings and looks for a way to the server.
PressConnect(t) ==
    /\ Press(t, IF cfg.manage THEN "apply" ELSE "none", "preflight")
    /\ UNCHANGED <<spotify, tunnel, cfg, startup, events, history>>

ConnectFails(t) ==
    /\ job[t].at = "preflight"
    /\ Returns(t)
    /\ UNCHANGED <<spotify, tunnel, cfg, startup, bounds, history>>

\* Supervisor::start() does nothing if it runs already; then apply().
Connect(t) ==
    /\ job[t].at = "preflight"
    /\ tunnel' = IF tunnel = Down THEN job[t].port ELSE tunnel
    /\ sound' = (Alone(t) /\ job[t].op = "apply" /\ tunnel' = job[t].port)
    /\ IF job[t].op = "apply"
       THEN Goto(t, "backup") /\ Joins(t)
       ELSE Returns(t) /\ UNCHANGED torn
    /\ UNCHANGED <<spotify, cfg, startup, bounds, rest, theirs, mixed, blind>>

\* Disconnect, whether there is still a tunnel or not.
PressDisconnect(t) ==
    /\ Press(t, "none", "stop")
    /\ UNCHANGED <<spotify, tunnel, cfg, startup, events, history>>

\* Mutant: Spotify is left as it is.
DisconnectOnly(t) ==
    /\ job[t].at = "stop"
    /\ tunnel' = Down
    /\ Returns(t)
    /\ sound' = (cfg.manage /\ Alone(t))
    /\ UNCHANGED <<spotify, cfg, startup, bounds, rest, theirs, torn, mixed, blind>>

\* stop_tunnel() stops the supervisor, reads the option, and then restore().
Disconnect(t) ==
    /\ job[t].at = "stop"
    /\ tunnel' = Down
    /\ IF cfg.manage
       THEN job' = [job EXCEPT ![t].op = "restore", ![t].at = "read"] /\ Joins(t)
       ELSE Returns(t) /\ UNCHANGED torn
    /\ sound' = (cfg.manage /\ Alone(t))
    /\ UNCHANGED <<spotify, cfg, startup, bounds, rest, theirs, mixed, blind>>

\* Reset: reset_all() stops the supervisor, restores Spotify, removes the
\* start-up entry, and then what Credentials and Settings are about.
PressReset ==
    /\ Press("reset", "restore", IF cfg.manage THEN "read" ELSE "purge")
    /\ IF cfg.manage THEN Joins("reset") ELSE UNCHANGED torn
    /\ tunnel' = Down
    /\ sound' = (cfg.manage /\ Alone("reset"))
    /\ UNCHANGED <<spotify, cfg, startup, events, rest, theirs, mixed, blind>>

\* is_enabled(): a home that does not answer reads as no entry there, and the
\* checkbox shows what was read.
Look ==
    /\ box' = (\E h \in entry : policy[h] # "broken")
    /\ blind' = ((\E h \in Home : policy[h] = "broken") \/ (blind /\ entry = Home))

\* The window reads the start-up entry again (loadState()).
ResetDone ==
    /\ job["reset"].at = "default"
    /\ Returns("reset")
    /\ cfg' = Default /\ Look
    /\ UNCHANGED <<spotify, tunnel, entry, legacy, policy, bounds, rest, theirs, torn,
                   sound, mixed>>

\* sign_out() stops the supervisor, or it gives up (tunnel.rs): Spotify is left
\* as it is.
TunnelEnds ==
    /\ Befalls
    /\ tunnel # Down /\ tunnel' = Down
    /\ sound' = FALSE
    /\ UNCHANGED <<spotify, cfg, job, startup, presses, rest, theirs, torn, mixed, blind>>

\* The settings are saved with another port, or the option changed.
ChangeSettings ==
    /\ presses < MaxPress /\ presses' = presses + 1
    /\ cfg' \in Config \ {cfg}
    /\ UNCHANGED <<spotify, tunnel, job, startup, events, history>>

-----------------------------------------------------------------------------
(***************************************************************************)
(* The start-up entry.                                                     *)
(***************************************************************************)
\* The homes whose entries the machine lets go of.
Deletable == {h \in Home : policy[h] = "allowed"}

\* A command that changes the entry begins beside another.
Mixes(x) ==
    mixed' = (mixed \/ \E y \in Control \ {x} : InEntry(y) \/ job[y].at = "default")

\* The checkbox turns by itself, then set_autostart() is called.
PressBox(b) ==
    /\ Press(b, IF box THEN "disable" ELSE "enable", "purge") /\ Mixes(b)
    /\ box' = ~box
    /\ UNCHANGED <<spotify, tunnel, cfg, entry, legacy, policy, events, rest, theirs, torn,
                   sound, blind>>

\* purge_legacy()
Purge(x) ==
    /\ job[x].at = "purge"
    /\ Goto(x, IF job[x].op = "enable" THEN "create" ELSE "deleteTask")
    /\ legacy' = legacy \ Deletable
    /\ Mixes(x)
    /\ UNCHANGED <<spotify, tunnel, cfg, entry, policy, box, bounds, rest, theirs, torn,
                   sound, blind>>

\* enable(): the Run key if the Task Scheduler denies, an error if it is broken;
\* an error clears the checkbox.
CreateTask(x) ==
    /\ job[x].at = "create"
    /\ CASE policy.task = "allowed" ->
               Goto(x, "query") /\ entry' = entry \cup {"task"} /\ UNCHANGED box
         [] policy.task = "denied" -> Goto(x, "add") /\ UNCHANGED <<entry, box>>
         [] policy.task = "broken" -> Returns(x) /\ box' = FALSE /\ UNCHANGED entry
    /\ UNCHANGED <<spotify, tunnel, cfg, legacy, policy, bounds, history>>

\* Mutant: the entry is added where it is not looked for.
AddRunOnce(x) ==
    /\ job[x].at = "add"
    /\ Goto(x, "query") /\ entry' = entry \cup {"runOnce"}
    /\ UNCHANGED <<spotify, tunnel, cfg, legacy, policy, box, bounds, history>>

AddRunKey(x) ==
    /\ job[x].at = "add"
    /\ IF policy.run = "allowed"
       THEN Goto(x, "query") /\ entry' = entry \cup {"run"} /\ UNCHANGED box
       ELSE Returns(x) /\ box' = FALSE /\ UNCHANGED entry
    /\ UNCHANGED <<spotify, tunnel, cfg, legacy, policy, bounds, history>>

\* disable(): both homes, and nobody looks whether they let go.
DeleteTask(x) ==
    /\ job[x].at = "deleteTask"
    /\ Goto(x, "deleteRun")
    /\ entry' = entry \ ({"task"} \cap Deletable)
    /\ UNCHANGED <<spotify, tunnel, cfg, legacy, policy, box, bounds, history>>

DeleteRunKey(x) ==
    /\ job[x].at = "deleteRun"
    /\ Goto(x, IF x = "reset" THEN "default" ELSE "query")
    /\ entry' = entry \ ({"run"} \cap Deletable)
    /\ UNCHANGED <<spotify, tunnel, cfg, legacy, policy, box, bounds, history>>

\* Mutant: the checkbox stays as it was pressed.
QueryUnread(x) ==
    /\ job[x].at = "query"
    /\ Returns(x)
    /\ UNCHANGED <<spotify, tunnel, cfg, startup, bounds, history>>

\* set_autostart() answers what is_enabled() found.
Query(x) ==
    /\ job[x].at = "query"
    /\ Returns(x)
    /\ Look
    /\ UNCHANGED <<spotify, tunnel, cfg, entry, legacy, policy, bounds, rest, theirs, torn,
                   sound, mixed>>

-----------------------------------------------------------------------------
(***************************************************************************)
(* The machine.                                                            *)
(***************************************************************************)
PolicyChanges ==
    /\ Befalls
    /\ policy' \in Policy \ {policy}
    /\ UNCHANGED <<spotify, tunnel, cfg, job, entry, legacy, box, presses,
                   history>>

\* The app ends, wherever its commands are, and is launched: nobody puts Spotify
\* back.
AppEnds ==
    /\ Befalls
    /\ job' = [x \in Control |-> Idle]
    /\ tunnel' = Down /\ Look
    /\ torn' = (torn \/ \E x \in Control : job[x].at = "write")
    /\ sound' = (sound /\ tunnel = Down /\ \A x \in Control : ~InPrefs(x))
    /\ mixed' = (entry = Home)
    /\ UNCHANGED <<spotify, cfg, entry, legacy, policy, presses, rest, theirs>>

PrefsStep(x) ==
    \/ LookForBackup(x) \/ CopyPrefs(x) \/ ReadPrefs(x) \/ TruncatePrefs(x) \/ WritePrefs(x)
    \/ PrefsFail(x)

EntryStep(x) ==
    \/ Purge(x) \/ CreateTask(x) \/ AddRunKey(x) \/ DeleteTask(x) \/ DeleteRunKey(x)
    \/ Query(x)

ToggleStep(t) ==
    \/ PressConnect(t) \/ ConnectFails(t) \/ Connect(t) \/ PressDisconnect(t) \/ Disconnect(t)

Next ==
    \/ PressFix \/ PressOff \/ PressReset \/ ResetDone \/ TunnelEnds \/ ChangeSettings
    \/ \E t \in Toggle : ToggleStep(t)
    \/ \E x \in Control : PrefsStep(x) \/ EntryStep(x)
    \/ \E b \in Box : PressBox(b)
    \/ SpotifySaves \/ PolicyChanges \/ AppEnds

Spec == Init /\ [][Next]_vars

-----------------------------------------------------------------------------
(* Invariants. *)

\* Every variable has its type.
Lines(lines) == lines = Missing \/ (lines \in Seq(Line))
TypeOK ==
    /\ Lines(prefs) /\ Lines(backup)
    /\ DOMAIN rest \subseteq Nat /\ rest \in [DOMAIN rest -> Line]
    /\ tunnel \in Port \cup {Down} /\ cfg \in Config /\ job \in [Control -> Job]
    /\ entry \subseteq Home /\ legacy \subseteq Home /\ policy \in Policy
    /\ box \in BOOLEAN
    /\ presses \in 0..MaxPress /\ events \in 0..MaxEvent
    /\ \A key \in {"mode", "addr"} : theirs[key] \subseteq {line.val : line \in Line}
    /\ torn \in BOOLEAN /\ sound \in BOOLEAN /\ mixed \in BOOLEAN /\ blind \in BOOLEAN

\* "leaving the rest of prefs alone" (spotify.rs:157): whatever the app does,
\* Spotify's own settings are as Spotify wrote them last, each in its place, but
\* while the file is written and unless a write was crossed or cut short.
OtherLinesKept ==
    /\ ~torn /\ prefs # Missing
    /\ \A x \in Control : job[x].at # "write"
    => Rest(prefs) = rest

\* "Spotify's own prefs backup, which is the user's safety net" (main.rs:178):
\* unless two calls crossed, the copy has the address the user had there, and the
\* user's mode or, where a restore() came before the first copy, the mode none it
\* wrote: never this program's mode and address, whatever was pressed first.
OfTheirs(lines) ==
    /\ Vals(lines, "addr") = theirs.addr
    /\ Vals(lines, "mode") \in {theirs.mode, {"none"}}
BackupIsTheirs == ~torn /\ backup # Missing => OfTheirs(backup)

\* A line without `=' before the settings hides them from get_key().
Hidden(lines) ==
    \E i \in DOMAIN lines : lines[i].key = "keyless" /\ \E j \in DOMAIN lines :
        j > i /\ IsOurs(lines[j])

\* When nothing is under way Spotify points at the tunnel that runs, and at none
\* when none does, and state() says so at every port: from the first connect,
\* disconnect or reset with manage_spotify on and no other call on the file beside
\* it, until a button of the Spotify card is pressed, a call fails or is crossed,
\* the user signs out, the supervisor gives up, or the app ends with the tunnel up.
SpotifyFollowsTunnel ==
    Quiet /\ sound /\ prefs # Missing =>
        Hidden(prefs) \/ \A p \in Port : PointsAtUs(prefs, p) <=> tunnel = p

\* When no command is under way a set checkbox means that there is a start-up
\* entry; and where the machine answered when it was last read, a clear one means
\* that there is none, and no two homes have one: whatever the machine allowed and
\* did not in between, unless two commands changed the entry together.
EntryIsKnown ==
    Quiet /\ ~mixed =>
        /\ box => entry # {}
        /\ ~blind => (entry # {} => box) /\ entry # Home
=============================================================================
