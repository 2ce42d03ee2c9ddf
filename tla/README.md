# SplitStream: a verification development

TLA+ models of SplitStream (the desktop app under `src/src-tauri` and `src/src`,
the enrollment service and the egress allowlist under `src/server`), the TLC
configurations that check them on small instances, and TLAPS proofs of their main
safety invariants. `PROJECT.json` lists for every definition the lines it models.

## 1. The system

| Component | Source | State | Operations | Here |
|---|---|---|---|---|
| Tunnel supervisor | `tunnel.rs` | `running`, `status`, the slots `child` and `relay_child`, a thread per `start()` with its own child and backoff | `start`, `stop`, the thread's loop, `Quit` (`main.rs:808`) | `Supervisor` |
| Credential lifecycle | `main.rs:474-736`, `auth.rs`, `enroll.rs` | key, certificate, record and tokens on disk; `App.auth`, `App.cancel_signin` | `sign_in` (two flows), `renew`, `start_tunnel`, `cancel_sign_in`, `sign_out`, `reset_all` | `Credentials` |
| Enrollment service | `enroll.py` | `_hits` per subject, the serial file | `POST /enroll` on four threads | `EnrollServer` |
| Egress allowlist | `split-tunnel-egress.sh` | two iptables chains, their hooks, `egress.conf` | a run, from the timer or by hand | `Egress` |
| Settings | `main.rs`, `config.rs` | `config.json`, `App.cfg`, the remembered proxy | `save_config`, `discover`, `check_server`, `start_tunnel`'s save, `reset_all`, the start of the app | `Settings` |
| Window | `app.js` | its copy of the settings, timers, probe numbers | debounced save, probes, its buttons | `Settings`, `Desktop` |
| Spotify preferences | `spotify.rs` | Spotify's file of `key=value` lines, a backup | `apply`, `restore`, `state` | `Desktop` |
| Start-up entry | `autostart.rs` | a scheduled task or a Run key | `enable`, `disable`, `is_enabled` | `Desktop` |
| Proxy detection | `net.rs` | the last proxy that worked | `detect_for`, `remember`, `forget` | `Settings` |
| Pageant, updater, packaging, DNS, sshd hardening | several | none of their own | | not modelled |

How they interact. The window calls commands of the app; the `async` ones run on
worker threads, so any two may overlap. `start_tunnel` reads the credentials, may
renew them, and hands the supervisor a command line on the key and certificate
files, after which Spotify's file is pointed at the tunnel. `sign_out` and `reset_all`
stop the supervisor and delete the files. The
window learns what happened by polling `status` and `auth`. The app posts a new public
key to the enrollment service, which answers with a certificate. The egress
allowlist acts on the server's side of the tunnel, on its own timer.

What is hard. `stop()` clears a flag and does not join the thread, so threads of
consecutive starts overlap and share two slots, one status and one port. No lock
spans an operation on the credentials: a sign-in waits minutes for a browser and
then writes four files one by one, while another command deletes them. The
enrollment service counts hits without a lock and truncates its serial file
before writing it. The allowlist is rebuilt in place while packets pass. The window,
the app and `config.json` each hold the settings, and two of them are written from
either side. Spotify's file is read, changed and written back while Spotify may write it.
Every one of these may be cut short by an end of its process.

What makes each correct:

* supervisor: the flag is never left set without a thread; no ssh or relay
  escapes; the status is true; a dead tunnel is noticed; a stop ends everything;
* credentials: never a certificate of one key beside another key; the refresh
  token on disk is alive; signing out leaves nothing; a sign-in has an outcome;
* enrollment service: a serial names one certificate; the quota holds and is its
  owner's; every request is answered;
* egress: an allowed connection is never cut; a finished run has applied what it
  read and it stays enforced between runs; a configuration that stays is applied in the
  end;
* settings: what was typed ends up in all three copies; what is said of a server is
  said of the one in the window; a sign-in works with what that server gave;
* Spotify and start-up: nothing but the app's own lines is touched, Spotify points at
  the tunnel that runs, and the checkbox tells the truth.

## 2. Modules

| Module | Contents |
|---|---|
| `Supervisor` | one action per step of the thread between two reads or writes of shared state; `stop()` lock by lock; processes and ports as the environment |
| `Tunnel` | abstract: the statuses the app shows of its tunnel, and in which order |
| `SupervisorProofs` | type correctness and nine properties of `Supervisor`, and that it implements `Tunnel` |
| `Credentials` | workers that run one command each; every file is written and removed in a step of its own |
| `EnrollServer` | request threads; `_rate_limit()` look by look, `next_serial()` system call by system call |
| `CredentialsProofs` | the invariants and action properties of `Credentials` |
| `SerialCounter` | abstract: what `next_serial()` promises, a counter that may be lost |
| `EnrollServerProofs` | the safety properties of `EnrollServer`, and that it implements `SerialCounter` |
| `Egress` | runs of the script, an iptables call per step |
| `EgressProofs` | the safety properties of `Egress` |
| `Settings` | the three copies of the settings; calls that are under way together, a file operation per step |
| `SettingsProofs` | the safety properties of `Settings` |
| `Desktop` | Spotify's file and the start-up entry; the commands of the buttons, a call per step |
| `DesktopProofs` | the safety properties of `Desktop` |
| `MC...` | the symmetry sets of the runs, and `Desktop`'s files |

### Supervisor

`start()` is `Start` (the test and set of the flag and the new thread); the thread
goes through `pc`: `top`/`starting` (`LoadRunning`, `SetStarting`), `relay...`
(`CheckRelay` to `ReportRelayDown`), `spawn`, `probe`, `up`, `store`, the watch
loop `watch`/`check`/`health`/`take`/`reap`, `after`/`retry`/`sleep` and
`finish`/`final`. A wait is its last iteration. `stop()` is `StopBegin`, `StopChild`,
`StopRelay`, `StopStatus`, by each caller on its own; each slot's lock is held over
kill and wait, so that is one step. A process is `free`, `starting`, `serving`,
`hung` or gone; one process listens on a port, and whoever listens answers the
probe. `Quit` ends the threads and leaves the processes (`orphans`) to the next
launch. `overlapped` is a history variable: some `start()` ran before the previous
thread or `stop()` had ended.

### Credentials

A key pair is numbered by its enrolment; the certificate and the record carry the
number of their key, the token file the number of its refresh token, 0 when the
file is absent. `known_hosts` and `id_ed25519.pub` go with the record and the key.
The device flow and the redirect flow have the same steps here: wait, look at the
cancel flag, ask the provider. `Age` moves a certificate from `fresh` to `due`
(within two hours of its end) to `expired`. `start_tunnel` with a valid record either finds a
way to the server, direct or by the relay (`ServerReached`), and starts the supervisor, or
returns its error (`StartRefused`). `sup.stop()` inside `sign_out` and
`reset_all` is in `Supervisor`. A removal whose error is ignored is taken to
succeed; a failed write is taken to leave the file as it was. `alone`, `raced`,
`mishap` and `wiped` are history variables that the properties' provisos use:
nothing ran beside an operation, two enrolments ran together, a token got lost
in a crash or a failed save, and no sign-in began since all was deleted.

### EnrollServer

The checks of the two tokens read nothing that another request writes and are one
step, `Admit`, over all requests that `Admitted` lets pass. `file` is the serial
file as the next reader sees it; `disk` is the set of contents a power failure may
leave: it grows with each unsynced write and fsync makes it `{file}`. An empty file
is 0, as `next_serial()` reads it. `lost` says that an end of the service or a
failed write has left the file empty.

### Egress

A packet is the set of rules it matches; it is rejected when its uid is hooked and
a rejecting rule comes before any rule it matches. The script looks at no exit status, so
each call has a failing form that goes on: `NewChainFails` (neither `-N` nor `-F`),
`AppendRuleFails`, `UnhookFails` (`-C` or `-D`: the loop ends with hooks left), `InsertFails`,
`FlushFails` (`-F`, or `-X` alone). `exists` says whether there is a chain: without one an
append and an insert fail of themselves. `failed` is what the run under way failed to do to
each family, its chain or its hook; `skipped` says that an append failed. A run that finds
no configuration (`ConfMissing`) or no ipset (`IpsetMissing`) leaves all as it was. Names,
addresses and their timeouts are the rule `set`. The state found at the start includes
doubled hooks and rules, as the script's comments say earlier versions left them, alike in
both families. `settled` is a history variable: a run has applied the configuration as it
stands with no call failing, and nothing went wrong since.

### Settings

A call is a command of the app under way: its command, where it is, and the
configuration it carries. A configuration is three fields, one for each way it is
written: the address (typed by the user, with all that is typed), the sign-in settings
(got by `discover`) and the proxy that worked (noted by `check_server`). `save()` of the
window begins `Open`, `Write`, `SetMem`: `fs::write` truncates and then writes, so two
writers may leave the bytes of both (`Garbled`, read as the default). `check_server` and
`start_tunnel` save the copy in memory holding its lock (`MemFree`). Where the window only
shows what a call returned, that is one step with the call's last. Where it goes on, it has
steps of its own: after `discover` it assigns to the object that was its copy when Sign in
was pressed, and saves (`SaveDiscovered`): in vain if a save has replaced the object since
(`kept` is the set of sign-ins whose object is still the copy). After `reset_all` it reads
the configuration (`FillForm`) and, some calls later, sets the dot idle (`ResetShown`).
`saveDue` and `probeDue` are its timers; typing in another field than the address
(`TypeOther`) restarts the first alone, so a probe may go while a save is due. Connect may
be pressed while a connect is under way, since `paintSteps` enables the button every 2 s.
`newest` is the probe that carries the number `probeSeq`. A proxy that the
environment, the registry or Windows name may be found or not each time (`DetectFor`).
`stale`, `edited`, `alone` and `revived` are history variables for the provisos.

### Desktop

Spotify's file is a sequence of lines, the two of the app, lines of Spotify's own, and
a line without `=`. `apply()` is `LookForBackup`, `CopyPrefs`, `ReadPrefs`,
`TruncatePrefs`, `WritePrefs`, `restore()` the last three; `enable()` and `disable()` are a
step per `schtasks` or `reg` call, with a `policy` of each home that allows, denies or
does not answer (`broken`). `is_enabled()` is `Look`: a home that does not answer reads as no
entry. A control of the window runs one command at a time, its button being disabled
meanwhile; the start-up checkbox never is, and each refresh enables Connect/Disconnect
again, so the presses of these two (`Box`, `Toggle`) overlap. The tunnel is the port it was
started on. `start_tunnel` notes option and port when it is called, `stop_tunnel` reads the
option after `sup.stop()` (`Disconnect`). `TunnelEnds` is `sign_out`, or the supervisor giving
up: neither restores Spotify. `theirs` is the mode and address the user had in the file at
first. `torn`, `sound`, `mixed` and `blind` are history variables: a write of Spotify's file
was crossed or cut short; nothing but lone commands moved the tunnel and Spotify; two
commands changed the start-up entry together; the checkbox was last read from a machine that
did not answer, or it was before and there is still an entry in both homes.

## 3. Runs

Deadlock is checked except in the runs of `EnrollServer`, `Settings` and `Desktop`, where
the bounds on requests, edits and presses end the behaviour.

| Run | Instance | Shows |
|---|---|---|
| `supervisor_overlap` | 2 threads, 1 caller of stop, 2 ssh, 1 relay, with and without relay, cap 8 | `TypeOK`, `RunningIsSupervised`, `ChildIsWatched`, `StatusIsOwned` however starts and stops interleave; `ShowsTunnel`, `RelaySurvivesRetry`, `RelayNotLeftRunning` while no start overtakes |
| `supervisor_relaunch` | 2 threads, 1 quit, 2 ssh, fair | `NoLostProcess`, `HandshakeIsOurs`, `StopQuiesces`, `DeadTunnelNoticed` |
| `cred_race` | 2 workers, all commands but cancel, 2 keys, 2 tokens, rotating tokens | `TypeOK`, `CertMatchesKey`, `RefreshTokenKept`, `CleanSignOut`, `EnrolledIsUsable` |
| `cred_live` | 2 workers, sign-in, cancel, renew, 1 restart, fair | `AuthSettles` |
| `server_requests` | 2 threads, 2 accounts, limit 1, 3 requests, 2 ends, fair | `TypeOK`, `SerialsUnique`, `QuotaExact`, `HitsBounded`, `OwnQuotaSpent`, `RequestsAnswered`, and the refinement `CountsSerials` |
| `egress_runs` | 2 runs, 2 uids, 1 edit, 1 accident, fair | `TypeOK`, `NeverCut`, `ClosedBetweenRuns`, `RunApplies`, `EventuallyApplied` |
| `settings_saves` | 2 calls, 2 addresses, 1 proxy, 2 edits (of the address, another field or an option), 2 presses, 1 restart, 1 failed write | `TypeOK`, `SettledAgree`, `DotIsAboutForm`, `CheckingIsPending`, `SignInOnDiscovered`, `CleanReset` |
| `desktop_controls` | no file or one of 4 lines, 2 ports, every policy, 2 overlapping presses of the checkbox and 2 of Connect/Disconnect, 3 presses, 1 event | `TypeOK`, `OtherLinesKept`, `BackupIsTheirs`, `SpotifyFollowsTunnel`, `EntryIsKnown` |

Four runs state what a comment or a document says and find a behaviour of the code
that contradicts it; `PROJECT.json` quotes both sides under "findings":

| Run | What the code does |
|---|---|
| `supervisor_honest_status` | a thread that has seen the flag clear ends by storing `Stopped` (`tunnel.rs:411`); with a `start()` before that, it may store it over the `Connected` of the new thread, and the app reads Stopped for as long as the tunnel is healthy. The run's `PatientSpec` (in `MCSupervisor`) lets no `start()` come before `stop()` has returned, so that no store of `stop()` itself is the cause |
| `cred_connect` | a failed renewal has deleted the key and certificate that "connect on what we have" needs |
| `cred_reset` | a sign-in under way writes credentials after a reset is done |
| `settings_proxy` | the window's next save overwrites the proxy that a probe noted, with the copy it had loaded at the start |

Other places where the code does less than its comments say were met on the way. They
bound what the passing properties promise, and each is named where it is excepted:

* a failed spawn of ssh leaves the relay running (`tunnel.rs:334-343`), until the next
  thread that runs to its end: `RelayNotLeftRunning` is about threads that come to
  their end;
* a serial write that is cut short leaves an empty file, which is read as 0
  (`enroll.py:227`): `SerialsUnique` and `CountsSerials` hold until `lost`;
* while the allowlist is refreshed it accepts everything, although
  `server/README.md:97-98` says the user "may only reach the resolved addresses":
  `ClosedBetweenRuns` is about the time between runs;
* a reset restores Spotify only with `manage_spotify` on, although the window says it
  "puts Spotify back to no proxy" (`index.html:68-69`); `spotify_apply` uses the port of the
  settings and not the running tunnel's; a sign-out, a supervisor that gives up and Quit
  leave Spotify at a port that nobody serves; a line without `=` hides the lines after it
  from `get_key()`: the provisos of `SpotifyFollowsTunnel`;
* `src/README.md:185` says that Spotify's file is restored on disconnect: `restore()` writes the
  mode none and never reads the backup. Where it comes before the first `apply()`, the backup
  holds that mode and the user's is in no copy: `BackupIsTheirs` promises the user's
  address, and the user's mode or none;
* a start-up entry whose home does not answer reads as no entry (`autostart.rs:106-122`), and
  another may then be added in the other home: `EntryIsKnown` promises the one direction
  always, the rest where the machine answered when the checkbox was last read;
* a call of the egress script that fails leaves a hook or rules missing or doubled, and the
  run ends as if they were not (`split-tunnel-egress.sh:32-33`, 71, 85): `RunApplies` is about
  what the run's own calls did not fail to do, `EventuallyApplied` about the runs after it;
* a save while `discover` runs makes `cfg.oidc = await ...` (`app.js:523`) assign to an object
  that is no longer the window's copy, and the settings of the old server come back: the
  proviso `edited` of `SignInOnDiscovered`;
* an emptied address does not take a new probe number, so the answer of the last probe
  still paints the dot: the proviso of `DotIsAboutForm`;
* two saves that overlap may leave the file and the memory apart: `SettledAgree`
  resumes with the next save that runs alone.

Why the bounds suffice. The supervisor's hazards need two threads that overlap (the
old one in its sleep, the new one) and one `stop()`; two ssh ids make one of each
thread. The delay is compared with its cap only: 5 doubles over a cap of 8 at once.
For the credentials two operations at a time, each with an enrolment, give every
pair of interleavings; a third key or token would only repeat one. In the service a
duplicate serial takes an earlier certificate, an end of the service and one more
request; the quota's edges take three requests at three times. For the egress one run
beside another, with one accident and one edit anywhere, from each of the states
found, covers what the comments of the script speak of. A settings race takes two
calls, one edit before and one between, one press (Sign in, Recheck, Connect or Reset)
over another; a restart tells what the file holds from what memory holds. Spotify's
file takes a command before, one beside it and one after, and one event anywhere; there is
no file, or one with a manual proxy of the user's own (of mode 4, as the app's), a setting of
Spotify's between its two lines and an empty line at the end. The start-up entry is tried under
every policy, and the one event may change it.

Every property has a mutant: an operator that changes a definition the way a
plausible bug would (named `...Skipped`, `...Silently`, and so on, with a comment that
starts `Mutant:`) and makes TLC find the property violated.

## 4. Fairness

* `Supervisor`: every thread and every caller of `stop()` goes on. Each loop of the
  code has a timeout or a bounded sleep, and no lock is kept. Nothing forces the user,
  or a process to start listening, hang or end.
* `Credentials`: every worker goes on. Requests have time limits (20 s agents, 300 s
  for the redirect, the device code's lifetime); nothing forces the user.
* `EnrollServer`: a thread with a request goes on; `ssh-keygen` is cut off at 15 s.
  That the flock is got by a waiter in the end follows from weak fairness only because
  requests are bounded; Linux queues the waiters.
* `Settings` and `Desktop` state no fairness: their properties are of safety.
* `Egress`: the timer starts runs for ever (`OnUnitActiveSec=5min`), and a run goes
  on.

## 5. Proofs

`SupervisorProofs`, from `SupervisorAssumption` alone, for any number of threads,
callers and processes: `TypeCorrect`, and `Inductive` (`Spec => []IndInv`), from which
`RunningSupervised`, `ChildWatched`, `StatusOwned`, `NothingLost` and `DownHonest` (a wanted
tunnel reads Stopped or Error only before its first report and after a failed spawn)
follow as invariants and `HandshakeOurs`, `RelaySurvives`, `RelayKilled` as action
properties. `IndInv` is the conjunction of four invariants with what each needs of the
others:

* `OwnersAttempt`: a thread owns an unstored child only from the probe to the store,
  or when it took it back to reap it. `NoLostProcess` counts such a child as held;
* `Solo`: unless a start overtook, at most one thread is not idle, so no other thread
  overwrites a slot or the status;
* `StopIsOver`: unless a start overtook, a set flag means that no thread is past its
  loop and no `stop()` is under way, which could empty a slot or store `Stopped`;
* `RelayNeeded`: unless a start overtook, a thread spawns a relay only when the slot is
  empty or its relay has exited, so the handle it replaces is not of a live process;
* `RelayGone`: unless a start overtook, the slot of the relay is empty where a thread
  ends;
* `Showing`: unless a start overtook, what the app shows of a wanted tunnel at each
  point of its thread.

One lemma per conjunct shows that every step keeps it, one case per action.

`ImplementsTunnel` shows the refinement: `Supervisor` implements `Tunnel` with the flag as
`wanted`, the status as `shown`, `busy` while a thread or a `stop()` has not ended, and
`overlapped` as `overtaken`. While the tunnel is wanted one thread alone stores statuses
(`Solo`, `StopIsOver`), and `Showing` says after which other each comes; after `stop()` the last
step of a thread or a caller leaves Stopped or Error (`StatusIsOwned`), which is also what
the next start finds.

`EnrollServerProofs`, from `EnrollServerAssumption`: `SerialsAreUnique`, for any number
of threads, requests and ends of the service. `SerialsUnique` says nothing of the
file, so it is not inductive. `SerialInv` adds that the flock is held by exactly the thread
inside `next_serial()` (`LockHeld`), that what that thread computed is above every
serial in use, is in the file once written and alone on the disk once synced
(`Counting`), and that the next number by the file, or by anything a power failure may
leave, is above them too (`FileHolds`, `DiskHolds`), unless `lost`.

`SerialsAreCounted` shows the refinement: `EnrollServer` implements `SerialCounter`
under the mapping `Last` (the file's number, or the one before what the holder of the
flock has taken), `Given` (the numbers of requests that are not signed yet), the other
two as they are. Each step is a `Give`, a `Certify`, a `Drop`, a `Restart`, a `Lose`, or leaves the
counter as it is. It needs `SerialInv`: a request that signs has a number above every
other in use, so its number leaves `Given` alone; and after an end of the service the
file is above every certificate. Once `lost`, the counter promises nothing, and nothing
has to be shown.

`CredentialsProofs`, from `CredentialsAssumption`, for any number of workers, keys and
tokens: `TypeCorrect`; `CertMatches` (`Spec => []CertMatchesKey`) by `EnrollInv`, which adds
that, unless two enrolments ran together, an enrolment between removing the old
certificate and storing the new one finds none on disk and its own key there; `TokenKept`
(`Spec => []RefreshTokenKept`) by `TokenInv`, which adds that the tokens of two workers
about to save differ, and that each is alive; `SignsOutClean` (`CleanSignOut`) and
`EnrolmentIsUsable` (`EnrolledIsUsable`) by `AloneInv`: an operation that is `alone` has all other
workers idle, and at each of its steps the files it has deleted are absent and those it
has written are of its own key.

The quota, in `EnrollServerProofs`, from the same assumption (there is a finite number of
threads, at least one): `QuotaIsExact` (`Spec => []QuotaExact`) by `QuotaInv`. Without a
race, a thread that is about to pop has found an old hit that is still the first, one
about to append a deque that is still below the limit, and the deque is the end of the requests
that passed, what was dropped of them being more than an hour old (`Fits`, with a lemma
for each thing done to a deque). `DequesBounded` (`Spec => []HitsBounded`), races included, by
`HitsInv`: what a deque holds and what is about to be appended to it stay below limit and
threads together. `SpendsItsOwn` (`OwnQuotaSpent`): both tokens of a request are of one account
until its answer (`OneOwner`), and only an append lengthens the list of those that passed.
`TypeCorrect` needs nothing more.

`EgressProofs`, from `EgressAssumption`, for any number of runs, uids, edits, kills, failed calls and
reboots: `EgressInv` is inductive, the conjunction of `LockHeld` (a run past `flock` holds it
and no other does), `RunInv` (but for what its own calls failed to do, the chain is the rules the
run has appended so far, and what it has done to a family stays), `Tables` (no chain rejects
before it permits, unless an append failed; only a failed call, one at a time, makes a run
add to the copies of a hook or of the rules) and `Closed` (what was applied stands until a run reads the
configuration). From it follow `TypeCorrect`, `SessionKept` (`NeverCut`), `ClosedOnceApplied`
(`ClosedBetweenRuns`) and `AppliedByEachRun` (`RunApplies`).

`SettingsProofs`, from `SettingsAssumption`, for any number of addresses, proxies, calls and failures:
`IInv` is inductive, the conjunction of

* `KindAt`: only certain commands come to the steps whose outcome depends on the command;
* `DotInv`: the probe with the newest number is under way and is of the address in the
  window, unless that is to be probed anew or survived a reset. From it follow `DotAboutForm`
  (`DotIsAboutForm`) and `CheckingPending` (`CheckingIsPending`);
* `SavesInv`: the window holds what was typed unless a save is due; and since a save that ran
  alone, until two writers cross or a write fails, one call at most has something to write,
  what it carries and has written so far fit what the window holds, and with none of them
  file, app and window agree. At rest none is left: `SavesSettle` (`SettledAgree`);
* `ResetInv`: a reset that is `alone` has every other call idle, and what it has deleted so
  far stays away, the window's copy included once the form is filled. `ResetIsClean` (`CleanReset`) is its last step;
* `FlowInv`: until the user does something else there is one sign-in at most, the configuration
  it carries is of the address in the form, the object its answer goes to is the window's copy, and, unless writers crossed, no other call is
  about to set the copy in memory before `sign_in()` reads it. `SignInDiscovered`
  (`SignInOnDiscovered`) follows.

`DesktopProofs`, from `DesktopAssumption`, for any number of ports, presses and events and for any
files that Spotify may have: `IInv` adds to the types

* `Stations`: which control comes to which step with which command, and that the file is there
  where a command copies or writes it;
* `FileInv`: unless a write was crossed or cut short, one command at most is at the file, what
  it is about to write has Spotify's own lines in the places they had, and while there is
  no copy the file has the user's address and the user's mode or none; `apply()` is past the copy
  only when there is one. `RestOfPrefsAlone` (`OtherLinesKept`) and `SafetyNet` (`BackupIsTheirs`) follow;
* `TunnelInv`: while only lone commands moved the tunnel and Spotify, a command at the file works
  for the tunnel as it is, and with none there the file points at it. `SpotifyFollows`
  (`SpotifyFollowsTunnel`) follows;
* `EntryInv`: unless two commands changed the start-up entry together, with none under way
  a set checkbox means an entry; and where the machine answered when the checkbox was last read,
  there are never both kinds of entry, a command about to add one finds none, and a clear
  checkbox means none. `CheckboxTells` (`EntryIsKnown`) follows.

What `set_key()` does to a file is proved of its definition, the line it looks for being
the least index at which there is one (`Smallest`).

Only model-checked: liveness (`StopQuiesces`, `DeadTunnelNoticed`, `AuthSettles`,
`RequestsAnswered`, `EventuallyApplied`), which TLAPS cannot prove under fairness. Every
other property of a passing run is stated by a theorem; the invariants that the proofs add were
checked by TLC on the runs' instances before they were proved.

## 6. Not modelled

Pageant and the tool lookup start programs and look at the process list; the
updater hands over to a plugin; DNS, sshd hardening and packaging are configuration and
build files: none keeps state that a property could be about. The network report reads.

The construction of command lines, URLs and JSON; the verification of JWTs and key
bytes (an outcome); HTTP below its outcome; what is typed before the window has read the settings at its start; the registry reads and tasklist of
Windows; a file left half written other than empty; iptables beyond the verdict of a chain. `connected_apps`,
`diagnostics`, `network_test` and `tool_paths` only read. `PROJECT.json` gives the reason for
each component that has no module.

## 7. Plan

1. A composition of `Supervisor` with the deletion of credentials by `sign_out`, and of
   two apps of one account with `EnrollServer`'s quota.
2. `Desktop`'s tunnel as an instance of `Tunnel`.
3. Proofs: what the liveness properties rest on, as far as it is safety (a step of a thread
   with the flag cleared brings it nearer to its end).
