# Verification of devtunnel_gui

TLA+ modules for the parts of devtunnel_gui in which threads, processes, timers
and files meet: the host engine with its keep-alive policy and tokens, the headless
runner on top of it, the window's side of hosting with sign-in and install, the
renewal of tunnels, the row list with its background operations, the health
probe, the logger with its crash context, the crash reports, and the two files
the program keeps. TLC checks each of them on
small instances, and TLAPS proves their safety properties, and that the engine
implements its abstract lifecycle, for every value of the constants.

Paths below are relative to the repository: `src/host/engine.rs` is the Rust
file, `ui/group-card.slint` the layout.

## 1. The system and its parts

The program is a tray application around the `devtunnel` command line. One UI
thread owns the window and all of `LiveState`; everything slow runs on threads
that answer through channels, which a timer on the UI thread drains every 150 ms
("the pump", `src/main.rs` 981-1239).

| Part | State | Operations | Talks to | What makes it correct |
|---|---|---|---|---|
| Keep-alive policy, `src/host/keepalive.rs` | phase, attempt, backoff, streak of Down probes | `next(event) -> Action` | called by `host_group` | exponential, capped backoff; the watchdog fires on exactly one full streak |
| Host engine, `src/host/engine.rs` | handle map, one OS thread per group, two `Notify` permits per thread, cached tokens | Host, Stop, DropRelay; the loop of `host_group` | command channel in, event channel out, CLI processes, the tunnels SDK | at most one task per tunnel that is not cancelled; a stopped group ends; tokens are dropped when they must be |
| Error classification, `src/devtunnel.rs` 219-278 | none | three predicates over a message | engine and pump | an error means what it is taken for |
| Hosting session, `src/main.rs` 524-545, 751-804, 981-1177 | toggles, auto-host set, app state, `installing`, `auto_resume_pending` | host, stop, refresh, sign in, install, pump | engine, preflight, load, login and install threads, state file | what was stopped stays stopped; nothing is forgotten by mistake; the toggle shows the engine's state |
| Row list, `src/main.rs` 65-118, 517-745, 1476-1614 | rows, placeholders, hidden keys, picker | create, add, delete, refresh, `apply_rows` | CLI processes | the list is what the service has, optimism is undone |
| State and cache files, `src/state.rs` | `state.json`, `cache.json`, their temporary files | save, load | the file system | a crash loses at most the change being saved |
| Health probe, `src/probe.rs` | targets, interval, cached answers | SetTargets, SetInterval, probe cycle | local ports, public URLs, pump | a badge follows its service |
| Headless runner, `src/headless.rs` | ids | lines of stdin to commands, quit | engine | same as the engine; a quit stops what it hosts |
| Renewal, `src/main.rs` 1185, 1264, 1494, `renew_tunnel` of `src/devtunnel.rs` | a copy of the auto-host set and of the window, per thread | start after the first load and every 12 h; update, list the access, create the ACE | CLI, the service, the log | a tunnel in use does not expire; no tunnel is made public |
| Crash reports, `src/crash.rs` | pending files, `last-crash.json` | write on panic; list, read, clear, move at the next start | files, the banner | the newest report survives, and is shown once |
| Log buffer, `src/logbuf.rs` | the ring of the last problems with its lock, a bounded channel, the writer thread | `log`, `crash_context`, the writer's loop | stderr, the panic hook | no thread waits for the console to log; a dying one never for a lock |
| Update check, metrics, autostart, locale, icons, layout | small or none | | | no protocol between threads; unit tests reach it |

What is hard here: a Stop or a Host that meets a thread anywhere in its task;
events of a thread that was told to stop; permits that outlive their purpose;
results of background threads that arrive in another order than they were read;
a crash between two file operations; timers that start anew while what they
guard goes on; errors recognised by a piece of their text; panics anywhere,
with a lock held or a console that takes no output; renewals that work on a copy
of what the user has changed since. `PROJECT.json` lists
each of these hazards at its line.

## 2. Modules

| Module | Models | Uses |
|---|---|---|
| `KeepAlivePolicy` | `KeepAliveState::next` as the operator `Advance`, with its helpers | |
| `KeepAlive` | the policy driven by every sequence of outcomes its driver can feed it | KeepAlivePolicy |
| `ErrorClass` | the classification of messages, and what the messages of the CLI and the SDK hold | |
| `HostGroup` | `host_group` and `connect_once` as operators on one task: what runs between two awaits, and the events it sends | KeepAlivePolicy, ErrorClass |
| `HostLifecycle` | abstract: what the engine promises of each tunnel | |
| `HostEngine` | the command thread, the group threads, the permits, both channels | HostGroup; refines HostLifecycle |
| `HeadlessRunner` | the runner of `src/headless.rs`, composed with the whole engine | HostEngine |
| `TokenLifetime` | one task against a clock | HostGroup |
| `GroupLifetime` | that task, the window of its tunnel at the service, renewal, and other clients | TokenLifetime |
| `HostSession` | the window's side of hosting with sign-in and install, composed with the whole engine | HostEngine |
| `RowList` | operations, refreshes, optimistic rows | |
| `AppFiles` | `atomic_write` step by step, for both files | |
| `Probe` | the probe thread, its channels, the badges | |
| `LogBuffer` | `log`, the crash ring, the panic hook's way to its context, the writer and the console | |
| `CrashReports` | the report of a panic and `take_pending`, in several processes | |
| `MC*` | definitions for the configurations | the module they are named after |
| `*Proofs` | theorems and the lemmas they rest on: `HostEngineProofs` also those about HeadlessRunner and HostSession, `GroupLifetimeProofs` those about TokenLifetime, `DiagnosticsProofs` those about LogBuffer and CrashReports | the modules they are about |

### Correspondence to the code

**Engine.** `groups` is the `HashMap` of the command thread, `task[th].pc` the
await point a group's thread is at: `starting` (spawned, nothing run yet),
`minting` (inside the two blocking `devtunnel token` processes), `connecting`,
`forwarding` (adding ports), `holding` (the `select!` over the relay handle, the
re-mint timer and `drop_relay`), `backoff`, `returned` (`host_group` is over and
the runtime is dropping) and `finished`. A step is everything the task runs from
one await to the next, with all its events, so interleavings happen where the
code allows them. `cancelled` and `dropping` are the permits of the two
`Notify`s. `tokio::select!` polls its branches in a random order: a thread that
wakes with the cancel permit stored may do one more step of its task before it
sees it, which `lastPass` records. A thread cancelled while it mints stays until
its CLI processes return, because dropping the runtime waits for blocking
tasks. `Receive`/`FetchFails`/`SpawnGroup` split the Host handler at the one
place where it blocks, `fetch_tunnel_ports`. Progress events are left out:
nothing acts on them.

**Headless runner.** `lines` is the control channel, `runner` where the main
thread is. It prints until the event channel is empty, then takes one line; what
the engine does between these two moments does not depend on the line, so they
are one step. `Quit` sends a Stop for each of the runner's tunnels, `WakeUp` is the
end of the 300 ms, and `Exit` takes the engine and all group threads down with the
process. The end of stdin is a quit line.

**Session.** One `Pump` is one timer tick: preflights, loads and host events are
folded in this order over the window's state, then the auto-resume runs; the
guards of the user's actions are what enables the toggle and the buttons in
`ui/group-card.slint` and `ui/app-window.slint`. The service is part of the
model: tunnels come and go there at any step, by expiry, by other clients
(`ServiceChanges`) and by the user's operations (`OnOperation`, `OperationWorks`,
`OperationFails`), and it tells the truth about them at the moment it is asked, in
errors and fetched ports (`Truthful`). A load is two steps: `List` takes the names,
`LoadDone` what each `show` adds, and the pump applies the answer later; loads
overtake each other and the service. `lacked` is a history variable: what the
service lacked at some time since before the oldest answer still under way.
`OnInstallCli` is the banner's button, `OnSignIn` the one of banner and Settings.
The login thread ends in a preflight; the install thread reports to the pump,
which after an install that worked runs a preflight in the tick itself
(`AfterInstall`).

**Group lifetime.** One tick is 4 h; a renewal takes seconds and no tick passes in
it. `renewing` is the call `renew_tunnel` is in: `update --expiration`, `access
list`, `access create`. `copied` is the expiration its thread was given, 0 when it
is empty, as an edited `state.json` can have it: `Update` then makes no call. The
service
removes a tunnel when `left` is 0. Any client may change the access, delete or
create the tunnel, and stop or host the group between two calls. `wanted`,
`meddled`, `granted` and `missed` are history variables for the properties.

**Logs.** A line is its number. `at[th]` is the place of a thread in `log()` (take the
ring's lock or skip, evict, push, hand the line to the channel) or in the panic
hook (`crash_context`, the report, the default hook). A panic may happen in the
program or while the ring is locked; the lock is then poisoned, and given up as
the thread unwinds, after its hook has run. That a push panics half done is more than
the code can do, where nothing between eviction and append panics; the comment at
`src/logbuf.rs:127` reckons with a hook on the thread that holds the lock. All writes to stderr wait while the
console is `stuck`.

**Crash reports.** A panic stands for its report, a file for its name, the pair of
the second and the process. `fs::write` opens and truncates, then writes; a second
thread of the process that panics in the same second writes the same file, and
leaves a torn one if the reports overlap. `take_pending` is one action per file
operation, in any number of instances that start, each of which may be killed
anywhere; an open file that is moved or removed stays open (`target`). `mishaps`
records what went wrong for which report: a read, a removal of another file, the
move, the removal after a failed move (`drop`), and the way to the banner.

**Rows.** A job is the thread of `run_op_async` or `load_async`: one or two
calls that change the service, `list`, a `show` per tunnel, and the send. A
failed `show` makes its tunnel look portless, as in `fetch_rows`. `Pump` applies
all results of a tick in the order of the channel. The picker of the Add port
dialog is kept because it offers tunnels the list may have lost.

**Files.** The steps of `atomic_write` are the file operations themselves:
open-and-truncate the temporary file, write it, remove the old one, rename. Any
of them may fail, and the program may be killed between any two.

**Probe.** Time is the seconds the thread sleeps. `TakeCommand` is the drain at
the head of the loop, `SleepStep` a second of sleep with the `try_recv` after
it. `PumpHostEvent`, `PumpLoad`, `PumpResults` are the ticks that find a host
event, a load, or results only; the first two send SetTargets. `troubled` is a
history variable: the targets the cycle has found not operational, whether their
local port is down or their Public URL is answered by the gateway.

**Errors.** A message is the set of needle lists that match in it. The text of
a failed CLI call quotes its arguments, so what matches in the Tunnel ID
(`IdNeedles`) matches in every such message.

## 3. Runs

Bounds are constants marked `bound:` in the modules.

| Run | Question | Result |
|---|---|---|
| `keepalive` | Does the policy back off and watch as it should after any sequence of outcomes? Is every outcome that is tried again after answered by the right sleep? | holds |
| `engine` | Does the engine implement the lifecycle, whatever the user sends and whatever fails? Is every thread without a handle cancelled? Are tokens reused only one sleep after the last success? | holds |
| `engine_live` | With the headless runner: does every cancelled thread end, is every Stop served, does a quit end the process and leave no tunnel of the runner without a Stop? | holds |
| `tokens` | Are tokens dropped after a due re-mint or a failed attempt? Does renewal make no tunnel public, and does a renewed tunnel expire only after renewals have failed for a whole window? | holds |
| `tokens_expiry` | Are tokens re-minted before they expire (comment at `src/host/keepalive.rs:16`)? | violated |
| `session` | Does a stopped tunnel stay stopped, is only pruned what the service has lacked since the oldest answer under way, does the toggle agree with the engine? | holds |
| `rows` | Are hidden rows exactly those being deleted, does a lone operation leave the list right, is all optimism undone? | holds |
| `files` | Is a file ever torn, does an old version come back? | holds |
| `files_atomic` | Is a save atomic (comment at `src/state.rs:146`)? | violated |
| `probe` | After a cycle that found any target not operational, does the next come at the fast pace? Is a lasting outage shown? | holds |
| `logs` | Is the context of a panic the last problems? Does `log()` return, and is every panic reported, whatever lock is held and whatever the console does? | holds |
| `crash` | Is the latest report kept, and surfaced once, however panics, starts, kills and failing file operations interleave? | holds |

**Bounds, and why they are enough.**

- `keepalive`: the code's 2 s, 60 s and 3, and up to 25 sleeps in a row. The cap
  is reached after five; after that the state repeats.
- `engine`: one tunnel, because no step reads another tunnel's state except
  through the command thread, which serves one command at a time; two threads,
  the least with which an old and a new thread of one tunnel interleave; all six
  causes of failure; one waiting command and one waiting event. A longer command
  queue adds no command the thread could receive earlier; the bound on events
  only delays the sender. The proofs do not depend on these bounds. The backoff
  is 1 to 3, so that it is capped after two sleeps. Threads are symmetric.
- `engine_live`: one tunnel, two threads, no symmetry, network failures only; a line
  is read when no other and no command waits. The other causes of failure end a
  task as a failed runtime does, which is in the run. That more lines and commands
  wait makes no difference to `QuitStopsIds`, which is proved for any number.
- `tokens`: a tick of 4 h, the re-mint after 5 ticks, expiry after 6, renewal every
  3 ticks, windows of 6 and 12 ticks; failed renewals are counted to 3, where
  they make up the longer window. The window may be empty at the start.
- `logs`: two threads, one of them the main thread; a ring and a channel of two, and
  four problem lines, so that both overflow and a push is cut short on a full ring.
- `crash`: three panics on three threads of two processes, in two seconds, so that
  names collide and order; one instance that starts, again and again; two
  mishaps in `take_pending` per behaviour, so that the move and the removal of one
  report may both fail. The threads of one process are symmetric.
- `session`: one tunnel, one thread, one waiting job, command and event; every
  preflight outcome, both install outcomes; the service has the tunnel with a port or
  not at all, and changes at any step (without ports it comes from a failed `show`).
  One job is enough for an answer to be out of date when it is applied, which is what
  `PrunedWasGone` is about; that more jobs overlap is in `MCHostSessionPrune.cfg`, with
  two of them, and in the theorem, for any number.
  With one thread a Host that follows a Stop waits for the old thread, so the
  overlap of two threads is not in this run; it is in `MCHostSessionHost.cfg`, and
  the theorems about the session hold for any number of threads.
- `rows`: two jobs at once, one group, two ports, failures everywhere. Two jobs
  are the least with which results overtake each other. More tunnels add turns
  of the loop over `show`, for which `RowTypeOK` and `HiddenWhileDeleting` are
  proved.
- `files`: two versions of each file, five readings of the clock (12 h each),
  which may be set back at a restart.
- `probe`: two ports; intervals of 1 and 3 s around the fast interval of 2 s,
  public URLs asked every 3 s (the code: the user's interval, 60 s unless set and at
  least 1 s; 3 s; 300 s; only the order matters); one waiting command, one waiting
  result.

Four runs may stop and do not check deadlock: `keepalive` and `tokens_expiry`, because
the policy is asked nothing more after Relogin or Fail, on which `host_group`
returns; `engine_live` and `logs`, because the process ends. All others check it.

**Fairness.**

- `engine_live`: the command thread is strongly fair. It is a loop on a channel
  whose CLI calls return; strong, because the model's bound on waiting events,
  which the code's unbounded channel does not have, disables it again and again.
  A thread with a stored cancel permit is polled (`WindDown`) and its runtime
  drops (`ThreadExit`): weakly fair, as the thread is runnable. The runner's main
  thread runs (`MainThread`), and it prints faster than the engine reports, so that
  its drains end (`ServeLine`, `Exit`: strongly fair). Nothing else is fair: no
  connect needs to succeed, no relay to drop, no line to be typed.
- `logs`: a thread inside `log()` or the panic hook goes on. Nothing is asked of the
  writer thread, of the console or of the other threads.
- `rows`: the timer ticks, and CLI calls return.
- `probe`: the thread runs and the timer ticks. `StartCycle` is strongly fair:
  the thread drains commands faster than ticks of 150 ms can send them, so it
  does not stay in the drain for ever. `OutageIsShown` speaks of a port that
  stays hosted and a target, with its service down, from some moment on.

## 4. Where code and comments disagree

Two runs refute what a comment says; each is a finding in `PROJECT.json`.

- `tokens_expiry`: a relay drop keeps the tokens and starts the 20 h timer anew
  (`src/host/engine.rs` 228, 237-241). After a drop at 16 h the tokens are used
  past 24 h; then the service refuses them, the attempt fails and the engine
  mints new ones, so the session comes back after a backoff.
- `files_atomic`: `remove_file` before `rename` (`src/state.rs` 156) leaves a
  moment without a state file; a kill there loses settings and auto-host set.

More were met. Their configurations are kept to be run by hand, for example
`tlc -config MCProbeBadge.cfg MCProbe`, and each ends in a counterexample:

- `MCHostSessionHost.cfg`, `HostingIsConfirmed` (comment at `src/main.rs:748`): after a
  sign-in the auto-resume sends Host for groups that are hosted and sets their
  toggle to "host" (`src/main.rs` 1150-1158). The engine ignores the Host, no event
  comes, and the toggle stays on "host".
- `MCRowListOrder.cfg`, `CaughtUp` (comment at `src/main.rs:1511`): loads carry no order
  (`src/main.rs:1591`). A refresh that listed before a delete and arrives after its
  result brings the group back.
- `MCHostSessionStop.cfg`, `StopIsConfirmed`: the engine sends Stopped before the
  group's thread has ended, and an event of that thread after it shows the
  group as hosting. `session` checks that the toggle is right in all other cases
  (`UndisturbedAgrees`).
- `MCHostSessionPrune.cfg`, `PrunedIsGone` (comment at `src/main.rs:1161`): the
  auto-resume takes a tunnel that the rows lack for one that "no longer exists"
  (`src/main.rs` 1160-1168), and the rows are those of the last load to arrive
  (`src/main.rs:1591`). A load that listed before the tunnel was created again and is
  applied after it, with the auto-resume armed by a sign-in, prunes a tunnel that
  exists. `PrunedWasGone`, in `session`, is what does hold.
- `MCHostSession.cfg` with `IdNeedles <- MissingInId`, `PrunedWasGone`: a Tunnel ID
  with 404 in it makes every CLI failure about the tunnel look like its deletion
  (`src/devtunnel.rs:277`), and a tunnel the service has had all the while is pruned.
  In `session` IDs hold no needle.
- `MCHostEngineDrop.cfg`, `DropIgnoredUnlessUp`: a DropRelay sent while a group
  connects is not ignored (`src/host/engine.rs:115`) but ends the next session.
- `MCHostEngineRelogin.cfg`, `ReloginMeansSignIn`: "invalid JSON from `devtunnel
  token ...`" matches the last pattern of `is_auth_error`, and the user is asked
  to sign in.
- `MCHeadlessRunnerStop.cfg`, `StopLineStopsAll`: a `stop` line stops the groups the
  runner was started with, not "every hosted group" (`src/headless.rs:37`): one of a
  `host` line for another tunnel goes on.
- `MCAppFilesFuture.cfg`, `FutureCacheIsDropped`: `saturating_sub` keeps a cache
  from the future (`src/state.rs` 201-203).
- `MCProbeBadge.cfg`, `BadgesClear`: a result under way when a group is stopped
  puts the badge back (`src/main.rs` 797, 1199).
- `MCGroupLifetimeAccess.cfg`, `NeverWidenedAtAll` (comment at `src/devtunnel.rs` 493-494):
  a renewal that has seen the anonymous ACE creates it again after the user has
  withdrawn it in between.
- `MCLogBufferStuck.cfg`, `PanicEnds` (comment at `src/logbuf.rs` 86-87): the default
  panic hook waits for a stuck console on the thread that panics. The report is
  written by then (`PanicIsReported`).
- `MCCrashReportsTwoStarts.cfg`, `SurfacedOnce` (comment at `src/crash.rs:185`): two
  instances that start at one time both read the newest report.

## 5. Proofs

Every invariant and action property a passing run checks is also a theorem; the
liveness properties are model-checked only. All constants are arbitrary under the
assumptions the modules name (`PolicyConstants`, `ErrorConstants`,
`EngineConstants`, `SessionConstants`, `RowConstants`, `FilesConstants`,
`RunnerConstants`, `LifetimeConstants`, `RenewalConstants`, `LogConstants`,
`CrashConstants`, `ProbeConstants`); TLC evaluates them in the runs. Two theorems
about crash reports and one about the session need a hypothesis more, named below.

| Theorem | Says | Inductive invariant |
|---|---|---|
| `KeepAliveProofs!TypeCorrect`, `WatchdogIsExact` | `TypeOK`, `WatchdogExact` | `Inv`: the types; the policy believes a session up exactly while one is, and its streak is the number of Down probes of that session; the last answer was Reconnect exactly when they reached the threshold; after a Sleep the backoff is its delay doubled |
| `KeepAliveProofs!BackoffDoubles`, `RetrySpacing` | `BackoffIsExponential`, `RetriesAreSpaced` | `Inv` and the property itself: from `Uncapped[n]`, the base doubled n times, capped, one sleep leads to `Uncapped[n + 1]`, capped; the delay of each sleep is the backoff before it |
| `HostEngineProofs!EngineTypeCorrect`, `StraysWereCancelled` | `EngineTypeOK`, `StraysAreCancelled` | `EngineInv`: the types; a handle's thread belongs to the tunnel it is filed under; a thread with a handle is not cancelled; a tunnel whose ports are being fetched has no running thread with a handle; a thread that runs has a tunnel; a task that holds a session has been up; a stray is cancelled |
| `HostEngineProofs!TokensAreReusedOnce` | `ReuseFollowsSuccess` | `ReuseOf` of every task: tokens are cached only while a task holds a session or waits in the backoff after it; a task that holds a session has a fresh policy; one that reuses tokens has slept once |
| `HostEngineProofs!EngineImplementsLifecycle`, `SessionImplementsLifecycle` | `Spec`, and `SessionSpec` too, implies `Lifecycle!Spec` under the mapping `PhaseOf` | `EngineInv`, and from `HostGroupProofs` what each step does to the phase of a task |
| `HostEngineProofs!RunnerTypeCorrect`, `QuitLeavesNoneBehind` | `RunnerTypeOK`, `QuitStopsIds` | `RunnerInv`: `EngineInv` and both. The step that matters is the receipt of a Stop: if a Host of the tunnel is left in the channel, the Stop received was not the one behind it |
| `HostEngineProofs!SessionTypeCorrect`, `StoppedStaysStopped`, `OnlyTheGoneArePruned` | `SessionTypeOK`, `HostedIsWanted`, `PrunedWasGone` | `SessionInv`: `EngineInv`; the types; the auto-host set holds only wanted tunnels, and an unwanted one on its way to a thread has a Stop behind its last Host (`WantedInv`); what the waiting errors, the waiting loads and the lists under way say of a tunnel that is gone was true since the oldest of them was read (`EventsTrue`, `LoadsTrue`, `ListsTrue`) |
| `HostEngineProofs!UndisturbedToggles` | `UndisturbedAgrees` | `SessionInv` and `ShownInv`: an undisturbed tunnel has no running thread but that of its handle, and, unless a Host or a Stop of it is yet to be served, what its toggle will show once the channel is drained (`WillShow`) fits the await point of that thread |
| `GroupLifetimeProofs!TaskTypeCorrect`, `SpoiledTokensAreDropped` | `TypeOK`, `SpoiledAreDropped` | `TaskInv`: the types; only an attempt that goes on uses tokens, and the cache is empty during it; what is spoiled is neither cached nor used |
| `GroupLifetimeProofs!RenewalTypeCorrect`, `RenewalNeverWidens`, `RenewedOutlives` | `RenewalTypeOK`, `NeverWidened`, `OutlivesRenewals` | `LifetimeInv`: besides these, that a renewal about to create the ACE meets an open tunnel unless the access changed, and that what is left of a granted window, the time since the timer fired and the time of the missed renewals make up the window (`WindowKept`) |
| `RowListProofs!RowTypeCorrect`, `HiddenRows` | `RowTypeOK`, `HiddenWhileDeleting` | `RowsInv`: besides both, that two running deletes never share a key, which is why clearing one key cannot show a row another operation still deletes |
| `RowListProofs!AloneCaughtUp` | `AloneCatchesUp` | `AloneInv`: besides the property, what the accumulator of a job that has been alone so far holds of the service (`CleanIsAlone`), and that only jobs that are over have results in the channel |
| `AppFilesProofs!FilesTypeCorrect`, `DiskNeverTorn` | `FilesTypeOK`, `DiskIsLastSaved` | `FilesInv`: besides both, that the temporary file is whole when it is about to be renamed |
| `ProbeProofs!ProbeTypeCorrect`, `TroubleRechecked` | `ProbeTypeOK`, `TroubleIsRecheckedSoon` | `CycleInv`: what is left to probe is a matter of the cycle; what the cycle has found in trouble has cleared `allOk`; while the thread sleeps after a cycle that found some, what is left of the sleep is within the fast interval |
| `DiagnosticsProofs!LogTypeCorrect`, `ContextIsAlwaysRecent` | `LogTypeOK`, `ContextIsRecent` | `RingInv`: a thread that evicts, pushes or snapshots holds the lock; the ring is the last lines recorded while the lock is free and not poisoned, and one line short at most while a push is under way |
| `DiagnosticsProofs!CrashTypeCorrect` | `CrashTypeOK` | `CrashInv`: a panic writes into the file of its name or into what has become of it; a whole report in a file is one whose writing is over; the newest file a start has found is as late as those it clears, and the report it surfaces is of that name |
| `DiagnosticsProofs!OncePerCrash` | `SurfacedOnce` | `CrashInv` and `OnceInv`: what has been surfaced is taken, so that no start finds it again, unless neither the move nor the removal of that very file worked |
| `DiagnosticsProofs!LatestReportKept` | `LatestIsKept` | `CrashInv` and `KeptInv`: the latest report that was saved is pending, with every start yet to read it or having read it, or held by a start about to surface it, or surfaced, unless an earlier panic has as late a stamp or the start that took it could not read it or was killed before the banner |

`HostGroupProofs` holds the lemmas about the policy and the task: the results are
of their types, the backoff stays between base and cap, and each outcome moves the
phase as the lifecycle allows. The refinement proof has one step per action of the
engine; under each, the tunnel acted on takes the matching step of the lifecycle
and all others stutter.

**The toggles.** `UndisturbedToggles` is the proof with the longest argument. The
channel holds events of the past, so an invariant about `shown` alone is not
inductive: it must speak of the toggle after the drain. `WillShow(t, s)` says that
the last event about `t` that sets the toggle, or the toggle itself when none does,
shows `s`. A thread's step then has two cases (`ThreadReports`): it reports
nothing and moves between await points that fit the same toggle, or its last
report fits where it arrives. A tick shows what was to be shown (`DrainShows`).
Commands found a live thread, which makes the tunnel disturbed, or none, and then
what they do fits: a Stop reports Stopped, a failed fetch an Error, a new thread is
`starting`, which fits anything. TLC checked `ShownInv` first, on the
`session` run's constants and on the first 2.5 million states of two threads.

**Induction over data.** No prover here can instantiate the library's induction
theorems, which take an operator. A theorem about sets is enough where what is to be
proved can be written as one: `HostGroupProofs!SetInduction` says that a set that
holds 0 and with n also n + 1 holds all naturals, and follows from the least
element of what is left out. With it `Uncapped` is what its recursion says, and
`FoldLeft`, which the community modules define by a choice of a function on sets of
positions, is shown to have such a function (`FoldSolution`), to keep what each of its
steps keeps (`FoldStays`), and, for events, to pass through a sequence of states
(`EventsTrace`). The session's tick folds three times.

**Hypotheses.** `OnlyTheGoneArePruned` assumes that no Tunnel ID matches
`is_missing_tunnel_error`: with one that does, the code prunes a tunnel that has
been there all the while (`MissingInId`, in section 4). `OncePerCrash` and `LatestReportKept`
assume one starter, which is to say starts that follow one another: with two at a
time a crash is surfaced twice (`MCCrashReportsTwoStarts.cfg`). The number of starts,
of panics and of processes that panic meanwhile is arbitrary. `SessionConstants` has
the set of tunnels finite, because the auto-resume lists the tunnels it hosts.

**Only model-checked.** All liveness (`StraysEnd`, `StopIsServed`, `QuitEnds`,
`OptimismEnds`, `OutageIsShown`, `LoggingReturns`, `PanicIsReported`): the prover has no
rule for fairness and ENABLED.

## 6. What is not modelled

- The toast and the status texts; settings, beyond the expiration window.
- Editing a group or port: one CLI call through `run_op_async`, without
  optimistic rows; it is the `RowList` path of a load with a call before it.
- The level filter, the formatting and the trimming of log lines, backtraces and
  issue texts: functions of one value with unit tests. The ring of the Logs tab is
  dormant: nothing pushes to it.
- A second instance that writes the state file at the same time: nothing prevents
  it, and it is listed as a hazard.
- Update check (a loop that only sends), metrics and detail panel (the append is
  commented out, `src/main.rs:1044`, and the panel is disabled), the parsers of CLI
  output, autostart and uninstall (registry and shell), locale, icons, layout,
  spikes, packaging.

## 7. Plan

Done, in the order of importance: policy, task, engine with its lifecycle,
tokens, session with sign-in and install, rows, files, probe, renewal, logs, crash
reports, headless runner; theorems on each of them, with every safety property of
the passing runs among them.

Next, theorems: that the run of one task in `TokenLifetime` is the run of a thread of
`HostEngine` with the clock left out, so that what is proved of either holds of both;
for two starts at a time, what of `SurfacedOnce` and `LatestIsKept` is left.

Next, models: the edit dialogs as operations of `RowList`; two instances in
`AppFiles`.
