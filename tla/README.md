# A formal model of Hanly

Hanly shows the meaning of the Korean word under the pointer. A Tauri host
(`apps/desktop`) owns windows and shortcuts; a Python service
(`packages/hanly-app`) owns all state on one event-loop thread; a lookup child
process holds the heavy providers (OCR, morphology, dictionary); update helpers
replace the installation while nothing of it runs. This directory models the
parts of that system in which the order of steps decides whether it is right,
checks them with TLC, and proves the central ones with TLAPS.

`H/` below stands for `packages/hanly-app/src/hanly_app/`, `R/` for
`apps/desktop/src-tauri/src/`.

## 1. Inventory

| part | state it keeps | operations | talks to |
|---|---|---|---|
| Lookup execution, `H/lookup/controller.py`, `executor.py` | current request id, cancellation flags, executor state, one pending slot, readiness event | start, submit, invalidate, stop; worker thread: construct, take, report, close | owner thread through a bounded callback queue; the engine as its worker |
| Event loop, `H/service/event_loop.py` | callbacks (64), requests (32), timers, end-of-input flags | post, call_sync, call_later, enqueue_request, close_input, fail_input, stop | every other thread |
| Lookup engine, `H/lookup/process.py` | state, generation, stop epoch, recovery allowance, resident child; per child: transport, waiters, stopping/gone | attach, prepare, lookup, retire, close, child exit and recovery | child process over pipes; a reader thread per child; helper threads |
| Lookup session, `H/manual_lookup.py` | prepared, started, closed, preload policy, retiring, idle timer | prepare, start, stop, lookup, policy change, mute, push-to-hover, shutdown | executor, engine, hover, popup |
| Hover, `H/hover/` | stability timer and its generation, retained target, transfer to the popup | position, pause, resume, capture and submit | mouse listener, capture, lookup execution |
| Direct text, `H/acquisition/direct_text.py` | pending and active job, deadline, delivered latch | submit, worker, watcher, close | accessibility providers, hover |
| Desktop service, `H/service/` | startup generation, pending runtime, settings tokens, popup and event sequences | runtime startup and retry, settings prepare/commit/abort, popup geometry, shutdown | host protocol, session, updates |
| Update coordinator, `H/updates/coordinator.py`, `runner.py` | one future, prepared plan, cancel event, snapshot, installation lock | check, install, confirm, cancel, shutdown | installer, resource service, owner |
| Windows transaction, `H/updates/helper.py`, `journal.py`, `runner.py`, `tree.py` | journal, helper claim, backups, pointer, receipt | stage, claim, apply, start the new build, commit, roll back, settle, recover | detached helper process |
| POSIX helper, `packaging/updater/hanly-update-posix.c` | four directories beside one another, acknowledgement, result | apply, roll back, recover | old and new application |
| Resources, `H/updates/resource_service.py`, `H/first_run.py` | staged files, backups, recorded versions | check, download, activate, roll back, record | service, configuration |
| Host, `R/` | pending requests, first failure, stopped flag, settings lock, shortcut registrations | request, timeout, fail, stop, watch, start, restart, edit shortcuts, exit | service pipes, React windows |
| Language engine, `packages/hanly` | none between lookups | resolve a word, analyse, look up | providers |

What is hard in it, and what would make it right:

* **Superseded work.** Requests are replaced at every pointer movement while an
  older one runs, and its answer crosses two threads and a queue. Right means:
  only the answer of the latest request is ever shown, once, and a request that
  is still current is never forgotten.
* **Residency.** Several threads may want the providers loaded while another
  wants them gone; loading takes seconds, outside any state lock. Right means:
  never two loaded engines, no child that nobody owns, no child loaded for a
  wish that has been withdrawn, and no endless crash loop.
* **Stopping.** A Stop, an idle expiry, a shutdown and a resource update all
  take the providers away, each by another road. Right means: what was given
  back stays given back, and waiting for it ends.
* **Timers against the pointer.** Dwell timers, the approach to the popup, two
  readers and the popup's own geometry all decide what the card is about. Right
  means: a card comes up where the pointer was last seen, what is protected is
  what is on screen, and a word the pointer rests on is read.
* **One operation, many ends.** Direct text, preparations, settings transactions,
  updates and host requests end by a result, a timeout, a cancellation, a death
  or a shutdown. Right means: one outcome, to the one who asked, and one owner of
  every runtime, lock, process and shortcut throughout.
* **Replacing files.** Trees and files are exchanged while a crash can come
  between any two steps. Right means: one whole version, old or new, can be had
  at every point from which recovery starts, and a recorded result is true.

`PROJECT.json` lists each of these at the line where it bites, with the
properties that cover it.

## 2. Modules

Each module takes its bounds as CONSTANTS with named assumptions, has one action
per operation, and declares no RECURSIVE operator, so that it can be proved about.

| module | models | composes / refines |
|---|---|---|
| `LatestAnswer` | what a client of the lookup controller is promised | abstract specification |
| `LookupExecution` | controller, executor, callback queue | refines `LatestAnswer`; proved |
| `LookupEngine` | engine, children, readers, helper threads | proved |
| `LookupSession` | session policy over the engine | extends `LookupEngine`; proved in `LookupEngineProofs` |
| `OneAnswer` | what a caller of an asynchronous reader is promised | abstract specification |
| `DirectText` | request, worker, deadline watcher, latch, close | refines `OneAnswer`; proved |
| `Hover` | listener, dwell, approach, target, popup, session switches | extends `OneAnswer`: the native reader is what it promises; proved |
| `UpdateCoordinator` | coordinator and runner of one runtime, installation lock | proved in `DesktopServiceProofs` |
| `DesktopService` | owner loop, preparation, retry, settings, resource hooks | extends `UpdateCoordinator`; proved |
| `PosixUpdate` | POSIX helper, its hand-over, the answering build, settlement at a launch | proved |
| `WindowsUpdate` | PowerShell helper, its hand-over, the answering build, settlement at a launch | proved |
| `DesktopHost` | service process and channel, host requests, start, restart, exit, shortcuts | proved |

`MC…` modules give constants for TLC, `…Proofs` modules hold theorems.

## 3. Modules and the code

**`LookupExecution`.** The owner thread runs the controller's operations and the
callbacks of the event loop one at a time; `ownerPc` marks the two places where
an operation leaves the controller's lock half-way (`_dispatch` after
`_new_request`, the executor shutdown after `stop`'s own part), between which the
executor thread may step. `thread` is the place of `JobExecutor._run`. `pending`
is the slot, `item` and `outcome` the local variables of the loop, `callbacks`
the queue of `SerializedEventLoop`, filled by answers and, through `PostOther`,
by any other producer. A request's content is nothing but its number. Two history
variables name what the code forgets: `lost`, the requests whose answer a full
queue refused, and `retired`, those whose lookup child was told to close under them
(`RetireChild`), which may end as cancelled although nobody cancelled them.

**`LookupEngine`.** `pc[t]` is where a thread is in `_ensure`, `_start_now`,
`retire`, `_child_exited` or a lookup, `goal[t]` what it is there for. Only the
executor thread attaches, looks up and closes. The state lock is a single step;
the start lock is the set of places `Locked`. A child is named by its
generation; `alive` is the operating-system process, `told` what it has reported
of its construction, `gone` and `stopping` the flags of `LookupProcess`, and
`reader` the thread that reads its pipe. What the code reports through `on_state`
outside its locks is the variable `shown` with steps of its own. `recoveries`
counts, for the property only, recoveries since the last deliberate activation.

**`LookupSession`** extends the engine with the owner's operations, each one
step because the owner loop runs them one at a time and they only hand work to
other threads; `Owner` is the thread of the two retirements the owner waits for
itself (idle expiry, policy change). The executor is here only what the engine
sees of it: one slot (`pending`), its thread, its end. `installer` is a resource
update: it asks for the Stop and waits for the end of the executor thread, at most
30 seconds (`WaitEnds`). History variables:
`stopped` (nothing asked for since the last Stop), `reached` (no request was
beyond the reach of that Stop: an `attach()`, or a lookup between its
cancellation check and the reading of its epoch).

**`DirectText`.** A request is its generation. `worker` and `watcher` are the two
threads, each with its place, the job it holds and the outcome it is about to
deliver; a place `"native"` may last for ever. `late` says whose deadline has
passed; deadlines pass in the order of the requests, because all are the same
distance away. `answer` is the delivered latch, `told` the callback. A reading is
abstracted to what the order of reasons tells apart (`Judge`).

**`Hover`.** The owner loop runs queued callbacks before a request or a timer
that is due; the mouse listener, the native reader and the lookup worker are
other threads. `dwell` is `HoverController` (its armed timer, attempt, revision),
`mouse` the coalescing observer, `run` the switches of `HoverLookupRuntime` with
its startup point and readiness waiter, `target` and `crossing` the retained
target and the approach to the popup, `shown` and `frame` the card. Places are
points with a distance to the popup; `Corridor` is where a movement counts as an
approach. The native reader is not modelled again: it is any behaviour
`OneAnswer` allows, which `DirectText` is proved to keep to.

**`UpdateCoordinator`** is written as operators on one coordinator's record, for
what the owner asks, and actions for what its worker does; `DesktopService`
composes them. Every composed runtime gets a number that its session and its
coordinator bear. `op` and `at` are the operation that owns the coordinator and
the place of its worker; `prepared` the held plan, `cancellable` and `seen` the
cancellation, `held` what this runner believes of the lock, `lockFile` what the
file says. `Other` is a second Hanly process of the same installation.

**`DesktopService`.** `queue` is the callback queue; requests run when it is empty.
`starter` is the startup thread with the generation it works for, `gen` and
`pending` the service's own. `sessions` follows each composed lookup session to
its end, whether or not the service still refers to it. The hooks of a resource
installation run on the coordinator's worker and post to the owner.
`transaction[t]` holds the changes and the candidate of a settings token.

**`PosixUpdate`.** One transaction, from the descriptor on. `fs` is what the file
system shows: the four places a tree can be in (`install`, `candidate`,
`backup`, `rejected`), how much of the transaction's directory (`staging`) is
there, the outcome, the acknowledgement, the pointer `pending.json` and the
receipts beside the installation. A tree is named by the build it is and whether
it is whole; identity is the inode, which a tree keeps while its contents are
being deleted. `pc[h]` is where a helper process is in `hanly-update-posix.c`,
`verdict[h]` the outcome it is about to write; `shell` is the place of the
application in `_hand_off` and `abandon`, `answering` that of the new build in
`confirm_started_v2`, `settler[b]` that of a launched build in
`settle_native_update`. `lock` is the helper's flock, which the Python side also
takes for an instant to see whether it is free (`"probe"`). Every call that can
fail has a disjunct in which it does (`Fault`).

`images` is what a power cut may leave: a change joins it when it is made, and a
sync empties it of everything older. This takes changes to reach the disk in the
order they were made, which journalling file systems give for directory
operations, and the contents of the candidate to be on the disk when the exchange
begins, which nothing in `installer.py` syncs.

**`WindowsUpdate`.** The plan is a sequence of operations, each one file; of a file
only the build it belongs to is kept. `helper` is the place of the PowerShell
helper: its claim, the operation it is at, whether it recovers. `disk` holds the
tree, the payload, the backups, the phase of the last journal record, the result,
the claim and the pointer. Moves and records fail and files the plan did not know
of appear (`MaxFaults`), at any time, and helpers die between any two steps
(`MaxKills`). A staged file is placed in two steps, the look at what stands there
(`Place`) and the move, which deletes it (`MovePlaced`). The recovery a person runs
looks at the pointer only, which outlives the outcome. A launch settles or only
starts. `shell`, `answering` and `settling` are as above.

**`DesktopHost`.** Four threads make requests: startup, an edit of the shortcuts,
the restart, and the main thread at its exit. `at[t]` is the place, a request by
its method; `call[t]` its slot in the table of pending requests. A request is a
frame in the service's `inbox`, its answer one in `replies`; both are sets, so the
service may answer in any order. `process` is what `Family` sees of the service.
A transaction of the shortcuts (`prepare`, register, `commit`, then release the
old or give back the new) is the thread `edit`; a start registers what the settings
hold in two steps of its own, `prepare` and `commit` of `hotkeys.rs`, without the
settings lock. `hotkeys` is what the host believes to be registered, `previous[t]`
what it believed when `t` prepared, `os` what is, `stored` what the service has
persisted. History variables: `overlapped` (an edit or a restart began before the
start had ended) and `denied` (a commit stored something new and was answered with
an error; the next service starts from what is stored).

Each definition's lines are in `PROJECT.json` under `map`. Definitions marked
"mutant" are deliberate bugs: each property has one that breaks it.

## 4. Runs

| run | what it shows | bounds |
|---|---|---|
| `lookup_execution` | nine properties, among them the refinement of `LatestAnswer`, that a current request is settled unless its child was retired under it, that waiters wake and that stop ends the thread | 3 requests: one running, one waiting, one superseding both. Queue of 2: one foreign callback and one answer fill it |
| `lookup_engine` | no orphan, the resident is the newest, allowance; lookups and the start lock are released | 4 generations, 2 helpers: a start, its crash, its recovery and a retirement meet. Allowance 1: used once and exhausted once |
| `lookup_session` | a Stop that reaches every request releases everything, in the end too, and nothing loads afterwards | 3 generations, each of which may fail, crash or take too long: a child that loads, the Stop, and one recovery or the close; 2 helpers and the owner |
| `direct_text` | the native reader implements `OneAnswer`; the newest request is told of, also when the worker hangs | 3 requests: one hanging, one pending, one superseding both; a reading for each reason of `Judge` |
| `hover` | protection follows the card on screen, the pointer is observed while it is needed, a card comes up where the pointer was last seen, a rest is read | 2 words and the card in a row, 3 readings, 3 lookups, 3 events: a card, its approach and one more word |
| `desktop_service` | one runtime, one updating process, a commit of what was prepared, an end to every preparation | 2 requests, so 3 runtimes; 2 recognizers, 2 shortcuts, 1 settings token |
| `posix_update` | a build that works is on the disk at every moment and after every power cut; recorded outcomes are true; what is missing comes back | 2 helpers: one that is under way, or slow to start, and the recovery of a launch or a person; 1 failing call; 2 crashes: one of the update, one of its recovery |
| `windows_update` | every previous file is in place or in the backup until the new build answered, the recorded outcome is true, a mixed installation becomes whole | 4 operations of all kinds, 2 of them replacements; 3 faults: a failed move, a failed undoing and a stranger's file; 2 deaths: one while applying, one while undoing |
| `desktop_host` | one service, and the same shortcuts everywhere | 2 services: one restart; 2 settings that share one shortcut, so that an edit adds, keeps and releases |
| `host_callers` | callers of a service that ended return, a failed service is reaped | 2 services: one restart; 1 setting, for no caller's return depends on what is registered |
| `retry_overlaps`, `foreign_overwritten` | a sentence of the repository about itself that the code does not keep (section 6) | as above, smaller where less is enough |

`MaxGeneration` bounds how many children and retirements a behaviour has: users
ask and children crash only while `Room` says that everything already under way
still has a generation, so no thread is ever stuck on the bound. The engine's
ordering bugs need two starts and a retirement between them: three generations;
the fourth, in the engine's run, lets the last of them be recovered. `Faulty` names
the children that may fail, crash or take too long, which in both runs is every one.

Deadlock is checked in `lookup_execution`, `lookup_engine` and `posix_update`.
Elsewhere the system may stop: a session that was shut down, a reader that was
closed, a service whose loop has ended, a host whose process is gone, a Windows
installation whose executable is away and that no pointer names any more.

`MCSymmetry` (`desktop_host`) exchanges the two shortcuts that are in one setting
each; that run checks no liveness.

**Assumptions that are not the code's.**

* `QuietRetry` (`desktop_service`): the runtime is retried only while nothing is
  being installed. `retry_overlaps` drops it.
* `SettlesAmid` (`windows_update`): a launch while the helper is among its files,
  or after it died there, starts Hanly and does not settle. At this commit no launch
  of the program settles at all (section 6); `OldIsKept` needs it of these.
* `WindowsUpdate`: one helper at a time (a person does not run the recovery beside
  one), and a stranger's file appears where the plan adds one, never in the place of
  a file of the old build that was moved aside.
* `PosixUpdate`, `WindowsUpdate`: a person starts Hanly again only when no helper
  stands between its start and its claim. One that is held up there for as long
  as it takes to close Hanly, start it and let it settle would meet an outcome
  that is not its own. `KeptWhole` and `TruthfulResult` of `PosixUpdate` end where
  a launch has deleted the material of an unresolved transaction (`discarded`,
  section 6); `InstallationReturns` ends where the pointer or the descriptor is
  gone, which an abandonment that is cut short can also cause.
* `DesktopHost`: fewer than `MAX_PENDING` requests wait; the desktop never refuses
  to release a shortcut (`hotkey_cleanup_failed`); `prepare`, `commit` and `abort`
  of `hotkeys.rs` are one step each; a restart is asked for when the service is not
  connected (a connected one gets a request, which is `DesktopService`'s), and while
  another may be launched. The context and the state that follow a commit are one
  request, `refresh`. Of a channel that failed nothing but a commit that was written
  is kept, since nothing else of it has an effect.
* `UpdateCoordinator`: taking the installation lock is one step, also where a
  stale claim is replaced (`journal.py`), which the code does without exclusion.

**Fairness.** The executor thread, helper threads and readers are weakly fair:
they are operating-system threads whose waits end (a start by a report, an exit
or the timeout; a close by terminate and kill). In `LookupExecution` the owner
drains its callbacks fairly and ends the operation it began; users are not fair:
nothing makes anybody ask, start or stop. In `LookupEngine` a child need never
answer a lookup (there is no timeout on it); in `LookupSession` the answer comes, so
that what `StopCompletes` waits for are the retirements and not a lookup. A child
need not report: the wait for it has a deadline. `Close` is
fair: an executor that has left its loop closes its worker. In `DirectText` the
native call is not fair: only the watcher, the clock and the worker's own steps
are. In `Hover` callbacks, timers, the worker's construction, lookups and the
deadline of the newest reading are fair, movements and requests are not. In
`DesktopService` the owner drains its loop, the startup thread ends, a bounded
wait ends, the host sends its context once, and workers go on; a session's worker
need never end. In the updates helper processes run on (each of their waits has a
deadline), a settlement ends, and a person who finds an installation that is neither
build runs the recovery; nobody is made to start, quit or reinstall anything. In
`DesktopHost` the watcher and reader threads, `stop()` of a restart, and at the exit
its request, the timeout of that, and its `stop()` are fair; the service owes nothing,
not even to die when it is told to, and no caller is helped by its own timeout.

## 5. Proofs

| module | theorem (property) | for all |
|---|---|---|
| `LookupExecutionProofs` | `TypeCorrect` (`TypeOK`), `NeverForgotten` (`CurrentIsTracked`), `CloseErrorHarmless` (`CloseErrorChargesNobody`), `SlotNewest` (`SlotHoldsTheNewest`), `OnlyTheLatest` (`PresentsOnlyTheLatest`), `Refinement` (`ImplementsPromise`) | numbers of requests, queue capacities |
| `LookupEngineProofs` | `TypeCorrect` (`TypeOK`), `NoOrphan` (`NoOrphanChild`), `OneResident` (`ResidentIsCurrent`), `RecoveriesEnd` (`AllowanceHolds`) | generations, helper threads, allowances, faulty children |
| | of the session: `StopReleasesHolds` (`StopReleases`), `NothingLoadsHolds` (`NothingLoadsAfterStop`) | the same |
| `DirectTextProofs` | `OneOutcomeHolds` (`OneOutcome`, the refinement of `OneAnswer`) | numbers of requests, readings |
| `HoverProofs` | `ProtectedIsShownHolds`, `ObservedWhileNeededHolds`, `RaisedWhereSeenHolds` (each the property it is named after) | places, readings, lookups, events |
| `DesktopServiceProofs` | `TypesHold` (`TypeOK`), `CommitHolds` (`CommitsThePrepared`); if `QuietRetry`: `OneRuntimeHolds` (`OneRuntime`), `OneProcessHolds` (`OneProcessUpdates`) | requests, recognizers, shortcuts, settings tokens |
| `PosixUpdateProofs` | `TypesHold` (`TypeOK`), `KeptWholeHolds` (`KeptWhole`), `TruthfulResultHolds` (`TruthfulResult`) | helpers, faults, crashes |
| `WindowsUpdateProofs` | `TruthfulOutcomeHolds` (`TruthfulOutcome`); if not `SettlesAmid`: `OldIsKeptHolds` (`OldIsKept`) | plans, faults, deaths of the helper |
| `DesktopHostProofs` | `OneServiceHolds` (`OneService`), `RegisteredHolds` (`RegisteredIsStored`) | restarts, bindings |

Two modules have a hypothesis besides the assumptions on the constants,
each stated in the theorems that need it: `~SettlesAmid` for `OldIsKept`, and
`QuietRetry` for `OneRuntime` and `OneProcessUpdates`. Neither can be dropped: each
of the three fails without it (section 6). Three properties except in their own
words what the code does otherwise: `CurrentIsTracked` and `CurrentIsSettled` a
request whose child was retired under it, or whose answer a full queue refused;
`RegisteredIsStored` an edit or a restart that overlapped the start, and a commit
that was stored and denied. The bounds and assumptions of section 4 are in the
modules, so the theorems rest on them, too. Hardly any of
the properties is inductive as it stands; each module
states an inductive invariant `IInv`, which TLC finds to hold on the instance of
the component's run, and one lemma per action (or per part) shows that it is
preserved.

* **Execution.** The current request is the newest and not cancelled, and every
  other one issued is cancelled (`IdsInv`); which executor states go with which
  places of the thread, so that after a stop no new request can become current
  (`PhaseInv`); before the worker is constructed nothing is answered
  (`NothingAnswered`); slot, worker and queue hold distinct requests in the order
  they were asked, and one that is anywhere on its way has not been presented
  (`OnceInv`); and the tracking of the current request also while the owner is
  inside an operation (`TrackedInv`).
* **Engine.** The stop epoch never passes the generation, and allowance left and
  recoveries made add up (`CountsInv`); one thread holds the start lock (`LockInv`);
  a generation without a reader was never spawned, and one whose exit was read does
  not run (`ReaderInv`); what a thread at each place knows of the child it has in
  hand (`HandInv`); a resident child reported itself ready, and one that a later
  generation has left behind is retired (`ResidentInv`). `NoOrphanChild` itself is
  the last part: it needs the others at every place where a child changes hands.
* **Session** (`SInv`, over the engine's). Who asks for residency does so in an
  epoch that has begun, and only `attach()` in none (`CallersInv`). After a Stop
  that reached every request either its retirement is still to come, or nothing
  can become resident any more: each request is of an earlier epoch and each child
  of an earlier generation (`FinalInv`). `NothingLoadsAfterStop` follows because
  only a request of the present epoch is ever granted a generation.
* **Direct text.** Who owns a delivery: what a thread has in hand was asked for; what
  it is about to tell of is decided, not yet told of, and not in the other thread's
  hand (`Safe`). Each step then maps to a step of `OneAnswer` or a stutter
  (`StepRefines`).
* **Hover.** Of every attempt there is at most one token that may still become its
  lookup: an armed delay, a queued `stable`, or an open reading (`Single`), spent
  before the lookup is made; so a lookup that has not come back was asked for at
  the point of the present dwell, and no card is kept beside it (`Placed`). A timer,
  an answer and a delivery each come once (`Once`), and a hover that does not run
  has none of them (`Running`).
* **Service.** Without a hypothesis (`SInv`): a callback of the startup thread is
  its last act, each worker's call has one callback or one wait (`Queued`), and
  what can still compose a runtime, be it a start, an installation, a settings
  transaction or the hello to come, has a request that pays for it (`Counted`), so
  that the bound on runtimes never cuts anything off. Under `QuietRetry`: the
  coordinator in use is the one the Control Center asks, or takes no work, and
  nothing is installed and no session open while a runtime is prepared (`Linked`);
  what the worker of an installation saw of the runtime before it is still so when
  it acts on it (`Handover`); a claim that may still be given back is on the lock
  file (`Locks`). `OneRuntime` needs all of them where a runtime is replaced.
* **POSIX.** The images a power cut may leave are covered by the same sentence as
  the file system itself (`Sane`), so that a crash preserves it by choosing one.
  Nothing has moved until the starting application is gone (`ShellInv`), its helper
  is alone until it has the lock (`ComingInv`), and at each of its steps a helper
  finds the trees where its predecessor's step, or the crash, left them (`StepInv`,
  `VerdictInv`). A launch removes only what no helper needs (`SettleInv`).
* **Windows.** For every operation of the plan: the previous file is in its place or
  in the backup, never both (`Held`), the new one staged or placed (`Moved`); how far
  the files are is told by the helper's place (`Progress`), and the phase by the last
  record it wrote (`Recorded`). Nothing settles among its files (`Alone`, where the
  hypothesis is needed), who answers does so from a whole new tree (`Answer`), and a
  transaction goes when nothing is left for it to do (`Removal`). A recovery of a
  transaction that has its outcome starts from the same sentences: its first record
  replaces the outcome before it touches a file. When a launch does settle there, all
  of this holds until the transaction is gone, and then no outcome is recorded any
  more (`Undermined`), which is why `TruthfulOutcome` needs no hypothesis.
* **Host.** Which way each thread goes (`Ways`); the settings lock keeps an edit
  and a restart apart, and neither is under way during the start unless `overlapped`
  (`Exclusion`), so that one thread at most prepares a registration; the
  service a thread holds is the current one, or has been stopped (`Handles`); only
  the current service has a process (`Owned`, and so `OneService`); on a channel
  that works a request is in the inbox or answered, once (`Wire`); the desktop has
  what the host believed when the thread prepared, and until its commit the candidate
  too (`Desktop`); and what the host believes is what is stored unless a commit is
  undecided or was denied (`Stored`). A failure of the channel breaks none of it, because it only takes
  things away (`FailKeeps`, `EndsKeeps`).

Every invariant and action property that a passing run checks is a theorem.
`UpdateCoordinator` has no theorems of its own: its steps are those of
`DesktopServiceProofs`. Only model-checked are the liveness properties, which the
prover does not reach: `CurrentIsSettled`, `WaitersAreWoken`, `StopEndsThread`,
`LookupReleased`, `StartLockReleased`, `StopCompletes`, `NewestIsTold`, `RestIsRead`,
`PreparationSettles`, `InstallationReturns`, `CallersReturn`, `FamilyEnds`.

## 6. What the code says of itself and does not do

Two are runs that must find the violation, and entries under `findings`:

* `OneRuntime` without `QuietRetry`: `retry_runtime` refuses two statuses of an
  update only. A retry beside a resource installation composes a second runtime,
  and one session stays open with nobody to close it. With a third request the same
  gap breaks `OneProcessUpdates`: the coordinator of the retried runtime takes the
  claim of its own process's preparation over, fails, and gives it back while the
  first preparation still works.
* `ForeignIsKept`: the Windows helper looks once whether something stands where it
  adds a file, and then deletes what stands there before each try to move. A rollback
  deletes it, too, once the addition is no longer staged.

The models reach these too; no run is spent on refuting them:

* A resource update calls `stop()`, whose retirement has a thread of its own, and
  waits 30 seconds for the executor thread to end. While that thread lives only
  `begin_shutdown()` ends it: the wait times out and every such update fails, before
  it touched a file. When a failed attach has ended it, the wait is over at once and
  files are exchanged while a helper thread may still load a child (`WaitEnds`).
* Of two Stops that overlap the first to end clears `_retiring`, and the user is shown
  a Stop that is over while the child is still being closed.
* A change of shortcuts and recognizer is persisted and then refused by
  `retry_runtime`, while an update is checked or prepared. The host takes the answer
  for a failure and keeps the old shortcuts; the settings hold the new ones, until the
  next start (`denied`).
* A lookup child that is retired answers its open lookup with `LookupCancelled`. An
  idle expiry or a change of the preload policy retires without `invalidate()`; the
  controller drops the cancellation as stale, and the request stays current with
  nothing behind it (`retired`).
* `start_service` reads the settings and registers what they hold without the
  settings lock. An edit that is committed in between leaves the old shortcuts
  registered and the new ones stored, at `ready` (`overlapped`).
* `pending.json` outlives the commit, so that the recovery a person runs replays a
  Windows transaction that is over, or undoes it. Until it writes its own,
  `result.json` holds the outcome of the run before. An addition that is no longer
  staged counts as made when anything stands at its target.
* The phase of a Windows transaction is that of its last record, which in the middle
  of an apply is none the settlement knows: a launch that settled there would delete
  the previous files (`OldIsKept` with `SettlesAmid`).
* A child that reports ready and crashes before `_start_now` takes the lock is
  published after its exit has been dealt with; when the allowance is used up the
  engine shows a dead child as ready and no reader will report it again.
* `attach()` asks for residency without an epoch, and a lookup reads its epoch after
  its cancellation check; a Stop in between is followed by a child nobody asked for
  (`reached` excludes this).
* A Stop during the eager `attach()` makes it raise on the executor thread, where it
  counts as a failed factory: the executor is over, no lookup can wake the engine,
  and at shutdown nobody closes a child that a helper thread loads.
* A POSIX launch takes the outcome `recovery-required` for a settled one and deletes
  the transaction's directory, the previous version included, while the new build
  has not answered.
* At this commit `settle_native_update` and `settle_previous_update` are reached from
  tests only. The models show what they do when a launch calls them; in
  `WindowsUpdate` a launch may also do without.
* `confirm_started_v2` adopts the new receipt, and removes the previous one, before
  it acknowledges; when the helper's deadline passes in between, the previous build
  returns without its receipt.
* A recognizer chosen while an update check runs is stored, but the retry it asks
  for is refused, so the old one stays in use.
* Muting and continuing in a push-to-hover session leaves it accepting movement
  with no chord held; a point seen while the worker loads is looked up although the
  chord was released since.
* After every resource installation the coordinator is replaced, so that its outcome
  is never shown; when `after_install` fails the service still presents `ready` over
  a runtime that was shut down; a check on a coordinator whose executor is shut down
  stays at `checking`; a resource installed while an application update awaits its
  confirmation leaves the installation lock held.
* The Windows helper's `Restore-Receipt` cannot be repeated, and nothing but a
  settlement removes `pending.json`; a settlement while the helper waits at `prepared`
  drops the update. As the code reads (the module has one helper), nothing keeps two
  helpers of one transaction apart.
* `start_service` presents `ready` although its state request, or its second
  context, failed (`R/lib.rs`).

## 7. Not modelled

* **Wire and evidence** (`H/lookup/transport.py`, `preload.py`, `evidence.py`): framing
  and retention; their control, an end of file or a failed send, is in
  `LookupEngine`. Likewise the child's own job slot (a reply or none).
* **Event loop.** Timers other than hover's, the limit of the request queue.
* **Session and hover.** Selections, the presentation of a result, changes of the
  capture preferences, the popup switched off, geometry in points.
* **Service.** Message formats, snapshots, self check, first run, permissions; the
  refusal of a full callback queue, which `_post_owner` and the mouse observer swallow
  (`LookupExecution` has it; in `DesktopService` and `Hover` the queue has room).
* **Resources and first run.** One worker's sequence of downloads, renames and
  records. A crash between the two renames of an activation leaves a resource
  missing, which the first-run check of the next start downloads again.
* **Updates.** Manifests, packages and inventories (validation and download), the
  schema-1 script handoff, the cleanup of old directories; on Windows, staging.
* **Host.** Windows, tray, frame encoding, the busy refusal, and the input events.
  Of these: `hotkeys.rs` stores the overflow flag after the refused `try_send`, and
  a release that cannot be sent is not tried again, so a full queue may lose the
  release of push-to-hover.
* **User interface.** React rendering. Its one protocol is that a state with an older
  revision of the same series is ignored (`desktopState.ts`): one comparison.
* **Capture, accessibility, OCR, morphology, dictionary, word resolution.** Input,
  output and text processing without state between calls.
* **Composition, configuration, diagnostics, laboratory, tools, packaging.** Wiring,
  files and development harnesses.

Most of the repository's lines are of the last four kinds: the laboratory and the
tools, validation and parsing, wiring, and interface. The lines that `map` names are
those of the protocols above.
