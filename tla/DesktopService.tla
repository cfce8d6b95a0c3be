---------------------------- MODULE DesktopService ----------------------------
(***************************************************************************)
(* DesktopService on its SerializedEventLoop: the runtime's preparation,   *)
(* its retry, the settings transaction, and the replacement of the runtime *)
(* around a resource installation.                                         *)
(*                                                                         *)
(* The owner thread runs the callbacks other threads have posted, in       *)
(* order, and a request only when none is left.  A runtime is composed     *)
(* with a lookup session and an update coordinator, which all bear its     *)
(* number; the session is open until begin_shutdown(), and closed once its *)
(* worker is gone.                                                         *)
(***************************************************************************)
EXTENDS UpdateCoordinator

CONSTANTS
    MaxRequests,      \* requests of the user in a behaviour
    Backends, Keys,   \* text recognizers and shortcuts to choose from
    Tokens,           \* settings transactions prepared at a time
    QuietRetry        \* whether the runtime is retried only while no update runs

ASSUME ServiceAssumption ==
    /\ MaxRequests \in Nat /\ QuietRetry \in BOOLEAN
    /\ Coordinators = 1..(MaxRequests + 1)    \* no request composes two runtimes

VARIABLES
    loop,         \* "running", or "closed" once service.shutdown was handled
    queue,        \* the callbacks that wait for the owner
    hello,        \* _hello_seen
    context,      \* _native_context_received
    starter,      \* _startup_thread: what it does and for which generation
    gen,          \* _startup_generation
    pending,      \* _pending_runtime's generation, or 0
    runtime,      \* whether _runtime is set
    manual,       \* _manual: the session in use, or 0
    updates,      \* _updates: its coordinator, or 0
    page,         \* the coordinator the Control Center asks, or 0
    phase,        \* the phase of the published RuntimeStatus
    sessions,     \* each session: "none", "open", "closing", "closed"
    config,       \* the stored settings
    transaction,  \* _pending_settings: changes and candidate of each token
    asked         \* requests made so far

ownVars == <<loop, queue, hello, context, starter, gen, pending>>
runtimeVars == <<runtime, manual, updates, page, phase, sessions>>
settingsVars == <<config, transaction>>
serviceVars == <<updateVars, ownVars, runtimeVars, settingsVars, asked>>

NoThread == [does |-> "nothing", gen |-> 0, waits |-> 0]
Configs == [ocr : Backends, key : Keys]
Changes == [ocr : Backends] \cup [key : Keys] \cup Configs
NoChanges == <<>>
With(changes) == [f \in {"ocr", "key"} |->
                     IF f \in DOMAIN changes THEN changes[f] ELSE config[f]]

Init ==
    /\ UpdatesInit
    /\ loop = "running" /\ queue = <<>> /\ hello = FALSE /\ context = FALSE
    /\ starter = NoThread /\ gen = 0 /\ pending = 0
    /\ runtime = FALSE /\ manual = 0 /\ updates = 0 /\ page = 0 /\ phase = "idle"
    /\ sessions = [m \in Coordinators |-> "none"]
    /\ config \in Configs
    /\ transaction = [t \in Tokens |-> NoChanges]
    /\ asked = 0

\* post(): a loop that has stopped drops the callback.
PostsAnyway(q, item) == Append(q, item)   \* mutant: a closed loop still queues
Post(q, item) == IF loop = "running" THEN Append(q, item) ELSE q
Callback(kind, n) == [kind |-> kind, n |-> n]

Closing(s, m) == IF m # 0 /\ s[m] = "open" THEN [s EXCEPT ![m] = "closing"] ELSE s

-----------------------------------------------------------------------------
(* Composition *)

NextNumber == CHOOSE m \in Coordinators :
                 sessions[m] = "none" /\ \A n \in Coordinators : n < m => sessions[n] # "none"

\* _compose_runtime(): the session is published, then the coordinator, whose
\* first check is begun.
Composed(m) ==
    /\ manual' = m /\ sessions' = [sessions EXCEPT ![m] = "open"]
    /\ updates' = m /\ page' = m
    /\ runtime' = TRUE /\ phase' = "ready"
    /\ coord' = [coord EXCEPT ![m] = Checked(Fresh)]
    /\ UNCHANGED <<lockFile, other>>

\* mutant: the session of a composition that failed is dropped as it is
StartupForgets(m) ==
    /\ sessions' = IF m = 0 THEN Closing(sessions, manual)
                            ELSE [sessions EXCEPT ![m] = "open"]
    /\ manual' = 0 /\ updates' = 0 /\ phase' = "failed"
    /\ IF updates # 0 THEN ShutDownUpdates(updates) ELSE UNCHANGED updateVars
    /\ UNCHANGED <<runtime, page>>

\* _startup_failed(): whatever was composed is given up.
StartupFails(m) ==
    /\ sessions' = IF m = 0 THEN Closing(sessions, manual)
                            ELSE [sessions EXCEPT ![m] = "closing"]
    /\ manual' = 0 /\ updates' = 0 /\ phase' = "failed"
    /\ IF updates # 0 THEN ShutDownUpdates(updates) ELSE UNCHANGED updateVars
    /\ UNCHANGED <<runtime, page>>

\* _runtime_loaded(): composition may fail before or after the session exists.
RuntimeLoaded ==
    LET m == NextNumber IN Composed(m) \/ StartupFails(0) \/ StartupFails(m)

\* _begin_runtime_preparation(), with no thread at work.
BeginsPreparation(busy) ==
    IF busy
      THEN UNCHANGED <<starter, gen, phase>>
      ELSE /\ gen' = gen + 1
           /\ starter' = [does |-> "prepare", gen |-> gen + 1, waits |-> 0]
           /\ phase' = "preparing"

-----------------------------------------------------------------------------
(* The threads of a start *)

\* _prepare_runtime_worker(): its last act is to post what it made.
PreparationEnds ==
    /\ starter.does = "prepare"
    /\ \E kind \in {"loaded", "failed"} :
          queue' = Post(queue, Callback(kind, starter.gen))
    /\ starter' = [starter EXCEPT !.does = "posted"]
    /\ UNCHANGED <<updateVars, loop, hello, context, gen, pending, runtimeVars,
                   settingsVars, asked>>

\* mutant: the session's worker is waited for without a limit
RetryWaitsForEver ==
    /\ starter.does = "retire" /\ sessions[starter.waits] = "closed"
    /\ queue' = Post(queue, Callback("retired", starter.gen))
    /\ starter' = [starter EXCEPT !.does = "posted"]
    /\ UNCHANGED <<updateVars, loop, hello, context, gen, pending, runtimeVars,
                   settingsVars, asked>>

\* wait_for_shutdown(): the session's worker is gone, or ten seconds are over.
RetryWaited ==
    /\ starter.does = "retire"
    /\ \/ /\ sessions[starter.waits] = "closed"
          /\ queue' = Post(queue, Callback("retired", starter.gen))
       \/ queue' = Post(queue, Callback("stuck", starter.gen))
    /\ starter' = [starter EXCEPT !.does = "posted"]
    /\ UNCHANGED <<updateVars, loop, hello, context, gen, pending, runtimeVars,
                   settingsVars, asked>>

\* The lookup worker of a session that was told to shut down ends.
SessionCloses(m) ==
    /\ sessions[m] = "closing"
    /\ sessions' = [sessions EXCEPT ![m] = "closed"]
    /\ UNCHANGED <<updateVars, ownVars, runtime, manual, updates, page, phase,
                   settingsVars, asked>>

-----------------------------------------------------------------------------
(* The callbacks *)

Stale(g) == g # gen

Head1(kind) == loop = "running" /\ queue # <<>> /\ Head(queue).kind = kind
Served == queue' = Tail(queue)

\* _runtime_loaded() of the worker: without the native context it waits.
LoadedServed ==
    /\ Head1("loaded") /\ Served
    /\ IF Stale(Head(queue).n)
         THEN UNCHANGED <<updateVars, starter, pending, runtimeVars>>
         ELSE /\ starter' = NoThread
              /\ IF context
                   THEN pending' = 0 /\ RuntimeLoaded
                   ELSE pending' = Head(queue).n /\ UNCHANGED <<updateVars, runtimeVars>>
    /\ UNCHANGED <<loop, hello, context, gen, settingsVars, asked>>

FailedServed ==
    /\ Head1("failed") /\ Served
    /\ IF Stale(Head(queue).n)
         THEN UNCHANGED <<updateVars, starter, pending, runtimeVars>>
         ELSE starter' = NoThread /\ pending' = 0 /\ StartupFails(0)
    /\ UNCHANGED <<loop, hello, context, gen, settingsVars, asked>>

\* _finish_runtime_retry(): a runtime that is set keeps the next from starting.
FinishRetry ==
    /\ manual' = 0 /\ updates' = 0 /\ pending' = 0
    /\ IF runtime
         THEN starter' = NoThread /\ UNCHANGED <<gen, phase>>
         ELSE BeginsPreparation(FALSE)

RetiredServed ==
    /\ Head1("retired") /\ Served
    /\ IF Stale(Head(queue).n)
         THEN UNCHANGED <<starter, gen, pending, runtimeVars>>
         ELSE FinishRetry /\ UNCHANGED <<runtime, page, sessions>>
    /\ UNCHANGED <<updateVars, loop, hello, context, settingsVars, asked>>

\* _runtime_retry_failed()
StuckServed ==
    /\ Head1("stuck") /\ Served
    /\ IF Stale(Head(queue).n)
         THEN UNCHANGED <<starter, phase>>
         ELSE starter' = NoThread /\ phase' = "failed"
    /\ UNCHANGED <<updateVars, loop, hello, context, gen, pending, runtime, manual, updates,
                   page, sessions, settingsVars, asked>>

-----------------------------------------------------------------------------
(* The worker of a resource installation: before_install(), the            *)
(* installation itself, after_install().  call_sync() posts to the owner   *)
(* and waits; with the loop gone it times out.                             *)

Continues(u, at) == coord' = [coord EXCEPT ![u].at = at]
WorkerOnly == UNCHANGED <<lockFile, other, loop, hello, context, starter, gen, pending,
                          runtimeVars, settingsVars, asked>>

Calls(u, from, kind, waiting) ==
    /\ Works(u, "resource", from)
    /\ \/ /\ loop = "running"
          /\ queue' = Append(queue, Callback(kind, u)) /\ Continues(u, waiting)
       \/ /\ loop = "closed"
          /\ Ends(u, coord[u], "failed") /\ UNCHANGED queue
    /\ WorkerOnly

\* The owner's answer never comes.
CallTimesOut(u) ==
    /\ coord[u].op = "resource" /\ coord[u].at \in {"asking", "parting", "replacing"}
    /\ loop = "closed" /\ queue = <<>>
    /\ Ends(u, coord[u], "failed")
    /\ UNCHANGED queue /\ WorkerOnly

ResourceBegins(u) == Calls(u, "queued", "ask", "asking")

\* The session that was in use, if any, is released by the owner.
Releases(u) == coord[u].seen # 0 /\ Calls(u, "asked", "part", "parting")

AfterRelease(u) == Continues(u, IF coord[u].leg = "before" THEN "fetching" ELSE "loading")

NothingToRelease(u) ==
    /\ Works(u, "resource", "asked") /\ coord[u].seen = 0
    /\ AfterRelease(u)
    /\ UNCHANGED queue /\ WorkerOnly

\* await_shutdown(): a session that was only stopped may keep its worker.
AwaitsRelease(u) ==
    LET c == coord[u] IN
    /\ Works(u, "resource", "parted")
    /\ \/ (c.leg = "before" \/ sessions[c.seen] = "closed") /\ AfterRelease(u)
       \/ Ends(u, c, "failed")
    /\ UNCHANGED queue /\ WorkerOnly

\* UpdateService.install() and its record, whatever the end of which the
\* runtime is loaded again.
Fetches(u) ==
    /\ Works(u, "resource", "fetching")
    /\ \E good \in BOOLEAN :
          coord' = [coord EXCEPT ![u] = [@ EXCEPT !.at = "fetched", !.good = good,
                                                  !.leg = "after"]]
    /\ UNCHANGED queue /\ WorkerOnly

ResourceAsks(u) == Calls(u, "fetched", "ask", "asking")

Loads(u) ==
    /\ Works(u, "resource", "loading")
    /\ \/ /\ loop = "running"
          /\ queue' = Append(queue, Callback("replace", u)) /\ Continues(u, "replacing")
       \/ Ends(u, coord[u], "failed") /\ UNCHANGED queue
    /\ WorkerOnly

ResourceStep(u) ==
    \/ ResourceBegins(u) \/ Releases(u) \/ NothingToRelease(u) \/ AwaitsRelease(u)
    \/ Fetches(u) \/ ResourceAsks(u) \/ Loads(u) \/ CallTimesOut(u)

AskServed ==
    /\ Head1("ask") /\ Served
    /\ LET u == Head(queue).n IN
          coord' = [coord EXCEPT ![u] = [@ EXCEPT !.seen = manual, !.at = "asked"]]
    /\ UNCHANGED <<lockFile, other, loop, hello, context, starter, gen, pending,
                   runtimeVars, settingsVars, asked>>

\* manual.stop() before, manual.begin_shutdown() after.
PartServed ==
    /\ Head1("part") /\ Served
    /\ LET u == Head(queue).n IN
          /\ Continues(u, "parted")
          /\ sessions' = IF coord[u].leg = "before" THEN sessions
                                                   ELSE Closing(sessions, coord[u].seen)
    /\ UNCHANGED <<lockFile, other, loop, hello, context, starter, gen, pending,
                   runtime, manual, updates, page, phase, settingsVars, asked>>

\* _replace_runtime(): whatever was in use is dropped, and the runtime is
\* composed again.  A failure is the caller's.
ReplaceRuntime(u) ==
    LET m == NextNumber
        ended(r) == [coord EXCEPT ![u] = [@ EXCEPT !.at = "done", !.result = r]] IN
    \/ /\ manual' = m /\ sessions' = [sessions EXCEPT ![m] = "open"]
       /\ updates' = m /\ page' = m /\ runtime' = TRUE /\ phase' = "ready"
       /\ coord' = [ended(IF coord[u].good THEN "installed" ELSE "failed")
                      EXCEPT ![m] = Checked(Fresh)]
    \/ /\ manual' = 0 /\ runtime' = FALSE /\ coord' = ended("failed")
       /\ UNCHANGED <<updates, page, phase, sessions>>
    \/ /\ manual' = m /\ sessions' = [sessions EXCEPT ![m] = "open"]
       /\ runtime' = FALSE /\ coord' = ended("failed")
       /\ UNCHANGED <<updates, page, phase>>

ReplaceServed ==
    /\ Head1("replace") /\ Served
    /\ ReplaceRuntime(Head(queue).n)
    /\ UNCHANGED <<lockFile, other, loop, hello, context, starter, gen, pending,
                   settingsVars, asked>>

-----------------------------------------------------------------------------
(* Requests: one is handled when no callback is left *)

Idle == loop = "running" /\ queue = <<>>
Request == Idle /\ hello /\ asked < MaxRequests /\ asked' = asked + 1

\* service.hello, and the preparation that follows its reply.
Hello ==
    /\ Idle /\ ~hello /\ hello' = TRUE
    /\ BeginsPreparation(FALSE) /\ pending' = 0
    /\ UNCHANGED <<updateVars, loop, queue, context, runtime, manual, updates, page,
                   sessions, settingsVars, asked>>

\* native.context composes a runtime that was waiting for it.
NativeContext ==
    /\ Idle /\ hello /\ ~context /\ context' = TRUE
    /\ pending' = 0
    /\ IF pending # 0 /\ ~Stale(pending)
         THEN starter' = NoThread /\ RuntimeLoaded
         ELSE UNCHANGED <<updateVars, starter, runtimeVars>>
    /\ UNCHANGED <<loop, queue, hello, gen, settingsVars, asked>>

StarterAlive == starter.does \in {"prepare", "retire"}

\* retry_runtime() is refused while a check or a preparation is shown.
RetryRefused ==
    updates # 0 /\ (coord[updates].status \in {"checking", "preparing"} \/ coord[updates].waiting)

Quiet == QuietRetry => \A u \in Coordinators :
            coord[u].op \notin {"resource", "application"} /\ ~coord[u].handedOff

RetryRuntime ==
    IF StarterAlive \/ RetryRefused
      THEN UNCHANGED <<updateVars, starter, gen, pending, runtimeVars>>
      ELSE /\ Quiet
           /\ IF updates # 0 THEN ShutDownUpdates(updates) ELSE UNCHANGED updateVars
           /\ runtime' = FALSE
           /\ UNCHANGED page
           /\ IF manual = 0
                THEN /\ gen' = gen + 2
                     /\ starter' = [does |-> "prepare", gen |-> gen + 2, waits |-> 0]
                     /\ phase' = "preparing" /\ pending' = 0 /\ updates' = 0
                     /\ UNCHANGED <<manual, sessions>>
                ELSE /\ gen' = gen + 1
                     /\ starter' = [does |-> "retire", gen |-> gen + 1, waits |-> manual]
                     /\ phase' = "preparing"
                     /\ sessions' = Closing(sessions, manual)
                     /\ UNCHANGED <<manual, updates, pending>>

Retry == Request /\ RetryRuntime /\ UNCHANGED <<loop, queue, hello, context, settingsVars>>

\* _update_settings(): a new recognizer retires the runtime once it is stored.
Stored(changes) ==
    /\ config' = With(changes)
    /\ IF config'.ocr # config.ocr
         THEN RetryRuntime
         ELSE UNCHANGED <<updateVars, starter, gen, pending, runtimeVars>>

UpdateSettings(changes) ==
    /\ Request /\ Stored(changes)
    /\ UNCHANGED <<loop, queue, hello, context, transaction>>

PrepareSettings(t, changes) ==
    /\ Request /\ transaction[t] = NoChanges
    /\ transaction' = [transaction EXCEPT ![t] = [changes |-> changes,
                                                  candidate |-> With(changes)]]
    /\ UNCHANGED <<updateVars, loop, queue, hello, context, starter, gen, pending,
                   runtimeVars, config>>

NeverConflicts(t) == FALSE            \* mutant: changes are stored whatever was prepared
\* What was prepared is no longer what it would make of the settings.
Conflicts(t) == With(transaction[t].changes) # transaction[t].candidate

\* _commit_settings(): a refusal of the retry leaves the token and the stored
\* settings both behind.
CommitSettings(t) ==
    /\ Idle /\ transaction[t] # NoChanges
    /\ IF Conflicts(t)
         THEN /\ transaction' = [transaction EXCEPT ![t] = NoChanges]
              /\ UNCHANGED <<config, updateVars, starter, gen, pending, runtimeVars>>
         ELSE /\ Stored(transaction[t].changes)
              /\ transaction' =
                    IF config'.ocr # config.ocr /\ ~StarterAlive /\ RetryRefused
                      THEN transaction
                      ELSE [transaction EXCEPT ![t] = NoChanges]
    /\ UNCHANGED <<loop, queue, hello, context, asked>>

AbortSettings(t) ==
    /\ Idle /\ transaction[t] # NoChanges
    /\ transaction' = [transaction EXCEPT ![t] = NoChanges]
    /\ UNCHANGED <<updateVars, ownVars, runtimeVars, config, asked>>

UpdateRequested ==
    /\ Request /\ page # 0
    /\ \/ /\ \/ coord' = [coord EXCEPT ![page] = Checked(@)]
             \/ coord' = [coord EXCEPT ![page] = ResourceAsked(@)]
             \/ \E confirm \in BOOLEAN :
                   coord' = [coord EXCEPT ![page] = ApplicationAsked(@, confirm)]
          /\ UNCHANGED <<lockFile, other>>
       \/ CancelUpdate(page)
    /\ UNCHANGED <<ownVars, runtimeVars, settingsVars>>

\* service.shutdown, or input that ends or cannot be read, stops the loop with
\* whatever was posted by then; close() ends what the owner holds.
ShutDown ==
    /\ loop = "running" /\ hello
    /\ loop' = "closed" /\ queue' = <<>>
    /\ gen' = gen + 1 /\ pending' = 0
    /\ sessions' = Closing(sessions, manual)
    /\ IF updates # 0 THEN ShutDownUpdates(updates) ELSE UNCHANGED updateVars
    /\ UNCHANGED <<hello, context, starter, runtime, manual, updates, page, phase,
                   settingsVars, asked>>

OwnerStep ==
    \/ LoadedServed \/ FailedServed \/ RetiredServed \/ StuckServed
    \/ AskServed \/ PartServed \/ ReplaceServed

UserStep ==
    \/ Retry \/ UpdateRequested
    \/ \E changes \in Changes : UpdateSettings(changes)
    \/ \E t \in Tokens : CommitSettings(t) \/ AbortSettings(t)
                         \/ \E changes \in Changes : PrepareSettings(t, changes)
    \/ ShutDown

Next ==
    \/ Hello \/ NativeContext \/ UserStep \/ OwnerStep
    \/ PreparationEnds \/ RetryWaited
    \/ \E m \in Coordinators : SessionCloses(m) \/ ResourceStep(m)
    \/ UpdatesStep /\ UNCHANGED <<ownVars, runtimeVars, settingsVars, asked>>

\* Threads that run go on, the owner serves what is posted, and the host sends
\* its context.  The user, and other processes, need do nothing.
Fairness ==
    /\ WF_serviceVars(OwnerStep) /\ WF_serviceVars(PreparationEnds)
    /\ WF_serviceVars(RetryWaited) /\ WF_serviceVars(NativeContext)
    /\ \A u \in Coordinators :
          /\ WF_serviceVars(ResourceStep(u))
          /\ WF_serviceVars(WorkerStep(u) /\ UNCHANGED <<other, ownVars, runtimeVars,
                                                         settingsVars, asked>>)

Spec == Init /\ [][Next]_serviceVars /\ Fairness

-----------------------------------------------------------------------------
(* Properties *)

\* Types, a closed loop that has nothing left to run (SerializedEventLoop.stop),
\* and a coordinator that exists when it holds the lock.
TypeOK ==
    /\ loop \in {"running", "closed"} /\ (loop = "closed" => queue = <<>>)
    /\ gen \in Nat /\ pending \in 0..gen
    /\ manual \in {0} \cup Coordinators /\ updates \in {0} \cup Coordinators
    /\ phase \in {"idle", "preparing", "ready", "failed"}
    /\ config \in Configs
    /\ \A u \in Coordinators :
          /\ coord[u].op \in Ops /\ coord[u].status \in Statuses
          /\ coord[u].held => sessions[u] # "none"
    /\ lockFile \in {NoOne, Other} \cup Coordinators

\* A session that was composed is the one in use, or has been told to shut
\* down: none is left with its worker and shortcuts and nobody to close it.
OneRuntime == \A m \in Coordinators : sessions[m] = "open" => m = manual

\* Two processes of one installation never work on its update together.
OneProcessUpdates ==
    \A u \in Coordinators :
        coord[u].op = "application" /\ coord[u].at \in {"reading", "staging", "handing"}
            => ~other

\* What a committed settings transaction stores is what was prepared.
CommitsThePrepared ==
    [][\A t \in Tokens : CommitSettings(t) /\ config' # config
          => config' = transaction[t].candidate]_serviceVars

\* A preparation that is shown comes to an end, also when a session's worker
\* never does.
PreparationSettles == phase = "preparing" ~> (phase # "preparing" \/ loop = "closed")
=============================================================================
