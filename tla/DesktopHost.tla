----------------------------- MODULE DesktopHost -----------------------------
(***************************************************************************)
(* The native host: the service process it owns and the requests that wait *)
(* for it (lifecycle/mod.rs), its start, its restart and the exit          *)
(* (lib.rs), and the registration of the shortcuts with the settings       *)
(* transaction around it (commands/mod.rs, platform/hotkeys.rs).           *)
(*                                                                         *)
(* Four threads make requests: the one that starts the service, the one    *)
(* that edits the shortcuts, the one that restarts the service and the     *)
(* main thread at its exit.  A service may answer late, never, or die.     *)
(***************************************************************************)
EXTENDS Integers, FiniteSets

CONSTANTS Services,      \* bound: the services launched, numbered from 1
          Bindings       \* what the settings may bind: sets of shortcuts

ASSUME HostAssumption ==
    Services \in Nat \ {0} /\ Bindings # {} /\ {} \notin Bindings

Service == 1..Services
Thread == {"startup", "edit", "retry", "exit"}

VARIABLES
    channel,    \* each service's Channel: "failure" and "stopped"
    process,    \* each service's process, as its Family sees it
    inbox,      \* the requests each service has not handled yet
    replies,    \* its replies that are not read yet
    at,         \* what each thread does; a request by its method
    call,       \* its request: "none", "waiting", or how it was answered
    handle,     \* the service it holds, an Arc<Service>; 0 for none
    draft,      \* the bindings it wants to register
    refused,    \* whether its registration failed
    current,    \* state.service; 0 when the launch failed
    launched,   \* services launched so far
    lock,       \* who holds settings_lock
    overlapped, \* history: an edit or a restart began while the host still started
    status,     \* the service_status presented
    hotkeys,    \* the bindings the host believes it holds
    previous,   \* the ones it held when a thread prepared its own: Registration.previous
    os,         \* the shortcuts registered with the desktop
    stored,     \* the bindings the service has persisted
    denied      \* history: it persisted them, and answered the commit with an error

wire == <<channel, process, inbox, replies>>
threads == <<at, call, handle, draft, refused>>
owner == <<current, launched, lock, overlapped>>
shortcuts == <<hotkeys, previous, os, stored, denied>>
vars == <<wire, threads, owner, status, shortcuts>>

Init ==
    /\ channel = [s \in Service |-> [failure |-> FALSE, stopped |-> FALSE]]
    /\ inbox = [s \in Service |-> {}] /\ replies = [s \in Service |-> {}]
    /\ at = [t \in Thread |-> IF t = "startup" THEN "hello" ELSE "idle"]
    /\ call = [t \in Thread |-> "none"]
    /\ draft = [t \in Thread |-> {}] /\ refused = [t \in Thread |-> FALSE]
    /\ current \in {0, 1} /\ launched = current
    /\ process = [s \in Service |-> IF s = current THEN "running" ELSE "none"]
    /\ handle = [t \in Thread |-> IF t = "startup" THEN current ELSE 0]
    /\ lock = "none" /\ overlapped = FALSE /\ status = "starting"
    /\ hotkeys = {} /\ previous = [t \in Thread |-> {}] /\ os = {}
    /\ stored \in Bindings /\ denied = FALSE

-----------------------------------------------------------------------------
(* Service: request() and fail() *)

Requests == {"hello", "context", "state", "again", "prepare", "abort", "commit",
             "refresh", "shutdown"}
Answered == {"ok", "failed"}

Connected(s) == s # 0 /\ ~channel[s].stopped /\ ~channel[s].failure
Waiting(s) == {t \in Thread : call[t] = "waiting" /\ handle[t] = s}

Commits(s) == {frame \in inbox[s] : frame[2] = "commit"}

\* Of a channel that failed nothing that is read later finds its request, and of
\* what was written only a commit still has an effect.
Failed(s) ==
    /\ channel' = [channel EXCEPT ![s].failure = TRUE]
    /\ replies' = [replies EXCEPT ![s] = {}]
    /\ inbox' = [inbox EXCEPT ![s] = IF process[s] = "running" THEN Commits(s) ELSE {}]
    /\ status' = IF channel[s].failure \/ channel[s].stopped THEN status ELSE "failed"

FailLeavesOthers(s) ==    \* mutant: only the caller that timed out is answered
    Failed(s) /\ call' = [t \in Thread |-> IF t = "startup" /\ t \in Waiting(s) THEN "failed"
                                           ELSE call[t]]

\* Everybody who waits is answered, and the first failure is reported.
Fail(s) ==
    Failed(s) /\ call' = [t \in Thread |-> IF t \in Waiting(s) THEN "failed" ELSE call[t]]

\* bound: fewer than MAX_PENDING requests wait.
Request(t) ==
    /\ at[t] \in Requests /\ call[t] = "none"
    /\ IF Connected(handle[t])
         THEN /\ call' = [call EXCEPT ![t] = "waiting"]
              /\ inbox' = [inbox EXCEPT ![handle[t]] = @ \cup {<<t, at[t], draft[t]>>}]
         ELSE call' = [call EXCEPT ![t] = "failed"] /\ UNCHANGED inbox
    /\ UNCHANGED <<channel, process, replies, at, handle, draft, refused,
                   owner, status, shortcuts>>

\* An answer that is late can no longer be told from none: the session ends.
TimeOut(t) ==
    /\ call[t] = "waiting" /\ Fail(handle[t])
    /\ UNCHANGED <<process, at, handle, draft, refused, owner, shortcuts>>

\* What a process has not handled ends with it.
Ends(s) ==
    process' = [process EXCEPT ![s] = "exited"] /\ inbox' = [inbox EXCEPT ![s] = {}]

Proceed(t, step) ==
    at' = [at EXCEPT ![t] = step] /\ call' = [call EXCEPT ![t] = "none"]

-----------------------------------------------------------------------------
(* The service process, and the threads that watch over it *)

\* Python handles what it has read, waited for or not.  A commit persists the
\* candidate, or does not and says so; or it persists it and then fails, when the
\* same changes hold a recognizer and the runtime may not be composed anew yet.
ServiceHandles(s) ==
    /\ process[s] = "running"
    /\ \E frame \in inbox[s], answer \in Answered, persists \in BOOLEAN :
         LET method == frame[2]
             after == IF persists THEN frame[3] ELSE stored
             shown == IF method = "state" THEN stored ELSE {}
         IN  /\ persists => method = "commit"
             /\ answer = "failed" => method \in {"prepare", "commit"}
             /\ answer = "ok" /\ method = "commit" => persists
             /\ replies' = IF channel[s].failure THEN replies
                           ELSE [replies EXCEPT ![s] = @ \cup {<<frame[1], method, answer, shown>>}]
             /\ stored' = after
             /\ denied' = IF persists THEN answer = "failed" /\ (denied \/ after # stored)
                          ELSE denied
             /\ IF method = "shutdown" THEN Ends(s)
                ELSE inbox' = [inbox EXCEPT ![s] = @ \ {frame}] /\ UNCHANGED process
    /\ UNCHANGED <<channel, threads, owner, status, hotkeys, previous, os>>

ServiceDies(s) ==
    /\ process[s] = "running" /\ Ends(s)
    /\ UNCHANGED <<channel, replies, threads, owner, status, shortcuts>>

\* The reader thread: a reply finds its request, or breaks the protocol.  The
\* state a reply brings is what the one who asked wants registered.
ReadReply(s) ==
    /\ \E reply \in replies[s] :
         LET t == reply[1]
         IN  /\ IF t \in Waiting(s) /\ at[t] = reply[2]
                  THEN /\ replies' = [replies EXCEPT ![s] = @ \ {reply}]
                       /\ call' = [call EXCEPT ![t] = reply[3]]
                       /\ draft' = IF at[t] = "state" THEN [draft EXCEPT ![t] = reply[4]]
                                   ELSE draft
                       /\ UNCHANGED <<channel, inbox, status>>
                  ELSE Fail(s) /\ UNCHANGED draft
    /\ UNCHANGED <<process, at, handle, refused, owner, shortcuts>>

\* What it reads last is the end of the output, or a frame that is none.
ReadEnd(s) ==
    /\ process[s] # "none" /\ ~channel[s].failure /\ replies[s] = {}
    /\ Fail(s)
    /\ UNCHANGED <<process, at, handle, draft, refused, owner, shortcuts>>

WatchIdly(s) ==    \* mutant: an exit is watched for, a failure is not
    /\ process[s] = "exited" /\ process' = [process EXCEPT ![s] = "reaped"] /\ Fail(s)
    /\ UNCHANGED <<at, handle, draft, refused, owner, shortcuts>>

\* The watcher thread: it ends a service that failed, and reaps one that ended.
Watch(s) ==
    /\ \/ /\ process[s] = "running" /\ channel[s].failure /\ ~channel[s].stopped
          /\ Ends(s) /\ UNCHANGED <<channel, replies, call, status>>
       \/ /\ process[s] = "exited" /\ process' = [process EXCEPT ![s] = "reaped"]
          /\ Fail(s)
    /\ UNCHANGED <<at, handle, draft, refused, owner, shortcuts>>

-----------------------------------------------------------------------------
(* Service::stop(), which starts with the request "shutdown" *)

StopAsked(t) ==
    /\ at[t] = "shutdown" /\ call[t] \in Answered
    /\ channel' = [channel EXCEPT ![handle[t]].stopped = TRUE]
    /\ Proceed(t, "reaping")
    /\ UNCHANGED <<process, inbox, replies, handle, draft, refused, owner, status, shortcuts>>

StopKills(t) ==    \* ten seconds later
    /\ at[t] = "reaping" /\ process[handle[t]] = "running" /\ Ends(handle[t])
    /\ UNCHANGED <<channel, replies, threads, owner, status, shortcuts>>

StopReaps(t) ==
    /\ at[t] = "reaping" /\ process[handle[t]] \in {"exited", "reaped"}
    /\ process' = [process EXCEPT ![handle[t]] = "reaped"]
    /\ Fail(handle[t]) /\ at' = [at EXCEPT ![t] = "stopped"]
    /\ UNCHANGED <<handle, draft, refused, owner, shortcuts>>

-----------------------------------------------------------------------------
(* start_service(), in the startup thread and at the end of a restart *)

Started(t) == IF t = "retry" THEN "refresh" ELSE "idle"

\* The handshake and the context must succeed.
Handshake(t) ==
    /\ at[t] \in {"hello", "context"} /\ call[t] \in Answered
    /\ IF call[t] = "ok"
         THEN Proceed(t, IF at[t] = "hello" THEN "context" ELSE "state") /\ UNCHANGED status
         ELSE Proceed(t, Started(t)) /\ status' = "failed"
    /\ UNCHANGED <<wire, handle, draft, refused, owner, shortcuts>>

\* The state and the second context need not.
Configured(t) ==
    /\ at[t] \in {"state", "again"} /\ call[t] \in Answered
    /\ Proceed(t, IF at[t] = "state" /\ call[t] = "ok" THEN "register" ELSE "ready")
    /\ UNCHANGED <<wire, handle, draft, refused, owner, status, shortcuts>>

\* prepare(): what is new is registered, unless another application holds it, or
\* another thread of the host.  commit(): what is no longer bound is released;
\* abort(): what was registered.  bound: each of the three is one step.
New(t) == draft[t] \ hotkeys
Registers(t) ==
    /\ New(t) \cap os = {} /\ os' = os \cup New(t)
    /\ previous' = [previous EXCEPT ![t] = hotkeys]
Conflicts(t) == New(t) # {} /\ UNCHANGED <<os, previous>>

Added(t) == draft[t] \ previous[t]
Released(t) == previous[t] \ draft[t]
Commit(t) == hotkeys' = draft[t] /\ os' = os \ Released(t)
Abort(t) == os' = os \ Added(t) /\ UNCHANGED hotkeys

\* hotkeys::replace(), without the settings' lock
ReplacePrepared(t) ==
    /\ at[t] = "register"
    /\ \/ Proceed(t, "replacing") /\ Registers(t) /\ UNCHANGED refused
       \/ Proceed(t, "again") /\ Conflicts(t) /\ refused' = [refused EXCEPT ![t] = TRUE]
    /\ UNCHANGED <<wire, handle, draft, owner, status, hotkeys, stored, denied>>

ReplaceCommitted(t) ==
    /\ at[t] = "replacing" /\ Proceed(t, "again") /\ Commit(t)
    /\ UNCHANGED <<wire, handle, draft, refused, owner, status, previous, stored, denied>>

PresentReady(t) ==
    /\ at[t] = "ready" /\ Proceed(t, Started(t))
    /\ status' = IF refused[t] THEN "failed" ELSE "ready"
    /\ refused' = [refused EXCEPT ![t] = FALSE] /\ draft' = [draft EXCEPT ![t] = {}]
    /\ previous' = [previous EXCEPT ![t] = {}]
    /\ UNCHANGED <<wire, handle, owner, hotkeys, os, stored, denied>>

Start(t) == Handshake(t) \/ Configured(t) \/ ReplacePrepared(t) \/ ReplaceCommitted(t)
            \/ PresentReady(t)

-----------------------------------------------------------------------------
(* update_hotkeys(), in a worker of desktop_request() *)

EditAsked(t) ==
    /\ t = "edit" /\ at[t] = "idle" /\ current # 0
    /\ at' = [at EXCEPT ![t] = "queued"] /\ handle' = [handle EXCEPT ![t] = current]
    /\ draft' \in {[draft EXCEPT ![t] = bound] : bound \in Bindings}
    /\ UNCHANGED <<wire, call, refused, owner, status, shortcuts>>

\* Nothing keeps an edit or a restart from beginning while the host starts.
Overlaps == overlapped' = (overlapped \/ at["startup"] # "idle")

EditBegins(t) ==
    /\ t = "edit" /\ at[t] = "queued" /\ lock = "none"
    /\ lock' = t /\ at' = [at EXCEPT ![t] = "prepare"] /\ Overlaps
    /\ UNCHANGED <<wire, call, handle, draft, refused, current, launched, status, shortcuts>>

EditPrepared(t) ==
    /\ at[t] = "prepare" /\ call[t] \in Answered
    /\ IF call[t] = "ok"
         THEN \/ Registers(t) /\ Proceed(t, "commit")
              \/ Conflicts(t) /\ Proceed(t, "abort")
         ELSE Proceed(t, "release") /\ UNCHANGED <<os, previous>>
    /\ UNCHANGED <<wire, handle, draft, refused, owner, status, hotkeys, stored, denied>>

KeepsCandidate(t) ==    \* mutant: a refused commit leaves the new shortcuts registered
    /\ at[t] = "commit" /\ call[t] \in Answered
    /\ IF call[t] = "ok"
         THEN Commit(t) /\ Proceed(t, "refresh")
         ELSE Proceed(t, "abort") /\ UNCHANGED <<hotkeys, os>>
    /\ UNCHANGED <<wire, handle, draft, refused, owner, status, previous, stored, denied>>

\* The old shortcuts go once the new ones are persisted, or the new ones go.
EditCommitted(t) ==
    /\ at[t] = "commit" /\ call[t] \in Answered
    /\ IF call[t] = "ok"
         THEN Commit(t) /\ Proceed(t, "refresh")
         ELSE Abort(t) /\ Proceed(t, "abort")
    /\ UNCHANGED <<wire, handle, draft, refused, owner, status, previous, stored, denied>>

\* The transaction ends with the lock: at an error, or with the new state.
Settled(t) ==
    /\ at[t] \in {"abort", "refresh"} /\ call[t] \in Answered
    /\ Proceed(t, "release")
    /\ UNCHANGED <<wire, handle, draft, refused, owner, status, shortcuts>>

Release(t) ==
    /\ at[t] = "release" /\ Proceed(t, "idle") /\ lock' = "none"
    /\ draft' = [draft EXCEPT ![t] = {}] /\ handle' = [handle EXCEPT ![t] = 0]
    /\ previous' = [previous EXCEPT ![t] = {}]
    /\ UNCHANGED <<wire, refused, current, launched, overlapped, status, hotkeys, os, stored,
                   denied>>

Edit(t) == EditAsked(t) \/ EditBegins(t) \/ EditPrepared(t) \/ EditCommitted(t)
           \/ Settled(t) \/ Release(t)

-----------------------------------------------------------------------------
(* retry_service() and the exit *)

LaunchBeside(t) ==    \* mutant: the service that failed is not stopped first
    /\ t = "retry" /\ at[t] = "idle" /\ lock = "none" /\ launched < Services
    /\ ~Connected(current)
    /\ Overlaps /\ lock' = t /\ handle' = [handle EXCEPT ![t] = current]
    /\ at' = [at EXCEPT ![t] = "stopped"]
    /\ UNCHANGED <<wire, call, draft, refused, current, launched, status, shortcuts>>

\* A service that is connected is asked to retry: one request more (DesktopService).
\* bound: the host is asked to restart while it may launch one service more.
RetryBegins(t) ==
    /\ t = "retry" /\ at[t] = "idle" /\ lock = "none" /\ launched < Services
    /\ ~Connected(current)
    /\ Overlaps /\ lock' = t /\ handle' = [handle EXCEPT ![t] = current]
    /\ at' = [at EXCEPT ![t] = IF current # 0 THEN "shutdown" ELSE "stopped"]
    /\ UNCHANGED <<wire, call, draft, refused, current, launched, status, shortcuts>>

Relaunch(t) ==
    /\ t = "retry" /\ at[t] = "stopped"
    /\ \/ /\ launched' = launched + 1 /\ current' = launched'
          /\ process' = [process EXCEPT ![launched'] = "running"]
       \/ current' = 0 /\ UNCHANGED <<launched, process>>
    /\ at' = [at EXCEPT ![t] = "hello"] /\ handle' = [handle EXCEPT ![t] = current']
    /\ status' = "starting" /\ denied' = FALSE
    /\ UNCHANGED <<channel, inbox, replies, call, draft, refused, lock, overlapped,
                   hotkeys, previous, os, stored>>

\* The shortcuts are given back before the service is stopped.
Exit(t) ==
    /\ t = "exit" /\ at[t] = "idle" /\ os' = {}
    /\ at' = [at EXCEPT ![t] = IF current = 0 THEN "stopped" ELSE "shutdown"]
    /\ handle' = [handle EXCEPT ![t] = current]
    /\ UNCHANGED <<wire, call, draft, refused, owner, status, hotkeys, previous, stored, denied>>

\* The process ends, and every thread of it; a service reads the end of its input.
Gone == at["exit"] = "stopped"

-----------------------------------------------------------------------------
Alive(s) == Watch(s) \/ ReadReply(s)
Stop(t) == StopAsked(t) \/ StopKills(t) \/ StopReaps(t)

Next ==
    /\ ~Gone
    /\ \/ \E s \in Service : ServiceHandles(s) \/ ServiceDies(s) \/ ReadEnd(s) \/ Alive(s)
       \/ \E t \in Thread : Request(t) \/ TimeOut(t) \/ Stop(t) \/ Edit(t)
                             \/ RetryBegins(t) \/ Relaunch(t) \/ Exit(t)
       \/ \E t \in {"startup", "retry"} : Start(t)

\* The threads of the host run, and the timer of the last request fires; the
\* service owes nothing, and no caller is helped by its own timeout.
Fairness ==
    /\ \A s \in Service : WF_vars(~Gone /\ Alive(s))
    /\ WF_vars(~Gone /\ Stop("retry"))
    /\ WF_vars(~Gone /\ (Request("exit") \/ TimeOut("exit") \/ Stop("exit")))

Spec == Init /\ [][Next]_vars /\ Fairness

-----------------------------------------------------------------------------
(* Properties *)

\* The host owns one service: a restart launches the next one only when the
\* process of the last has been reaped.
OneService == Cardinality({s \in Service : process[s] \in {"running", "exited"}}) <= 1

\* A caller whose service ended is answered, without waiting for its timeout.
CallersReturn ==
    \A t \in Thread :
        (call[t] = "waiting" /\ process[handle[t]] # "running") ~> (call[t] # "waiting" \/ Gone)

\* A service that broke the protocol, or that did not answer in time, is ended
\* with its family and reaped; and so is the last one, at the exit.
FamilyEnds ==
    \A s \in Service :
        (channel[s].failure \/ (at["exit"] = "shutdown" /\ handle["exit"] = s))
            ~> (process[s] = "reaped" \/ Gone)

\* While the host is ready and nobody edits, the shortcuts the desktop knows,
\* the ones the host acts on and the ones the settings hold are the same: if no
\* edit and no restart has overlapped its start, and no commit was denied since.
RegisteredIsStored ==
    (/\ status = "ready" /\ lock = "none" /\ at["startup"] = "idle"
     /\ Connected(current) /\ at["exit"] = "idle" /\ ~overlapped /\ ~denied)
        => hotkeys = stored /\ os = stored
=============================================================================
