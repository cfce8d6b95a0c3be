-------------------------- MODULE LookupExecution --------------------------
(***************************************************************************)
(* The latest-wins lookup path of one desktop session:                     *)
(*   - LookupController: request ids, the current request, cancellation;   *)
(*   - JobExecutor: one worker thread, one pending slot, shutdown;         *)
(*   - the owner event loop that marshals answers to the thread that       *)
(*     presents them, with its bounded callback queue.                     *)
(*                                                                         *)
(* Two threads take the steps.  The OWNER runs the event loop: it submits, *)
(* invalidates, stops and presents, one call at a time (the controller's   *)
(* contract asks callers for that serialization).  The EXECUTOR thread     *)
(* builds the worker, runs jobs and posts their outcome.  A call that      *)
(* releases its lock half way is two steps, with ownerPc or thread saying  *)
(* where it stands.  Other producers of the loop (mouse listener, trace    *)
(* forwarder, engine reports) only appear as callbacks that take room.     *)
(***************************************************************************)
EXTENDS Naturals, Sequences

CONSTANTS MaxRequests,    \* bound: how many requests the owner makes
          QueueCapacity   \* MAX_QUEUED_CALLBACKS of the event loop

ASSUME BoundsAssumption == MaxRequests \in Nat /\ QueueCapacity \in Nat

VARIABLES
    \* LookupController
    nextRequestId,   \* _next_request_id
    current,         \* _current_request_id, 0 for None
    cancelled,       \* ids whose LookupRequest.cancel() was called
    started,         \* _started
    stopped,         \* _stopped
    \* the owner thread, between the two halves of submit() and of stop()
    ownerPc,         \* "idle", "submitting", "stopping"
    \* JobExecutor
    execState,       \* _state
    stopRequested,   \* _stop_requested
    pending,         \* _pending, 0 for _NO_ITEM
    workerReady,     \* _worker_ready
    readyEvent,      \* _ready_event.is_set()
    thread,          \* where the executor thread is
    item,            \* the request it is working on, 0 for none
    outcome,         \* what worker(item) did
    \* SerializedEventLoop
    callbacks,       \* _callbacks, oldest first
    \* history
    presented,       \* how often each request's answer reached on_result
    retired,         \* ids whose lookup child was told to close under them
    lost             \* ids whose answer a full callback queue refused

controllerVars == <<nextRequestId, current, cancelled, started, stopped>>
executorVars == <<execState, stopRequested, pending, workerReady, readyEvent>>
threadVars == <<thread, item, outcome>>
loopVars == <<callbacks, lost>>
vars == <<controllerVars, ownerPc, executorVars, threadVars, loopVars,
          presented, retired>>

None == 0
Request == 1..MaxRequests
OtherCallback == [kind |-> "other", id |-> None]
Callback == [kind : {"answer"}, id : Request]
               \cup [kind : {"init_error", "other"}, id : {None}]
ExecutorState == {"new", "running", "stopping", "stopped", "failed"}
ThreadStep == {"none", "constructing", "init_failed", "reporting_failure",
               "waiting", "working", "reporting", "closing", "close_failed",
               "finalizing", "ended"}

Init ==
    /\ nextRequestId = 1
    /\ current = None
    /\ cancelled = {}
    /\ started = FALSE
    /\ stopped = FALSE
    /\ ownerPc = "idle"
    /\ execState = "new"
    /\ stopRequested = FALSE
    /\ pending = None
    /\ workerReady = FALSE
    /\ readyEvent = FALSE
    /\ thread = "none"
    /\ item = None
    /\ outcome = "none"
    /\ callbacks = <<>>
    /\ presented = [r \in Request |-> 0]
    /\ lost = {}
    /\ retired = {}

-----------------------------------------------------------------------------
(* Event loop: post() admits a callback or raises EventLoopOverloaded,     *)
(* which every poster of this path swallows.                               *)

HasRoom == Len(callbacks) < QueueCapacity

PostAnswer(r) ==
    IF HasRoom
      THEN /\ callbacks' = Append(callbacks, [kind |-> "answer", id |-> r])
           /\ UNCHANGED lost
      ELSE /\ lost' = lost \cup {r}
           /\ UNCHANGED callbacks

PostOther ==
    /\ HasRoom
    /\ callbacks' = Append(callbacks, OtherCallback)
    /\ UNCHANGED <<controllerVars, ownerPc, executorVars, threadVars, lost,
                   presented, retired>>

-----------------------------------------------------------------------------
(* Owner thread *)

\* LookupController.start over JobExecutor.start; the OS may refuse the thread.
Start(threadStarts) ==
    /\ ownerPc = "idle"
    /\ ~started /\ ~stopped
    /\ execState = "new"
    /\ started' = threadStarts
    /\ execState' = IF threadStarts THEN "running" ELSE "failed"
    /\ thread' = IF threadStarts THEN "constructing" ELSE "none"
    /\ readyEvent' = ~threadStarts
    /\ UNCHANGED <<nextRequestId, current, cancelled, stopped, ownerPc,
                   stopRequested, pending, workerReady, item, outcome,
                   loopVars, presented, retired>>

\* _new_request: under the controller's lock, before the executor knows of it.
NewRequest ==
    /\ ownerPc = "idle"
    /\ ~stopped
    /\ nextRequestId <= MaxRequests
    /\ cancelled' = IF current = None THEN cancelled ELSE cancelled \cup {current}
    /\ current' = nextRequestId
    /\ nextRequestId' = nextRequestId + 1
    /\ ownerPc' = "submitting"
    /\ UNCHANGED <<started, stopped, executorVars, threadVars, loopVars, presented, retired>>

\* _dispatch: hand the request to the executor, replacing the one that waits,
\* or withdraw it when the executor refuses it.
SubmitAccepted ==
    /\ execState = "running"
    /\ pending' = nextRequestId - 1
    /\ UNCHANGED <<current, cancelled>>

\* Mutant: a refused request stays current.
RefusedStaysCurrent ==
    /\ execState # "running"
    /\ UNCHANGED <<current, cancelled, pending>>

SubmitRefused ==
    /\ execState # "running"
    /\ current' = IF current = nextRequestId - 1 THEN None ELSE current
    /\ cancelled' = cancelled \cup {nextRequestId - 1}
    /\ UNCHANGED pending

Dispatch ==
    /\ ownerPc = "submitting"
    /\ SubmitAccepted \/ SubmitRefused
    /\ ownerPc' = "idle"
    /\ UNCHANGED <<nextRequestId, started, stopped, execState, stopRequested,
                   workerReady, readyEvent, threadVars, loopVars, presented, retired>>

Invalidate ==
    /\ ownerPc = "idle"
    /\ current # None
    /\ cancelled' = cancelled \cup {current}
    /\ current' = None
    /\ UNCHANGED <<nextRequestId, started, stopped, ownerPc, executorVars,
                   threadVars, loopVars, presented, retired>>

\* Mutant: stop() forgets to withdraw the current request.
StopKeepsCurrent ==
    /\ ownerPc = "idle"
    /\ ~stopped
    /\ stopped' = TRUE
    /\ ownerPc' = "stopping"
    /\ UNCHANGED <<nextRequestId, current, cancelled, started, executorVars,
                   threadVars, loopVars, presented, retired>>

\* stop(), first half: under the controller's lock.
Stop ==
    /\ ownerPc = "idle"
    /\ ~stopped
    /\ stopped' = TRUE
    /\ cancelled' = IF current = None THEN cancelled ELSE cancelled \cup {current}
    /\ current' = None
    /\ ownerPc' = "stopping"
    /\ UNCHANGED <<nextRequestId, started, executorVars, threadVars, loopVars, presented, retired>>

\* stop(), second half: JobExecutor.shutdown(wait=False, cancel_pending).
ShutdownNew ==
    /\ execState = "new"
    /\ execState' = "stopped"
    /\ stopRequested' = TRUE
    /\ readyEvent' = TRUE
    /\ UNCHANGED pending

\* Mutant: the state changes but the waiting thread is not told.
ShutdownUnheard(cancelPending) ==
    /\ execState = "running"
    /\ execState' = "stopping"
    /\ pending' = IF cancelPending THEN None ELSE pending
    /\ UNCHANGED <<readyEvent, stopRequested>>

ShutdownRunning(cancelPending) ==
    /\ execState = "running"
    /\ execState' = "stopping"
    /\ stopRequested' = TRUE
    /\ pending' = IF cancelPending THEN None ELSE pending
    /\ UNCHANGED readyEvent

ShutdownOver ==
    /\ execState \notin {"new", "running"}
    /\ UNCHANGED <<execState, stopRequested, readyEvent, pending>>

Shutdown(cancelPending) ==
    /\ ownerPc = "stopping"
    /\ ShutdownNew \/ ShutdownRunning(cancelPending) \/ ShutdownOver
    /\ ownerPc' = "idle"
    /\ UNCHANGED <<controllerVars, workerReady, threadVars, loopVars, presented, retired>>

\* The final currency check of _deliver_if_current and deliver_error.
NeverStale(callback) == callback.kind = "answer"   \* mutant: no check

MayPresent(callback) == callback.kind = "answer" /\ callback.id = current

\* The loop runs its oldest callback.  An answer faces the final currency
\* check here, on the presenting thread, and is dropped when it fails it.
RunCallback ==
    /\ ownerPc = "idle"
    /\ callbacks # <<>>
    /\ callbacks' = Tail(callbacks)
    /\ presented' = IF MayPresent(Head(callbacks))
                      THEN [presented EXCEPT ![Head(callbacks).id] = @ + 1]
                      ELSE presented
    /\ UNCHANGED <<controllerVars, ownerPc, executorVars, threadVars, lost,
                   retired>>

OwnerStep ==
    \/ \E threadStarts \in BOOLEAN : Start(threadStarts)
    \/ NewRequest
    \/ Dispatch
    \/ Invalidate
    \/ Stop
    \/ \E cancelPending \in BOOLEAN : Shutdown(cancelPending)
    \/ RunCallback

-----------------------------------------------------------------------------
(* Executor thread: JobExecutor._run *)

\* Mutant: readiness is not signalled.
ConstructSilently ==
    /\ thread = "constructing"
    /\ thread' = "waiting"
    /\ workerReady' = TRUE
    /\ UNCHANGED <<controllerVars, ownerPc, execState, stopRequested, pending,
                   readyEvent, item, outcome, loopVars, presented, retired>>

ConstructWorker ==
    /\ thread = "constructing"
    /\ thread' = "waiting"
    /\ workerReady' = TRUE
    /\ readyEvent' = TRUE
    /\ UNCHANGED <<controllerVars, ownerPc, execState, stopRequested, pending,
                   item, outcome, loopVars, presented, retired>>

\* The factory raised: the executor is failed for good and its slot is emptied.
ConstructionFails ==
    /\ thread = "constructing"
    /\ thread' = "init_failed"
    /\ execState' = "failed"
    /\ stopRequested' = TRUE
    /\ pending' = None
    /\ readyEvent' = TRUE
    /\ UNCHANGED <<controllerVars, ownerPc, workerReady, item, outcome,
                   loopVars, presented, retired>>

\* _on_initialization_failure posts the cause on its own channel.
ReportInitialization ==
    /\ thread = "init_failed"
    /\ thread' = "reporting_failure"
    /\ callbacks' = IF HasRoom
                      THEN Append(callbacks, [kind |-> "init_error", id |-> None])
                      ELSE callbacks
    /\ UNCHANGED <<controllerVars, ownerPc, executorVars, item, outcome, lost,
                   presented, retired>>

\* _on_executor_error(None, error): an error with no item is charged to the
\* request that is current now, and to nobody when there is none.
ChargeAnyway == PostAnswer(current)   \* mutant: None is charged too

ChargeCurrent ==
    IF current = None THEN UNCHANGED loopVars ELSE PostAnswer(current)

ReportFactoryError ==
    /\ thread = "reporting_failure"
    /\ ChargeCurrent
    /\ thread' = "finalizing"
    /\ UNCHANGED <<controllerVars, ownerPc, executorVars, item, outcome, presented,
                   retired>>

\* Mutant: the slot is not emptied, so the same job is done again.
TakeKeepsSlot ==
    /\ thread = "waiting"
    /\ pending # None
    /\ item' = pending
    /\ thread' = "working"
    /\ UNCHANGED <<controllerVars, ownerPc, executorVars, outcome, loopVars, presented, retired>>

TakeItem ==
    /\ thread = "waiting"
    /\ pending # None
    /\ item' = pending
    /\ pending' = None
    /\ thread' = "working"
    /\ UNCHANGED <<controllerVars, ownerPc, execState, stopRequested, workerReady,
                   readyEvent, outcome, loopVars, presented, retired>>

\* The session takes the engine's child away (a stop's helper thread, the idle
\* expiry, a change of policy) whatever is asked of it: the closing child
\* cancels every lookup it still has, also one that nobody superseded.
RetireChild ==
    /\ thread = "working"
    /\ item \notin retired
    /\ retired' = retired \cup {item}
    /\ UNCHANGED <<controllerVars, ownerPc, executorVars, threadVars, loopVars, presented>>

\* worker(item) returns, raises, or raises LookupCancelled: the request was
\* superseded, or its child retired.
FinishItem(how) ==
    /\ thread = "working"
    /\ how = "cancelled" => item \in cancelled \cup retired
    /\ outcome' = how
    /\ thread' = "reporting"
    /\ UNCHANGED <<controllerVars, ownerPc, executorVars, item, loopVars, presented, retired>>

\* Mutant: a worker failure is not reported.
ReportResultsOnly ==
    /\ thread = "reporting"
    /\ IF outcome = "result" THEN PostAnswer(item) ELSE UNCHANGED loopVars
    /\ thread' = "waiting"
    /\ item' = None
    /\ outcome' = "none"
    /\ UNCHANGED <<controllerVars, ownerPc, executorVars, presented, retired>>

\* _on_executor_result drops the answer of a cancelled request here already;
\* _on_executor_error drops only LookupCancelled.
Report ==
    /\ thread = "reporting"
    /\ IF outcome = "cancelled" \/ (outcome = "result" /\ item \in cancelled)
         THEN UNCHANGED loopVars
         ELSE PostAnswer(item)
    /\ thread' = "waiting"
    /\ item' = None
    /\ outcome' = "none"
    /\ UNCHANGED <<controllerVars, ownerPc, executorVars, presented, retired>>

\* Asked to stop and nothing left to drain: leave the loop and close the worker.
LeaveLoop ==
    /\ thread = "waiting"
    /\ pending = None
    /\ stopRequested
    /\ thread' = "closing"
    /\ UNCHANGED <<controllerVars, ownerPc, executorVars, item, outcome, loopVars, presented, retired>>

CloseWorker(fails) ==
    /\ thread = "closing"
    /\ thread' = IF fails THEN "close_failed" ELSE "finalizing"
    /\ UNCHANGED <<controllerVars, ownerPc, executorVars, item, outcome, loopVars, presented, retired>>

ReportCloseError ==
    /\ thread = "close_failed"
    /\ ChargeCurrent
    /\ thread' = "finalizing"
    /\ UNCHANGED <<controllerVars, ownerPc, executorVars, item, outcome, presented,
                   retired>>

Finalize ==
    /\ thread = "finalizing"
    /\ thread' = "ended"
    /\ workerReady' = FALSE
    /\ readyEvent' = TRUE
    /\ execState' = IF execState = "failed" THEN "failed" ELSE "stopped"
    /\ stopRequested' = TRUE
    /\ pending' = None
    /\ UNCHANGED <<controllerVars, ownerPc, item, outcome, loopVars, presented, retired>>

ExecutorStep ==
    \/ ConstructWorker
    \/ ConstructionFails
    \/ ReportInitialization
    \/ ReportFactoryError
    \/ TakeItem
    \/ \E how \in {"result", "error", "cancelled"} : FinishItem(how)
    \/ Report
    \/ LeaveLoop
    \/ \E fails \in BOOLEAN : CloseWorker(fails)
    \/ ReportCloseError
    \/ Finalize

Next == OwnerStep \/ ExecutorStep \/ PostOther \/ RetireChild

\* The executor thread keeps running (a job ends: providers return, or their
\* child dies and its pipe closes), the owner finishes the call it is in and
\* keeps draining its callbacks.  Nothing makes a user start, ask, invalidate
\* or stop.
Fairness ==
    /\ WF_vars(ExecutorStep)
    /\ WF_vars(Dispatch)
    /\ WF_vars(\E cancelPending \in BOOLEAN : Shutdown(cancelPending))
    /\ WF_vars(RunCallback)

Spec == Init /\ [][Next]_vars /\ Fairness

-----------------------------------------------------------------------------
(* Properties *)

\* Every variable keeps the range its Python attribute has.
TypeOK ==
    /\ nextRequestId \in 1..(MaxRequests + 1)
    /\ current \in Request \cup {None}
    /\ cancelled \subseteq Request
    /\ started \in BOOLEAN /\ stopped \in BOOLEAN
    /\ ownerPc \in {"idle", "submitting", "stopping"}
    /\ execState \in ExecutorState
    /\ stopRequested \in BOOLEAN
    /\ pending \in Request \cup {None}
    /\ workerReady \in BOOLEAN /\ readyEvent \in BOOLEAN
    /\ thread \in ThreadStep
    /\ item \in Request \cup {None}
    /\ outcome \in {"none", "result", "error", "cancelled"}
    /\ callbacks \in Seq(Callback) /\ Len(callbacks) <= QueueCapacity
    /\ presented \in [Request -> Nat]
    /\ lost \subseteq Request /\ retired \subseteq Request

\* Whatever the executor still reports, an answer that reaches the popup is the
\* answer of the latest request, that request was never superseded, invalidated
\* or refused, and it is answered for the first time.  (controller.py: result
\* currency is decided on the presenting thread, after marshalling.)
PresentsOnlyTheLatest ==
    [][\A r \in Request : presented'[r] # presented[r] =>
          /\ r = nextRequestId - 1
          /\ r \notin cancelled
          /\ presented[r] = 0 /\ presented'[r] = 1]_vars

\* A request the client believes current is always somewhere: in the slot, at
\* the worker, on its way to the owner, already answered, about to be charged
\* with the factory's failure, or refused by an overloaded event loop.  None is
\* silently forgotten, whatever stop, failure or replacement happens meanwhile,
\* unless its child was retired under it: _on_executor_error takes the child's
\* LookupCancelled for a supersession and drops it.
CurrentIsTracked ==
    current # None /\ ownerPc = "idle" =>
       \/ current \in {pending, item}
       \/ thread \in {"init_failed", "reporting_failure"}
       \/ \E i \in DOMAIN callbacks : callbacks[i] = [kind |-> "answer", id |-> current]
       \/ presented[current] > 0
       \/ current \in lost \cup retired

\* JobExecutor reports a worker whose close() fails as an error with no item,
\* and the controller charges such an error to the current request: it must
\* find none, or the user would read a cleanup failure as an answer.
CloseErrorChargesNobody ==
    thread \in {"closing", "close_failed"} => current = None

\* A job is never handed to the worker twice and never after a later one.
SlotHoldsTheNewest == pending # None /\ item # None => item < pending

\* The two threads, the slot and the queue together implement the promise.
Promise == INSTANCE LatestAnswer WITH
              asked <- nextRequestId - 1, answers <- presented

ImplementsPromise == Promise!Spec

\* A current request ends: it is answered, given up by its client, its answer
\* was refused by a full event loop, or its child was retired under it.
CurrentIsSettled ==
    \A r \in Request :
       current = r ~> (current # r \/ presented[r] > 0 \/ r \in lost \cup retired)

\* wait_until_ready(None) always returns once the executor was started or stopped.
WaitersAreWoken == (execState # "new") ~> readyEvent

\* stop() ends the executor thread, so join() returns and the worker is closed.
StopEndsThread == stopped ~> thread \in {"none", "ended"}
=============================================================================
