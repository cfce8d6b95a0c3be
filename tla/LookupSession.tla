---------------------------- MODULE LookupSession ----------------------------
(***************************************************************************)
(* ManualLookupRuntime over a LookupEngine: when providers are loaded and  *)
(* given back over one desktop session.                                    *)
(*                                                                         *)
(* The owner thread runs the session's operations one at a time.  It calls *)
(* into the engine (LookupEngine), hands retirement to a thread of its own,*)
(* and feeds the executor thread Exec.  The two retirements the owner      *)
(* waits for itself are steps of the engine thread Owner.                  *)
(***************************************************************************)
EXTENDS LookupEngine

CONSTANT Owner            \* the owner loop's thread, one of Helpers

ASSUME SessionAssumption == Owner \in Helpers

VARIABLES
    session,      \* "new", then "prepared" (_prepared), then "closed" (_closed)
    watching,     \* _started
    policy,       \* _preload
    retiring,     \* _retiring
    timer,        \* whether _idle_timer is armed
    pending,      \* whether the executor's slot holds a live request
    installer,    \* where a resource update is: before, in or after its wait for the worker
    stopped,      \* history: no request for residency since the last Stop
    reached       \* history: no request was beyond the reach of that Stop

sessionVars == <<session, watching, policy, retiring, timer, pending, installer>>
historyVars == <<stopped, reached>>
svars == <<evars, sessionVars, historyVars>>

Policy == {"always", "when_capture_starts", "on_demand"}

Init ==
    /\ EngineInit
    /\ session = "new" /\ watching = FALSE
    /\ policy \in Policy
    /\ retiring = FALSE /\ timer = FALSE /\ pending = FALSE
    /\ installer = "idle"
    /\ stopped = FALSE /\ reached = TRUE

Background == Helpers \ {Owner}

\* What the executor thread is doing that a Stop cannot cancel any more: an
\* attach() that has no epoch, or a lookup between its cancellation check and
\* the reading of its epoch.
OutOfReach == pc[Exec] \in {"new", "entered"} \/ goal[Exec] = "attach"

\* engine.prepare(), as called by the owner.
PrepareResident ==
    IF closed \/ Ready(process)
      THEN UNCHANGED threadVars
      ELSE \E t \in Background :
              pc[t] = "idle" /\ Begin(t, "ensure", "prepare", wake)

OwnerFree(s) == session = s /\ pc[Owner] = "idle"

NothingElse == UNCHANGED <<state, generation, wake, closed, process, shown, childVars>>

-----------------------------------------------------------------------------
(* The session's operations *)

\* prepare(): the policy is applied, then the executor thread is started.
PrepareSession ==
    /\ OwnerFree("new")
    /\ session' = "prepared"
    /\ IF policy = "always" THEN PrepareResident ELSE UNCHANGED threadVars
    /\ NothingElse
    /\ UNCHANGED <<budget, blocked, recoveries, watching, policy, retiring, timer,
                   pending, installer, historyVars>>

\* controller.invalidate() cancels the request in the slot; controller.stop()
\* empties it.
Discard == pending' = FALSE

\* start(): hover may refuse to start, which shuts the session down.
Start ==
    /\ OwnerFree("prepared") /\ ~watching
    /\ Room(1)
    /\ timer' = FALSE
    /\ BudgetReset
    /\ IF policy # "on_demand" THEN PrepareResident ELSE UNCHANGED threadVars
    /\ \/ watching' = TRUE /\ UNCHANGED <<session, retiring, pending>>
       \/ /\ watching' = FALSE /\ session' = "closed" /\ retiring' = FALSE
          /\ Discard
    /\ stopped' = FALSE
    /\ NothingElse
    /\ UNCHANGED <<policy, installer, reached>>

StopKeepsResident ==    \* mutant: the engine is not retired
    /\ watching' = FALSE /\ retiring' = TRUE /\ timer' = FALSE
    /\ Discard
    /\ stopped' = TRUE /\ reached' = ~OutOfReach
    /\ NothingElse
    /\ UNCHANGED <<budget, blocked, recoveries, threadVars, session, policy>>

\* stop(): retire() runs on a thread of its own.
StopWatching ==
    /\ watching' = FALSE /\ retiring' = TRUE /\ timer' = FALSE
    /\ Discard
    /\ \E t \in Background : pc[t] = "idle" /\ Begin(t, "retire", "stop", AnyWake)
    /\ stopped' = TRUE /\ reached' = ~OutOfReach
    /\ NothingElse
    /\ UNCHANGED <<budget, blocked, recoveries, session, policy>>

StopSession ==
    /\ OwnerFree("prepared") /\ Room(1)
    /\ StopWatching
    /\ UNCHANGED installer

\* _settle_stop, on the retiring thread.
SettleStop(t) ==
    /\ Settle(t)
    /\ retiring' = (retiring /\ goal[t] # "stop")
    /\ UNCHANGED <<session, watching, policy, timer, pending, installer, historyVars>>

\* _arm_idle_expiry
ArmIdleExpiry == timer' = (timer \/ (~watching /\ policy # "always"))

\* lookup_at_cursor() with nothing watching, or a hover submission while watching.
RequestLookup ==
    /\ OwnerFree("prepared")
    /\ pc[Exec] # "ended"
    /\ pending' = TRUE
    /\ ArmIdleExpiry
    /\ stopped' = FALSE
    /\ UNCHANGED <<evars, session, watching, policy, retiring, installer, reached>>

\* The executor thread takes the request; it was not cancelled.
TakeRequest ==
    /\ pending /\ Room(1)
    /\ Lookup
    /\ pending' = FALSE
    /\ UNCHANGED <<session, watching, policy, retiring, timer, installer, historyVars>>

\* _idle_expired with nothing used for long enough: the owner retires the engine.
IdleExpired ==
    /\ OwnerFree("prepared") /\ Room(1)
    /\ timer /\ ~watching
    /\ timer' = FALSE
    /\ Begin(Owner, "retire", "release", AnyWake)
    /\ UNCHANGED <<engineVars, shown, childVars, session, watching, policy, retiring,
                   pending, installer, historyVars>>

\* _apply_preload_change
SetPolicy(p) ==
    /\ OwnerFree("prepared") /\ Room(1)
    /\ p # policy
    /\ policy' = p
    /\ CASE p = "always" -> PrepareResident
         [] p # "always" /\ ~watching /\ ~timer ->
               Begin(Owner, "retire", "release", AnyWake)
         [] OTHER -> UNCHANGED threadVars
    /\ stopped' = (stopped /\ p # "always")
    /\ NothingElse
    /\ UNCHANGED <<budget, blocked, recoveries, session, watching, retiring, timer,
                   pending, installer, reached>>

\* begin_shutdown()
ShutDown ==
    /\ OwnerFree("prepared")
    /\ session' = "closed" /\ watching' = FALSE /\ retiring' = FALSE /\ timer' = FALSE
    /\ Discard
    /\ UNCHANGED <<evars, policy, installer, historyVars>>

-----------------------------------------------------------------------------
(* A resource update waits for the lookup worker (before_install). *)

InstallBegins ==
    /\ installer = "idle"
    /\ OwnerFree("prepared") /\ Room(1)
    /\ StopWatching
    /\ installer' = "waiting"

\* await_shutdown answers whether the executor thread ended within 30 seconds;
\* if it did not, the installation fails before it touches a file.
WaitEnds ==
    /\ installer = "waiting"
    /\ installer' = IF pc[Exec] = "ended" THEN "installing" ELSE "failed"
    /\ UNCHANGED <<evars, session, watching, policy, retiring, timer, pending,
                   historyVars>>

-----------------------------------------------------------------------------
(* The engine's own steps, and the executor thread's around them. *)

\* The executor thread runs once the session is prepared, and leaves its loop
\* once the session is closed.
ExecutorSteps ==
    \/ session # "new" /\ Attach(policy = "always")
    \/ session = "closed" /\ LeaveLoop
    \/ Close
    \/ Replied(Exec)

EngineSteps ==
    /\ \/ \E t \in Thread : EngineThread(t)
       \/ \E g \in Generation : EngineReader(g) \/ ChildBuilt(g)
       \/ \E g \in Generation : Room(1) /\ (ChildFailed(g) \/ ChildCrashes(g))
       \/ ExecutorSteps
    /\ UNCHANGED <<sessionVars, historyVars>>

OwnerSteps ==
    \/ PrepareSession \/ Start \/ StopSession \/ RequestLookup \/ IdleExpired
    \/ \E p \in Policy : SetPolicy(p)
    \/ ShutDown \/ InstallBegins

SessionNext ==
    \/ OwnerSteps
    \/ TakeRequest \/ WaitEnds
    \/ \E t \in Helpers : SettleStop(t)
    \/ EngineSteps

ThreadStep(t) == EngineThread(t) /\ EngineSteps
ReaderStep(g) == EngineReader(g) /\ EngineSteps

SessionFairness ==
    /\ \A t \in Thread : WF_svars(ThreadStep(t))
    /\ \A t \in Helpers : WF_svars(SettleStop(t))
    /\ \A g \in Generation : WF_svars(ReaderStep(g))
    /\ WF_svars((Attach(policy = "always") \/ LeaveLoop \/ Close \/ Replied(Exec)) /\ EngineSteps)

SessionSpec == Init /\ [][SessionNext]_svars /\ SessionFairness

-----------------------------------------------------------------------------
(* Properties *)

StopUnderWay == \E t \in Helpers : goal[t] = "stop"

\* A finished Stop that reached every request is final: whatever was queued
\* behind it, no child becomes resident until the user asks for something again.
NothingLoadsAfterStop ==
    [][stopped /\ reached /\ ~StopUnderWay => process' \in {process, NoChild}]_svars

\* Stop gives the providers back, also those of a child that was still loading:
\* once every thread is done with it, nothing is left running.
StopReleases ==
    stopped /\ reached /\ (\A t \in Thread : pc[t] \in {"idle", "asking", "ended"})
        => alive = {}

\* And it comes to that: a child that was still loading reports or is given up, is
\* found to be superseded, and is closed, whatever is queued behind it, unless the
\* user asks for something first.
StopCompletes == stopped /\ reached ~> alive = {} \/ ~(stopped /\ reached)
=============================================================================
