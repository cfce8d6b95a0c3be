---------------------------- MODULE LookupEngine ----------------------------
(***************************************************************************)
(* Provider residency: LookupEngine and the LookupProcess children it      *)
(* starts, retires and replaces.                                           *)
(*                                                                         *)
(* The engine is shared by the executor thread (Exec), which attaches it,  *)
(* looks words up through it and closes it, and by short-lived helper      *)
(* threads that prepare, recover or retire it.  Its state lock is held     *)
(* only for single steps; its start lock is held by one thread across the  *)
(* whole load of a child.  pc[t] says where thread t is, goal[t] why.      *)
(* A child is named by the generation it was started for.  Each child has  *)
(* a reader thread in the parent that sees it die and reports it.          *)
(***************************************************************************)
EXTENDS Integers, FiniteSets

CONSTANTS Helpers,          \* bound: helper threads alive at the same time
          Exec,             \* the executor thread
          MaxGeneration,    \* bound: generations of one session
          RecoveryBudget,   \* DEFAULT_RECOVERY_BUDGET
          Faulty            \* bound: children that may fail, crash or load too long

ASSUME EngineAssumption ==
    /\ Exec \notin Helpers
    /\ MaxGeneration \in Nat
    /\ RecoveryBudget \in Nat
    /\ Faulty \subseteq 1..MaxGeneration

VARIABLES
    state,         \* _state
    generation,    \* _generation
    wake,          \* _wake
    budget,        \* _budget
    blocked,       \* _blocked
    closed,        \* _closed
    process,       \* generation of _process, NoChild for None
    shown,         \* the state last reported through on_state
    pc, goal,      \* where each thread is, and what for
    asked,         \* the residency epoch its request was made in
    gen,           \* the child it is starting, closing or asking
    alive,         \* children whose operating-system process runs
    told,          \* what each child reported of its construction
    gone,          \* children whose LookupProcess is retired (_gone)
    stopping,      \* children that were asked to stop (_stopping)
    reader,        \* where each child's reader thread is
    recoveries     \* history: recoveries since the last deliberate activation

engineVars == <<state, generation, wake, budget, blocked, closed, process,
                recoveries>>
threadVars == <<pc, goal, asked, gen>>
childVars == <<alive, told, gone, stopping, reader>>
evars == <<engineVars, shown, threadVars, childVars>>

Thread == Helpers \cup {Exec}
Generation == 1..MaxGeneration
NoChild == 0
AnyWake == -1      \* attach() asks for residency whatever the epoch

\* The steps during which a thread holds the start lock.
Locked == {"locked", "spawning", "starting", "giving_up", "failing",
           "announce_error", "publishing", "stale", "announce_ready"}
EngineState == {"sleeping", "preparing", "ready", "error"}
Step == Locked \cup {"new", "idle", "entered", "ensure", "lock", "have", "asking", "close",
                     "retire", "closing", "announce_sleep", "announce_loss",
                     "settle", "ended"}
Goal == {"none", "attach", "prepare", "recover", "lookup", "stop", "release", "close"}

EngineInit ==
    /\ state = "sleeping" /\ shown = "sleeping"
    /\ generation = 0 /\ wake = 0
    /\ budget = RecoveryBudget /\ blocked = FALSE /\ recoveries = 0
    /\ closed = FALSE
    /\ process = NoChild
    /\ pc = [t \in Thread |-> IF t = Exec THEN "new" ELSE "idle"]
    /\ goal = [t \in Thread |-> "none"]
    /\ asked = [t \in Thread |-> AnyWake]
    /\ gen = [t \in Thread |-> NoChild]
    /\ alive = {}
    /\ told = [g \in Generation |-> "nothing"]
    /\ gone = {}
    /\ stopping = {}
    /\ reader = [g \in Generation |-> "none"]

\* LookupProcess.ready
Ready(g) == g # NoChild /\ told[g] = "ready" /\ g \notin gone

(* How a thread moves: on to a step, with a child in hand, or out of its call. *)

MoveWith(t, step, g) ==
    /\ pc' = [pc EXCEPT ![t] = step]
    /\ gen' = [gen EXCEPT ![t] = g]
    /\ UNCHANGED <<goal, asked>>

Move(t, step) == MoveWith(t, step, gen[t])

Begin(t, step, why, epoch) ==
    /\ pc' = [pc EXCEPT ![t] = step]
    /\ goal' = [goal EXCEPT ![t] = why]
    /\ asked' = [asked EXCEPT ![t] = epoch]
    /\ gen' = [gen EXCEPT ![t] = NoChild]

Leave(t) == Begin(t, "idle", "none", AnyWake)

\* _ensure returns the child: only a lookup has a use for it.
Return(t, g) == IF goal[t] = "lookup" THEN MoveWith(t, "have", g) ELSE Leave(t)

\* _ensure raises.  A failed attach() is a failed worker factory: the executor
\* thread ends there and has no worker to close.
Raise(t) ==
    IF goal[t] = "attach" THEN Begin(t, "ended", "none", AnyWake) ELSE Leave(t)

-----------------------------------------------------------------------------
(* Requests for residency *)

\* attach(), on the executor thread; eager is what set_preload() recorded last.
Attach(eager) ==
    /\ pc[Exec] = "new"
    /\ IF eager THEN Begin(Exec, "ensure", "attach", AnyWake) ELSE Leave(Exec)
    /\ UNCHANGED <<engineVars, shown, childVars>>

\* prepare(): nothing to do when closed or resident, else a helper thread.
Prepare(t) ==
    /\ pc[t] = "idle"
    /\ ~closed /\ ~Ready(process)
    /\ Begin(t, "ensure", "prepare", wake)
    /\ UNCHANGED <<engineVars, shown, childVars>>

\* __call__(item): an item that was not cancelled enters the worker; then the
\* epoch is read.
Lookup ==
    /\ pc[Exec] = "idle"
    /\ Begin(Exec, "entered", "lookup", AnyWake)
    /\ UNCHANGED <<engineVars, shown, childVars>>

ReadEpoch(t) ==
    /\ pc[t] = "entered"
    /\ Begin(t, "ensure", goal[t], wake)
    /\ UNCHANGED <<engineVars, shown, childVars>>

\* reset_recovery_budget(): a deliberate activation.
BudgetReset == budget' = RecoveryBudget /\ blocked' = FALSE /\ recoveries' = 0

ResetBudget ==
    /\ BudgetReset
    /\ UNCHANGED <<state, generation, wake, closed, process, shown,
                   threadVars, childVars>>

\* _ensure up to the start lock.
Ensure(t) ==
    /\ pc[t] = "ensure"
    /\ IF closed \/ blocked THEN Raise(t)
       ELSE IF Ready(process) THEN Return(t, process)
       ELSE Move(t, "lock")
    /\ UNCHANGED <<engineVars, shown, childVars>>

AcquireStartLock(t) ==
    /\ pc[t] = "lock"
    /\ \A u \in Thread : pc[u] \notin Locked
    /\ Move(t, "locked")
    /\ UNCHANGED <<engineVars, shown, childVars>>

-----------------------------------------------------------------------------
(* Starting a child, with the start lock held *)

NeverUnwanted(t) == closed   \* mutant: the epoch is not checked

\* The last check before the spawn: the request is older than the last stop.
Unwanted(t) == closed \/ (asked[t] # AnyWake /\ asked[t] # wake)

StartNow(t) ==
    /\ pc[t] = "locked"
    /\ IF Ready(process)
         THEN Return(t, process) /\ UNCHANGED <<generation, state>>
       ELSE IF Unwanted(t)
         THEN Raise(t) /\ UNCHANGED <<generation, state>>
         ELSE /\ generation < MaxGeneration
              /\ generation' = generation + 1
              /\ state' = "preparing"
              /\ MoveWith(t, "spawning", generation + 1)
    /\ UNCHANGED <<recoveries, wake, budget, blocked, closed, process, shown, childVars>>

\* LookupProcess.start(): the spawn itself may fail.
Spawn(t) ==
    /\ pc[t] = "spawning"
    /\ shown' = "preparing"
    /\ \/ /\ alive' = alive \cup {gen[t]}
          /\ reader' = [reader EXCEPT ![gen[t]] = "reading"]
          /\ Move(t, "starting")
       \/ /\ gen[t] \in Faulty
          /\ Move(t, "failing")
          /\ UNCHANGED <<alive, reader>>
    /\ UNCHANGED <<engineVars, told, gone, stopping>>

WaitForever(t) ==    \* mutant: no limit on the wait, and _retire does not end it
    /\ pc[t] = "starting"
    /\ told[gen[t]] # "nothing"
    /\ IF told[gen[t]] = "ready"
         THEN Move(t, "publishing") /\ UNCHANGED stopping
         ELSE Move(t, "giving_up") /\ stopping' = stopping \cup {gen[t]}
    /\ UNCHANGED <<engineVars, shown, alive, told, gone, reader>>

\* The wait for readiness ends: the child reported, or is gone, or took too
\* long.  Only a child that reported itself ready is worth publishing.
AwaitReady(t) ==
    /\ pc[t] = "starting"
    /\ IF told[gen[t]] = "ready"
         THEN Move(t, "publishing") /\ UNCHANGED stopping
         ELSE /\ gen[t] \in Faulty \/ gen[t] \in gone
              /\ Move(t, "giving_up")
              /\ stopping' = stopping \cup {gen[t]}
    /\ UNCHANGED <<engineVars, shown, alive, told, gone, reader>>

\* close(): the child is joined, terminated or killed, then retired.
ChildClosed(g) ==
    /\ alive' = alive \ {g}
    /\ gone' = gone \cup {g}

GiveUp(t) ==
    /\ pc[t] = "giving_up"
    /\ ChildClosed(gen[t])
    /\ Move(t, "failing")
    /\ UNCHANGED <<engineVars, shown, told, stopping, reader>>

\* Whether the child this thread started is no longer the one in charge.
Superseded(t) == gen[t] # generation \/ closed

\* _fail
Fail(t) ==
    /\ pc[t] = "failing"
    /\ IF Superseded(t)
         THEN Raise(t) /\ UNCHANGED <<process, state>>
         ELSE /\ process' = NoChild
              /\ state' = "error"
              /\ Move(t, "announce_error")
    /\ UNCHANGED <<recoveries, generation, wake, budget, blocked, closed, shown, childVars>>

AnnounceError(t) ==
    /\ pc[t] = "announce_error"
    /\ shown' = "error"
    /\ Raise(t)
    /\ UNCHANGED <<engineVars, childVars>>

PublishAnyway(t) ==    \* mutant: a retired child is published
    /\ pc[t] = "publishing"
    /\ process' = gen[t]
    /\ state' = "ready"
    /\ Move(t, "announce_ready")
    /\ UNCHANGED <<recoveries, generation, wake, budget, blocked, closed, shown, childVars>>

Publish(t) ==
    /\ pc[t] = "publishing"
    /\ IF Superseded(t)
         THEN /\ Move(t, "stale")
              /\ stopping' = stopping \cup {gen[t]}
              /\ UNCHANGED <<process, state>>
         ELSE /\ process' = gen[t]
              /\ state' = "ready"
              /\ Move(t, "announce_ready")
              /\ UNCHANGED stopping
    /\ UNCHANGED <<recoveries, generation, wake, budget, blocked, closed, shown,
                   alive, told, gone, reader>>

AnnounceReady(t) ==
    /\ pc[t] = "announce_ready"
    /\ shown' = "ready"
    /\ Return(t, gen[t])
    /\ UNCHANGED <<engineVars, childVars>>

DropStale(t) ==    \* mutant: the superseded child is dropped, not closed
    /\ pc[t] = "stale"
    /\ Raise(t)
    /\ UNCHANGED <<engineVars, shown, childVars>>

CloseStale(t) ==
    /\ pc[t] = "stale"
    /\ ChildClosed(gen[t])
    /\ Raise(t)
    /\ UNCHANGED <<engineVars, shown, told, stopping, reader>>

-----------------------------------------------------------------------------
(* Looking a word up in the child *)

\* _require_transport and _register: refused once the child is gone.
Register(t) ==
    /\ pc[t] = "have"
    /\ IF gen[t] \in gone THEN Leave(t) ELSE Move(t, "asking")
    /\ UNCHANGED <<engineVars, shown, childVars>>

\* The child replies, with a result or an error.
Replied(t) ==
    /\ pc[t] = "asking"
    /\ gen[t] \in alive
    /\ Leave(t)
    /\ UNCHANGED <<engineVars, shown, childVars>>

\* _retire sets every waiter: the lookup raises.
Released(t) ==
    /\ pc[t] = "asking"
    /\ gen[t] \in gone
    /\ Leave(t)
    /\ UNCHANGED <<engineVars, shown, childVars>>

-----------------------------------------------------------------------------
(* Retiring *)

\* retire(), off the thread that asked for it.
Stop(t) ==
    /\ pc[t] = "idle"
    /\ Begin(t, "retire", "stop", AnyWake)
    /\ UNCHANGED <<engineVars, shown, childVars>>

\* The executor leaves its loop and closes its worker.
LeaveLoop ==
    /\ pc[Exec] = "idle"
    /\ Begin(Exec, "close", "close", AnyWake)
    /\ UNCHANGED <<engineVars, shown, childVars>>

\* close()
Close ==
    /\ pc[Exec] = "close"
    /\ closed' = TRUE
    /\ Move(Exec, IF closed THEN "ended" ELSE "retire")
    /\ UNCHANGED <<recoveries, state, generation, wake, budget, blocked, process,
                   shown, childVars>>

SameEpoch == UNCHANGED wake   \* mutant: queued preparations stay valid

NewEpoch == wake' = wake + 1

AfterRetire(t) == IF goal[t] = "close" THEN "ended" ELSE "settle"

Retire(t) ==
    /\ pc[t] = "retire"
    /\ generation < MaxGeneration
    /\ generation' = generation + 1
    /\ NewEpoch
    /\ process' = NoChild
    /\ state' = "sleeping"
    /\ stopping' = stopping \cup ({process} \ {NoChild})
    /\ MoveWith(t, CASE process # NoChild -> "closing"
                     [] process = NoChild /\ state # "sleeping" -> "announce_sleep"
                     [] OTHER -> AfterRetire(t),
                process)
    /\ UNCHANGED <<recoveries, budget, blocked, closed, shown,
                   alive, told, gone, reader>>

CloseRetired(t) ==
    /\ pc[t] = "closing"
    /\ ChildClosed(gen[t])
    /\ Move(t, "announce_sleep")
    /\ UNCHANGED <<engineVars, shown, told, stopping, reader>>

AnnounceSleep(t) ==
    /\ pc[t] = "announce_sleep"
    /\ shown' = "sleeping"
    /\ Move(t, AfterRetire(t))
    /\ UNCHANGED <<engineVars, childVars>>

\* retire() has returned to its caller.
Settle(t) ==
    /\ pc[t] = "settle"
    /\ Leave(t)
    /\ UNCHANGED <<engineVars, shown, childVars>>

-----------------------------------------------------------------------------
(* The children and their readers *)

\* _build_worker: the providers are built, or the child says why not and exits.
ChildBuilt(g) ==
    /\ g \in alive /\ told[g] = "nothing"
    /\ told' = [told EXCEPT ![g] = "ready"]
    /\ UNCHANGED <<engineVars, shown, threadVars, alive, gone, stopping, reader>>

ChildFailed(g) ==
    /\ g \in alive \cap Faulty /\ told[g] = "nothing"
    /\ told' = [told EXCEPT ![g] = "failed"]
    /\ alive' = alive \ {g}
    /\ UNCHANGED <<engineVars, shown, threadVars, gone, stopping, reader>>

\* The operating system or a native library ends the child.
ChildCrashes(g) ==
    /\ g \in alive \cap Faulty
    /\ alive' = alive \ {g}
    /\ UNCHANGED <<engineVars, shown, threadVars, told, gone, stopping, reader>>

ReaderForgetsWaiters(g) ==    \* mutant: the exit releases nobody
    /\ reader[g] = "reading"
    /\ g \notin alive
    /\ reader' = [reader EXCEPT ![g] = IF g \in stopping THEN "done" ELSE "exited"]
    /\ UNCHANGED <<engineVars, shown, threadVars, alive, told, gone, stopping>>

\* _read_until_gone: end of file.  Whether it was expected is decided here.
ReaderSeesEnd(g) ==
    /\ reader[g] = "reading"
    /\ g \notin alive
    /\ reader' = [reader EXCEPT ![g] = IF g \in stopping THEN "done" ELSE "exited"]
    /\ gone' = gone \cup {g}
    /\ UNCHANGED <<engineVars, shown, threadVars, alive, told, stopping>>

\* mutant: the allowance is never used up
KeepAllowance == UNCHANGED budget /\ recoveries' = recoveries + 1

SpendRecovery == budget' = budget - 1 /\ recoveries' = recoveries + 1

\* _child_exited, under the state lock: a child that is no longer current is
\* not news; the loss of the current one is announced and, while the allowance
\* lasts, answered by a recovery for the residency epoch read here.
ChildIgnored(g) ==
    /\ reader[g] = "exited"
    /\ closed \/ g # generation
    /\ reader' = [reader EXCEPT ![g] = "done"]
    /\ UNCHANGED <<engineVars, shown, threadVars, alive, told, gone, stopping>>

RecoverAnyway(g, t) ==    \* mutant: the allowance is not looked at
    /\ reader[g] = "exited"
    /\ ~closed /\ g = generation
    /\ pc[t] = "idle"
    /\ process' = NoChild
    /\ state' = "error"
    /\ SpendRecovery
    /\ Begin(t, "announce_loss", "recover", wake)
    /\ reader' = [reader EXCEPT ![g] = "done"]
    /\ UNCHANGED <<generation, wake, blocked, closed, shown,
                   alive, told, gone, stopping>>

ChildLost(g, t) ==
    /\ reader[g] = "exited"
    /\ ~closed /\ g = generation
    /\ pc[t] = "idle"
    /\ process' = NoChild
    /\ state' = "error"
    /\ IF budget > 0
         THEN SpendRecovery /\ UNCHANGED blocked
         ELSE blocked' = TRUE /\ UNCHANGED <<budget, recoveries>>
    /\ Begin(t, "announce_loss", IF budget > 0 THEN "recover" ELSE "none", wake)
    /\ reader' = [reader EXCEPT ![g] = "done"]
    /\ UNCHANGED <<generation, wake, closed, shown, alive, told, gone, stopping>>

\* The rest of _child_exited, outside the lock: the report, then the recovery
\* thread.  A helper carries it from the start.
AnnounceLoss(t) ==
    /\ pc[t] = "announce_loss"
    /\ shown' = "error"
    /\ IF goal[t] = "recover" THEN Move(t, "ensure") ELSE Leave(t)
    /\ UNCHANGED <<engineVars, childVars>>

-----------------------------------------------------------------------------
(* The steps the engine takes by itself, then what its users ask of it.       *)

EngineThread(t) ==
    \/ ReadEpoch(t) \/ Ensure(t) \/ AcquireStartLock(t) \/ StartNow(t) \/ Spawn(t)
    \/ AwaitReady(t) \/ GiveUp(t) \/ Fail(t) \/ AnnounceError(t)
    \/ Publish(t) \/ AnnounceReady(t) \/ CloseStale(t)
    \/ Register(t) \/ Released(t)
    \/ Retire(t) \/ CloseRetired(t) \/ AnnounceSleep(t) \/ AnnounceLoss(t)

EngineReader(g) ==
    \/ ReaderSeesEnd(g) \/ ChildIgnored(g)
    \/ \E t \in Helpers : ChildLost(g, t)

\* The bound on generations: a user asks for, and a child suffers, nothing that
\* could need a generation beyond it.  A thread at one of these steps may still
\* take one, and so may the loss of a child; the executor's close() takes one.
MayTakeOne == {"new", "entered", "ensure", "lock", "locked", "announce_loss", "retire", "close"}

Room(n) ==
    generation + n
      + Cardinality({t \in Thread : pc[t] \in MayTakeOne})
      + Cardinality({g \in Generation : g \notin alive /\ reader[g] \in {"reading", "exited"}})
      + (IF goal[Exec] = "close" \/ pc[Exec] = "ended" THEN 0 ELSE 1) <= MaxGeneration

Users ==
    \/ \E eager \in BOOLEAN : Attach(eager)
    \/ ResetBudget \/ LeaveLoop \/ Close
    \/ Room(1) /\ Lookup
    \/ \E t \in Helpers : (Room(1) /\ (Prepare(t) \/ Stop(t))) \/ Settle(t)
    \/ Replied(Exec)

Children ==
    \E g \in Generation :
        ChildBuilt(g) \/ (Room(1) /\ (ChildFailed(g) \/ ChildCrashes(g)))

Next ==
    \/ \E t \in Thread : EngineThread(t)
    \/ \E g \in Generation : EngineReader(g)
    \/ Users
    \/ Children

Fairness ==
    /\ \A t \in Thread : WF_evars(EngineThread(t))
    /\ \A g \in Generation : WF_evars(EngineReader(g))
    /\ WF_evars(Close)

Spec == EngineInit /\ [][Next]_evars /\ Fairness

-----------------------------------------------------------------------------
(* Properties *)

TypeOK ==
    /\ state \in EngineState /\ shown \in EngineState
    /\ generation \in 0..MaxGeneration /\ wake \in 0..MaxGeneration
    /\ budget \in 0..RecoveryBudget /\ recoveries \in Nat
    /\ blocked \in BOOLEAN /\ closed \in BOOLEAN
    /\ process \in Generation \cup {NoChild}
    /\ pc \in [Thread -> Step]
    /\ goal \in [Thread -> Goal]
    /\ asked \in [Thread -> 0..MaxGeneration \cup {AnyWake}]
    /\ gen \in [Thread -> Generation \cup {NoChild}]
    /\ alive \subseteq Generation /\ gone \subseteq Generation
    /\ stopping \subseteq Generation
    /\ told \in [Generation -> {"nothing", "ready", "failed"}]
    /\ reader \in [Generation -> {"none", "reading", "exited", "done"}]

\* No lookup child runs unnoticed: each one that is alive is the resident one
\* or is in the hands of a thread that will publish it or see it closed.
NoOrphanChild ==
    \A g \in alive :
        \/ g = process
        \/ \E t \in Thread :
              /\ gen[t] = g
              /\ pc[t] \in {"starting", "giving_up", "publishing", "stale", "closing"}

\* The resident child is the newest one: a retirement, or a later start, never
\* leaves an older child answering.
ResidentIsCurrent == Ready(process) => process = generation

\* A crash loop ends: between two deliberate activations there are no more
\* automatic recoveries than the allowance, whether or not a replacement came up.
AllowanceHolds == recoveries <= RecoveryBudget

\* A lookup is never left waiting for a child that is not there to answer it.
LookupReleased ==
    (pc[Exec] = "asking" /\ gen[Exec] \notin alive) ~> pc[Exec] # "asking"

\* Whatever the child does, the start lock is given back.
StartLockReleased ==
    \A t \in Thread : pc[t] \in Locked ~> pc[t] \notin Locked
=============================================================================
