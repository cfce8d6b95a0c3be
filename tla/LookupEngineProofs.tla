------------------------- MODULE LookupEngineProofs -------------------------
(***************************************************************************)
(* For any number of helper threads, generations and recoveries: the       *)
(* children of the engine are each in somebody's hands, the newest of them *)
(* is the only one that can be resident, and the recovery allowance holds; *)
(* and over a session, what a Stop has ended stays ended.                  *)
(***************************************************************************)
EXTENDS LookupSession, TLAPS

\* The steps at which a thread answers for the child it has in hand.
Owning == {"starting", "giving_up", "publishing", "stale", "closing"}
\* The steps at which it has a child in hand at all.
Holding == Owning \cup {"spawning", "failing", "announce_ready", "have", "asking"}

CountsInv == wake <= generation /\ budget + recoveries = RecoveryBudget

\* The start lock is held by one thread.
LockInv == \A t, u \in Thread : pc[t] \in Locked /\ pc[u] \in Locked => t = u

\* A generation without a reader was never spawned; one whose exit was seen is
\* retired, and what is retired does not run.
ReaderInv ==
    \A g \in Generation :
        /\ reader[g] = "none" => g \notin alive \cup gone
        /\ reader[g] # "none" => g <= generation
        /\ reader[g] \in {"exited", "done"} => g \in gone
        /\ g \in gone => g \notin alive

HandInv ==
    \A t \in Thread :
        /\ pc[t] \in Holding => gen[t] # NoChild /\ gen[t] <= generation
        /\ pc[t] = "spawning" => reader[gen[t]] = "none"
        /\ pc[t] \in Owning => reader[gen[t]] # "none"
        /\ pc[t] = "failing" => gen[t] \notin alive
        /\ pc[t] = "publishing" => told[gen[t]] = "ready"

\* A resident child reported itself ready; one that a later generation has left
\* behind is retired.
ResidentInv ==
    process # NoChild =>
        /\ told[process] = "ready" /\ reader[process] # "none"
        /\ process = generation \/ process \in gone

IInv ==
    TypeOK /\ CountsInv /\ LockInv /\ ReaderInv /\ HandInv /\ ResidentInv /\ NoOrphanChild

-----------------------------------------------------------------------------
(* Steps of one thread *)

\* A thread that has no child to answer for moves to a step at which it has none
\* in hand: nothing that the invariant relates is disturbed.
LEMMA QuietMove ==
    ASSUME NEW t \in Thread, NEW step \in Step \ (Holding \cup Locked),
           NEW g \in Generation \cup {NoChild},
           IInv, pc[t] \notin Owning,
           pc' = [pc EXCEPT ![t] = step], gen' = [gen EXCEPT ![t] = g],
           goal' \in [Thread -> Goal],
           asked' \in [Thread -> 0..MaxGeneration \cup {AnyWake}],
           shown' \in EngineState,
           UNCHANGED <<engineVars, childVars>>
    PROVE  IInv'
<1>1. TypeOK' BY DEF IInv, TypeOK, engineVars, childVars
<1>2. CountsInv' BY DEF IInv, CountsInv, engineVars
<1>3. LockInv' BY DEF IInv, TypeOK, LockInv
<1>4. ReaderInv' BY DEF IInv, ReaderInv, engineVars, childVars
<1>5. HandInv' BY DEF IInv, TypeOK, HandInv, engineVars, childVars, Holding, Owning
<1>6. ResidentInv' BY DEF IInv, ResidentInv, engineVars, childVars
<1>7. NoOrphanChild' BY DEF IInv, NoOrphanChild, engineVars, childVars, Owning
<1>. QED BY <1>1, <1>2, <1>3, <1>4, <1>5, <1>6, <1>7 DEF IInv

\* The same for a thread that leaves its call, or begins one.
LEMMA QuietBegin ==
    ASSUME NEW t \in Thread, NEW step \in Step \ (Holding \cup Locked), NEW why \in Goal,
           NEW epoch \in 0..MaxGeneration \cup {AnyWake},
           IInv, pc[t] \notin Owning, Begin(t, step, why, epoch),
           shown' \in EngineState, UNCHANGED <<engineVars, childVars>>
    PROVE  IInv'
<1>1. goal' \in [Thread -> Goal] /\ asked' \in [Thread -> 0..MaxGeneration \cup {AnyWake}]
    BY DEF IInv, TypeOK, Begin
<1>. QED BY <1>1, QuietMove DEF Begin

LEMMA QuietLeave ==
    ASSUME NEW t \in Thread, IInv, pc[t] \notin Owning, Leave(t) \/ Raise(t),
           shown' \in EngineState, UNCHANGED <<engineVars, childVars>>
    PROVE  IInv'
<1>1. {"idle", "ended"} \subseteq Step \ (Holding \cup Locked) /\ "none" \in Goal
    BY DEF Step, Holding, Owning, Locked, Goal
<1>2. AnyWake \in 0..MaxGeneration \cup {AnyWake} OBVIOUS
<1>. QED BY <1>1, <1>2, QuietBegin DEF Leave, Raise

\* Users begin calls and threads end them; the epoch is read, and reports are made.
LEMMA QuietSteps ==
    ASSUME IInv, NEW t \in Thread,
           \/ \E eager \in BOOLEAN : Attach(eager)
           \/ Prepare(t) \/ Lookup \/ ReadEpoch(t) \/ Stop(t) \/ LeaveLoop
           \/ Replied(t) \/ Released(t) \/ Settle(t)
           \/ AnnounceError(t) \/ AnnounceSleep(t) \/ AnnounceLoss(t)
    PROVE  IInv'
<1>. DEFINE Quiet == Step \ (Holding \cup Locked)
            Epochs == 0..MaxGeneration \cup {AnyWake}
<1>1. {"ensure", "idle", "entered", "retire", "close", "ended", "settle"} \subseteq Quiet
    BY DEF Step, Holding, Owning, Locked
<1>2. {"attach", "prepare", "lookup", "stop", "close", "none", "recover"} \subseteq Goal
    BY DEF Goal
<1>3. wake \in Epochs /\ AnyWake \in Epochs /\ goal[t] \in Goal BY DEF IInv, TypeOK
<1>4. Exec \in Thread BY DEF Thread
<1>5. {"sleeping", "error"} \subseteq EngineState /\ shown \in EngineState
    BY DEF EngineState, IInv, TypeOK
<1>6. {"new", "idle", "entered", "asking", "settle", "announce_error", "announce_sleep",
       "announce_loss"} \cap Owning = {}
    BY DEF Owning
<1>. HIDE DEF Quiet, Epochs
<1>7. CASE \E eager \in BOOLEAN : Attach(eager)
    BY <1>1, <1>2, <1>3, <1>4, <1>5, <1>6, <1>7, QuietBegin, QuietLeave
        DEF Attach, Quiet, Epochs
<1>8. CASE Prepare(t) \/ ReadEpoch(t) \/ Stop(t)
    BY <1>1, <1>2, <1>3, <1>5, <1>6, <1>8, QuietBegin
        DEF Prepare, ReadEpoch, Stop, Quiet, Epochs
<1>9. CASE Lookup \/ LeaveLoop
    BY <1>1, <1>2, <1>3, <1>4, <1>5, <1>6, <1>9, QuietBegin
        DEF Lookup, LeaveLoop, Quiet, Epochs
<1>10. CASE Replied(t) \/ Released(t) \/ Settle(t)
    BY <1>5, <1>6, <1>10, QuietLeave DEF Replied, Released, Settle
<1>11. CASE AnnounceError(t)
    BY <1>5, <1>6, <1>11, QuietLeave DEF AnnounceError
<1>12. ASSUME NEW step \in Quiet, pc[t] \notin Owning, Move(t, step), shown' \in EngineState,
              UNCHANGED <<engineVars, childVars>>
       PROVE  IInv'
    <2>1. gen[t] \in Generation \cup {NoChild} BY DEF IInv, TypeOK
    <2>2. goal' \in [Thread -> Goal] /\ asked' \in [Thread -> Epochs]
        BY <1>12 DEF IInv, TypeOK, Move, MoveWith, Epochs
    <2>. QED BY <1>12, <2>1, <2>2, QuietMove DEF Move, MoveWith, Quiet, Epochs
<1>13. CASE AnnounceSleep(t)
    BY <1>1, <1>5, <1>6, <1>12, <1>13 DEF AnnounceSleep, AfterRetire
<1>14. CASE AnnounceLoss(t)
    BY <1>1, <1>5, <1>6, <1>12, <1>14, QuietLeave DEF AnnounceLoss
<1>. QED BY <1>7, <1>8, <1>9, <1>10, <1>11, <1>13, <1>14

LEMMA AcquireStartLockInvariant ==
    ASSUME IInv, NEW t \in Thread, AcquireStartLock(t)
    PROVE  IInv'
<1>1. TypeOK'
    BY DEF IInv, TypeOK, AcquireStartLock, Move, MoveWith, engineVars, childVars, Step,
            Locked
<1>2. CountsInv' BY DEF IInv, CountsInv, AcquireStartLock, engineVars
<1>3. LockInv' BY DEF LockInv, AcquireStartLock, Move, MoveWith
<1>4. ReaderInv' BY DEF IInv, ReaderInv, AcquireStartLock, engineVars, childVars
<1>5. HandInv'
    BY DEF IInv, HandInv, AcquireStartLock, Move, MoveWith, engineVars, childVars, Holding,
            Owning
<1>6. ResidentInv' BY DEF IInv, ResidentInv, AcquireStartLock, engineVars, childVars
<1>7. NoOrphanChild'
    BY DEF IInv, NoOrphanChild, AcquireStartLock, Move, MoveWith, engineVars, childVars
<1>. QED BY <1>1, <1>2, <1>3, <1>4, <1>5, <1>6, <1>7 DEF IInv

-----------------------------------------------------------------------------
(* Asking for residency, and looking a word up *)

\* A lookup is given a child that is there: the resident one, or the one it has
\* just seen published.
LEMMA HasChild ==
    ASSUME IInv, NEW t \in Thread, pc[t] \notin Owning, NEW c \in Generation,
           c <= generation, MoveWith(t, "have", c),
           shown' \in EngineState, UNCHANGED <<engineVars, childVars>>
    PROVE  IInv'
<1>1. TypeOK' BY DEF IInv, TypeOK, MoveWith, engineVars, childVars, Step
<1>2. CountsInv' BY DEF IInv, CountsInv, engineVars
<1>3. LockInv' BY DEF IInv, LockInv, MoveWith, Locked
<1>4. ReaderInv' BY DEF IInv, ReaderInv, engineVars, childVars
<1>5. HandInv'
    BY DEF IInv, TypeOK, HandInv, MoveWith, engineVars, childVars, Owning, Generation,
            NoChild
<1>6. ResidentInv' BY DEF IInv, ResidentInv, engineVars, childVars
<1>7. NoOrphanChild' BY DEF IInv, NoOrphanChild, MoveWith, engineVars, childVars, Owning
<1>. QED BY <1>1, <1>2, <1>3, <1>4, <1>5, <1>6, <1>7 DEF IInv

LEMMA ReturnResident ==
    ASSUME IInv, NEW t \in Thread, pc[t] \notin Owning, Ready(process),
           Return(t, process), UNCHANGED <<engineVars, childVars, shown>>
    PROVE  IInv'
<1>1. process \in Generation /\ process <= generation
    BY DEF IInv, TypeOK, ResidentInv, Ready
<1>2. shown' \in EngineState BY DEF IInv, TypeOK
<1>3. CASE MoveWith(t, "have", process) BY <1>1, <1>2, <1>3, HasChild
<1>4. CASE Leave(t) BY <1>2, <1>4, QuietLeave
<1>. QED BY <1>3, <1>4 DEF Return

LEMMA EnsureInvariant ==
    ASSUME IInv, NEW t \in Thread, Ensure(t)
    PROVE  IInv'
<1>1. pc[t] = "ensure" /\ pc[t] \notin Owning /\ UNCHANGED <<engineVars, childVars, shown>>
    BY DEF Ensure, Owning
<1>2. shown' \in EngineState BY <1>1 DEF IInv, TypeOK
<1>3. CASE Raise(t) BY <1>1, <1>2, <1>3, QuietLeave
<1>4. CASE Move(t, "lock")
    <2>1. "lock" \in Step \ (Holding \cup Locked) BY DEF Step, Holding, Owning, Locked
    <2>2. gen[t] \in Generation \cup {NoChild} BY DEF IInv, TypeOK
    <2>3. UNCHANGED <<goal, asked>> BY <1>4 DEF Move, MoveWith
    <2>. QED BY <1>1, <1>2, <1>4, <2>1, <2>2, <2>3, QuietMove
        DEF Move, MoveWith, IInv, TypeOK
<1>5. CASE Ready(process) /\ Return(t, process) BY <1>1, <1>5, ReturnResident
<1>. QED BY <1>3, <1>4, <1>5 DEF Ensure

LEMMA RegisterInvariant ==
    ASSUME IInv, NEW t \in Thread, Register(t)
    PROVE  IInv'
<1>1. TypeOK'
    BY DEF IInv, TypeOK, Register, Move, MoveWith, Leave, Begin, engineVars, childVars,
            Step, Goal
<1>2. CountsInv' BY DEF IInv, CountsInv, Register, engineVars
<1>3. LockInv' BY DEF IInv, TypeOK, LockInv, Register, Move, MoveWith, Leave, Begin, Locked
<1>4. ReaderInv' BY DEF IInv, ReaderInv, Register, engineVars, childVars
<1>5. HandInv'
    BY DEF IInv, TypeOK, HandInv, Register, Move, MoveWith, Leave, Begin, engineVars,
            childVars, Holding, Owning
<1>6. ResidentInv' BY DEF IInv, ResidentInv, Register, engineVars, childVars
<1>7. NoOrphanChild'
    BY DEF IInv, TypeOK, NoOrphanChild, Register, Move, MoveWith, Leave, Begin, engineVars,
            childVars
<1>. QED BY <1>1, <1>2, <1>3, <1>4, <1>5, <1>6, <1>7 DEF IInv

-----------------------------------------------------------------------------
(* Starting a child *)

LEMMA StartNowInvariant ==
    ASSUME IInv, NEW t \in Thread, StartNow(t)
    PROVE  IInv'
<1>1. pc[t] = "locked" /\ pc[t] \notin Owning /\ UNCHANGED <<childVars, shown>>
    BY DEF StartNow, Owning
<1>2. shown' \in EngineState BY <1>1 DEF IInv, TypeOK
<1>3. CASE Ready(process) /\ Return(t, process) /\ UNCHANGED engineVars
    BY <1>1, <1>3, ReturnResident
<1>4. CASE Raise(t) /\ UNCHANGED engineVars BY <1>1, <1>2, <1>4, QuietLeave
<1>5. CASE ~Ready(process) /\ generation < MaxGeneration /\ generation' = generation + 1
           /\ state' = "preparing" /\ MoveWith(t, "spawning", generation + 1)
           /\ UNCHANGED <<recoveries, wake, budget, blocked, closed, process>>
    <2>1. generation + 1 \in Generation /\ generation + 1 # NoChild
        BY <1>5, EngineAssumption DEF IInv, TypeOK, Generation, NoChild
    <2>2. reader[generation + 1] = "none" BY <2>1 DEF IInv, TypeOK, ReaderInv
    <2>3. TypeOK'
        BY <1>1, <1>5, <2>1, EngineAssumption
        DEF IInv, TypeOK, MoveWith, childVars, EngineState, Step, Locked
    <2>4. CountsInv' BY <1>5 DEF IInv, TypeOK, CountsInv
    <2>5. LockInv' BY <1>1, <1>5 DEF IInv, LockInv, MoveWith, Locked
    <2>6. ReaderInv' BY <1>1, <1>5 DEF IInv, TypeOK, ReaderInv, childVars, Generation
    <2>7. HandInv'
        BY <1>1, <1>5, <2>1, <2>2
        DEF IInv, TypeOK, HandInv, MoveWith, childVars, Owning, Generation
    <2>8. ResidentInv'
        BY <1>1, <1>5 DEF IInv, ResidentInv, Ready, childVars
    <2>9. NoOrphanChild'
        BY <1>1, <1>5 DEF IInv, NoOrphanChild, MoveWith, childVars
    <2>. QED BY <2>3, <2>4, <2>5, <2>6, <2>7, <2>8, <2>9 DEF IInv
<1>. QED BY <1>1, <1>3, <1>4, <1>5 DEF StartNow, engineVars

LEMMA SpawnInvariant ==
    ASSUME IInv, NEW t \in Thread, Spawn(t)
    PROVE  IInv'
<1>1. TypeOK'
    BY DEF IInv, TypeOK, Spawn, Move, MoveWith, engineVars, Step, Locked, EngineState,
            HandInv, Holding
<1>2. CountsInv' BY DEF IInv, CountsInv, Spawn, engineVars
<1>3. LockInv' BY DEF IInv, TypeOK, LockInv, Spawn, Move, MoveWith, Locked
<1>4. ReaderInv' BY DEF IInv, TypeOK, ReaderInv, Spawn, engineVars, HandInv, Holding
<1>5. HandInv'
    <2>1. gen[t] \in Generation /\ gen[t] \notin alive /\ gen[t] <= generation /\ gen[t] # NoChild
        BY DEF IInv, TypeOK, HandInv, ReaderInv, Spawn, Holding
    <2>2. \A u \in Thread : u # t => pc'[u] \notin {"spawning", "failing", "publishing"}
        BY DEF IInv, TypeOK, LockInv, Spawn, Move, MoveWith, Locked
    <2>. QED
        BY <2>1, <2>2
            DEF IInv, TypeOK, HandInv, Spawn, Move, MoveWith, engineVars, Holding, Owning
<1>6. ResidentInv' BY DEF IInv, TypeOK, ResidentInv, Spawn, engineVars
<1>7. NoOrphanChild' BY DEF IInv, TypeOK, NoOrphanChild, Spawn, Move, MoveWith, engineVars
<1>. QED BY <1>1, <1>2, <1>3, <1>4, <1>5, <1>6, <1>7 DEF IInv

LEMMA AwaitReadyInvariant ==
    ASSUME IInv, NEW t \in Thread, AwaitReady(t)
    PROVE  IInv'
<1>1. TypeOK'
    BY DEF IInv, TypeOK, AwaitReady, Move, MoveWith, engineVars, Step, Locked, HandInv,
            Holding, Owning
<1>2. CountsInv' BY DEF IInv, CountsInv, AwaitReady, engineVars
<1>3. LockInv' BY DEF IInv, TypeOK, LockInv, AwaitReady, Move, MoveWith, Locked
<1>4. ReaderInv' BY DEF IInv, ReaderInv, AwaitReady, engineVars
<1>5. HandInv'
    BY DEF IInv, TypeOK, HandInv, AwaitReady, Move, MoveWith, engineVars, Holding, Owning
<1>6. ResidentInv' BY DEF IInv, ResidentInv, AwaitReady, engineVars
<1>7. NoOrphanChild'
    BY DEF IInv, TypeOK, NoOrphanChild, AwaitReady, Move, MoveWith, engineVars
<1>. QED BY <1>1, <1>2, <1>3, <1>4, <1>5, <1>6, <1>7 DEF IInv

LEMMA GiveUpInvariant ==
    ASSUME IInv, NEW t \in Thread, GiveUp(t)
    PROVE  IInv'
<1>1. TypeOK'
    BY DEF IInv, TypeOK, GiveUp, ChildClosed, Move, MoveWith, engineVars, Step, Locked,
            Holding, Owning, HandInv
<1>2. CountsInv' BY DEF IInv, CountsInv, GiveUp, engineVars
<1>3. LockInv' BY DEF IInv, LockInv, GiveUp, Move, MoveWith, Locked
<1>4. ReaderInv' BY DEF IInv, ReaderInv, GiveUp, ChildClosed, engineVars, HandInv, Owning
<1>5. HandInv'
    BY DEF IInv, HandInv, GiveUp, ChildClosed, Move, MoveWith, engineVars, Holding, Owning
<1>6. ResidentInv' BY DEF IInv, ResidentInv, GiveUp, ChildClosed, engineVars
<1>7. NoOrphanChild'
    BY DEF IInv, NoOrphanChild, GiveUp, ChildClosed, Move, MoveWith, engineVars
<1>. QED BY <1>1, <1>2, <1>3, <1>4, <1>5, <1>6, <1>7 DEF IInv

LEMMA FailInvariant ==
    ASSUME IInv, NEW t \in Thread, Fail(t)
    PROVE  IInv'
<1>1. TypeOK'
    BY DEF IInv, TypeOK, Fail, Raise, Leave, Begin, Move, MoveWith, childVars, Step,
            Locked, EngineState, Goal
<1>2. CountsInv' BY DEF IInv, CountsInv, Fail
<1>3. LockInv'
    BY DEF IInv, TypeOK, LockInv, Fail, Raise, Leave, Begin, Move, MoveWith, Locked
<1>4. ReaderInv' BY DEF IInv, ReaderInv, Fail, childVars
<1>5. HandInv'
    BY DEF IInv, TypeOK, HandInv, Fail, Raise, Leave, Begin, Move, MoveWith, childVars,
            Holding, Owning
<1>6. ResidentInv' BY DEF IInv, ResidentInv, Fail, childVars
<1>7. NoOrphanChild'
    BY DEF IInv, TypeOK, NoOrphanChild, Fail, Superseded, Raise, Leave, Begin, Move,
            MoveWith, childVars, HandInv, ResidentInv, ReaderInv
<1>. QED BY <1>1, <1>2, <1>3, <1>4, <1>5, <1>6, <1>7 DEF IInv

LEMMA PublishInvariant ==
    ASSUME IInv, NEW t \in Thread, Publish(t)
    PROVE  IInv'
<1>1. TypeOK'
    BY DEF IInv, TypeOK, Publish, Move, MoveWith, Step, Locked, EngineState, Holding,
            Owning, HandInv
<1>2. CountsInv' BY DEF IInv, CountsInv, Publish
<1>3. LockInv' BY DEF IInv, TypeOK, LockInv, Publish, Move, MoveWith, Locked
<1>4. ReaderInv' BY DEF IInv, ReaderInv, Publish
<1>5. HandInv' BY DEF IInv, TypeOK, HandInv, Publish, Move, MoveWith, Holding, Owning
<1>6. ResidentInv' BY DEF IInv, ResidentInv, Publish, Superseded, HandInv, Owning
<1>7. NoOrphanChild'
    BY DEF IInv, TypeOK, NoOrphanChild, Publish, Superseded, Move, MoveWith, Generation,
            NoChild, ResidentInv, ReaderInv
<1>. QED BY <1>1, <1>2, <1>3, <1>4, <1>5, <1>6, <1>7 DEF IInv

LEMMA AnnounceReadyInvariant ==
    ASSUME IInv, NEW t \in Thread, AnnounceReady(t)
    PROVE  IInv'
<1>1. pc[t] = "announce_ready" /\ pc[t] \notin Owning /\ UNCHANGED <<engineVars, childVars>>
    BY DEF AnnounceReady, Owning
<1>2. shown' \in EngineState BY DEF AnnounceReady, EngineState
<1>3. gen[t] \in Generation /\ gen[t] <= generation
    BY <1>1 DEF IInv, TypeOK, HandInv, Holding
<1>4. CASE MoveWith(t, "have", gen[t]) BY <1>1, <1>2, <1>3, <1>4, HasChild
<1>5. CASE Leave(t) BY <1>1, <1>2, <1>5, QuietLeave
<1>. QED BY <1>4, <1>5 DEF AnnounceReady, Return

LEMMA CloseStaleInvariant ==
    ASSUME IInv, NEW t \in Thread, CloseStale(t)
    PROVE  IInv'
<1>1. TypeOK'
    BY DEF IInv, TypeOK, CloseStale, ChildClosed, Raise, Leave, Begin, engineVars, Step,
            Goal, Holding, Owning, HandInv
<1>2. CountsInv' BY DEF IInv, CountsInv, CloseStale, engineVars
<1>3. LockInv' BY DEF IInv, TypeOK, LockInv, CloseStale, Raise, Leave, Begin, Locked
<1>4. ReaderInv'
    BY DEF IInv, ReaderInv, CloseStale, ChildClosed, engineVars, HandInv, Owning
<1>5. HandInv'
    BY DEF IInv, TypeOK, HandInv, CloseStale, ChildClosed, Raise, Leave, Begin, engineVars,
            Holding, Owning
<1>6. ResidentInv' BY DEF IInv, ResidentInv, CloseStale, ChildClosed, engineVars
<1>7. NoOrphanChild'
    BY DEF IInv, TypeOK, NoOrphanChild, CloseStale, ChildClosed, Raise, Leave, Begin,
            engineVars
<1>. QED BY <1>1, <1>2, <1>3, <1>4, <1>5, <1>6, <1>7 DEF IInv

-----------------------------------------------------------------------------
(* Retiring *)

LEMMA ResetBudgetInvariant ==
    ASSUME IInv, ResetBudget
    PROVE  IInv'
<1>1. TypeOK'
    <2>1. blocked' \in BOOLEAN /\ closed' \in BOOLEAN
        BY DEF IInv, TypeOK, ResetBudget, BudgetReset
    <2>2. budget' \in 0..RecoveryBudget /\ recoveries' \in Nat
        BY EngineAssumption DEF ResetBudget, BudgetReset
    <2>. QED BY <2>1, <2>2 DEF IInv, TypeOK, ResetBudget, threadVars, childVars
<1>2. CountsInv' BY EngineAssumption DEF IInv, CountsInv, ResetBudget, BudgetReset
<1>3. LockInv' BY DEF IInv, LockInv, ResetBudget, threadVars
<1>4. ReaderInv' BY DEF IInv, ReaderInv, ResetBudget, childVars
<1>5. HandInv' BY DEF IInv, HandInv, ResetBudget, threadVars, childVars
<1>6. ResidentInv' BY DEF IInv, ResidentInv, ResetBudget, childVars
<1>7. NoOrphanChild' BY DEF IInv, NoOrphanChild, ResetBudget, threadVars, childVars
<1>. QED BY <1>1, <1>2, <1>3, <1>4, <1>5, <1>6, <1>7 DEF IInv

LEMMA CloseInvariant ==
    ASSUME IInv, Close
    PROVE  IInv'
<1>1. TypeOK' BY DEF IInv, TypeOK, Close, Move, MoveWith, childVars, Thread, Step
<1>2. CountsInv' BY DEF IInv, CountsInv, Close
<1>3. LockInv' BY DEF IInv, LockInv, Close, Move, MoveWith, Locked
<1>4. ReaderInv' BY DEF IInv, ReaderInv, Close, childVars
<1>5. HandInv' BY DEF IInv, HandInv, Close, Move, MoveWith, childVars, Holding, Owning
<1>6. ResidentInv' BY DEF IInv, ResidentInv, Close, childVars
<1>7. NoOrphanChild' BY DEF IInv, NoOrphanChild, Close, Move, MoveWith, childVars
<1>. QED BY <1>1, <1>2, <1>3, <1>4, <1>5, <1>6, <1>7 DEF IInv

LEMMA RetireInvariant ==
    ASSUME IInv, NEW t \in Thread, Retire(t)
    PROVE  IInv'
<1>1. TypeOK'
    BY EngineAssumption
        DEF IInv, TypeOK, Retire, NewEpoch, AfterRetire, MoveWith, Step, EngineState,
            CountsInv
<1>2. CountsInv' BY DEF IInv, TypeOK, CountsInv, Retire, NewEpoch
<1>3. LockInv' BY DEF IInv, LockInv, Retire, AfterRetire, MoveWith, Locked
<1>4. ReaderInv' BY DEF IInv, TypeOK, ReaderInv, Retire, Generation
<1>5. HandInv'
    BY EngineAssumption
        DEF IInv, TypeOK, HandInv, Retire, AfterRetire, MoveWith, Generation, Holding,
            Owning, ResidentInv, ReaderInv
<1>6. ResidentInv' BY DEF ResidentInv, Retire
<1>7. NoOrphanChild' BY DEF IInv, TypeOK, NoOrphanChild, Retire, MoveWith
<1>. QED BY <1>1, <1>2, <1>3, <1>4, <1>5, <1>6, <1>7 DEF IInv

LEMMA CloseRetiredInvariant ==
    ASSUME IInv, NEW t \in Thread, CloseRetired(t)
    PROVE  IInv'
<1>1. TypeOK'
    BY DEF IInv, TypeOK, CloseRetired, ChildClosed, Move, MoveWith, engineVars, Step,
            Holding, Owning, HandInv
<1>2. CountsInv' BY DEF IInv, CountsInv, CloseRetired, engineVars
<1>3. LockInv' BY DEF IInv, LockInv, CloseRetired, Move, MoveWith, Locked
<1>4. ReaderInv'
    BY DEF IInv, ReaderInv, CloseRetired, ChildClosed, engineVars, HandInv, Owning
<1>5. HandInv'
    BY DEF IInv, HandInv, CloseRetired, ChildClosed, Move, MoveWith, engineVars, Holding,
            Owning
<1>6. ResidentInv' BY DEF IInv, ResidentInv, CloseRetired, ChildClosed, engineVars
<1>7. NoOrphanChild'
    BY DEF IInv, NoOrphanChild, CloseRetired, ChildClosed, Move, MoveWith, engineVars
<1>. QED BY <1>1, <1>2, <1>3, <1>4, <1>5, <1>6, <1>7 DEF IInv

-----------------------------------------------------------------------------
(* The children and their readers *)

LEMMA ChildBuiltInvariant ==
    ASSUME IInv, NEW g \in Generation, ChildBuilt(g)
    PROVE  IInv'
<1>1. TypeOK' BY DEF IInv, TypeOK, ChildBuilt, engineVars, threadVars
<1>2. CountsInv' BY DEF IInv, CountsInv, ChildBuilt, engineVars
<1>3. LockInv' BY DEF IInv, LockInv, ChildBuilt, threadVars
<1>4. ReaderInv' BY DEF IInv, ReaderInv, ChildBuilt, engineVars
<1>5. HandInv' BY DEF IInv, HandInv, ChildBuilt, engineVars, threadVars
<1>6. ResidentInv' BY DEF IInv, ResidentInv, ChildBuilt, engineVars
<1>7. NoOrphanChild' BY DEF IInv, NoOrphanChild, ChildBuilt, engineVars, threadVars
<1>. QED BY <1>1, <1>2, <1>3, <1>4, <1>5, <1>6, <1>7 DEF IInv

LEMMA ChildFailedInvariant ==
    ASSUME IInv, NEW g \in Generation, ChildFailed(g)
    PROVE  IInv'
<1>1. TypeOK' BY DEF IInv, TypeOK, ChildFailed, engineVars, threadVars
<1>2. CountsInv' BY DEF IInv, CountsInv, ChildFailed, engineVars
<1>3. LockInv' BY DEF IInv, LockInv, ChildFailed, threadVars
<1>4. ReaderInv' BY DEF IInv, ReaderInv, ChildFailed, engineVars
<1>5. HandInv' BY DEF IInv, HandInv, ChildFailed, engineVars, threadVars
<1>6. ResidentInv' BY DEF IInv, ResidentInv, ChildFailed, engineVars
<1>7. NoOrphanChild' BY DEF IInv, NoOrphanChild, ChildFailed, engineVars, threadVars
<1>. QED BY <1>1, <1>2, <1>3, <1>4, <1>5, <1>6, <1>7 DEF IInv

LEMMA ChildCrashesInvariant ==
    ASSUME IInv, NEW g \in Generation, ChildCrashes(g)
    PROVE  IInv'
<1>1. TypeOK' BY DEF IInv, TypeOK, ChildCrashes, engineVars, threadVars
<1>2. CountsInv' BY DEF IInv, CountsInv, ChildCrashes, engineVars
<1>3. LockInv' BY DEF IInv, LockInv, ChildCrashes, threadVars
<1>4. ReaderInv' BY DEF IInv, ReaderInv, ChildCrashes, engineVars
<1>5. HandInv' BY DEF IInv, HandInv, ChildCrashes, engineVars, threadVars
<1>6. ResidentInv' BY DEF IInv, ResidentInv, ChildCrashes, engineVars
<1>7. NoOrphanChild' BY DEF IInv, NoOrphanChild, ChildCrashes, engineVars, threadVars
<1>. QED BY <1>1, <1>2, <1>3, <1>4, <1>5, <1>6, <1>7 DEF IInv

LEMMA ReaderSeesEndInvariant ==
    ASSUME IInv, NEW g \in Generation, ReaderSeesEnd(g)
    PROVE  IInv'
<1>1. TypeOK' BY DEF IInv, TypeOK, ReaderSeesEnd, engineVars, threadVars
<1>2. CountsInv' BY DEF IInv, CountsInv, ReaderSeesEnd, engineVars
<1>3. LockInv' BY DEF IInv, LockInv, ReaderSeesEnd, threadVars
<1>4. ReaderInv' BY DEF IInv, ReaderInv, ReaderSeesEnd, engineVars
<1>5. HandInv' BY DEF IInv, HandInv, ReaderSeesEnd, engineVars, threadVars
<1>6. ResidentInv' BY DEF IInv, ResidentInv, ReaderSeesEnd, engineVars
<1>7. NoOrphanChild' BY DEF IInv, NoOrphanChild, ReaderSeesEnd, engineVars, threadVars
<1>. QED BY <1>1, <1>2, <1>3, <1>4, <1>5, <1>6, <1>7 DEF IInv

LEMMA ChildIgnoredInvariant ==
    ASSUME IInv, NEW g \in Generation, ChildIgnored(g)
    PROVE  IInv'
<1>1. TypeOK' BY DEF IInv, TypeOK, ChildIgnored, engineVars, threadVars
<1>2. CountsInv' BY DEF IInv, CountsInv, ChildIgnored, engineVars
<1>3. LockInv' BY DEF IInv, LockInv, ChildIgnored, threadVars
<1>4. ReaderInv' BY DEF IInv, ReaderInv, ChildIgnored, engineVars
<1>5. HandInv' BY DEF IInv, HandInv, ChildIgnored, engineVars, threadVars
<1>6. ResidentInv' BY DEF IInv, ResidentInv, ChildIgnored, engineVars
<1>7. NoOrphanChild' BY DEF IInv, NoOrphanChild, ChildIgnored, engineVars, threadVars
<1>. QED BY <1>1, <1>2, <1>3, <1>4, <1>5, <1>6, <1>7 DEF IInv

LEMMA ChildLostInvariant ==
    ASSUME IInv, NEW g \in Generation, NEW t \in Thread, ChildLost(g, t)
    PROVE  IInv'
<1>1. TypeOK'
    <2>1. blocked' \in BOOLEAN BY DEF IInv, TypeOK, ChildLost
    <2>2. budget' \in 0..RecoveryBudget /\ recoveries' \in Nat
        BY EngineAssumption DEF IInv, TypeOK, ChildLost, SpendRecovery
    <2>3. goal' \in [Thread -> Goal] /\ pc' \in [Thread -> Step] /\ state' \in EngineState
        BY DEF IInv, TypeOK, ChildLost, Begin, Goal, Step, EngineState
    <2>. QED BY <2>1, <2>2, <2>3 DEF IInv, TypeOK, ChildLost, Begin
<1>2. CountsInv' BY DEF IInv, TypeOK, CountsInv, ChildLost, SpendRecovery
<1>3. LockInv' BY DEF IInv, LockInv, ChildLost, Begin, Locked
<1>4. ReaderInv' BY DEF IInv, ReaderInv, ChildLost
<1>5. HandInv' BY DEF IInv, HandInv, ChildLost, Begin, Holding, Owning
<1>6. ResidentInv' BY DEF ResidentInv, ChildLost
<1>7. NoOrphanChild'
    BY DEF IInv, TypeOK, NoOrphanChild, ChildLost, Begin, ResidentInv, ReaderInv
<1>. QED BY <1>1, <1>2, <1>3, <1>4, <1>5, <1>6, <1>7 DEF IInv

-----------------------------------------------------------------------------
(* The theorems *)

LEMMA InitInvariant == EngineInit => IInv
<1>. SUFFICES ASSUME EngineInit PROVE IInv OBVIOUS
<1>1. TypeOK
    <2>1. blocked \in BOOLEAN /\ closed \in BOOLEAN BY DEF EngineInit
    <2>2. generation \in 0..MaxGeneration /\ wake \in 0..MaxGeneration
          /\ budget \in 0..RecoveryBudget /\ recoveries \in Nat
        BY EngineAssumption DEF EngineInit
    <2>3. pc \in [Thread -> Step] /\ goal \in [Thread -> Goal]
        BY DEF EngineInit, Step, Goal
    <2>. QED BY <2>1, <2>2, <2>3 DEF EngineInit, TypeOK, EngineState
<1>2. CountsInv BY EngineAssumption DEF EngineInit, CountsInv
<1>3. LockInv BY DEF EngineInit, LockInv, Locked
<1>4. ReaderInv BY DEF EngineInit, ReaderInv
<1>5. HandInv BY DEF EngineInit, HandInv, Holding, Owning
<1>6. ResidentInv /\ NoOrphanChild BY DEF EngineInit, ResidentInv, NoOrphanChild
<1>. QED BY <1>1, <1>2, <1>3, <1>4, <1>5, <1>6 DEF IInv

LEMMA ThreadInvariant ==
    ASSUME IInv, NEW t \in Thread, EngineThread(t)
    PROVE  IInv'
<1>1. CASE \/ ReadEpoch(t) \/ Released(t)
           \/ AnnounceError(t) \/ AnnounceSleep(t) \/ AnnounceLoss(t)
    BY <1>1, QuietSteps
<1>2. CASE Ensure(t) \/ AcquireStartLock(t) \/ StartNow(t) \/ Spawn(t) \/ AwaitReady(t)
    BY <1>2, EnsureInvariant, AcquireStartLockInvariant, StartNowInvariant, SpawnInvariant,
       AwaitReadyInvariant
<1>3. CASE GiveUp(t) \/ Fail(t) \/ Publish(t) \/ AnnounceReady(t) \/ CloseStale(t)
    BY <1>3, GiveUpInvariant, FailInvariant, PublishInvariant, AnnounceReadyInvariant,
       CloseStaleInvariant
<1>4. CASE Register(t) \/ Retire(t) \/ CloseRetired(t)
    BY <1>4, RegisterInvariant, RetireInvariant, CloseRetiredInvariant
<1>. QED BY <1>1, <1>2, <1>3, <1>4 DEF EngineThread

LEMMA UsersInvariant == IInv /\ Users => IInv'
<1>. SUFFICES ASSUME IInv, Users PROVE IInv' OBVIOUS
<1>1. Exec \in Thread /\ Helpers \subseteq Thread BY DEF Thread
<1>2. CASE (\E eager \in BOOLEAN : Attach(eager)) \/ Lookup \/ LeaveLoop \/ Replied(Exec)
    BY <1>1, <1>2, QuietSteps
<1>3. CASE \E t \in Helpers : Prepare(t) \/ Stop(t) \/ Settle(t)
    BY <1>1, <1>3, QuietSteps
<1>4. CASE ResetBudget \/ Close
    BY <1>4, ResetBudgetInvariant, CloseInvariant
<1>. QED BY <1>2, <1>3, <1>4 DEF Users

LEMMA StepInvariant == IInv /\ [Next]_evars => IInv'
<1>. SUFFICES ASSUME IInv, [Next]_evars PROVE IInv' OBVIOUS
<1>1. CASE \E t \in Thread : EngineThread(t) BY <1>1, ThreadInvariant
<1>2. CASE \E g \in Generation : EngineReader(g)
    BY <1>2, ReaderSeesEndInvariant, ChildIgnoredInvariant, ChildLostInvariant
    DEF EngineReader, Thread
<1>3. CASE Users BY <1>3, UsersInvariant
<1>4. CASE Children
    BY <1>4, ChildBuiltInvariant, ChildFailedInvariant, ChildCrashesInvariant DEF Children
<1>5. CASE UNCHANGED evars
    BY <1>5
        DEF evars, engineVars, threadVars, childVars, IInv, TypeOK, CountsInv, LockInv,
            ReaderInv, HandInv, ResidentInv, NoOrphanChild
<1>. QED BY <1>1, <1>2, <1>3, <1>4, <1>5 DEF Next

\* The inductive invariant holds of the engine, whatever its users ask of it and
\* whichever of its children fail.
THEOREM InvariantHolds == Spec => []IInv
<1>. QED BY InitInvariant, StepInvariant, PTL DEF Spec

\* The engine's fields, its threads and its children have the types the code gives
\* them; in particular the allowance is never overdrawn.
THEOREM TypeCorrect == Spec => []TypeOK
<1>1. IInv => TypeOK BY DEF IInv
<1>. QED BY <1>1, InvariantHolds, PTL

\* _start_now and _retire: every child that runs is resident, or in the hands of
\* a thread that will publish it or see it closed, however many threads ask for
\* residency, retire it or close the engine at once.
THEOREM NoOrphan == Spec => []NoOrphanChild
<1>1. IInv => NoOrphanChild BY DEF IInv
<1>. QED BY <1>1, InvariantHolds, PTL

\* _ensure, Ready(process): the child that answers lookups is the newest one.
THEOREM OneResident == Spec => []ResidentIsCurrent
<1>1. IInv => ResidentIsCurrent BY DEF IInv, ResidentInv, ResidentIsCurrent, Ready
<1>. QED BY <1>1, InvariantHolds, PTL

\* _child_exited: for every allowance, no more automatic recoveries than it grants
\* between two deliberate activations.
THEOREM RecoveriesEnd == Spec => []AllowanceHolds
<1>1. IInv => AllowanceHolds
    BY EngineAssumption DEF IInv, TypeOK, CountsInv, AllowanceHolds
<1>. QED BY <1>1, InvariantHolds, PTL

-----------------------------------------------------------------------------
(* The session: what a Stop leaves behind *)

\* The steps at which a thread may still start a child, or publish the one it has.
Asking == {"ensure", "lock", "locked"}
Bringing == {"spawning", "starting", "publishing"}

\* Only the executor thread attaches or is given a request, and a Stop is another
\* thread's; who asks for residency does so in an epoch that has begun, and only
\* attach() in none.
CallersInv ==
    \A t \in Thread :
        /\ (pc[t] \in {"new", "entered"} \/ goal[t] = "attach") => t = Exec
        /\ goal[t] = "stop" => t # Exec
        /\ asked[t] <= wake
        /\ asked[t] = AnyWake =>
              /\ pc[t] \in Asking => goal[t] = "attach"
              /\ ~(pc[t] = "announce_loss" /\ goal[t] = "recover")

\* Nothing of the engine can become resident any more: every request is of an
\* earlier epoch, every child of an earlier generation.
Outdated ==
    /\ process = NoChild
    /\ \A g \in Generation : g = generation => reader[g] = "none"
    /\ \A t \in Thread :
          /\ pc[t] \in Asking \/ (pc[t] = "announce_loss" /\ goal[t] = "recover")
                => asked[t] # AnyWake /\ asked[t] # wake
          /\ pc[t] \in Bringing => gen[t] # generation

\* A Stop has begun, and its retirement is still to come.
StopComing == \E t \in Thread : pc[t] = "retire" /\ goal[t] = "stop"

FinalInv ==
    stopped /\ reached => ~pending /\ ~OutOfReach /\ (Outdated \/ StopComing)

SInv == IInv /\ CallersInv /\ (session = "new" => ~stopped) /\ FinalInv

\* A retirement leaves nothing behind that could become resident: the epoch of
\* every request is over, and the generation that begins has no child.
LEMMA RetireEnds ==
    ASSUME IInv, CallersInv, ~OutOfReach, NEW t \in Thread, Retire(t)
    PROVE  Outdated'
<1>1. generation \in Nat /\ wake \in Nat /\ generation' = generation + 1 /\ wake' = wake + 1
    BY EngineAssumption DEF IInv, TypeOK, Retire, NewEpoch
<1>2. pc'[t] \notin Asking \cup Bringing \cup {"announce_loss"}
    BY DEF IInv, TypeOK, Retire, MoveWith, AfterRetire, Asking, Bringing
<1>3. process' = NoChild BY DEF Retire
<1>4. ASSUME NEW g \in Generation, g = generation' PROVE reader'[g] = "none"
    BY <1>1, <1>4 DEF IInv, ReaderInv, Retire
<1>5. ASSUME NEW u \in Thread
      PROVE  /\ pc'[u] \in Asking \/ (pc'[u] = "announce_loss" /\ goal'[u] = "recover")
                   => asked'[u] # AnyWake /\ asked'[u] # wake'
             /\ pc'[u] \in Bringing => gen'[u] # generation'
    <2>1. CASE u = t BY <1>2, <2>1
    <2>2. CASE u # t
        <3>1. pc'[u] = pc[u] /\ goal'[u] = goal[u] /\ asked'[u] = asked[u] /\ gen'[u] = gen[u]
            BY <2>2 DEF IInv, TypeOK, Retire, MoveWith
        <3>2. asked[u] \in Int /\ gen[u] \in Int
            BY EngineAssumption DEF IInv, TypeOK, AnyWake, NoChild, Generation
        <3>3. asked[u] # wake' BY <1>1, <3>2 DEF CallersInv
        <3>4. pc[u] \in Asking \/ (pc[u] = "announce_loss" /\ goal[u] = "recover")
                 => asked[u] # AnyWake
            BY DEF CallersInv, OutOfReach
        <3>5. pc[u] \in Bringing => gen[u] # generation'
            BY <1>1, <3>2 DEF IInv, HandInv, Holding, Owning, Bringing
        <3>. QED BY <3>1, <3>3, <3>4, <3>5
    <2>. QED BY <2>1, <2>2
<1>. QED BY <1>3, <1>4, <1>5 DEF Outdated

\* What a step of one thread leaves alone of the others.
OthersStay(t) ==
    \A u \in Thread : u # t =>
        pc'[u] = pc[u] /\ goal'[u] = goal[u] /\ asked'[u] = asked[u] /\ gen'[u] = gen[u]

LEMMA OneThreadMoves ==
    ASSUME IInv, NEW t \in Thread, EngineThread(t)
    PROVE  OthersStay(t)
<1>1. CASE ReadEpoch(t) \/ Ensure(t) \/ AcquireStartLock(t) \/ StartNow(t) \/ Spawn(t)
    BY <1>1 DEF IInv, TypeOK, OthersStay, ReadEpoch, Ensure, AcquireStartLock, StartNow,
        Spawn, Raise, Return, Leave, Begin, Move, MoveWith
<1>2. CASE AwaitReady(t) \/ GiveUp(t) \/ Fail(t) \/ AnnounceError(t) \/ Publish(t)
    BY <1>2 DEF IInv, TypeOK, OthersStay, AwaitReady, GiveUp, Fail, AnnounceError, Publish,
        Raise, Leave, Begin, Move, MoveWith
<1>3. CASE AnnounceReady(t) \/ CloseStale(t) \/ Register(t) \/ Released(t)
    BY <1>3 DEF IInv, TypeOK, OthersStay, AnnounceReady, CloseStale, Register, Released,
        Raise, Return, Leave, Begin, Move, MoveWith
<1>4. CASE Retire(t) \/ CloseRetired(t) \/ AnnounceSleep(t) \/ AnnounceLoss(t)
    BY <1>4 DEF IInv, TypeOK, OthersStay, Retire, CloseRetired, AnnounceSleep, AnnounceLoss,
        Leave, Begin, Move, MoveWith
<1>. QED BY <1>1, <1>2, <1>3, <1>4 DEF EngineThread

\* What a step of thread t must do with its own call to disturb no Stop: it does
\* not begin to ask or to bring a child, and goes on only with what it had.
Answerable(t) ==
    /\ pc'[t] \notin {"new", "entered"}
    /\ goal'[t] \in {goal[t], "none"}
    /\ pc'[t] \in Asking =>
          /\ pc[t] \in Asking \/ (pc[t] = "announce_loss" /\ goal[t] = "recover")
          /\ goal'[t] = goal[t] /\ asked'[t] = asked[t]
    /\ pc'[t] # "announce_loss"
    /\ pc'[t] \in Bringing => pc[t] \in Bringing /\ gen'[t] = gen[t]
    /\ asked'[t] \in {asked[t], AnyWake}
    /\ wake' = wake /\ generation' = generation

\* Such a step keeps what a Stop has achieved.
LEMMA AnswerableKeeps ==
    ASSUME IInv, CallersInv, NEW t \in Thread, OthersStay(t), Answerable(t), pc[t] # "retire"
    PROVE  /\ CallersInv'
           /\ ~OutOfReach => ~OutOfReach'
           /\ StopComing => StopComing'
           /\ Outdated /\ process' = NoChild
                 /\ (\A g \in Generation : g = generation => reader'[g] = "none") => Outdated'
<1>1. CallersInv'
    <2>1. wake \in Nat /\ asked[t] <= wake BY EngineAssumption DEF IInv, TypeOK, CallersInv
    <2>2. asked'[t] <= wake' BY <2>1 DEF Answerable, AnyWake
    <2>3. ASSUME NEW u \in Thread, u # t
          PROVE  /\ (pc'[u] \in {"new", "entered"} \/ goal'[u] = "attach") => u = Exec
                 /\ goal'[u] = "stop" => u # Exec
                 /\ asked'[u] <= wake'
                 /\ asked'[u] = AnyWake =>
                       /\ pc'[u] \in Asking => goal'[u] = "attach"
                       /\ ~(pc'[u] = "announce_loss" /\ goal'[u] = "recover")
        BY <2>3 DEF CallersInv, OthersStay, Answerable
    <2>4. /\ (pc'[t] \in {"new", "entered"} \/ goal'[t] = "attach") => t = Exec
          /\ goal'[t] = "stop" => t # Exec
        BY DEF CallersInv, Answerable
    <2>5. asked'[t] = AnyWake =>
              /\ pc'[t] \in Asking => goal'[t] = "attach"
              /\ ~(pc'[t] = "announce_loss" /\ goal'[t] = "recover")
        BY DEF CallersInv, Answerable, Asking
    <2>. QED BY <2>2, <2>3, <2>4, <2>5 DEF CallersInv
<1>2. ~OutOfReach => ~OutOfReach'
    BY DEF OutOfReach, OthersStay, Answerable, Thread
<1>3. StopComing => StopComing' BY DEF StopComing, OthersStay
<1>4. ASSUME Outdated, process' = NoChild,
             \A g \in Generation : g = generation => reader'[g] = "none"
      PROVE  Outdated'
    BY <1>4 DEF Outdated, OthersStay, Answerable
<1>. QED BY <1>1, <1>2, <1>3, <1>4

\* No step brings back what a Stop has ended, and one that is still to come comes.
StopKept ==
    ~OutOfReach =>
        /\ ~OutOfReach'
        /\ Outdated => Outdated'
        /\ StopComing => (Outdated \/ StopComing)'

LEMMA ThreadKeepsStop ==
    ASSUME IInv, CallersInv, NEW t \in Thread, EngineThread(t)
    PROVE  CallersInv' /\ StopKept
<1>. USE OneThreadMoves DEF StopKept
<1>1. CASE ReadEpoch(t)
    <2>1. t = Exec /\ OutOfReach BY <1>1 DEF ReadEpoch, CallersInv, OutOfReach
    <2>2. wake \in Nat /\ wake' = wake /\ pc'[t] = "ensure" /\ asked'[t] = wake /\ goal'[t] = goal[t]
        BY <1>1, EngineAssumption DEF IInv, TypeOK, ReadEpoch, Begin, engineVars
    <2>. QED BY <2>1, <2>2 DEF CallersInv, OthersStay, AnyWake
<1>2. CASE Retire(t)
    <2>1. wake \in Nat /\ wake' = wake + 1
        BY <1>2, EngineAssumption DEF IInv, TypeOK, Retire, NewEpoch
    <2>2. pc'[t] \notin Asking \cup {"announce_loss", "new", "entered"}
        BY <1>2 DEF IInv, TypeOK, Retire, MoveWith, AfterRetire, Asking
    <2>3. goal' = goal /\ asked' = asked BY <1>2 DEF Retire, MoveWith
    <2>4. \A u \in Thread : asked[u] \in Int BY EngineAssumption DEF IInv, TypeOK, AnyWake
    <2>5. CallersInv' BY <2>1, <2>2, <2>3, <2>4 DEF CallersInv, OthersStay
    <2>6. ~OutOfReach => ~OutOfReach' BY <2>2, <2>3 DEF OutOfReach, OthersStay, Thread
    <2>. QED BY <1>2, <2>5, <2>6, RetireEnds
<1>3. CASE Ensure(t)
    <2>1. pc[t] # "retire" /\ Answerable(t)
        BY <1>3 DEF IInv, TypeOK, Ensure, Answerable, Raise, Return, Leave, Begin, Move,
            MoveWith, Asking, Bringing, engineVars
    <2>2. process' = process /\ reader' = reader BY <1>3 DEF Ensure, engineVars, childVars
    <2>. QED BY <2>1, <2>2, AnswerableKeeps DEF Outdated
<1>4. CASE AcquireStartLock(t)
    <2>1. pc[t] # "retire" /\ Answerable(t)
        BY <1>4 DEF IInv, TypeOK, AcquireStartLock, Answerable, Move, MoveWith, Asking,
            Bringing, engineVars
    <2>2. process' = process /\ reader' = reader
        BY <1>4 DEF AcquireStartLock, engineVars, childVars
    <2>. QED BY <2>1, <2>2, AnswerableKeeps DEF Outdated
<1>5. CASE StartNow(t) /\ (Ready(process) \/ Unwanted(t))
    <2>1. pc[t] # "retire" /\ Answerable(t)
        BY <1>5
            DEF IInv, TypeOK, StartNow, Answerable, Raise, Return, Leave, Begin, MoveWith,
            Asking, Bringing
    <2>2. process' = process /\ reader' = reader BY <1>5 DEF StartNow, childVars
    <2>. QED BY <2>1, <2>2, AnswerableKeeps DEF Outdated
<1>6. CASE StartNow(t) /\ ~Ready(process) /\ ~Unwanted(t)
    <2>1. ~Outdated BY <1>6 DEF StartNow, Unwanted, Outdated, Asking
    <2>2. pc[t] # "retire" /\ pc'[t] = "spawning" /\ wake' = wake /\ goal' = goal /\ asked' = asked
        BY <1>6 DEF IInv, TypeOK, StartNow, MoveWith
    <2>3. CallersInv' BY <2>2 DEF CallersInv, OthersStay, Asking
    <2>4. ~OutOfReach => ~OutOfReach' BY <2>2 DEF OutOfReach, OthersStay, Thread
    <2>5. StopComing => StopComing' BY <2>2 DEF StopComing, OthersStay
    <2>. QED BY <2>1, <2>3, <2>4, <2>5
<1>7. CASE Spawn(t)
    <2>1. pc[t] # "retire" /\ Answerable(t)
        BY <1>7
            DEF IInv, TypeOK, Spawn, Answerable, Move, MoveWith, Asking, Bringing,
                engineVars
    <2>2. process' = process BY <1>7 DEF Spawn, engineVars
    <2>3. Outdated => gen[t] # generation BY <1>7 DEF Spawn, Outdated, Bringing
    <2>4. ASSUME Outdated, NEW g \in Generation, g = generation PROVE reader'[g] = "none"
        BY <1>7, <2>3, <2>4 DEF IInv, TypeOK, Spawn, Outdated
    <2>. QED BY <2>1, <2>2, <2>4, AnswerableKeeps DEF Outdated
<1>8. CASE AwaitReady(t) \/ GiveUp(t) \/ AnnounceError(t)
    <2>1. pc[t] # "retire" /\ Answerable(t)
        BY <1>8
            DEF IInv, TypeOK, AwaitReady, GiveUp, AnnounceError, Answerable, Raise, Leave,
            Begin, Move, MoveWith, Asking, Bringing, engineVars
    <2>2. process' = process /\ reader' = reader
        BY <1>8 DEF AwaitReady, GiveUp, AnnounceError, engineVars, childVars
    <2>. QED BY <2>1, <2>2, AnswerableKeeps DEF Outdated
<1>9. CASE Fail(t)
    <2>1. pc[t] # "retire" /\ Answerable(t)
        BY <1>9
            DEF IInv, TypeOK, Fail, Answerable, Raise, Leave, Begin, Move, MoveWith, Asking,
            Bringing
    <2>2. process' \in {process, NoChild} /\ reader' = reader BY <1>9 DEF Fail, childVars
    <2>. QED BY <2>1, <2>2, AnswerableKeeps DEF Outdated
<1>10. CASE Publish(t)
    <2>1. pc[t] # "retire" /\ Answerable(t)
        BY <1>10 DEF IInv, TypeOK, Publish, Answerable, Move, MoveWith, Asking, Bringing
    <2>2. Outdated => Superseded(t) BY <1>10 DEF Publish, Superseded, Outdated, Bringing
    <2>3. (Superseded(t) => process' = process) /\ reader' = reader BY <1>10 DEF Publish
    <2>. QED BY <2>1, <2>2, <2>3, AnswerableKeeps DEF Outdated
<1>11. CASE AnnounceReady(t) \/ CloseStale(t) \/ Register(t) \/ Released(t)
    <2>1. pc[t] # "retire" /\ Answerable(t)
        BY <1>11
            DEF IInv, TypeOK, AnnounceReady, CloseStale, Register, Released, Answerable,
            Raise, Return, Leave, Begin, Move, MoveWith, Asking, Bringing, engineVars
    <2>2. process' = process /\ reader' = reader
        BY <1>11 DEF AnnounceReady, CloseStale, Register, Released, engineVars, childVars
    <2>. QED BY <2>1, <2>2, AnswerableKeeps DEF Outdated
<1>12. CASE CloseRetired(t) \/ AnnounceSleep(t) \/ AnnounceLoss(t)
    <2>1. pc[t] # "retire" /\ Answerable(t)
        BY <1>12 DEF IInv, TypeOK, CloseRetired, AnnounceSleep, AnnounceLoss, AfterRetire,
            Answerable, Leave, Begin, Move, MoveWith, Asking, Bringing, engineVars
    <2>2. process' = process /\ reader' = reader
        BY <1>12 DEF CloseRetired, AnnounceSleep, AnnounceLoss, engineVars, childVars
    <2>. QED BY <2>1, <2>2, AnswerableKeeps DEF Outdated
<1>. QED
    BY <1>1, <1>2, <1>3, <1>4, <1>5, <1>6, <1>7, <1>8, <1>9, <1>10, <1>11, <1>12
    DEF EngineThread

\* The children and their readers: a child of an earlier generation is not news.
LEMMA ChildrenKeepStop ==
    ASSUME IInv, CallersInv, NEW g \in Generation,
           EngineReader(g) \/ ChildBuilt(g) \/ ChildFailed(g) \/ ChildCrashes(g)
    PROVE  CallersInv' /\ StopKept
<1>. USE DEF StopKept
<1>1. CASE \E t \in Helpers : ChildLost(g, t)
    <2>1. PICK t \in Helpers : ChildLost(g, t) BY <1>1
    <2>2. t \in Thread /\ t # Exec BY EngineAssumption DEF Thread
    <2>3. OthersStay(t) /\ pc[t] = "idle" /\ pc'[t] = "announce_loss" /\ asked'[t] = wake
          /\ goal'[t] \in {"recover", "none"} /\ wake' = wake
        BY <2>1, <2>2 DEF IInv, TypeOK, OthersStay, ChildLost, Begin
    <2>4. wake \in Nat BY EngineAssumption DEF IInv, TypeOK
    <2>5. ~Outdated BY <2>1 DEF ChildLost, Outdated
    <2>6. CallersInv' BY <2>3, <2>4 DEF CallersInv, OthersStay, AnyWake, Asking
    <2>7. ~OutOfReach => ~OutOfReach' BY <2>2, <2>3 DEF OutOfReach, OthersStay, Thread
    <2>8. StopComing => StopComing' BY <2>3 DEF StopComing, OthersStay
    <2>. QED BY <2>5, <2>6, <2>7, <2>8
<1>2. CASE ReaderSeesEnd(g) \/ ChildIgnored(g) \/ ChildBuilt(g) \/ ChildFailed(g)
           \/ ChildCrashes(g)
    <2>1. UNCHANGED <<engineVars, threadVars>>
        BY <1>2 DEF ReaderSeesEnd, ChildIgnored, ChildBuilt, ChildFailed, ChildCrashes
    <2>2. \A c \in Generation : reader[c] = "none" => reader'[c] = "none"
        BY <1>2 DEF IInv, TypeOK, ReaderSeesEnd, ChildIgnored, ChildBuilt, ChildFailed,
            ChildCrashes
    <2>3. CallersInv' BY <2>1 DEF CallersInv, engineVars, threadVars
    <2>4. ~OutOfReach => ~OutOfReach' BY <2>1 DEF OutOfReach, threadVars
    <2>5. StopComing => StopComing' BY <2>1 DEF StopComing, threadVars
    <2>6. Outdated => Outdated' BY <2>1, <2>2 DEF Outdated, engineVars, threadVars
    <2>. QED BY <2>3, <2>4, <2>5, <2>6
<1>. QED BY <1>1, <1>2 DEF EngineReader

\* A call begins: by a helper that asks for residency, or one that retires.
LEMMA BeginKeepsStop ==
    ASSUME IInv, CallersInv, NEW t \in Thread, pc[t] = "idle", NEW step, NEW why, NEW epoch,
           Begin(t, step, why, epoch),
           UNCHANGED <<generation, wake, process, reader>>, why = "stop" => t # Exec,
           \/ step = "ensure" /\ why = "prepare" /\ epoch = wake
           \/ step \in {"retire", "close"} /\ why \in {"stop", "release", "close"} /\ epoch = AnyWake
    PROVE  /\ CallersInv'
           /\ ~OutOfReach => ~OutOfReach'
           /\ StopComing => StopComing'
           /\ step # "ensure" /\ Outdated => Outdated'
<1>1. OthersStay(t) /\ pc'[t] = step /\ goal'[t] = why /\ asked'[t] = epoch
    BY DEF IInv, TypeOK, Begin, OthersStay
<1>2. wake \in Nat BY EngineAssumption DEF IInv, TypeOK
<1>3. CallersInv'
    BY <1>1, <1>2 DEF CallersInv, OthersStay, AnyWake, Asking
<1>4. ~OutOfReach => ~OutOfReach' BY <1>1 DEF OutOfReach, OthersStay, Thread
<1>5. StopComing => StopComing' BY <1>1 DEF StopComing, OthersStay
<1>6. step # "ensure" /\ Outdated => Outdated'
    BY <1>1 DEF Outdated, OthersStay, Asking, Bringing
<1>. QED BY <1>3, <1>4, <1>5, <1>6

-----------------------------------------------------------------------------
(* The session's operations *)

\* What the owner does to the engine: it may reset the allowance and begin one call
\* on an idle thread.
LEMMA OwnerCallInvariant ==
    ASSUME IInv, NothingElse,
           BudgetReset \/ UNCHANGED <<budget, blocked, recoveries>>,
           \/ UNCHANGED threadVars
           \/ \E t \in Thread, step \in {"ensure", "retire"},
                 why \in {"prepare", "stop", "release"}, epoch \in {wake, AnyWake} :
                 pc[t] = "idle" /\ Begin(t, step, why, epoch)
    PROVE  IInv'
<1>1. ASSUME UNCHANGED threadVars PROVE IInv'
    <2>1. CASE BudgetReset
        <3>1. ResetBudget BY <1>1, <2>1 DEF ResetBudget, NothingElse
        <3>. QED BY <3>1, ResetBudgetInvariant
    <2>2. CASE UNCHANGED <<budget, blocked, recoveries>>
        <3>1. UNCHANGED evars BY <1>1, <2>2 DEF NothingElse, evars, engineVars
        <3>. QED BY <3>1, StepInvariant
    <2>. QED BY <2>1, <2>2
<1>2. ASSUME NEW t \in Thread, NEW step \in {"ensure", "retire"},
             NEW why \in {"prepare", "stop", "release"}, NEW epoch \in {wake, AnyWake},
             pc[t] = "idle", Begin(t, step, why, epoch)
      PROVE  IInv'
    <2>1. budget' \in 0..RecoveryBudget /\ recoveries' \in Nat /\ blocked' \in BOOLEAN
          /\ budget' + recoveries' = RecoveryBudget
        <3>1. CASE BudgetReset
            <4>1. budget' = RecoveryBudget /\ recoveries' = 0 /\ blocked' = FALSE
                BY <3>1 DEF BudgetReset
            <4>2. RecoveryBudget \in Nat BY EngineAssumption
            <4>3. budget' \in 0..RecoveryBudget /\ budget' + recoveries' = RecoveryBudget
                BY <4>1, <4>2
            <4>4. blocked' \in BOOLEAN BY <4>1
            <4>. QED BY <4>1, <4>3, <4>4
        <3>2. CASE UNCHANGED <<budget, blocked, recoveries>>
            BY <3>2 DEF IInv, TypeOK, CountsInv
        <3>. QED BY <3>1, <3>2
    <2>2. TypeOK'
        <3>1. closed' \in BOOLEAN BY DEF IInv, TypeOK, NothingElse
        <3>2. pc' \in [Thread -> Step] /\ goal' \in [Thread -> Goal]
            BY <1>2 DEF IInv, TypeOK, Begin, Step, Goal
        <3>3. asked' \in [Thread -> 0..MaxGeneration \cup {AnyWake}]
              /\ gen' \in [Thread -> Generation \cup {NoChild}]
            BY <1>2 DEF IInv, TypeOK, Begin
        <3>. QED BY <2>1, <3>1, <3>2, <3>3 DEF IInv, TypeOK, NothingElse, childVars
    <2>3. CountsInv' BY <2>1 DEF IInv, CountsInv, NothingElse
    <2>4. LockInv' BY <1>2 DEF IInv, LockInv, Begin, Locked
    <2>5. ReaderInv' BY DEF IInv, ReaderInv, NothingElse, childVars
    <2>6. HandInv' BY <1>2 DEF IInv, HandInv, Begin, NothingElse, childVars, Holding, Owning
    <2>7. ResidentInv' BY DEF IInv, ResidentInv, NothingElse, childVars
    <2>8. NoOrphanChild'
        BY <1>2 DEF IInv, TypeOK, NoOrphanChild, Begin, NothingElse, childVars
    <2>. QED BY <2>2, <2>3, <2>4, <2>5, <2>6, <2>7, <2>8 DEF IInv
<1>. QED BY <1>1, <1>2

\* The thread the owner calls on is not the executor's.
LEMMA OwnersThreads == Exec \in Thread /\ Owner \in Thread \ {Exec} /\ Background \subseteq Thread \ {Exec}
BY EngineAssumption, SessionAssumption DEF Thread, Background

LEMMA PrepareResidentKeeps ==
    ASSUME IInv, CallersInv, PrepareResident, NothingElse,
           BudgetReset \/ UNCHANGED <<budget, blocked, recoveries>>
    PROVE  IInv' /\ CallersInv'
<1>1. CASE UNCHANGED threadVars
    <2>1. IInv' BY <1>1, OwnerCallInvariant
    <2>2. CallersInv' BY <1>1 DEF CallersInv, NothingElse, threadVars
    <2>. QED BY <2>1, <2>2
<1>2. ASSUME NEW t \in Background, pc[t] = "idle", Begin(t, "ensure", "prepare", wake)
      PROVE  IInv' /\ CallersInv'
    <2>1. t \in Thread BY OwnersThreads
    <2>2. IInv' BY <1>2, <2>1, OwnerCallInvariant
    <2>3. CallersInv' BY <1>2, <2>1, BeginKeepsStop DEF NothingElse, childVars
    <2>. QED BY <2>2, <2>3
<1>. QED BY <1>1, <1>2 DEF PrepareResident

\* stop() and the wait of a resource update begin a retirement: what that Stop
\* cannot reach any more it says so of.
LEMMA StopWatchingKeeps ==
    ASSUME SInv, OwnerFree("prepared"), StopWatching
    PROVE  SInv'
<1>1. PICK t \in Background : pc[t] = "idle" /\ Begin(t, "retire", "stop", AnyWake)
    BY DEF StopWatching
<1>2. t \in Thread /\ IInv /\ CallersInv BY OwnersThreads DEF SInv
<1>3. NothingElse /\ UNCHANGED <<budget, blocked, recoveries>> BY DEF StopWatching
<1>4. IInv' BY <1>1, <1>2, <1>3, OwnerCallInvariant
<1>5. CallersInv' /\ (~OutOfReach => ~OutOfReach')
    <2>1. UNCHANGED <<generation, wake, process, reader>> BY <1>3 DEF NothingElse, childVars
    <2>2. t # Exec BY OwnersThreads
    <2>. QED BY <1>1, <1>2, <2>1, <2>2, BeginKeepsStop
<1>6. StopComing' BY <1>1, <1>2 DEF StopComing, IInv, TypeOK, Begin
<1>7. FinalInv' BY <1>5, <1>6 DEF FinalInv, StopWatching, Discard
<1>8. session' # "new" BY DEF StopWatching, OwnerFree
<1>. QED BY <1>4, <1>5, <1>7, <1>8 DEF SInv

\* What the owner retires itself.
LEMMA OwnerReleases ==
    ASSUME IInv, CallersInv, pc[Owner] = "idle", Begin(Owner, "retire", "release", AnyWake),
           NothingElse, UNCHANGED <<budget, blocked, recoveries>>
    PROVE  IInv' /\ CallersInv' /\ StopKept
<1>1. Owner \in Thread BY OwnersThreads
<1>2. IInv' BY <1>1, OwnerCallInvariant
<1>3. UNCHANGED <<generation, wake, process, reader>> BY DEF NothingElse, childVars
<1>. QED BY <1>1, <1>2, <1>3, BeginKeepsStop DEF StopKept

LEMMA NothingAsked ==
    ASSUME IInv, CallersInv, UNCHANGED evars
    PROVE  IInv' /\ CallersInv' /\ StopKept
<1>1. IInv' BY StepInvariant
<1>2. CallersInv' BY DEF CallersInv, evars, engineVars, threadVars
<1>3. ~OutOfReach => ~OutOfReach' BY DEF OutOfReach, evars, threadVars
<1>4. Outdated => Outdated' BY DEF Outdated, evars, engineVars, threadVars, childVars
<1>5. StopComing => StopComing' BY DEF StopComing, evars, threadVars
<1>. QED BY <1>1, <1>2, <1>3, <1>4, <1>5 DEF StopKept

\* Until something is asked for again, the owner's operations change nothing of what
\* a Stop has achieved; what asks for residency takes the Stop back.
LEMMA OwnerKeeps ==
    ASSUME SInv, OwnerSteps
    PROVE  SInv'
<1>. USE DEF SInv
<1>1. CASE PrepareSession
    <2>1. ~stopped' /\ NothingElse /\ UNCHANGED <<budget, blocked, recoveries>>
        BY <1>1 DEF PrepareSession, historyVars, OwnerFree
    <2>2. CASE PrepareResident
        BY <2>1, <2>2, PrepareResidentKeeps DEF FinalInv
    <2>3. CASE UNCHANGED threadVars
        <3>1. IInv' BY <2>1, <2>3, OwnerCallInvariant
        <3>2. CallersInv' BY <2>1, <2>3 DEF CallersInv, NothingElse, threadVars
        <3>. QED BY <2>1, <3>1, <3>2 DEF FinalInv
    <2>. QED BY <1>1, <2>2, <2>3 DEF PrepareSession
<1>2. CASE Start
    <2>1. ~stopped' /\ NothingElse /\ BudgetReset BY <1>2 DEF Start
    <2>2. CASE PrepareResident
        BY <2>1, <2>2, PrepareResidentKeeps DEF FinalInv
    <2>3. CASE UNCHANGED threadVars
        <3>1. IInv' BY <2>1, <2>3, OwnerCallInvariant
        <3>2. CallersInv' BY <2>1, <2>3 DEF CallersInv, NothingElse, threadVars
        <3>. QED BY <2>1, <3>1, <3>2 DEF FinalInv
    <2>. QED BY <1>2, <2>2, <2>3 DEF Start
<1>3. CASE StopSession \/ InstallBegins
    BY <1>3, StopWatchingKeeps DEF StopSession, InstallBegins
<1>4. CASE RequestLookup
    <2>1. ~stopped' /\ UNCHANGED evars BY <1>4 DEF RequestLookup
    <2>. QED BY <2>1, NothingAsked DEF FinalInv, StopKept
<1>5. CASE IdleExpired
    <2>1. pc[Owner] = "idle" /\ Begin(Owner, "retire", "release", AnyWake) /\ NothingElse
          /\ UNCHANGED <<budget, blocked, recoveries, pending, historyVars, session>>
        BY <1>5 DEF IdleExpired, OwnerFree, NothingElse, engineVars
    <2>2. FinalInv' BY <2>1, OwnerReleases DEF FinalInv, StopKept, historyVars
    <2>. QED BY <2>1, <2>2, OwnerReleases DEF historyVars
<1>6. ASSUME NEW p \in Policy, SetPolicy(p) PROVE SInv'
    <2>1. NothingElse
          /\ UNCHANGED <<budget, blocked, recoveries, pending, reached, session>>
          /\ session = "prepared" /\ pc[Owner] = "idle"
        BY <1>6 DEF SetPolicy, OwnerFree
    <2>2. CASE p = "always"
        <3>1. ~stopped' /\ PrepareResident BY <1>6, <2>2 DEF SetPolicy
        <3>. QED BY <2>1, <3>1, PrepareResidentKeeps DEF FinalInv
    <2>3. CASE p # "always" /\ Begin(Owner, "retire", "release", AnyWake)
        <3>1. stopped' <=> stopped BY <1>6, <2>3 DEF SetPolicy
        <3>2. FinalInv' BY <2>1, <2>3, <3>1, OwnerReleases DEF FinalInv, StopKept
        <3>. QED BY <2>1, <2>3, <3>1, <3>2, OwnerReleases
    <2>4. CASE p # "always" /\ UNCHANGED threadVars
        <3>1. stopped' <=> stopped BY <1>6, <2>4 DEF SetPolicy
        <3>2. UNCHANGED evars BY <1>6, <2>1, <2>4 DEF NothingElse, evars, engineVars
        <3>. QED BY <2>1, <3>1, <3>2, NothingAsked DEF FinalInv, StopKept
    <2>. QED BY <1>6, <2>2, <2>3, <2>4 DEF SetPolicy
<1>7. CASE ShutDown
    <2>1. UNCHANGED <<evars, historyVars>> /\ ~pending' /\ session' # "new"
        BY <1>7 DEF ShutDown, Discard
    <2>. QED BY <2>1, NothingAsked DEF FinalInv, StopKept, historyVars
<1>. QED BY <1>1, <1>2, <1>3, <1>4, <1>5, <1>6, <1>7 DEF OwnerSteps

\* The executor thread: what it would still do without an epoch is out of the reach
\* of a Stop, and said to be.
LEMMA ExecutorKeeps ==
    ASSUME IInv, CallersInv, Attach(policy = "always") \/ LeaveLoop \/ Close
             \/ Replied(Exec)
    PROVE  IInv' /\ CallersInv' /\ StopKept
<1>. USE DEF StopKept
<1>0. Exec \in Thread BY DEF Thread
<1>1. CASE Attach(policy = "always")
    <2>1. (policy = "always") \in BOOLEAN OBVIOUS
    <2>2. IInv' BY <1>0, <1>1, <2>1, QuietSteps
    <2>3. OutOfReach BY <1>1 DEF Attach, OutOfReach
    <2>4. OthersStay(Exec) /\ wake' = wake
          /\ \/ pc'[Exec] = "ensure" /\ goal'[Exec] = "attach" /\ asked'[Exec] = AnyWake
             \/ pc'[Exec] = "idle" /\ goal'[Exec] = "none" /\ asked'[Exec] = AnyWake
        BY <1>0, <1>1 DEF IInv, TypeOK, Attach, Leave, Begin, OthersStay, engineVars
    <2>5. wake \in Nat BY EngineAssumption DEF IInv, TypeOK
    <2>6. CallersInv' BY <2>4, <2>5 DEF CallersInv, OthersStay, AnyWake, Asking
    <2>. QED BY <2>2, <2>3, <2>6
<1>2. CASE LeaveLoop
    <2>1. IInv' BY <1>0, <1>2, QuietSteps
    <2>2. UNCHANGED <<generation, wake, process, reader>>
        BY <1>2 DEF LeaveLoop, engineVars, childVars
    <2>. QED BY <1>0, <1>2, <2>1, <2>2, BeginKeepsStop DEF LeaveLoop
<1>3. CASE Close
    <2>1. IInv' BY <1>3, CloseInvariant
    <2>2. OthersStay(Exec) /\ pc[Exec] # "retire" /\ Answerable(Exec)
        BY <1>0, <1>3
            DEF IInv, TypeOK, Close, Move, MoveWith, OthersStay, Answerable, Asking,
            Bringing
    <2>3. process' = process /\ reader' = reader BY <1>3 DEF Close, childVars
    <2>. QED BY <1>0, <2>1, <2>2, <2>3, AnswerableKeeps DEF Outdated
<1>4. CASE Replied(Exec)
    <2>1. IInv' BY <1>0, <1>4, QuietSteps
    <2>2. OthersStay(Exec) /\ pc[Exec] # "retire" /\ Answerable(Exec)
        BY <1>0, <1>4
            DEF IInv, TypeOK, Replied, Leave, Begin, OthersStay, Answerable, Asking,
            Bringing, engineVars
    <2>3. process' = process /\ reader' = reader BY <1>4 DEF Replied, engineVars, childVars
    <2>. QED BY <1>0, <2>1, <2>2, <2>3, AnswerableKeeps DEF Outdated
<1>. QED BY <1>1, <1>2, <1>3, <1>4

LEMMA EngineStepsKeep ==
    ASSUME SInv, EngineSteps
    PROVE  IInv' /\ CallersInv' /\ StopKept
<1>. USE DEF SInv
<1>1. CASE \E t \in Thread : EngineThread(t) BY <1>1, ThreadInvariant, ThreadKeepsStop
<1>2. CASE \E g \in Generation :
              EngineReader(g) \/ ChildBuilt(g) \/ ChildFailed(g) \/ ChildCrashes(g)
    <2>1. IInv'
        BY <1>2, ReaderSeesEndInvariant, ChildIgnoredInvariant, ChildLostInvariant,
           ChildBuiltInvariant, ChildFailedInvariant, ChildCrashesInvariant
        DEF EngineReader, Thread
    <2>. QED BY <1>2, <2>1, ChildrenKeepStop
<1>3. CASE ExecutorSteps BY <1>3, ExecutorKeeps DEF ExecutorSteps
<1>. QED BY <1>1, <1>2, <1>3 DEF EngineSteps

LEMMA SessionStep == SInv /\ [SessionNext]_svars => SInv'
<1>. SUFFICES ASSUME SInv, [SessionNext]_svars PROVE SInv' OBVIOUS
<1>1. CASE OwnerSteps BY <1>1, OwnerKeeps
<1>2. CASE TakeRequest
    <2>1. Lookup /\ pending /\ UNCHANGED <<session, historyVars>> BY <1>2 DEF TakeRequest
    <2>2. Exec \in Thread BY DEF Thread
    <2>3. IInv' BY <2>1, <2>2, QuietSteps DEF SInv
    <2>4. wake \in Nat BY EngineAssumption DEF SInv, IInv, TypeOK
    <2>5. CallersInv'
        BY <2>1, <2>2, <2>4
        DEF SInv, IInv, TypeOK, Lookup, Begin, CallersInv, engineVars, AnyWake, Asking
    <2>. QED BY <2>1, <2>3, <2>5 DEF SInv, FinalInv, historyVars
<1>3. CASE WaitEnds
    <2>1. UNCHANGED <<evars, session, pending, historyVars>> BY <1>3 DEF WaitEnds
    <2>. QED BY <2>1, NothingAsked DEF SInv, FinalInv, StopKept, historyVars
<1>4. ASSUME NEW t \in Helpers, SettleStop(t) PROVE SInv'
    <2>1. t \in Thread /\ Settle(t) /\ UNCHANGED <<session, pending, historyVars>>
        BY <1>4 DEF SettleStop, Thread
    <2>2. IInv' BY <2>1, QuietSteps DEF SInv
    <2>3. OthersStay(t) /\ pc[t] # "retire" /\ Answerable(t)
        BY <2>1
            DEF SInv, IInv, TypeOK, Settle, Leave, Begin, OthersStay, Answerable, Asking,
            Bringing, engineVars
    <2>4. process' = process /\ reader' = reader BY <2>1 DEF Settle, engineVars, childVars
    <2>5. CallersInv' /\ StopKept
        BY <2>1, <2>3, <2>4, AnswerableKeeps DEF SInv, Outdated, StopKept
    <2>. QED BY <2>1, <2>2, <2>5 DEF SInv, FinalInv, StopKept, historyVars
<1>5. CASE EngineSteps
    <2>1. UNCHANGED <<session, pending, stopped, reached>>
        BY <1>5 DEF EngineSteps, sessionVars, historyVars
    <2>. QED BY <1>5, <2>1, EngineStepsKeep DEF SInv, FinalInv, StopKept
<1>6. CASE UNCHANGED svars
    <2>1. UNCHANGED <<evars, session, pending, historyVars>>
        BY <1>6 DEF svars, sessionVars, historyVars
    <2>. QED BY <2>1, NothingAsked DEF SInv, FinalInv, StopKept, historyVars
<1>. QED BY <1>1, <1>2, <1>3, <1>4, <1>5, <1>6 DEF SessionNext

LEMMA SessionInit == Init => SInv
<1>. SUFFICES ASSUME Init PROVE SInv OBVIOUS
<1>1. IInv BY InitInvariant DEF Init
<1>2. CallersInv
    BY EngineAssumption DEF Init, EngineInit, CallersInv, AnyWake, Asking
<1>. QED BY <1>1, <1>2 DEF Init, SInv, FinalInv

\* Over a whole session, whatever the owner asks for and the executor thread is
\* given, the engine's invariant holds, and a Stop that reached every request
\* keeps what it has achieved.
THEOREM SessionInvariantHolds == SessionSpec => []SInv
<1>. QED BY SessionInit, SessionStep, PTL DEF SessionSpec

\* stop(): once every thread is done with it, no child is left running, also none
\* that was still loading when the user stopped.
THEOREM StopReleasesHolds == SessionSpec => []StopReleases
<1>1. SInv => StopReleases
    <2>. SUFFICES ASSUME SInv, stopped, reached,
                         \A t \in Thread : pc[t] \in {"idle", "asking", "ended"}
                  PROVE  alive = {}
        BY DEF StopReleases
    <2>1. ~StopComing BY DEF StopComing
    <2>2. process = NoChild BY <2>1 DEF SInv, FinalInv, Outdated
    <2>3. alive \subseteq Generation BY DEF SInv, IInv, TypeOK
    <2>. QED BY <2>2, <2>3 DEF SInv, IInv, NoOrphanChild, NoChild, Generation
<1>. QED BY <1>1, SessionInvariantHolds, PTL

\* stop(), then _start_now and _publish: after a Stop that reached every request,
\* nothing becomes resident until the user asks for something again.
THEOREM NothingLoadsHolds == SessionSpec => NothingLoadsAfterStop
<1>1. SInv /\ [SessionNext]_svars
        => [stopped /\ reached /\ ~StopUnderWay => process' \in {process, NoChild}]_svars
    <2>. SUFFICES ASSUME SInv, SessionNext, stopped, reached, ~StopUnderWay
                  PROVE  process' \in {process, NoChild}
        OBVIOUS
    <2>1. ~StopComing BY DEF StopComing, StopUnderWay, SInv, CallersInv, Thread
    <2>2. Outdated /\ ~OutOfReach BY <2>1 DEF SInv, FinalInv
    <2>3. CASE OwnerSteps
        BY <2>3
        DEF OwnerSteps, PrepareSession, Start, StopSession, InstallBegins, StopWatching,
            RequestLookup, IdleExpired, SetPolicy, ShutDown, NothingElse, evars, engineVars
    <2>4. CASE TakeRequest \/ WaitEnds \/ \E t \in Helpers : SettleStop(t)
        BY <2>4
        DEF TakeRequest, Lookup, WaitEnds, SettleStop, Settle, evars, engineVars
    <2>5. CASE EngineSteps BY <2>2, <2>5, EngineStepsKeep DEF StopKept, Outdated
    <2>. QED BY <2>3, <2>4, <2>5 DEF SessionNext
<1>. QED BY <1>1, SessionInvariantHolds, PTL DEF SessionSpec, NothingLoadsAfterStop
=============================================================================
