----------------------- MODULE LookupExecutionProofs -----------------------
(***************************************************************************)
(* Proofs about LookupExecution for every number of requests and every     *)
(* queue capacity: its type invariant, that only the latest request is     *)
(* ever presented and only once, that no current request is forgotten,     *)
(* and that it implements LatestAnswer.                                    *)
(***************************************************************************)
EXTENDS LookupExecution, TLAPS

\* r has an answer on its way to the owner.
IsAnswer(i) == callbacks[i].kind = "answer"
Queued(r) == \E i \in DOMAIN callbacks : IsAnswer(i) /\ callbacks[i].id = r

Latest == nextRequestId - 1

\* Ids are handed out in order, and the current one is the latest.
IdsInv ==
    /\ current # None => current = Latest /\ current \notin cancelled
    /\ stopped => current = None
    /\ pending <= Latest /\ item <= Latest
    /\ \A r \in cancelled : r <= Latest
    /\ \A r \in Request : presented[r] # 0 => r <= Latest
    /\ \A i \in DOMAIN callbacks : callbacks[i].id <= Latest
    /\ ownerPc = "submitting" => /\ Latest \in Request
                                 /\ pending < Latest /\ item < Latest
                                 /\ presented[Latest] = 0
                                 /\ current = Latest

\* What the executor's state says of its thread, of the slot and of a stop.
PhaseInv ==
    /\ execState = "new" => thread = "none" /\ pending = None
    /\ thread = "none" => execState \in {"new", "failed", "stopped"}
    /\ thread \in {"constructing", "waiting", "working", "reporting"} =>
          execState \in {"running", "stopping"}
    /\ thread \in {"init_failed", "reporting_failure"} => execState = "failed"
    /\ thread \in {"closing", "close_failed"} => execState = "stopping"
    /\ thread = "finalizing" => execState \in {"failed", "stopping"}
    /\ execState \in {"stopping", "stopped"} => stopped
    /\ ownerPc = "stopping" => stopped
    /\ execState \in {"new", "running"} => ~stopRequested
    /\ pending # None => execState \in {"running", "stopping"}
    /\ item # None <=> thread \in {"working", "reporting"}
    /\ thread = "reporting" /\ outcome = "cancelled" => item \in cancelled \cup retired

\* Before the worker exists nothing can have been answered.
NothingAnswered ==
    thread \in {"none", "constructing", "init_failed", "reporting_failure"} =>
       /\ \A i \in DOMAIN callbacks : ~IsAnswer(i)
       /\ \A r \in Request : presented[r] = 0

\* A request has at most one answer: it is queued, running, waiting or done.
OnceInv ==
    /\ \A i, j \in DOMAIN callbacks :
          IsAnswer(i) /\ IsAnswer(j) /\ callbacks[i].id = callbacks[j].id => i = j
    /\ \A i \in DOMAIN callbacks : IsAnswer(i) =>
          /\ presented[callbacks[i].id] = 0
          /\ callbacks[i].id # pending /\ callbacks[i].id # item
    /\ pending # None => presented[pending] = 0
    /\ item # None => presented[item] = 0
    /\ pending # None /\ item # None => item < pending
    /\ ownerPc = "submitting" /\ execState # "failed" => ~Queued(Latest)

TrackedInv ==
    current # None /\ ownerPc = "idle" =>
       \/ current = pending
       \/ current = item
       \/ thread \in {"init_failed", "reporting_failure"}
       \/ Queued(current)
       \/ presented[current] > 0
       \/ current \in lost \cup retired

IInv == TypeOK /\ IdsInv /\ PhaseInv /\ NothingAnswered /\ OnceInv /\ TrackedInv

USE BoundsAssumption DEF None, Request

-----------------------------------------------------------------------------
(* The callback queue *)

\* What the queue holds is typed: an answer names a request.
LEMMA QueueTyped ==
    ASSUME TypeOK
    PROVE  /\ DOMAIN callbacks = 1..Len(callbacks) /\ Len(callbacks) \in Nat
           /\ \A i \in DOMAIN callbacks :
                 /\ callbacks[i] \in Callback
                 /\ callbacks[i].id \in Request \cup {None}
                 /\ IsAnswer(i) => callbacks[i].id \in Request
BY DEF TypeOK, Callback, IsAnswer

\* Posting an answer adds that answer and leaves the others in their places.
LEMMA PostAnswerFacts ==
    ASSUME TypeOK, NEW r \in Request, PostAnswer(r)
    PROVE  /\ callbacks' \in Seq(Callback) /\ Len(callbacks') <= QueueCapacity
           /\ lost' \subseteq Request /\ lost \subseteq lost'
           /\ \A i \in DOMAIN callbacks :
                 i \in DOMAIN callbacks' /\ callbacks'[i] = callbacks[i]
           /\ \A i \in DOMAIN callbacks' : i \notin DOMAIN callbacks =>
                 /\ i = Len(callbacks) + 1
                 /\ callbacks'[i] = [kind |-> "answer", id |-> r]
           /\ \/ r \in lost'
              \/ \E i \in DOMAIN callbacks' :
                    callbacks'[i] = [kind |-> "answer", id |-> r]
<1>1. CASE HasRoom
  <2> DEFINE c == [kind |-> "answer", id |-> r]
  <2>1. c \in Callback /\ callbacks' = Append(callbacks, c) /\ lost' = lost
    BY <1>1 DEF PostAnswer, Callback
  <2>2. /\ Append(callbacks, c) \in Seq(Callback)
        /\ Len(callbacks) \in Nat /\ DOMAIN callbacks = 1..Len(callbacks)
        /\ Len(Append(callbacks, c)) = Len(callbacks) + 1
        /\ DOMAIN Append(callbacks, c) = 1..(Len(callbacks) + 1)
        /\ \A i \in 1..Len(callbacks) : Append(callbacks, c)[i] = callbacks[i]
        /\ Append(callbacks, c)[Len(callbacks) + 1] = c
    BY <2>1 DEF TypeOK
  <2>3. lost \subseteq Request /\ Len(callbacks) < QueueCapacity
    BY <1>1 DEF TypeOK, HasRoom
  <2> QED
    BY <2>1, <2>2, <2>3
<1>2. CASE ~HasRoom
  BY <1>2 DEF PostAnswer, TypeOK
<1> QED
  BY <1>1, <1>2

\* Posting any other callback adds no answer.
LEMMA PostOtherFacts ==
    ASSUME TypeOK, HasRoom, NEW c \in Callback, c.kind # "answer",
           callbacks' = Append(callbacks, c)
    PROVE  /\ callbacks' \in Seq(Callback) /\ Len(callbacks') <= QueueCapacity
           /\ \A i \in DOMAIN callbacks :
                 i \in DOMAIN callbacks' /\ callbacks'[i] = callbacks[i]
           /\ \A i \in DOMAIN callbacks' : i \notin DOMAIN callbacks => callbacks'[i] = c
<1>1. /\ Append(callbacks, c) \in Seq(Callback)
      /\ Len(callbacks) \in Nat /\ DOMAIN callbacks = 1..Len(callbacks)
      /\ Len(Append(callbacks, c)) = Len(callbacks) + 1
      /\ DOMAIN Append(callbacks, c) = 1..(Len(callbacks) + 1)
      /\ \A i \in 1..Len(callbacks) : Append(callbacks, c)[i] = callbacks[i]
      /\ Append(callbacks, c)[Len(callbacks) + 1] = c
  BY DEF TypeOK
<1> QED
  BY <1>1 DEF TypeOK, HasRoom

\* Running the oldest callback moves the others up by one.
LEMMA RunFacts ==
    ASSUME TypeOK, callbacks # <<>>
    PROVE  /\ Tail(callbacks) \in Seq(Callback)
           /\ Len(callbacks) \in Nat \ {0}
           /\ Len(Tail(callbacks)) = Len(callbacks) - 1
           /\ DOMAIN callbacks = 1..Len(callbacks)
           /\ DOMAIN Tail(callbacks) = 1..(Len(callbacks) - 1)
           /\ \A i \in DOMAIN Tail(callbacks) :
                 i + 1 \in DOMAIN callbacks /\ Tail(callbacks)[i] = callbacks[i + 1]
           /\ 1 \in DOMAIN callbacks
           /\ Head(callbacks) = callbacks[1] /\ Head(callbacks) \in Callback
BY DEF TypeOK

-----------------------------------------------------------------------------
(* The inductive invariant *)

\* A finished job's answer is either dropped, its request being cancelled or its
\* child retired, or posted.
LEMMA ReportFacts ==
    ASSUME TypeOK, PhaseInv, Report
    PROVE  /\ item \in Request
           /\ \/ UNCHANGED <<callbacks, lost>> /\ item \in cancelled \cup retired
              \/ PostAnswer(item)
BY DEF TypeOK, PhaseInv, Report, loopVars

\* The owner between the halves of submit() holds the latest id, still current.
LEMMA DispatchFacts ==
    ASSUME TypeOK, IdsInv, Dispatch
    PROVE  /\ Latest \in Request /\ Latest = nextRequestId - 1
           /\ current = Latest /\ current \notin cancelled
           /\ \/ execState = "running" /\ pending' = Latest /\ UNCHANGED <<current, cancelled>>
              \/ /\ execState # "running" /\ current' = None
                 /\ cancelled' = cancelled \cup {Latest} /\ UNCHANGED pending
BY DEF TypeOK, IdsInv, Dispatch, SubmitAccepted, SubmitRefused, Latest

\* Every action keeps the types.
LEMMA TypeStep ==
    ASSUME IInv, Next
    PROVE  TypeOK'
<1> USE DEF IInv
<1>1. CASE \E threadStarts \in BOOLEAN : Start(threadStarts)
  BY <1>1, QueueTyped
  DEF Start,
      controllerVars, executorVars, threadVars, loopVars,
      TypeOK, IdsInv, PhaseInv, Callback, ExecutorState, ThreadStep, Latest
<1>2. CASE NewRequest
  BY <1>2, QueueTyped
  DEF NewRequest,
      controllerVars, executorVars, threadVars, loopVars,
      TypeOK, IdsInv, PhaseInv, Callback, ExecutorState, ThreadStep, Latest
<1>3. CASE Dispatch
  <2>1. Dispatch
    BY <1>3
  <2>2. UNCHANGED <<nextRequestId, started, stopped, execState, stopRequested,
                    workerReady, readyEvent, thread, item, outcome, callbacks,
                    lost, presented, retired>> /\ ownerPc' = "idle"
    BY <2>1 DEF Dispatch, controllerVars, executorVars, threadVars, loopVars
  <2> QED
    BY <2>1, <2>2, DispatchFacts DEF TypeOK
<1>4. CASE Invalidate
  BY <1>4, QueueTyped
  DEF Invalidate,
      controllerVars, executorVars, threadVars, loopVars,
      TypeOK, IdsInv, PhaseInv, Callback, ExecutorState, ThreadStep, Latest
<1>5. CASE Stop
  BY <1>5, QueueTyped
  DEF Stop,
      controllerVars, executorVars, threadVars, loopVars,
      TypeOK, IdsInv, PhaseInv, Callback, ExecutorState, ThreadStep, Latest
<1>6. CASE \E cancelPending \in BOOLEAN : Shutdown(cancelPending)
  <2>1. UNCHANGED <<controllerVars, workerReady, threadVars, loopVars, presented, retired>>
        /\ ownerPc' = "idle"
    BY <1>6 DEF Shutdown
  <2>2. /\ execState' \in ExecutorState /\ pending' \in Request \cup {None}
        /\ stopRequested' \in BOOLEAN /\ readyEvent' \in BOOLEAN
    BY <1>6 DEF Shutdown, ShutdownNew, ShutdownRunning, ShutdownOver, ExecutorState, TypeOK
  <2> QED
    BY <2>1, <2>2 DEF TypeOK, controllerVars, threadVars, loopVars
<1>7. CASE RunCallback
  <2>1. Head(callbacks) \in Callback /\ Tail(callbacks) \in Seq(Callback)
        /\ Len(Tail(callbacks)) <= QueueCapacity
    BY <1>7, RunFacts DEF RunCallback, TypeOK
  <2>2. presented' \in [Request -> Nat]
    BY <1>7, <2>1 DEF RunCallback, MayPresent, TypeOK, Callback
  <2> QED
    BY <1>7, <2>1, <2>2 DEF RunCallback, controllerVars, executorVars, threadVars, loopVars, TypeOK
<1>8. CASE ConstructWorker
  BY <1>8, QueueTyped
  DEF ConstructWorker,
      controllerVars, executorVars, threadVars, loopVars,
      TypeOK, IdsInv, PhaseInv, Callback, ExecutorState, ThreadStep, Latest
<1>9. CASE ConstructionFails
  BY <1>9, QueueTyped
  DEF ConstructionFails,
      controllerVars, executorVars, threadVars, loopVars,
      TypeOK, IdsInv, PhaseInv, Callback, ExecutorState, ThreadStep, Latest
<1>10. CASE ReportInitialization
  BY <1>10, QueueTyped, PostOtherFacts
  DEF ReportInitialization,
      controllerVars, executorVars, threadVars, loopVars,
      TypeOK, IdsInv, PhaseInv, Callback, ExecutorState, ThreadStep, Latest
<1>11. CASE ReportFactoryError
  BY <1>11, QueueTyped, PostAnswerFacts
  DEF ReportFactoryError, ChargeCurrent,
      controllerVars, executorVars, threadVars, loopVars,
      TypeOK, IdsInv, PhaseInv, Callback, ExecutorState, ThreadStep, Latest
<1>12. CASE TakeItem
  BY <1>12, QueueTyped
  DEF TakeItem,
      controllerVars, executorVars, threadVars, loopVars,
      TypeOK, IdsInv, PhaseInv, Callback, ExecutorState, ThreadStep, Latest
<1>13. CASE \E how \in {"result", "error", "cancelled"} : FinishItem(how)
  BY <1>13, QueueTyped
  DEF FinishItem,
      controllerVars, executorVars, threadVars, loopVars,
      TypeOK, IdsInv, PhaseInv, Callback, ExecutorState, ThreadStep, Latest
<1>14. CASE Report
  BY <1>14, QueueTyped, PostAnswerFacts
  DEF Report,
      controllerVars, executorVars, threadVars, loopVars,
      TypeOK, IdsInv, PhaseInv, Callback, ExecutorState, ThreadStep, Latest
<1>15. CASE LeaveLoop
  BY <1>15, QueueTyped
  DEF LeaveLoop,
      controllerVars, executorVars, threadVars, loopVars,
      TypeOK, IdsInv, PhaseInv, Callback, ExecutorState, ThreadStep, Latest
<1>16. CASE \E fails \in BOOLEAN : CloseWorker(fails)
  BY <1>16, QueueTyped
  DEF CloseWorker,
      controllerVars, executorVars, threadVars, loopVars,
      TypeOK, IdsInv, PhaseInv, Callback, ExecutorState, ThreadStep, Latest
<1>17. CASE ReportCloseError
  BY <1>17, QueueTyped
  DEF ReportCloseError, ChargeCurrent,
      controllerVars, executorVars, threadVars, loopVars,
      TypeOK, IdsInv, PhaseInv, Callback, ExecutorState, ThreadStep, Latest
<1>18. CASE Finalize
  BY <1>18, QueueTyped
  DEF Finalize,
      controllerVars, executorVars, threadVars, loopVars,
      TypeOK, IdsInv, PhaseInv, Callback, ExecutorState, ThreadStep, Latest
<1>19. CASE PostOther
  BY <1>19, QueueTyped, PostOtherFacts
  DEF PostOther, OtherCallback,
      controllerVars, executorVars, threadVars, loopVars,
      TypeOK, IdsInv, PhaseInv, Callback, ExecutorState, ThreadStep, Latest
<1>20. CASE RetireChild
  <2>1. retired' \subseteq Request
    BY <1>20 DEF RetireChild, TypeOK, PhaseInv
  <2> QED
    BY <1>20, <2>1
    DEF RetireChild, controllerVars, executorVars, threadVars, loopVars, TypeOK
<1> QED
  BY <1>1, <1>2, <1>3, <1>4, <1>5, <1>6, <1>7, <1>8, <1>9, <1>10, <1>11, <1>12, <1>13, <1>14, <1>15, <1>16, <1>17, <1>18, <1>19, <1>20
  DEF Next, OwnerStep, ExecutorStep

\* Every action keeps ids in order and the current request the latest.
LEMMA IdsStep ==
    ASSUME IInv, Next
    PROVE  IdsInv'
<1> USE DEF IInv
<1>1. CASE \E threadStarts \in BOOLEAN : Start(threadStarts)
  BY <1>1, QueueTyped
  DEF Start,
      controllerVars, executorVars, threadVars, loopVars,
      TypeOK, IdsInv, PhaseInv, NothingAnswered, Latest, Callback
<1>2. CASE NewRequest
  <2>1. nextRequestId \in Request /\ Latest' = nextRequestId /\ Latest = nextRequestId - 1
        /\ current' = nextRequestId
    BY <1>2 DEF NewRequest, TypeOK, Latest
  <2>2. nextRequestId \notin cancelled'
    <3>1. nextRequestId \notin cancelled /\ nextRequestId # current
      BY <2>1 DEF IdsInv, TypeOK
    <3> QED
      BY <1>2, <3>1 DEF NewRequest
  <2>3. presented[nextRequestId] = 0
    BY <2>1 DEF IdsInv, TypeOK
  <2>4. \A i \in DOMAIN callbacks : callbacks[i].id <= nextRequestId
    BY <2>1, QueueTyped DEF IdsInv
  <2>5. \A r \in cancelled' : r <= nextRequestId
    BY <1>2, <2>1 DEF NewRequest, IdsInv, TypeOK
  <2>6. /\ pending' < nextRequestId /\ item' < nextRequestId
        /\ pending' <= nextRequestId /\ item' <= nextRequestId
        /\ UNCHANGED <<callbacks, presented, stopped>> /\ ~stopped
    BY <1>2, <2>1 DEF NewRequest, controllerVars, executorVars, threadVars, loopVars, IdsInv, TypeOK
  <2>7. \A r \in Request : presented[r] # 0 => r <= nextRequestId
    BY <2>1 DEF IdsInv, TypeOK
  <2> QED
    BY <2>1, <2>2, <2>3, <2>4, <2>5, <2>6, <2>7 DEF IdsInv, TypeOK
<1>3. CASE Dispatch
  <2>1. UNCHANGED <<nextRequestId, stopped, item, callbacks, presented>> /\ ownerPc' = "idle"
    BY <1>3 DEF Dispatch, controllerVars, executorVars, threadVars, loopVars
  <2>2. Latest' = Latest /\ Latest \in Request /\ current = Latest
        /\ current \notin cancelled
    BY <1>3, <2>1, DispatchFacts DEF Latest
  <2>3. current' # None => current' = Latest /\ current' \notin cancelled'
    BY <1>3, <2>2, DispatchFacts
  <2>4. (stopped => current' = None) /\ pending' <= Latest
        /\ \A r \in cancelled' : r <= Latest
    BY <1>3, <2>2, DispatchFacts DEF IdsInv
  <2> QED
    BY <2>1, <2>2, <2>3, <2>4 DEF IdsInv
<1>4. CASE Invalidate
  BY <1>4, QueueTyped
  DEF Invalidate,
      controllerVars, executorVars, threadVars, loopVars,
      TypeOK, IdsInv, PhaseInv, NothingAnswered, Latest, Callback
<1>5. CASE Stop
  BY <1>5, QueueTyped
  DEF Stop,
      controllerVars, executorVars, threadVars, loopVars,
      TypeOK, IdsInv, PhaseInv, NothingAnswered, Latest, Callback
<1>6. CASE \E cancelPending \in BOOLEAN : Shutdown(cancelPending)
  BY <1>6, QueueTyped
  DEF Shutdown, ShutdownNew, ShutdownRunning, ShutdownOver,
      controllerVars, executorVars, threadVars, loopVars,
      TypeOK, IdsInv, PhaseInv, NothingAnswered, Latest, Callback
<1>7. CASE RunCallback
  BY <1>7, QueueTyped, RunFacts
  DEF RunCallback, MayPresent,
      controllerVars, executorVars, threadVars, loopVars,
      TypeOK, IdsInv, PhaseInv, NothingAnswered, Latest, Callback
<1>8. CASE ConstructWorker
  BY <1>8, QueueTyped
  DEF ConstructWorker,
      controllerVars, executorVars, threadVars, loopVars,
      TypeOK, IdsInv, PhaseInv, NothingAnswered, Latest, Callback
<1>9. CASE ConstructionFails
  BY <1>9, QueueTyped
  DEF ConstructionFails,
      controllerVars, executorVars, threadVars, loopVars,
      TypeOK, IdsInv, PhaseInv, NothingAnswered, Latest, Callback
<1>10. CASE ReportInitialization
  BY <1>10, QueueTyped, PostOtherFacts
  DEF ReportInitialization,
      controllerVars, executorVars, threadVars, loopVars,
      TypeOK, IdsInv, PhaseInv, NothingAnswered, Latest, Callback
<1>11. CASE ReportFactoryError
  <2>1. UNCHANGED <<nextRequestId, current, cancelled, stopped, ownerPc, pending, item, presented>>
    BY <1>11 DEF ReportFactoryError, controllerVars, executorVars, threadVars, loopVars
  <2>2. \A i \in DOMAIN callbacks' : callbacks'[i].id <= Latest
    <3>1. CASE current = None
      BY <1>11, <3>1 DEF ReportFactoryError, ChargeCurrent, loopVars, IdsInv
    <3>2. CASE current # None
      <4>1. current \in Request /\ PostAnswer(current) /\ current = Latest
        BY <1>11, <3>2 DEF ReportFactoryError, ChargeCurrent, IdsInv, TypeOK
      <4> QED
        BY <4>1, PostAnswerFacts DEF IdsInv
    <3> QED
      BY <3>1, <3>2
  <2> QED
    BY <2>1, <2>2 DEF IdsInv, Latest
<1>12. CASE TakeItem
  BY <1>12, QueueTyped
  DEF TakeItem,
      controllerVars, executorVars, threadVars, loopVars,
      TypeOK, IdsInv, PhaseInv, NothingAnswered, Latest, Callback
<1>13. CASE \E how \in {"result", "error", "cancelled"} : FinishItem(how)
  BY <1>13, QueueTyped
  DEF FinishItem,
      controllerVars, executorVars, threadVars, loopVars,
      TypeOK, IdsInv, PhaseInv, NothingAnswered, Latest, Callback
<1>14. CASE Report
  <2>1. item \in Request /\ item <= Latest /\ Latest \in Nat
    BY <1>14, ReportFacts DEF IdsInv, TypeOK, Latest
  <2>2. \A i \in DOMAIN callbacks' : callbacks'[i].id <= Latest
    <3>1. CASE UNCHANGED <<callbacks, lost>>
      BY <3>1 DEF IdsInv
    <3>2. CASE PostAnswer(item)
      BY <2>1, <3>2, PostAnswerFacts DEF IdsInv
    <3> QED
      BY <1>14, <3>1, <3>2, ReportFacts
  <2> QED
    BY <1>14, <2>1, <2>2 DEF Report, controllerVars, executorVars, threadVars, loopVars, IdsInv, Latest, TypeOK
<1>15. CASE LeaveLoop
  BY <1>15, QueueTyped
  DEF LeaveLoop,
      controllerVars, executorVars, threadVars, loopVars,
      TypeOK, IdsInv, PhaseInv, NothingAnswered, Latest, Callback
<1>16. CASE \E fails \in BOOLEAN : CloseWorker(fails)
  BY <1>16, QueueTyped
  DEF CloseWorker,
      controllerVars, executorVars, threadVars, loopVars,
      TypeOK, IdsInv, PhaseInv, NothingAnswered, Latest, Callback
<1>17. CASE ReportCloseError
  BY <1>17, QueueTyped
  DEF ReportCloseError, ChargeCurrent,
      controllerVars, executorVars, threadVars, loopVars,
      TypeOK, IdsInv, PhaseInv, NothingAnswered, Latest, Callback
<1>18. CASE Finalize
  BY <1>18, QueueTyped
  DEF Finalize,
      controllerVars, executorVars, threadVars, loopVars,
      TypeOK, IdsInv, PhaseInv, NothingAnswered, Latest, Callback
<1>19. CASE PostOther
  BY <1>19, QueueTyped, PostOtherFacts
  DEF PostOther, OtherCallback,
      controllerVars, executorVars, threadVars, loopVars,
      TypeOK, IdsInv, PhaseInv, NothingAnswered, Latest, Callback
<1>20. CASE RetireChild
  BY <1>20 DEF RetireChild, controllerVars, executorVars, threadVars, loopVars, IdsInv, TypeOK, Latest
<1> QED
  BY <1>1, <1>2, <1>3, <1>4, <1>5, <1>6, <1>7, <1>8, <1>9, <1>10, <1>11, <1>12, <1>13, <1>14, <1>15, <1>16, <1>17, <1>18, <1>19, <1>20
  DEF Next, OwnerStep, ExecutorStep

\* Every action keeps the phases of the executor in step.
LEMMA PhaseStep ==
    ASSUME IInv, Next
    PROVE  PhaseInv'
<1> USE DEF IInv
<1>1. CASE \E threadStarts \in BOOLEAN : Start(threadStarts)
  BY <1>1
  DEF Start,
      controllerVars, executorVars, threadVars, loopVars,
      TypeOK, IdsInv, PhaseInv
<1>2. CASE NewRequest
  BY <1>2
  DEF NewRequest,
      controllerVars, executorVars, threadVars, loopVars,
      TypeOK, IdsInv, PhaseInv
<1>3. CASE Dispatch
  BY <1>3
  DEF Dispatch, SubmitAccepted, SubmitRefused,
      controllerVars, executorVars, threadVars, loopVars,
      TypeOK, IdsInv, PhaseInv
<1>4. CASE Invalidate
  BY <1>4
  DEF Invalidate,
      controllerVars, executorVars, threadVars, loopVars,
      TypeOK, IdsInv, PhaseInv
<1>5. CASE Stop
  BY <1>5
  DEF Stop,
      controllerVars, executorVars, threadVars, loopVars,
      TypeOK, IdsInv, PhaseInv
<1>6. CASE \E cancelPending \in BOOLEAN : Shutdown(cancelPending)
  BY <1>6
  DEF Shutdown, ShutdownNew, ShutdownRunning, ShutdownOver,
      controllerVars, executorVars, threadVars, loopVars,
      TypeOK, IdsInv, PhaseInv
<1>7. CASE RunCallback
  BY <1>7, RunFacts
  DEF RunCallback, MayPresent,
      controllerVars, executorVars, threadVars, loopVars,
      TypeOK, IdsInv, PhaseInv
<1>8. CASE ConstructWorker
  BY <1>8
  DEF ConstructWorker,
      controllerVars, executorVars, threadVars, loopVars,
      TypeOK, IdsInv, PhaseInv
<1>9. CASE ConstructionFails
  BY <1>9
  DEF ConstructionFails,
      controllerVars, executorVars, threadVars, loopVars,
      TypeOK, IdsInv, PhaseInv
<1>10. CASE ReportInitialization
  BY <1>10, PostOtherFacts
  DEF ReportInitialization,
      controllerVars, executorVars, threadVars, loopVars,
      TypeOK, IdsInv, PhaseInv
<1>11. CASE ReportFactoryError
  BY <1>11, PostAnswerFacts
  DEF ReportFactoryError, ChargeCurrent,
      controllerVars, executorVars, threadVars, loopVars,
      TypeOK, IdsInv, PhaseInv
<1>12. CASE TakeItem
  BY <1>12
  DEF TakeItem,
      controllerVars, executorVars, threadVars, loopVars,
      TypeOK, IdsInv, PhaseInv
<1>13. CASE \E how \in {"result", "error", "cancelled"} : FinishItem(how)
  BY <1>13
  DEF FinishItem,
      controllerVars, executorVars, threadVars, loopVars,
      TypeOK, IdsInv, PhaseInv
<1>14. CASE Report
  BY <1>14, PostAnswerFacts
  DEF Report,
      controllerVars, executorVars, threadVars, loopVars,
      TypeOK, IdsInv, PhaseInv
<1>15. CASE LeaveLoop
  BY <1>15
  DEF LeaveLoop,
      controllerVars, executorVars, threadVars, loopVars,
      TypeOK, IdsInv, PhaseInv
<1>16. CASE \E fails \in BOOLEAN : CloseWorker(fails)
  BY <1>16
  DEF CloseWorker,
      controllerVars, executorVars, threadVars, loopVars,
      TypeOK, IdsInv, PhaseInv
<1>17. CASE ReportCloseError
  BY <1>17
  DEF ReportCloseError, ChargeCurrent,
      controllerVars, executorVars, threadVars, loopVars,
      TypeOK, IdsInv, PhaseInv
<1>18. CASE Finalize
  BY <1>18
  DEF Finalize,
      controllerVars, executorVars, threadVars, loopVars,
      TypeOK, IdsInv, PhaseInv
<1>19. CASE PostOther
  BY <1>19, PostOtherFacts
  DEF PostOther, OtherCallback,
      controllerVars, executorVars, threadVars, loopVars,
      TypeOK, IdsInv, PhaseInv
<1>20. CASE RetireChild
  BY <1>20 DEF RetireChild, controllerVars, executorVars, threadVars, loopVars, PhaseInv
<1> QED
  BY <1>1, <1>2, <1>3, <1>4, <1>5, <1>6, <1>7, <1>8, <1>9, <1>10, <1>11, <1>12, <1>13, <1>14, <1>15, <1>16, <1>17, <1>18, <1>19, <1>20
  DEF Next, OwnerStep, ExecutorStep

\* Nothing is answered before the worker exists.
LEMMA NothingStep ==
    ASSUME IInv, Next
    PROVE  NothingAnswered'
<1> USE DEF IInv
<1>1. CASE \E threadStarts \in BOOLEAN : Start(threadStarts)
  BY <1>1, QueueTyped
  DEF Start,
      controllerVars, executorVars, threadVars, loopVars,
      TypeOK, IdsInv, PhaseInv, NothingAnswered, IsAnswer, Callback
<1>2. CASE NewRequest
  BY <1>2, QueueTyped
  DEF NewRequest,
      controllerVars, executorVars, threadVars, loopVars,
      TypeOK, IdsInv, PhaseInv, NothingAnswered, IsAnswer, Callback
<1>3. CASE Dispatch
  BY <1>3, QueueTyped
  DEF Dispatch, SubmitAccepted, SubmitRefused,
      controllerVars, executorVars, threadVars, loopVars,
      TypeOK, IdsInv, PhaseInv, NothingAnswered, IsAnswer, Callback
<1>4. CASE Invalidate
  BY <1>4, QueueTyped
  DEF Invalidate,
      controllerVars, executorVars, threadVars, loopVars,
      TypeOK, IdsInv, PhaseInv, NothingAnswered, IsAnswer, Callback
<1>5. CASE Stop
  BY <1>5, QueueTyped
  DEF Stop,
      controllerVars, executorVars, threadVars, loopVars,
      TypeOK, IdsInv, PhaseInv, NothingAnswered, IsAnswer, Callback
<1>6. CASE \E cancelPending \in BOOLEAN : Shutdown(cancelPending)
  BY <1>6, QueueTyped
  DEF Shutdown, ShutdownNew, ShutdownRunning, ShutdownOver,
      controllerVars, executorVars, threadVars, loopVars,
      TypeOK, IdsInv, PhaseInv, NothingAnswered, IsAnswer, Callback
<1>7. CASE RunCallback
  BY <1>7, QueueTyped, RunFacts
  DEF RunCallback, MayPresent,
      controllerVars, executorVars, threadVars, loopVars,
      TypeOK, IdsInv, PhaseInv, NothingAnswered, IsAnswer, Callback
<1>8. CASE ConstructWorker
  BY <1>8, QueueTyped
  DEF ConstructWorker,
      controllerVars, executorVars, threadVars, loopVars,
      TypeOK, IdsInv, PhaseInv, NothingAnswered, IsAnswer, Callback
<1>9. CASE ConstructionFails
  BY <1>9, QueueTyped
  DEF ConstructionFails,
      controllerVars, executorVars, threadVars, loopVars,
      TypeOK, IdsInv, PhaseInv, NothingAnswered, IsAnswer, Callback
<1>10. CASE ReportInitialization
  BY <1>10, QueueTyped, PostOtherFacts
  DEF ReportInitialization,
      controllerVars, executorVars, threadVars, loopVars,
      TypeOK, IdsInv, PhaseInv, NothingAnswered, IsAnswer, Callback
<1>11. CASE ReportFactoryError
  BY <1>11, QueueTyped, PostAnswerFacts
  DEF ReportFactoryError, ChargeCurrent,
      controllerVars, executorVars, threadVars, loopVars,
      TypeOK, IdsInv, PhaseInv, NothingAnswered, IsAnswer, Callback
<1>12. CASE TakeItem
  BY <1>12, QueueTyped
  DEF TakeItem,
      controllerVars, executorVars, threadVars, loopVars,
      TypeOK, IdsInv, PhaseInv, NothingAnswered, IsAnswer, Callback
<1>13. CASE \E how \in {"result", "error", "cancelled"} : FinishItem(how)
  BY <1>13, QueueTyped
  DEF FinishItem,
      controllerVars, executorVars, threadVars, loopVars,
      TypeOK, IdsInv, PhaseInv, NothingAnswered, IsAnswer, Callback
<1>14. CASE Report
  BY <1>14, QueueTyped, PostAnswerFacts
  DEF Report,
      controllerVars, executorVars, threadVars, loopVars,
      TypeOK, IdsInv, PhaseInv, NothingAnswered, IsAnswer, Callback
<1>15. CASE LeaveLoop
  BY <1>15, QueueTyped
  DEF LeaveLoop,
      controllerVars, executorVars, threadVars, loopVars,
      TypeOK, IdsInv, PhaseInv, NothingAnswered, IsAnswer, Callback
<1>16. CASE \E fails \in BOOLEAN : CloseWorker(fails)
  BY <1>16, QueueTyped
  DEF CloseWorker,
      controllerVars, executorVars, threadVars, loopVars,
      TypeOK, IdsInv, PhaseInv, NothingAnswered, IsAnswer, Callback
<1>17. CASE ReportCloseError
  BY <1>17, QueueTyped
  DEF ReportCloseError, ChargeCurrent,
      controllerVars, executorVars, threadVars, loopVars,
      TypeOK, IdsInv, PhaseInv, NothingAnswered, IsAnswer, Callback
<1>18. CASE Finalize
  BY <1>18, QueueTyped
  DEF Finalize,
      controllerVars, executorVars, threadVars, loopVars,
      TypeOK, IdsInv, PhaseInv, NothingAnswered, IsAnswer, Callback
<1>19. CASE PostOther
  BY <1>19, QueueTyped, PostOtherFacts
  DEF PostOther, OtherCallback,
      controllerVars, executorVars, threadVars, loopVars,
      TypeOK, IdsInv, PhaseInv, NothingAnswered, IsAnswer, Callback
<1>20. CASE RetireChild
  BY <1>20 DEF RetireChild, controllerVars, executorVars, threadVars, loopVars, NothingAnswered, IsAnswer
<1> QED
  BY <1>1, <1>2, <1>3, <1>4, <1>5, <1>6, <1>7, <1>8, <1>9, <1>10, <1>11, <1>12, <1>13, <1>14, <1>15, <1>16, <1>17, <1>18, <1>19, <1>20
  DEF Next, OwnerStep, ExecutorStep

\* A request never gets a second answer.
LEMMA OnceStep ==
    ASSUME IInv, Next
    PROVE  OnceInv'
<1> USE DEF IInv
<1>1. CASE \E threadStarts \in BOOLEAN : Start(threadStarts)
  BY <1>1, QueueTyped
  DEF Start,
      controllerVars, executorVars, threadVars, loopVars,
      TypeOK, IdsInv, PhaseInv, NothingAnswered, OnceInv, IsAnswer, Latest, Queued, Callback
<1>2. CASE NewRequest
  BY <1>2, QueueTyped
  DEF NewRequest,
      controllerVars, executorVars, threadVars, loopVars,
      TypeOK, IdsInv, PhaseInv, NothingAnswered, OnceInv, IsAnswer, Latest, Queued, Callback
<1>3. CASE Dispatch
  BY <1>3, QueueTyped
  DEF Dispatch, SubmitAccepted, SubmitRefused,
      controllerVars, executorVars, threadVars, loopVars,
      TypeOK, IdsInv, PhaseInv, NothingAnswered, OnceInv, IsAnswer, Latest, Queued, Callback
<1>4. CASE Invalidate
  BY <1>4, QueueTyped
  DEF Invalidate,
      controllerVars, executorVars, threadVars, loopVars,
      TypeOK, IdsInv, PhaseInv, NothingAnswered, OnceInv, IsAnswer, Latest, Queued, Callback
<1>5. CASE Stop
  BY <1>5, QueueTyped
  DEF Stop,
      controllerVars, executorVars, threadVars, loopVars,
      TypeOK, IdsInv, PhaseInv, NothingAnswered, OnceInv, IsAnswer, Latest, Queued, Callback
<1>6. CASE \E cancelPending \in BOOLEAN : Shutdown(cancelPending)
  BY <1>6, QueueTyped
  DEF Shutdown, ShutdownNew, ShutdownRunning, ShutdownOver,
      controllerVars, executorVars, threadVars, loopVars,
      TypeOK, IdsInv, PhaseInv, NothingAnswered, OnceInv, IsAnswer, Latest, Queued, Callback
<1>7. CASE RunCallback
  <2> DEFINE q == Tail(callbacks)
  <2>1. /\ callbacks' = q
        /\ UNCHANGED <<nextRequestId, pending, item, execState>>
        /\ ownerPc = "idle" /\ ownerPc' = "idle"
    BY <1>7 DEF RunCallback, controllerVars, executorVars, threadVars, loopVars
  <2>2. \A i \in DOMAIN q : i + 1 \in DOMAIN callbacks /\ q[i] = callbacks[i + 1] /\ i + 1 # 1
        /\ i \in Nat
    BY <1>7, RunFacts DEF RunCallback
  <2>3. 1 \in DOMAIN callbacks /\ Head(callbacks) = callbacks[1]
    BY <1>7, RunFacts DEF RunCallback
  <2>4. \A r \in Request : presented'[r] # presented[r] =>
           IsAnswer(1) /\ r = callbacks[1].id
    BY <1>7, <2>3 DEF RunCallback, MayPresent, IsAnswer, TypeOK
  <2>5. \A i, j \in DOMAIN q : q[i].kind = "answer" /\ q[j].kind = "answer"
                               /\ q[i].id = q[j].id => i = j
    BY <2>2 DEF OnceInv, IsAnswer
  <2>6. \A i \in DOMAIN q : q[i].kind = "answer" =>
           /\ presented'[q[i].id] = 0 /\ q[i].id # pending /\ q[i].id # item
    <3> SUFFICES ASSUME NEW i \in DOMAIN q, q[i].kind = "answer"
                 PROVE  /\ presented'[q[i].id] = 0
                        /\ q[i].id # pending /\ q[i].id # item
      OBVIOUS
    <3>1. IsAnswer(i + 1) /\ q[i].id = callbacks[i + 1].id /\ q[i].id \in Request
          /\ i + 1 \in DOMAIN callbacks /\ i + 1 # 1
      BY <2>2, QueueTyped DEF IsAnswer
    <3>2. ~(IsAnswer(1) /\ q[i].id = callbacks[1].id)
      BY <2>3, <3>1 DEF OnceInv
    <3> QED
      BY <2>4, <3>1, <3>2 DEF OnceInv
  <2>7. /\ pending # None => presented'[pending] = 0
        /\ item # None => presented'[item] = 0
    BY <2>3, <2>4 DEF OnceInv, TypeOK
  <2> QED
    BY <2>1, <2>5, <2>6, <2>7 DEF OnceInv, IsAnswer, Queued, Latest
<1>8. CASE ConstructWorker
  BY <1>8, QueueTyped
  DEF ConstructWorker,
      controllerVars, executorVars, threadVars, loopVars,
      TypeOK, IdsInv, PhaseInv, NothingAnswered, OnceInv, IsAnswer, Latest, Queued, Callback
<1>9. CASE ConstructionFails
  BY <1>9, QueueTyped
  DEF ConstructionFails,
      controllerVars, executorVars, threadVars, loopVars,
      TypeOK, IdsInv, PhaseInv, NothingAnswered, OnceInv, IsAnswer, Latest, Queued, Callback
<1>10. CASE ReportInitialization
  BY <1>10, QueueTyped, PostOtherFacts
  DEF ReportInitialization,
      controllerVars, executorVars, threadVars, loopVars,
      TypeOK, IdsInv, PhaseInv, NothingAnswered, OnceInv, IsAnswer, Latest, Queued, Callback
<1>11. CASE ReportFactoryError
  <2>1. /\ UNCHANGED <<nextRequestId, ownerPc, execState, pending, item, presented>>
        /\ execState = "failed" /\ pending = None /\ item = None
        /\ \A i \in DOMAIN callbacks : ~IsAnswer(i)
        /\ \A r \in Request : presented[r] = 0
    BY <1>11 DEF ReportFactoryError, controllerVars, executorVars, threadVars, loopVars, PhaseInv, NothingAnswered
  <2>2. CASE current = None
    BY <1>11, <2>1, <2>2 DEF ReportFactoryError, ChargeCurrent, loopVars, OnceInv, IsAnswer
  <2>3. CASE current # None
    <3>1. current \in Request /\ PostAnswer(current)
      BY <1>11, <2>3 DEF ReportFactoryError, ChargeCurrent, TypeOK
    <3>2. \A i \in DOMAIN callbacks' : callbacks'[i].kind = "answer" =>
             i = Len(callbacks) + 1 /\ callbacks'[i].id = current
      BY <2>1, <3>1, PostAnswerFacts DEF IsAnswer
    <3> QED
      BY <2>1, <3>1, <3>2 DEF OnceInv, IsAnswer
  <2> QED
    BY <2>2, <2>3
<1>12. CASE TakeItem
  BY <1>12, QueueTyped
  DEF TakeItem,
      controllerVars, executorVars, threadVars, loopVars,
      TypeOK, IdsInv, PhaseInv, NothingAnswered, OnceInv, IsAnswer, Latest, Queued, Callback
<1>13. CASE \E how \in {"result", "error", "cancelled"} : FinishItem(how)
  BY <1>13, QueueTyped
  DEF FinishItem,
      controllerVars, executorVars, threadVars, loopVars,
      TypeOK, IdsInv, PhaseInv, NothingAnswered, OnceInv, IsAnswer, Latest, Queued, Callback
<1>14. CASE Report
  <2>1. /\ item \in Request /\ item' = None
        /\ presented[item] = 0 /\ item # pending
        /\ UNCHANGED <<nextRequestId, pending, execState, ownerPc, presented>>
    BY <1>14, ReportFacts DEF Report, controllerVars, executorVars, threadVars, loopVars, OnceInv, TypeOK
  <2>2. ~\E i \in DOMAIN callbacks : IsAnswer(i) /\ callbacks[i].id = item
    BY <2>1 DEF OnceInv
  <2>3. ownerPc = "submitting" => item # Latest
    BY <2>1 DEF IdsInv, Latest, TypeOK
  <2>4. CASE UNCHANGED <<callbacks, lost>>
    BY <2>1, <2>4, QueueTyped DEF OnceInv, IsAnswer, Queued, Latest
  <2>5. CASE PostAnswer(item)
    <3> DEFINE new == [kind |-> "answer", id |-> item]
    <3>1. \A i \in DOMAIN callbacks' :
             \/ i \in DOMAIN callbacks /\ callbacks'[i] = callbacks[i]
             \/ i = Len(callbacks) + 1 /\ callbacks'[i] = new
      BY <2>1, <2>5, PostAnswerFacts
    <3>2. new.kind = "answer" /\ new.id = item
      OBVIOUS
    <3> HIDE DEF new
    <3>3. \A i, j \in DOMAIN callbacks' :
             callbacks'[i].kind = "answer" /\ callbacks'[j].kind = "answer"
             /\ callbacks'[i].id = callbacks'[j].id => i = j
      BY <2>2, <3>1, <3>2 DEF OnceInv, IsAnswer
    <3>4. \A i \in DOMAIN callbacks' : callbacks'[i].kind = "answer" =>
             /\ presented[callbacks'[i].id] = 0
             /\ callbacks'[i].id # pending /\ callbacks'[i].id # None
      BY <2>1, <3>1, <3>2, QueueTyped DEF OnceInv, IsAnswer
    <3>5. ownerPc = "submitting" /\ execState # "failed" =>
             ~\E i \in DOMAIN callbacks' :
                 callbacks'[i].kind = "answer" /\ callbacks'[i].id = Latest
      BY <2>3, <3>1, <3>2 DEF OnceInv, IsAnswer, Queued
    <3> QED
      BY <2>1, <3>3, <3>4, <3>5 DEF OnceInv, IsAnswer, Queued, Latest
  <2> QED
    BY <1>14, <2>4, <2>5, ReportFacts
<1>15. CASE LeaveLoop
  BY <1>15, QueueTyped
  DEF LeaveLoop,
      controllerVars, executorVars, threadVars, loopVars,
      TypeOK, IdsInv, PhaseInv, NothingAnswered, OnceInv, IsAnswer, Latest, Queued, Callback
<1>16. CASE \E fails \in BOOLEAN : CloseWorker(fails)
  BY <1>16, QueueTyped
  DEF CloseWorker,
      controllerVars, executorVars, threadVars, loopVars,
      TypeOK, IdsInv, PhaseInv, NothingAnswered, OnceInv, IsAnswer, Latest, Queued, Callback
<1>17. CASE ReportCloseError
  BY <1>17, QueueTyped
  DEF ReportCloseError, ChargeCurrent,
      controllerVars, executorVars, threadVars, loopVars,
      TypeOK, IdsInv, PhaseInv, NothingAnswered, OnceInv, IsAnswer, Latest, Queued, Callback
<1>18. CASE Finalize
  BY <1>18, QueueTyped
  DEF Finalize,
      controllerVars, executorVars, threadVars, loopVars,
      TypeOK, IdsInv, PhaseInv, NothingAnswered, OnceInv, IsAnswer, Latest, Queued, Callback
<1>19. CASE PostOther
  <2>1. UNCHANGED <<nextRequestId, pending, item, execState, ownerPc, presented>>
    BY <1>19 DEF PostOther, controllerVars, executorVars, threadVars, loopVars
  <2>2. \A i \in DOMAIN callbacks' : callbacks'[i].kind = "answer" =>
           i \in DOMAIN callbacks /\ callbacks'[i] = callbacks[i]
    BY <1>19, PostOtherFacts DEF PostOther, OtherCallback, Callback
  <2> QED
    BY <2>1, <2>2 DEF OnceInv, IsAnswer, Queued, Latest
<1>20. CASE RetireChild
  BY <1>20 DEF RetireChild, controllerVars, executorVars, threadVars, loopVars, OnceInv, IsAnswer, Queued, Latest
<1> QED
  BY <1>1, <1>2, <1>3, <1>4, <1>5, <1>6, <1>7, <1>8, <1>9, <1>10, <1>11, <1>12, <1>13, <1>14, <1>15, <1>16, <1>17, <1>18, <1>19, <1>20
  DEF Next, OwnerStep, ExecutorStep

\* The current request is never lost from sight.
LEMMA TrackedStep ==
    ASSUME IInv, Next
    PROVE  TrackedInv'
<1> USE DEF IInv
<1>1. CASE \E threadStarts \in BOOLEAN : Start(threadStarts)
  BY <1>1, QueueTyped
  DEF Start,
      controllerVars, executorVars, threadVars, loopVars,
      TypeOK, IdsInv, PhaseInv, OnceInv, TrackedInv, IsAnswer, Latest, Queued, Callback
<1>2. CASE NewRequest
  BY <1>2, QueueTyped
  DEF NewRequest,
      controllerVars, executorVars, threadVars, loopVars,
      TypeOK, IdsInv, PhaseInv, OnceInv, TrackedInv, IsAnswer, Latest, Queued, Callback
<1>3. CASE Dispatch
  BY <1>3, QueueTyped
  DEF Dispatch, SubmitAccepted, SubmitRefused,
      controllerVars, executorVars, threadVars, loopVars,
      TypeOK, IdsInv, PhaseInv, OnceInv, TrackedInv, IsAnswer, Latest, Queued, Callback
<1>4. CASE Invalidate
  BY <1>4, QueueTyped
  DEF Invalidate,
      controllerVars, executorVars, threadVars, loopVars,
      TypeOK, IdsInv, PhaseInv, OnceInv, TrackedInv, IsAnswer, Latest, Queued, Callback
<1>5. CASE Stop
  BY <1>5, QueueTyped
  DEF Stop,
      controllerVars, executorVars, threadVars, loopVars,
      TypeOK, IdsInv, PhaseInv, OnceInv, TrackedInv, IsAnswer, Latest, Queued, Callback
<1>6. CASE \E cancelPending \in BOOLEAN : Shutdown(cancelPending)
  BY <1>6, QueueTyped
  DEF Shutdown, ShutdownNew, ShutdownRunning, ShutdownOver,
      controllerVars, executorVars, threadVars, loopVars,
      TypeOK, IdsInv, PhaseInv, OnceInv, TrackedInv, IsAnswer, Latest, Queued, Callback
<1>7. CASE RunCallback
  <2>1. /\ callbacks' = Tail(callbacks) /\ ownerPc = "idle"
        /\ UNCHANGED <<current, pending, item, thread, lost, retired, ownerPc>>
    BY <1>7 DEF RunCallback, controllerVars, executorVars, threadVars, loopVars
  <2> SUFFICES ASSUME current # None, Queued(current)
               PROVE  Queued(current)' \/ presented'[current] > 0
    BY <1>7, <2>1 DEF TrackedInv, RunCallback, MayPresent, TypeOK
  <2>2. PICK i \in DOMAIN callbacks : IsAnswer(i) /\ callbacks[i].id = current
    BY DEF Queued
  <2>3. CASE i = 1
    BY <1>7, <2>2, <2>3, RunFacts DEF RunCallback, MayPresent, IsAnswer, TypeOK
  <2>4. CASE i # 1
    <3>1. i - 1 \in DOMAIN Tail(callbacks) /\ Tail(callbacks)[i - 1] = callbacks[i]
      BY <1>7, <2>4, RunFacts DEF RunCallback
    <3> QED
      BY <2>1, <2>2, <3>1 DEF Queued, IsAnswer
  <2> QED
    BY <2>3, <2>4
<1>8. CASE ConstructWorker
  BY <1>8, QueueTyped
  DEF ConstructWorker,
      controllerVars, executorVars, threadVars, loopVars,
      TypeOK, IdsInv, PhaseInv, OnceInv, TrackedInv, IsAnswer, Latest, Queued, Callback
<1>9. CASE ConstructionFails
  BY <1>9, QueueTyped
  DEF ConstructionFails,
      controllerVars, executorVars, threadVars, loopVars,
      TypeOK, IdsInv, PhaseInv, OnceInv, TrackedInv, IsAnswer, Latest, Queued, Callback
<1>10. CASE ReportInitialization
  BY <1>10, QueueTyped, PostOtherFacts
  DEF ReportInitialization,
      controllerVars, executorVars, threadVars, loopVars,
      TypeOK, IdsInv, PhaseInv, OnceInv, TrackedInv, IsAnswer, Latest, Queued, Callback
<1>11. CASE ReportFactoryError
  <2>1. UNCHANGED <<current, pending, item, presented, ownerPc, retired>>
    BY <1>11 DEF ReportFactoryError, controllerVars, executorVars, threadVars, loopVars
  <2> SUFFICES ASSUME current # None
               PROVE  Queued(current)' \/ current \in lost'
    BY <2>1 DEF TrackedInv
  <2>2. current \in Request /\ PostAnswer(current)
    BY <1>11 DEF ReportFactoryError, ChargeCurrent, TypeOK
  <2> QED
    BY <2>1, <2>2, PostAnswerFacts DEF Queued, IsAnswer
<1>12. CASE TakeItem
  BY <1>12, QueueTyped
  DEF TakeItem,
      controllerVars, executorVars, threadVars, loopVars,
      TypeOK, IdsInv, PhaseInv, OnceInv, TrackedInv, IsAnswer, Latest, Queued, Callback
<1>13. CASE \E how \in {"result", "error", "cancelled"} : FinishItem(how)
  BY <1>13, QueueTyped
  DEF FinishItem,
      controllerVars, executorVars, threadVars, loopVars,
      TypeOK, IdsInv, PhaseInv, OnceInv, TrackedInv, IsAnswer, Latest, Queued, Callback
<1>14. CASE Report
  <2>1. /\ UNCHANGED <<current, pending, presented, ownerPc, retired>>
        /\ thread = "reporting" /\ item \in Request
    BY <1>14, ReportFacts DEF Report, controllerVars, executorVars, threadVars, loopVars
  <2>2. CASE UNCHANGED <<callbacks, lost>> /\ item \in cancelled \cup retired
    BY <2>1, <2>2 DEF TrackedInv, IdsInv, Queued, IsAnswer
  <2>3. CASE PostAnswer(item)
    <3>1. current \in lost \/ Queued(current) => current \in lost' \/ Queued(current)'
      BY <2>1, <2>3, PostAnswerFacts DEF Queued, IsAnswer
    <3>2. current = item => current \in lost' \/ Queued(current)'
      BY <2>1, <2>3, PostAnswerFacts DEF Queued, IsAnswer
    <3> QED
      BY <2>1, <3>1, <3>2 DEF TrackedInv
  <2> QED
    BY <1>14, <2>2, <2>3, ReportFacts
<1>15. CASE LeaveLoop
  BY <1>15, QueueTyped
  DEF LeaveLoop,
      controllerVars, executorVars, threadVars, loopVars,
      TypeOK, IdsInv, PhaseInv, OnceInv, TrackedInv, IsAnswer, Latest, Queued, Callback
<1>16. CASE \E fails \in BOOLEAN : CloseWorker(fails)
  BY <1>16, QueueTyped
  DEF CloseWorker,
      controllerVars, executorVars, threadVars, loopVars,
      TypeOK, IdsInv, PhaseInv, OnceInv, TrackedInv, IsAnswer, Latest, Queued, Callback
<1>17. CASE ReportCloseError
  BY <1>17, QueueTyped
  DEF ReportCloseError, ChargeCurrent,
      controllerVars, executorVars, threadVars, loopVars,
      TypeOK, IdsInv, PhaseInv, OnceInv, TrackedInv, IsAnswer, Latest, Queued, Callback
<1>18. CASE Finalize
  BY <1>18, QueueTyped
  DEF Finalize,
      controllerVars, executorVars, threadVars, loopVars,
      TypeOK, IdsInv, PhaseInv, OnceInv, TrackedInv, IsAnswer, Latest, Queued, Callback
<1>19. CASE PostOther
  BY <1>19, QueueTyped, PostOtherFacts
  DEF PostOther, OtherCallback,
      controllerVars, executorVars, threadVars, loopVars,
      TypeOK, IdsInv, PhaseInv, OnceInv, TrackedInv, IsAnswer, Latest, Queued, Callback
<1>20. CASE RetireChild
  BY <1>20 DEF RetireChild, controllerVars, executorVars, threadVars, loopVars, TrackedInv, IsAnswer, Queued
<1> QED
  BY <1>1, <1>2, <1>3, <1>4, <1>5, <1>6, <1>7, <1>8, <1>9, <1>10, <1>11, <1>12, <1>13, <1>14, <1>15, <1>16, <1>17, <1>18, <1>19, <1>20
  DEF Next, OwnerStep, ExecutorStep

-----------------------------------------------------------------------------
(* Theorems *)

\* The inductive invariant holds in every reachable state: it is true at the
\* start and every action of the owner, the executor thread and the other
\* producers keeps it.
THEOREM Invariance == Spec => []IInv
<1>1. Init => IInv
  <2>1. <<>> \in Seq(Callback) /\ Len(<<>>) = 0 /\ DOMAIN <<>> = {}
    OBVIOUS
  <2> SUFFICES ASSUME Init PROVE IInv
    OBVIOUS
  <2>2. TypeOK
    <3>1. callbacks \in Seq(Callback) /\ Len(callbacks) <= QueueCapacity
      BY <2>1 DEF Init
    <3>2. nextRequestId \in 1..(MaxRequests + 1) /\ presented \in [Request -> Nat]
      BY DEF Init
    <3> QED
      BY <3>1, <3>2 DEF Init, TypeOK, ExecutorState, ThreadStep
  <2>3. IdsInv /\ PhaseInv /\ NothingAnswered /\ TrackedInv
    BY <2>1 DEF Init, IdsInv, PhaseInv, NothingAnswered, TrackedInv, Latest
  <2>4. OnceInv
    BY <2>1 DEF Init, OnceInv, Queued
  <2> QED
    BY <2>2, <2>3, <2>4 DEF IInv
<1>2. IInv /\ [Next]_vars => IInv'
  <2> SUFFICES ASSUME IInv, [Next]_vars PROVE IInv'
    OBVIOUS
  <2>1. CASE Next
    BY <2>1, TypeStep, IdsStep, PhaseStep, NothingStep, OnceStep, TrackedStep DEF IInv
  <2>2. CASE UNCHANGED vars
    BY <2>2 DEF vars, controllerVars, executorVars, threadVars, loopVars, IInv, TypeOK,
                IdsInv, PhaseInv, NothingAnswered, OnceInv, TrackedInv, Latest, IsAnswer, Queued
  <2> QED
    BY <2>1, <2>2
<1> QED
  BY <1>1, <1>2, PTL DEF Spec

\* Every attribute of the controller, the executor and the loop keeps its type.
THEOREM TypeCorrect == Spec => []TypeOK
<1>1. IInv => TypeOK
  BY DEF IInv
<1> QED
  BY <1>1, Invariance, PTL

\* No current request is silently forgotten by the controller, executor and loop.
THEOREM NeverForgotten == Spec => []CurrentIsTracked
<1>1. IInv => CurrentIsTracked
  <2> SUFFICES ASSUME IInv, Queued(current)
               PROVE  \E i \in DOMAIN callbacks :
                         callbacks[i] = [kind |-> "answer", id |-> current]
    BY DEF IInv, TrackedInv, CurrentIsTracked
  <2>1. PICK i \in DOMAIN callbacks : IsAnswer(i) /\ callbacks[i].id = current
    BY DEF Queued
  <2>2. callbacks[i] \in Callback
    BY QueueTyped DEF IInv
  <2> QED
    BY <2>1, <2>2 DEF Callback, IsAnswer
<1> QED
  BY <1>1, Invariance, PTL

\* A worker whose close() fails is never read by the user as an answer.
THEOREM CloseErrorHarmless == Spec => []CloseErrorChargesNobody
<1>1. IInv => CloseErrorChargesNobody
  BY DEF IInv, IdsInv, PhaseInv, CloseErrorChargesNobody
<1> QED
  BY <1>1, Invariance, PTL

\* The slot never holds the running request nor one older than it.
THEOREM SlotNewest == Spec => []SlotHoldsTheNewest
<1>1. IInv => SlotHoldsTheNewest
  BY DEF IInv, OnceInv, SlotHoldsTheNewest
<1> QED
  BY <1>1, Invariance, PTL

\* What changes when an answer is presented: only the latest, uncancelled,
\* unanswered request gets one.
LEMMA PresentStep ==
    ASSUME IInv, [Next]_vars, NEW r \in Request, presented'[r] # presented[r]
    PROVE  /\ RunCallback
           /\ r = current /\ r = Latest /\ r \notin cancelled
           /\ presented[r] = 0 /\ presented' = [presented EXCEPT ![r] = 1]
<1>1. RunCallback
  BY DEF Next, OwnerStep, ExecutorStep, Start, NewRequest, Dispatch, Invalidate, Stop,
         Shutdown, ConstructWorker, ConstructionFails, ReportInitialization,
         ReportFactoryError, TakeItem, FinishItem, Report, LeaveLoop, CloseWorker,
         ReportCloseError, Finalize, PostOther, RetireChild, vars
<1>2. /\ Head(callbacks).kind = "answer" /\ Head(callbacks).id = current
      /\ presented' = [presented EXCEPT ![Head(callbacks).id] = @ + 1]
      /\ callbacks # <<>>
  BY <1>1 DEF RunCallback, MayPresent
<1>3. 1 \in DOMAIN callbacks /\ Head(callbacks) = callbacks[1]
  BY <1>2, RunFacts DEF IInv
<1>4. current \in Request
  BY <1>2, <1>3, QueueTyped DEF IsAnswer, IInv
<1>5. r = current
  BY <1>2, <1>4 DEF IInv, TypeOK
<1>6. presented[current] = 0
  BY <1>2, <1>3 DEF IInv, OnceInv, IsAnswer
<1>7. r = Latest /\ r \notin cancelled
  BY <1>4, <1>5 DEF IInv, IdsInv
<1>8. presented' = [presented EXCEPT ![r] = 1]
  <2>1. presented' = [presented EXCEPT ![r] = presented[r] + 1]
    BY <1>2, <1>5
  <2>2. presented[r] = 0
    BY <1>5, <1>6
  <2> QED
    BY <2>1, <2>2
<1> QED
  BY <1>1, <1>5, <1>6, <1>7, <1>8

\* The popup only ever shows the answer of the latest request that nobody
\* withdrew, and shows it once: final currency is decided on the owner thread.
THEOREM OnlyTheLatest == Spec => PresentsOnlyTheLatest
<1>1. IInv /\ [Next]_vars =>
        [\A r \in Request : presented'[r] # presented[r] =>
            /\ r = nextRequestId - 1
            /\ r \notin cancelled
            /\ presented[r] = 0 /\ presented'[r] = 1]_vars
  BY PresentStep DEF IInv, TypeOK, Latest
<1> QED
  BY <1>1, Invariance, PTL DEF Spec, PresentsOnlyTheLatest

\* Two threads, the pending slot and the queue implement LatestAnswer: each step
\* asks, withdraws or answers the latest request, or is invisible to the client.
THEOREM Refinement == Spec => ImplementsPromise
<1>1. Init => Promise!Init
  BY DEF Init, Promise!Init
<1>2. IInv /\ [Next]_vars => [Promise!Next]_(Promise!vars)
  <2> SUFFICES ASSUME IInv, [Next]_vars,
                      ~UNCHANGED <<nextRequestId, current, presented>>
               PROVE  Promise!Next
    BY DEF Promise!vars
  <2>1. CASE NewRequest
    BY <2>1 DEF NewRequest, Promise!Next, Promise!Ask, IInv, TypeOK
  <2>2. CASE Dispatch \/ Invalidate \/ Stop
    BY <2>2 DEF Dispatch, SubmitAccepted, SubmitRefused, Invalidate, Stop,
                Promise!Next, Promise!Withdraw, IInv, TypeOK
  <2>3. CASE RunCallback
    <3>1. UNCHANGED <<nextRequestId, current>>
      BY <2>3 DEF RunCallback, controllerVars
    <3>2. PICK r \in Request : presented'[r] # presented[r]
      BY <2>3, <3>1 DEF RunCallback, MayPresent, IInv, TypeOK
    <3> QED
      BY <3>1, <3>2, PresentStep DEF Promise!Next, Promise!Answer
  <2> QED
    BY <2>1, <2>2, <2>3
    DEF Next, OwnerStep, ExecutorStep, Start, Shutdown, ConstructWorker,
        ConstructionFails, ReportInitialization, ReportFactoryError, TakeItem,
        FinishItem, Report, LeaveLoop, CloseWorker, ReportCloseError, Finalize,
        PostOther, RetireChild, vars, controllerVars
<1> QED
  BY <1>1, <1>2, Invariance, PTL DEF Spec, ImplementsPromise, Promise!Spec
=============================================================================
