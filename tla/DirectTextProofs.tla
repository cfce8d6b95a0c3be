-------------------------- MODULE DirectTextProofs --------------------------
(***************************************************************************)
(* For any number of requests and any readings: the worker and the         *)
(* watcher, whichever of them settles a request and whenever the caller    *)
(* asks again or closes, decide it once and call its caller back once.     *)
(***************************************************************************)
EXTENDS DirectText, TLAPS

\* What a thread settles was asked for, and what it delivers was decided by it
\* and is told by nobody else.
JobIsAsked(place) ==
    place.at \in {"native", "settle", "deliver"} => place.job \in 1..asked
OwnsDelivery(place) ==
    place.at = "deliver" => answer[place.job] # None /\ told[place.job] = 0

Safe ==
    /\ {pending, active} \subseteq 1..asked \cup {None}
    /\ JobIsAsked(worker) /\ JobIsAsked(watcher)
    /\ OwnsDelivery(worker) /\ OwnsDelivery(watcher)
    /\ worker.at = "deliver" /\ watcher.at = "deliver" => worker.job # watcher.job
    /\ \A r \in Requests : told[r] = 1 => answer[r] # None

IInv == TypeOK /\ Safe

-----------------------------------------------------------------------------
(* The operators *)

\* _watch, min(jobs): the job the watcher chooses is one of those it watches.
LEMMA EarliestIsWatched ==
    ASSUME TypeOK, Watched # {}
    PROVE  Earliest \in Watched
<1>1. Watched \subseteq {active, pending} /\ Watched \subseteq Nat
    BY OneAnswerAssumption DEF Watched, TypeOK, Requests
<1>2. \E r \in Watched : \A o \in Watched : r <= o
    <2>1. CASE active \in Watched /\ pending \in Watched
        <3>1. active <= pending \/ pending <= active BY <1>1, <2>1
        <3>. QED BY <1>1, <2>1, <3>1
    <2>2. CASE active \notin Watched \/ pending \notin Watched
        <3>1. PICK r \in Watched : TRUE OBVIOUS
        <3>2. \A o \in Watched : o = r BY <1>1, <2>2, <3>1
        <3>. QED BY <1>1, <3>1, <3>2
    <2>. QED BY <2>1, <2>2
<1>. QED BY <1>2 DEF Earliest

\* _acquire: whatever the native layer answers, the outcome is one of those known.
LEMMA JudgedIsOutcome ==
    ASSUME NEW r, NEW reading
    PROVE  Acquired(r, reading) \in Outcomes
<1>1. Judge(reading) \in Outcomes BY DEF Judge, Outcomes
<1>. QED BY <1>1 DEF Acquired, Outcomes

-----------------------------------------------------------------------------
(* The invariant *)

LEMMA InitInvariant == Init => IInv
<1>. SUFFICES ASSUME Init PROVE IInv OBVIOUS
<1>. USE DEF Init, ReadInit
<1>1. Resting \in Place BY DEF Resting, Place, Outcomes
<1>2. asked \in 0..MaxReads /\ late \subseteq Requests BY OneAnswerAssumption
<1>3. TypeOK BY <1>1, <1>2 DEF TypeOK
<1>4. Safe BY DEF Safe, JobIsAsked, OwnsDelivery, Resting
<1>. QED BY <1>3, <1>4 DEF IInv

LEMMA SubmitInvariant == IInv /\ Submit => IInv'
<1>. SUFFICES ASSUME IInv, Submit PROVE IInv' OBVIOUS
<1>. USE DEF IInv, TypeOK, Submit, Ask
<1>1. asked' \in 1..MaxReads /\ 1..asked \subseteq 1..asked' BY OneAnswerAssumption
<1>2. asked' \in 0..MaxReads /\ pending' \in Requests BY <1>1 DEF Requests
<1>3. TypeOK' BY <1>2
<1>4. Safe' BY <1>1 DEF Safe, JobIsAsked, OwnsDelivery
<1>. QED BY <1>3, <1>4

LEMMA CloseInvariant == IInv /\ Close => IInv'
BY DEF IInv, TypeOK, Place, Safe, JobIsAsked, OwnsDelivery, Close, readVars

LEMMA LapseInvariant == IInv /\ Lapse => IInv'
BY OneAnswerAssumption
   DEF IInv, TypeOK, Place, Safe, JobIsAsked, OwnsDelivery, Lapse, readVars, Requests

LEMMA WorkerTakesInvariant == IInv /\ WorkerTakes => IInv'
<1>. SUFFICES ASSUME IInv, WorkerTakes PROVE IInv' OBVIOUS
<1>1. /\ pending \in 1..asked /\ worker'.job = pending /\ worker'.at \in {"settle", "native"}
      /\ worker'.outcome \in Outcomes
    BY DEF IInv, Safe, WorkerTakes, Outcomes
<1>2. TypeOK'
    BY <1>1, OneAnswerAssumption DEF IInv, TypeOK, Place, WorkerTakes, readVars, Requests
<1>3. Safe'
    BY <1>1, OneAnswerAssumption
       DEF IInv, TypeOK, Place, Safe, JobIsAsked, OwnsDelivery, WorkerTakes, readVars, Requests
<1>. QED BY <1>2, <1>3 DEF IInv

LEMMA NativeReturnsInvariant == IInv /\ NativeReturns => IInv'
<1>. SUFFICES ASSUME IInv, NativeReturns PROVE IInv' OBVIOUS
<1>1. PICK reading \in Readings :
          worker' = [worker EXCEPT !.at = "settle", !.outcome = Acquired(worker.job, reading)]
    BY DEF NativeReturns
<1>2. Acquired(worker.job, reading) \in Outcomes BY JudgedIsOutcome
<1>. QED BY <1>1, <1>2 DEF IInv, TypeOK, Place, Safe, JobIsAsked, OwnsDelivery, NativeReturns, readVars
LEMMA WorkerEndsInvariant == IInv /\ WorkerEnds => IInv'
BY DEF IInv, TypeOK, Place, Safe, JobIsAsked, OwnsDelivery, WorkerEnds, readVars

LEMMA WatcherWaitsInvariant == IInv /\ WatcherWaits => IInv'
<1>. SUFFICES ASSUME IInv, WatcherWaits PROVE IInv' OBVIOUS
<1>1. watcher'.job \in Requests \cup {None}
    BY EarliestIsWatched DEF IInv, TypeOK, Place, WatcherWaits, Watched
<1>. QED BY <1>1 DEF IInv, TypeOK, Place, Safe, JobIsAsked, OwnsDelivery, WatcherWaits, readVars

LEMMA WatcherWakesInvariant == IInv /\ WatcherWakes => IInv'
BY DEF IInv, TypeOK, Safe, JobIsAsked, OwnsDelivery, WatcherWakes, readVars

LEMMA WatcherExpiresInvariant == IInv /\ WatcherExpires => IInv'
<1>. SUFFICES ASSUME IInv, WatcherExpires PROVE IInv' OBVIOUS
<1>1. Earliest \in Requests /\ Earliest \in 1..asked
    BY EarliestIsWatched DEF IInv, TypeOK, Safe, WatcherExpires, Overdue, Watched
<1>. QED BY <1>1 DEF IInv, TypeOK, Place, Safe, JobIsAsked, OwnsDelivery, WatcherExpires,
                    Outcomes, readVars

LEMMA WatcherEndsInvariant == IInv /\ WatcherEnds => IInv'
BY DEF IInv, TypeOK, Place, Safe, JobIsAsked, OwnsDelivery, WatcherEnds, readVars

-----------------------------------------------------------------------------
(* _deliver: the latch, and the call after it *)

\* The latch decides a request that was asked for and is not decided yet, and says
\* no more than "superseded" of one that was replaced.
LEMMA LatchAnswers ==
    ASSUME IInv, NEW place \in Place, place.job \in 1..asked, Latched(place)
    PROVE  IF answer[place.job] # None THEN UNCHANGED readVars
           ELSE \E o \in Outcomes : Answer(place.job, o)
<1>1. CASE answer[place.job] # None BY <1>1 DEF Latched
<1>2. CASE answer[place.job] = None
    <2>1. Verdict(place.job, place.outcome) \in Outcomes BY DEF Verdict, Place, Outcomes
    <2>2. place.job < asked => Verdict(place.job, place.outcome) = "superseded"
        BY OneAnswerAssumption DEF Verdict, IInv, TypeOK
    <2>3. Answer(place.job, Verdict(place.job, place.outcome))
        BY <1>2, <2>2, OneAnswerAssumption DEF Answer, Latched, IInv, TypeOK
    <2>. QED BY <1>2, <2>1, <2>3
<1>. QED BY <1>1, <1>2

LEMMA WorkerSettlesInvariant == IInv /\ WorkerSettles => IInv'
<1>. SUFFICES ASSUME IInv, WorkerSettles PROVE IInv' OBVIOUS
<1>0. worker.job \in 1..asked /\ worker.job \in Requests /\ Resting \in Place
    BY OneAnswerAssumption
       DEF IInv, Safe, JobIsAsked, WorkerSettles, TypeOK, Requests, Resting, Place, Outcomes
<1>1. Verdict(worker.job, worker.outcome) \in Outcomes
    BY DEF IInv, TypeOK, Verdict, Place, Outcomes
<1>2. None \notin Outcomes BY OneAnswerAssumption
<1>3. CASE answer[worker.job] # None
    BY <1>0, <1>3 DEF IInv, TypeOK, Safe, JobIsAsked, OwnsDelivery, WorkerSettles, Latched,
                     AfterLatch, Resting, readVars
<1>4. CASE answer[worker.job] = None
    <2>1. /\ answer' = [answer EXCEPT ![worker.job] = Verdict(worker.job, worker.outcome)]
          /\ told[worker.job] = 0 /\ worker' \in {Resting, [worker EXCEPT !.at = "deliver"]}
        BY <1>0, <1>4 DEF IInv, TypeOK, Safe, WorkerSettles, Latched, AfterLatch
    <2>. QED BY <1>0, <1>1, <1>2, <1>4, <2>1
             DEF IInv, TypeOK, Place, Safe, JobIsAsked, OwnsDelivery, WorkerSettles, Latched,
                 Resting
<1>. QED BY <1>3, <1>4

LEMMA WatcherSettlesInvariant == IInv /\ WatcherSettles => IInv'
<1>. SUFFICES ASSUME IInv, WatcherSettles PROVE IInv' OBVIOUS
<1>0. watcher.job \in 1..asked /\ watcher.job \in Requests /\ Resting \in Place
    BY OneAnswerAssumption
       DEF IInv, Safe, JobIsAsked, WatcherSettles, TypeOK, Requests, Resting, Place, Outcomes
<1>1. Verdict(watcher.job, watcher.outcome) \in Outcomes
    BY DEF IInv, TypeOK, Verdict, Place, Outcomes
<1>2. None \notin Outcomes BY OneAnswerAssumption
<1>3. CASE answer[watcher.job] # None
    BY <1>0, <1>3 DEF IInv, TypeOK, Safe, JobIsAsked, OwnsDelivery, WatcherSettles, Latched,
                     AfterLatch, Resting, readVars
<1>4. CASE answer[watcher.job] = None
    <2>1. /\ answer' = [answer EXCEPT ![watcher.job] = Verdict(watcher.job, watcher.outcome)]
          /\ told[watcher.job] = 0 /\ watcher' \in {Resting, [watcher EXCEPT !.at = "deliver"]}
        BY <1>0, <1>4 DEF IInv, TypeOK, Safe, WatcherSettles, Latched, AfterLatch
    <2>. QED BY <1>0, <1>1, <1>2, <1>4, <2>1
             DEF IInv, TypeOK, Place, Safe, JobIsAsked, OwnsDelivery, WatcherSettles, Latched,
                 Resting
<1>. QED BY <1>3, <1>4
LEMMA WorkerDeliversInvariant == IInv /\ WorkerDelivers => IInv'
<1>. SUFFICES ASSUME IInv, WorkerDelivers PROVE IInv' OBVIOUS
<1>1. worker.job \in Requests /\ told[worker.job] = 0 /\ answer[worker.job] # None
    BY OneAnswerAssumption
       DEF IInv, TypeOK, Safe, JobIsAsked, OwnsDelivery, WorkerDelivers, Requests
<1>2. told' = [told EXCEPT ![worker.job] = 1]
    BY <1>1 DEF WorkerDelivers, Called
<1>. QED BY <1>1, <1>2
         DEF IInv, TypeOK, Place, Safe, JobIsAsked, OwnsDelivery, WorkerDelivers, Called,
             Resting, Outcomes

LEMMA WatcherDeliversInvariant == IInv /\ WatcherDelivers => IInv'
<1>. SUFFICES ASSUME IInv, WatcherDelivers PROVE IInv' OBVIOUS
<1>1. watcher.job \in Requests /\ told[watcher.job] = 0 /\ answer[watcher.job] # None
    BY OneAnswerAssumption
       DEF IInv, TypeOK, Safe, JobIsAsked, OwnsDelivery, WatcherDelivers, Requests
<1>2. told' = [told EXCEPT ![watcher.job] = 1]
    BY <1>1 DEF WatcherDelivers, Called
<1>. QED BY <1>1, <1>2
         DEF IInv, TypeOK, Place, Safe, JobIsAsked, OwnsDelivery, WatcherDelivers, Called,
             Resting, Outcomes

LEMMA StepInvariant == IInv /\ [Next]_vars => IInv'
<1>. SUFFICES ASSUME IInv, [Next]_vars PROVE IInv' OBVIOUS
<1>1. CASE Submit \/ Close \/ NativeReturns \/ Lapse
    BY <1>1, SubmitInvariant, CloseInvariant, NativeReturnsInvariant, LapseInvariant
<1>2. CASE WorkerStep
    BY <1>2, WorkerTakesInvariant, WorkerSettlesInvariant, WorkerDeliversInvariant,
       WorkerEndsInvariant DEF WorkerStep
<1>3. CASE WatcherStep
    BY <1>3, WatcherWaitsInvariant, WatcherWakesInvariant, WatcherExpiresInvariant,
       WatcherSettlesInvariant, WatcherDeliversInvariant, WatcherEndsInvariant DEF WatcherStep
<1>4. CASE UNCHANGED vars
    BY <1>4 DEF vars, readVars, IInv, TypeOK, Safe, JobIsAsked, OwnsDelivery
<1>. QED BY <1>1, <1>2, <1>3, <1>4 DEF Next

\* The two threads and their caller keep the types, and the ownership that the
\* refinement rests on.
THEOREM InvariantHolds == Spec => []IInv
<1>1. Init => IInv BY InitInvariant
<1>2. IInv /\ [Next]_vars => IInv' BY StepInvariant
<1>. QED BY <1>1, <1>2, PTL DEF Spec

-----------------------------------------------------------------------------
(* The refinement *)

\* A settlement decides, a delivery tells, a submission asks, and nothing else
\* that the service does can be seen by its caller.
LEMMA StepRefines == IInv /\ [Next]_vars => [ReadStep]_readVars
<1>. SUFFICES ASSUME IInv, [Next]_vars PROVE [ReadStep]_readVars OBVIOUS
<1>1. CASE Submit BY <1>1 DEF Submit, ReadStep
<1>2. CASE WorkerSettles \/ WatcherSettles
    <2>1. ASSUME NEW place \in Place, place.at = "settle", JobIsAsked(place), Latched(place)
          PROVE  [ReadStep]_readVars
        <3>1. place.job \in 1..asked /\ place.job \in Requests
            BY <2>1, OneAnswerAssumption DEF JobIsAsked, IInv, TypeOK, Requests
        <3>. QED BY <2>1, <3>1, LatchAnswers DEF ReadStep
    <2>. QED BY <1>2, <2>1 DEF WorkerSettles, WatcherSettles, IInv, TypeOK, Safe
<1>3. CASE WorkerDelivers \/ WatcherDelivers
    <2>1. ASSUME NEW place \in Place, place.at = "deliver", JobIsAsked(place),
                 OwnsDelivery(place), Called(place.job)
          PROVE  ReadStep
        <3>1. place.job \in Requests
            BY <2>1, OneAnswerAssumption DEF JobIsAsked, IInv, TypeOK, Requests
        <3>2. answer[place.job] # None /\ told[place.job] = 0 BY <2>1 DEF OwnsDelivery
        <3>3. told' = [told EXCEPT ![place.job] = 1] BY <2>1, <3>2 DEF Called
        <3>4. Tell(place.job) BY <2>1, <3>2, <3>3 DEF Called, Tell
        <3>. QED BY <3>1, <3>4 DEF ReadStep
    <2>. QED BY <1>3, <2>1 DEF WorkerDelivers, WatcherDelivers, IInv, TypeOK, Safe
<1>4. CASE WorkerTakes \/ WorkerEnds \/ NativeReturns \/ Close \/ Lapse
    BY <1>4 DEF WorkerTakes, WorkerEnds, NativeReturns, Close, Lapse
<1>5. CASE WatcherWaits \/ WatcherWakes \/ WatcherExpires \/ WatcherEnds
    BY <1>5 DEF WatcherWaits, WatcherWakes, WatcherExpires, WatcherEnds
<1>6. CASE UNCHANGED vars BY <1>6 DEF vars
<1>. QED BY <1>1, <1>2, <1>3, <1>4, <1>5, <1>6 DEF Next, WorkerStep, WatcherStep

\* _deliver, "deliver one outcome between them": for every number of requests,
\* each is decided at most once, as no more than "superseded" once a newer one
\* was made, and its caller is called back at most once.
THEOREM OneOutcomeHolds == Spec => OneOutcome
<1>1. Init => ReadInit BY DEF Init
<1>2. IInv /\ [Next]_vars => [ReadStep]_readVars BY StepRefines
<1>. QED BY <1>1, <1>2, InvariantHolds, PTL DEF Spec, OneOutcome, ReadSpec
=============================================================================
