----------------------------- MODULE DirectText -----------------------------
(***************************************************************************)
(* DirectTextService: native text is read off the owner's thread by one    *)
(* worker, which may hang in a native call, while a watcher answers for it *)
(* at the deadline.  Both settle requests; a latch lets one of them.       *)
(*                                                                         *)
(* A request is its generation.  Deadlines lie a fixed time after the      *)
(* submission, so they pass in the order of the requests.                  *)
(***************************************************************************)
EXTENDS OneAnswer

CONSTANT Readings \* what the native layer may answer

VARIABLES
    pending,      \* _pending
    active,       \* _active
    closed,       \* _closed
    late,         \* requests whose deadline has passed
    asleep,       \* whether the watcher waits on the condition
    worker,       \* the worker: its place, job and outcome
    watcher       \* the watcher: likewise

vars == <<readVars, pending, active, closed, late, asleep, worker, watcher>>

Resting == [at |-> "rest", job |-> None, outcome |-> "refused"]

Init ==
    /\ ReadInit /\ pending = None /\ active = None /\ closed = FALSE
    /\ late = {} /\ asleep = FALSE
    /\ worker = Resting /\ watcher = Resting

Place == [at : {"rest", "native", "settle", "deliver", "ended"},
          job : Requests \cup {None}, outcome : Outcomes]

TypeOK ==
    /\ asked \in 0..MaxReads /\ told \in [Requests -> {0, 1}]
    /\ {pending, active} \subseteq Requests \cup {None}
    /\ closed \in BOOLEAN
    /\ answer \in [Requests -> Outcomes \cup {None}]
    /\ late \subseteq Requests
    /\ asleep \in BOOLEAN
    /\ worker \in Place /\ watcher \in Place

-----------------------------------------------------------------------------
(* What the caller does.                                                   *)

\* submit refuses once the service is closed.
Submit ==
    /\ ~closed
    /\ Ask
    /\ pending' = asked + 1
    /\ asleep' = FALSE
    /\ UNCHANGED <<active, closed, late, worker, watcher>>

\* The joins that follow are bounded, so they end whatever the threads do.
Close ==
    /\ ~closed
    /\ closed' = TRUE
    /\ pending' = None
    /\ asleep' = FALSE
    /\ UNCHANGED <<readVars, active, late, worker, watcher>>

-----------------------------------------------------------------------------
(* What a reading is worth.                                                *)

\* The first reason that applies.  `plain` says that the reading is not of a
\* password field, holds text and lies under the pointer; `exact` that the
\* word's own rectangle is known.
Judge(reading) ==
    CASE ~reading.plain -> "refused"
      [] reading.script = "other" -> "not_korean"
      [] reading.script = "placeholder" \/ ~reading.exact -> "refused"
      [] OTHER -> "direct"

Replaced(r) == closed \/ asked # r

Acquired(r, reading) ==
    IF Replaced(r) THEN "superseded"
    ELSE IF r \in late THEN "timed_out" ELSE Judge(reading)

-----------------------------------------------------------------------------
(* The worker.                                                             *)

\* _consume up to the native call.  A job that is late or out of the capture
\* scope is not read; its active spell touches nothing else.
WorkerTakes ==
    /\ worker.at = "rest" /\ ~closed /\ pending # None
    /\ pending' = None
    /\ \/ /\ worker' = [at |-> "settle", job |-> pending,
                        outcome |-> IF pending \in late \/ answer[pending] # None
                                      THEN "timed_out" ELSE "refused"]
          /\ active' = None
          /\ asleep' = FALSE
       \/ /\ pending \notin late /\ answer[pending] = None
          /\ worker' = [at |-> "native", job |-> pending, outcome |-> "refused"]
          /\ active' = pending
          /\ UNCHANGED asleep
    /\ UNCHANGED <<readVars, closed, late, watcher>>

NativeReturns ==
    /\ worker.at = "native"
    /\ \E reading \in Readings :
          worker' = [worker EXCEPT !.at = "settle", !.outcome = Acquired(worker.job, reading)]
    /\ active' = None
    /\ asleep' = FALSE
    /\ UNCHANGED <<readVars, pending, closed, late, watcher>>

WorkerEnds ==
    /\ worker.at = "rest" /\ closed
    /\ worker' = [worker EXCEPT !.at = "ended"]
    /\ UNCHANGED <<readVars, pending, active, closed, late, asleep, watcher>>

-----------------------------------------------------------------------------
(* The watcher.                                                            *)

WatchedActive ==    \* mutant: only the job that is being read is watched
    {r \in {active} \ {None} : answer[r] = None}

Watched == {r \in {active, pending} \ {None} : answer[r] = None}
Earliest == CHOOSE r \in Watched : \A o \in Watched : r <= o
Overdue == Watched # {} /\ Earliest \in late

\* With a job it waits until its deadline, without one until it is notified.
WatcherWaits ==
    /\ watcher.at = "rest" /\ ~asleep /\ ~closed
    /\ ~Overdue
    /\ watcher' = [watcher EXCEPT !.job = IF Watched = {} THEN None ELSE Earliest]
    /\ asleep' = TRUE
    /\ UNCHANGED <<readVars, pending, active, closed, late, worker>>

WatcherWakes ==
    /\ asleep /\ watcher.job \in late
    /\ asleep' = FALSE
    /\ UNCHANGED <<readVars, pending, active, closed, late, worker, watcher>>

WatcherExpires ==
    /\ watcher.at = "rest" /\ ~asleep /\ ~closed
    /\ Overdue
    /\ watcher' = [at |-> "settle", job |-> Earliest, outcome |-> "timed_out"]
    /\ UNCHANGED <<readVars, pending, active, closed, late, asleep, worker>>

WatcherEnds ==
    /\ watcher.at = "rest" /\ ~asleep /\ closed
    /\ watcher' = [watcher EXCEPT !.at = "ended"]
    /\ UNCHANGED <<readVars, pending, active, closed, late, asleep, worker>>

-----------------------------------------------------------------------------
(* _deliver: the latch under the lock, then the caller's callback outside. *)

Verdict(r, outcome) ==
    IF asked # r THEN "superseded" ELSE IF r \in late THEN "timed_out" ELSE outcome

LatchedBlindly(place) ==    \* mutant: the latch is not looked at
    /\ answer' = [answer EXCEPT ![place.job] = Verdict(place.job, place.outcome)]
    /\ UNCHANGED <<asked, told>>

Latched(place) ==
    IF answer[place.job] # None
      THEN UNCHANGED readVars
      ELSE /\ answer' = [answer EXCEPT ![place.job] = Verdict(place.job, place.outcome)]
           /\ UNCHANGED <<asked, told>>

AfterLatch(place) ==
    IF answer[place.job] # None \/ closed THEN Resting
    ELSE [place EXCEPT !.at = "deliver"]

WorkerSettles ==
    /\ worker.at = "settle"
    /\ Latched(worker)
    /\ worker' = AfterLatch(worker)
    /\ UNCHANGED <<pending, active, closed, late, asleep, watcher>>

WatcherSettles ==
    /\ watcher.at = "settle"
    /\ Latched(watcher)
    /\ watcher' = AfterLatch(watcher)
    /\ UNCHANGED <<pending, active, closed, late, asleep, worker>>

Called(r) == told' = [told EXCEPT ![r] = @ + 1] /\ UNCHANGED <<asked, answer>>

WorkerDelivers ==
    /\ worker.at = "deliver"
    /\ Called(worker.job)
    /\ worker' = Resting
    /\ UNCHANGED <<pending, active, closed, late, asleep, watcher>>

WatcherDelivers ==
    /\ watcher.at = "deliver"
    /\ Called(watcher.job)
    /\ watcher' = Resting
    /\ UNCHANGED <<pending, active, closed, late, asleep, worker>>

\* The clock reaches the next deadline.
Lapse ==
    /\ \E r \in 1..asked :
          /\ r \notin late /\ \A o \in 1..(r - 1) : o \in late
          /\ late' = late \cup {r}
    /\ UNCHANGED <<readVars, pending, active, closed, asleep, worker, watcher>>

WorkerStep == WorkerTakes \/ WorkerSettles \/ WorkerDelivers \/ WorkerEnds
WatcherStep ==
    \/ WatcherWaits \/ WatcherWakes \/ WatcherExpires \/ WatcherSettles
    \/ WatcherDelivers \/ WatcherEnds

Next == Submit \/ Close \/ WorkerStep \/ NativeReturns \/ WatcherStep \/ Lapse

\* The threads run and the clock goes on; nothing says that the caller asks, or
\* that a native call returns.
Spec ==
    /\ Init /\ [][Next]_vars
    /\ WF_vars(WorkerStep) /\ WF_vars(WatcherStep) /\ WF_vars(Lapse)

-----------------------------------------------------------------------------
(* Properties.                                                             *)

\* _deliver, "deliver one outcome between them": a request is decided and told of
\* at most once, and one that was replaced in time is decided as no more than that.
OneOutcome == ReadSpec

\* "The caller is released ... instead of waiting for it": whatever the native
\* call does, the newest request is told of unless the service is closed.
NewestIsTold ==
    \A r \in Requests : (asked = r) ~> (told[r] > 0 \/ asked > r \/ closed)
=============================================================================
