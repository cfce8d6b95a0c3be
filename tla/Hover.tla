-------------------------------- MODULE Hover --------------------------------
(***************************************************************************)
(* The hover path of a session, from the mouse listener to the popup:      *)
(* MouseObserver, HoverController, HoverLookupRuntime, the session         *)
(* operations that steer them, and the popup's geometry.                   *)
(*                                                                         *)
(* Native text is read by a service that keeps the promise of OneAnswer,   *)
(* as DirectText shows.  Everything but the listener, that service and the *)
(* lookup worker runs on the owner loop: queued callbacks first, then a host      *)
(* request or a timer that is due.  A cancelled timer never fires there.   *)
(* A generation of the stability timer is a pair of an attempt and the     *)
(* number of times its delay was changed.                                  *)
(***************************************************************************)
EXTENDS OneAnswer

CONSTANTS
    Points,       \* places the pointer can be
    Card,         \* the place the popup covers
    Corridor,     \* the places on the way from a word to the popup
    Distance,     \* from a place to the popup
    Words,        \* the places that hold a word a lookup can find
    Readable,     \* the places whose text the native reader may be asked for
    MaxLookups,
    MaxEvents     \* movements and requests in a behaviour, but for requests that undo one

ASSUME HoverAssumption ==
    /\ Card \in Points /\ Corridor \subseteq Points \ {Card} /\ Words \subseteq Points \ {Card}
    /\ Distance \in [Points -> Nat] /\ Distance[Card] = 0
    /\ None \notin Points /\ Readable \subseteq Points
    /\ {MaxLookups, MaxEvents} \subseteq Nat

VARIABLES
    queue,        \* the owner loop's callbacks
    pointer,      \* where the pointer is
    events,       \* how much of that bound is used
    mouse,        \* MouseObserver
    dwell,        \* HoverController
    run,          \* HoverLookupRuntime: switches, startup point, readiness waiter
    ready,        \* the lookup worker: "starting", "ready" or "failed"
    session,      \* what the user has asked for
    lookups,      \* the places submitted so far; a lookup is its index
    readFor,      \* per direct-text request: the attempt it was made for
    current,      \* the lookup controller's current request
    tracked,      \* _active_hover_request_id
    flying,       \* lookups the worker has not finished
    target,       \* _retained: its lookup, and whether the card's place is known
    crossing,     \* the approach to the popup: timer, best distance, point, origin
    shown,        \* the lookup whose card is on screen
    frame,        \* _popup_sequence, as the lookup it was last raised for
    due,          \* history: the place the pointer rests on that is owed a reading
    cut           \* history: a card has ended the approach of that pointer

lookupVars == <<lookups, current, tracked, flying>>
targetVars == <<target, crossing>>
cardVars == <<shown, frame>>
boundVars == <<pointer, events>>
owed == <<due, cut>>
hvars == <<readVars, queue, boundVars, mouse, dwell, run, ready, session, readFor,
           lookupVars, targetVars, cardVars, owed>>

NoApproach == [armed |-> FALSE, best |-> None, point |-> None, origin |-> None]
From(p) == [NoApproach EXCEPT !.origin = p]

HoverInit ==
    /\ ReadInit /\ queue = <<>>
    /\ pointer \in Words /\ events = 0
    /\ mouse = [on |-> FALSE, stamp |-> 0, point |-> None, queued |-> FALSE]
    /\ dwell = [on |-> FALSE, made |-> 0, attempt |-> None, point |-> None,
                revision |-> 0, armed |-> FALSE]
    /\ run = [on |-> FALSE, accepting |-> TRUE, failed |-> FALSE, startup |-> None,
              waiter |-> "none"]
    /\ ready = "starting"
    /\ \E mode \in {"push", "always"} :
          session = [started |-> FALSE, muted |-> FALSE, held |-> FALSE, mode |-> mode,
                     sticky |-> mode = "push", selecting |-> FALSE, resume |-> FALSE,
                     toggled |-> FALSE, closed |-> FALSE]
    /\ readFor = [r \in Requests |-> None]
    /\ lookups = <<>> /\ current = None /\ tracked = None /\ flying = {}
    /\ target = None /\ crossing = NoApproach
    /\ shown = None /\ frame = None /\ due = None /\ cut = FALSE

-----------------------------------------------------------------------------
(* Pieces of the handlers.                                                 *)

Started(m) == IF m.on THEN m ELSE [m EXCEPT !.on = TRUE, !.stamp = @ + 1]
Stopped(m) == [on |-> FALSE, stamp |-> m.stamp + 1, point |-> None, queued |-> FALSE]

\* _stop_observing_if_idle, once nothing is retained
StopIfIdle(m) == IF run.accepting THEN m ELSE Stopped(m)

Forgotten(d) == [d EXCEPT !.attempt = None, !.armed = FALSE]
Paused(d) == [Forgotten(d) EXCEPT !.on = FALSE]

\* on_position of the stability controller
Attempted(d, p) ==
    IF d.on THEN [d EXCEPT !.made = @ + 1, !.attempt = d.made + 1, !.point = p, !.armed = TRUE]
    ELSE d

NothingInvalidated == UNCHANGED lookupVars    \* mutant: a movement supersedes nothing

\* _invalidate_active_hover
InvalidateActive ==
    /\ tracked' = None
    /\ current' = IF tracked # None /\ current = tracked THEN None ELSE current
    /\ UNCHANGED <<lookups, flying>>

DropCurrent == tracked' = None /\ current' = None /\ UNCHANGED <<lookups, flying>>

Retain(t) ==
    /\ target' = t
    /\ crossing' = IF t = None THEN NoApproach ELSE From(lookups[t.of])

HideOnly == shown' = None /\ UNCHANGED <<targetVars, frame>>    \* mutant: still protected

\* _hide_popup
HideCard == Retain(None) /\ shown' = None /\ UNCHANGED frame

NothingOwed == due' = None /\ cut' = FALSE
ReadAt(p) == due' = (IF due = p THEN None ELSE due) /\ UNCHANGED cut
ApproachCut == cut' = (cut \/ crossing.armed) /\ UNCHANGED due

-----------------------------------------------------------------------------
(* The listener's thread, and time.                                        *)

MouseMoves(p) ==
    /\ events < MaxEvents /\ p # pointer
    /\ pointer' = p /\ events' = events + 1
    /\ IF ~mouse.on THEN UNCHANGED <<mouse, queue>>
       ELSE /\ mouse' = [mouse EXCEPT !.point = p, !.queued = TRUE]
            /\ queue' = IF mouse.queued THEN queue
                        ELSE Append(queue, [kind |-> "move", about |-> mouse.stamp])
    /\ due' = IF mouse.on /\ run.on /\ run.accepting /\ dwell.on THEN p ELSE None
    /\ cut' = FALSE
    /\ UNCHANGED <<readVars, dwell, run, ready, session, readFor, lookupVars,
                   targetVars, cardVars>>

LoopIdle == queue = <<>>

DwellEnds ==
    /\ LoopIdle /\ dwell.armed
    /\ dwell' = [dwell EXCEPT !.armed = FALSE]
    /\ queue' = <<[kind |-> "stable", about |-> dwell.attempt, revision |-> dwell.revision]>>
    /\ UNCHANGED <<readVars, boundVars, mouse, run, ready, session, readFor, lookupVars,
                   targetVars, cardVars, owed>>

-----------------------------------------------------------------------------
(* A position, on the owner loop; `m` is the observer as it stands by then. *)

Protects(p) == target # None /\ (p = lookups[target.of] \/ (target.card /\ p = Card))

Best == IF crossing.best = None THEN Distance[crossing.origin] ELSE crossing.best

Crosses(p) ==
    /\ target # None /\ target.card /\ crossing.origin # None
    /\ p \in Corridor /\ Distance[p] <= Best

\* _leave_retained_target
Leave(m) ==
    /\ target' = None /\ crossing' = NoApproach
    /\ shown' = IF session.sticky THEN shown ELSE None
    /\ mouse' = StopIfIdle(m)
    /\ UNCHANGED frame

StaysProtected(p, m) ==
    /\ Protects(p)
    /\ crossing' = From(p)
    /\ dwell' = Forgotten(dwell)
    /\ mouse' = m /\ NothingOwed
    /\ UNCHANGED <<run, lookupVars, target, cardVars>>

Approaches(p, m) ==
    /\ ~Protects(p) /\ Crosses(p)
    /\ LET progress == crossing.best = None \/ Distance[p] < crossing.best
       IN crossing' = [crossing EXCEPT !.point = p, !.armed = TRUE,
                                       !.best = IF progress THEN Distance[p] ELSE @]
    /\ dwell' = Forgotten(dwell)
    /\ mouse' = m
    /\ UNCHANGED <<run, lookupVars, target, cardVars, owed>>

GoesElsewhere(p, m) ==
    /\ ~Protects(p) /\ ~Crosses(p)
    /\ Leave(m)
    /\ \/ /\ ~run.accepting
          /\ NothingOwed
          /\ UNCHANGED <<run, dwell, lookupVars>>
       \/ /\ run.accepting /\ ready # "ready"
          /\ run' = [run EXCEPT !.startup = p]
          /\ UNCHANGED <<dwell, lookupVars, owed>>
       \/ /\ run.accepting /\ ready = "ready"
          /\ InvalidateActive
          /\ dwell' = Attempted(dwell, p)
          /\ UNCHANGED <<run, owed>>

PositionSeen(p, m) ==
    \/ run.on /\ StaysProtected(p, m)
    \/ run.on /\ Approaches(p, m)
    \/ run.on /\ GoesElsewhere(p, m)
    \/ /\ ~run.on /\ mouse' = m
       /\ UNCHANGED <<run, dwell, lookupVars, targetVars, cardVars, owed>>

ExpiresQuietly ==    \* mutant: a paused approach starts no dwell
    /\ LoopIdle /\ crossing.armed
    /\ Leave(mouse)
    /\ UNCHANGED <<readVars, queue, boundVars, run, ready, session, readFor, lookupVars,
                   owed, dwell>>

\* _transfer_expired
ApproachExpires ==
    /\ LoopIdle /\ crossing.armed
    /\ Leave(mouse)
    /\ dwell' = IF run.on /\ run.accepting THEN Attempted(dwell, crossing.point) ELSE dwell
    /\ UNCHANGED <<readVars, queue, boundVars, run, ready, session, readFor, lookupVars, owed>>

-----------------------------------------------------------------------------
(* Callbacks the loop takes from its queue.                                *)

Taken(kind) == queue # <<>> /\ Head(queue).kind = kind

MoveSeen ==
    /\ Taken("move")
    /\ queue' = Tail(queue)
    /\ IF mouse.on /\ Head(queue).about = mouse.stamp
         THEN PositionSeen(mouse.point, [mouse EXCEPT !.point = None, !.queued = FALSE])
         ELSE UNCHANGED <<mouse, run, dwell, lookupVars, targetVars, cardVars, owed>>
    /\ UNCHANGED <<readVars, boundVars, ready, session, readFor>>

\* observe(), queued by a press of the chord
CursorSeen ==
    /\ Taken("observe")
    /\ queue' = Tail(queue)
    /\ PositionSeen(Head(queue).about, mouse)
    /\ UNCHANGED <<readVars, boundVars, ready, session, readFor>>

\* controller.submit or submit_selection, and _track_submission
Submitted(p) ==
    /\ Len(lookups) < MaxLookups
    /\ lookups' = Append(lookups, p)
    /\ current' = Len(lookups) + 1
    /\ tracked' = Len(lookups) + 1
    /\ flying' = flying \cup {Len(lookups) + 1}

\* _capture_and_submit: the capture may fail
Captured ==
    \/ Submitted(dwell.point)
    \/ UNCHANGED lookupVars

Aside == UNCHANGED <<boundVars, mouse, dwell, run, ready, session, targetVars, cardVars>>

IsCurrent(attempt) == dwell.attempt # None /\ dwell.attempt = attempt

\* _deliver_if_current and _on_stable
StableReached ==
    /\ Taken("stable")
    /\ queue' = Tail(queue)
    /\ LET valid == /\ dwell.on /\ IsCurrent(Head(queue).about)
                    /\ dwell.revision = Head(queue).revision
                    /\ run.on
       IN \/ ~valid /\ UNCHANGED <<readVars, readFor, lookupVars, owed>>
          \/ /\ valid /\ dwell.point \in Readable
             /\ Ask
             /\ readFor' = [readFor EXCEPT ![asked + 1] = dwell.attempt]
             /\ UNCHANGED <<lookupVars, owed>>
          \/ /\ valid /\ dwell.point \notin Readable
             /\ Captured
             /\ ReadAt(dwell.point)
             /\ UNCHANGED <<readVars, readFor>>
    /\ Aside

\* _on_direct_text
ReadAnswered ==
    /\ Taken("direct")
    /\ queue' = Tail(queue)
    /\ LET outcome == answer[Head(queue).about]
           valid == IsCurrent(readFor[Head(queue).about])
       IN /\ \/ valid /\ outcome = "direct" /\ Submitted(dwell.point)
             \/ valid /\ outcome \notin {"direct", "not_korean"} /\ Captured
             \/ /\ ~valid \/ outcome \in {"direct", "not_korean"}
                /\ UNCHANGED lookupVars
          /\ IF valid THEN ReadAt(dwell.point) ELSE UNCHANGED owed
    /\ UNCHANGED <<readVars, readFor>>
    /\ Aside

\* _show_popup: a new frame, whose geometry is retained by a callback of its own
RaiseCard(l) ==
    /\ shown' = l /\ frame' = l
    /\ queue' = Append(Tail(queue), [kind |-> "geometry", about |-> l])

\* The lookup controller's delivery, present() and note_presented.  A result
\* that is worth no card leaves the one on screen alone; one without a place on
\* screen protects nothing.
Presented ==
    /\ Taken("answer")
    /\ LET l == Head(queue).about IN
       \/ /\ current # l \/ lookups[l] \notin Words
          /\ queue' = Tail(queue)
          /\ UNCHANGED <<targetVars, cardVars, owed>>
       \/ /\ current = l
          /\ \/ lookups[l] \in Words /\ Retain([of |-> l, card |-> FALSE])
             \/ Retain(None)
          /\ RaiseCard(l)
          /\ ApproachCut
    /\ UNCHANGED <<readVars, boundVars, mouse, dwell, run, ready, session, readFor, lookupVars>>

\* update_popup_geometry
CardPlaced ==
    /\ IF target = None THEN UNCHANGED targetVars ELSE Retain([target EXCEPT !.card = TRUE])
    /\ ApproachCut

\* _retain_popup_geometry
GeometryRetained ==
    /\ Taken("geometry")
    /\ queue' = Tail(queue)
    /\ IF Head(queue).about = frame /\ Head(queue).about = current /\ shown # None
         THEN CardPlaced
         ELSE UNCHANGED <<targetVars, owed>>
    /\ UNCHANGED <<readVars, boundVars, mouse, dwell, run, ready, session, readFor,
                   lookupVars, cardVars>>

\* dismiss(), queued by a press of the chord: _dismiss_retained
Dismissed ==
    /\ Taken("dismiss")
    /\ queue' = Tail(queue)
    /\ HideCard
    /\ mouse' = StopIfIdle(mouse)
    /\ ApproachCut
    /\ UNCHANGED <<readVars, boundVars, dwell, run, ready, session, readFor, lookupVars>>

\* The outcome of the wait for the worker; also _fail.
Watching(r, d) ==
    /\ dwell' = IF r.startup = None THEN [d EXCEPT !.on = TRUE]
                ELSE Attempted([d EXCEPT !.on = TRUE], r.startup)
    /\ run' = [r EXCEPT !.startup = None]

ReadySeen ==
    /\ Taken("ready")
    /\ queue' = Tail(queue)
    /\ LET waited == [run EXCEPT !.waiter = "none"] IN
       \/ /\ ~run.on /\ run' = waited
          /\ UNCHANGED <<dwell, mouse, lookupVars, owed>>
       \/ /\ run.on /\ ready = "ready"
          /\ Watching(waited, dwell)
          /\ UNCHANGED <<mouse, lookupVars, owed>>
       \/ /\ run.on /\ ready = "failed"
          /\ run' = [waited EXCEPT !.failed = TRUE, !.on = FALSE, !.startup = None]
          /\ mouse' = Stopped(mouse)
          /\ dwell' = Paused(dwell)
          /\ InvalidateActive
          /\ NothingOwed
    /\ UNCHANGED <<readVars, boundVars, ready, session, readFor, targetVars, cardVars>>

-----------------------------------------------------------------------------
(* The lookup worker, the thread that waits for it and the native reader.  *)

Others == UNCHANGED <<boundVars, mouse, dwell, session, readFor, lookups, current, tracked,
                      targetVars, cardVars, owed>>

WorkerStarts ==
    /\ ready = "starting" /\ ~session.closed
    /\ ready' \in {"ready", "failed"}
    /\ UNCHANGED <<readVars, queue, run, flying>> /\ Others

WaiterWakes ==
    /\ run.waiter = "waiting" /\ ready # "starting"
    /\ run' = [run EXCEPT !.waiter = "posted"]
    /\ queue' = Append(queue, [kind |-> "ready", about |-> None])
    /\ UNCHANGED <<readVars, ready, flying>> /\ Others

LookupFinishes ==
    /\ ready = "ready"
    /\ \E l \in flying :
          /\ flying' = flying \ {l}
          /\ queue' = Append(queue, [kind |-> "answer", about |-> l])
    /\ UNCHANGED <<readVars, ready, run>> /\ Others

\* Every outcome but these two means the same to hover as a replaced request.
ReaderDecides ==
    /\ \E r \in Requests, o \in {"direct", "not_korean", "superseded"} : Answer(r, o)
    /\ UNCHANGED <<queue, ready, run, flying>> /\ Others

\* deliver() of _start_direct_text
ReaderTells ==
    /\ \E r \in Requests :
          /\ Tell(r)
          /\ queue' = IF session.closed THEN queue
                      ELSE Append(queue, [kind |-> "direct", about |-> r])
    /\ UNCHANGED <<ready, run, flying>> /\ Others

-----------------------------------------------------------------------------
(* Requests of the user and of the host.                                   *)

\* What undoes an earlier request is not counted.
Free == LoopIdle /\ ~session.closed
Undo == Free /\ UNCHANGED boundVars
Request == Free /\ events < MaxEvents /\ events' = events + 1 /\ UNCHANGED pointer

Apart == UNCHANGED <<ready, readFor>>

\* start() and resume(), up to the wait for the worker
Armed == [run EXCEPT !.on = TRUE,
                     !.waiter = IF run.waiter = "none" /\ ready # "ready" THEN "waiting" ELSE @]
Begun(d) == IF ready = "ready" /\ run.waiter = "none" THEN [d EXCEPT !.on = TRUE] ELSE d

\* pause(), of a hover that runs
PausedRun == [run EXCEPT !.on = FALSE, !.startup = None, !.accepting = TRUE]

PauseHover ==
    IF run.on
      THEN run' = PausedRun /\ mouse' = Stopped(mouse) /\ dwell' = Paused(dwell)
      ELSE UNCHANGED <<run, mouse, dwell>>

AcceptingAlone(v, r, m, d) ==    \* mutant: the card on screen is not considered
    /\ run' = [r EXCEPT !.accepting = v]
    /\ mouse' = IF r.accepting = v THEN m ELSE IF v /\ r.on THEN Started(m) ELSE Stopped(m)
    /\ dwell' = IF r.accepting /\ ~v THEN Forgotten(d) ELSE d
    /\ IF r.accepting /\ ~v THEN InvalidateActive ELSE UNCHANGED lookupVars

\* set_accepting, with the mouse and the dwell as they stand by then
Accepting(v, r, m, d) ==
    /\ run' = [r EXCEPT !.accepting = v]
    /\ mouse' = IF r.accepting = v THEN m
                ELSE IF v THEN (IF r.on THEN Started(m) ELSE m)
                ELSE IF target = None THEN Stopped(m) ELSE m
    /\ dwell' = IF r.accepting /\ ~v THEN Forgotten(d) ELSE d
    /\ IF r.accepting /\ ~v THEN InvalidateActive ELSE UNCHANGED lookupVars

\* A start after hover has failed ends as ShutDown does.
Start ==
    /\ Undo /\ ~session.started /\ ~run.failed
    /\ session' = [session EXCEPT !.started = TRUE, !.muted = FALSE, !.held = FALSE]
    /\ IF run.on THEN Accepting(session.mode = "always", run, mouse, dwell)
       ELSE Accepting(session.mode = "always", Armed, Started(mouse), Begun(dwell))
    /\ NothingOwed
    /\ UNCHANGED <<readVars, queue, targetVars, cardVars>> /\ Apart

Stop ==
    /\ Request /\ session.started
    /\ session' = [session EXCEPT !.started = FALSE, !.muted = FALSE, !.held = FALSE]
    /\ PauseHover /\ DropCurrent /\ HideCard /\ NothingOwed
    /\ UNCHANGED <<readVars, queue>> /\ Apart

\* toggle_hover flips a flag of its own, then set_hover_muted compares.
ToggleHover ==
    /\ IF session.toggled THEN Undo ELSE Request
    /\ session.started
    /\ LET muted == ~session.toggled IN
       /\ session' = [session EXCEPT !.toggled = muted, !.muted = muted]
       /\ \/ /\ session.muted = muted
             /\ UNCHANGED <<run, mouse, dwell, lookupVars, targetVars, cardVars, owed>>
          \/ /\ ~session.muted /\ muted
             /\ PauseHover /\ DropCurrent /\ HideCard /\ NothingOwed
          \/ /\ session.muted /\ ~muted
             /\ IF run.on \/ run.failed THEN UNCHANGED <<run, mouse, dwell>>
                ELSE run' = Armed /\ mouse' = Started(mouse) /\ dwell' = Begun(dwell)
             /\ current' = None /\ UNCHANGED <<lookups, tracked, flying>>
             /\ UNCHANGED <<targetVars, cardVars, owed>>
    /\ UNCHANGED <<readVars, queue>> /\ Apart

Press ==
    /\ Request /\ session.mode = "push" /\ session.started /\ ~session.held
    /\ session' = [session EXCEPT !.held = TRUE]
    /\ Accepting(TRUE, run, mouse, dwell)
    /\ queue' = <<[kind |-> "dismiss", about |-> None], [kind |-> "observe", about |-> pointer]>>
    /\ NothingOwed
    /\ UNCHANGED <<readVars, targetVars, cardVars>> /\ Apart

Release ==
    /\ Undo /\ session.mode = "push" /\ session.held
    /\ session' = [session EXCEPT !.held = FALSE]
    /\ Accepting(FALSE, run, mouse, dwell)
    /\ NothingOwed
    /\ UNCHANGED <<readVars, queue, targetVars, cardVars>> /\ Apart

\* Every change of the settings applies the delay again.
Rescheduled == [dwell EXCEPT !.revision = @ + 1, !.armed = dwell.on /\ dwell.attempt # None]

ChangeSettings ==
    /\ Request
    /\ dwell' = Rescheduled
    /\ UNCHANGED <<session, run, mouse, lookupVars, readVars, queue, targetVars, cardVars, owed>>
    /\ Apart

\* A chord that is held is let go first.
ChangeMode ==
    /\ Request
    /\ LET always == session.mode = "push"
           free == session.held /\ target = None IN
       /\ session' = [session EXCEPT !.mode = IF always THEN "always" ELSE "push", !.held = FALSE]
       /\ IF ~session.held THEN Accepting(always /\ session.started, run, mouse, Rescheduled)
          ELSE /\ run' = [run EXCEPT !.accepting = TRUE]
               /\ mouse' = IF ~free THEN mouse
                           ELSE IF run.on THEN Started(Stopped(mouse)) ELSE Stopped(mouse)
               /\ dwell' = Forgotten(Rescheduled)
               /\ InvalidateActive
    /\ NothingOwed
    /\ UNCHANGED <<readVars, queue, targetVars, cardVars>> /\ Apart

\* _native_selection: the user draws a capture area
SelectionBegins ==
    /\ Request /\ ~session.selecting
    /\ session' = [session EXCEPT !.selecting = TRUE, !.resume = run.on]
    /\ PauseHover /\ HideCard /\ NothingOwed
    /\ IF run.on THEN InvalidateActive ELSE UNCHANGED lookupVars
    /\ UNCHANGED <<readVars, queue>> /\ Apart

SelectionEnds ==
    /\ Undo /\ session.selecting
    /\ session' = [session EXCEPT !.selecting = FALSE, !.resume = FALSE]
    /\ IF session.resume /\ ~run.on /\ ~run.failed
         THEN run' = Armed /\ mouse' = Started(mouse) /\ dwell' = Begun(dwell)
         ELSE UNCHANGED <<run, mouse, dwell>>
    /\ NothingOwed
    /\ UNCHANGED <<readVars, queue, lookupVars, targetVars, cardVars>> /\ Apart

\* popup_geometry and popup_close of the frame on screen
HostPlaces ==
    /\ Request /\ shown # None
    /\ CardPlaced
    /\ UNCHANGED <<session, readVars, queue, run, mouse, dwell, lookupVars, cardVars>> /\ Apart

HostCloses ==
    /\ Request /\ shown # None
    /\ HideCard /\ NothingOwed
    /\ UNCHANGED <<session, readVars, queue, run, mouse, dwell, lookupVars>> /\ Apart

ShutDown ==
    /\ Request
    /\ session' = [session EXCEPT !.closed = TRUE, !.started = FALSE, !.muted = FALSE,
                                  !.held = FALSE]
    /\ run' = [run EXCEPT !.on = FALSE, !.startup = None]
    /\ mouse' = Stopped(mouse) /\ dwell' = Paused(dwell)
    /\ DropCurrent /\ NothingOwed
    /\ shown' = None /\ UNCHANGED <<target, frame>>
    /\ crossing' = [NoApproach EXCEPT !.origin = crossing.origin]
    /\ UNCHANGED <<readVars, queue>> /\ Apart

UserActs ==
    \/ Start \/ Stop \/ ToggleHover \/ Press \/ Release \/ ChangeSettings \/ ChangeMode
    \/ SelectionBegins \/ SelectionEnds \/ HostPlaces \/ HostCloses \/ ShutDown

-----------------------------------------------------------------------------
Callbacks ==
    \/ MoveSeen \/ CursorSeen \/ StableReached \/ ReadAnswered \/ Presented
    \/ GeometryRetained \/ Dismissed \/ ReadySeen
Timers == DwellEnds \/ ApproachExpires

Next ==
    \/ \E p \in Points : MouseMoves(p)
    \/ UserActs \/ Callbacks \/ Timers
    \/ WorkerStarts \/ WaiterWakes \/ LookupFinishes \/ ReaderDecides \/ ReaderTells

\* The loop's thread runs, timers fire, the lookup worker and the thread that
\* waits for it run, and the reader answers its newest request.  The user may do
\* nothing.
NewestIsDecided == asked > 0 /\ answer[asked] = None /\ answer'[asked] # None

Fairness ==
    /\ WF_hvars(Callbacks) /\ WF_hvars(DwellEnds) /\ WF_hvars(ApproachExpires)
    /\ WF_hvars(WorkerStarts) /\ WF_hvars(WaiterWakes) /\ WF_hvars(LookupFinishes)
    /\ WF_hvars(ReaderDecides /\ NewestIsDecided)
    /\ WF_hvars(ReaderTells)

HoverSpec == HoverInit /\ [][Next]_hvars /\ Fairness

-----------------------------------------------------------------------------
(* Properties.                                                             *)

\* RetainedTarget: a place is protected against new lookups only for the card
\* that is on screen, never for one that has been hidden or replaced.
ProtectedIsShown == ~session.closed /\ target # None => shown = target.of

\* _stop_observing_if_idle, "once no popup needs its geometry": a hover that goes
\* on gives up the pointer only with nothing to start and no card to take down.
ObservedWhileNeeded ==
    [][mouse.on /\ ~mouse'.on /\ run'.on => ~run'.accepting /\ target' = None]_hvars

Raised == shown' # shown /\ shown' # None

\* A card comes up only for a hover that runs and at a place the pointer was not
\* seen to leave, unless the delay was applied again and the place read twice.
RaisedWhereSeen ==
    [][Raised => run.on /\ (lookups[shown'] = dwell.point \/ dwell.revision > 0)]_hvars

\* Pausing over a word starts its dwell and its dwell its reading, whatever the
\* reader does, unless a card came up or moved while the pointer approached it.
RestIsRead == due # None ~> (due = None \/ cut)
=============================================================================
