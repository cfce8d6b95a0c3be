----------------------------- MODULE HoverProofs -----------------------------
(***************************************************************************)
(* For any places, lookups, readings and requests: a place is protected    *)
(* for the card on screen only, a running hover observes as long as it     *)
(* must, and a card comes up where the pointer was seen to rest.           *)
(***************************************************************************)
EXTENDS Hover, TLAPS

Place == Points \cup {None}
Count == Nat \cup {None}

\* What the loop has in its queue.
Callback ==
    [kind : {"move", "direct", "answer", "geometry"}, about : Nat]
    \cup [kind : {"stable"}, about : Nat, revision : Nat]
    \cup [kind : {"observe"}, about : Points]
    \cup [kind : {"dismiss", "ready"}, about : {None}]

Mouse == [on : BOOLEAN, stamp : Nat, point : Place, queued : BOOLEAN]
Dwell == [on : BOOLEAN, made : Nat, attempt : Count, point : Place, revision : Nat,
          armed : BOOLEAN]
Run == [on : BOOLEAN, accepting : BOOLEAN, failed : BOOLEAN, startup : Place,
        waiter : {"none", "waiting", "posted"}]
Session == [started : BOOLEAN, muted : BOOLEAN, held : BOOLEAN, mode : {"push", "always"},
            sticky : BOOLEAN, selecting : BOOLEAN, resume : BOOLEAN, toggled : BOOLEAN,
            closed : BOOLEAN]
Target == {None} \cup [of : Nat, card : BOOLEAN]
Approach == [armed : BOOLEAN, best : Count, point : Place, origin : Place]

ReadTypes ==
    /\ asked \in Nat /\ answer \in [Requests -> Outcomes \cup {None}]
    /\ told \in [Requests -> {0, 1}] /\ readFor \in [Requests -> Count]
LookupTypes == lookups \in Seq(Place) /\ current \in Count /\ flying \subseteq 1..Len(lookups)
CardTypes == target \in Target /\ crossing \in Approach /\ shown \in Count /\ frame \in Count

Types ==
    /\ ReadTypes /\ queue \in Seq(Callback) /\ pointer \in Points
    /\ mouse \in Mouse /\ dwell \in Dwell /\ run \in Run
    /\ ready \in {"starting", "ready", "failed"} /\ session \in Session
    /\ LookupTypes /\ CardTypes

\* What a hover that does not run, does not do.
Running ==
    /\ run.on => ~session.closed
    /\ dwell.on => run.on /\ ready = "ready"
    /\ dwell.attempt # None => dwell.on /\ dwell.attempt <= dwell.made
    /\ dwell.armed => dwell.attempt # None
    /\ run.startup # None => run.on /\ ~dwell.on
    /\ current # None => current = tracked /\ dwell.on /\ current \in 1..Len(lookups)
    /\ target # None => session.closed \/ (dwell.on /\ target.of \in 1..Len(lookups))
    /\ crossing.armed => target # None

\* A timer, an answer and a delivery each come once.
Once ==
    /\ \A i \in 1..Len(queue) : queue[i].kind = "stable" =>
          i = 1 /\ queue[i].about <= dwell.made
    /\ \A i, j \in 1..Len(queue) :
          queue[i].kind \in {"answer", "direct"} /\ queue[j].kind = queue[i].kind
            /\ queue[j].about = queue[i].about => i = j
    /\ \A i \in 1..Len(queue) : queue[i].kind = "answer" =>
          queue[i].about \in 1..Len(lookups) /\ queue[i].about \notin flying
    /\ \A i \in 1..Len(queue) : queue[i].kind = "direct" =>
          queue[i].about \in Requests /\ told[queue[i].about] = 1
OneReading ==
    \A r \in Requests :
       /\ readFor[r] # None => readFor[r] <= dwell.made
       /\ r > asked => readFor[r] = None /\ answer[r] = None
       /\ answer[r] = None => told[r] = 0

\* Callback i of the queue is of this kind and about x.
At(i, kind, x) == queue[i].kind = kind /\ queue[i].about = x
Queued(kind, x) == \E i \in 1..Len(queue) : At(i, kind, x)

\* The current lookup has not come back.
Outstanding == current # None /\ (current \in flying \/ Queued("answer", current))

\* What may still make a lookup of the attempt there is: its delay, or a reading.
Stable == Queued("stable", dwell.attempt)
Reading(r) == readFor[r] = dwell.attempt /\ (told[r] = 0 \/ Queued("direct", r))
Spent == ~dwell.armed /\ ~Stable /\ \A r \in Requests : ~Reading(r)

\* An attempt makes one lookup, at its own place, and none while a card is kept.
Single ==
    dwell.attempt # None =>
        /\ dwell.armed => ~Stable /\ \A r \in Requests : ~Reading(r)
        /\ Stable => \A r \in Requests : ~Reading(r)
        /\ \A r, s \in Requests : Reading(r) /\ Reading(s) => r = s
        /\ Outstanding \/ target # None => Spent
Placed ==
    /\ Outstanding => lookups[current] = dwell.point
    /\ target # None => ~Outstanding
Ordered == dwell.revision = 0 => Single /\ Placed

IInv == Types /\ Running /\ Once /\ OneReading /\ ProtectedIsShown /\ Ordered

-----------------------------------------------------------------------------
(* The records and the queue *)

LEMMA Nothing == None \notin Nat /\ None \notin Points
BY OneAnswerAssumption, HoverAssumption

LEMMA ForgottenDoes ==
    ASSUME NEW d \in Dwell
    PROVE  /\ Forgotten(d) \in Dwell /\ Forgotten(d).attempt = None /\ Forgotten(d).armed = FALSE
           /\ Forgotten(d).on = d.on /\ Forgotten(d).made = d.made /\ Forgotten(d).point = d.point
           /\ Forgotten(d).revision = d.revision
BY DEF Forgotten, Dwell, Count

LEMMA PausedDoes ==
    ASSUME NEW d \in Dwell
    PROVE  /\ Paused(d) \in Dwell /\ Paused(d).attempt = None /\ Paused(d).armed = FALSE
           /\ Paused(d).on = FALSE /\ Paused(d).made = d.made /\ Paused(d).point = d.point
           /\ Paused(d).revision = d.revision
BY DEF Paused, Forgotten, Dwell, Count

LEMMA AttemptedDoes ==
    ASSUME NEW d \in Dwell, NEW p \in Place
    PROVE  /\ Attempted(d, p) \in Dwell /\ Attempted(d, p).on = d.on
           /\ Attempted(d, p).revision = d.revision
           /\ d.on => /\ Attempted(d, p).made = d.made + 1
                      /\ Attempted(d, p).attempt = d.made + 1 /\ Attempted(d, p).point = p
           /\ ~d.on => Attempted(d, p) = d
<1>1. d.made + 1 \in Nat BY DEF Dwell
<1>2. CASE d.on BY <1>1, <1>2 DEF Attempted, Dwell, Count
<1>3. CASE ~d.on BY <1>3 DEF Attempted
<1>. QED BY <1>2, <1>3

LEMMA TurnedOn ==
    ASSUME NEW d \in Dwell
    PROVE  LET e == [d EXCEPT !.on = TRUE] IN
           /\ e \in Dwell /\ e.on = TRUE /\ e.made = d.made /\ e.attempt = d.attempt
           /\ e.point = d.point /\ e.revision = d.revision /\ e.armed = d.armed
BY DEF Dwell

LEMMA BegunDoes ==
    ASSUME NEW d \in Dwell
    PROVE  /\ Begun(d) \in Dwell /\ Begun(d).made = d.made /\ Begun(d).attempt = d.attempt
           /\ Begun(d).point = d.point /\ Begun(d).revision = d.revision
           /\ Begun(d).armed = d.armed /\ (d.on => Begun(d).on)
           /\ Begun(d).on => d.on \/ ready = "ready"
BY TurnedOn DEF Begun

LEMMA RescheduledDoes ==
    ASSUME dwell \in Dwell
    PROVE  /\ Rescheduled \in Dwell /\ Rescheduled.made = dwell.made
           /\ Rescheduled.attempt = dwell.attempt /\ Rescheduled.point = dwell.point
           /\ Rescheduled.revision = dwell.revision + 1 /\ Rescheduled.on = dwell.on
           /\ Rescheduled.armed => dwell.attempt # None
<1>1. dwell.revision + 1 \in Nat BY DEF Dwell
<1>2. ASSUME NEW armed \in BOOLEAN
      PROVE  LET e == [dwell EXCEPT !.revision = @ + 1, !.armed = armed] IN
             /\ e \in Dwell /\ e.made = dwell.made /\ e.attempt = dwell.attempt
             /\ e.point = dwell.point /\ e.revision = dwell.revision + 1 /\ e.on = dwell.on
             /\ e.armed = armed
    BY <1>1 DEF Dwell
<1>3. CASE dwell.on /\ dwell.attempt # None
    <2>1. Rescheduled = [dwell EXCEPT !.revision = @ + 1, !.armed = TRUE]
        BY <1>3 DEF Rescheduled, Dwell
    <2>. QED BY <1>2, <1>3, <2>1
<1>4. CASE ~(dwell.on /\ dwell.attempt # None)
    <2>1. Rescheduled = [dwell EXCEPT !.revision = @ + 1, !.armed = FALSE]
        BY <1>4 DEF Rescheduled, Dwell
    <2>. QED BY <1>2, <1>4, <2>1
<1>. QED BY <1>3, <1>4

LEMMA MouseDoes ==
    ASSUME NEW m \in Mouse
    PROVE  /\ Started(m) \in Mouse /\ Started(m).on = TRUE
           /\ Stopped(m) \in Mouse /\ Stopped(m).on = FALSE
           /\ StopIfIdle(m) \in Mouse /\ StopIfIdle(m) = IF run.accepting THEN m ELSE Stopped(m)
<1>1. m.stamp + 1 \in Nat BY DEF Mouse
<1>2. Started(m) \in Mouse /\ Started(m).on = TRUE BY <1>1 DEF Started, Mouse
<1>3. Stopped(m) \in Mouse /\ Stopped(m).on = FALSE BY <1>1 DEF Stopped, Mouse, Place
<1>. QED BY <1>2, <1>3 DEF StopIfIdle

LEMMA RunDoes ==
    ASSUME NEW r \in Run
    PROVE  /\ \A v \in BOOLEAN : LET s == [r EXCEPT !.accepting = v] IN
                 s \in Run /\ s.accepting = v /\ s.on = r.on /\ s.startup = r.startup
           /\ \A p \in Place : LET s == [r EXCEPT !.startup = p] IN
                 s \in Run /\ s.accepting = r.accepting /\ s.on = r.on /\ s.startup = p
           /\ LET s == [r EXCEPT !.waiter = "none"] IN
                 s \in Run /\ s.accepting = r.accepting /\ s.on = r.on /\ s.startup = r.startup
           /\ LET s == [r EXCEPT !.waiter = "posted"] IN
                 s \in Run /\ s.accepting = r.accepting /\ s.on = r.on /\ s.startup = r.startup
           /\ LET s == [r EXCEPT !.failed = TRUE, !.on = FALSE, !.startup = None] IN
                 s \in Run /\ s.accepting = r.accepting /\ s.on = FALSE /\ s.startup = None
           /\ LET s == [r EXCEPT !.on = FALSE, !.startup = None] IN
                 s \in Run /\ s.accepting = r.accepting /\ s.on = FALSE /\ s.startup = None
BY DEF Run, Place

LEMMA RunStarts ==
    ASSUME run \in Run
    PROVE  /\ Armed \in Run /\ Armed.on = TRUE /\ Armed.accepting = run.accepting
           /\ Armed.startup = run.startup
           /\ PausedRun \in Run /\ PausedRun.on = FALSE /\ PausedRun.startup = None
<1>1. Armed \in Run /\ Armed.on = TRUE /\ Armed.accepting = run.accepting
      /\ Armed.startup = run.startup
    BY DEF Armed, Run
<1>2. PausedRun \in Run /\ PausedRun.on = FALSE /\ PausedRun.startup = None
    BY DEF PausedRun, Run, Place
<1>. QED BY <1>1, <1>2

\* Nothing but what was there may still end a delay, bring an answer or a reading.
Loud == {"stable", "answer", "direct"}
Shifted(d) ==
    \A i \in 1..Len(queue') : queue'[i].kind \in Loud =>
        i + d \in 1..Len(queue) /\ queue'[i] = queue[i + d]
QueueQuiet == queue' \in Seq(Callback) /\ \E d \in {0, 1} : Shifted(d)

LEMMA AppendDoes ==
    ASSUME NEW S, NEW q \in Seq(S), NEW c \in S
    PROVE  /\ Append(q, c) \in Seq(S) /\ Len(Append(q, c)) = Len(q) + 1
           /\ \A i \in 1..Len(q) : Append(q, c)[i] = q[i]
           /\ Append(q, c)[Len(q) + 1] = c
OBVIOUS

LEMMA TailDoes ==
    ASSUME NEW S, NEW q \in Seq(S), q # <<>>
    PROVE  /\ Head(q) \in S /\ Head(q) = q[1] /\ Len(q) > 0
           /\ Tail(q) \in Seq(S) /\ Len(Tail(q)) = Len(q) - 1
           /\ \A i \in 1..Len(q) - 1 : Tail(q)[i] = q[i + 1]
OBVIOUS

LEMMA QueueSame ==
    ASSUME queue \in Seq(Callback), queue' = queue
    PROVE  QueueQuiet
<1>1. Shifted(0) BY DEF Shifted
<1>. QED BY <1>1 DEF QueueQuiet

LEMMA QueueTaken ==
    ASSUME queue \in Seq(Callback), queue # <<>>, queue' = Tail(queue)
    PROVE  QueueQuiet
<1>1. Shifted(1) BY TailDoes DEF Shifted
<1>. QED BY <1>1, TailDoes DEF QueueQuiet

LEMMA QueueAdded ==
    ASSUME queue \in Seq(Callback), NEW c \in Callback, c.kind \notin Loud,
           queue' = Append(queue, c)
    PROVE  QueueQuiet
<1>1. Shifted(0) BY AppendDoes DEF Shifted
<1>. QED BY <1>1, AppendDoes DEF QueueQuiet

LEMMA QueueReplaced ==
    ASSUME queue \in Seq(Callback), NEW c \in Callback, c.kind \notin Loud,
           queue # <<>>, queue' = Append(Tail(queue), c)
    PROVE  QueueQuiet
<1>1. Tail(queue) \in Seq(Callback) /\ Len(Tail(queue)) = Len(queue) - 1
      /\ \A i \in 1..Len(queue) - 1 : Tail(queue)[i] = queue[i + 1]
    BY TailDoes
<1>2. /\ queue' \in Seq(Callback) /\ Len(queue') = Len(queue)
      /\ \A i \in 1..Len(queue) - 1 : queue'[i] = queue[i + 1]
      /\ queue'[Len(queue)] = c
    BY <1>1, AppendDoes
<1>3. Len(queue) \in Nat OBVIOUS
<1>4. Shifted(1)
    <2>. SUFFICES ASSUME NEW i \in 1..Len(queue'), queue'[i].kind \in Loud
                  PROVE  i + 1 \in 1..Len(queue) /\ queue'[i] = queue[i + 1]
        BY DEF Shifted
    <2>1. i # Len(queue) BY <1>2
    <2>2. i \in 1..Len(queue) - 1 /\ i + 1 \in 1..Len(queue)
        <3>1. i \in 1..Len(queue) BY <1>2
        <3>. QED BY <1>3, <2>1, <3>1
    <2>. QED BY <1>2, <2>2
<1>. QED BY <1>2, <1>4 DEF QueueQuiet

-----------------------------------------------------------------------------
(* A step that makes no lookup, reading or answer *)

LEMMA QuietQueue ==
    ASSUME Types, Once, QueueQuiet, dwell'.made >= dwell.made, dwell'.made \in Nat,
           UNCHANGED <<told, lookups, flying>>
    PROVE  /\ Once'
           /\ \A i \in 1..Len(queue') : queue'[i].kind \in Loud =>
                 \E j \in 1..Len(queue) : queue[j] = queue'[i]
<1>1. PICK d \in {0, 1} : Shifted(d) BY DEF QueueQuiet
<1>2. \A i \in 1..Len(queue') : queue'[i].kind \in {"stable", "answer", "direct"} =>
          i + d \in 1..Len(queue) /\ queue'[i] = queue[i + d]
    BY <1>1 DEF Shifted, Loud
<1>3. \A i \in 1..Len(queue') : queue'[i].kind \in Loud =>
          \E j \in 1..Len(queue) : queue[j] = queue'[i]
    BY <1>1 DEF Shifted
<1>4. \A i \in 1..Len(queue') : queue'[i].kind = "stable" =>
          i = 1 /\ queue'[i].about <= dwell'.made
    <2>. SUFFICES ASSUME NEW i \in 1..Len(queue'), queue'[i].kind = "stable"
                  PROVE  i = 1 /\ queue'[i].about <= dwell'.made
        OBVIOUS
    <2>1. i + d = 1 /\ queue'[i].about <= dwell.made BY <1>2 DEF Once
    <2>2. queue[i + d] \in Callback /\ queue[i + d].kind = "stable" BY <1>2 DEF Types
    <2>3. queue'[i].about \in Nat BY <1>2, <2>2 DEF Callback
    <2>4. Len(queue') \in Nat BY DEF QueueQuiet
    <2>. QED BY <2>1, <2>3, <2>4 DEF Types, Dwell
<1>5. Once'
    <2>1. \A i, j \in 1..Len(queue') :
              queue'[i].kind \in {"answer", "direct"} /\ queue'[j].kind = queue'[i].kind
                /\ queue'[j].about = queue'[i].about => i = j
        <3>. SUFFICES ASSUME NEW i \in 1..Len(queue'), NEW j \in 1..Len(queue'),
                             queue'[i].kind \in {"answer", "direct"},
                             queue'[j].kind = queue'[i].kind, queue'[j].about = queue'[i].about
                      PROVE  i = j
            OBVIOUS
        <3>1. /\ i + d \in 1..Len(queue) /\ queue'[i] = queue[i + d]
              /\ j + d \in 1..Len(queue) /\ queue'[j] = queue[j + d]
            BY <1>2
        <3>2. i + d = j + d BY <3>1 DEF Once
        <3>. QED BY <3>2
    <2>. QED BY <1>2, <1>4, <2>1 DEF Once
<1>. QED BY <1>3, <1>5

\* What becomes of the attempt in such a step.
Same == /\ dwell'.attempt = dwell.attempt /\ (dwell'.armed => dwell.armed)
        /\ dwell'.point = dwell.point /\ dwell'.made = dwell.made
Dropped == /\ dwell'.attempt = None /\ dwell'.point = dwell.point /\ dwell'.made = dwell.made
Begins == /\ dwell'.attempt = dwell.made + 1 /\ dwell'.made = dwell.made + 1
          /\ target' = None /\ (current' = None \/ ~Outstanding \/ dwell.revision # 0)

LEMMA QuietStep ==
    ASSUME Types, Once, OneReading, Ordered, QueueQuiet,
           UNCHANGED <<readVars, readFor, lookups, flying>>,
           current' \in {current, None},
           target' # None => target # None,
           dwell' \in Dwell, dwell'.revision = 0 => dwell.revision = 0,
           dwell'.made >= dwell.made,
           dwell'.revision = 0 => Same \/ Dropped \/ Begins
    PROVE  Once' /\ OneReading' /\ Ordered'
<1>1. dwell.made \in Nat /\ dwell'.made \in Nat BY DEF Types, Dwell
<1>2. UNCHANGED <<asked, answer, told, readFor, lookups, flying>> BY DEF readVars
<1>3. /\ Once'
      /\ \A i \in 1..Len(queue') : queue'[i].kind \in {"stable", "answer", "direct"} =>
            \E j \in 1..Len(queue) : queue[j] = queue'[i]
    BY <1>1, <1>2, QuietQueue DEF Loud
<1>4. OneReading'
    <2>1. \A r \in Requests : readFor[r] \in Nat \cup {None} BY DEF Types, ReadTypes, Count
    <2>. QED BY <1>1, <1>2, <2>1 DEF OneReading
<1>5. Ordered'
    <2>. SUFFICES ASSUME dwell'.revision = 0 PROVE Single' /\ Placed' BY DEF Ordered
    <2>1. Single /\ Placed BY DEF Ordered
    <2>2. Outstanding' => Outstanding /\ current' = current
        BY <1>2, <1>3 DEF Outstanding, Queued, At
    <2>3. CASE Same
        <3>1. Stable' => Stable BY <1>3, <2>3 DEF Stable, Queued, At, Same
        <3>2. \A r \in Requests : Reading(r)' => Reading(r) 
            BY <1>2, <1>3, <2>3 DEF Reading, Queued, At, Same
        <3>. QED BY <1>2, <2>1, <2>2, <2>3, <3>1, <3>2 DEF Single, Placed, Spent, Same
    <2>4. CASE Dropped BY <1>2, <2>1, <2>2, <2>4 DEF Single, Placed, Dropped
    <2>5. CASE Begins
        <3>1. ~Outstanding' /\ target' = None
            BY <2>2, <2>5 DEF Begins, Outstanding
        <3>2. ~Stable'
            <4>1. \A i \in 1..Len(queue) : queue[i].kind = "stable" => queue[i].about <= dwell.made
                BY DEF Once
            <4>2. ~Queued("stable", dwell.made + 1) BY <1>1, <4>1 DEF Queued, At
            <4>. QED BY <1>3, <2>5, <4>2 DEF Stable, Begins, Queued, At
        <3>3. \A r \in Requests : readFor[r] # dwell.made + 1
            BY <1>1, Nothing DEF OneReading
        <3>4. \A r \in Requests : ~Reading(r)' BY <1>2, <2>5, <3>3 DEF Reading, Begins
        <3>. QED BY <3>1, <3>2, <3>4 DEF Single, Placed
    <2>. QED BY <2>3, <2>4, <2>5
<1>. QED BY <1>3, <1>4, <1>5

-----------------------------------------------------------------------------
(* What a step must show                                                    *)

Watched == mouse.on /\ ~mouse'.on /\ run'.on => ~run'.accepting /\ target' = None
Raises ==
    shown' # shown /\ shown' # None =>
        run.on /\ (lookups[shown'] = dwell.point \/ dwell.revision > 0)
Good == IInv' /\ Watched /\ Raises

LEMMA QuietGood ==
    ASSUME IInv, QueueQuiet, UNCHANGED <<readVars, readFor, lookups, flying>>,
           pointer' \in Points, mouse' \in Mouse, dwell' \in Dwell, run' \in Run,
           ready' \in {"starting", "ready", "failed"}, session' \in Session,
           current' \in {current, None},
           target' \in Target, target' # None => target # None,
           crossing' \in Approach, shown' \in {shown, None}, frame' = frame,
           dwell'.revision = 0 => dwell.revision = 0,
           dwell'.made >= dwell.made,
           dwell'.revision = 0 => Same \/ Dropped \/ Begins,
           Running', ProtectedIsShown', Watched
    PROVE  Good
<1>1. Once' /\ OneReading' /\ Ordered' BY QuietStep DEF IInv
<1>2. Raises BY DEF Raises
<1>3. ReadTypes' BY DEF IInv, Types, ReadTypes, readVars
<1>4. LookupTypes'
    <2>1. LookupTypes /\ None \in Count BY DEF IInv, Types, Count
    <2>. QED BY <2>1 DEF LookupTypes
<1>5. CardTypes' BY DEF IInv, Types, CardTypes, Count
<1>6. Types' BY <1>3, <1>4, <1>5 DEF Types, QueueQuiet
<1>. QED BY <1>1, <1>2, <1>6 DEF IInv, Good

\* What the state is, in the words the proofs of the steps use.
LEMMA Known ==
    ASSUME IInv
    PROVE  /\ queue \in Seq(Callback) /\ pointer \in Points /\ mouse \in Mouse /\ dwell \in Dwell
           /\ run \in Run /\ ready \in {"starting", "ready", "failed"} /\ session \in Session
           /\ target \in Target /\ crossing \in Approach /\ shown \in Count /\ frame \in Count
           /\ current \in Count /\ lookups \in Seq(Place)
           /\ dwell.made \in Nat /\ dwell.revision \in Nat /\ dwell.point \in Place
           /\ mouse.point \in Place /\ mouse.stamp \in Nat /\ run.startup \in Place
           /\ crossing.point \in Place
           /\ run.accepting \in BOOLEAN /\ mouse.on \in BOOLEAN /\ run.on \in BOOLEAN
BY DEF IInv, Types, CardTypes, LookupTypes, Dwell, Mouse, Run, Approach

LEMMA Invalidated ==
    ASSUME IInv, InvalidateActive \/ DropCurrent
    PROVE  current' = None /\ tracked' = None /\ UNCHANGED <<lookups, flying>>
BY DEF IInv, Running, InvalidateActive, DropCurrent

LEMMA RetainDoes ==
    ASSUME IInv, NEW STATE t, t \in Target, t # None => t.of \in 1..Len(lookups), Retain(t)
    PROVE  target' = t /\ crossing' \in Approach /\ ~crossing'.armed
<1>1. \A p \in Place : From(p) \in Approach /\ ~From(p).armed
    BY DEF From, NoApproach, Approach, Place, Count
<1>2. NoApproach \in Approach /\ ~NoApproach.armed
    BY DEF NoApproach, Approach, Place, Count
<1>3. t # None => lookups[t.of] \in Place BY Known
<1>. QED BY <1>1, <1>2, <1>3 DEF Retain

LEMMA HideDoes ==
    ASSUME IInv, HideCard
    PROVE  /\ target' = None /\ crossing' \in Approach /\ ~crossing'.armed
           /\ shown' = None /\ frame' = frame
BY RetainDoes DEF HideCard, Target

LEMMA PlacedDoes ==
    ASSUME IInv, ~session.closed, CardPlaced
    PROVE  /\ target' \in Target /\ (target' # None => target # None /\ target'.of = target.of)
           /\ crossing' \in Approach /\ (crossing'.armed => target' # None)
<1>1. CASE target = None
    BY <1>1, Known DEF CardPlaced, targetVars, IInv, Running
<1>2. CASE target # None
    <2>1. target \in [of : Nat, card : BOOLEAN] BY <1>2, Known DEF Target
    <2>2. /\ [target EXCEPT !.card = TRUE] \in Target
          /\ [target EXCEPT !.card = TRUE].of = target.of
        BY <2>1 DEF Target
    <2>3. target.of \in 1..Len(lookups) BY <1>2 DEF IInv, Running
    <2>4. Retain([target EXCEPT !.card = TRUE]) BY <1>2 DEF CardPlaced
    <2>. QED BY <1>2, <2>2, <2>3, <2>4, RetainDoes
<1>. QED BY <1>1, <1>2

LEMMA LeaveDoes ==
    ASSUME IInv, NEW STATE m, m \in Mouse, Leave(m)
    PROVE  /\ target' = None /\ crossing' \in Approach /\ ~crossing'.armed
           /\ shown' \in {shown, None} /\ frame' = frame
           /\ mouse' \in Mouse /\ mouse' = IF run.accepting THEN m ELSE Stopped(m)
<1>1. NoApproach \in Approach /\ ~NoApproach.armed
    BY DEF NoApproach, Approach, Place, Count
<1>. QED BY <1>1, MouseDoes DEF Leave

LEMMA PauseDoes ==
    ASSUME IInv, PauseHover
    PROVE  /\ run' \in Run /\ ~run'.on /\ run'.startup = None
           /\ mouse' \in Mouse
           /\ dwell' \in Dwell /\ ~dwell'.on /\ dwell'.attempt = None /\ ~dwell'.armed
           /\ dwell'.made = dwell.made /\ dwell'.point = dwell.point
           /\ dwell'.revision = dwell.revision
<1>1. CASE run.on
    BY <1>1, Known, RunStarts, MouseDoes, PausedDoes DEF PauseHover
<1>2. CASE ~run.on
    <2>1. UNCHANGED <<run, mouse, dwell>> BY <1>2 DEF PauseHover
    <2>. QED BY <1>2, <2>1, Known DEF IInv, Running
<1>. QED BY <1>1, <1>2

LEMMA AcceptDoes ==
    ASSUME IInv, NEW STATE v, v \in BOOLEAN, NEW STATE r, r \in Run, NEW STATE m, m \in Mouse,
           NEW STATE d, d \in Dwell, r.accepting = run.accepting, Accepting(v, r, m, d)
    PROVE  /\ run' \in Run /\ run'.on = r.on /\ run'.startup = r.startup /\ run'.accepting = v
           /\ mouse' \in Mouse /\ (m.on /\ ~mouse'.on => ~v /\ target = None)
           /\ dwell' \in Dwell /\ dwell' \in {d, Forgotten(d)}
           /\ current' \in {current, None} /\ tracked' \in {tracked, None}
           /\ current' # None => tracked' = tracked
           /\ UNCHANGED <<lookups, flying>>
<1>1. /\ run' \in Run /\ run'.on = r.on /\ run'.startup = r.startup /\ run'.accepting = v
    <2>1. run' = [r EXCEPT !.accepting = v] BY DEF Accepting
    <2>. QED BY <2>1 DEF Run
<1>2. mouse' \in Mouse /\ (m.on /\ ~mouse'.on => ~v /\ target = None)
    BY MouseDoes DEF Accepting
<1>3. dwell' \in Dwell /\ dwell' \in {d, Forgotten(d)} BY ForgottenDoes DEF Accepting
<1>4. /\ current' \in {current, None} /\ tracked' \in {tracked, None}
      /\ current' # None => tracked' = tracked
      /\ UNCHANGED <<lookups, flying>>
    BY Invalidated DEF Accepting, lookupVars
<1>. QED BY <1>1, <1>2, <1>3, <1>4

-----------------------------------------------------------------------------
(* A position                                                               *)

LEMMA MouseMovesGood ==
    ASSUME IInv, NEW p \in Points, MouseMoves(p)
    PROVE  Good
<1>1. /\ UNCHANGED <<readVars, dwell, run, ready, session, readFor, lookupVars, targetVars, cardVars>>
      /\ pointer' \in Points
    BY DEF MouseMoves
<1>2. mouse' \in Mouse /\ mouse'.on = mouse.on
    <2>1. p \in Place BY DEF Place
    <2>2. /\ [mouse EXCEPT !.point = p, !.queued = TRUE] \in Mouse
          /\ [mouse EXCEPT !.point = p, !.queued = TRUE].on = mouse.on
        BY <2>1, Known DEF Mouse
    <2>. QED BY <2>2, Known DEF MouseMoves
<1>3. QueueQuiet
    <2>1. \A n \in Nat : [kind |-> "move", about |-> n] \in Callback BY DEF Callback
    <2>2. CASE queue' = queue BY <2>2, QueueSame, Known
    <2>3. CASE queue' = Append(queue, [kind |-> "move", about |-> mouse.stamp])
        <3>1. [kind |-> "move", about |-> mouse.stamp] \in Callback BY <2>1, Known
        <3>2. [kind |-> "move", about |-> mouse.stamp].kind \notin Loud BY DEF Loud
        <3>. QED BY <2>3, <3>1, <3>2, QueueAdded, Known
    <2>. QED BY <2>2, <2>3 DEF MouseMoves
<1>4. Watched BY <1>2 DEF Watched
<1>5. Running' BY <1>1 DEF IInv, Running, lookupVars, targetVars
<1>6. ProtectedIsShown' BY <1>1 DEF IInv, ProtectedIsShown, targetVars, cardVars
<1>7. Same BY <1>1 DEF Same
<1>. QED BY <1>1, <1>2, <1>3, <1>4, <1>5, <1>6, <1>7, Known, QuietGood
         DEF lookupVars, targetVars, cardVars

\* A running hover that does nothing new with the pointer.
LEMMA PositionGood ==
    ASSUME IInv, QueueQuiet, NEW STATE p, p \in Place, NEW STATE m, m \in Mouse,
           m.on = mouse.on, PositionSeen(p, m),
           UNCHANGED <<readVars, readFor, pointer, ready, session>>
    PROVE  Good
<1>1. CASE ~run.on /\ mouse' = m
           /\ UNCHANGED <<run, dwell, lookupVars, targetVars, cardVars, owed>>
    <2>1. Running' BY <1>1 DEF IInv, Running, lookupVars, targetVars
    <2>2. ProtectedIsShown' BY <1>1 DEF IInv, ProtectedIsShown, targetVars, cardVars
    <2>3. Same /\ Watched BY <1>1 DEF Same, Watched
    <2>. QED BY <1>1, <2>1, <2>2, <2>3, Known, QuietGood
        DEF lookupVars, targetVars, cardVars
<1>2. CASE run.on /\ StaysProtected(p, m)
    <2>1. /\ mouse' = m /\ dwell' = Forgotten(dwell)
          /\ UNCHANGED <<run, lookupVars, target, cardVars>>
          /\ target # None /\ crossing' = From(p)
        BY <1>2 DEF StaysProtected, Protects
    <2>2. crossing' \in Approach /\ ~crossing'.armed
        BY <2>1 DEF From, NoApproach, Approach, Place, Count
    <2>3. Dropped /\ dwell' \in Dwell /\ dwell'.revision = dwell.revision /\ dwell'.on = dwell.on
          /\ ~dwell'.armed /\ dwell'.made = dwell.made
        BY <2>1, Known, ForgottenDoes DEF Dropped
    <2>4. Running' BY <2>1, <2>2, <2>3 DEF IInv, Running, lookupVars, Dropped
    <2>5. ProtectedIsShown' BY <2>1 DEF IInv, ProtectedIsShown, cardVars
    <2>6. Watched BY <2>1 DEF Watched
    <2>. QED BY <2>1, <2>2, <2>3, <2>4, <2>5, <2>6, Known, QuietGood
        DEF lookupVars, cardVars
<1>3. CASE run.on /\ Approaches(p, m)
    <2>1. /\ mouse' = m /\ dwell' = Forgotten(dwell)
          /\ UNCHANGED <<run, lookupVars, target, cardVars>>
          /\ target # None /\ p \in Corridor
        BY <1>3 DEF Approaches, Crosses
    <2>2. crossing' \in Approach
        <3>1. Distance[p] \in Nat BY <2>1, HoverAssumption
        <3>2. \A best \in Count :
                  [crossing EXCEPT !.point = p, !.armed = TRUE, !.best = best] \in Approach
            BY Known DEF Approach
        <3>3. crossing.best \in Count BY Known DEF Approach
        <3>. QED BY <1>3, <3>1, <3>2, <3>3 DEF Approaches, Count, Approach
    <2>3. Dropped /\ dwell' \in Dwell /\ dwell'.revision = dwell.revision /\ dwell'.on = dwell.on
          /\ ~dwell'.armed /\ dwell'.made = dwell.made
        BY <2>1, Known, ForgottenDoes DEF Dropped
    <2>4. Running' BY <2>1, <2>2, <2>3 DEF IInv, Running, lookupVars, Dropped
    <2>5. ProtectedIsShown' BY <2>1 DEF IInv, ProtectedIsShown, cardVars
    <2>6. Watched BY <2>1 DEF Watched
    <2>. QED BY <2>1, <2>2, <2>3, <2>4, <2>5, <2>6, Known, QuietGood
        DEF lookupVars, cardVars
<1>4. CASE run.on /\ GoesElsewhere(p, m)
    <2>1. /\ target' = None /\ crossing' \in Approach /\ ~crossing'.armed
          /\ shown' \in {shown, None} /\ frame' = frame
          /\ mouse' \in Mouse /\ mouse' = IF run.accepting THEN m ELSE Stopped(m)
        BY <1>4, LeaveDoes DEF GoesElsewhere
    <2>2. target' \in Target /\ ProtectedIsShown' BY <2>1 DEF Target, ProtectedIsShown
    <2>3. CASE UNCHANGED <<run, dwell, lookupVars>>
        <3>1. Running' BY <2>1, <2>3 DEF IInv, Running, lookupVars
        <3>2. Same /\ Watched BY <2>1, <2>3 DEF Same, Watched
        <3>. QED BY <2>1, <2>2, <2>3, <3>1, <3>2, Known, QuietGood DEF lookupVars
    <2>4. CASE /\ run.accepting /\ ready # "ready"
               /\ run' = [run EXCEPT !.startup = p]
               /\ UNCHANGED <<dwell, lookupVars>>
        <3>1. run' \in Run /\ run'.on = run.on /\ run'.accepting = run.accepting
              /\ run'.startup = p
            BY <2>4, Known DEF Run
        <3>2. Running' BY <1>4, <2>1, <2>4, <3>1 DEF IInv, Running, lookupVars
        <3>3. Same /\ Watched BY <2>1, <2>4 DEF Same, Watched
        <3>. QED BY <2>1, <2>2, <2>4, <3>1, <3>2, <3>3, Known, QuietGood DEF lookupVars
    <2>5. CASE /\ run.accepting /\ ready = "ready" /\ InvalidateActive
               /\ dwell' = Attempted(dwell, p) /\ UNCHANGED run
        <3>1. current' = None /\ tracked' = None /\ UNCHANGED <<lookups, flying>>
            BY <2>5, Invalidated
        <3>2. dwell' \in Dwell /\ dwell'.on = dwell.on /\ dwell'.revision = dwell.revision
            BY <2>5, Known, AttemptedDoes
        <3>3. /\ dwell.on => dwell'.made = dwell.made + 1 /\ dwell'.attempt = dwell.made + 1
              /\ ~dwell.on => dwell' = dwell
            BY <2>5, Known, AttemptedDoes
        <3>4. dwell'.made >= dwell.made /\ (Same \/ Begins)
            BY <2>1, <3>1, <3>3, Known DEF Same, Begins
        <3>5. Running'
            <4>1. dwell'.on => dwell'.attempt # None /\ dwell'.attempt <= dwell'.made
                BY <3>2, <3>3, Known, Nothing
            <4>. QED BY <2>1, <2>5, <3>1, <3>2, <3>3, <4>1 DEF IInv, Running
        <3>6. Watched BY <2>1, <2>5 DEF Watched
        <3>. QED BY <2>1, <2>2, <2>5, <3>1, <3>2, <3>4, <3>5, <3>6, Known, QuietGood
    <2>. QED BY <1>4, <2>3, <2>4, <2>5 DEF GoesElsewhere
<1>. QED BY <1>1, <1>2, <1>3, <1>4 DEF PositionSeen

LEMMA MoveSeenGood ==
    ASSUME IInv, MoveSeen
    PROVE  Good
<1>1. /\ queue # <<>> /\ queue' = Tail(queue)
      /\ UNCHANGED <<readVars, readFor, pointer, ready, session>>
    BY DEF MoveSeen, Taken, boundVars
<1>2. QueueQuiet BY <1>1, Known, QueueTaken
<1>3. CASE PositionSeen(mouse.point, [mouse EXCEPT !.point = None, !.queued = FALSE])
    <2>1. /\ [mouse EXCEPT !.point = None, !.queued = FALSE] \in Mouse
          /\ [mouse EXCEPT !.point = None, !.queued = FALSE].on = mouse.on
        BY Known DEF Mouse, Place
    <2>. QED BY <1>1, <1>2, <1>3, <2>1, Known, PositionGood
<1>4. CASE UNCHANGED <<mouse, run, dwell, lookupVars, targetVars, cardVars, owed>>
    <2>1. Running' BY <1>1, <1>4 DEF IInv, Running, lookupVars, targetVars
    <2>2. ProtectedIsShown' BY <1>1, <1>4 DEF IInv, ProtectedIsShown, targetVars, cardVars
    <2>3. Same /\ Watched BY <1>4 DEF Same, Watched
    <2>. QED BY <1>1, <1>2, <1>4, <2>1, <2>2, <2>3, Known, QuietGood
             DEF lookupVars, targetVars, cardVars
<1>. QED BY <1>3, <1>4 DEF MoveSeen

LEMMA CursorSeenGood ==
    ASSUME IInv, CursorSeen
    PROVE  Good
<1>1. /\ queue # <<>> /\ queue' = Tail(queue) /\ Head(queue).kind = "observe"
      /\ PositionSeen(Head(queue).about, mouse)
      /\ UNCHANGED <<readVars, readFor, pointer, ready, session>>
    BY DEF CursorSeen, Taken, boundVars
<1>2. QueueQuiet BY <1>1, Known, QueueTaken
<1>3. Head(queue) \in Callback BY <1>1, Known, TailDoes
<1>4. Head(queue).about \in Place BY <1>1, <1>3 DEF Callback, Place
<1>. QED BY <1>1, <1>2, <1>4, Known, PositionGood

\* The pause that ends an approach is over: the place it stopped at starts a delay,
\* the card it was for being down.
LEMMA ApproachExpiresGood ==
    ASSUME IInv, ApproachExpires
    PROVE  Good
<1>1. /\ crossing.armed /\ Leave(mouse)
      /\ UNCHANGED <<readVars, queue, pointer, run, ready, session, readFor, lookupVars>>
      /\ dwell' \in {dwell, Attempted(dwell, crossing.point)}
    BY DEF ApproachExpires, boundVars
<1>2. /\ target' = None /\ crossing' \in Approach /\ ~crossing'.armed
      /\ shown' \in {shown, None} /\ frame' = frame
      /\ mouse' \in Mouse /\ mouse' = IF run.accepting THEN mouse ELSE Stopped(mouse)
    BY <1>1, Known, LeaveDoes
<1>3. target' \in Target /\ ProtectedIsShown' BY <1>2 DEF Target, ProtectedIsShown
<1>4. dwell.revision = 0 => ~Outstanding
    BY <1>1 DEF IInv, Running, Ordered, Placed
<1>5. dwell' \in Dwell /\ dwell'.on = dwell.on /\ dwell'.revision = dwell.revision
    BY <1>1, Known, AttemptedDoes
<1>6. \/ dwell' = dwell
      \/ /\ dwell.on /\ dwell'.made = dwell.made + 1 /\ dwell'.attempt = dwell.made + 1
    <2>1. dwell.on => /\ Attempted(dwell, crossing.point).made = dwell.made + 1
                      /\ Attempted(dwell, crossing.point).attempt = dwell.made + 1
        BY Known, AttemptedDoes
    <2>2. ~dwell.on => Attempted(dwell, crossing.point) = dwell BY Known, AttemptedDoes
    <2>. QED BY <1>1, <2>1, <2>2
<1>7. dwell'.made >= dwell.made /\ (Same \/ Begins)
    BY <1>2, <1>4, <1>6, Known DEF Same, Begins
<1>8. Running'
    <2>1. dwell' # dwell => dwell'.attempt # None /\ dwell'.attempt <= dwell'.made
        BY <1>6, Known, Nothing
    <2>. QED BY <1>1, <1>2, <1>5, <1>6, <2>1 DEF IInv, Running, lookupVars
<1>9. Watched BY <1>1, <1>2 DEF Watched
<1>10. QueueQuiet BY <1>1, Known, QueueSame
<1>. QED BY <1>1, <1>2, <1>3, <1>5, <1>7, <1>8, <1>9, <1>10, Known, QuietGood DEF lookupVars

-----------------------------------------------------------------------------
(* The other callbacks and threads that make no lookup                      *)

LEMMA GeometryRetainedGood ==
    ASSUME IInv, GeometryRetained
    PROVE  Good
<1>1. /\ queue # <<>> /\ queue' = Tail(queue)
      /\ UNCHANGED <<readVars, pointer, mouse, dwell, run, ready, session, readFor,
                     lookupVars, cardVars>>
    BY DEF GeometryRetained, Taken, boundVars
<1>2. QueueQuiet BY <1>1, Known, QueueTaken
<1>3. Same /\ Watched BY <1>1 DEF Same, Watched
<1>4. CASE UNCHANGED targetVars
    <2>1. Running' BY <1>1, <1>4 DEF IInv, Running, lookupVars, targetVars
    <2>2. ProtectedIsShown' BY <1>1, <1>4 DEF IInv, ProtectedIsShown, targetVars, cardVars
    <2>. QED BY <1>1, <1>2, <1>3, <1>4, <2>1, <2>2, Known, QuietGood
             DEF lookupVars, targetVars, cardVars
<1>5. CASE current # None /\ CardPlaced
    <2>1. ~session.closed BY <1>5 DEF IInv, Running
    <2>2. /\ target' \in Target /\ (target' # None => target # None /\ target'.of = target.of)
          /\ crossing' \in Approach /\ (crossing'.armed => target' # None)
        BY <1>5, <2>1, PlacedDoes
    <2>3. Running' BY <1>1, <2>2 DEF IInv, Running, lookupVars
    <2>4. ProtectedIsShown' BY <1>1, <2>2 DEF IInv, ProtectedIsShown, cardVars
    <2>. QED BY <1>1, <1>2, <1>3, <2>2, <2>3, <2>4, Known, QuietGood
        DEF lookupVars, cardVars
<1>6. Head(queue).about # None
    <2>1. Head(queue) \in Callback /\ Head(queue).kind = "geometry"
        BY <1>1, Known, TailDoes DEF GeometryRetained, Taken
    <2>2. Head(queue).about \in Nat BY <2>1 DEF Callback
    <2>. QED BY <2>2, Nothing
<1>. QED BY <1>4, <1>5, <1>6 DEF GeometryRetained

LEMMA DismissedGood ==
    ASSUME IInv, Dismissed
    PROVE  Good
<1>1. /\ queue # <<>> /\ queue' = Tail(queue) /\ mouse' = StopIfIdle(mouse)
      /\ UNCHANGED <<readVars, pointer, dwell, run, ready, session, readFor, lookupVars>>
    BY DEF Dismissed, Taken, boundVars
<1>2. QueueQuiet BY <1>1, Known, QueueTaken
<1>3. /\ target' = None /\ crossing' \in Approach /\ ~crossing'.armed
      /\ shown' = None /\ frame' = frame
    BY HideDoes DEF Dismissed
<1>4. mouse' \in Mouse /\ (run.accepting => mouse' = mouse) BY <1>1, Known, MouseDoes
<1>5. Running' BY <1>1, <1>3 DEF IInv, Running, lookupVars
<1>6. target' \in Target /\ ProtectedIsShown' BY <1>3 DEF Target, ProtectedIsShown
<1>7. Same /\ Watched BY <1>1, <1>3, <1>4 DEF Same, Watched
<1>. QED BY <1>1, <1>2, <1>3, <1>4, <1>5, <1>6, <1>7, Known, QuietGood DEF lookupVars

LEMMA ReadySeenGood ==
    ASSUME IInv, ReadySeen
    PROVE  Good
<1>1. /\ queue # <<>> /\ queue' = Tail(queue)
      /\ UNCHANGED <<readVars, pointer, ready, session, readFor, targetVars, cardVars>>
    BY DEF ReadySeen, Taken, boundVars
<1>2. QueueQuiet BY <1>1, Known, QueueTaken
<1>3. ProtectedIsShown' BY <1>1 DEF IInv, ProtectedIsShown, targetVars, cardVars
<1> DEFINE waited == [run EXCEPT !.waiter = "none"]
<1>4. /\ waited \in Run /\ waited.accepting = run.accepting /\ waited.on = run.on
      /\ waited.startup = run.startup
    BY Known DEF Run
<1>5. CASE ~run.on /\ run' = waited /\ UNCHANGED <<dwell, mouse, lookupVars>>
    <2>1. Running' BY <1>1, <1>4, <1>5 DEF IInv, Running, lookupVars, targetVars
    <2>2. Same /\ Watched BY <1>5 DEF Same, Watched
    <2>. QED BY <1>1, <1>2, <1>3, <1>4, <1>5, <2>1, <2>2, Known, QuietGood
             DEF lookupVars, targetVars, cardVars
<1>6. CASE /\ run.on /\ ready = "ready" /\ Watching(waited, dwell)
           /\ UNCHANGED <<mouse, lookupVars>>
    <2> DEFINE begun == [dwell EXCEPT !.on = TRUE]
    <2>1. /\ begun \in Dwell /\ begun.on = TRUE /\ begun.made = dwell.made
          /\ begun.attempt = dwell.attempt /\ begun.point = dwell.point
          /\ begun.revision = dwell.revision /\ begun.armed = dwell.armed
        BY Known DEF Dwell
    <2>2. run' = [waited EXCEPT !.startup = None] BY <1>6 DEF Watching
    <2>3. /\ run' \in Run /\ run'.on = run.on /\ run'.startup = None
          /\ run'.accepting = run.accepting
        BY <1>4, <2>2 DEF Run, Place
    <2>4. CASE run.startup = None
        <3>1. dwell' = begun BY <1>4, <1>6, <2>4 DEF Watching
        <3>2. Same /\ Watched BY <1>6, <2>1, <3>1 DEF Same, Watched
        <3>3. Running'
            BY <1>1, <1>6, <2>1, <2>3, <3>1 DEF IInv, Running, lookupVars, targetVars
        <3>4. dwell' \in Dwell /\ dwell'.made >= dwell.made BY <2>1, <3>1, Known
        <3>. QED BY <1>1, <1>2, <1>3, <1>6, <2>1, <2>3, <3>1, <3>2, <3>3, <3>4, Known,
                    QuietGood
                 DEF lookupVars, targetVars, cardVars
    <2>5. CASE run.startup # None
        <3>1. dwell' = Attempted(begun, run.startup) BY <1>4, <1>6, <2>5 DEF Watching
        <3>2. /\ dwell' \in Dwell /\ dwell'.on = TRUE /\ dwell'.revision = dwell.revision
              /\ dwell'.made = dwell.made + 1 /\ dwell'.attempt = dwell.made + 1
            <4>1. run.startup \in Place /\ begun \in Dwell /\ begun.on BY <2>1, Known
            <4> HIDE DEF begun
            <4>2. /\ Attempted(begun, run.startup) \in Dwell
                  /\ Attempted(begun, run.startup).on = begun.on
                  /\ Attempted(begun, run.startup).revision = begun.revision
                  /\ Attempted(begun, run.startup).made = begun.made + 1
                  /\ Attempted(begun, run.startup).attempt = begun.made + 1
                BY <4>1, AttemptedDoes
            <4>. QED BY <2>1, <3>1, <4>2
        <3>3. ~dwell.on /\ current = None /\ target = None
            BY <1>6, <2>5 DEF IInv, Running
        <3>4. Begins BY <1>1, <1>6, <3>2, <3>3 DEF Begins, lookupVars, targetVars
        <3>5. dwell'.attempt # None /\ dwell'.attempt <= dwell'.made BY <3>2, Known, Nothing
        <3>6. Running' BY <1>1, <1>6, <2>3, <3>2, <3>3, <3>5
                       DEF IInv, Running, lookupVars, targetVars
        <3>7. Watched /\ dwell'.made >= dwell.made BY <1>6, <3>2, Known DEF Watched
        <3>. QED BY <1>1, <1>2, <1>3, <1>6, <2>3, <3>2, <3>4, <3>6, <3>7, Known, QuietGood
                 DEF lookupVars, targetVars, cardVars
    <2>. QED BY <2>4, <2>5
<1>7. CASE /\ run.on /\ ready = "failed"
           /\ run' = [waited EXCEPT !.failed = TRUE, !.on = FALSE, !.startup = None]
           /\ mouse' = Stopped(mouse) /\ dwell' = Paused(dwell) /\ InvalidateActive
    <2>1. run' \in Run /\ ~run'.on /\ run'.startup = None BY <1>4, <1>7 DEF Run, Place
    <2>2. mouse' \in Mouse BY <1>7, Known, MouseDoes
    <2>3. /\ dwell' \in Dwell /\ dwell'.attempt = None /\ ~dwell'.armed /\ ~dwell'.on
          /\ dwell'.made = dwell.made /\ dwell'.point = dwell.point
          /\ dwell'.revision = dwell.revision
        BY <1>7, Known, PausedDoes
    <2>4. current' = None /\ tracked' = None /\ UNCHANGED <<lookups, flying>>
        BY <1>7, Invalidated
    <2>5. target = None BY <1>7 DEF IInv, Running
    <2>6. Running' BY <1>1, <2>1, <2>3, <2>4, <2>5 DEF IInv, Running, targetVars
    <2>7. Dropped /\ Watched /\ dwell'.made >= dwell.made
        BY <2>1, <2>3, Known DEF Dropped, Watched
    <2>. QED BY <1>1, <1>2, <1>3, <2>1, <2>2, <2>3, <2>4, <2>6, <2>7, Known, QuietGood
             DEF targetVars, cardVars
<1>. QED BY <1>5, <1>6, <1>7 DEF ReadySeen

LEMMA WorkerGood ==
    ASSUME IInv, WorkerStarts \/ WaiterWakes
    PROVE  Good
<1>1. UNCHANGED <<readVars, pointer, mouse, dwell, session, readFor, lookupVars, targetVars, cardVars>>
    BY DEF WorkerStarts, WaiterWakes, Others, boundVars, lookupVars
<1>2. /\ ready' \in {"starting", "ready", "failed"} /\ (ready = "ready" => ready' = ready)
      /\ run' \in Run /\ run'.on = run.on /\ run'.startup = run.startup
    <2>1. LET woken == [run EXCEPT !.waiter = "posted"] IN
              woken \in Run /\ woken.on = run.on /\ woken.startup = run.startup
        BY Known DEF Run
    <2>. QED BY <2>1, Known DEF WorkerStarts, WaiterWakes
<1>3. QueueQuiet
    <2>1. [kind |-> "ready", about |-> None] \in Callback BY DEF Callback
    <2>2. [kind |-> "ready", about |-> None].kind \notin Loud BY DEF Loud
    <2>. QED BY <2>1, <2>2, Known, QueueSame, QueueAdded DEF WorkerStarts, WaiterWakes
<1>4. Running' BY <1>1, <1>2 DEF IInv, Running, lookupVars, targetVars
<1>5. ProtectedIsShown' BY <1>1 DEF IInv, ProtectedIsShown, targetVars, cardVars
<1>6. Same /\ Watched BY <1>1 DEF Same, Watched
<1>. QED BY <1>1, <1>2, <1>3, <1>4, <1>5, <1>6, Known, QuietGood
         DEF lookupVars, targetVars, cardVars

-----------------------------------------------------------------------------
(* Requests of the user and of the host                                     *)

\* What none of them touches.
LEMMA Requested ==
    ASSUME IInv, UserActs
    PROVE  /\ ~session.closed /\ pointer' = pointer /\ QueueQuiet
           /\ UNCHANGED <<readVars, ready, readFor>>
<1>1. ~session.closed /\ pointer' = pointer /\ UNCHANGED <<readVars, ready, readFor>>
    BY DEF UserActs, Start, Stop, ToggleHover, Press, Release, ChangeSettings, ChangeMode,
       SelectionBegins, SelectionEnds, HostPlaces, HostCloses, ShutDown, Apart, Undo, Request,
       Free, boundVars
<1>2. \/ queue' = queue
      \/ queue' = <<[kind |-> "dismiss", about |-> None], [kind |-> "observe", about |-> pointer]>>
    BY DEF UserActs, Start, Stop, ToggleHover, Press, Release, ChangeSettings, ChangeMode,
       SelectionBegins, SelectionEnds, HostPlaces, HostCloses, ShutDown
<1>3. CASE queue' = queue BY <1>1, <1>3, Known, QueueSame
<1>4. CASE queue' = <<[kind |-> "dismiss", about |-> None],
                      [kind |-> "observe", about |-> pointer]>>
    <2>1. /\ [kind |-> "dismiss", about |-> None] \in Callback
          /\ [kind |-> "observe", about |-> pointer] \in Callback
        BY Known DEF Callback
    <2>2. queue' \in Seq(Callback) /\ Len(queue') = 2
          /\ queue'[1].kind = "dismiss" /\ queue'[2].kind = "observe"
        BY <1>4, <2>1
    <2>3. Shifted(0) BY <2>2 DEF Shifted, Loud
    <2>. QED BY <1>1, <2>2, <2>3 DEF QueueQuiet
<1>. QED BY <1>2, <1>3, <1>4

\* The session's switches are set; it is closed by ShutDown alone.
LEMMA SessionDoes ==
    ASSUME session \in Session, NEW a \in BOOLEAN, NEW mode \in {"push", "always"}
    PROVE  \A s \in {[session EXCEPT !.started = TRUE, !.muted = FALSE, !.held = FALSE],
                     [session EXCEPT !.started = FALSE, !.muted = FALSE, !.held = FALSE],
                     [session EXCEPT !.toggled = a, !.muted = a],
                     [session EXCEPT !.held = a],
                     [session EXCEPT !.mode = mode, !.held = FALSE],
                     [session EXCEPT !.selecting = TRUE, !.resume = a],
                     [session EXCEPT !.selecting = FALSE, !.resume = FALSE]} :
               s \in Session /\ s.closed = session.closed
BY DEF Session

\* A request that hides the card and lets the dwell and the lookup go.
LEMMA HidingGood ==
    ASSUME IInv, UserActs, PauseHover, HideCard, session' \in Session,
           \/ InvalidateActive \/ DropCurrent
           \/ ~run.on /\ UNCHANGED lookupVars
    PROVE  Good
<1>1. /\ run' \in Run /\ ~run'.on /\ run'.startup = None
      /\ mouse' \in Mouse
      /\ dwell' \in Dwell /\ ~dwell'.on /\ dwell'.attempt = None /\ ~dwell'.armed
      /\ dwell'.made = dwell.made /\ dwell'.point = dwell.point
      /\ dwell'.revision = dwell.revision
    BY PauseDoes
<1>2. current' = None /\ UNCHANGED <<lookups, flying>>
    <2>1. CASE InvalidateActive \/ DropCurrent BY <2>1, Invalidated
    <2>2. CASE ~run.on /\ UNCHANGED lookupVars BY <2>2 DEF IInv, Running, lookupVars
    <2>. QED BY <2>1, <2>2
<1>3. /\ target' = None /\ crossing' \in Approach /\ ~crossing'.armed
      /\ shown' = None /\ frame' = frame
    BY HideDoes
<1>4. Running' BY <1>1, <1>2, <1>3 DEF Running
<1>5. target' \in Target /\ ProtectedIsShown' BY <1>3 DEF Target, ProtectedIsShown
<1>6. Dropped /\ Watched /\ dwell'.made >= dwell.made BY <1>1, Known DEF Dropped, Watched
<1>. QED BY <1>1, <1>2, <1>3, <1>4, <1>5, <1>6, Requested, Known, QuietGood

\* A request that leaves the card and the lookups alone.
LEMMA SteeringGood ==
    ASSUME IInv, UserActs, UNCHANGED <<targetVars, cardVars, lookups, flying>>,
           session' \in Session, session'.closed = session.closed,
           run' \in Run, run'.startup = run.startup, run.on => run'.on,
           mouse' \in Mouse, Watched,
           dwell' \in Dwell, dwell.on => dwell'.on,
           dwell'.on => dwell.on \/ (run'.on /\ ready = "ready" /\ ~run.on),
           dwell'.made = dwell.made, dwell'.point = dwell.point,
           dwell'.attempt \in {dwell.attempt, None},
           dwell'.armed => dwell'.attempt # None,
           \/ dwell'.revision = dwell.revision /\ (dwell'.armed => dwell.armed)
           \/ dwell'.revision = dwell.revision + 1,
           current' \in {current, None}, current' # None => tracked' = tracked
    PROVE  Good
<1>1. Running'
    <2>1. ready' = ready /\ ~session'.closed BY Requested
    <2>. QED BY <2>1 DEF IInv, Running, targetVars
<1>2. ProtectedIsShown' BY DEF IInv, ProtectedIsShown, targetVars, cardVars
<1>3. dwell'.revision = 0 => dwell.revision = 0 /\ (Same \/ Dropped)
    BY Known DEF Same, Dropped
<1>4. dwell'.made >= dwell.made BY Known
<1>. QED BY <1>1, <1>2, <1>3, <1>4, Requested, Known, QuietGood DEF targetVars, cardVars

\* What set_accepting does for such a request.
LEMMA AcceptingGood ==
    ASSUME IInv, UserActs, UNCHANGED <<targetVars, cardVars>>,
           session' \in Session, session'.closed = session.closed,
           NEW STATE v, v \in BOOLEAN, NEW STATE r, r \in Run, NEW STATE m, m \in Mouse,
           NEW STATE d, d \in Dwell, Accepting(v, r, m, d),
           r.accepting = run.accepting, r.startup = run.startup, run.on => r.on,
           mouse.on => m.on,
           dwell.on => d.on, d.on => dwell.on \/ (r.on /\ ready = "ready" /\ ~run.on),
           d.made = dwell.made, d.point = dwell.point, d.attempt = dwell.attempt,
           d.armed => d.attempt # None,
           \/ d.revision = dwell.revision /\ (d.armed => dwell.armed)
           \/ d.revision = dwell.revision + 1
    PROVE  Good
<1>1. /\ run' \in Run /\ run'.on = r.on /\ run'.startup = r.startup /\ run'.accepting = v
      /\ mouse' \in Mouse /\ (m.on /\ ~mouse'.on => ~v /\ target = None)
      /\ dwell' \in Dwell /\ dwell' \in {d, Forgotten(d)}
      /\ current' \in {current, None} /\ (current' # None => tracked' = tracked)
      /\ UNCHANGED <<lookups, flying>>
    BY AcceptDoes
<1>2. /\ Forgotten(d).attempt = None /\ Forgotten(d).armed = FALSE
      /\ Forgotten(d).on = d.on /\ Forgotten(d).made = d.made /\ Forgotten(d).point = d.point
      /\ Forgotten(d).revision = d.revision
    BY ForgottenDoes
<1>3. Watched BY <1>1 DEF Watched, targetVars
<1>4. /\ dwell.on => dwell'.on
      /\ dwell'.on => dwell.on \/ (run'.on /\ ready = "ready" /\ ~run.on)
      /\ dwell'.made = dwell.made /\ dwell'.point = dwell.point
      /\ dwell'.attempt \in {dwell.attempt, None}
      /\ dwell'.armed => dwell'.attempt # None
      /\ \/ dwell'.revision = dwell.revision /\ (dwell'.armed => dwell.armed)
         \/ dwell'.revision = dwell.revision + 1
    <2>1. CASE dwell' = d BY <1>1, <2>1
    <2>2. CASE dwell' = Forgotten(d) BY <1>1, <1>2, <2>2
    <2>. QED BY <1>1, <2>1, <2>2
<1>. QED BY <1>1, <1>3, <1>4, SteeringGood

LEMMA StartGood ==
    ASSUME IInv, Start
    PROVE  Good
<1>1. UserActs BY DEF UserActs
<1>2. session' \in Session /\ session'.closed = session.closed /\ UNCHANGED <<targetVars, cardVars>>
    BY Known, SessionDoes DEF Start
<1>3. (session.mode = "always") \in BOOLEAN OBVIOUS
<1>4. CASE run.on /\ Accepting(session.mode = "always", run, mouse, dwell)
    <2>1. dwell.armed => dwell.attempt # None BY DEF IInv, Running
    <2>. QED BY <1>1, <1>2, <1>3, <1>4, <2>1, Known, AcceptingGood
<1>5. CASE ~run.on /\ Accepting(session.mode = "always", Armed, Started(mouse), Begun(dwell))
    <2>1. dwell.armed => dwell.attempt # None BY DEF IInv, Running
    <2>2. Armed \in Run /\ Armed.on = TRUE /\ Armed.accepting = run.accepting
          /\ Armed.startup = run.startup
        BY Known, RunStarts
    <2>3. Started(mouse) \in Mouse /\ Started(mouse).on = TRUE BY Known, MouseDoes
    <2>4. /\ Begun(dwell) \in Dwell /\ Begun(dwell).made = dwell.made
          /\ Begun(dwell).attempt = dwell.attempt /\ Begun(dwell).point = dwell.point
          /\ Begun(dwell).revision = dwell.revision /\ Begun(dwell).armed = dwell.armed
          /\ (dwell.on => Begun(dwell).on) /\ (Begun(dwell).on => dwell.on \/ ready = "ready")
        BY Known, BegunDoes
    <2>. QED BY <1>1, <1>2, <1>3, <1>5, <2>1, <2>2, <2>3, <2>4, AcceptingGood
<1>. QED BY <1>4, <1>5 DEF Start

LEMMA PressGood ==
    ASSUME IInv, Press \/ Release
    PROVE  Good
<1>1. UserActs BY DEF UserActs
<1>2. session' \in Session /\ session'.closed = session.closed /\ UNCHANGED <<targetVars, cardVars>>
    BY Known, SessionDoes DEF Press, Release
<1>3. dwell.armed => dwell.attempt # None BY DEF IInv, Running
<1>4. PICK v \in BOOLEAN : Accepting(v, run, mouse, dwell) BY DEF Press, Release
<1>. QED BY <1>1, <1>2, <1>3, <1>4, Known, AcceptingGood

LEMMA ChangeSettingsGood ==
    ASSUME IInv, ChangeSettings
    PROVE  Good
<1>1. UserActs BY DEF UserActs
<1>2. /\ UNCHANGED <<session, run, mouse, lookupVars, targetVars, cardVars>>
      /\ dwell' = Rescheduled
    BY DEF ChangeSettings
<1>3. /\ Rescheduled \in Dwell /\ Rescheduled.made = dwell.made
      /\ Rescheduled.attempt = dwell.attempt /\ Rescheduled.point = dwell.point
      /\ Rescheduled.revision = dwell.revision + 1 /\ Rescheduled.on = dwell.on
      /\ Rescheduled.armed => dwell.attempt # None
    BY Known, RescheduledDoes
<1>4. Watched BY <1>2 DEF Watched
<1>. QED BY <1>1, <1>2, <1>3, <1>4, Known, SteeringGood DEF lookupVars

LEMMA ChangeModeGood ==
    ASSUME IInv, ChangeMode
    PROVE  Good
<1>1. UserActs BY DEF UserActs
<1>2. session' \in Session /\ session'.closed = session.closed /\ UNCHANGED <<targetVars, cardVars>>
    <2>1. PICK mode \in {"push", "always"} :
              session' = [session EXCEPT !.mode = mode, !.held = FALSE]
        BY DEF ChangeMode
    <2>. QED BY <2>1, Known DEF ChangeMode, Session
<1>3. /\ Rescheduled \in Dwell /\ Rescheduled.made = dwell.made
      /\ Rescheduled.attempt = dwell.attempt /\ Rescheduled.point = dwell.point
      /\ Rescheduled.revision = dwell.revision + 1 /\ Rescheduled.on = dwell.on
      /\ Rescheduled.armed => dwell.attempt # None
    BY Known, RescheduledDoes
<1>4. CASE ~session.held
           /\ Accepting((session.mode = "push") /\ session.started, run, mouse, Rescheduled)
    <2>1. ((session.mode = "push") /\ session.started) \in BOOLEAN OBVIOUS
    <2>. QED BY <1>1, <1>2, <1>3, <1>4, <2>1, Known, AcceptingGood
<1>5. CASE /\ session.held /\ run' = [run EXCEPT !.accepting = TRUE]
           /\ mouse' \in {mouse, Started(Stopped(mouse)), Stopped(mouse)}
           /\ mouse' = Stopped(mouse) => ~run.on \/ mouse' = mouse
           /\ dwell' = Forgotten(Rescheduled) /\ InvalidateActive
    <2>1. run' \in Run /\ run'.on = run.on /\ run'.startup = run.startup
        BY <1>5, Known, RunDoes
    <2>2. Stopped(mouse) \in Mouse /\ Started(Stopped(mouse)) \in Mouse
          /\ Started(Stopped(mouse)).on = TRUE
        BY Known, MouseDoes
    <2>3. mouse' \in Mouse /\ Watched BY <1>5, <2>1, <2>2, Known DEF Watched
    <2>4. current' = None /\ UNCHANGED <<lookups, flying>> BY <1>5, Invalidated
    <2>5. /\ dwell' \in Dwell /\ dwell'.attempt = None /\ dwell'.armed = FALSE
          /\ dwell'.on = dwell.on /\ dwell'.made = dwell.made /\ dwell'.point = dwell.point
          /\ dwell'.revision = dwell.revision + 1
        BY <1>3, <1>5, ForgottenDoes
    <2>. QED BY <1>1, <1>2, <2>1, <2>3, <2>4, <2>5, SteeringGood
<1>6. session.held =>
          /\ run' = [run EXCEPT !.accepting = TRUE]
          /\ mouse' \in {mouse, Started(Stopped(mouse)), Stopped(mouse)}
          /\ mouse' = Stopped(mouse) => ~run.on \/ mouse' = mouse
          /\ dwell' = Forgotten(Rescheduled) /\ InvalidateActive
    <2>1. Started(Stopped(mouse)).on = TRUE /\ Stopped(mouse).on = FALSE BY Known, MouseDoes
    <2>. QED BY <2>1 DEF ChangeMode
<1>. QED BY <1>4, <1>5, <1>6 DEF ChangeMode

\* start, resume and the end of a selection, of a hover that does not run
Resumed == run' = Armed /\ mouse' = Started(mouse) /\ dwell' = Begun(dwell)

LEMMA ResumedGood ==
    ASSUME IInv, UserActs, UNCHANGED <<targetVars, cardVars, lookups, flying>>,
           session' \in Session, session'.closed = session.closed,
           (~run.on /\ Resumed) \/ UNCHANGED <<run, mouse, dwell>>,
           current' \in {current, None}, current' # None => tracked' = tracked
    PROVE  Good
<1>1. dwell.armed => dwell.attempt # None BY DEF IInv, Running
<1>2. CASE UNCHANGED <<run, mouse, dwell>>
    <2>1. Watched BY <1>2 DEF Watched
    <2>. QED BY <1>1, <1>2, <2>1, Known, SteeringGood
<1>3. CASE ~run.on /\ Resumed
    <2>1. run' \in Run /\ run'.on = TRUE /\ run'.startup = run.startup
        BY <1>3, Known, RunStarts DEF Resumed
    <2>2. mouse' \in Mouse /\ mouse'.on = TRUE BY <1>3, Known, MouseDoes DEF Resumed
    <2>3. /\ dwell' \in Dwell /\ dwell'.made = dwell.made /\ dwell'.attempt = dwell.attempt
          /\ dwell'.point = dwell.point /\ dwell'.revision = dwell.revision
          /\ dwell'.armed = dwell.armed /\ (dwell.on => dwell'.on)
          /\ dwell'.on => dwell.on \/ ready = "ready"
        BY <1>3, Known, BegunDoes DEF Resumed
    <2>4. Watched BY <2>2 DEF Watched
    <2>. QED BY <1>1, <1>3, <2>1, <2>2, <2>3, <2>4, SteeringGood
<1>. QED BY <1>2, <1>3

LEMMA ToggleHoverGood ==
    ASSUME IInv, ToggleHover
    PROVE  Good
<1>1. UserActs BY DEF UserActs
<1>2. session' \in Session /\ session'.closed = session.closed
    BY Known, SessionDoes DEF ToggleHover
<1>3. CASE PauseHover /\ DropCurrent /\ HideCard BY <1>1, <1>2, <1>3, HidingGood
<1>4. CASE /\ (~run.on /\ Resumed) \/ UNCHANGED <<run, mouse, dwell>>
           /\ current' \in {current, None} /\ (current' # None => tracked' = tracked)
           /\ UNCHANGED <<lookups, flying, targetVars, cardVars>>
    BY <1>1, <1>2, <1>4, ResumedGood
<1>. QED BY <1>3, <1>4 DEF ToggleHover, Resumed, lookupVars

LEMMA SelectionGood ==
    ASSUME IInv, SelectionBegins \/ SelectionEnds \/ Stop
    PROVE  Good
<1>1. UserActs BY DEF UserActs
<1>2. session' \in Session /\ (~Stop => session'.closed = session.closed)
    BY Known, SessionDoes DEF SelectionBegins, SelectionEnds, Stop
<1>3. CASE SelectionBegins BY <1>1, <1>2, <1>3, HidingGood DEF SelectionBegins
<1>4. CASE Stop BY <1>1, <1>2, <1>4, HidingGood DEF Stop
<1>5. CASE SelectionEnds
    <2>1. session'.closed = session.closed BY <1>5, Known, SessionDoes DEF SelectionEnds
    <2>. QED BY <1>1, <1>2, <1>5, <2>1, ResumedGood DEF SelectionEnds, Resumed, lookupVars
<1>. QED BY <1>3, <1>4, <1>5

LEMMA HostGood ==
    ASSUME IInv, HostPlaces \/ HostCloses
    PROVE  Good
<1>1. UserActs BY DEF UserActs
<1>2. UNCHANGED <<session, run, mouse, dwell, lookupVars>> BY DEF HostPlaces, HostCloses
<1>3. /\ target' \in Target /\ (target' # None => target # None /\ target'.of = target.of)
      /\ crossing' \in Approach /\ (crossing'.armed => target' # None)
      /\ shown' \in {shown, None} /\ frame' = frame
      /\ target' # None => shown' = shown
    BY <1>1, Requested, PlacedDoes, HideDoes DEF HostPlaces, HostCloses, cardVars, Target
<1>4. ready' = ready BY <1>1, Requested
<1>5. Running' BY <1>2, <1>3, <1>4 DEF IInv, Running, lookupVars
<1>6. ProtectedIsShown' BY <1>2, <1>3 DEF IInv, ProtectedIsShown
<1>7. Same /\ Watched BY <1>2 DEF Same, Watched
<1>. QED BY <1>1, <1>2, <1>3, <1>5, <1>6, <1>7, Requested, Known, QuietGood DEF lookupVars

LEMMA ShutDownGood ==
    ASSUME IInv, ShutDown
    PROVE  Good
<1>1. UserActs BY DEF UserActs
<1>2. session' \in Session /\ session'.closed
    <2>1. session' = [session EXCEPT !.closed = TRUE, !.started = FALSE, !.muted = FALSE,
                                     !.held = FALSE]
        BY DEF ShutDown
    <2>. QED BY <2>1, Known DEF Session
<1>3. run' \in Run /\ ~run'.on /\ run'.startup = None BY Known, RunDoes DEF ShutDown
<1>4. mouse' \in Mouse BY Known, MouseDoes DEF ShutDown
<1>5. /\ dwell' \in Dwell /\ dwell'.attempt = None /\ ~dwell'.armed /\ ~dwell'.on
      /\ dwell'.made = dwell.made /\ dwell'.point = dwell.point
      /\ dwell'.revision = dwell.revision
    BY Known, PausedDoes DEF ShutDown
<1>6. current' = None /\ UNCHANGED <<lookups, flying>> BY Invalidated DEF ShutDown
<1>7. target' = target /\ shown' = None /\ frame' = frame BY DEF ShutDown
<1>8. crossing' \in Approach /\ ~crossing'.armed
    <2>1. crossing' = [NoApproach EXCEPT !.origin = crossing.origin] BY DEF ShutDown
    <2>2. crossing.origin \in Place BY Known DEF Approach
    <2>. QED BY <2>1, <2>2 DEF NoApproach, Approach, Place, Count
<1>9. Running' BY <1>2, <1>3, <1>5, <1>6, <1>8 DEF Running
<1>10. ProtectedIsShown' BY <1>2 DEF ProtectedIsShown
<1>11. Dropped /\ Watched /\ dwell'.made >= dwell.made
    BY <1>3, <1>5, Known DEF Dropped, Watched
<1>. QED BY <1>1, <1>2, <1>3, <1>4, <1>5, <1>6, <1>7, <1>8, <1>9, <1>10, <1>11, Requested,
            Known, QuietGood

-----------------------------------------------------------------------------
(* Delays, readings, lookups and answers                                    *)

\* What such a step leaves of the rest.
LEMMA Kept ==
    ASSUME IInv, UNCHANGED <<pointer, mouse, run, ready, session>>
    PROVE  /\ pointer' \in Points /\ mouse' \in Mouse /\ run' \in Run
           /\ ready' \in {"starting", "ready", "failed"} /\ session' \in Session
           /\ Watched
BY Known DEF Watched

\* The delay of an attempt ends, its callback alone in the queue.
LEMMA DwellEndsGood ==
    ASSUME IInv, DwellEnds
    PROVE  Good
<1>1. /\ queue = <<>> /\ dwell.armed /\ dwell' = [dwell EXCEPT !.armed = FALSE]
      /\ queue' = <<[kind |-> "stable", about |-> dwell.attempt, revision |-> dwell.revision]>>
      /\ UNCHANGED <<readVars, pointer, mouse, run, ready, session, readFor, lookupVars,
                     targetVars, cardVars>>
    BY DEF DwellEnds, LoopIdle, boundVars
<1>2. /\ dwell' \in Dwell /\ dwell'.armed = FALSE /\ dwell'.attempt = dwell.attempt
      /\ dwell'.on = dwell.on /\ dwell'.made = dwell.made /\ dwell'.point = dwell.point
      /\ dwell'.revision = dwell.revision
    BY <1>1, Known DEF Dwell
<1>3. /\ dwell.attempt \in Nat /\ dwell.attempt # None /\ dwell.attempt <= dwell.made
      /\ dwell.on
    BY <1>1, Known DEF IInv, Running, Dwell, Count
<1>4. /\ queue' \in Seq(Callback) /\ Len(queue') = 1 /\ queue'[1].kind = "stable"
      /\ queue'[1].about = dwell.attempt
    <2>1. [kind |-> "stable", about |-> dwell.attempt, revision |-> dwell.revision] \in Callback
        BY <1>3, Known DEF Callback
    <2>. QED BY <1>1, <2>1
<1>5. UNCHANGED <<asked, answer, told, readFor, lookups, current, flying, target, shown, frame>>
    BY <1>1 DEF readVars, lookupVars, targetVars, cardVars
<1>6. Once' BY <1>2, <1>3, <1>4 DEF Once
<1>7. OneReading' BY <1>2, <1>5 DEF IInv, OneReading
<1>8. Running' BY <1>1, <1>2 DEF IInv, Running, lookupVars, targetVars
<1>9. ProtectedIsShown' BY <1>1, <1>5 DEF IInv, ProtectedIsShown
<1>10. Ordered'
    <2>. SUFFICES ASSUME dwell'.revision = 0 PROVE Single' /\ Placed' BY DEF Ordered
    <2>1. Single /\ Placed BY <1>2 DEF IInv, Ordered
    <2>2. Outstanding' => Outstanding BY <1>4, <1>5 DEF Outstanding, Queued, At
    <2>3. \A r \in Requests : Reading(r)' => Reading(r)
        BY <1>2, <1>4, <1>5 DEF Reading, Queued, At
    <2>4. /\ \A r \in Requests : ~Reading(r)
          /\ ~Outstanding /\ target = None
        BY <1>1, <1>3, <2>1 DEF Single, Spent
    <2>. QED BY <1>2, <1>5, <2>2, <2>3, <2>4 DEF Single, Placed
<1>11. Types'
    <2>1. ReadTypes' /\ LookupTypes' /\ CardTypes'
        BY <1>1, <1>5 DEF IInv, Types, ReadTypes, LookupTypes, CardTypes, targetVars
    <2>. QED BY <1>1, <1>2, <1>4, <2>1, Kept DEF Types
<1>12. Raises /\ Watched BY <1>1, <1>5, Kept DEF Raises
<1>. QED BY <1>6, <1>7, <1>8, <1>9, <1>10, <1>11, <1>12 DEF IInv, Good

\* The reader decides: nothing that it has not told yet changes.
LEMMA ReaderDecidesGood ==
    ASSUME IInv, ReaderDecides
    PROVE  Good
<1>1. UNCHANGED <<queue, asked, told, pointer, mouse, dwell, run, ready, session, readFor,
                  lookups, current, tracked, flying, targetVars, cardVars>>
    BY DEF ReaderDecides, Answer, Others, boundVars
<1>2. PICK r \in Requests, o \in {"direct", "not_korean", "superseded"} : Answer(r, o)
    BY DEF ReaderDecides
<1>3. /\ answer' = [answer EXCEPT ![r] = o] /\ r <= asked /\ o \in Outcomes /\ o # None
      /\ answer \in [Requests -> Outcomes \cup {None}]
    BY <1>2, OneAnswerAssumption DEF Answer, Outcomes, IInv, Types, ReadTypes
<1>4. ReadTypes' BY <1>1, <1>3 DEF IInv, Types, ReadTypes
<1>5. OneReading' BY <1>1, <1>3 DEF IInv, OneReading, Types, ReadTypes
<1>6. Types' BY <1>1, <1>4 DEF IInv, Types, LookupTypes, CardTypes, targetVars, cardVars
<1>7. Running' /\ ProtectedIsShown'
    BY <1>1 DEF IInv, Running, ProtectedIsShown, targetVars, cardVars
<1>8. Once' BY <1>1 DEF IInv, Once
<1>9. Ordered'
    BY <1>1
        DEF IInv, Ordered, Single, Placed, Spent, Outstanding, Stable, Reading, Queued, At,
                targetVars
<1>10. Raises /\ Watched BY <1>1, Kept DEF Raises, cardVars
<1>. QED BY <1>5, <1>6, <1>7, <1>8, <1>9, <1>10 DEF IInv, Good

\* It tells: the reading goes on as a callback.
LEMMA ReaderTellsGood ==
    ASSUME IInv, ReaderTells
    PROVE  Good
<1>1. UNCHANGED <<asked, answer, pointer, mouse, dwell, run, ready, session, readFor,
                  lookups, current, tracked, flying, targetVars, cardVars>>
    BY DEF ReaderTells, Tell, Others, boundVars
<1>2. PICK r \in Requests :
          /\ Tell(r)
          /\ queue' = IF session.closed THEN queue
                      ELSE Append(queue, [kind |-> "direct", about |-> r])
    BY DEF ReaderTells
<1>3. /\ told[r] = 0 /\ told' = [told EXCEPT ![r] = 1] /\ answer[r] # None
      /\ told \in [Requests -> {0, 1}] /\ r \in Nat
    BY <1>2 DEF Tell, IInv, Types, ReadTypes, Requests
<1>4. \A s \in Requests : told'[s] = IF s = r THEN 1 ELSE told[s] BY <1>3
<1>5. /\ queue' \in Seq(Callback)
      /\ \A i \in 1..Len(queue') :
            \/ i \in 1..Len(queue) /\ queue'[i] = queue[i]
            \/ i = Len(queue) + 1 /\ queue'[i] = [kind |-> "direct", about |-> r]
    <2>1. [kind |-> "direct", about |-> r] \in Callback BY <1>3 DEF Callback
    <2>2. CASE queue' = queue BY <2>2, Known
    <2>3. CASE queue' = Append(queue, [kind |-> "direct", about |-> r])
        <3>1. /\ queue' \in Seq(Callback) /\ Len(queue') = Len(queue) + 1
              /\ \A i \in 1..Len(queue) : queue'[i] = queue[i]
              /\ queue'[Len(queue) + 1] = [kind |-> "direct", about |-> r]
            BY <2>1, <2>3, Known, AppendDoes
        <3>2. Len(queue) \in Nat BY Known
        <3>. QED BY <3>1, <3>2
    <2>. QED BY <1>2, <2>2, <2>3
<1>6. \A i \in 1..Len(queue) : queue[i].kind = "direct" => queue[i].about # r
    BY <1>3 DEF IInv, Once
<1>7. Once'
    <2>1. \A i \in 1..Len(queue') : queue'[i].kind = "stable" =>
              i = 1 /\ queue'[i].about <= dwell'.made
        BY <1>1, <1>5 DEF IInv, Once
    <2>2. \A i, j \in 1..Len(queue') :
              queue'[i].kind \in {"answer", "direct"} /\ queue'[j].kind = queue'[i].kind
                /\ queue'[j].about = queue'[i].about => i = j
        BY <1>5, <1>6 DEF IInv, Once
    <2>3. \A i \in 1..Len(queue') : queue'[i].kind = "answer" =>
              queue'[i].about \in 1..Len(lookups') /\ queue'[i].about \notin flying'
        BY <1>1, <1>5 DEF IInv, Once
    <2>4. \A i \in 1..Len(queue') : queue'[i].kind = "direct" =>
              queue'[i].about \in Requests /\ told'[queue'[i].about] = 1
        BY <1>4, <1>5 DEF IInv, Once
    <2>. QED BY <2>1, <2>2, <2>3, <2>4 DEF Once
<1>8. OneReading' BY <1>1, <1>3, <1>4 DEF IInv, OneReading
<1>9. ReadTypes' BY <1>1, <1>3 DEF IInv, Types, ReadTypes
<1>10. Types'
    BY <1>1, <1>5, <1>9 DEF IInv, Types, LookupTypes, CardTypes, targetVars, cardVars
<1>11. Running' /\ ProtectedIsShown'
    BY <1>1 DEF IInv, Running, ProtectedIsShown, targetVars, cardVars
<1>12. Ordered'
    <2>. SUFFICES ASSUME dwell.revision = 0 PROVE Single' /\ Placed' BY <1>1 DEF Ordered
    <2>1. Single /\ Placed BY DEF IInv, Ordered
    <2>2. Outstanding' => Outstanding BY <1>1, <1>5 DEF Outstanding, Queued, At
    <2>3. Stable' => Stable BY <1>1, <1>5 DEF Stable, Queued, At
    <2>4. \A s \in Requests : Reading(s)' => Reading(s)
        BY <1>1, <1>3, <1>4, <1>5 DEF Reading, Queued, At
    <2>. QED BY <1>1, <2>1, <2>2, <2>3, <2>4 DEF Single, Placed, Spent, targetVars
<1>13. Raises /\ Watched BY <1>1, Kept DEF Raises, cardVars
<1>. QED BY <1>7, <1>8, <1>10, <1>11, <1>12, <1>13 DEF IInv, Good

\* A lookup comes back.
LEMMA LookupFinishesGood ==
    ASSUME IInv, LookupFinishes
    PROVE  Good
<1>1. UNCHANGED <<readVars, pointer, mouse, dwell, run, ready, session, readFor,
                  lookups, current, tracked, targetVars, cardVars>>
    BY DEF LookupFinishes, Others, boundVars
<1>2. PICK l \in flying : /\ flying' = flying \ {l}
                          /\ queue' = Append(queue, [kind |-> "answer", about |-> l])
    BY DEF LookupFinishes
<1>3. l \in 1..Len(lookups) /\ Len(lookups) \in Nat BY DEF IInv, Types, LookupTypes
<1>4. /\ queue' \in Seq(Callback) /\ Len(queue') = Len(queue) + 1
      /\ \A i \in 1..Len(queue) : queue'[i] = queue[i]
      /\ queue'[Len(queue) + 1] = [kind |-> "answer", about |-> l]
      /\ Len(queue) \in Nat
    <2>1. [kind |-> "answer", about |-> l] \in Callback BY <1>3 DEF Callback
    <2>. QED BY <1>2, <2>1, Known, AppendDoes
<1>5. \A i \in 1..Len(queue') :
          \/ i \in 1..Len(queue) /\ queue'[i] = queue[i]
          \/ i = Len(queue) + 1 /\ queue'[i] = [kind |-> "answer", about |-> l]
    BY <1>4
<1>6. \A i \in 1..Len(queue) : queue[i].kind = "answer" => queue[i].about # l
    BY <1>2 DEF IInv, Once
<1>7. Once'
    <2>1. \A i \in 1..Len(queue') : queue'[i].kind = "stable" =>
              i = 1 /\ queue'[i].about <= dwell'.made
        BY <1>1, <1>5 DEF IInv, Once
    <2>2. \A i, j \in 1..Len(queue') :
              queue'[i].kind \in {"answer", "direct"} /\ queue'[j].kind = queue'[i].kind
                /\ queue'[j].about = queue'[i].about => i = j
        BY <1>5, <1>6 DEF IInv, Once
    <2>3. \A i \in 1..Len(queue') : queue'[i].kind = "answer" =>
              queue'[i].about \in 1..Len(lookups') /\ queue'[i].about \notin flying'
        BY <1>1, <1>2, <1>3, <1>5, <1>6 DEF IInv, Once
    <2>4. \A i \in 1..Len(queue') : queue'[i].kind = "direct" =>
              queue'[i].about \in Requests /\ told'[queue'[i].about] = 1
        BY <1>1, <1>5 DEF IInv, Once, readVars
    <2>. QED BY <2>1, <2>2, <2>3, <2>4 DEF Once
<1>8. OneReading' BY <1>1 DEF IInv, OneReading, readVars
<1>9. ReadTypes' /\ LookupTypes'
    BY <1>1, <1>2 DEF IInv, Types, ReadTypes, LookupTypes, readVars
<1>10. Types' BY <1>1, <1>4, <1>9 DEF IInv, Types, CardTypes, targetVars, cardVars
<1>11. Running' /\ ProtectedIsShown'
    BY <1>1 DEF IInv, Running, ProtectedIsShown, targetVars, cardVars
<1>12. Ordered'
    <2>. SUFFICES ASSUME dwell.revision = 0 PROVE Single' /\ Placed' BY <1>1 DEF Ordered
    <2>1. Single /\ Placed BY DEF IInv, Ordered
    <2>2. Outstanding' => Outstanding
        BY <1>1, <1>2, <1>5 DEF Outstanding, Queued, At
    <2>3. Stable' => Stable BY <1>1, <1>5 DEF Stable, Queued, At
    <2>4. \A s \in Requests : Reading(s)' => Reading(s)
        BY <1>1, <1>5 DEF Reading, Queued, At, readVars
    <2>. QED BY <1>1, <2>1, <2>2, <2>3, <2>4 DEF Single, Placed, Spent, targetVars
<1>13. Raises /\ Watched BY <1>1, Kept DEF Raises, cardVars
<1>. QED BY <1>7, <1>8, <1>10, <1>11, <1>12, <1>13 DEF IInv, Good

\* The head of the queue is taken, and nothing loud takes its place.
LEMMA HeadTaken ==
    ASSUME IInv, queue # <<>>,
           \/ queue' = Tail(queue)
           \/ \E c \in Callback : c.kind \notin Loud /\ queue' = Append(Tail(queue), c)
    PROVE  /\ QueueQuiet
           /\ Head(queue) = queue[1] /\ Head(queue) \in Callback /\ 1 \in 1..Len(queue)
           /\ \A i \in 1..Len(queue') : queue'[i].kind \in {"stable", "answer", "direct"} =>
                 i + 1 \in 2..Len(queue) /\ queue'[i] = queue[i + 1]
<1>1. queue \in Seq(Callback) /\ Len(queue) \in Nat BY Known
<1>2. /\ Head(queue) = queue[1] /\ Head(queue) \in Callback /\ Len(queue) > 0
      /\ Tail(queue) \in Seq(Callback) /\ Len(Tail(queue)) = Len(queue) - 1
      /\ \A i \in 1..Len(queue) - 1 : Tail(queue)[i] = queue[i + 1]
    BY <1>1, TailDoes
<1>3. CASE queue' = Tail(queue)
    <2>1. QueueQuiet BY <1>1, <1>3, QueueTaken
    <2>. QED BY <1>1, <1>2, <1>3, <2>1
<1>4. ASSUME NEW c \in Callback, c.kind \notin Loud, queue' = Append(Tail(queue), c)
      PROVE  /\ QueueQuiet
             /\ \A i \in 1..Len(queue') : queue'[i].kind \in {"stable", "answer", "direct"} =>
                   i + 1 \in 2..Len(queue) /\ queue'[i] = queue[i + 1]
    <2>1. QueueQuiet BY <1>1, <1>4, QueueReplaced
    <2>2. /\ Len(queue') = Len(queue)
          /\ \A i \in 1..Len(queue) - 1 : queue'[i] = queue[i + 1]
          /\ queue'[Len(queue)] = c
        <3>1. /\ Len(queue') = Len(Tail(queue)) + 1
              /\ \A i \in 1..Len(Tail(queue)) : queue'[i] = Tail(queue)[i]
              /\ queue'[Len(Tail(queue)) + 1] = c
            <4> DEFINE q == Tail(queue)
            <4>1. q \in Seq(Callback) /\ queue' = Append(q, c) BY <1>2, <1>4
            <4> HIDE DEF q
            <4>2. /\ Len(queue') = Len(q) + 1
                  /\ \A i \in 1..Len(q) : queue'[i] = q[i]
                  /\ queue'[Len(q) + 1] = c
                BY <4>1, AppendDoes
            <4>. QED BY <4>2 DEF q
        <3>2. Len(Tail(queue)) + 1 = Len(queue) BY <1>1, <1>2
        <3>. QED BY <1>2, <3>1, <3>2
    <2>3. ASSUME NEW i \in 1..Len(queue'), queue'[i].kind \in {"stable", "answer", "direct"}
          PROVE  i + 1 \in 2..Len(queue) /\ queue'[i] = queue[i + 1]
        <3>1. i # Len(queue) BY <1>4, <2>2, <2>3 DEF Loud
        <3>2. i \in 1..Len(queue) BY <2>2
        <3>3. i \in 1..Len(queue) - 1 /\ i + 1 \in 2..Len(queue) BY <1>1, <3>1, <3>2
        <3>. QED BY <2>2, <3>3
    <2>. QED BY <2>1, <2>3
<1>. QED BY <1>1, <1>2, <1>3, <1>4

\* An answer that is not the current lookup's, or worth no card, changes nothing; the
\* current one's raises its card where the dwell is, and it is not outstanding any more.
LEMMA PresentedGood ==
    ASSUME IInv, Presented
    PROVE  Good
<1> DEFINE l == Head(queue).about
<1>1. /\ queue # <<>> /\ Head(queue).kind = "answer"
      /\ UNCHANGED <<readVars, pointer, mouse, dwell, run, ready, session, readFor, lookupVars>>
    BY DEF Presented, Taken, boundVars
<1>2. Same /\ Watched BY <1>1, Kept DEF Same
<1>3. CASE queue' = Tail(queue) /\ UNCHANGED <<targetVars, cardVars>>
    <2>1. QueueQuiet BY <1>1, <1>3, Known, QueueTaken
    <2>2. Running' /\ ProtectedIsShown'
        BY <1>1, <1>3 DEF IInv, Running, ProtectedIsShown, lookupVars, targetVars, cardVars
    <2>. QED BY <1>1, <1>2, <1>3, <2>1, <2>2, Known, QuietGood
             DEF lookupVars, targetVars, cardVars
<1>4. CASE /\ current = l
           /\ Retain([of |-> l, card |-> FALSE]) \/ Retain(None)
           /\ RaiseCard(l)
    <2>1. /\ Head(queue) = queue[1] /\ Head(queue) \in Callback /\ 1 \in 1..Len(queue)
        BY <1>1, Known, TailDoes
    <2>2. l \in 1..Len(lookups) /\ l \notin flying /\ l \in Nat /\ l # None
        BY <1>1, <2>1, Nothing DEF IInv, Once
    <2>3. /\ shown' = l /\ frame' = l
          /\ queue' = Append(Tail(queue), [kind |-> "geometry", about |-> l])
        BY <1>4 DEF RaiseCard
    <2>4. /\ [kind |-> "geometry", about |-> l] \in Callback
          /\ [kind |-> "geometry", about |-> l].kind \notin Loud
        BY <2>2 DEF Callback, Loud
    <2>5. /\ QueueQuiet
          /\ \A i \in 1..Len(queue') : queue'[i].kind \in {"stable", "answer", "direct"} =>
                i + 1 \in 2..Len(queue) /\ queue'[i] = queue[i + 1]
        BY <1>1, <2>3, <2>4, HeadTaken
    <2>6. UNCHANGED <<asked, answer, told, readFor, lookups, current, tracked, flying>>
        BY <1>1 DEF readVars, lookupVars
    <2>7. /\ target' \in Target /\ (target' # None => target'.of = l)
          /\ crossing' \in Approach /\ ~crossing'.armed
        <3>1. [of |-> l, card |-> FALSE] \in Target /\ None \in Target BY <2>2 DEF Target
        <3>2. [of |-> l, card |-> FALSE].of = l OBVIOUS
        <3>3. CASE Retain([of |-> l, card |-> FALSE]) BY <2>2, <3>1, <3>2, <3>3, RetainDoes
        <3>4. CASE Retain(None) BY <3>1, <3>4, RetainDoes
        <3>. QED BY <1>4, <3>3, <3>4
    <2>8. Outstanding BY <1>1, <1>4, <2>1, <2>2 DEF Outstanding, Queued, At
    <2>9. ~Outstanding'
        <3>1. \A i \in 2..Len(queue) : ~(queue[i].kind = "answer" /\ queue[i].about = l)
            BY <1>1, <2>1 DEF IInv, Once
        <3>. QED BY <1>4, <2>2, <2>5, <2>6, <3>1 DEF Outstanding, Queued, At
    <2>10. Once' BY <1>1, <2>5, <2>6, Known, QuietQueue DEF IInv
    <2>11. OneReading' BY <1>1, <2>6 DEF IInv, OneReading
    <2>12. Running'
        <3>1. dwell.on /\ l \in 1..Len(lookups) BY <1>4, <2>2 DEF IInv, Running
        <3>. QED BY <1>1, <2>6, <2>7, <3>1 DEF IInv, Running
    <2>13. ProtectedIsShown' BY <2>3, <2>7 DEF ProtectedIsShown
    <2>14. Ordered'
        <3>. SUFFICES ASSUME dwell.revision = 0 PROVE Single' /\ Placed' BY <1>1 DEF Ordered
        <3>1. dwell.attempt # None => Spent BY <2>8 DEF IInv, Ordered, Single
        <3>2. Stable' => Stable BY <1>1, <2>5 DEF Stable, Queued, At
        <3>3. \A r \in Requests : Reading(r)' => Reading(r)
            BY <1>1, <2>5, <2>6 DEF Reading, Queued, At
        <3>. QED BY <1>1, <2>9, <3>1, <3>2, <3>3 DEF Single, Placed, Spent
    <2>15. Types'
        <3>1. ReadTypes' /\ LookupTypes' /\ CardTypes'
            BY <2>2, <2>3, <2>6, <2>7
               DEF IInv, Types, ReadTypes, LookupTypes, CardTypes, Count
        <3>. QED BY <1>1, <2>5, <3>1, Kept, Known DEF Types, QueueQuiet
    <2>16. Raises
        <3>1. run.on BY <1>4, <2>2 DEF IInv, Running
        <3>2. dwell.revision = 0 => lookups[l] = dwell.point
            BY <1>4, <2>8 DEF IInv, Ordered, Placed
        <3>. QED BY <2>3, <3>1, <3>2, Known DEF Raises
    <2>. QED BY <1>2, <2>10, <2>11, <2>12, <2>13, <2>14, <2>15, <2>16 DEF IInv, Good
<1>. QED BY <1>3, <1>4 DEF Presented

\* The delay or the reading that makes a lookup is the attempt's last.
LEMMA SubmittedGood ==
    ASSUME IInv, queue # <<>>, queue' = Tail(queue), dwell.attempt # None, Submitted(dwell.point),
           UNCHANGED <<readVars, readFor, pointer, mouse, dwell, run, ready, session,
                       targetVars, cardVars>>,
           dwell.revision = 0 => Spent' /\ target = None
    PROVE  Good
<1> DEFINE n == Len(lookups) + 1
<1>1. /\ lookups' = Append(lookups, dwell.point) /\ current' = n /\ tracked' = n
      /\ flying' = flying \cup {n}
    BY DEF Submitted
<1>2. /\ lookups' \in Seq(Place) /\ Len(lookups') = n /\ lookups'[n] = dwell.point
      /\ Len(lookups) \in Nat /\ n \in Nat /\ n # None
    BY <1>1, Known, AppendDoes, Nothing
<1>3. /\ QueueQuiet
      /\ \A i \in 1..Len(queue') : queue'[i].kind \in {"stable", "answer", "direct"} =>
            i + 1 \in 2..Len(queue) /\ queue'[i] = queue[i + 1]
    BY HeadTaken
<1>4. UNCHANGED <<asked, answer, told>> BY DEF readVars
<1>5. flying \subseteq 1..Len(lookups) BY DEF IInv, Types, LookupTypes
<1>6. Once'
    <2>0. Len(queue) \in Nat /\ queue' \in Seq(Callback) BY <1>3, Known DEF QueueQuiet
    <2>1. \A i \in 1..Len(queue') : queue'[i].kind = "stable" =>
              i = 1 /\ queue'[i].about <= dwell'.made
        BY <1>3 DEF IInv, Once
    <2>2. \A i, j \in 1..Len(queue') :
              queue'[i].kind \in {"answer", "direct"} /\ queue'[j].kind = queue'[i].kind
                /\ queue'[j].about = queue'[i].about => i = j
        <3>. SUFFICES ASSUME NEW i \in 1..Len(queue'), NEW j \in 1..Len(queue'),
                             queue'[i].kind \in {"answer", "direct"},
                             queue'[j].kind = queue'[i].kind, queue'[j].about = queue'[i].about
                      PROVE  i = j
            OBVIOUS
        <3>1. /\ i + 1 \in 1..Len(queue) /\ queue'[i] = queue[i + 1]
              /\ j + 1 \in 1..Len(queue) /\ queue'[j] = queue[j + 1]
            BY <1>3, <2>0
        <3>2. i + 1 = j + 1 BY <3>1 DEF IInv, Once
        <3>3. i \in Nat /\ j \in Nat BY <2>0
        <3>. QED BY <3>2, <3>3
    <2>3. \A i \in 1..Len(queue) : queue[i].kind = "answer" =>
              queue[i].about \in 1..Len(lookups) /\ queue[i].about \notin flying
        BY DEF IInv, Once
    <2>4. \A i \in 1..Len(queue') : queue'[i].kind = "answer" =>
              queue'[i].about \in 1..Len(lookups') /\ queue'[i].about \notin flying'
        <3>. SUFFICES ASSUME NEW i \in 1..Len(queue'), queue'[i].kind = "answer"
                      PROVE  queue'[i].about \in 1..n /\ queue'[i].about \notin flying \cup {n}
            BY <1>1, <1>2
        <3>1. queue'[i].about \in 1..Len(lookups) /\ queue'[i].about \notin flying
            BY <1>3, <2>0, <2>3
        <3>. QED BY <1>2, <3>1
    <2>5. \A i \in 1..Len(queue') : queue'[i].kind = "direct" =>
              queue'[i].about \in Requests /\ told'[queue'[i].about] = 1
        BY <1>3, <1>4, <2>0 DEF IInv, Once
    <2>. QED BY <2>1, <2>2, <2>4, <2>5 DEF Once
<1>7. OneReading' BY <1>4 DEF IInv, OneReading
<1>8. Running'
    <2>1. dwell.on BY DEF IInv, Running
    <2>2. n \in 1..n /\ \A x \in 1..Len(lookups) : x \in 1..n BY <1>2
    <2>. QED BY <1>1, <1>2, <2>1, <2>2 DEF IInv, Running, targetVars
<1>9. ProtectedIsShown' BY DEF IInv, ProtectedIsShown, targetVars, cardVars
<1>10. Ordered'
    <2>. SUFFICES ASSUME dwell.revision = 0 PROVE Single' /\ Placed' BY DEF Ordered
    <2>. QED BY <1>1, <1>2 DEF Single, Placed, Spent, targetVars
<1>11. Types'
    <2>1. flying' \subseteq 1..Len(lookups')
        <3>1. n \in 1..n /\ \A x \in 1..Len(lookups) : x \in 1..n BY <1>2
        <3>. QED BY <1>1, <1>2, <1>5, <3>1
    <2>2. LookupTypes' BY <1>1, <1>2, <2>1 DEF LookupTypes, Count
    <2>3. ReadTypes' /\ CardTypes'
        BY <1>4 DEF IInv, Types, ReadTypes, CardTypes, targetVars, cardVars
    <2>. QED BY <1>3, <2>2, <2>3, Kept, Known DEF Types, QueueQuiet
<1>12. Raises /\ Watched BY Kept DEF Raises, cardVars
<1>. QED BY <1>6, <1>7, <1>8, <1>9, <1>10, <1>11, <1>12 DEF IInv, Good

\* Or it makes none.
LEMMA PassedGood ==
    ASSUME IInv, queue # <<>>, queue' = Tail(queue),
           UNCHANGED <<readVars, readFor, pointer, mouse, dwell, run, ready, session,
                       lookupVars, targetVars, cardVars>>
    PROVE  Good
<1>1. QueueQuiet BY Known, QueueTaken
<1>2. Running' /\ ProtectedIsShown'
    BY DEF IInv, Running, ProtectedIsShown, lookupVars, targetVars, cardVars
<1>3. Same BY DEF Same
<1>. QED BY <1>1, <1>2, <1>3, Kept, Known, QuietGood DEF lookupVars, targetVars, cardVars

LEMMA StableReachedGood ==
    ASSUME IInv, StableReached
    PROVE  Good
<1>1. /\ queue # <<>> /\ queue' = Tail(queue) /\ Head(queue).kind = "stable"
      /\ UNCHANGED <<pointer, mouse, dwell, run, ready, session, targetVars, cardVars>>
    BY DEF StableReached, Taken, Aside, boundVars
<1>2. /\ QueueQuiet /\ Head(queue) = queue[1] /\ 1 \in 1..Len(queue)
      /\ \A i \in 1..Len(queue') : queue'[i].kind \in {"stable", "answer", "direct"} =>
            i + 1 \in 2..Len(queue) /\ queue'[i] = queue[i + 1]
    BY <1>1, HeadTaken
<1>3. CASE UNCHANGED <<readVars, readFor, lookupVars>> BY <1>1, <1>3, PassedGood
<1>4. ASSUME IsCurrent(Head(queue).about)
      PROVE  /\ dwell.attempt # None /\ ~Stable'
             /\ dwell.revision = 0 =>
                   ~dwell.armed /\ ~Outstanding /\ target = None /\ \A r \in Requests : ~Reading(r)
    <2>1. dwell.attempt # None /\ Stable
        BY <1>1, <1>2, <1>4 DEF IsCurrent, Stable, Queued, At
    <2>2. \A i \in 2..Len(queue) : queue[i].kind # "stable" BY Known DEF IInv, Once
    <2>3. ~Stable' BY <1>2, <2>2 DEF Stable, Queued, At
    <2>. QED BY <2>1, <2>3 DEF IInv, Ordered, Single, Spent
<1>5. CASE /\ IsCurrent(Head(queue).about) /\ Submitted(dwell.point)
           /\ UNCHANGED <<readVars, readFor>>
    <2>1. \A r \in Requests : Reading(r)' => Reading(r)
        BY <1>1, <1>2, <1>5 DEF Reading, Queued, At, readVars
    <2>2. dwell.revision = 0 => Spent' /\ target = None BY <1>1, <1>4, <1>5, <2>1 DEF Spent
    <2>. QED BY <1>1, <1>4, <1>5, <2>2, SubmittedGood
<1>6. CASE /\ IsCurrent(Head(queue).about) /\ Ask
           /\ readFor' = [readFor EXCEPT ![asked + 1] = dwell.attempt]
           /\ UNCHANGED lookupVars
    <2>1. /\ asked' = asked + 1 /\ UNCHANGED <<answer, told>> /\ asked + 1 \in Requests
          /\ asked \in Nat
        BY <1>6, OneAnswerAssumption DEF Ask, Requests, IInv, Types, ReadTypes
    <2>2. UNCHANGED <<lookups, current, tracked, flying>> BY <1>6 DEF lookupVars
    <2>3. \A r \in Requests : readFor'[r] = IF r = asked + 1 THEN dwell.attempt ELSE readFor[r]
        BY <1>6 DEF IInv, Types, ReadTypes
    <2>4. dwell.attempt \in Count /\ dwell.attempt # None /\ dwell.attempt <= dwell.made
        BY <1>4, <1>6, Known DEF IInv, Running, Dwell
    <2>5. Once' BY <1>1, <1>2, <2>1, <2>2, Known, QuietQueue DEF IInv
    <2>6. OneReading'
        <3>1. \A r \in Requests : r \in Nat BY DEF Requests
        <3>2. \A r \in Requests : r > asked' => r > asked /\ r # asked + 1 BY <2>1, <3>1
        <3>. QED BY <1>1, <2>1, <2>3, <2>4, <3>2 DEF IInv, OneReading
    <2>7. Running' BY <1>1, <2>2 DEF IInv, Running, targetVars
    <2>8. ProtectedIsShown' BY <1>1 DEF IInv, ProtectedIsShown, targetVars, cardVars
    <2>9. Ordered'
        <3>. SUFFICES ASSUME dwell.revision = 0 PROVE Single' /\ Placed' BY <1>1 DEF Ordered
        <3>1. ~dwell.armed /\ ~Outstanding /\ target = None /\ ~Stable'
              /\ \A r \in Requests : ~Reading(r)
            BY <1>4, <1>6
        <3>2. \A r \in Requests : Reading(r)' => r = asked + 1
            BY <1>1, <1>2, <2>1, <2>3, <3>1 DEF Reading, Queued, At
        <3>3. ~Outstanding' BY <1>2, <2>2, <3>1 DEF Outstanding, Queued, At
        <3>. QED BY <1>1, <3>1, <3>2, <3>3 DEF Single, Placed, targetVars
    <2>10. Types'
        <3>1. ReadTypes' BY <1>6, <2>1, <2>4 DEF IInv, Types, ReadTypes
        <3>2. LookupTypes' /\ CardTypes'
            BY <1>1, <2>2 DEF IInv, Types, LookupTypes, CardTypes, targetVars, cardVars
        <3>. QED BY <1>1, <1>2, <3>1, <3>2, Kept, Known DEF Types, QueueQuiet
    <2>11. Raises /\ Watched BY <1>1, Kept DEF Raises, cardVars
    <2>. QED BY <2>5, <2>6, <2>7, <2>8, <2>9, <2>10, <2>11 DEF IInv, Good
<1>. QED BY <1>3, <1>5, <1>6 DEF StableReached, Captured

LEMMA ReadAnsweredGood ==
    ASSUME IInv, ReadAnswered
    PROVE  Good
<1>0. PICK r : r = Head(queue).about OBVIOUS
<1>1. /\ queue # <<>> /\ queue' = Tail(queue) /\ Head(queue).kind = "direct"
      /\ UNCHANGED <<readVars, readFor, pointer, mouse, dwell, run, ready, session,
                     targetVars, cardVars>>
    BY DEF ReadAnswered, Taken, Aside, boundVars
<1>2. /\ QueueQuiet /\ Head(queue) = queue[1] /\ 1 \in 1..Len(queue)
      /\ \A i \in 1..Len(queue') : queue'[i].kind \in {"stable", "answer", "direct"} =>
            i + 1 \in 2..Len(queue) /\ queue'[i] = queue[i + 1]
    BY <1>1, HeadTaken
<1>3. CASE UNCHANGED lookupVars BY <1>1, <1>3, PassedGood
<1>4. CASE IsCurrent(readFor[r]) /\ Submitted(dwell.point)
    <2>1. dwell.attempt # None /\ readFor[r] = dwell.attempt BY <1>4 DEF IsCurrent
    <2>2. r \in Requests /\ told[r] = 1 BY <1>0, <1>1, <1>2 DEF IInv, Once
    <2>3. Reading(r) BY <1>0, <1>1, <1>2, <2>1 DEF Reading, Queued, At
    <2>4. \A i \in 2..Len(queue) : ~(queue[i].kind = "direct" /\ queue[i].about = r)
        BY <1>0, <1>1, <1>2 DEF IInv, Once
    <2>5. ~Reading(r)' BY <1>1, <1>2, <2>2, <2>4 DEF Reading, Queued, At, readVars
    <2>6. \A s \in Requests : Reading(s)' => Reading(s)
        BY <1>1, <1>2 DEF Reading, Queued, At, readVars
    <2>7. Stable' => Stable BY <1>1, <1>2 DEF Stable, Queued, At
    <2>8. dwell.revision = 0 =>
              /\ ~dwell.armed /\ ~Stable /\ target = None
              /\ \A s \in Requests : Reading(s) => s = r
        BY <2>1, <2>2, <2>3 DEF IInv, Ordered, Single, Spent
    <2>9. dwell.revision = 0 => Spent' /\ target = None
        BY <1>1, <2>5, <2>6, <2>7, <2>8 DEF Spent
    <2>. QED BY <1>1, <1>4, <2>1, <2>9, SubmittedGood
<1>. QED BY <1>0, <1>3, <1>4 DEF ReadAnswered, Captured

-----------------------------------------------------------------------------
(* The theorems                                                             *)

LEMMA Initially == HoverInit => IInv
<1>. SUFFICES ASSUME HoverInit PROVE IInv OBVIOUS
<1>1. /\ queue = <<>> /\ lookups = <<>> /\ flying = {} /\ current = None /\ target = None
      /\ shown = None /\ frame = None /\ asked = 0
      /\ answer = [r \in Requests |-> None] /\ told = [r \in Requests |-> 0]
      /\ readFor = [r \in Requests |-> None]
      /\ pointer \in Points /\ ready = "starting"
    BY HoverAssumption DEF HoverInit, ReadInit
<1>2. /\ dwell \in Dwell /\ ~dwell.on /\ dwell.attempt = None /\ ~dwell.armed
    BY DEF HoverInit, Dwell, Count, Place
<1>3. run \in Run /\ ~run.on /\ run.startup = None BY DEF HoverInit, Run, Place
<1>4. mouse \in Mouse BY DEF HoverInit, Mouse, Place
<1>5. session \in Session
    <2>1. PICK mode \in {"push", "always"} :
              session = [started |-> FALSE, muted |-> FALSE, held |-> FALSE, mode |-> mode,
                         sticky |-> mode = "push", selecting |-> FALSE, resume |-> FALSE,
                         toggled |-> FALSE, closed |-> FALSE]
        BY DEF HoverInit
    <2>2. (mode = "push") \in BOOLEAN OBVIOUS
    <2>. QED BY <2>1, <2>2 DEF Session
<1>6. crossing \in Approach /\ ~crossing.armed
    BY DEF HoverInit, NoApproach, Approach, Place, Count
<1>7. ReadTypes BY <1>1 DEF ReadTypes, Count
<1>8. LookupTypes /\ CardTypes BY <1>1, <1>6 DEF LookupTypes, CardTypes, Count, Target
<1>9. Types BY <1>1, <1>2, <1>3, <1>4, <1>5, <1>7, <1>8 DEF Types
<1>10. Running BY <1>1, <1>2, <1>3, <1>6 DEF Running
<1>11. Once /\ OneReading BY <1>1 DEF Once, OneReading
<1>12. ProtectedIsShown BY <1>1 DEF ProtectedIsShown
<1>13. Ordered BY <1>1, <1>2 DEF Ordered, Single, Placed, Outstanding
<1>. QED BY <1>9, <1>10, <1>11, <1>12, <1>13 DEF IInv

LEMMA StepGood == IInv /\ [Next]_hvars => Good \/ UNCHANGED hvars
<1>. SUFFICES ASSUME IInv, Next PROVE Good OBVIOUS
<1>1. CASE Callbacks
    BY <1>1, MoveSeenGood, CursorSeenGood, StableReachedGood, ReadAnsweredGood,
       PresentedGood,
       GeometryRetainedGood, DismissedGood, ReadySeenGood DEF Callbacks
<1>2. CASE UserActs
    BY <1>2, StartGood, PressGood, ChangeSettingsGood, ChangeModeGood, ToggleHoverGood,
       SelectionGood, HostGood, ShutDownGood DEF UserActs
<1>. QED BY <1>1, <1>2, MouseMovesGood, DwellEndsGood, ApproachExpiresGood, WorkerGood,
            LookupFinishesGood, ReaderDecidesGood, ReaderTellsGood DEF Next, Timers

LEMMA StutterKeeps == IInv /\ UNCHANGED hvars => IInv'
BY DEF hvars, readVars, boundVars, lookupVars, targetVars, cardVars, owed, IInv, Types,
        ReadTypes,
   LookupTypes, CardTypes, Running, Once, OneReading, ProtectedIsShown, Ordered, Single, Placed,
   Spent, Outstanding, Stable, Reading, Queued, At

\* The inductive invariant.
THEOREM InvariantHolds == HoverSpec => []IInv
<1>1. IInv /\ [Next]_hvars => IInv' BY StepGood, StutterKeeps DEF Good
<1>. QED BY <1>1, Initially, PTL DEF HoverSpec

\* Whatever the pointer, the worker, the reader and the user do, a place is protected
\* against new lookups for the card that is on screen only: whatever takes the card
\* down or replaces it takes the protection with it.
THEOREM ProtectedIsShownHolds == HoverSpec => []ProtectedIsShown
<1>1. IInv => ProtectedIsShown BY DEF IInv
<1>. QED BY <1>1, InvariantHolds, PTL

\* Nothing but a pause, a failure or the end of the session takes the pointer from a
\* hover that accepts it or has a card to take down.
THEOREM ObservedWhileNeededHolds == HoverSpec => ObservedWhileNeeded
<1>1. IInv /\ [Next]_hvars =>
          [mouse.on /\ ~mouse'.on /\ run'.on => ~run'.accepting /\ target' = None]_hvars
    BY StepGood DEF Good, Watched
<1>. QED BY <1>1, InvariantHolds, PTL DEF HoverSpec, ObservedWhileNeeded

\* An attempt makes at most one lookup while its delay is not applied again, and
\* whatever moves the pointer on makes that lookup stale: the card that comes up is
\* for the place the pointer rested on last.
THEOREM RaisedWhereSeenHolds == HoverSpec => RaisedWhereSeen
<1>1. IInv /\ [Next]_hvars =>
          [Raised => run.on /\ (lookups[shown'] = dwell.point \/ dwell.revision > 0)]_hvars
    BY StepGood DEF Good, Raises, Raised
<1>. QED BY <1>1, InvariantHolds, PTL DEF HoverSpec, RaisedWhereSeen
=============================================================================
