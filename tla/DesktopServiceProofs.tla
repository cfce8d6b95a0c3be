------------------------- MODULE DesktopServiceProofs -------------------------
(***************************************************************************)
(* For any numbers of requests, recognizers, shortcuts and settings        *)
(* transactions: the service's types, what a commit stores, and, as long   *)
(* as the runtime is not retried beside an update, that one runtime is     *)
(* open and one process at a time works on an update.                      *)
(***************************************************************************)
EXTENDS DesktopService, FiniteSetTheorems, TLAPS

Places == {"queued", "done", "asking", "asked", "parting", "parted", "fetching",
           "fetched", "loading", "replacing", "reading", "staging", "handing"}
Results == {"offer", "nothing", "installed", "grown", "staged", "failed"}
Coordinator ==
    [status : Statuses, op : Ops, at : Places, result : Results, plan : BOOLEAN,
     leg : {"before", "after"}, seen : {0} \cup Coordinators, good : BOOLEAN,
     offered : BOOLEAN, waiting : BOOLEAN, prepared : BOOLEAN, cancellable : BOOLEAN,
     ours : BOOLEAN, handedOff : BOOLEAN, shut : BOOLEAN, held : BOOLEAN]
OwnKinds == {"loaded", "failed", "retired", "stuck"}
CallKinds == {"ask", "part", "replace"}
Item == [kind : OwnKinds \cup CallKinds, n : Nat]
Starter == [does : {"nothing", "prepare", "retire", "posted"}, gen : Nat,
            waits : {0} \cup Coordinators]
States == {"none", "open", "closing", "closed"}
Prepared == [changes : Changes, candidate : Configs]
Number == {0} \cup Coordinators

UpdateTypes ==
    /\ coord \in [Coordinators -> Coordinator]
    /\ lockFile \in {NoOne, Other} \cup Coordinators /\ other \in BOOLEAN
OwnTypes ==
    /\ loop \in {"running", "closed"} /\ queue \in Seq(Item)
    /\ hello \in BOOLEAN /\ context \in BOOLEAN /\ starter \in Starter
    /\ gen \in Nat /\ pending \in 0..gen
RuntimeTypes ==
    /\ runtime \in BOOLEAN
    /\ manual \in Number /\ updates \in Number /\ page \in Number
    /\ phase \in {"idle", "preparing", "ready", "failed"}
    /\ sessions \in [Coordinators -> States]
SettingsTypes ==
    config \in Configs /\ transaction \in [Tokens -> {NoChanges} \cup Prepared]
Types == UpdateTypes /\ OwnTypes /\ RuntimeTypes /\ SettingsTypes /\ asked \in 0..MaxRequests

\* A coordinator that is referred to, or at work, belongs to a runtime.
Named ==
    /\ \A u \in Coordinators : sessions[u] = "none" => coord[u] = Fresh
    /\ page # 0 => sessions[page] # "none"
    /\ updates # 0 => sessions[updates] # "none"

\* A callback of the startup thread is its last act; one of a coordinator's
\* worker has the worker waiting for it.
Answers(it) ==
    /\ it.kind \in OwnKinds => it.n <= gen /\ (it.n = gen => starter.does = "posted")
    /\ it.kind \in CallKinds => it.n \in Coordinators
    /\ it.kind = "ask" => Works(it.n, "resource", "asking")
    /\ it.kind = "part" => Works(it.n, "resource", "parting")
    /\ it.kind = "replace" => Works(it.n, "resource", "replacing")
Alike(x, y) ==
    /\ x.n = y.n
    /\ \/ x.kind \in OwnKinds /\ y.kind \in OwnKinds /\ x.n = gen
       \/ x.kind \in CallKinds /\ y.kind \in CallKinds
Queued ==
    /\ loop = "closed" => queue = <<>>
    /\ loop = "running" /\ starter.does # "nothing" => starter.gen = gen
    /\ \A i \in 1..Len(queue) : Answers(queue[i])
    /\ \A i, j \in 1..Len(queue) : i # j => ~Alike(queue[i], queue[j])

\* Whatever can still compose a runtime has a request that pays for it: a
\* start, a resource installation, a settings transaction, the hello to come.
Preparing == starter.does # "nothing" \/ (pending # 0 /\ pending = gen)
Busy(c) == c.op = "resource" /\ c.at # "done"
Installing == {u \in Coordinators : Busy(coord[u])}
Kept == {t \in Tokens : transaction[t] # NoChanges}
Due(p) == IF p THEN 1 ELSE 0
Cost == Cardinality(Installing) + Cardinality(Kept) + Due(Preparing) + Due(~hello)
Numbered(k) == \A m \in Coordinators : sessions[m] # "none" <=> m <= k
Counted ==
    /\ IsFiniteSet(Kept)
    /\ \E k \in 0..(MaxRequests + 1) : Numbered(k) /\ k + Cost <= asked + 1

SInv == Types /\ Named /\ Queued /\ Counted

\* The coordinator in use is the one the Control Center asks, or it takes no
\* work; nothing is installed while a runtime is prepared, and no session open.
Linked ==
    /\ updates \in {0, page}
    /\ updates = 0 => page = 0 \/ coord[page].shut
    /\ ~hello =>
          /\ page = 0 /\ manual = 0 /\ ~Preparing
          /\ \A u \in Coordinators : sessions[u] = "none"
    /\ Preparing =>
          /\ page = 0 \/ coord[page].shut
          /\ \A u \in Coordinators : coord[u].op \notin {"resource", "application"}
          /\ \A m \in Coordinators : sessions[m] # "open"
    /\ \A u \in Coordinators : coord[u].op = "application" \/ Busy(coord[u]) => u = page

\* What the worker of a resource installation saw is still so.
Carries(c) ==
    c.op = "resource" =>
    /\ c.at \in {"fetched", "loading", "replacing"} => c.leg = "after"
    /\ c.at = "queued" => c.leg = "before"
    /\ c.at \in {"asked", "parting"} /\ c.leg = "after" => c.seen = manual
    /\ c.at \in {"parted", "loading", "replacing"} /\ c.leg = "after"
          => \A m \in Coordinators : sessions[m] # "open"
Handover == \A u \in Coordinators : Carries(coord[u])

\* What an operation says of the lock.
Sane(c) ==
    /\ c.op \in {"check", "resource"} => ~c.ours
    /\ c.op \in {"check", "resource"} /\ c.at = "done"
          => c.result \in {"offer", "nothing", "installed", "failed"}
    /\ c.op = "application" => c.ours /\ ~c.waiting /\ ~c.prepared
    /\ c.op = "application" /\ c.at = "queued" /\ c.plan => c.held
    /\ c.op = "application" /\ c.at \in {"reading", "staging", "handing"} => c.held
    /\ c.op = "application" /\ c.at = "done" /\ c.result \in {"grown", "staged"} => c.held
    /\ c.prepared => c.held
    /\ c.handedOff => c.op = "none" /\ ~c.waiting

\* A claim that may still be given back is this coordinator's own.
Claims(u) == coord[u].held /\ (coord[u].op = "application" \/ (u = page /\ ~coord[u].shut))
Locks ==
    /\ other <=> lockFile = Other
    /\ \A u \in Coordinators :
          /\ Sane(coord[u])
          /\ loop = "running" /\ coord[u].shut
                => ~coord[u].waiting /\ coord[u].op # "application"
          /\ Claims(u) => lockFile = u

\* A transaction is prepared by a host that has said hello.
Greeted == ~hello => \A t \in Tokens : transaction[t] = NoChanges

IInv == SInv /\ Greeted /\ Linked /\ Handover /\ OneRuntime /\ Locks

-----------------------------------------------------------------------------
(* Records *)

LEMMA Numbers ==
    /\ Coordinators \subseteq Nat \ {0} /\ 0 \notin Coordinators
    /\ NoOne \notin Coordinators /\ Other \notin Coordinators
    /\ MaxRequests \in Nat /\ Coordinators = 1..(MaxRequests + 1)
BY CoordinatorAssumption, ServiceAssumption

LEMMA FreshDoes ==
    /\ Fresh \in Coordinator /\ Fresh.op = "none" /\ Fresh.shut = FALSE
    /\ Fresh.held = FALSE /\ Fresh.handedOff = FALSE /\ Fresh.waiting = FALSE
    /\ Fresh.prepared = FALSE
BY DEF Fresh, Coordinator, Statuses, Ops, Places, Results

\* What the operations of the owner leave alone, or set.
Same(c, d) ==
    /\ d.shut = c.shut /\ d.held = c.held /\ d.handedOff = c.handedOff
    /\ d.seen = c.seen /\ d.good = c.good
Starts(c, d, op) ==
    /\ Same(c, d)
    /\ ~c.handedOff /\ c.op = "none"
    /\ c.shut => d.op = "none" /\ d.at = c.at
    /\ ~c.shut => d.op = op /\ d.at = "queued"

LEMMA CheckedDoes ==
    ASSUME NEW c \in Coordinator, NEW d, d = Checked(c)
    PROVE  /\ d \in Coordinator
           /\ Active(c) => d = c
           /\ ~Active(c) => Starts(c, d, "check") /\ d.waiting = FALSE /\ d.ours = FALSE
                            /\ d.prepared = c.prepared /\ d.leg = c.leg
<1>1. CASE Active(c) BY <1>1 DEF Checked
<1>2. CASE ~Active(c)
    <2>1. c.op = "none" /\ ~c.handedOff BY <1>2 DEF Active, Coordinator
    <2>2. CASE c.shut
        BY <1>2, <2>1, <2>2 DEF Checked, Submitted, Starts, Same, Coordinator, Statuses
    <2>3. CASE ~c.shut
        BY <1>2, <2>1, <2>3
        DEF Checked, Submitted, Starts, Same, Coordinator, Statuses, Ops, Places
    <2>. QED BY <2>2, <2>3
<1>. QED BY <1>1, <1>2

LEMMA ResourceAskedDoes ==
    ASSUME NEW c \in Coordinator, NEW d, d = ResourceAsked(c)
    PROVE  /\ d \in Coordinator
           /\ Active(c) => d = c
           /\ ~Active(c) => Starts(c, d, "resource") /\ d.waiting = c.waiting
                            /\ d.ours = FALSE /\ d.prepared = c.prepared /\ d.leg = "before"
<1>1. CASE Active(c) BY <1>1 DEF ResourceAsked
<1>2. CASE ~Active(c)
    <2>1. c.op = "none" /\ ~c.handedOff BY <1>2 DEF Active, Coordinator
    <2>2. CASE c.shut
        BY <1>2, <2>1, <2>2
            DEF ResourceAsked, Submitted, Starts, Same, Coordinator, Statuses
    <2>3. CASE ~c.shut
        BY <1>2, <2>1, <2>3
        DEF ResourceAsked, Submitted, Starts, Same, Coordinator, Statuses, Ops, Places
    <2>. QED BY <2>2, <2>3
<1>. QED BY <1>1, <1>2

StartsApplication(c, d) ==
    /\ Starts(c, d, "application") /\ d.waiting = FALSE
    /\ d.ours = TRUE /\ d.prepared = FALSE /\ d.leg = c.leg
    /\ d.plan => c.prepared

LEMMA ApplicationAskedDoes ==
    ASSUME NEW c \in Coordinator, NEW confirm \in BOOLEAN, NEW d,
           d = ApplicationAsked(c, confirm)
    PROVE  /\ d \in Coordinator
           /\ Active(c) \/ ~c.offered => d = c
           /\ ~Active(c) /\ c.offered => StartsApplication(c, d)
<1>1. CASE Active(c) \/ ~c.offered BY <1>1 DEF ApplicationAsked
<1>2. CASE ~Active(c) /\ c.offered
    <2>1. c.op = "none" /\ ~c.handedOff BY <1>2 DEF Active, Coordinator
    <2> DEFINE b == confirm /\ c.prepared
               e == [c EXCEPT !.status = "preparing", !.ours = TRUE, !.waiting = FALSE,
                              !.cancellable = TRUE, !.prepared = FALSE, !.plan = b]
    <2>2. b \in BOOLEAN /\ (b => c.prepared) BY DEF Coordinator
    <2>3. ApplicationAsked(c, confirm) = Submitted(e, "application")
        BY <1>2 DEF ApplicationAsked
    <2>4. PICK x \in BOOLEAN : x = b BY <2>2
    <2>5. /\ e \in Coordinator /\ Same(c, e) /\ e.waiting = FALSE /\ e.ours = TRUE
          /\ e.prepared = FALSE /\ e.leg = c.leg /\ e.plan = b /\ e.op = c.op /\ e.at = c.at
        BY <2>4 DEF Same, Coordinator, Statuses
    <2> HIDE DEF b, e
    <2>6. CASE c.shut
        <3>1. d = e BY <2>3, <2>5, <2>6 DEF Submitted, Same
        <3>. QED BY <1>2, <2>1, <2>2, <2>5, <2>6, <3>1 DEF StartsApplication, Starts, Same
    <2>7. CASE ~c.shut
        <3>1. d = [e EXCEPT !.op = "application", !.at = "queued"]
            BY <2>3, <2>5, <2>7 DEF Submitted, Same
        <3>2. /\ d \in Coordinator /\ Same(e, d) /\ d.op = "application" /\ d.at = "queued"
              /\ d.waiting = e.waiting /\ d.ours = e.ours /\ d.prepared = e.prepared
              /\ d.leg = e.leg /\ d.plan = e.plan
            BY <2>5, <3>1 DEF Same, Coordinator, Ops, Places
        <3>. QED BY <1>2, <2>1, <2>2, <2>5, <2>7, <3>2
            DEF StartsApplication, Starts, Same
    <2>. QED BY <1>2, <2>6, <2>7
<1>. QED BY <1>1, <1>2 DEF StartsApplication

LEMMA DeclinedDoes ==
    ASSUME NEW c \in Coordinator, NEW d, d = Declined(c)
    PROVE  /\ d \in Coordinator /\ d.op = c.op /\ d.at = c.at /\ d.result = c.result
           /\ d.plan = c.plan /\ d.leg = c.leg /\ d.seen = c.seen /\ d.good = c.good
           /\ d.ours = c.ours /\ d.handedOff = c.handedOff /\ d.shut = c.shut
           /\ d.waiting = FALSE /\ d.prepared = FALSE /\ d.held = FALSE
           /\ d.cancellable = c.cancellable
BY DEF Declined, Released, Coordinator, Statuses

\* A plan that waits is given up with its coordinator.
GivesUp(c, d) ==
    IF c.waiting /\ ~c.handedOff
      THEN d.waiting = FALSE /\ d.prepared = FALSE /\ d.held = FALSE
      ELSE d.waiting = c.waiting /\ d.held = c.held /\ d.prepared = c.prepared

\* Work that has not begun is cancelled.
Halts(c, d) ==
    IF c.op # "none" /\ c.at = "queued"
      THEN d.at = "done" /\ d.result = "failed"
      ELSE d.at = c.at /\ d.result = c.result

LEMMA DismissedDoes ==
    ASSUME NEW c \in Coordinator, NEW d, d = Dismissed(c)
    PROVE  /\ d \in Coordinator /\ d.op = c.op
           /\ d.plan = c.plan /\ d.leg = c.leg /\ d.seen = c.seen /\ d.good = c.good
           /\ d.ours = c.ours /\ d.handedOff = c.handedOff /\ d.shut = TRUE
           /\ Halts(c, d)
           /\ GivesUp(c, d)
<1>0. PICK s : s = IF c.waiting /\ ~c.handedOff THEN Declined(c) ELSE c OBVIOUS
<1>1. /\ s \in Coordinator /\ s.op = c.op /\ s.at = c.at /\ s.result = c.result
      /\ s.plan = c.plan /\ s.leg = c.leg /\ s.seen = c.seen /\ s.good = c.good
      /\ s.ours = c.ours /\ s.handedOff = c.handedOff /\ s.shut = c.shut
      /\ s.cancellable = c.cancellable
    <2>1. CASE c.waiting /\ ~c.handedOff
        <3>1. s = Declined(c) BY <1>0, <2>1
        <3>. QED BY <3>1, DeclinedDoes
    <2>2. CASE ~(c.waiting /\ ~c.handedOff)
        <3>1. s = c BY <1>0, <2>2
        <3>. QED BY <3>1
    <2>. QED BY <2>1, <2>2
<1>2. GivesUp(c, s)
    <2>1. CASE c.waiting /\ ~c.handedOff
        <3>1. s = Declined(c) BY <1>0, <2>1
        <3>. QED BY <2>1, <3>1, DeclinedDoes DEF GivesUp
    <2>2. CASE ~(c.waiting /\ ~c.handedOff)
        <3>1. s = c BY <1>0, <2>2
        <3>. QED BY <2>2, <3>1 DEF GivesUp
    <2>. QED BY <2>1, <2>2
<1>3. PICK b \in BOOLEAN : b = (s.cancellable /\ ~c.waiting) BY DEF Coordinator
<1>4. PICK p \in Places : p = IF c.op # "none" /\ s.at = "queued" THEN "done" ELSE s.at
    BY <1>1 DEF Coordinator, Places
<1>5. PICK r \in Results : r = IF c.op # "none" /\ c.at = "queued" THEN "failed" ELSE s.result
    BY <1>1 DEF Coordinator, Results
<1>6. d = [s EXCEPT !.shut = TRUE, !.cancellable = b, !.at = p, !.result = r]
    BY <1>0, <1>1, <1>3, <1>4, <1>5 DEF Dismissed, Coordinator
<1>7. /\ d \in Coordinator /\ d.op = s.op /\ d.plan = s.plan /\ d.leg = s.leg
      /\ d.seen = s.seen /\ d.good = s.good /\ d.ours = s.ours /\ d.handedOff = s.handedOff
      /\ d.shut = TRUE /\ d.at = p /\ d.result = r
      /\ d.waiting = s.waiting /\ d.held = s.held /\ d.prepared = s.prepared
    BY <1>1, <1>6 DEF Coordinator
<1>8. GivesUp(c, d) BY <1>2, <1>7 DEF GivesUp
<1>9. Halts(c, d) BY <1>1, <1>4, <1>5, <1>7 DEF Halts
<1>. QED BY <1>1, <1>7, <1>8, <1>9

-----------------------------------------------------------------------------
(* The worker of a coordinator *)

\* A step of the worker, or of the delivery of its result, on one record.
Turns(c, d) ==
    /\ d \in Coordinator /\ c.op # "none" /\ d.op \in {c.op, "none"} /\ d.shut = c.shut
    /\ c.op = "resource" =>
          \/ d.op = "none" /\ c.at = "done"
          \/ d.op = c.op /\ d.at = c.at /\ d.leg = c.leg /\ d.seen = c.seen

\* The lock is left alone, given back by whom it belongs to, or taken.
Holds(u, d) ==
    LET c == coord[u] IN
    \/ lockFile' = lockFile /\ (d.held => c.held)
    \/ c.op = "application" /\ c.held /\ ~d.held /\ lockFile' = NoOne
    \/ c.op = "application" /\ lockFile # Other /\ lockFile' = u /\ d.held

Turn(u, d) ==
    /\ coord' = [coord EXCEPT ![u] = d]
    /\ lockFile' \in {lockFile, NoOne, u}
    /\ Turns(coord[u], d)
    /\ Sane(coord[u]) =>
          /\ Sane(d) /\ Holds(u, d)
          /\ d.waiting => coord[u].waiting \/ coord[u].op = "application"

LEMMA CheckTurns ==
    ASSUME UpdateTypes, NEW u \in Coordinators, CheckAnswers(u)
    PROVE  \E d : Turn(u, d)
<1> DEFINE c == coord[u]
<1>1. c \in Coordinator BY DEF UpdateTypes
<1>2. PICK r \in {"offer", "nothing"} : coord' = [coord EXCEPT ![u].at = "done", ![u].result = r]
    BY DEF CheckAnswers
<1> DEFINE d == [c EXCEPT !.at = "done", !.result = r]
<1>3. coord' = [coord EXCEPT ![u] = d] BY <1>1, <1>2 DEF UpdateTypes
<1>4. c.op = "check" /\ lockFile' = lockFile BY DEF CheckAnswers, Works
<1>5. Turns(c, d) BY <1>1, <1>4 DEF Turns, Coordinator, Places, Results
<1>6. Sane(c) => Sane(d) /\ d.held = c.held /\ d.waiting = c.waiting
    BY <1>1, <1>4 DEF Sane, Coordinator
<1>. QED BY <1>3, <1>4, <1>5, <1>6 DEF Turn, Holds

LEMMA ReportTurns ==
    ASSUME UpdateTypes, NEW u \in Coordinators, Reports(u)
    PROVE  \E d : Turn(u, d)
<1> DEFINE c == coord[u]
           d == [c EXCEPT !.status = "downloading"]
<1>1. c \in Coordinator BY DEF UpdateTypes
<1>2. coord' = [coord EXCEPT ![u] = d] BY <1>1 DEF Reports, UpdateTypes
<1>3. c.op \in {"resource", "application"} /\ lockFile' = lockFile BY DEF Reports
<1>4. Turns(c, d) BY <1>1, <1>3 DEF Turns, Coordinator, Statuses
<1>5. Sane(c) => Sane(d) /\ d.held = c.held /\ d.waiting = c.waiting
    BY <1>1, <1>3 DEF Sane, Coordinator
<1>. QED BY <1>2, <1>3, <1>4, <1>5 DEF Turn, Holds

\* An application that goes on to a place, or ends.
LEMMA ApplicationGoes ==
    ASSUME UpdateTypes, NEW u \in Coordinators, coord[u].op = "application",
           coord[u].at # "done",
           NEW p \in {"reading", "staging", "handing", "done"}, NEW r \in Results,
           NEW h \in BOOLEAN, NEW d, d = [coord[u] EXCEPT !.at = p, !.result = r, !.held = h],
           coord' = [coord EXCEPT ![u] = d],
           lockFile' \in {lockFile, NoOne, u},
           Sane(coord[u]) =>
               /\ p # "done" \/ r \in {"grown", "staged"} => h
               /\ \/ lockFile' = lockFile /\ h = coord[u].held
                  \/ ~h /\ lockFile' = LockAfter(coord[u])
                  \/ h /\ lockFile # Other /\ lockFile' = u
    PROVE  Turn(u, d)
<1> DEFINE c == coord[u]
<1>1. c \in Coordinator BY DEF UpdateTypes
<1>2. Turns(c, d) BY <1>1 DEF Turns, Coordinator, Places
<1>3. /\ d.op = c.op /\ d.at = p /\ d.result = r /\ d.held = h /\ d.waiting = c.waiting
      /\ d.ours = c.ours /\ d.prepared = c.prepared /\ d.handedOff = c.handedOff
      /\ d.plan = c.plan
    BY <1>1 DEF Coordinator
<1>4. c.held \in BOOLEAN BY <1>1 DEF Coordinator
<1>5. ASSUME Sane(c) PROVE Sane(d) /\ Holds(u, d)
    <2>1. Sane(d) BY <1>3, <1>5 DEF Sane
    <2>2. Holds(u, d) BY <1>3, <1>4, <1>5 DEF Holds, LockAfter
    <2>. QED BY <2>1, <2>2
<1>. QED BY <1>2, <1>3, <1>5 DEF Turn

LEMMA ApplicationTurns ==
    ASSUME UpdateTypes, NEW u \in Coordinators,
           ApplicationBegins(u) \/ ApplicationDecides(u) \/ ApplicationStages(u)
               \/ HelperAnswers(u)
    PROVE  \E d : Turn(u, d)
<1> DEFINE c == coord[u]
           To(p, r, h) == [c EXCEPT !.at = p, !.result = r, !.held = h]
<1>1. c \in Coordinator BY DEF UpdateTypes
<1>2. c.op = "application" /\ c.at \in {"queued", "reading", "staging", "handing"}
    BY DEF ApplicationBegins, ApplicationDecides, ApplicationStages, HelperAnswers, Works
<1>3. c.result \in Results /\ c.held \in BOOLEAN BY <1>1 DEF Coordinator
<1>4. \A p \in {"staging", "handing"} :
         [coord EXCEPT ![u].at = p] = [coord EXCEPT ![u] = To(p, c.result, c.held)]
    BY <1>1 DEF UpdateTypes, Coordinator
<1>5. \A r \in Results :
         Ends(u, c, r) => coord' = [coord EXCEPT ![u] = To("done", r, c.held)]
    BY <1>1 DEF Ends, Coordinator
<1>6. \A r \in Results :
         Ends(u, Released(c), r) => coord' = [coord EXCEPT ![u] = To("done", r, FALSE)]
    BY <1>1 DEF Ends, Released, Coordinator
<1>7. LockAfter(c) \in {lockFile, NoOne} BY DEF LockAfter
<1>8. {"failed", "grown", "staged"} \subseteq Results BY DEF Results
<1>9. CASE ApplicationBegins(u)
    <2>1. c.at = "queued" BY <1>9 DEF ApplicationBegins, Works
    <2>2. CASE c.plan /\ coord' = [coord EXCEPT ![u].at = "staging"] /\ UNCHANGED lockFile
        <3>1. Sane(c) => c.held BY <1>2, <2>1, <2>2 DEF Sane
        <3>2. coord' = [coord EXCEPT ![u] = To("staging", c.result, c.held)] BY <1>4, <2>2
        <3>. QED BY <1>2, <1>3, <2>2, <3>1, <3>2, ApplicationGoes
    <2>3. CASE Ends(u, c, "failed") /\ UNCHANGED lockFile
        <3>1. coord' = [coord EXCEPT ![u] = To("done", "failed", c.held)]
            BY <1>5, <1>8, <2>3
        <3>. QED BY <1>2, <1>3, <1>8, <2>3, <3>1, ApplicationGoes
    <2>4. CASE /\ ~Refused /\ lockFile' = u
               /\ coord' = [coord EXCEPT ![u].at = "reading", ![u].held = TRUE]
        <3>1. coord' = [coord EXCEPT ![u] = To("reading", c.result, TRUE)]
            BY <1>1, <2>4 DEF UpdateTypes, Coordinator
        <3>2. lockFile # Other BY <2>4 DEF Refused
        <3>. QED BY <1>2, <1>3, <2>4, <3>1, <3>2, ApplicationGoes
    <2>. QED BY <1>9, <2>2, <2>3, <2>4 DEF ApplicationBegins
<1>10. ASSUME c.at # "queued" PROVE Sane(c) => c.held
    BY <1>2, <1>10 DEF Sane
<1>11. CASE ApplicationDecides(u)
    <2>1. Sane(c) => c.held BY <1>10, <1>11 DEF ApplicationDecides, Works
    <2>2. CASE coord' = [coord EXCEPT ![u].at = "staging"] /\ UNCHANGED lockFile
        <3>2. coord' = [coord EXCEPT ![u] = To("staging", c.result, c.held)] BY <1>4, <2>2
        <3>. QED BY <1>2, <1>3, <2>1, <2>2, <3>2, ApplicationGoes
    <2>3. CASE Ends(u, c, "grown") /\ UNCHANGED lockFile
        BY <1>2, <1>3, <1>5, <1>8, <2>1, <2>3, ApplicationGoes
    <2>4. CASE Ends(u, Released(c), "failed") /\ lockFile' = LockAfter(c)
        <3>1. coord' = [coord EXCEPT ![u] = To("done", "failed", FALSE)] BY <1>6, <1>8, <2>4
        <3>. QED BY <1>2, <1>7, <1>8, <2>4, <3>1, ApplicationGoes
    <2>. QED BY <1>11, <2>2, <2>3, <2>4 DEF ApplicationDecides
<1>12. CASE Abandons(u)
    <2>1. coord' = [coord EXCEPT ![u] = To("done", "failed", FALSE)] /\ lockFile' = LockAfter(c)
        BY <1>6, <1>8, <1>12 DEF Abandons
    <2>. QED BY <1>2, <1>7, <1>8, <2>1, ApplicationGoes
<1>13. CASE ApplicationStages(u) /\ ~Abandons(u)
    <2>1. Sane(c) => c.held BY <1>10, <1>13 DEF ApplicationStages, Works
    <2>2. coord' = [coord EXCEPT ![u] = To("handing", c.result, c.held)]
        BY <1>4, <1>13 DEF ApplicationStages
    <2>. QED BY <1>2, <1>3, <1>13, <2>1, <2>2, ApplicationGoes DEF ApplicationStages
<1>14. CASE HelperAnswers(u) /\ ~Abandons(u)
    <2>1. Sane(c) => c.held BY <1>10, <1>14 DEF HelperAnswers, Works
    <2>2. coord' = [coord EXCEPT ![u] = To("done", "staged", c.held)] /\ lockFile' = lockFile
        BY <1>5, <1>8, <1>14 DEF HelperAnswers
    <2>. QED BY <1>2, <1>3, <1>8, <2>1, <2>2, ApplicationGoes
<1>. QED BY <1>9, <1>11, <1>12, <1>13, <1>14

\* What a delivery makes of the record: nothing owns the coordinator any more.
Ended(c, d) ==
    /\ d \in Coordinator /\ d.op = "none" /\ d.shut = c.shut
    /\ d.prepared => d.held
    /\ d.handedOff => ~d.waiting
    /\ d.waiting => c.waiting \/ c.op = "application"

LEMMA EndedTurns ==
    ASSUME UpdateTypes, NEW u \in Coordinators, NEW d,
           coord[u].op # "none", coord[u].at = "done", coord' = [coord EXCEPT ![u] = d],
           d \in Coordinator, d.op = "none", d.shut = coord[u].shut,
           lockFile' \in {lockFile, NoOne},
           Sane(coord[u]) => Ended(coord[u], d) /\ Holds(u, d)
    PROVE  Turn(u, d)
<1>1. Turns(coord[u], d) BY DEF Turns
<1>2. Sane(coord[u]) => Sane(d) BY DEF Sane, Ended
<1>. QED BY <1>1, <1>2 DEF Turn, Ended

LEMMA FinishErrorTurns ==
    ASSUME UpdateTypes, NEW u \in Coordinators, coord[u].op # "none", coord[u].at = "done",
           FinishError(u)
    PROVE  \E d : Turn(u, d)
<1> DEFINE c == coord[u]
           f == [c EXCEPT !.status = "failed", !.prepared = FALSE, !.waiting = FALSE,
                          !.cancellable = FALSE, !.op = "none"]
           g == [f EXCEPT !.held = FALSE]
<1>1. c \in Coordinator BY DEF UpdateTypes
<1>2. /\ f \in Coordinator /\ f.op = "none" /\ f.shut = c.shut /\ f.prepared = FALSE
      /\ f.waiting = FALSE /\ f.held = c.held
    BY <1>1 DEF Coordinator, Statuses, Ops
<1>3. /\ g \in Coordinator /\ g.op = "none" /\ g.shut = c.shut /\ g.prepared = FALSE
      /\ g.waiting = FALSE /\ g.held = FALSE
    BY <1>1 DEF Coordinator, Statuses, Ops
<1>4. CASE c.ours
    <2>1. coord' = [coord EXCEPT ![u] = g] /\ lockFile' = LockAfter(c)
        BY <1>1, <1>4 DEF FinishError, Delivered, Released, Coordinator
    <2>2. Sane(c) => c.op = "application" BY <1>1, <1>4 DEF Sane, Coordinator, Ops
    <2>3. Sane(c) => Holds(u, g) BY <1>1, <1>3, <2>1, <2>2 DEF Holds, LockAfter
    <2>4. lockFile' \in {lockFile, NoOne} BY <2>1 DEF LockAfter
    <2> HIDE DEF g
    <2>5. Ended(c, g) BY <1>3 DEF Ended
    <2>. QED BY <1>3, <2>1, <2>3, <2>4, <2>5, EndedTurns
<1>5. CASE ~c.ours
    <2>1. coord' = [coord EXCEPT ![u] = f] /\ lockFile' = lockFile
        BY <1>1, <1>5 DEF FinishError, Delivered, Coordinator
    <2>2. Holds(u, f) BY <1>2, <2>1 DEF Holds
    <2> HIDE DEF f
    <2>3. Ended(c, f) BY <1>2 DEF Ended
    <2>. QED BY <1>2, <2>1, <2>2, <2>3, EndedTurns
<1>. QED BY <1>4, <1>5

LEMMA DeliveryTurns ==
    ASSUME UpdateTypes, NEW u \in Coordinators, Deliver(u)
    PROVE  \E d : Turn(u, d)
<1> DEFINE c == coord[u]
<1>1. c \in Coordinator /\ c.op # "none" /\ c.at = "done" BY DEF UpdateTypes, Deliver
<1>2. /\ Sane(c) => ~c.handedOff
      /\ Sane(c) /\ c.result \in {"grown", "staged"} => c.op = "application" /\ c.held
                                                         /\ ~c.prepared
      /\ Sane(c) => (c.prepared => c.held)
    BY <1>1 DEF Sane, Coordinator, Ops
<1>3. CASE FinishError(u) BY <1>1, <1>3, FinishErrorTurns
<1>4. CASE /\ c.result \in {"offer", "nothing"} /\ UNCHANGED lockFile
           /\ Delivered(u, [c EXCEPT !.status = "known", !.offered = c.result = "offer",
                                     !.ours = FALSE])
    <2>1. PICK b \in BOOLEAN : b = (c.result = "offer") OBVIOUS
    <2> DEFINE d == [c EXCEPT !.status = "known", !.offered = b, !.ours = FALSE, !.op = "none"]
    <2>2. coord' = [coord EXCEPT ![u] = d] BY <1>1, <1>4, <2>1 DEF Delivered, Coordinator
    <2>3. /\ d \in Coordinator /\ d.op = "none" /\ d.shut = c.shut /\ d.held = c.held
          /\ d.prepared = c.prepared /\ d.waiting = c.waiting /\ d.handedOff = c.handedOff
        BY <1>1 DEF Coordinator, Statuses, Ops
    <2> HIDE DEF d
    <2>4. Sane(c) => Ended(c, d) /\ Holds(u, d) BY <1>2, <1>4, <2>3 DEF Ended, Holds
    <2>. QED BY <1>1, <1>4, <2>2, <2>3, <2>4, EndedTurns
<1>5. CASE Delivered(u, [c EXCEPT !.status = "success"]) /\ UNCHANGED lockFile
    <2> DEFINE d == [c EXCEPT !.status = "success", !.op = "none"]
    <2>2. coord' = [coord EXCEPT ![u] = d] BY <1>1, <1>5 DEF Delivered, Coordinator
    <2>3. /\ d \in Coordinator /\ d.op = "none" /\ d.shut = c.shut /\ d.held = c.held
          /\ d.prepared = c.prepared /\ d.waiting = c.waiting /\ d.handedOff = c.handedOff
        BY <1>1 DEF Coordinator, Statuses, Ops
    <2> HIDE DEF d
    <2>4. Sane(c) => Ended(c, d) /\ Holds(u, d) BY <1>2, <1>5, <2>3 DEF Ended, Holds
    <2>. QED BY <1>1, <1>5, <2>2, <2>3, <2>4, EndedTurns
<1>6. CASE /\ c.result = "grown" /\ UNCHANGED lockFile
           /\ Delivered(u, [c EXCEPT !.status = "confirm", !.prepared = TRUE,
                                     !.waiting = TRUE, !.cancellable = FALSE])
    <2> DEFINE d == [c EXCEPT !.status = "confirm", !.prepared = TRUE, !.waiting = TRUE,
                              !.cancellable = FALSE, !.op = "none"]
    <2>2. coord' = [coord EXCEPT ![u] = d] BY <1>1, <1>6 DEF Delivered, Coordinator
    <2>3. /\ d \in Coordinator /\ d.op = "none" /\ d.shut = c.shut /\ d.held = c.held
          /\ d.prepared = TRUE /\ d.waiting = TRUE /\ d.handedOff = c.handedOff
        BY <1>1 DEF Coordinator, Statuses, Ops
    <2> HIDE DEF d
    <2>4. Sane(c) => Ended(c, d) /\ Holds(u, d) BY <1>2, <1>6, <2>3 DEF Ended, Holds
    <2>. QED BY <1>1, <1>6, <2>2, <2>3, <2>4, EndedTurns
<1>7. CASE /\ c.result = "staged" /\ UNCHANGED lockFile
           /\ Delivered(u, [c EXCEPT !.status = "restart", !.handedOff = TRUE,
                                     !.waiting = FALSE, !.cancellable = FALSE])
    <2> DEFINE d == [c EXCEPT !.status = "restart", !.handedOff = TRUE, !.waiting = FALSE,
                              !.cancellable = FALSE, !.op = "none"]
    <2>2. coord' = [coord EXCEPT ![u] = d] BY <1>1, <1>7 DEF Delivered, Coordinator
    <2>3. /\ d \in Coordinator /\ d.op = "none" /\ d.shut = c.shut /\ d.held = c.held
          /\ d.prepared = c.prepared /\ d.waiting = FALSE
        BY <1>1 DEF Coordinator, Statuses, Ops
    <2> HIDE DEF d
    <2>4. Sane(c) => Ended(c, d) /\ Holds(u, d) BY <1>2, <1>7, <2>3 DEF Ended, Holds
    <2>. QED BY <1>1, <1>7, <2>2, <2>3, <2>4, EndedTurns
<1>. QED BY <1>3, <1>4, <1>5, <1>6, <1>7 DEF Deliver

LEMMA WorkerTurns ==
    ASSUME UpdateTypes, NEW u \in Coordinators, WorkerStep(u) \/ Reports(u)
    PROVE  \E d : Turn(u, d)
BY CheckTurns, ReportTurns, ApplicationTurns, DeliveryTurns DEF WorkerStep

-----------------------------------------------------------------------------
(* What a step may do to all the records *)

Parked(c) == c.op = "resource" /\ c.at \in {"asking", "parting", "replacing"}
Mild(c, d) ==
    /\ d \in Coordinator
    /\ Parked(c) => d.op = c.op /\ d.at = c.at
    /\ Busy(d) => Busy(c)
Calm ==
    /\ coord' \in [Coordinators -> Coordinator]
    /\ \A v \in Coordinators :
          Mild(coord[v], coord'[v]) /\ (sessions[v] = "none" => coord'[v] = coord[v])

LEMMA Untouched ==
    ASSUME UpdateTypes, UNCHANGED coord
    PROVE  Calm
BY DEF UpdateTypes, Calm, Mild

LEMMA OneMild ==
    ASSUME UpdateTypes, NEW u \in Coordinators, sessions[u] # "none",
           NEW d, Mild(coord[u], d), coord' = [coord EXCEPT ![u] = d]
    PROVE  Calm
<1>1. \A v \in Coordinators : v # u => coord'[v] = coord[v] BY DEF UpdateTypes
<1>2. coord'[u] = d BY DEF UpdateTypes
<1>3. coord' \in [Coordinators -> Coordinator] BY DEF UpdateTypes, Mild
<1>4. \A v \in Coordinators : v # u => Mild(coord[v], coord'[v])
    BY <1>1 DEF Mild, UpdateTypes
<1>. QED BY <1>1, <1>2, <1>3, <1>4 DEF Calm

LEMMA AtWork ==
    ASSUME Named, NEW u \in Coordinators, coord[u].op # "none"
    PROVE  sessions[u] # "none"
BY FreshDoes DEF Named

LEMMA DismissalCalm ==
    ASSUME UpdateTypes, NEW u \in Coordinators, sessions[u] # "none", ShutDownUpdates(u)
    PROVE  Calm /\ UpdateTypes'
<1>1. PICK c \in Coordinator : c = coord[u] BY DEF UpdateTypes
<1>2. PICK d : d = Dismissed(c) OBVIOUS
<1>3. /\ coord' = [coord EXCEPT ![u] = d] /\ lockFile' \in {lockFile, NoOne}
      /\ other' = other
    BY <1>1, <1>2 DEF ShutDownUpdates, LockAfter
<1>4. d \in Coordinator /\ d.op = c.op /\ Halts(c, d) BY <1>2, DismissedDoes
<1>5. Mild(c, d) BY <1>4 DEF Mild, Parked, Busy, Halts
<1>6. Calm BY <1>1, <1>3, <1>5, OneMild
<1>. QED BY <1>3, <1>6 DEF UpdateTypes, Calm

LEMMA WorkerCalm ==
    ASSUME UpdateTypes, Named, NEW u \in Coordinators, UNCHANGED other,
           WorkerStep(u) \/ Reports(u)
    PROVE  Calm /\ UpdateTypes'
<1>1. PICK d : Turn(u, d) BY WorkerTurns
<1>2. sessions[u] # "none" BY <1>1, AtWork DEF Turn, Turns
<1>3. Mild(coord[u], d) BY <1>1 DEF Turn, Turns, Mild, Parked, Busy
<1>4. Calm BY <1>1, <1>2, <1>3, OneMild DEF Turn
<1>. QED BY <1>1, <1>4 DEF UpdateTypes, Calm, Turn

LEMMA UpdatesCalm ==
    ASSUME UpdateTypes, Named, UpdatesStep
    PROVE  Calm /\ UpdateTypes'
<1>1. CASE OtherClaims \/ OtherReleases
    BY <1>1, Untouched DEF OtherClaims, OtherReleases, UpdateTypes
<1>. QED BY <1>1, WorkerCalm DEF UpdatesStep

-----------------------------------------------------------------------------
(* The queue *)

LEMMA AppendDoes ==
    ASSUME NEW S, NEW q \in Seq(S), NEW c \in S
    PROVE  /\ Append(q, c) \in Seq(S) /\ Len(Append(q, c)) = Len(q) + 1
           /\ \A i \in 1..Len(q) : Append(q, c)[i] = q[i]
           /\ Append(q, c)[Len(q) + 1] = c
OBVIOUS

LEMMA TailDoes ==
    ASSUME NEW S, NEW q \in Seq(S), q # <<>>
    PROVE  /\ Head(q) \in S /\ Head(q) = q[1] /\ Len(q) \in Nat \ {0}
           /\ Tail(q) \in Seq(S) /\ Len(Tail(q)) = Len(q) - 1
           /\ \A i \in 1..Len(q) - 1 : Tail(q)[i] = q[i + 1]
OBVIOUS

LEMMA KindsApart == \A k \in OwnKinds : k \notin CallKinds
BY DEF OwnKinds, CallKinds

\* The callbacks there are still answer what they did.
StillAnswers(it) ==
    /\ it.kind \in OwnKinds => gen' > gen \/ (gen' = gen /\ (it.n = gen => starter'.does = "posted"))
    /\ it.kind \in CallKinds =>
          coord'[it.n].op = coord[it.n].op /\ coord'[it.n].at = coord[it.n].at

LEMMA AnswersStay ==
    ASSUME Types, NEW it \in Item, Answers(it), StillAnswers(it), gen' \in Nat
    PROVE  Answers(it)'
<1>1. it.kind \in OwnKinds => it.n <= gen' /\ (it.n = gen' => starter'.does = "posted")
    <2>1. it.n \in Nat /\ gen \in Nat BY DEF Item, Types, OwnTypes
    <2>. QED BY <2>1 DEF Answers, StillAnswers
<1>2. it.kind \in CallKinds => it.n \in Coordinators BY DEF Answers
<1>3. /\ it.kind = "ask" => coord'[it.n].op = "resource" /\ coord'[it.n].at = "asking"
      /\ it.kind = "part" => coord'[it.n].op = "resource" /\ coord'[it.n].at = "parting"
      /\ it.kind = "replace" => coord'[it.n].op = "resource" /\ coord'[it.n].at = "replacing"
    BY DEF Answers, StillAnswers, CallKinds, Works
<1>. QED BY <1>1, <1>2, <1>3 DEF Answers, Works

LEMMA StaysUnlike ==
    ASSUME Types, NEW x \in Item, NEW y \in Item, Answers(x), gen' \in Nat, gen' >= gen,
           ~Alike(x, y)
    PROVE  ~Alike(x, y)'
<1>1. x.n \in Nat /\ gen \in Nat BY DEF Item, Types, OwnTypes
<1>2. x.kind \in OwnKinds => x.n <= gen BY DEF Answers
<1>. QED BY <1>1, <1>2 DEF Alike

StartersOwn == loop' = "running" /\ starter'.does # "nothing" => starter'.gen = gen'

LEMMA QueueEmpty ==
    ASSUME queue' = <<>>, StartersOwn
    PROVE  Queued'
BY DEF Queued, StartersOwn

LEMMA QueueStays ==
    ASSUME Types, Queued, Calm, UNCHANGED <<loop, queue, starter, gen>>
    PROVE  Queued'
<1> USE DEF Types, OwnTypes
<1>1. \A i \in 1..Len(queue) : queue[i] \in Item OBVIOUS
<1>2. ASSUME NEW it \in Item, Answers(it) PROVE Answers(it)'
    <2>1. StillAnswers(it)
        <3>1. it.kind \in CallKinds => it.n \in Coordinators /\ Parked(coord[it.n])
            BY <1>2 DEF Answers, CallKinds, Works, Parked
        <3>. QED BY <1>2, <3>1 DEF StillAnswers, Calm, Mild, Answers
    <2>. QED BY <1>2, <2>1, AnswersStay
<1>. QED BY <1>1, <1>2 DEF Queued, Alike

LEMMA QueueIs ==
    ASSUME NEW q, queue' = q, loop' = "closed" => queue' = <<>>, StartersOwn,
           \A i \in 1..Len(q) : Answers(q[i])',
           \A i, j \in 1..Len(q) : i # j => ~Alike(q[i], q[j])'
    PROVE  Queued'
BY DEF Queued, Answers, Alike, StartersOwn, Works

LEMMA QueueServed ==
    ASSUME Types, Queued, queue # <<>>, queue' = Tail(queue), gen' \in Nat, StartersOwn,
           loop' = loop,
           \/ starter' = starter /\ gen' = gen
           \/ gen' > gen
           \/ gen' = gen /\ Head(queue).kind \in OwnKinds /\ Head(queue).n = gen,
           \A v \in Coordinators :
              \/ Head(queue).kind \in CallKinds /\ Head(queue).n = v
              \/ Parked(coord[v]) => coord'[v].op = coord[v].op /\ coord'[v].at = coord[v].at
    PROVE  Queued'
<1>1. queue \in Seq(Item) /\ gen \in Nat BY DEF Types, OwnTypes
<1>2. PICK q \in Seq(Item) : q = queue BY <1>1
<1>3. PICK r : r = Tail(q) OBVIOUS
<1>4. /\ Head(q) = q[1] /\ Len(q) \in Nat \ {0} /\ Len(r) = Len(q) - 1
      /\ \A i \in 1..Len(q) - 1 : r[i] = q[i + 1]
    BY <1>2, <1>3, TailDoes
<1>5. /\ \A i \in 1..Len(q) : q[i] \in Item /\ Answers(q[i])
      /\ \A i, j \in 1..Len(q) : i # j => ~Alike(q[i], q[j])
    BY <1>1, <1>2 DEF Queued
<1>6. ASSUME NEW i \in 1..Len(q), i # 1 PROVE Answers(q[i])'
    <2>1. PICK it \in Item : it = q[i] BY <1>5
    <2>2. Answers(it) BY <1>5, <2>1
    <2>3. ~Alike(q[1], it) BY <1>4, <1>5, <1>6, <2>1
    <2>4. StillAnswers(it)
        <3>1. ASSUME it.kind \in OwnKinds
              PROVE  gen' > gen \/ (gen' = gen /\ (it.n = gen => starter'.does = "posted"))
            <4>1. it.n = gen => starter.does = "posted" BY <2>2, <3>1 DEF Answers
            <4>2. ~(gen' = gen /\ Head(q).kind \in OwnKinds /\ Head(q).n = gen /\ it.n = gen)
                BY <1>4, <2>3, <3>1 DEF Alike
            <4>. QED BY <1>2, <4>1, <4>2
        <3>2. ASSUME it.kind \in CallKinds
              PROVE  coord'[it.n].op = coord[it.n].op /\ coord'[it.n].at = coord[it.n].at
            <4>1. it.n \in Coordinators /\ Parked(coord[it.n])
                BY <2>2, <3>2 DEF Answers, CallKinds, Works, Parked
            <4>2. ~(Head(q).kind \in CallKinds /\ Head(q).n = it.n)
                BY <1>4, <2>3, <3>2 DEF Alike
            <4>. QED BY <1>2, <4>1, <4>2
        <3>. QED BY <3>1, <3>2 DEF StillAnswers
    <2>5. Answers(it)' BY <2>2, <2>4, AnswersStay
    <2>. QED BY <2>1, <2>5
<1>7. ASSUME NEW i \in 1..Len(q), NEW j \in 1..Len(q), i # j
      PROVE  ~Alike(q[i], q[j])'
    BY <1>1, <1>5, <1>7, StaysUnlike
<1>8. \A i \in 1..Len(r) : Answers(r[i])'
    <2>1. \A i \in 1..Len(r) : i + 1 \in 1..Len(q) /\ i + 1 # 1 /\ r[i] = q[i + 1] BY <1>4
    <2>. QED BY <1>6, <2>1
<1>9. ASSUME NEW i \in 1..Len(r), NEW j \in 1..Len(r), i # j PROVE ~Alike(r[i], r[j])'
    <2>1. /\ i + 1 \in 1..Len(q) /\ r[i] = q[i + 1]
          /\ j + 1 \in 1..Len(q) /\ r[j] = q[j + 1] /\ i + 1 # j + 1
        BY <1>4, <1>9
    <2>. QED BY <1>7, <2>1
<1>10. loop' = "closed" => queue' = <<>> BY DEF Queued
<1>11. queue' = r BY <1>2, <1>3
<1>. QED BY <1>8, <1>9, <1>10, <1>11, QueueIs DEF StartersOwn

LEMMA QueuePosted ==
    ASSUME Types, Queued, NEW it \in Item, loop = "running", loop' = loop,
           queue' = Append(queue, it), gen' = gen, StartersOwn,
           Answers(it)',
           \/ it.kind \in OwnKinds /\ it.n = gen /\ starter.does # "posted"
           \/ starter' = starter /\ it.kind \in CallKinds /\ ~Parked(coord[it.n]),
           \A v \in Coordinators :
              Parked(coord[v]) => coord'[v].op = coord[v].op /\ coord'[v].at = coord[v].at
    PROVE  Queued'
<1>1. queue \in Seq(Item) /\ gen \in Nat BY DEF Types, OwnTypes
<1>2. PICK q \in Seq(Item) : q = queue BY <1>1
<1>3. PICK r : r = Append(q, it) OBVIOUS
<1>4. /\ Len(q) \in Nat /\ Len(r) = Len(q) + 1
      /\ \A i \in 1..Len(q) : r[i] = q[i]
      /\ r[Len(q) + 1] = it
    BY <1>2, <1>3, AppendDoes
<1>5. /\ \A i \in 1..Len(q) : q[i] \in Item /\ Answers(q[i])
      /\ \A i, j \in 1..Len(q) : i # j => ~Alike(q[i], q[j])
    BY <1>1, <1>2 DEF Queued
<1>6. ASSUME NEW i \in 1..Len(q)
      PROVE  Answers(q[i])' /\ ~Alike(q[i], it)' /\ ~Alike(it, q[i])'
    <2>0. PICK x \in Item : x = q[i] BY <1>5
    <2>1. Answers(x) BY <1>5, <2>0
    <2>2. x.kind \in CallKinds => x.n \in Coordinators /\ Parked(coord[x.n])
        BY <2>1 DEF Answers, CallKinds, Works, Parked
    <2>3. x.kind \in OwnKinds /\ x.n = gen => starter.does = "posted"
        BY <2>1 DEF Answers
    <2>4. StillAnswers(x) BY <2>2, <2>3, KindsApart DEF StillAnswers
    <2>5. Answers(x)' BY <1>1, <2>1, <2>4, AnswersStay
    <2>6. ~Alike(x, it)' /\ ~Alike(it, x)' BY <2>2, <2>3, KindsApart DEF Alike
    <2>. QED BY <2>0, <2>5, <2>6
<1>7. ASSUME NEW i \in 1..Len(q), NEW j \in 1..Len(q), i # j
      PROVE  ~Alike(q[i], q[j])'
    BY <1>5, <1>7 DEF Alike
<1>8. \A i \in 1..Len(r) : Answers(r[i])' BY <1>4, <1>6
<1>9. ASSUME NEW i \in 1..Len(r), NEW j \in 1..Len(r), i # j
      PROVE  ~Alike(r[i], r[j])'
    <2>1. CASE i \in 1..Len(q) /\ j \in 1..Len(q) BY <1>4, <1>7, <1>9, <2>1
    <2>2. CASE i \in 1..Len(q) /\ j = Len(q) + 1 BY <1>4, <1>6, <2>2
    <2>3. CASE j \in 1..Len(q) /\ i = Len(q) + 1 BY <1>4, <1>6, <2>3
    <2>. QED BY <1>4, <1>9, <2>1, <2>2, <2>3
<1>10. queue' = r BY <1>2, <1>3
<1>. QED BY <1>8, <1>9, <1>10, QueueIs DEF StartersOwn

-----------------------------------------------------------------------------
(* The requests that pay for the runtimes *)

LEMMA Fewer ==
    ASSUME NEW S, NEW T, IsFiniteSet(S), T \subseteq S
    PROVE  /\ IsFiniteSet(T) /\ Cardinality(T) <= Cardinality(S)
           /\ Cardinality(T) \in Nat /\ Cardinality(S) \in Nat
BY FS_Subset, FS_CardinalityType

LEMMA OneMore ==
    ASSUME NEW S, NEW T, NEW x, IsFiniteSet(S), T \subseteq S \cup {x}
    PROVE  /\ IsFiniteSet(T) /\ Cardinality(T) <= Cardinality(S) + 1
           /\ Cardinality(T) \in Nat /\ Cardinality(S) \in Nat
<1>1. /\ IsFiniteSet(S \cup {x}) /\ Cardinality(S) \in Nat
      /\ Cardinality(S \cup {x}) = IF x \in S THEN Cardinality(S) ELSE Cardinality(S) + 1
    BY FS_AddElement, FS_CardinalityType
<1>2. Cardinality(S \cup {x}) <= Cardinality(S) + 1 BY <1>1
<1>3. IsFiniteSet(T) /\ Cardinality(T) <= Cardinality(S \cup {x}) /\ Cardinality(T) \in Nat
    BY <1>1, FS_Subset, FS_CardinalityType
<1>4. Cardinality(S \cup {x}) \in Nat BY <1>1, FS_CardinalityType
<1>. QED BY <1>1, <1>2, <1>3, <1>4

LEMMA OneLess ==
    ASSUME NEW S, NEW T, NEW x \in S, IsFiniteSet(S), T \subseteq S \ {x}
    PROVE  /\ IsFiniteSet(T) /\ Cardinality(T) <= Cardinality(S) - 1
           /\ Cardinality(T) \in Nat /\ Cardinality(S) \in Nat
<1>1. /\ IsFiniteSet(S \ {x}) /\ Cardinality(S) \in Nat
      /\ Cardinality(S \ {x}) = Cardinality(S) - 1
    BY FS_RemoveElement, FS_CardinalityType
<1>2. IsFiniteSet(T) /\ Cardinality(T) <= Cardinality(S \ {x}) /\ Cardinality(T) \in Nat
    BY <1>1, FS_Subset, FS_CardinalityType
<1>. QED BY <1>1, <1>2

LEMMA InstallingFinite == IsFiniteSet(Installing) /\ IsFiniteSet(Installing)'
<1>1. IsFiniteSet(Coordinators) BY Numbers, FS_Interval
<1>2. Installing \subseteq Coordinators /\ Installing' \subseteq Coordinators
    BY DEF Installing
<1>. QED BY <1>1, <1>2, FS_Subset

LEMMA CostIs ==
    ASSUME Counted
    PROVE  /\ Cost \in Nat /\ Cardinality(Installing) \in Nat /\ Cardinality(Kept) \in Nat
           /\ Preparing => Cost >= 1
           /\ Installing # {} => Cost >= 1
<1>1. /\ Cardinality(Installing) \in Nat /\ Cardinality(Kept) \in Nat
      /\ Installing # {} => Cardinality(Installing) # 0
    BY InstallingFinite, FS_CardinalityType, FS_EmptySet DEF Counted
<1>2. Due(Preparing) \in {0, 1} /\ Due(~hello) \in {0, 1} /\ (Preparing => Due(Preparing) = 1)
    BY DEF Due
<1>. QED BY <1>1, <1>2 DEF Cost

LEMMA CountStep ==
    ASSUME Types, Types', Counted, IsFiniteSet(Kept)', NEW n \in {0, 1},
           \A k \in Nat : k + n <= MaxRequests + 1 /\ Numbered(k) => Numbered(k + n)',
           n + Cost' <= Cost + (asked' - asked)
    PROVE  Counted'
<1>1. PICK k \in 0..(MaxRequests + 1) : Numbered(k) /\ k + Cost <= asked + 1 BY DEF Counted
<1>2. asked \in Nat /\ asked' \in Nat /\ asked' <= MaxRequests /\ MaxRequests \in Nat
    BY Numbers DEF Types
<1>3. Cost \in Nat /\ Cost' \in Nat
    <2>1. Cardinality(Installing)' \in Nat /\ Cardinality(Kept)' \in Nat
        BY InstallingFinite, FS_CardinalityType
    <2>2. Due(Preparing)' \in Nat /\ Due(~hello)' \in Nat BY DEF Due
    <2>. QED BY <2>1, <2>2, CostIs DEF Cost
<1>4. k + n + Cost' <= asked' + 1 /\ k + n \in 0..(MaxRequests + 1)
    <2>1. PICK c \in Nat, d \in Nat, a \in Nat, b \in Nat, x \in Nat :
             c = Cost /\ d = Cost' /\ a = asked /\ b = asked' /\ x = MaxRequests
        BY <1>2, <1>3
    <2>2. k + c <= a + 1 /\ n + d <= c + (b - a) /\ b <= x BY <1>1, <1>2, <2>1
    <2>3. k + n + d <= b + 1 /\ k + n \in 0..(x + 1) BY <2>2
    <2>. QED BY <2>1, <2>3
<1>6. Numbered(k + n)' BY <1>1, <1>4
<1>. QED BY <1>4, <1>6 DEF Counted

\* No runtime is composed.
AsMany == \A m \in Coordinators : sessions'[m] = "none" <=> sessions[m] = "none"

LEMMA CostStays ==
    ASSUME Types, Counted, \A v \in Coordinators : Busy(coord'[v]) => Busy(coord[v]),
           Kept' \subseteq Kept, ~hello' => ~hello
    PROVE  /\ IsFiniteSet(Kept)'
           /\ Cost' <= Cost - Due(Preparing) + Due(Preparing)'
           /\ Cost \in Nat /\ Cost' \in Nat
<1>1. Cardinality(Installing)' <= Cardinality(Installing) /\ Cardinality(Installing)' \in Nat
    <2>1. Installing' \subseteq Installing BY DEF Installing
    <2>. QED BY <2>1, InstallingFinite, Fewer
<1>2. /\ IsFiniteSet(Kept)' /\ Cardinality(Kept)' <= Cardinality(Kept)
      /\ Cardinality(Kept)' \in Nat
    BY Fewer DEF Counted
<1>3. Cardinality(Installing) \in Nat /\ Cardinality(Kept) \in Nat /\ Cost \in Nat BY CostIs
<1>4. /\ Due(~hello)' <= Due(~hello) /\ Due(~hello) \in {0, 1} /\ Due(~hello)' \in {0, 1}
      /\ Due(Preparing) \in {0, 1} /\ Due(Preparing)' \in {0, 1}
    BY DEF Due
<1> DEFINE a == Cardinality(Installing)
           b == Cardinality(Kept)
<1>. QED BY <1>1, <1>2, <1>3, <1>4 DEF Cost

LEMMA CountStays ==
    ASSUME Types, Types', Counted, \A v \in Coordinators : Busy(coord'[v]) => Busy(coord[v]),
           AsMany, Kept' \subseteq Kept, ~hello' => ~hello,
           asked' = asked + 1 \/ (asked' = asked /\ (Preparing' => Preparing))
    PROVE  Counted'
<1>1. /\ IsFiniteSet(Kept)' /\ Cost' <= Cost - Due(Preparing) + Due(Preparing)'
      /\ Cost \in Nat /\ Cost' \in Nat
    BY CostStays
<1>2. asked \in Nat /\ asked' \in Nat BY Numbers DEF Types
<1>3. /\ Due(Preparing) \in {0, 1} /\ Due(Preparing)' \in {0, 1}
      /\ (Preparing' => Preparing) => Due(Preparing)' <= Due(Preparing)
    BY DEF Due
<1>4. 0 + Cost' <= Cost + (asked' - asked)
    <2>1. PICK c \in Nat, d \in Nat, a \in Nat, b \in Nat :
             c = Cost /\ d = Cost' /\ a = asked /\ b = asked'
        BY <1>1, <1>2
    <2>2. PICK p \in {0, 1}, q \in {0, 1} : p = Due(Preparing) /\ q = Due(Preparing)'
        BY <1>3
    <2>3. d <= c - p + q /\ (b = a + 1 \/ (b = a /\ q <= p)) BY <1>1, <1>3, <2>1, <2>2
    <2>4. 0 + d <= c + (b - a) BY <2>3
    <2>. QED BY <2>1, <2>4
<1>5. \A k \in Nat : Numbered(k) => Numbered(k + 0)' BY DEF Numbered, AsMany
<1>. QED BY <1>1, <1>4, <1>5, CountStep

LEMMA NextIs ==
    ASSUME Types, Counted, Cost >= 1
    PROVE  /\ NextNumber \in Coordinators /\ sessions[NextNumber] = "none"
           /\ \A k \in Nat : Numbered(k) => NextNumber = k + 1
<1>1. PICK k \in 0..(MaxRequests + 1) : Numbered(k) /\ k + Cost <= asked + 1 BY DEF Counted
<1>2. asked \in Nat /\ asked <= MaxRequests /\ MaxRequests \in Nat BY Numbers DEF Types
<1>3. Cost \in Nat BY CostIs
<1>4. k + 1 \in Coordinators BY <1>1, <1>2, <1>3, Numbers
<1>5. sessions[k + 1] = "none" /\ \A n \in Coordinators : n < k + 1 => sessions[n] # "none"
    BY <1>1, <1>4, Numbers DEF Numbered
<1>6. /\ NextNumber \in Coordinators /\ sessions[NextNumber] = "none"
      /\ \A n \in Coordinators : n < NextNumber => sessions[n] # "none"
    BY <1>4, <1>5 DEF NextNumber
<1>7. ASSUME NEW j \in Nat, Numbered(j) PROVE NextNumber = j + 1
    <2>1. NextNumber \in Nat /\ ~(NextNumber <= j) BY <1>6, <1>7, Numbers DEF Numbered
    <2>2. ASSUME NextNumber > j + 1 PROVE FALSE
        <3>1. j + 1 \in Coordinators BY <1>6, <2>1, <2>2, Numbers
        <3>. QED BY <1>6, <1>7, <2>2, <3>1 DEF Numbered
    <2>. QED BY <2>1, <2>2
<1>. QED BY <1>6, <1>7

LEMMA NumberedNext ==
    ASSUME Types, Counted, Cost >= 1,
           \A v \in Coordinators : sessions'[v] = "none" <=> (sessions[v] = "none" /\ v # NextNumber)
    PROVE  \A k \in Nat : k + 1 <= MaxRequests + 1 /\ Numbered(k) => Numbered(k + 1)'
<1>1. ASSUME NEW k \in Nat, Numbered(k) PROVE Numbered(k + 1)'
    <2>1. NextNumber = k + 1 BY <1>1, NextIs
    <2>. QED BY <1>1, <2>1, Numbers DEF Numbered
<1>. QED BY <1>1

-----------------------------------------------------------------------------
(* Steps that compose nothing *)

LEMMA NamedStays ==
    ASSUME Types, Named, Calm, AsMany, page' \in {0, page}, updates' \in {0, updates}
    PROVE  Named'
<1>1. \A v \in Coordinators : sessions'[v] = "none" => coord'[v] = Fresh
    BY DEF Calm, AsMany, Named
<1>2. page' # 0 => sessions'[page'] # "none"
    BY DEF Types, RuntimeTypes, Number, AsMany, Named
<1>3. updates' # 0 => sessions'[updates'] # "none"
    BY DEF Types, RuntimeTypes, Number, AsMany, Named
<1>. QED BY <1>1, <1>2, <1>3 DEF Named

LEMMA CalmBusy ==
    ASSUME Calm
    PROVE  /\ \A v \in Coordinators : Busy(coord'[v]) => Busy(coord[v])
           /\ \A v \in Coordinators :
                 Parked(coord[v]) => coord'[v].op = coord[v].op /\ coord'[v].at = coord[v].at
BY DEF Calm, Mild

LEMMA UpdatesKeep ==
    ASSUME SInv, UpdatesStep, UNCHANGED <<ownVars, runtimeVars, settingsVars, asked>>
    PROVE  SInv'
<1> USE DEF SInv
<1>1. Calm /\ UpdateTypes' BY UpdatesCalm DEF Types
<1>2. Types' BY <1>1
    DEF Types, OwnTypes, RuntimeTypes, SettingsTypes, ownVars, runtimeVars, settingsVars
<1>3. AsMany /\ Kept' = Kept /\ (Preparing' <=> Preparing) /\ hello' = hello /\ asked' = asked
    BY DEF AsMany, Kept, Preparing, ownVars, runtimeVars, settingsVars
<1>4. Named' BY <1>1, <1>3, NamedStays DEF runtimeVars
<1>5. Queued' BY <1>1, QueueStays DEF ownVars
<1>6. Counted' BY <1>1, <1>2, <1>3, CalmBusy, CountStays
<1>. QED BY <1>2, <1>4, <1>5, <1>6

LEMMA ClosureKeeps ==
    ASSUME SInv, NEW m \in Coordinators, SessionCloses(m)
    PROVE  SInv'
<1> USE DEF SInv
<1>1. Calm BY Untouched DEF SessionCloses, updateVars, Types
<1>2. Types'
    BY DEF SessionCloses, Types, UpdateTypes, OwnTypes, RuntimeTypes, SettingsTypes,
                    updateVars, ownVars, settingsVars, States
<1>3. AsMany BY DEF SessionCloses, AsMany, Types, RuntimeTypes
<1>4. Kept' = Kept /\ (Preparing' <=> Preparing) /\ hello' = hello /\ asked' = asked
    BY DEF SessionCloses, Kept, Preparing, ownVars, settingsVars
<1>5. Named' BY <1>1, <1>3, NamedStays DEF SessionCloses
<1>6. Queued' BY <1>1, QueueStays DEF SessionCloses, ownVars
<1>7. Counted' BY <1>1, <1>2, <1>3, <1>4, CalmBusy, CountStays
<1>. QED BY <1>2, <1>5, <1>6, <1>7

LEMMA CallbackIs ==
    ASSUME NEW kind \in OwnKinds \cup CallKinds, NEW n \in Nat
    PROVE  /\ Callback(kind, n) \in Item /\ Callback(kind, n).kind = kind
           /\ Callback(kind, n).n = n
BY DEF Callback, Item

\* The startup thread posts its last act.
Posts ==
    /\ starter.does \in {"prepare", "retire"}
    /\ \E kind \in OwnKinds : queue' = Post(queue, Callback(kind, starter.gen))
    /\ starter' = [starter EXCEPT !.does = "posted"]
    /\ UNCHANGED <<updateVars, loop, hello, context, gen, pending, runtimeVars,
                   settingsVars, asked>>

LEMMA StarterPosts ==
    ASSUME PreparationEnds \/ RetryWaited
    PROVE  Posts
BY DEF PreparationEnds, RetryWaited, Posts, OwnKinds

LEMMA PostKeeps ==
    ASSUME SInv, Posts
    PROVE  SInv'
<1> USE DEF SInv
<1>1. Calm BY Untouched DEF Posts, updateVars, Types
<1>2. starter' \in Starter /\ starter'.does = "posted" /\ starter'.gen = starter.gen
    BY DEF Posts, Types, OwnTypes, Starter
<1>3. PICK kind \in OwnKinds : queue' = Post(queue, Callback(kind, starter.gen))
    BY DEF Posts
<1>4. PICK it \in Item : it = Callback(kind, starter.gen) /\ it.kind = kind /\ it.n = starter.gen
    <2>1. starter.gen \in Nat BY DEF Types, OwnTypes, Starter
    <2>. QED BY <2>1, CallbackIs
<1>5. queue' \in Seq(Item) BY <1>3, <1>4, AppendDoes DEF Post, Types, OwnTypes
<1>6. Types' BY <1>2, <1>5
    DEF Posts, Types, UpdateTypes, OwnTypes, RuntimeTypes, SettingsTypes,
        updateVars, runtimeVars, settingsVars
<1>7. AsMany /\ Kept' = Kept /\ (Preparing' => Preparing) /\ hello' = hello /\ asked' = asked
    BY DEF Posts, AsMany, Kept, Preparing, runtimeVars, settingsVars
<1>8. Named' BY <1>1, <1>7, NamedStays DEF Posts, runtimeVars
<1>9. Counted' BY <1>1, <1>6, <1>7, CalmBusy, CountStays
<1>10. Queued'
    <2>1. CASE loop = "running"
        <3>1. starter.gen = gen /\ starter.does # "posted" /\ starter.does # "nothing"
            BY <2>1 DEF Queued, Posts
        <3>2. gen' = gen /\ loop' = loop BY DEF Posts
        <3>3. Answers(it)'
            BY <1>2, <1>4, <3>1, <3>2 DEF Answers, OwnKinds, CallKinds, Types, OwnTypes
        <3>4. StartersOwn BY <1>2, <3>1, <3>2 DEF StartersOwn
        <3>5. queue' = Append(queue, it) BY <1>3, <1>4, <2>1 DEF Post
        <3>. QED BY <1>1, <1>4, <2>1, <3>1, <3>2, <3>3, <3>4, <3>5, CalmBusy, QueuePosted
    <2>2. CASE loop # "running"
        <3>1. loop = "closed" BY <2>2 DEF Types, OwnTypes
        <3>2. queue' = <<>> /\ loop' = "closed" BY <1>3, <3>1 DEF Post, Queued, Posts
        <3>. QED BY <3>2, QueueEmpty DEF StartersOwn
    <2>. QED BY <2>1, <2>2
<1>. QED BY <1>6, <1>8, <1>9, <1>10

-----------------------------------------------------------------------------
(* The worker of a resource installation *)

\* One step: it goes on to a place, calls the owner, or ends.
Proceeds(u, d) ==
    /\ coord' = [coord EXCEPT ![u] = d] /\ d \in Coordinator
    /\ Busy(coord[u]) /\ d.op = "resource" /\ d.shut = coord[u].shut
    /\ d.held = coord[u].held /\ d.waiting = coord[u].waiting /\ d.ours = coord[u].ours
    /\ d.prepared = coord[u].prepared /\ d.handedOff = coord[u].handedOff
    /\ d.seen = coord[u].seen

\* What it brings with it.
Brings(c, d) ==
    /\ d.leg = c.leg \/ (d.leg = "after" /\ d.at = "fetched")
    /\ d.at = "fetched" => d.leg = "after"
    /\ d.at = "loading" => c.leg = "after" /\ d.leg = "after"
    /\ d.at = "replacing" => c.at = "loading"
    /\ d.at = "loading" => (c.at = "asked" /\ c.seen = 0) \/ c.at = "parted"
    /\ d.at = "parting" => c.at = "asked"
    /\ d.at \notin {"asked", "parted", "queued"}
    /\ d.at = "done" => d.result = "failed"

Waits(u, d) ==
    \/ queue' = queue /\ ~Parked(coord[u])
    \/ queue' = queue /\ loop = "closed" /\ d.at = "done"
    \/ /\ loop = "running" /\ ~Parked(coord[u])
       /\ \E kind \in CallKinds :
             /\ queue' = Append(queue, Callback(kind, u))
             /\ kind = "ask" => d.at = "asking"
             /\ kind = "part" => d.at = "parting"
             /\ kind = "replace" => d.at = "replacing"

LEMMA GoesOn ==
    ASSUME UpdateTypes, NEW u \in Coordinators, Busy(coord[u]), NEW p \in Places,
           Continues(u, p)
    PROVE  \E d : /\ Proceeds(u, d) /\ d.at = p /\ d.leg = coord[u].leg
                  /\ d.result = coord[u].result
<1> DEFINE d == [coord[u] EXCEPT !.at = p]
<1>1. coord[u] \in Coordinator BY DEF UpdateTypes
<1>2. coord' = [coord EXCEPT ![u] = d] BY <1>1 DEF Continues, UpdateTypes
<1>3. Proceeds(u, d) /\ d.at = p /\ d.leg = coord[u].leg /\ d.result = coord[u].result
    BY <1>1, <1>2 DEF Proceeds, Busy, Coordinator
<1>. QED BY <1>3

LEMMA GivesUpWork ==
    ASSUME UpdateTypes, NEW u \in Coordinators, Busy(coord[u]), Ends(u, coord[u], "failed")
    PROVE  \E d : /\ Proceeds(u, d) /\ d.at = "done" /\ d.leg = coord[u].leg
                  /\ d.result = "failed"
<1> DEFINE d == [coord[u] EXCEPT !.at = "done", !.result = "failed"]
<1>1. coord[u] \in Coordinator BY DEF UpdateTypes
<1>2. coord' = [coord EXCEPT ![u] = d] BY <1>1 DEF Ends, UpdateTypes
<1>3. Proceeds(u, d) /\ d.at = "done" /\ d.leg = coord[u].leg /\ d.result = "failed"
    BY <1>1, <1>2 DEF Proceeds, Busy, Coordinator, Places, Results
<1>. QED BY <1>3

ResourceTurn(u, d) == Proceeds(u, d) /\ Brings(coord[u], d) /\ Waits(u, d)

LEMMA CallsTurn ==
    ASSUME UpdateTypes, NEW u \in Coordinators, NEW from, NEW kind, NEW waiting,
           \/ from \in {"queued", "fetched"} /\ kind = "ask" /\ waiting = "asking"
           \/ from = "asked" /\ kind = "part" /\ waiting = "parting",
           Calls(u, from, kind, waiting)
    PROVE  \E d : ResourceTurn(u, d)
<1>1. Busy(coord[u]) /\ ~Parked(coord[u]) /\ coord[u].at = from
    BY DEF Calls, Works, Busy, Parked
<1>2. CASE Ends(u, coord[u], "failed") /\ UNCHANGED queue
    <2>1. PICK d : Proceeds(u, d) /\ d.at = "done" /\ d.leg = coord[u].leg /\ d.result = "failed"
        BY <1>1, <1>2, GivesUpWork
    <2>. QED BY <1>1, <1>2, <2>1 DEF ResourceTurn, Brings, Waits
<1>3. CASE /\ loop = "running"
           /\ queue' = Append(queue, Callback(kind, u)) /\ Continues(u, waiting)
    <2>1. waiting \in Places BY DEF Places
    <2>2. PICK d : Proceeds(u, d) /\ d.at = waiting /\ d.leg = coord[u].leg
        BY <1>1, <1>3, <2>1, GoesOn
    <2>3. Brings(coord[u], d) BY <1>1, <2>2 DEF Brings
    <2>4. Waits(u, d) BY <1>1, <1>3, <2>2 DEF Waits, CallKinds
    <2>. QED BY <2>2, <2>3, <2>4 DEF ResourceTurn
<1>. QED BY <1>2, <1>3 DEF Calls

LEMMA ResourceTurns ==
    ASSUME UpdateTypes, NEW u \in Coordinators, ResourceStep(u)
    PROVE  (\E d : ResourceTurn(u, d)) /\ WorkerOnly
<1>0. coord[u] \in Coordinator BY DEF UpdateTypes
<1>1. WorkerOnly
    BY DEF ResourceStep, ResourceBegins, Releases, NothingToRelease, AwaitsRelease, Fetches,
           ResourceAsks, Loads, CallTimesOut, Calls
<1>2. CASE ResourceBegins(u)
    <2>1. Calls(u, "queued", "ask", "asking") BY <1>2 DEF ResourceBegins
    <2>. QED BY <1>1, <2>1, CallsTurn
<1>3. CASE Releases(u)
    <2>1. Calls(u, "asked", "part", "parting") BY <1>3 DEF Releases
    <2>. QED BY <1>1, <2>1, CallsTurn
<1>4. CASE ResourceAsks(u)
    <2>1. Calls(u, "fetched", "ask", "asking") BY <1>4 DEF ResourceAsks
    <2>. QED BY <1>1, <2>1, CallsTurn
<1>5. ASSUME Ends(u, coord[u], "failed"), UNCHANGED queue, Busy(coord[u]),
             ~Parked(coord[u]) \/ loop = "closed"
      PROVE  \E d : ResourceTurn(u, d)
    <2>1. PICK d : Proceeds(u, d) /\ d.at = "done" /\ d.leg = coord[u].leg /\ d.result = "failed"
        BY <1>5, GivesUpWork
    <2>. QED BY <1>5, <2>1 DEF ResourceTurn, Brings, Waits
<1>6. ASSUME AfterRelease(u), UNCHANGED queue, coord[u].op = "resource",
             (coord[u].at = "asked" /\ coord[u].seen = 0) \/ coord[u].at = "parted"
      PROVE  \E d : ResourceTurn(u, d)
    <2>1. Busy(coord[u]) /\ ~Parked(coord[u]) BY <1>6 DEF Busy, Parked
    <2>2. PICK p \in Places : p = IF coord[u].leg = "before" THEN "fetching" ELSE "loading"
        BY DEF Places
    <2>3. PICK d : Proceeds(u, d) /\ d.at = p /\ d.leg = coord[u].leg
        BY <1>6, <2>1, <2>2, GoesOn DEF AfterRelease
    <2>4. coord[u].leg \in {"before", "after"} BY <1>0 DEF Coordinator
    <2>5. Brings(coord[u], d) BY <1>6, <2>2, <2>3, <2>4 DEF Brings
    <2>. QED BY <1>6, <2>1, <2>3, <2>5 DEF ResourceTurn, Waits
<1>7. CASE NothingToRelease(u) BY <1>6, <1>7 DEF NothingToRelease, Works
<1>8. CASE AwaitsRelease(u)
    BY <1>5, <1>6, <1>8 DEF AwaitsRelease, Works, Busy, Parked
<1>9. CASE CallTimesOut(u)
    BY <1>5, <1>9 DEF CallTimesOut, Busy
<1>10. CASE Fetches(u)
    <2>1. PICK good \in BOOLEAN :
             coord' = [coord EXCEPT ![u] = [@ EXCEPT !.at = "fetched", !.good = good,
                                                     !.leg = "after"]]
        BY <1>10 DEF Fetches
    <2> DEFINE d == [coord[u] EXCEPT !.at = "fetched", !.good = good, !.leg = "after"]
    <2>2. coord' = [coord EXCEPT ![u] = d] BY <2>1 DEF UpdateTypes
    <2>3. Busy(coord[u]) /\ ~Parked(coord[u]) /\ coord[u].op = "resource" /\ queue' = queue
        BY <1>10 DEF Fetches, Works, Busy, Parked
    <2>4. Proceeds(u, d) /\ d.at = "fetched" /\ d.leg = "after"
        BY <1>0, <2>2, <2>3 DEF Proceeds, Coordinator, Places
    <2> HIDE DEF d
    <2>5. Brings(coord[u], d) BY <2>4 DEF Brings
    <2>6. Waits(u, d) BY <2>3 DEF Waits
    <2>7. ResourceTurn(u, d) BY <2>4, <2>5, <2>6 DEF ResourceTurn
    <2>. QED BY <1>1, <2>7
<1>11. CASE Loads(u)
    <2>1. Busy(coord[u]) /\ ~Parked(coord[u]) /\ coord[u].at = "loading"
        BY <1>11 DEF Loads, Works, Busy, Parked
    <2>2. CASE /\ loop = "running" /\ Continues(u, "replacing")
               /\ queue' = Append(queue, Callback("replace", u))
        <3>1. "replacing" \in Places BY DEF Places
        <3>2. PICK d : Proceeds(u, d) /\ d.at = "replacing" /\ d.leg = coord[u].leg
            BY <2>1, <2>2, <3>1, GoesOn
        <3>3. Brings(coord[u], d) BY <2>1, <3>2 DEF Brings
        <3>4. Waits(u, d) BY <2>1, <2>2, <3>2 DEF Waits, CallKinds
        <3>5. ResourceTurn(u, d) BY <3>2, <3>3, <3>4 DEF ResourceTurn
        <3>. QED BY <1>1, <3>5
    <2>. QED BY <1>5, <1>11, <2>1, <2>2 DEF Loads
<1>. QED BY <1>1, <1>2, <1>3, <1>4, <1>7, <1>8, <1>9, <1>10, <1>11 DEF ResourceStep

LEMMA ResourceKeeps ==
    ASSUME SInv, NEW u \in Coordinators, ResourceStep(u)
    PROVE  SInv'
<1> USE DEF SInv
<1>1. WorkerOnly BY ResourceTurns DEF Types
<1>2. PICK d : ResourceTurn(u, d) BY ResourceTurns DEF Types
<1>3. sessions[u] # "none" BY <1>2, AtWork DEF ResourceTurn, Proceeds, Busy
<1>4. coord \in [Coordinators -> Coordinator] /\ coord' = [coord EXCEPT ![u] = d] /\ coord'[u] = d
    BY <1>2 DEF Types, UpdateTypes, ResourceTurn, Proceeds
<1>5. queue' \in Seq(Item)
    <2>1. \A kind \in CallKinds : Callback(kind, u) \in Item BY Numbers, CallbackIs
    <2>. QED BY <1>2, <2>1, AppendDoes DEF ResourceTurn, Waits, Types, OwnTypes
<1>6. Types'
    <2>1. UpdateTypes'
        BY <1>1, <1>2, <1>4 DEF WorkerOnly, Types, UpdateTypes, ResourceTurn, Proceeds
    <2>. QED BY <1>1, <1>5, <2>1
        DEF WorkerOnly, Types, OwnTypes, RuntimeTypes, SettingsTypes, runtimeVars,
            settingsVars
<1>7. AsMany /\ Kept' = Kept /\ (Preparing' <=> Preparing) /\ hello' = hello /\ asked' = asked
    BY <1>1 DEF WorkerOnly, AsMany, Kept, Preparing, runtimeVars, settingsVars
<1>8. \A v \in Coordinators : v # u => coord'[v] = coord[v] BY <1>4
<1>9. Busy(coord[u]) BY <1>2 DEF ResourceTurn, Proceeds
<1>10. Counted'
    <2>1. \A v \in Coordinators : Busy(coord'[v]) => Busy(coord[v]) BY <1>8, <1>9
    <2>. QED BY <1>6, <1>7, <2>1, CountStays
<1>11. Named'
    BY <1>1, <1>3, <1>8 DEF WorkerOnly, runtimeVars, Named
<1>12. gen' = gen /\ loop' = loop /\ starter' = starter BY <1>1 DEF WorkerOnly
<1>13. Queued'
    <2>1. CASE queue' = queue /\ loop = "closed"
        BY <1>12, <2>1, QueueEmpty DEF Queued, StartersOwn
    <2>2. CASE ~Parked(coord[u])
        <3>1. \A v \in Coordinators :
                 Parked(coord[v]) => coord'[v].op = coord[v].op /\ coord'[v].at = coord[v].at
            BY <1>8, <2>2
        <3>2. CASE queue' = queue
            <4>1. Mild(coord[u], d) BY <1>2, <1>9, <2>2 DEF ResourceTurn, Proceeds, Mild
            <4>2. Calm BY <1>3, <1>4, <4>1, OneMild DEF Types
            <4>. QED BY <1>12, <3>2, <4>2, QueueStays
        <3>3. ASSUME NEW kind \in CallKinds, queue' = Append(queue, Callback(kind, u)),
                     kind = "ask" => d.at = "asking",
                     kind = "part" => d.at = "parting",
                     kind = "replace" => d.at = "replacing",
                     loop = "running"
              PROVE  Queued'
            <4>1. PICK it \in Item : it = Callback(kind, u) /\ it.kind = kind /\ it.n = u
                BY Numbers, CallbackIs
            <4>2. d.op = "resource" BY <1>2 DEF ResourceTurn, Proceeds
            <4>3. Answers(it)'
                BY <1>4, <3>3, <4>1, <4>2, KindsApart DEF Answers, Works
            <4>4. StartersOwn BY <1>12, <3>3 DEF Queued, StartersOwn
            <4>. QED BY <1>12, <2>2, <3>1, <3>3, <4>1, <4>3, <4>4, QueuePosted
        <3>. QED BY <1>2, <3>2, <3>3 DEF ResourceTurn, Waits
    <2>. QED BY <1>2, <2>1, <2>2 DEF ResourceTurn, Waits
<1>. QED BY <1>6, <1>10, <1>11, <1>13

-----------------------------------------------------------------------------
(* The callbacks of a worker *)

LEMMA HeadIs ==
    ASSUME Types, Queued, queue # <<>>
    PROVE  Head(queue) \in Item /\ Answers(Head(queue)) /\ Tail(queue) \in Seq(Item)
<1>1. /\ queue \in Seq(Item) /\ Head(queue) \in Item /\ Head(queue) = queue[1]
      /\ Len(queue) \in Nat \ {0} /\ Tail(queue) \in Seq(Item)
    BY TailDoes DEF Types, OwnTypes
<1>2. Answers(queue[1]) BY <1>1 DEF Queued
<1>. QED BY <1>1, <1>2

\* The owner answers a worker: its coordinator goes on.
Answered(u, d) ==
    /\ loop = "running" /\ queue # <<>> /\ queue' = Tail(queue)
    /\ Head(queue).kind \in CallKinds /\ Head(queue).n = u
    /\ coord' = [coord EXCEPT ![u] = d] /\ d \in Coordinator
    /\ Busy(coord[u]) /\ d.op = "resource" /\ d.shut = coord[u].shut
    /\ d.held = coord[u].held /\ d.waiting = coord[u].waiting /\ d.ours = coord[u].ours
    /\ d.prepared = coord[u].prepared /\ d.handedOff = coord[u].handedOff
    /\ UNCHANGED <<lockFile, other, loop, hello, context, starter, gen, pending,
                   runtime, manual, updates, page, phase, settingsVars, asked>>

LEMMA AnsweredKeeps ==
    ASSUME SInv, NEW u \in Coordinators, NEW d, Answered(u, d),
           sessions' \in [Coordinators -> States], AsMany
    PROVE  SInv'
<1> USE DEF SInv
<1>1. queue' \in Seq(Item) BY HeadIs DEF Answered
<1>2. /\ coord \in [Coordinators -> Coordinator] /\ coord'[u] = d
      /\ coord' \in [Coordinators -> Coordinator]
      /\ \A v \in Coordinators : v # u => coord'[v] = coord[v]
    BY DEF Types, UpdateTypes, Answered
<1>3. Types' BY <1>1, <1>2
    DEF Answered, Types, UpdateTypes, OwnTypes, RuntimeTypes, SettingsTypes, settingsVars
<1>4. sessions[u] # "none" BY AtWork DEF Answered, Busy
<1>5. Named'
    <2>1. \A v \in Coordinators : sessions'[v] = "none" => coord'[v] = Fresh
        BY <1>2, <1>4 DEF AsMany, Named
    <2>2. /\ page' # 0 => sessions'[page'] # "none"
          /\ updates' # 0 => sessions'[updates'] # "none"
        BY DEF Types, RuntimeTypes, Number, AsMany, Named, Answered
    <2>. QED BY <2>1, <2>2 DEF Named
<1>6. Queued'
    <2>1. gen' = gen /\ gen' \in Nat /\ starter' = starter /\ loop' = loop
        BY DEF Answered, Types, OwnTypes
    <2>2. StartersOwn BY <2>1 DEF StartersOwn, Queued
    <2>3. \A v \in Coordinators :
              \/ Head(queue).kind \in CallKinds /\ Head(queue).n = v
              \/ Parked(coord[v]) => coord'[v].op = coord[v].op /\ coord'[v].at = coord[v].at
        BY <1>2 DEF Answered
    <2>. QED BY <2>1, <2>2, <2>3, QueueServed DEF Answered
<1>7. Counted'
    <2>1. Kept' = Kept /\ (Preparing' <=> Preparing) /\ hello' = hello /\ asked' = asked
        BY DEF Answered, Kept, Preparing, settingsVars
    <2>2. \A v \in Coordinators : Busy(coord'[v]) => Busy(coord[v]) BY <1>2 DEF Answered
    <2>. QED BY <1>3, <2>1, <2>2, CountStays
<1>. QED BY <1>3, <1>5, <1>6, <1>7

LEMMA AskAnswers ==
    ASSUME Types, Queued, AskServed
    PROVE  \E u \in Coordinators : \E d :
              /\ Answered(u, d) /\ d.at = "asked" /\ d.seen = manual /\ d.leg = coord[u].leg
              /\ Works(u, "resource", "asking") /\ UNCHANGED sessions
<1>1. /\ Head(queue).kind = "ask" /\ queue # <<>> /\ Answers(Head(queue)) /\ loop = "running"
    BY HeadIs DEF AskServed, Head1
<1>2. PICK u \in Coordinators : u = Head(queue).n BY <1>1 DEF Answers, CallKinds
<1>3. Works(u, "resource", "asking") BY <1>1, <1>2 DEF Answers
<1>4. PICK c \in Coordinator : c = coord[u] BY DEF Types, UpdateTypes
<1> DEFINE d == [c EXCEPT !.seen = manual, !.at = "asked"]
<1>5. coord' = [coord EXCEPT ![u] = d] BY <1>2, <1>4 DEF AskServed, Types, UpdateTypes
<1>6. /\ d \in Coordinator /\ d.at = "asked" /\ d.seen = manual /\ d.leg = c.leg
      /\ d.op = c.op /\ d.shut = c.shut /\ d.held = c.held /\ d.waiting = c.waiting
      /\ d.ours = c.ours /\ d.prepared = c.prepared /\ d.handedOff = c.handedOff
    BY DEF Coordinator, Places, Types, RuntimeTypes, Number
<1> HIDE DEF d
<1>7. Busy(c) /\ c.op = "resource" BY <1>3, <1>4 DEF Busy, Works
<1>8. Answered(u, d) BY <1>1, <1>2, <1>4, <1>5, <1>6, <1>7
    DEF Answered, AskServed, Served, CallKinds, runtimeVars
<1>. QED BY <1>3, <1>4, <1>6, <1>8 DEF AskServed, runtimeVars

LEMMA PartAnswers ==
    ASSUME Types, Queued, PartServed
    PROVE  \E u \in Coordinators : \E d :
              /\ Answered(u, d) /\ d.at = "parted" /\ d.leg = coord[u].leg
              /\ Works(u, "resource", "parting")
              /\ sessions' = IF coord[u].leg = "before" THEN sessions
                                                        ELSE Closing(sessions, coord[u].seen)
<1>1. /\ Head(queue).kind = "part" /\ queue # <<>> /\ Answers(Head(queue)) /\ loop = "running"
    BY HeadIs DEF PartServed, Head1
<1>2. PICK u \in Coordinators : u = Head(queue).n BY <1>1 DEF Answers, CallKinds
<1>3. Works(u, "resource", "parting") BY <1>1, <1>2 DEF Answers
<1>4. PICK c \in Coordinator : c = coord[u] BY DEF Types, UpdateTypes
<1> DEFINE d == [c EXCEPT !.at = "parted"]
<1>5. coord' = [coord EXCEPT ![u] = d]
    BY <1>2, <1>4 DEF PartServed, Continues, Types, UpdateTypes
<1>6. /\ d \in Coordinator /\ d.at = "parted" /\ d.leg = c.leg
      /\ d.op = c.op /\ d.shut = c.shut /\ d.held = c.held /\ d.waiting = c.waiting
      /\ d.ours = c.ours /\ d.prepared = c.prepared /\ d.handedOff = c.handedOff
    BY DEF Coordinator, Places
<1> HIDE DEF d
<1>7. Busy(c) /\ c.op = "resource" BY <1>3, <1>4 DEF Busy, Works
<1>8. Answered(u, d) BY <1>1, <1>2, <1>4, <1>5, <1>6, <1>7
    DEF Answered, PartServed, Served, CallKinds
<1>. QED BY <1>2, <1>3, <1>4, <1>6, <1>8 DEF PartServed

LEMMA ClosingDoes ==
    ASSUME Types, NEW m
    PROVE  /\ Closing(sessions, m) \in [Coordinators -> States]
           /\ \A v \in Coordinators :
                 /\ Closing(sessions, m)[v] = "none" <=> sessions[v] = "none"
                 /\ Closing(sessions, m)[v] = "open" => sessions[v] = "open" /\ v # m
<1>1. sessions \in [Coordinators -> States] BY DEF Types, RuntimeTypes
<1>2. CASE m # 0 /\ sessions[m] = "open"
    <2>1. Closing(sessions, m) = [sessions EXCEPT ![m] = "closing"] BY <1>2 DEF Closing
    <2>. QED BY <1>1, <1>2, <2>1 DEF States
<1>3. CASE ~(m # 0 /\ sessions[m] = "open")
    <2>1. Closing(sessions, m) = sessions BY <1>3 DEF Closing
    <2>. QED BY <1>1, <1>3, <2>1, Numbers
<1>. QED BY <1>2, <1>3

LEMMA AskKeeps ==
    ASSUME SInv, AskServed
    PROVE  SInv'
<1>1. PICK u \in Coordinators : \E d : Answered(u, d) /\ UNCHANGED sessions
    BY AskAnswers DEF SInv
<1>. QED BY <1>1, AnsweredKeeps DEF SInv, Types, RuntimeTypes, AsMany

LEMMA PartKeeps ==
    ASSUME SInv, PartServed
    PROVE  SInv'
<1>1. PICK u \in Coordinators : \E d :
        /\ Answered(u, d)
        /\ sessions' = IF coord[u].leg = "before" THEN sessions
                                                  ELSE Closing(sessions, coord[u].seen)
    BY PartAnswers DEF SInv
<1>2. sessions' \in [Coordinators -> States] /\ AsMany
    BY <1>1, ClosingDoes DEF SInv, Types, RuntimeTypes, AsMany
<1>. QED BY <1>1, <1>2, AnsweredKeeps

\* The runtime is composed again, or it is not: one installation less either way.
LEMMA CountReplaced ==
    ASSUME Types, Types', Counted, NEW u \in Coordinators, Busy(coord[u]),
           \A v \in Coordinators : Busy(coord'[v]) => Busy(coord[v]) /\ v # u,
           Kept' = Kept, hello' = hello, asked' = asked, Preparing' <=> Preparing,
           \/ AsMany
           \/ \A v \in Coordinators :
                 sessions'[v] = "none" <=> (sessions[v] = "none" /\ v # NextNumber)
    PROVE  Counted'
<1>1. Cardinality(Installing)' <= Cardinality(Installing) - 1 /\ Cardinality(Installing)' \in Nat
    <2>1. u \in Installing /\ Installing' \subseteq Installing \ {u} BY DEF Installing
    <2>. QED BY <2>1, InstallingFinite, OneLess
<1>2. IsFiniteSet(Kept)' /\ Cardinality(Kept)' = Cardinality(Kept) BY DEF Counted
<1>3. /\ Cardinality(Installing) \in Nat /\ Cardinality(Kept) \in Nat
      /\ Cost \in Nat /\ (Installing # {} => Cost >= 1)
    BY CostIs
<1>4. /\ Due(~hello)' = Due(~hello) /\ Due(~hello) \in {0, 1}
      /\ Due(Preparing)' = Due(Preparing) /\ Due(Preparing) \in {0, 1}
    BY DEF Due
<1>5. 1 + Cost' <= Cost /\ Cost' \in Nat
    <2>1. PICK i \in Nat, j \in Nat, k \in Nat, p \in {0, 1}, h \in {0, 1} :
             /\ i = Cardinality(Installing) /\ j = Cardinality(Installing)'
             /\ k = Cardinality(Kept) /\ p = Due(Preparing) /\ h = Due(~hello)
        BY <1>1, <1>3, <1>4
    <2>2. Cost = i + k + p + h /\ Cost' = j + k + p + h BY <1>2, <1>4, <2>1 DEF Cost
    <2>3. j <= i - 1 BY <1>1, <2>1
    <2>. QED BY <2>2, <2>3
<1>6. Cost >= 1 BY <1>3 DEF Installing
<1>7. asked \in Nat BY Numbers DEF Types
<1>8. CASE AsMany
    <2>1. \A k \in Nat : Numbered(k) => Numbered(k + 0)' BY <1>8 DEF Numbered, AsMany
    <2>2. 0 + Cost' <= Cost + (asked' - asked)
        <3>1. PICK c \in Nat, d \in Nat, a \in Nat : c = Cost /\ d = Cost' /\ a = asked
            BY <1>3, <1>5, <1>7
        <3>2. 0 + d <= c + (a - a) BY <1>5, <3>1
        <3>. QED BY <3>1, <3>2
    <2>. QED BY <1>2, <2>1, <2>2, CountStep
<1>9. CASE \A v \in Coordinators :
              sessions'[v] = "none" <=> (sessions[v] = "none" /\ v # NextNumber)
    <2>1. \A k \in Nat : k + 1 <= MaxRequests + 1 /\ Numbered(k) => Numbered(k + 1)'
        BY <1>6, <1>9, NumberedNext
    <2>2. 1 + Cost' <= Cost + (asked' - asked) BY <1>3, <1>5, <1>7
    <2>. QED BY <1>2, <2>1, <2>2, CountStep
<1>. QED BY <1>8, <1>9

\* What a replacement does, by its three ends.
Replaces(u, e, d) ==
    /\ coord' = e /\ e[u] = d /\ d \in Coordinator /\ d.op = "resource" /\ d.at = "done"
    /\ d.result \in {"installed", "failed"} /\ d.shut = coord[u].shut
    /\ d.held = coord[u].held /\ d.waiting = coord[u].waiting /\ d.ours = coord[u].ours
    /\ d.prepared = coord[u].prepared /\ d.handedOff = coord[u].handedOff
Recomposed(u, m) ==
    /\ sessions[m] = "none" /\ m # u /\ m \in Coordinators
    /\ sessions' = [sessions EXCEPT ![m] = "open"]
    /\ manual' = m

LEMMA ReplaceIs ==
    ASSUME Types, Named, Queued, Counted, ReplaceServed
    PROVE  \E u \in Coordinators :
              /\ Head(queue).kind = "replace" /\ Head(queue).n = u
              /\ Works(u, "resource", "replacing")
              /\ \E e \in [Coordinators -> Coordinator], d \in Coordinator :
                    /\ Replaces(u, e, d)
                    /\ \/ /\ Recomposed(u, NextNumber)
                          /\ updates' = NextNumber /\ page' = NextNumber
                          /\ runtime' = TRUE /\ phase' = "ready"
                          /\ e[NextNumber] = Checked(Fresh)
                          /\ \A v \in Coordinators \ {u, NextNumber} : e[v] = coord[v]
                       \/ /\ runtime' = FALSE /\ UNCHANGED <<updates, page, phase>>
                          /\ (manual' = 0 /\ UNCHANGED sessions) \/ Recomposed(u, NextNumber)
                          /\ \A v \in Coordinators \ {u} : e[v] = coord[v]
<1>1. /\ Head(queue).kind = "replace" /\ queue # <<>> /\ Answers(Head(queue))
    BY HeadIs DEF ReplaceServed, Head1
<1>2. PICK u \in Coordinators : u = Head(queue).n BY <1>1 DEF Answers, CallKinds
<1>3. Works(u, "resource", "replacing") BY <1>1, <1>2 DEF Answers
<1>4. PICK c \in Coordinator : c = coord[u] BY DEF Types, UpdateTypes
<1>5. Cost >= 1
    <2>1. u \in Installing BY <1>3 DEF Installing, Works, Busy
    <2>. QED BY <2>1, CostIs
<1>6. PICK m \in Coordinators : m = NextNumber /\ sessions[m] = "none" BY <1>5, NextIs
<1>7. m # u BY <1>3, <1>6, AtWork DEF Works
<1>8. ReplaceRuntime(u) BY <1>2 DEF ReplaceServed
<1> DEFINE To(r) == [c EXCEPT !.at = "done", !.result = r]
<1>9. ASSUME NEW r \in {"installed", "failed"}
      PROVE  /\ To(r) \in Coordinator /\ To(r).op = "resource" /\ To(r).at = "done"
             /\ To(r).result = r /\ To(r).shut = c.shut /\ To(r).held = c.held
             /\ To(r).waiting = c.waiting /\ To(r).ours = c.ours
             /\ To(r).prepared = c.prepared /\ To(r).handedOff = c.handedOff
    BY <1>3, <1>4 DEF Works, Coordinator, Places, Results
<1>10. CASE /\ manual' = NextNumber /\ sessions' = [sessions EXCEPT ![NextNumber] = "open"]
            /\ updates' = NextNumber /\ page' = NextNumber /\ runtime' = TRUE
            /\ phase' = "ready"
            /\ coord' = [[coord EXCEPT ![u] = [@ EXCEPT !.at = "done",
                            !.result = IF coord[u].good THEN "installed" ELSE "failed"]]
                      EXCEPT ![NextNumber] = Checked(Fresh)]
    <2>1. PICK r \in {"installed", "failed"} : r = IF coord[u].good THEN "installed" ELSE "failed"
        OBVIOUS
    <2>2. PICK f \in Coordinator : f = Checked(Fresh) BY FreshDoes, CheckedDoes
    <2> DEFINE e == [[coord EXCEPT ![u] = To(r)] EXCEPT ![m] = f]
    <2>3. coord' = e BY <1>4, <1>6, <1>10, <2>1, <2>2 DEF Types, UpdateTypes
    <2>4. To(r) \in Coordinator BY <1>9
    <2> HIDE DEF To
    <2>5. /\ e \in [Coordinators -> Coordinator] /\ e[u] = To(r) /\ e[m] = f
          /\ \A v \in Coordinators \ {u, m} : e[v] = coord[v]
        BY <1>7, <2>2, <2>4 DEF Types, UpdateTypes
    <2> HIDE DEF e
    <2>6. Replaces(u, e, To(r)) BY <1>4, <1>9, <2>1, <2>3, <2>4, <2>5 DEF Replaces
    <2>7. Recomposed(u, m) BY <1>6, <1>7, <1>10 DEF Recomposed
    <2>. QED BY <1>1, <1>2, <1>3, <1>6, <1>10, <2>2, <2>4, <2>5, <2>6, <2>7
<1>11. CASE /\ runtime' = FALSE
            /\ coord' = [coord EXCEPT ![u] = [@ EXCEPT !.at = "done", !.result = "failed"]]
            /\ UNCHANGED <<updates, page, phase>>
            /\ \/ manual' = 0 /\ UNCHANGED sessions
               \/ /\ manual' = NextNumber
                  /\ sessions' = [sessions EXCEPT ![NextNumber] = "open"]
    <2> DEFINE e == [coord EXCEPT ![u] = To("failed")]
    <2>1. coord' = e BY <1>4, <1>11 DEF Types, UpdateTypes
    <2>2. To("failed") \in Coordinator BY <1>9
    <2> HIDE DEF To
    <2>3. /\ e \in [Coordinators -> Coordinator] /\ e[u] = To("failed")
          /\ \A v \in Coordinators \ {u} : e[v] = coord[v]
        BY <2>2 DEF Types, UpdateTypes
    <2> HIDE DEF e
    <2>4. Replaces(u, e, To("failed")) BY <1>4, <1>9, <2>1, <2>2, <2>3 DEF Replaces
    <2>5. (manual' = 0 /\ UNCHANGED sessions) \/ Recomposed(u, m)
        BY <1>6, <1>7, <1>11 DEF Recomposed
    <2>. QED BY <1>1, <1>2, <1>3, <1>6, <1>11, <2>2, <2>3, <2>4, <2>5
<1>. QED BY <1>8, <1>10, <1>11 DEF ReplaceRuntime

LEMMA ReplaceKeeps ==
    ASSUME SInv, ReplaceServed
    PROVE  SInv'
<1> USE DEF SInv
<1>1. PICK u \in Coordinators, e \in [Coordinators -> Coordinator], d \in Coordinator :
         /\ Head(queue).kind = "replace" /\ Head(queue).n = u
         /\ Works(u, "resource", "replacing")
         /\ Replaces(u, e, d)
         /\ \/ /\ Recomposed(u, NextNumber)
               /\ updates' = NextNumber /\ page' = NextNumber
               /\ runtime' = TRUE /\ phase' = "ready"
               /\ e[NextNumber] = Checked(Fresh)
               /\ \A v \in Coordinators \ {u, NextNumber} : e[v] = coord[v]
            \/ /\ runtime' = FALSE /\ UNCHANGED <<updates, page, phase>>
               /\ (manual' = 0 /\ UNCHANGED sessions) \/ Recomposed(u, NextNumber)
               /\ \A v \in Coordinators \ {u} : e[v] = coord[v]
    BY ReplaceIs
<1>2. /\ queue # <<>> /\ queue' = Tail(queue) /\ loop = "running"
      /\ UNCHANGED <<lockFile, other, loop, hello, context, starter, gen, pending,
                     settingsVars, asked>>
    BY DEF ReplaceServed, Head1, Served
<1>3. queue' \in Seq(Item) BY <1>2, HeadIs
<1>4. sessions' \in [Coordinators -> States]
    BY <1>1 DEF Recomposed, Types, RuntimeTypes, States
<1>5. Types' BY <1>1, <1>2, <1>3, <1>4
    DEF Types, UpdateTypes, OwnTypes, RuntimeTypes, SettingsTypes, settingsVars, Replaces,
        Recomposed, Number
<1>6. Checked(Fresh).op = "check"
    BY FreshDoes, CheckedDoes DEF Starts, Active
<1>7. ASSUME NEW v \in Coordinators, v # u
      PROVE  coord'[v] = coord[v] \/ (v = NextNumber /\ sessions[v] = "none" /\
                                      coord'[v] = Checked(Fresh) /\ sessions'[v] = "open")
    BY <1>1, <1>7 DEF Replaces, Recomposed, Types, RuntimeTypes
<1>8. coord'[u] = d /\ d.op = "resource" /\ d.at = "done" BY <1>1 DEF Replaces
<1>9. sessions[u] # "none" BY <1>1, AtWork DEF Works
<1>10. \/ AsMany
       \/ \A v \in Coordinators :
             sessions'[v] = "none" <=> (sessions[v] = "none" /\ v # NextNumber)
    BY <1>1 DEF AsMany, Recomposed, Types, RuntimeTypes
<1>11. Counted'
    <2>1. Busy(coord[u]) BY <1>1 DEF Works, Busy
    <2>2. \A v \in Coordinators : Busy(coord'[v]) => Busy(coord[v]) /\ v # u
        BY <1>6, <1>7, <1>8 DEF Busy
    <2>3. Kept' = Kept /\ hello' = hello /\ asked' = asked /\ (Preparing' <=> Preparing)
        BY <1>2 DEF Kept, Preparing, settingsVars
    <2>. QED BY <1>5, <1>10, <2>1, <2>2, <2>3, CountReplaced
<1>12. Queued'
    <2>1. gen' = gen /\ gen' \in Nat /\ starter' = starter /\ loop' = loop
        BY <1>2 DEF Types, OwnTypes
    <2>2. StartersOwn BY <2>1 DEF StartersOwn, Queued
    <2>3. ASSUME NEW v \in Coordinators, v # u, Parked(coord[v]) PROVE coord'[v] = coord[v]
        <3>1. sessions[v] # "none" BY <2>3, AtWork DEF Parked
        <3>. QED BY <1>7, <2>3, <3>1
    <2>4. "replace" \in CallKinds BY DEF CallKinds
    <2>. QED BY <1>1, <1>2, <2>1, <2>2, <2>3, <2>4, QueueServed
<1>13. Named'
    <2>1. \A v \in Coordinators : sessions'[v] = "none" => sessions[v] = "none"
        BY <1>10 DEF AsMany
    <2>2. \A v \in Coordinators : sessions'[v] = "none" => coord'[v] = Fresh
        BY <1>7, <1>9, <2>1 DEF Named
    <2>3. CASE updates' = NextNumber /\ page' = NextNumber /\ Recomposed(u, NextNumber)
        BY <2>2, <2>3 DEF Named, Recomposed, Types, RuntimeTypes
    <2>4. CASE updates' = updates /\ page' = page
        BY <2>1, <2>2, <2>4 DEF Named, Types, RuntimeTypes, Number
    <2>. QED BY <1>1, <2>3, <2>4
<1>. QED BY <1>5, <1>11, <1>12, <1>13

-----------------------------------------------------------------------------
(* Starts *)

\* One runtime is composed, or none; or its session is given up at once.
Gentle ==
    /\ coord' \in [Coordinators -> Coordinator]
    /\ \A v \in Coordinators : Mild(coord[v], coord'[v])
GivesUpAll ==
    /\ Calm /\ manual' = 0 /\ updates' = 0 /\ phase' = "failed" /\ UNCHANGED <<runtime, page>>
    /\ UpdateTypes'
    /\ (updates # 0 /\ ShutDownUpdates(updates)) \/ (updates = 0 /\ UNCHANGED updateVars)
NewRuntime(m) ==
    /\ m \in Coordinators /\ sessions[m] = "none"
    /\ sessions' = [sessions EXCEPT ![m] = "open"] /\ manual' = m
    /\ updates' = m /\ page' = m /\ runtime' = TRUE /\ phase' = "ready"
    /\ coord' = [coord EXCEPT ![m] = Checked(Fresh)]
    /\ UNCHANGED <<lockFile, other>>

LEMMA CheckedFresh ==
    /\ Checked(Fresh) \in Coordinator /\ Checked(Fresh).op = "check"
    /\ Checked(Fresh).at = "queued" /\ ~Checked(Fresh).shut /\ ~Checked(Fresh).held
    /\ ~Checked(Fresh).handedOff /\ ~Checked(Fresh).waiting /\ ~Checked(Fresh).ours
    /\ ~Checked(Fresh).prepared
<1>1. ~Active(Fresh) BY FreshDoes DEF Active
<1>. QED BY <1>1, FreshDoes, CheckedDoes DEF Starts, Same

LEMMA DismissedIfAny ==
    ASSUME Types, Named,
           IF updates # 0 THEN ShutDownUpdates(updates) ELSE UNCHANGED updateVars
    PROVE  /\ Calm /\ UpdateTypes'
           /\ (updates # 0 /\ ShutDownUpdates(updates)) \/ (updates = 0 /\ UNCHANGED updateVars)
<1>1. CASE updates # 0
    <2>1. updates \in Coordinators /\ sessions[updates] # "none"
        BY <1>1 DEF Types, RuntimeTypes, Number, Named
    <2>. QED BY <1>1, <2>1, DismissalCalm DEF Types
<1>2. CASE updates = 0
    BY <1>2, Untouched DEF Types, UpdateTypes, updateVars
<1>. QED BY <1>1, <1>2

LEMMA StartupFailsIs ==
    ASSUME Types, Named, NEW m \in Number, StartupFails(m),
           m # 0 => sessions[m] = "none"
    PROVE  /\ GivesUpAll
           /\ sessions' \in [Coordinators -> States]
           /\ m = 0 => sessions' = Closing(sessions, manual) /\ AsMany
           /\ m # 0 => /\ sessions' = [sessions EXCEPT ![m] = "closing"]
                       /\ \A v \in Coordinators :
                             sessions'[v] = "none" <=> (sessions[v] = "none" /\ v # m)
<1>1. GivesUpAll BY DismissedIfAny DEF StartupFails, GivesUpAll
<1>2. CASE m = 0
    <2>1. sessions' = Closing(sessions, manual) BY <1>2 DEF StartupFails
    <2>. QED BY <1>1, <1>2, <2>1, ClosingDoes DEF AsMany
<1>3. CASE m # 0
    <2>1. sessions' = [sessions EXCEPT ![m] = "closing"] BY <1>3 DEF StartupFails
    <2>2. sessions \in [Coordinators -> States] /\ m \in Coordinators
        BY <1>3 DEF Types, RuntimeTypes, Number
    <2>. QED BY <1>1, <1>3, <2>1, <2>2 DEF States
<1>. QED BY <1>2, <1>3

LEMMA NewRuntimeIs ==
    ASSUME Types, Named, NEW m \in Coordinators, NewRuntime(m)
    PROVE  /\ Gentle /\ UpdateTypes'
           /\ sessions' \in [Coordinators -> States]
           /\ \A v \in Coordinators :
                 sessions'[v] = "none" <=> (sessions[v] = "none" /\ v # m)
           /\ \A v \in Coordinators : v # m => coord'[v] = coord[v]
           /\ coord'[m] = Checked(Fresh)
<1>1. /\ coord \in [Coordinators -> Coordinator] /\ sessions \in [Coordinators -> States]
    BY DEF Types, UpdateTypes, RuntimeTypes
<1>2. /\ \A v \in Coordinators : v # m => coord'[v] = coord[v]
      /\ coord'[m] = Checked(Fresh) /\ coord' \in [Coordinators -> Coordinator]
    BY <1>1, CheckedFresh DEF NewRuntime
<1>3. coord[m] = Fresh BY DEF NewRuntime, Named
<1>4. \A v \in Coordinators : Mild(coord[v], coord'[v])
    BY <1>1, <1>2, <1>3, FreshDoes, CheckedFresh DEF Mild, Parked, Busy
<1>5. /\ sessions' \in [Coordinators -> States]
      /\ \A v \in Coordinators : sessions'[v] = "none" <=> (sessions[v] = "none" /\ v # m)
    BY <1>1 DEF NewRuntime, States
<1>6. UpdateTypes' BY <1>2 DEF NewRuntime, Types, UpdateTypes
<1>. QED BY <1>2, <1>4, <1>5, <1>6 DEF Gentle

\* The three ends of _runtime_loaded().
LEMMA LoadedIs ==
    ASSUME Types, Named, Counted, Preparing, RuntimeLoaded
    PROVE  \/ NewRuntime(NextNumber)
           \/ GivesUpAll /\ sessions' = Closing(sessions, manual)
           \/ /\ GivesUpAll /\ NextNumber \in Coordinators /\ sessions[NextNumber] = "none"
              /\ sessions' = [sessions EXCEPT ![NextNumber] = "closing"]
<1>1. Cost >= 1 BY CostIs
<1>2. NextNumber \in Coordinators /\ sessions[NextNumber] = "none" BY <1>1, NextIs
<1>3. CASE Composed(NextNumber) BY <1>2, <1>3 DEF Composed, NewRuntime
<1>4. CASE StartupFails(0) BY <1>4, StartupFailsIs DEF Number
<1>5. CASE StartupFails(NextNumber)
    <2>1. NextNumber # 0 /\ NextNumber \in Number BY <1>2, Numbers DEF Number
    <2>. QED BY <1>2, <1>5, <2>1, StartupFailsIs
<1>. QED BY <1>3, <1>4, <1>5 DEF RuntimeLoaded

LEMMA CountLoaded ==
    ASSUME Types, Types', Counted, Preparing, ~Preparing',
           \A v \in Coordinators : Busy(coord'[v]) => Busy(coord[v]),
           Kept' = Kept, hello' = hello, asked' = asked,
           \/ AsMany
           \/ \A v \in Coordinators :
                 sessions'[v] = "none" <=> (sessions[v] = "none" /\ v # NextNumber)
    PROVE  Counted'
<1>1. /\ IsFiniteSet(Kept)' /\ Cost' <= Cost - Due(Preparing) + Due(Preparing)'
      /\ Cost \in Nat /\ Cost' \in Nat
    BY CostStays
<1>2. Due(Preparing) = 1 /\ Due(Preparing)' = 0 /\ Cost >= 1 BY CostIs DEF Due
<1>3. PICK c \in Nat, d \in Nat, a \in Nat : c = Cost /\ d = Cost' /\ a = asked
    BY <1>1, Numbers DEF Types
<1>4. d <= c - 1 + 0 BY <1>1, <1>2, <1>3
<1>5. CASE AsMany
    <2>1. \A k \in Nat : Numbered(k) => Numbered(k + 0)' BY <1>5 DEF Numbered, AsMany
    <2>2. 0 + d <= c + (a - a) BY <1>4
    <2>. QED BY <1>1, <1>3, <2>1, <2>2, CountStep
<1>6. CASE \A v \in Coordinators :
              sessions'[v] = "none" <=> (sessions[v] = "none" /\ v # NextNumber)
    <2>1. \A k \in Nat : k + 1 <= MaxRequests + 1 /\ Numbered(k) => Numbered(k + 1)'
        BY <1>2, <1>6, NumberedNext
    <2>2. 1 + d <= c + (a - a) BY <1>4
    <2>. QED BY <1>1, <1>3, <2>1, <2>2, CountStep
<1>. QED BY <1>5, <1>6

\* What every end of a start keeps.
LEMMA LoadedKeeps ==
    ASSUME SInv, Preparing, RuntimeLoaded, starter' = NoThread, pending' = 0,
           queue' \in Seq(Item), context' \in BOOLEAN,
           UNCHANGED <<loop, hello, gen, settingsVars, asked>>
    PROVE  Types' /\ Named' /\ Counted' /\ Gentle
<1> USE DEF SInv
<1>1. NoThread \in Starter /\ NoThread.does = "nothing" BY DEF NoThread, Starter
<1>2. ASSUME UpdateTypes', RuntimeTypes' PROVE Types'
    BY <1>1, <1>2 DEF Types, OwnTypes, SettingsTypes, settingsVars
<1>3. ~Preparing' /\ Kept' = Kept BY <1>1 DEF Preparing, Kept, settingsVars
<1>4. ASSUME GivesUpAll PROVE Gentle /\ \A v \in Coordinators : Busy(coord'[v]) => Busy(coord[v])
    BY <1>4, CalmBusy DEF GivesUpAll, Calm, Gentle
<1>5. CASE NewRuntime(NextNumber)
    <2>1. PICK m \in Coordinators : m = NextNumber /\ NewRuntime(m) BY <1>5 DEF NewRuntime
    <2>2. /\ Gentle /\ UpdateTypes' /\ sessions' \in [Coordinators -> States]
          /\ \A v \in Coordinators : sessions'[v] = "none" <=> (sessions[v] = "none" /\ v # m)
          /\ \A v \in Coordinators : v # m => coord'[v] = coord[v]
        BY <2>1, NewRuntimeIs
    <2>3. RuntimeTypes' BY <2>1, <2>2 DEF NewRuntime, RuntimeTypes, Number
    <2>4. Types' BY <1>2, <2>2, <2>3
    <2>5. Named' BY <2>1, <2>2 DEF Named, NewRuntime
    <2>6. Counted' BY <1>3, <2>1, <2>2, <2>4, CountLoaded DEF Gentle, Mild
    <2>. QED BY <2>2, <2>4, <2>5, <2>6
<1>6. CASE GivesUpAll /\ sessions' = Closing(sessions, manual)
    <2>1. sessions' \in [Coordinators -> States] /\ AsMany BY <1>6, ClosingDoes DEF AsMany
    <2>2. Types' BY <1>2, <1>6, <2>1 DEF GivesUpAll, Types, RuntimeTypes, Number
    <2>3. Named' BY <1>6, <2>1, NamedStays DEF GivesUpAll
    <2>4. Counted' BY <1>3, <1>4, <1>6, <2>1, <2>2, CountLoaded
    <2>. QED BY <1>4, <1>6, <2>2, <2>3, <2>4
<1>7. CASE /\ GivesUpAll /\ NextNumber \in Coordinators /\ sessions[NextNumber] = "none"
           /\ sessions' = [sessions EXCEPT ![NextNumber] = "closing"]
    <2>1. PICK m \in Coordinators : m = NextNumber BY <1>7
    <2>2. /\ sessions' \in [Coordinators -> States]
          /\ \A v \in Coordinators : sessions'[v] = "none" <=> (sessions[v] = "none" /\ v # m)
        BY <1>7, <2>1 DEF Types, RuntimeTypes, States
    <2>3. Types' BY <1>2, <1>7, <2>2 DEF GivesUpAll, Types, RuntimeTypes, Number
    <2>4. Named'
        <3>1. \A v \in Coordinators : sessions'[v] = "none" => coord'[v] = Fresh
            BY <1>7, <2>2 DEF GivesUpAll, Calm, Named
        <3>2. page # 0 => sessions'[page] # "none"
            BY <2>2 DEF Named, Types, RuntimeTypes, Number
        <3>. QED BY <1>7, <3>1, <3>2 DEF GivesUpAll, Named
    <2>5. Counted' BY <1>3, <1>4, <1>7, <2>1, <2>2, <2>3, CountLoaded
    <2>. QED BY <1>4, <1>7, <2>3, <2>4, <2>5
<1>. QED BY <1>5, <1>6, <1>7, LoadedIs

\* A callback of the startup thread that is not stale is its only one.
LEMMA OwnServed ==
    ASSUME SInv, queue # <<>>, loop = "running", queue' = Tail(queue), loop' = loop,
           Head(queue).kind \in OwnKinds, Gentle,
           \/ starter' = starter /\ gen' = gen
           \/ /\ Head(queue).n = gen
              /\ starter'.does = "nothing" \/ starter'.gen = gen'
              /\ gen' = gen \/ gen' = gen + 1
    PROVE  Queued'
<1> USE DEF SInv
<1>1. gen \in Nat /\ gen' \in Nat BY DEF Types, OwnTypes
<1>2. StartersOwn BY DEF StartersOwn, Queued
<1>3. \A v \in Coordinators :
         Parked(coord[v]) => coord'[v].op = coord[v].op /\ coord'[v].at = coord[v].at
    BY DEF Gentle, Mild
<1>. QED BY <1>1, <1>2, <1>3, QueueServed

LEMMA OwnHead ==
    ASSUME SInv, queue # <<>>, Head(queue).kind \in OwnKinds
    PROVE  /\ Head(queue).n \in Nat /\ Head(queue).n <= gen
           /\ Head(queue).n = gen => starter.does = "posted" /\ Preparing
           /\ Tail(queue) \in Seq(Item)
BY HeadIs DEF SInv, Answers, Preparing, Item

LEMMA GentleStays ==
    ASSUME Types, UNCHANGED coord
    PROVE  Calm /\ Gentle
BY Untouched DEF Types, Calm, Gentle

LEMMA LoadedServedKeeps ==
    ASSUME SInv, LoadedServed
    PROVE  SInv'
<1>1. /\ queue # <<>> /\ loop = "running" /\ queue' = Tail(queue) /\ Head(queue).kind \in OwnKinds
      /\ UNCHANGED <<loop, hello, context, gen, settingsVars, asked>>
    BY DEF LoadedServed, Head1, Served, OwnKinds
<1>2. /\ queue' \in Seq(Item) /\ Head(queue).n \in 0..gen
      /\ Head(queue).n = gen => Preparing
    BY <1>1, OwnHead DEF SInv, Types, OwnTypes
<1>3. NoThread \in Starter /\ NoThread.does = "nothing" BY DEF NoThread, Starter
<1>4. context \in BOOLEAN BY DEF SInv, Types, OwnTypes
<1>5. CASE UNCHANGED <<updateVars, runtimeVars>> /\
           \/ UNCHANGED <<starter, pending>>
           \/ starter' = NoThread /\ Head(queue).n = gen /\ pending' = gen
    <2>1. Calm /\ Gentle BY <1>5, GentleStays DEF SInv, updateVars
    <2>2. pending' \in 0..gen BY <1>5 DEF SInv, Types, OwnTypes
    <2>3. Types' BY <1>1, <1>2, <1>3, <1>5, <2>2
        DEF SInv, Types, UpdateTypes, OwnTypes, RuntimeTypes, SettingsTypes, updateVars,
            runtimeVars, settingsVars
    <2>4. AsMany /\ Kept' = Kept BY <1>1, <1>5 DEF AsMany, Kept, runtimeVars, settingsVars
    <2>5. Preparing' => Preparing BY <1>1, <1>2, <1>5 DEF Preparing
    <2>6. Named' BY <1>5, <2>1, <2>4, NamedStays DEF SInv, runtimeVars
    <2>7. Counted' BY <1>1, <2>1, <2>3, <2>4, <2>5, CalmBusy, CountStays DEF SInv
    <2>8. Queued' BY <1>1, <1>3, <1>5, <2>1, OwnServed
    <2>. QED BY <2>3, <2>6, <2>7, <2>8 DEF SInv
<1>6. CASE Head(queue).n = gen /\ starter' = NoThread /\ pending' = 0 /\ RuntimeLoaded
    <2>1. Types' /\ Named' /\ Counted' /\ Gentle
        BY <1>1, <1>2, <1>4, <1>6, LoadedKeeps
    <2>2. Queued' BY <1>1, <1>3, <1>6, <2>1, OwnServed
    <2>. QED BY <2>1, <2>2 DEF SInv
<1>. QED BY <1>5, <1>6 DEF LoadedServed, Stale

LEMMA FailedServedKeeps ==
    ASSUME SInv, FailedServed
    PROVE  SInv'
<1>1. /\ queue # <<>> /\ loop = "running" /\ queue' = Tail(queue) /\ Head(queue).kind \in OwnKinds
      /\ UNCHANGED <<loop, hello, context, gen, settingsVars, asked>>
    BY DEF FailedServed, Head1, Served, OwnKinds
<1>2. queue' \in Seq(Item) BY <1>1, OwnHead
<1>3. NoThread \in Starter /\ NoThread.does = "nothing" BY DEF NoThread, Starter
<1>4. CASE UNCHANGED <<updateVars, starter, pending, runtimeVars>>
    <2>1. Calm /\ Gentle BY <1>4, GentleStays DEF SInv, updateVars
    <2>3. Types' BY <1>1, <1>2, <1>4
        DEF SInv, Types, UpdateTypes, OwnTypes, RuntimeTypes, SettingsTypes, updateVars,
            runtimeVars, settingsVars
    <2>4. AsMany /\ Kept' = Kept /\ (Preparing' <=> Preparing)
        BY <1>1, <1>4 DEF AsMany, Kept, Preparing, runtimeVars, settingsVars
    <2>6. Named' BY <1>4, <2>1, <2>4, NamedStays DEF SInv, runtimeVars
    <2>7. Counted' BY <1>1, <2>1, <2>3, <2>4, CalmBusy, CountStays DEF SInv
    <2>8. Queued' BY <1>1, <1>4, <2>1, OwnServed
    <2>. QED BY <2>3, <2>6, <2>7, <2>8 DEF SInv
<1>5. CASE Head(queue).n = gen /\ starter' = NoThread /\ pending' = 0 /\ StartupFails(0)
    <2>1. GivesUpAll /\ sessions' \in [Coordinators -> States] /\ AsMany
        BY <1>5, StartupFailsIs DEF SInv, Number
    <2>2. Types' BY <1>1, <1>2, <1>3, <1>5, <2>1
        DEF SInv, Types, OwnTypes, RuntimeTypes, SettingsTypes, settingsVars, GivesUpAll,
            Number
    <2>3. Named' BY <2>1, NamedStays DEF SInv, GivesUpAll
    <2>4. Kept' = Kept /\ ~Preparing' BY <1>1, <1>3, <1>5 DEF Kept, Preparing, settingsVars
    <2>5. Counted' BY <1>1, <2>1, <2>2, <2>4, CalmBusy, CountStays DEF SInv, GivesUpAll
    <2>6. Gentle BY <2>1 DEF GivesUpAll, Calm, Gentle
    <2>7. Queued' BY <1>1, <1>3, <1>5, <2>6, OwnServed
    <2>. QED BY <2>2, <2>3, <2>5, <2>7 DEF SInv
<1>. QED BY <1>4, <1>5 DEF FailedServed, Stale

LEMMA RetiredServedKeeps ==
    ASSUME SInv, RetiredServed
    PROVE  SInv'
<1>1. /\ queue # <<>> /\ loop = "running" /\ queue' = Tail(queue) /\ Head(queue).kind \in OwnKinds
      /\ UNCHANGED <<updateVars, loop, hello, context, settingsVars, asked>>
    BY DEF RetiredServed, Head1, Served, OwnKinds
<1>2. queue' \in Seq(Item) /\ (Head(queue).n = gen => Preparing) BY <1>1, OwnHead
<1>3. NoThread \in Starter /\ NoThread.does = "nothing" BY DEF NoThread, Starter
<1>4. Calm /\ Gentle BY <1>1, GentleStays DEF SInv, updateVars
<1>5. UNCHANGED <<runtime, page, sessions>>
    BY DEF RetiredServed, runtimeVars
<1>6. \/ UNCHANGED <<starter, gen, pending, manual, updates, phase>>
      \/ /\ Head(queue).n = gen /\ manual' = 0 /\ updates' = 0 /\ pending' = 0
         /\ \/ starter' = NoThread /\ UNCHANGED <<gen, phase>>
            \/ /\ gen' = gen + 1 /\ phase' = "preparing"
               /\ starter' = [does |-> "prepare", gen |-> gen + 1, waits |-> 0]
    BY DEF RetiredServed, Stale, FinishRetry, BeginsPreparation, runtimeVars
<1>7. gen \in Nat /\ gen' \in Nat BY <1>6 DEF SInv, Types, OwnTypes
<1>8. [does |-> "prepare", gen |-> gen + 1, waits |-> 0] \in Starter BY <1>7 DEF Starter
<1>9. Types' BY <1>1, <1>2, <1>3, <1>5, <1>6, <1>7, <1>8
    DEF SInv, Types, UpdateTypes, OwnTypes, RuntimeTypes, SettingsTypes, updateVars,
        settingsVars, Number
<1>10. AsMany /\ Kept' = Kept BY <1>1, <1>5 DEF AsMany, Kept, settingsVars
<1>11. Preparing' => Preparing BY <1>2, <1>6 DEF Preparing
<1>12. Named' BY <1>4, <1>5, <1>6, <1>10, NamedStays DEF SInv
<1>13. Counted' BY <1>1, <1>4, <1>9, <1>10, <1>11, CalmBusy, CountStays DEF SInv
<1>14. Queued' BY <1>1, <1>3, <1>4, <1>6, OwnServed
<1>. QED BY <1>9, <1>12, <1>13, <1>14 DEF SInv

LEMMA StuckServedKeeps ==
    ASSUME SInv, StuckServed
    PROVE  SInv'
<1>1. /\ queue # <<>> /\ loop = "running" /\ queue' = Tail(queue) /\ Head(queue).kind \in OwnKinds
      /\ UNCHANGED <<updateVars, loop, hello, context, gen, pending, runtime, manual, updates,
                     page, sessions, settingsVars, asked>>
    BY DEF StuckServed, Head1, Served, OwnKinds
<1>2. queue' \in Seq(Item) BY <1>1, OwnHead
<1>3. NoThread \in Starter /\ NoThread.does = "nothing" BY DEF NoThread, Starter
<1>4. Calm /\ Gentle BY <1>1, GentleStays DEF SInv, updateVars
<1>5. \/ UNCHANGED <<starter, phase>>
      \/ Head(queue).n = gen /\ starter' = NoThread /\ phase' = "failed"
    BY DEF StuckServed, Stale
<1>6. Types' BY <1>1, <1>2, <1>3, <1>5
    DEF SInv, Types, UpdateTypes, OwnTypes, RuntimeTypes, SettingsTypes, updateVars,
        settingsVars
<1>7. AsMany /\ Kept' = Kept BY <1>1 DEF AsMany, Kept, settingsVars
<1>8. Preparing' => Preparing BY <1>1, <1>3, <1>5 DEF Preparing
<1>9. Named' BY <1>1, <1>4, <1>7, NamedStays DEF SInv
<1>10. Counted' BY <1>1, <1>4, <1>6, <1>7, <1>8, CalmBusy, CountStays DEF SInv
<1>11. Queued' BY <1>1, <1>3, <1>4, <1>5, OwnServed
<1>. QED BY <1>6, <1>9, <1>10, <1>11 DEF SInv

-----------------------------------------------------------------------------
(* Requests *)

LEMMA HelloKeeps ==
    ASSUME SInv, Hello
    PROVE  SInv'
<1> USE DEF SInv
<1>1. /\ loop = "running" /\ queue = <<>> /\ ~hello /\ hello' = TRUE /\ pending' = 0
      /\ UNCHANGED <<updateVars, loop, queue, context, runtime, manual, updates, page,
                     sessions, settingsVars, asked>>
      /\ gen' = gen + 1 /\ phase' = "preparing"
      /\ starter' = [does |-> "prepare", gen |-> gen + 1, waits |-> 0]
    BY DEF Hello, Idle, BeginsPreparation
<1>2. gen \in Nat /\ starter' \in Starter BY <1>1 DEF Types, OwnTypes, Starter
<1>3. Types' BY <1>1, <1>2
    DEF Types, UpdateTypes, OwnTypes, RuntimeTypes, SettingsTypes, updateVars, settingsVars
<1>4. Calm /\ Gentle BY <1>1, GentleStays DEF updateVars
<1>5. AsMany /\ Kept' = Kept BY <1>1 DEF AsMany, Kept, settingsVars
<1>6. Named' BY <1>1, <1>4, <1>5, NamedStays
<1>7. Queued' BY <1>1, QueueEmpty DEF StartersOwn
<1>8. Counted'
    <2>1. Cardinality(Installing)' <= Cardinality(Installing) /\ Cardinality(Installing)' \in Nat
        <3>1. Installing' = Installing BY <1>1 DEF Installing, updateVars
        <3>. QED BY <3>1, InstallingFinite, Fewer
    <2>2. Cardinality(Installing) \in Nat /\ Cardinality(Kept) \in Nat BY CostIs
    <2>3. IsFiniteSet(Kept)' /\ Cardinality(Kept)' = Cardinality(Kept) BY <1>5 DEF Counted
    <2>4. Due(~hello) = 1 /\ Due(~hello)' = 0 /\ Due(Preparing) \in {0, 1} /\ Due(Preparing)' \in {0, 1}
        BY <1>1 DEF Due
    <2>5. asked \in Nat BY Numbers DEF Types
    <2>6. PICK i \in Nat, j \in Nat, k \in Nat, p \in {0, 1}, q \in {0, 1}, a \in Nat :
             /\ i = Cardinality(Installing) /\ j = Cardinality(Installing)'
             /\ k = Cardinality(Kept) /\ p = Due(Preparing) /\ q = Due(Preparing)' /\ a = asked
        BY <2>1, <2>2, <2>4, <2>5
    <2>7. Cost = i + k + p + 1 /\ Cost' = j + k + q + 0 BY <2>3, <2>4, <2>6 DEF Cost
    <2>8. j <= i BY <2>1, <2>6
    <2>9. 0 + (j + k + q + 0) <= (i + k + p + 1) + (a - a) BY <2>8
    <2>10. \A k0 \in Nat : Numbered(k0) => Numbered(k0 + 0)' BY <1>5 DEF Numbered, AsMany
    <2>11. 0 + Cost' <= Cost + (asked' - asked) BY <1>1, <2>6, <2>7, <2>9
    <2>. QED BY <1>3, <2>3, <2>10, <2>11, CountStep
<1>. QED BY <1>3, <1>6, <1>7, <1>8

LEMMA NativeContextKeeps ==
    ASSUME SInv, NativeContext
    PROVE  SInv'
<1>1. /\ loop = "running" /\ queue = <<>> /\ context' = TRUE /\ pending' = 0
      /\ UNCHANGED <<loop, queue, hello, gen, settingsVars, asked>>
    BY DEF NativeContext, Idle
<1>2. NoThread \in Starter /\ NoThread.does = "nothing" BY DEF NoThread, Starter
<1>3. queue' \in Seq(Item) /\ gen \in Nat BY <1>1 DEF SInv, Types, OwnTypes
<1>4. CASE pending # 0 /\ ~Stale(pending) /\ starter' = NoThread /\ RuntimeLoaded
    <2>1. Preparing BY <1>4 DEF Preparing, Stale
    <2>2. Types' /\ Named' /\ Counted' BY <1>1, <1>3, <1>4, <2>1, LoadedKeeps
    <2>3. Queued' BY <1>1, <1>2, <1>4, QueueEmpty DEF StartersOwn
    <2>. QED BY <2>2, <2>3 DEF SInv
<1>5. CASE UNCHANGED <<updateVars, starter, runtimeVars>>
    <2>1. Calm BY <1>5, GentleStays DEF SInv, updateVars
    <2>2. Types' BY <1>1, <1>3, <1>5
        DEF SInv, Types, UpdateTypes, OwnTypes, RuntimeTypes, SettingsTypes, updateVars,
            runtimeVars, settingsVars
    <2>3. AsMany /\ Kept' = Kept /\ (Preparing' => Preparing)
        BY <1>1, <1>5 DEF AsMany, Kept, Preparing, runtimeVars, settingsVars
    <2>4. Named' BY <1>5, <2>1, <2>3, NamedStays DEF SInv, runtimeVars
    <2>5. Counted' BY <1>1, <2>1, <2>2, <2>3, CalmBusy, CountStays DEF SInv
    <2>6. Queued' BY <1>1, <1>5, QueueEmpty DEF SInv, Queued, StartersOwn
    <2>. QED BY <2>2, <2>4, <2>5, <2>6 DEF SInv
<1>. QED BY <1>4, <1>5 DEF NativeContext

\* retry_runtime(): refused, or a start of its own.
Unretried == UNCHANGED <<updateVars, starter, gen, pending, runtimeVars>>
Retried ==
    /\ Calm /\ UpdateTypes' /\ Quiet /\ ~StarterAlive /\ ~RetryRefused
    /\ (updates # 0 /\ ShutDownUpdates(updates)) \/ (updates = 0 /\ UNCHANGED updateVars)
    /\ runtime' = FALSE /\ page' = page /\ phase' = "preparing"
    /\ starter' \in Starter /\ starter'.does \in {"prepare", "retire"} /\ starter'.gen = gen'
    /\ gen' \in Nat /\ gen' > gen
    /\ \/ /\ manual = 0 /\ updates' = 0 /\ pending' = 0 /\ UNCHANGED <<manual, sessions>>
       \/ /\ manual # 0 /\ sessions' = Closing(sessions, manual)
          /\ UNCHANGED <<manual, updates, pending>>

LEMMA RetryIs ==
    ASSUME Types, Named, RetryRuntime
    PROVE  Unretried \/ Retried
<1>1. CASE StarterAlive \/ RetryRefused BY <1>1 DEF RetryRuntime, Unretried
<1>2. CASE ~(StarterAlive \/ RetryRefused)
    <2>1. gen \in Nat /\ manual \in Number BY DEF Types, OwnTypes, RuntimeTypes
    <2>2. /\ Calm /\ UpdateTypes'
          /\ (updates # 0 /\ ShutDownUpdates(updates)) \/ (updates = 0 /\ UNCHANGED updateVars)
        BY <1>2, DismissedIfAny DEF RetryRuntime
    <2>3. CASE manual = 0
        <3>1. [does |-> "prepare", gen |-> gen + 2, waits |-> 0] \in Starter
            BY <2>1 DEF Starter
        <3>. QED BY <1>2, <2>1, <2>2, <2>3, <3>1 DEF RetryRuntime, Retried
    <2>4. CASE manual # 0
        <3>1. [does |-> "retire", gen |-> gen + 1, waits |-> manual] \in Starter
            BY <2>1 DEF Starter, Number
        <3>. QED BY <1>2, <2>1, <2>2, <2>4, <3>1 DEF RetryRuntime, Retried
    <2>. QED BY <2>3, <2>4
<1>. QED BY <1>1, <1>2

LEMMA RetryKeeps ==
    ASSUME SInv, Unretried \/ Retried, Idle, UNCHANGED <<loop, queue, hello, context>>,
           SettingsTypes', asked' \in 0..MaxRequests
    PROVE  Types' /\ Named' /\ Queued' /\ Calm /\ AsMany
<1> USE DEF SInv
<1>1. gen \in Nat /\ loop = "running" /\ queue = <<>> /\ queue' = <<>>
    BY DEF Types, OwnTypes, Idle
<1>2. CASE Unretried
    <2>1. Calm BY <1>2, GentleStays DEF Unretried, updateVars
    <2>2. Types' BY <1>2
        DEF Unretried, Types, UpdateTypes, OwnTypes, RuntimeTypes, updateVars, runtimeVars
    <2>3. AsMany BY <1>2 DEF Unretried, AsMany, runtimeVars
    <2>4. Named' BY <1>2, <2>1, <2>3, NamedStays DEF Unretried, runtimeVars
    <2>5. Queued' BY <1>1, <1>2, QueueEmpty DEF Unretried, Queued, StartersOwn
    <2>. QED BY <2>1, <2>2, <2>3, <2>4, <2>5
<1>3. CASE Retried
    <2>1. sessions' \in [Coordinators -> States] /\ AsMany
        BY <1>3, ClosingDoes DEF Retried, AsMany, Types, RuntimeTypes
    <2>2. pending' \in 0..gen' BY <1>1, <1>3 DEF Retried, Types, OwnTypes
    <2>3. Types' BY <1>3, <2>1, <2>2 DEF Retried, Types, OwnTypes, RuntimeTypes, Number
    <2>4. Named' BY <1>3, <2>1, NamedStays DEF Retried
    <2>5. Queued' BY <1>1, <1>3, QueueEmpty DEF Retried, StartersOwn
    <2>. QED BY <1>3, <2>1, <2>3, <2>4, <2>5 DEF Retried
<1>. QED BY <1>2, <1>3

LEMMA WithIs ==
    ASSUME Types, NEW changes \in Changes
    PROVE  With(changes) \in Configs
<1>1. config.ocr \in Backends /\ config.key \in Keys /\ config["ocr"] \in Backends
      /\ config["key"] \in Keys
    BY DEF Types, SettingsTypes, Configs
<1>2. "ocr" \in DOMAIN changes => changes["ocr"] \in Backends BY DEF Changes, Configs
<1>3. "key" \in DOMAIN changes => changes["key"] \in Keys BY DEF Changes, Configs
<1>4. PICK o \in Backends : o = IF "ocr" \in DOMAIN changes THEN changes["ocr"] ELSE config["ocr"]
    BY <1>1, <1>2
<1>5. PICK k \in Keys : k = IF "key" \in DOMAIN changes THEN changes["key"] ELSE config["key"]
    BY <1>1, <1>3
<1>6. With(changes) = [ocr |-> o, key |-> k] BY <1>4, <1>5 DEF With
<1>. QED BY <1>6 DEF Configs

\* Settings that are stored, and the retry a new recognizer asks for.
LEMMA StoredIs ==
    ASSUME Types, Named, NEW changes \in Changes, Stored(changes)
    PROVE  /\ config' \in Configs /\ config' = With(changes)
           /\ Unretried \/ (Retried /\ config'.ocr # config.ocr)
           /\ config'.ocr # config.ocr /\ ~StarterAlive /\ RetryRefused => Unretried
BY WithIs, RetryIs DEF Stored, Unretried, Retried, RetryRuntime

LEMMA AskedOnce ==
    ASSUME Types, Request
    PROVE  asked' = asked + 1 /\ asked' \in 0..MaxRequests /\ Idle /\ asked \in Nat
BY Numbers DEF Types, Request

LEMMA PaidKeeps ==
    ASSUME SInv, Unretried \/ Retried, Request, UNCHANGED <<loop, queue, hello, context>>,
           SettingsTypes', Kept' = Kept
    PROVE  SInv'
<1>1. asked' = asked + 1 /\ asked' \in 0..MaxRequests /\ Idle BY AskedOnce DEF SInv
<1>2. Types' /\ Named' /\ Queued' /\ Calm /\ AsMany BY <1>1, RetryKeeps
<1>3. Counted' BY <1>1, <1>2, CalmBusy, CountStays DEF SInv
<1>. QED BY <1>2, <1>3 DEF SInv

LEMMA RequestsKeep ==
    ASSUME SInv, Retry \/ \E changes \in Changes : UpdateSettings(changes)
    PROVE  SInv'
<1>1. CASE Retry
    <2>1. Unretried \/ Retried BY <1>1, RetryIs DEF Retry, SInv
    <2>2. SettingsTypes' /\ Kept' = Kept
        BY <1>1 DEF Retry, SInv, Types, SettingsTypes, settingsVars, Kept
    <2>. QED BY <1>1, <2>1, <2>2, PaidKeeps DEF Retry
<1>2. ASSUME NEW changes \in Changes, UpdateSettings(changes) PROVE SInv'
    <2>1. (Unretried \/ Retried) /\ config' \in Configs
        BY <1>2, StoredIs DEF UpdateSettings, SInv
    <2>2. SettingsTypes' /\ Kept' = Kept
        BY <1>2, <2>1 DEF UpdateSettings, SInv, Types, SettingsTypes, Kept
    <2>. QED BY <1>2, <2>1, <2>2, PaidKeeps DEF UpdateSettings
<1>. QED BY <1>1, <1>2

LEMMA PrepareKeeps ==
    ASSUME SInv, NEW t \in Tokens, NEW changes \in Changes, PrepareSettings(t, changes)
    PROVE  SInv'
<1> USE DEF SInv
<1>1. /\ Request
      /\ transaction' = [transaction EXCEPT ![t] = [changes |-> changes,
                                                    candidate |-> With(changes)]]
      /\ Unretried /\ UNCHANGED <<loop, queue, hello, context, config>>
    BY DEF PrepareSettings, Unretried
<1>2. SettingsTypes'
    BY <1>1, WithIs DEF Types, SettingsTypes, Prepared
<1>3. asked' = asked + 1 /\ asked' \in 0..MaxRequests /\ Idle /\ asked \in Nat
    BY <1>1, AskedOnce
<1>4. Types' /\ Named' /\ Queued' /\ Calm /\ AsMany BY <1>1, <1>2, <1>3, RetryKeeps
<1>5. Counted'
    <2>1. /\ IsFiniteSet(Kept)' /\ Cardinality(Kept)' <= Cardinality(Kept) + 1
          /\ Cardinality(Kept)' \in Nat
        <3>1. Kept' \subseteq Kept \cup {t} BY <1>1 DEF Kept, Types, SettingsTypes
        <3>. QED BY <3>1, OneMore DEF Counted
    <2>2. Cardinality(Installing)' = Cardinality(Installing) /\ Due(Preparing)' = Due(Preparing)
          /\ Due(~hello)' = Due(~hello)
        <3>1. Installing' = Installing BY <1>1 DEF Unretried, updateVars, Installing
        <3>2. (Preparing' <=> Preparing) /\ hello' = hello BY <1>1 DEF Unretried, Preparing
        <3>. QED BY <3>1, <3>2 DEF Due
    <2>3. /\ Cardinality(Installing) \in Nat /\ Cardinality(Kept) \in Nat
          /\ Due(Preparing) \in {0, 1} /\ Due(~hello) \in {0, 1}
        BY CostIs DEF Due
    <2>4. PICK i \in Nat, j \in Nat, k \in Nat, p \in {0, 1}, h \in {0, 1}, a \in Nat :
             /\ i = Cardinality(Installing) /\ j = Cardinality(Kept)'
             /\ k = Cardinality(Kept) /\ p = Due(Preparing) /\ h = Due(~hello) /\ a = asked
        BY <1>3, <2>1, <2>3
    <2>5. Cost = i + k + p + h /\ Cost' = i + j + p + h BY <2>2, <2>4 DEF Cost
    <2>6. j <= k + 1 BY <2>1, <2>4
    <2>7. 0 + (i + j + p + h) <= (i + k + p + h) + ((a + 1) - a) BY <2>6
    <2>8. 0 + Cost' <= Cost + (asked' - asked) BY <1>3, <2>4, <2>5, <2>7
    <2>9. \A k0 \in Nat : Numbered(k0) => Numbered(k0 + 0)' BY <1>4 DEF Numbered, AsMany
    <2>. QED BY <1>4, <2>1, <2>8, <2>9, CountStep
<1>. QED BY <1>4, <1>5

\* A transaction that ends has paid for the retry it asks for.
LEMMA EndedKeeps ==
    ASSUME SInv, NEW t \in Tokens, transaction[t] # NoChanges,
           Unretried \/ Retried, Idle, config' \in Configs,
           transaction' = transaction \/ transaction' = [transaction EXCEPT ![t] = NoChanges],
           Retried => transaction' # transaction \/ Unretried,
           UNCHANGED <<loop, queue, hello, context, asked>>
    PROVE  SInv'
<1> USE DEF SInv
<1>1. SettingsTypes' BY DEF Types, SettingsTypes
<1>2. Types' /\ Named' /\ Queued' /\ Calm /\ AsMany
    BY <1>1, RetryKeeps DEF Types
<1>3. Kept' \subseteq Kept BY DEF Kept, Types, SettingsTypes
<1>4. CASE Unretried
    <2>1. Preparing' <=> Preparing BY <1>4 DEF Unretried, Preparing
    <2>2. Counted' BY <1>2, <1>3, <2>1, CalmBusy, CountStays
    <2>. QED BY <1>2, <2>2
<1>5. CASE ~Unretried /\ transaction' = [transaction EXCEPT ![t] = NoChanges]
    <2>1. /\ IsFiniteSet(Kept)' /\ Cardinality(Kept)' <= Cardinality(Kept) - 1
          /\ Cardinality(Kept)' \in Nat
        <3>1. t \in Kept /\ Kept' \subseteq Kept \ {t}
            BY <1>5 DEF Kept, Types, SettingsTypes
        <3>. QED BY <3>1, OneLess DEF Counted
    <2>2. Cardinality(Installing)' <= Cardinality(Installing) /\ Cardinality(Installing)' \in Nat
        <3>1. Installing' \subseteq Installing BY <1>2, CalmBusy DEF Installing
        <3>. QED BY <3>1, InstallingFinite, Fewer
    <2>3. /\ Cardinality(Installing) \in Nat /\ Cardinality(Kept) \in Nat
          /\ Due(Preparing) \in {0, 1} /\ Due(Preparing)' \in {0, 1}
          /\ Due(~hello) \in {0, 1} /\ Due(~hello)' = Due(~hello)
        BY CostIs DEF Due
    <2>4. PICK i \in Nat, l \in Nat, j \in Nat, k \in Nat, p \in {0, 1}, q \in {0, 1},
               h \in {0, 1} :
             /\ i = Cardinality(Installing) /\ l = Cardinality(Installing)'
             /\ j = Cardinality(Kept)' /\ k = Cardinality(Kept)
             /\ p = Due(Preparing) /\ q = Due(Preparing)' /\ h = Due(~hello)
        BY <2>1, <2>2, <2>3
    <2>5. Cost = i + k + p + h /\ Cost' = l + j + q + h BY <2>3, <2>4 DEF Cost
    <2>6. j <= k - 1 /\ l <= i BY <2>1, <2>2, <2>4
    <2>7. PICK a \in Nat : a = asked BY Numbers DEF Types
    <2>8. 0 + (l + j + q + h) <= (i + k + p + h) + (a - a) BY <2>6
    <2>9. 0 + Cost' <= Cost + (asked' - asked) BY <2>5, <2>7, <2>8
    <2>10. \A k0 \in Nat : Numbered(k0) => Numbered(k0 + 0)' BY <1>2 DEF Numbered, AsMany
    <2>11. Counted' BY <1>2, <2>1, <2>9, <2>10, CountStep
    <2>. QED BY <1>2, <2>11
<1>. QED BY <1>4, <1>5

LEMMA CommitIs ==
    ASSUME Types, Named, NEW t \in Tokens, CommitSettings(t)
    PROVE  /\ transaction[t] # NoChanges /\ transaction[t] \in Prepared /\ Idle
           /\ Unretried \/ Retried
           /\ config' \in Configs
           /\ transaction' = transaction \/ transaction' = [transaction EXCEPT ![t] = NoChanges]
           /\ Retried => transaction' = [transaction EXCEPT ![t] = NoChanges] \/ Unretried
           /\ UNCHANGED <<loop, queue, hello, context, asked>>
<1>1. /\ transaction[t] # NoChanges /\ transaction[t] \in Prepared /\ Idle
      /\ UNCHANGED <<loop, queue, hello, context, asked>>
    BY DEF CommitSettings, Types, SettingsTypes
<1>2. CASE Conflicts(t)
    BY <1>1, <1>2 DEF CommitSettings, Unretried, Types, SettingsTypes
<1>3. CASE ~Conflicts(t)
    <2>1. transaction[t].changes \in Changes BY <1>1 DEF Prepared
    <2>2. Stored(transaction[t].changes) BY <1>3 DEF CommitSettings
    <2>3. /\ config' \in Configs /\ (Unretried \/ Retried)
          /\ config'.ocr # config.ocr /\ ~StarterAlive /\ RetryRefused => Unretried
        BY <2>1, <2>2, StoredIs
    <2>4. \/ transaction' = [transaction EXCEPT ![t] = NoChanges]
          \/ /\ transaction' = transaction
             /\ config'.ocr # config.ocr /\ ~StarterAlive /\ RetryRefused
        BY <1>3 DEF CommitSettings
    <2>. QED BY <1>1, <2>3, <2>4
<1>. QED BY <1>2, <1>3

LEMMA SettingsKeep ==
    ASSUME SInv, NEW t \in Tokens, CommitSettings(t) \/ AbortSettings(t)
    PROVE  SInv'
<1>1. CASE CommitSettings(t)
    <2>1. /\ transaction[t] # NoChanges /\ Idle /\ (Unretried \/ Retried) /\ config' \in Configs
          /\ transaction' = transaction \/ transaction' = [transaction EXCEPT ![t] = NoChanges]
          /\ Retried => transaction' = [transaction EXCEPT ![t] = NoChanges] \/ Unretried
          /\ UNCHANGED <<loop, queue, hello, context, asked>>
        BY <1>1, CommitIs DEF SInv
    <2>2. transaction' = [transaction EXCEPT ![t] = NoChanges] => transaction' # transaction
        BY <2>1 DEF SInv, Types, SettingsTypes
    <2>. QED BY <2>1, <2>2, EndedKeeps
<1>2. CASE AbortSettings(t)
    <2>1. /\ transaction[t] # NoChanges /\ Idle /\ Unretried /\ config' = config
          /\ transaction' = [transaction EXCEPT ![t] = NoChanges]
          /\ UNCHANGED <<loop, queue, hello, context, asked>>
        BY <1>2 DEF AbortSettings, Unretried, ownVars
    <2>2. config' \in Configs BY <2>1 DEF SInv, Types, SettingsTypes
    <2>. QED BY <2>1, <2>2, EndedKeeps
<1>. QED BY <1>1, <1>2

-----------------------------------------------------------------------------
(* What the Control Center asks, and the end of the service *)

\* What is asked of a coordinator is one record's affair.
Asks(d) ==
    \/ d = Checked(coord[page]) \/ d = ResourceAsked(coord[page])
    \/ \E confirm \in BOOLEAN : d = ApplicationAsked(coord[page], confirm)
Asked(d) ==
    /\ page \in Coordinators /\ d \in Coordinator
    /\ coord' = [coord EXCEPT ![page] = d]
    /\ other' = other /\ lockFile' \in {lockFile, NoOne}
    /\ \/ Asks(d) /\ lockFile' = lockFile
       \/ d = coord[page] /\ lockFile' = lockFile
       \/ /\ d = Declined(coord[page]) /\ lockFile' = LockAfter(coord[page])
          /\ coord[page].waiting /\ ~coord[page].cancellable

LEMMA AskedIs ==
    ASSUME Types, UpdateRequested
    PROVE  \E d : Asked(d)
<1>1. page \in Coordinators BY DEF UpdateRequested, Types, RuntimeTypes, Number
<1>2. PICK c \in Coordinator : c = coord[page] BY <1>1 DEF Types, UpdateTypes
<1>3. ASSUME NEW d, coord' = [coord EXCEPT ![page] = d], UNCHANGED <<lockFile, other>>,
             Asks(d)
      PROVE  \E e : Asked(e)
    <2>1. d \in Coordinator
        BY <1>2, <1>3, CheckedDoes, ResourceAskedDoes, ApplicationAskedDoes DEF Asks
    <2>2. Asked(d) BY <1>1, <1>3, <2>1 DEF Asked
    <2>. QED BY <2>2
<1>4. CASE UNCHANGED <<lockFile, other>> /\ coord' = [coord EXCEPT ![page] = Checked(@)]
    BY <1>3, <1>4 DEF Asks
<1>5. CASE UNCHANGED <<lockFile, other>> /\ coord' = [coord EXCEPT ![page] = ResourceAsked(@)]
    BY <1>3, <1>5 DEF Asks
<1>6. ASSUME NEW confirm \in BOOLEAN, UNCHANGED <<lockFile, other>>,
             coord' = [coord EXCEPT ![page] = ApplicationAsked(@, confirm)]
      PROVE  \E e : Asked(e)
    BY <1>3, <1>6 DEF Asks
<1>7. CASE CancelUpdate(page)
    <2>1. CASE c.cancellable \/ ~c.waiting
        <3>1. coord' = [coord EXCEPT ![page] = c]
            BY <1>1, <1>2, <1>7, <2>1 DEF CancelUpdate, updateVars, Types, UpdateTypes
        <3>2. Asked(c) BY <1>1, <1>2, <1>7, <2>1, <3>1 DEF CancelUpdate, updateVars, Asked
        <3>. QED BY <3>2
    <2>2. CASE ~(c.cancellable \/ ~c.waiting)
        <3>1. PICK d \in Coordinator : d = Declined(c) BY DeclinedDoes
        <3>2. coord' = [coord EXCEPT ![page] = d] /\ other' = other /\ lockFile' = LockAfter(c)
            BY <1>2, <1>7, <2>2, <3>1 DEF CancelUpdate
        <3>3. Asked(d) BY <1>1, <1>2, <2>2, <3>1, <3>2 DEF Asked, LockAfter
        <3>. QED BY <3>3
    <2>. QED BY <2>1, <2>2
<1>. QED BY <1>4, <1>5, <1>6, <1>7 DEF UpdateRequested

LEMMA AskedKeeps ==
    ASSUME SInv, UpdateRequested
    PROVE  SInv'
<1> USE DEF SInv
<1>1. PICK d : Asked(d) BY AskedIs
<1>2. /\ Request /\ UNCHANGED <<ownVars, runtimeVars, settingsVars>> /\ page # 0
    BY DEF UpdateRequested
<1>3. asked' = asked + 1 /\ asked' \in 0..MaxRequests /\ Idle /\ asked \in Nat
    BY <1>2, AskedOnce
<1>4. coord \in [Coordinators -> Coordinator] BY DEF Types, UpdateTypes
<1>5. /\ coord' \in [Coordinators -> Coordinator]
      /\ \A v \in Coordinators : v # page => coord'[v] = coord[v]
    BY <1>1, <1>4 DEF Asked
<1>6. Types' BY <1>1, <1>2, <1>3, <1>5
    DEF Asked, Types, UpdateTypes, OwnTypes, RuntimeTypes, SettingsTypes, ownVars,
        runtimeVars,
        settingsVars
<1>7. Named' BY <1>1, <1>2, <1>5 DEF Named, runtimeVars
<1>8. Queued' BY <1>2, <1>3, QueueEmpty DEF Queued, StartersOwn, ownVars, Idle
<1>9. Counted'
    <2>1. Cardinality(Installing)' <= Cardinality(Installing) + 1 /\ Cardinality(Installing)' \in Nat
        <3>1. Installing' \subseteq Installing \cup {page} BY <1>5 DEF Installing
        <3>. QED BY <3>1, InstallingFinite, OneMore
    <2>2. IsFiniteSet(Kept)' /\ Cardinality(Kept)' = Cardinality(Kept)
        BY <1>2 DEF Counted, Kept, settingsVars
    <2>3. Due(Preparing)' = Due(Preparing) /\ Due(~hello)' = Due(~hello)
        <3>1. (Preparing' <=> Preparing) /\ hello' = hello BY <1>2 DEF Preparing, ownVars
        <3>. QED BY <3>1 DEF Due
    <2>4. /\ Cardinality(Installing) \in Nat /\ Cardinality(Kept) \in Nat
          /\ Due(Preparing) \in {0, 1} /\ Due(~hello) \in {0, 1}
        BY CostIs DEF Due
    <2>5. PICK i \in Nat, l \in Nat, k \in Nat, p \in {0, 1}, h \in {0, 1}, a \in Nat :
             /\ i = Cardinality(Installing) /\ l = Cardinality(Installing)'
             /\ k = Cardinality(Kept) /\ p = Due(Preparing) /\ h = Due(~hello) /\ a = asked
        BY <1>3, <2>1, <2>4
    <2>6. Cost = i + k + p + h /\ Cost' = l + k + p + h BY <2>2, <2>3, <2>5 DEF Cost
    <2>7. l <= i + 1 BY <2>1, <2>5
    <2>8. 0 + (l + k + p + h) <= (i + k + p + h) + ((a + 1) - a) BY <2>7
    <2>9. 0 + Cost' <= Cost + (asked' - asked) BY <1>3, <2>5, <2>6, <2>8
    <2>10. \A k0 \in Nat : Numbered(k0) => Numbered(k0 + 0)'
        BY <1>2 DEF Numbered, runtimeVars
    <2>. QED BY <1>6, <2>2, <2>9, <2>10, CountStep
<1>. QED BY <1>6, <1>7, <1>8, <1>9

LEMMA ShutDownKeeps ==
    ASSUME SInv, ShutDown
    PROVE  SInv'
<1> USE DEF SInv
<1>1. /\ loop' = "closed" /\ queue' = <<>> /\ gen' = gen + 1 /\ pending' = 0
      /\ sessions' = Closing(sessions, manual)
      /\ UNCHANGED <<hello, context, starter, runtime, manual, updates, page, phase,
                     settingsVars, asked>>
    BY DEF ShutDown
<1>2. Calm /\ UpdateTypes' BY DismissedIfAny DEF ShutDown
<1>3. sessions' \in [Coordinators -> States] /\ AsMany BY <1>1, ClosingDoes DEF AsMany
<1>4. gen' \in Nat /\ <<>> \in Seq(Item) BY <1>1 DEF Types, OwnTypes
<1>5. Types' BY <1>1, <1>2, <1>3, <1>4
    DEF Types, OwnTypes, RuntimeTypes, SettingsTypes, settingsVars
<1>6. Named' BY <1>1, <1>2, <1>3, NamedStays
<1>7. Queued' BY <1>1, QueueEmpty DEF StartersOwn
<1>8. Kept' = Kept /\ (Preparing' => Preparing) BY <1>1 DEF Kept, Preparing, settingsVars
<1>9. Counted' BY <1>1, <1>2, <1>3, <1>5, <1>8, CalmBusy, CountStays
<1>. QED BY <1>5, <1>6, <1>7, <1>9

LEMMA StutterKeeps ==
    ASSUME SInv, UNCHANGED serviceVars
    PROVE  SInv'
<1> USE DEF SInv, serviceVars, updateVars, ownVars, runtimeVars, settingsVars
<1>1. Types' BY DEF Types, UpdateTypes, OwnTypes, RuntimeTypes, SettingsTypes
<1>2. Named' BY DEF Named
<1>3. Calm BY Untouched DEF Types
<1>4. Queued' BY <1>3, QueueStays
<1>5. AsMany /\ Kept' = Kept /\ (Preparing' <=> Preparing) BY DEF AsMany, Kept, Preparing
<1>6. Counted' BY <1>1, <1>3, <1>5, CalmBusy, CountStays
<1>. QED BY <1>1, <1>2, <1>4, <1>6

LEMMA InitiallyS == Init => SInv
<1> SUFFICES ASSUME Init PROVE SInv OBVIOUS
<1> USE DEF Init, UpdatesInit
<1>1. UpdateTypes BY FreshDoes DEF UpdateTypes
<1>2. OwnTypes
    <2>1. NoThread \in Starter /\ <<>> \in Seq(Item) BY DEF Starter, NoThread
    <2>2. queue \in Seq(Item) /\ starter \in Starter BY <2>1
    <2>3. gen \in Nat /\ pending \in 0..gen OBVIOUS
    <2>. QED BY <2>2, <2>3 DEF OwnTypes
<1>3. RuntimeTypes BY DEF RuntimeTypes, Number, States
<1>7. SettingsTypes /\ asked \in 0..MaxRequests BY Numbers DEF SettingsTypes
<1>4. Named BY DEF Named
<1>5. Queued BY DEF Queued, NoThread
<1>6. Counted
    <2>1. Installing = {} BY FreshDoes DEF Installing, Busy
    <2>2. Kept = {} BY DEF Kept
    <2>3. IsFiniteSet(Kept) /\ Cardinality(Kept) = 0 /\ Cardinality(Installing) = 0
        BY <2>1, <2>2, FS_EmptySet
    <2>4. ~Preparing BY DEF Preparing, NoThread
    <2>5. Cost = 1 BY <2>3, <2>4 DEF Cost, Due
    <2>6. Numbered(0) BY Numbers DEF Numbered
    <2>. QED BY <2>3, <2>5, <2>6, Numbers DEF Counted
<1>. QED BY <1>1, <1>2, <1>3, <1>4, <1>5, <1>6, <1>7 DEF SInv, Types

LEMMA KeepsS == SInv /\ [Next]_serviceVars => SInv'
<1> SUFFICES ASSUME SInv, [Next]_serviceVars PROVE SInv' OBVIOUS
<1>1. CASE Hello BY <1>1, HelloKeeps
<1>2. CASE NativeContext BY <1>2, NativeContextKeeps
<1>3. CASE UserStep
    <2>1. CASE Retry BY <2>1, RequestsKeep
    <2>2. CASE UpdateRequested BY <2>2, AskedKeeps
    <2>3. CASE ShutDown BY <2>3, ShutDownKeeps
    <2>4. CASE \E changes \in Changes : UpdateSettings(changes) BY <2>4, RequestsKeep
    <2>5. ASSUME NEW t \in Tokens,
                 CommitSettings(t) \/ AbortSettings(t)
                 \/ \E changes \in Changes : PrepareSettings(t, changes)
          PROVE  SInv'
        BY <2>5, SettingsKeep, PrepareKeeps
    <2>. QED BY <1>3, <2>1, <2>2, <2>3, <2>4, <2>5 DEF UserStep
<1>4. CASE OwnerStep
    BY <1>4, LoadedServedKeeps, FailedServedKeeps, RetiredServedKeeps, StuckServedKeeps,
       AskKeeps, PartKeeps, ReplaceKeeps DEF OwnerStep
<1>5. CASE PreparationEnds \/ RetryWaited BY <1>5, StarterPosts, PostKeeps
<1>6. ASSUME NEW m \in Coordinators, SessionCloses(m) \/ ResourceStep(m) PROVE SInv'
    BY <1>6, ClosureKeeps, ResourceKeeps
<1>7. CASE UpdatesStep /\ UNCHANGED <<ownVars, runtimeVars, settingsVars, asked>>
    BY <1>7, UpdatesKeep
<1>8. CASE UNCHANGED serviceVars BY <1>8, StutterKeeps
<1>. QED BY <1>1, <1>2, <1>3, <1>4, <1>5, <1>6, <1>7, <1>8 DEF Next

-----------------------------------------------------------------------------
(* One runtime, and one process at work on an update *)

\* No record takes up work it did not have.
Humble(c, d) ==
    /\ c.shut => d.shut
    /\ d.op = "application" => c.op = "application"
    /\ d.op = "resource" =>
          /\ c.op = "resource"
          /\ d.at = "done" \/ (d.at = c.at /\ d.leg = c.leg /\ d.seen = c.seen)
AllHumble == \A v \in Coordinators : Humble(coord[v], coord'[v])
NoneOpens ==
    \A m \in Coordinators :
        /\ sessions'[m] = "open" => sessions[m] = "open"
        /\ sessions[m] = "none" => sessions'[m] = "none"

LEMMA LinksStay ==
    ASSUME IInv, AllHumble, NoneOpens, hello => hello', UNCHANGED <<manual, page>>,
           updates' = updates, Preparing' => Preparing
    PROVE  Linked' /\ Handover' /\ OneRuntime'
<1> USE DEF IInv
<1>1. page # 0 => page \in Coordinators BY DEF SInv, Types, RuntimeTypes, Number
<1>2. ASSUME NEW v \in Coordinators
      PROVE  /\ coord'[v].op = "application" => coord[v].op = "application"
             /\ coord'[v].op = "resource" => coord[v].op = "resource"
             /\ Busy(coord'[v]) => Busy(coord[v])
             /\ coord[v].shut => coord'[v].shut
    BY DEF AllHumble, Humble, Busy
<1>3. Linked' BY <1>1, <1>2 DEF Linked, NoneOpens
<1>4. Handover'
    <2>1. ASSUME NEW v \in Coordinators PROVE Carries(coord[v])'
        <3>1. Carries(coord[v]) /\ Humble(coord[v], coord'[v]) BY DEF Handover, AllHumble
        <3>. QED BY <3>1 DEF Carries, Humble, NoneOpens
    <2>. QED BY <2>1 DEF Handover
<1>5. OneRuntime' BY DEF OneRuntime, NoneOpens
<1>. QED BY <1>3, <1>4, <1>5

\* Only the coordinator the Control Center asks has a claim.
LEMMA OneClaims ==
    ASSUME Linked
    PROVE  \A u \in Coordinators : Claims(u) => u = page
BY DEF Linked, Claims

\* A record of a running service that was shut down waits for nothing.
AtRest(c) == ~c.waiting /\ c.op # "application"
LEMMA LocksAre ==
    ASSUME other' <=> lockFile' = Other,
           \A v \in Coordinators : Sane(coord'[v]),
           \A v \in Coordinators : loop' = "running" /\ coord'[v].shut => AtRest(coord'[v]),
           \A v \in Coordinators : Claims(v)' => lockFile' = v
    PROVE  Locks'
BY DEF Locks, AtRest, Sane, Claims

LEMMA LocksStay ==
    ASSUME Locks, page' = page, UNCHANGED <<updateVars, loop>>
    PROVE  Locks'
BY DEF Locks, updateVars, Sane, Claims

LEMMA UpdatesHold ==
    ASSUME IInv, UpdatesStep, UNCHANGED <<ownVars, runtimeVars, settingsVars, asked>>
    PROVE  Linked' /\ Handover' /\ OneRuntime' /\ Locks'
<1> USE DEF IInv
<1>1. /\ NoneOpens /\ hello' = hello /\ (Preparing' <=> Preparing) /\ loop' = loop
      /\ UNCHANGED <<manual, page>> /\ updates' = updates
    BY DEF NoneOpens, Preparing, ownVars, runtimeVars
<1>2. CASE OtherClaims \/ OtherReleases
    <2>1. coord' = coord BY <1>2 DEF OtherClaims, OtherReleases
    <2>2. AllHumble BY <2>1 DEF AllHumble, Humble
    <2>3. lockFile \in {NoOne, Other} /\ (other' <=> lockFile' = Other)
        BY <1>2, Numbers, CoordinatorAssumption DEF OtherClaims, OtherReleases, Locks
    <2>4. \A v \in Coordinators : ~Claims(v) BY <2>3, Numbers DEF Locks
    <2>5. Locks' BY <1>1, <2>1, <2>3, <2>4 DEF Locks, Sane, Claims
    <2>. QED BY <1>1, <2>2, <2>5, LinksStay
<1>3. ASSUME NEW u \in Coordinators, WorkerStep(u) \/ Reports(u), UNCHANGED other
      PROVE  Linked' /\ Handover' /\ OneRuntime' /\ Locks'
    <2>1. PICK d : Turn(u, d) BY <1>3, WorkerTurns DEF SInv, Types
    <2>2. PICK c \in Coordinator : c = coord[u] BY DEF SInv, Types, UpdateTypes
    <2>3. coord'[u] = d /\ \A v \in Coordinators : v # u => coord'[v] = coord[v]
        BY <2>1 DEF Turn, SInv, Types, UpdateTypes
    <2>4. Sane(c) BY <2>2 DEF Locks
    <2>5. /\ d \in Coordinator /\ c.op # "none" /\ d.op \in {c.op, "none"} /\ d.shut = c.shut
          /\ c.op = "resource" =>
                \/ d.op = "none" /\ c.at = "done"
                \/ d.op = c.op /\ d.at = c.at /\ d.leg = c.leg /\ d.seen = c.seen
          /\ Sane(d) /\ Holds(u, d) /\ (d.waiting => c.waiting \/ c.op = "application")
        BY <2>1, <2>2, <2>4 DEF Turn, Turns
    <2>6. AllHumble
        <3>1. Humble(c, d) BY <2>5 DEF Humble
        <3>. QED BY <2>2, <2>3, <3>1 DEF AllHumble, Humble
    <2>7. Locks'
        <3>1. \A v \in Coordinators : Sane(coord'[v]) BY <2>3, <2>5 DEF Locks
        <3>2. ASSUME NEW v \in Coordinators, loop' = "running", coord'[v].shut
              PROVE  AtRest(coord'[v])
            BY <1>1, <2>2, <2>3, <2>5, <3>2 DEF Locks, AtRest
        <3>3. CASE lockFile' = lockFile /\ (d.held => c.held)
            <4>1. ASSUME NEW v \in Coordinators, Claims(v)' PROVE Claims(v)
                BY <1>1, <2>2, <2>3, <2>5, <3>3, <4>1 DEF Claims
            <4>2. \A v \in Coordinators : Claims(v)' => lockFile' = v
                BY <3>3, <4>1 DEF Locks
            <4>3. other' <=> lockFile' = Other BY <1>3, <3>3 DEF Locks
            <4>. QED BY <3>1, <3>2, <4>2, <4>3, LocksAre
        <3>4. CASE c.op = "application" /\ c.held /\ ~d.held /\ lockFile' = NoOne
            <4>1. Claims(u) /\ lockFile = u /\ u = page
                BY <2>2, <3>4, OneClaims DEF Claims, Locks
            <4>2. ASSUME NEW v \in Coordinators, Claims(v)' PROVE FALSE
                <5>1. v # u BY <2>3, <3>4, <4>2 DEF Claims
                <5>2. Claims(v) BY <1>1, <2>3, <4>2, <5>1 DEF Claims
                <5>. QED BY <4>1, <5>1, <5>2, OneClaims
            <4>3. other' <=> lockFile' = Other
                BY <1>3, <3>4, <4>1, Numbers, CoordinatorAssumption DEF Locks
            <4>. QED BY <3>1, <3>2, <4>2, <4>3, LocksAre
        <3>5. CASE c.op = "application" /\ lockFile # Other /\ lockFile' = u /\ d.held
            <4>1. u = page BY <2>2, <3>5 DEF Linked
            <4>2. ASSUME NEW v \in Coordinators, Claims(v)', v # u PROVE FALSE
                <5>1. Claims(v) BY <1>1, <2>3, <4>2 DEF Claims
                <5>. QED BY <4>1, <4>2, <5>1, OneClaims
            <4>3. other' <=> lockFile' = Other BY <1>3, <3>5, Numbers DEF Locks
            <4>. QED BY <3>1, <3>2, <3>5, <4>2, <4>3, LocksAre
        <3>. QED BY <2>2, <2>5, <3>3, <3>4, <3>5 DEF Holds
    <2>. QED BY <1>1, <2>6, <2>7, LinksStay
<1>. QED BY <1>2, <1>3 DEF UpdatesStep

\* Steps that leave the coordinators alone and start nothing.
LEMMA QuietHolds ==
    ASSUME IInv, updateVars' = updateVars, loop' = loop, NoneOpens, hello => hello',
           UNCHANGED <<manual, page>>, updates' = updates, Preparing' => Preparing
    PROVE  Linked' /\ Handover' /\ OneRuntime' /\ Locks'
<1>1. AllHumble BY DEF AllHumble, Humble, updateVars
<1>2. Locks' BY LocksStay DEF IInv
<1>. QED BY <1>1, <1>2, LinksStay

LEMMA ClosureHolds ==
    ASSUME IInv, NEW m \in Coordinators, SessionCloses(m)
    PROVE  Linked' /\ Handover' /\ OneRuntime' /\ Locks'
<1>1. NoneOpens BY DEF SessionCloses, NoneOpens, IInv, SInv, Types, RuntimeTypes
<1>. QED BY <1>1, QuietHolds DEF SessionCloses, Preparing, ownVars

LEMMA PostHolds ==
    ASSUME IInv, Posts
    PROVE  Linked' /\ Handover' /\ OneRuntime' /\ Locks'
BY QuietHolds DEF Posts, NoneOpens, Preparing, runtimeVars

LEMMA StutterHolds ==
    ASSUME IInv, UNCHANGED serviceVars
    PROVE  Linked' /\ Handover' /\ OneRuntime' /\ Locks'
BY QuietHolds DEF serviceVars, NoneOpens, Preparing, ownVars, runtimeVars

\* The worker of an installation goes on, or the owner answers it: what it
\* carries is the only thing to be seen to.
LEMMA InstallationHolds ==
    ASSUME IInv, NEW u \in Coordinators, NEW d \in Coordinator,
           coord' = [coord EXCEPT ![u] = d], Busy(coord[u]), d.op = "resource",
           d.at = "done" => d.result \in {"installed", "failed"},
           d.shut = coord[u].shut, d.held = coord[u].held, d.waiting = coord[u].waiting,
           d.ours = coord[u].ours, d.prepared = coord[u].prepared,
           d.handedOff = coord[u].handedOff,
           NoneOpens, Carries(coord[u])',
           UNCHANGED <<lockFile, other, loop, hello, manual, page>>, updates' = updates,
           Preparing' <=> Preparing
    PROVE  Linked' /\ Handover' /\ OneRuntime' /\ Locks'
<1> USE DEF IInv
<1>1. PICK c \in Coordinator : c = coord[u] BY DEF SInv, Types, UpdateTypes
<1>2. coord'[u] = d /\ \A v \in Coordinators : v # u => coord'[v] = coord[v]
    BY DEF SInv, Types, UpdateTypes
<1>3. c.op = "resource" /\ u = page BY <1>1 DEF Busy, Linked
<1>4. ~Preparing BY <1>1, <1>3 DEF Linked
<1>5. Linked'
    <2>1. \A v \in Coordinators :
             coord'[v].op = "application" \/ Busy(coord'[v])
                 => coord[v].op = "application" \/ Busy(coord[v])
        BY <1>2, <1>3
    <2>2. page # 0 => (coord[page].shut => coord'[page].shut)
        BY <1>2, <1>3
    <2>. QED BY <1>2, <1>4, <2>1, <2>2 DEF Linked, NoneOpens
<1>6. Handover'
    <2>1. ASSUME NEW v \in Coordinators, v # u PROVE Carries(coord[v])'
        <3>1. Carries(coord[v]) /\ coord'[v] = coord[v] BY <1>2, <2>1 DEF Handover
        <3>. QED BY <3>1 DEF Carries, NoneOpens
    <2>. QED BY <2>1 DEF Handover, Carries
<1>7. OneRuntime' BY DEF OneRuntime, NoneOpens
<1>8. Locks'
    <2>1. Sane(c) BY <1>1 DEF Locks
    <2>2. Sane(d) BY <1>1, <1>3, <2>1 DEF Sane
    <2>3. \A v \in Coordinators : Sane(coord'[v]) BY <1>2, <2>2 DEF Locks
    <2>4. ASSUME NEW v \in Coordinators, loop' = "running", coord'[v].shut
          PROVE  AtRest(coord'[v])
        BY <1>1, <1>2, <2>4 DEF Locks, AtRest
    <2>5. ASSUME NEW v \in Coordinators, Claims(v)' PROVE lockFile' = v
        <3>1. Claims(v) BY <1>1, <1>2, <2>5 DEF Claims
        <3>. QED BY <3>1 DEF Locks
    <2>6. other' <=> lockFile' = Other BY DEF Locks
    <2>. QED BY <2>3, <2>4, <2>5, <2>6, LocksAre
<1>. QED BY <1>5, <1>6, <1>7, <1>8

LEMMA ResourceHolds ==
    ASSUME IInv, NEW u \in Coordinators, ResourceStep(u)
    PROVE  Linked' /\ Handover' /\ OneRuntime' /\ Locks'
<1>1. WorkerOnly BY ResourceTurns DEF IInv, SInv, Types
<1>2. PICK d : ResourceTurn(u, d) BY ResourceTurns DEF IInv, SInv, Types
<1>3. Proceeds(u, d) /\ Brings(coord[u], d) BY <1>2 DEF ResourceTurn
<1>4. coord'[u] = d BY <1>3 DEF Proceeds, IInv, SInv, Types, UpdateTypes
<1>5. /\ NoneOpens /\ (Preparing' <=> Preparing) /\ manual' = manual /\ sessions' = sessions
      /\ page' = page /\ updates' = updates
    BY <1>1 DEF WorkerOnly, NoneOpens, Preparing, runtimeVars
<1>6. Carries(coord[u])'
    <2>1. PICK c \in Coordinator : c = coord[u] BY DEF IInv, SInv, Types, UpdateTypes
    <2>2. Carries(c) /\ c.op = "resource" BY <1>3, <2>1 DEF IInv, Handover, Proceeds, Busy
    <2>3. /\ d.leg = c.leg \/ (d.at = "fetched" /\ d.leg = "after")
          /\ d.at = "fetched" => d.leg = "after"
          /\ d.at = "loading" => c.leg = "after" /\ d.leg = "after"
          /\ d.at = "replacing" => c.at = "loading"
          /\ d.at = "loading" => (c.at = "asked" /\ c.seen = 0) \/ c.at = "parted"
          /\ d.at = "parting" => c.at = "asked"
          /\ d.at \notin {"asked", "parted", "queued"}
          /\ d.seen = c.seen
        BY <1>3, <2>1 DEF Brings, Proceeds
    <2>4. manual = 0 => \A m \in Coordinators : sessions[m] # "open"
        BY Numbers DEF IInv, OneRuntime
    <2>5. d.at \in {"fetched", "loading", "replacing"} => d.leg = "after"
        BY <2>2, <2>3 DEF Carries
    <2>6. d.at \in {"asked", "parting"} /\ d.leg = "after" => d.seen = manual
        BY <2>2, <2>3 DEF Carries
    <2>7. d.at \in {"parted", "loading", "replacing"} /\ d.leg = "after"
             => \A m \in Coordinators : sessions[m] # "open"
        BY <2>2, <2>3, <2>4 DEF Carries
    <2>. QED BY <1>4, <1>5, <2>3, <2>5, <2>6, <2>7 DEF Carries
<1>. QED BY <1>1, <1>3, <1>4, <1>5, <1>6, InstallationHolds
    DEF WorkerOnly, Proceeds, Brings, runtimeVars

LEMMA AskHolds ==
    ASSUME IInv, AskServed
    PROVE  Linked' /\ Handover' /\ OneRuntime' /\ Locks'
<1>0. PICK u \in Coordinators : \E d :
         /\ Answered(u, d) /\ d.at = "asked" /\ d.seen = manual /\ d.leg = coord[u].leg
         /\ UNCHANGED sessions
    BY AskAnswers DEF IInv, SInv
<1>1. PICK d :
         /\ Answered(u, d) /\ d.at = "asked" /\ d.seen = manual /\ d.leg = coord[u].leg
         /\ UNCHANGED sessions
    BY <1>0
<1>2. coord'[u] = d BY <1>1 DEF Answered, IInv, SInv, Types, UpdateTypes
<1>3. NoneOpens /\ (Preparing' <=> Preparing) /\ manual' = manual
    BY <1>1 DEF NoneOpens, Preparing, Answered
<1>4. Carries(coord[u])' BY <1>1, <1>2, <1>3 DEF Carries
<1>. QED BY <1>1, <1>2, <1>3, <1>4, InstallationHolds DEF Answered

LEMMA PartHolds ==
    ASSUME IInv, PartServed
    PROVE  Linked' /\ Handover' /\ OneRuntime' /\ Locks'
<1>0. PICK u \in Coordinators : \E d :
         /\ Answered(u, d) /\ d.at = "parted" /\ d.leg = coord[u].leg
         /\ Works(u, "resource", "parting")
         /\ sessions' = IF coord[u].leg = "before" THEN sessions
                                                   ELSE Closing(sessions, coord[u].seen)
    BY PartAnswers DEF IInv, SInv
<1>1. PICK d :
         /\ Answered(u, d) /\ d.at = "parted" /\ d.leg = coord[u].leg
         /\ Works(u, "resource", "parting")
         /\ sessions' = IF coord[u].leg = "before" THEN sessions
                                                   ELSE Closing(sessions, coord[u].seen)
    BY <1>0
<1>2. coord'[u] = d BY <1>1 DEF Answered, IInv, SInv, Types, UpdateTypes
<1>3. (Preparing' <=> Preparing) /\ manual' = manual
    BY <1>1 DEF Preparing, Answered
<1>4. NoneOpens BY <1>1, ClosingDoes DEF NoneOpens, IInv, SInv
<1>5. d.leg = "after" => \A m \in Coordinators : sessions'[m] # "open"
    <2>1. ASSUME d.leg = "after" PROVE sessions' = Closing(sessions, manual)
        BY <1>1, <2>1 DEF IInv, Handover, Carries, Works
    <2>2. \A m \in Coordinators : sessions[m] = "open" => m = manual BY DEF IInv, OneRuntime
    <2>. QED BY <2>1, <2>2, ClosingDoes DEF IInv, SInv
<1>6. Carries(coord[u])' BY <1>1, <1>2, <1>3, <1>5 DEF Carries
<1>. QED BY <1>1, <1>2, <1>3, <1>4, <1>6, InstallationHolds DEF Answered

\* With nothing at work, nothing is carried.
LEMMA NothingCarried ==
    ASSUME \A v \in Coordinators : coord'[v].op # "resource" \/ coord'[v].at = "done"
    PROVE  Handover'
BY DEF Handover, Carries

LEMMA ReplaceHolds ==
    ASSUME IInv, ReplaceServed
    PROVE  Linked' /\ Handover' /\ OneRuntime' /\ Locks'
<1> USE DEF IInv
<1>1. PICK u \in Coordinators, e \in [Coordinators -> Coordinator], d \in Coordinator :
         /\ Works(u, "resource", "replacing")
         /\ Replaces(u, e, d)
         /\ \/ /\ Recomposed(u, NextNumber)
               /\ updates' = NextNumber /\ page' = NextNumber
               /\ e[NextNumber] = Checked(Fresh)
               /\ \A v \in Coordinators \ {u, NextNumber} : e[v] = coord[v]
            \/ /\ UNCHANGED <<updates, page, phase>>
               /\ (manual' = 0 /\ UNCHANGED sessions) \/ Recomposed(u, NextNumber)
               /\ \A v \in Coordinators \ {u} : e[v] = coord[v]
    BY ReplaceIs DEF SInv
<1>2. /\ UNCHANGED <<lockFile, other, loop, hello>> /\ (Preparing' <=> Preparing)
    BY DEF ReplaceServed, Preparing
<1>3. PICK c \in Coordinator : c = coord[u] BY DEF SInv, Types, UpdateTypes
<1>4. /\ c.op = "resource" /\ c.at = "replacing" /\ u = page
      /\ \A m \in Coordinators : sessions[m] # "open"
    BY <1>1, <1>3 DEF Works, Linked, Busy, Handover, Carries
<1>5. ~Preparing /\ hello
    <2>1. sessions[u] # "none" BY <1>3, <1>4, AtWork DEF SInv
    <2>. QED BY <1>3, <1>4, <2>1 DEF Linked
<1>6. /\ coord'[u] = d /\ d.op = "resource" /\ d.at = "done" /\ d.shut = c.shut
      /\ d.result \in {"installed", "failed"} /\ d.held = c.held /\ d.waiting = c.waiting
      /\ d.ours = c.ours /\ d.prepared = c.prepared /\ d.handedOff = c.handedOff
    BY <1>1, <1>3 DEF Replaces
<1>7. \A v \in Coordinators : v # u =>
         \/ coord'[v] = coord[v]
         \/ v = NextNumber /\ coord'[v] = Checked(Fresh)
    BY <1>1 DEF Replaces
<1>8. ASSUME NEW v \in Coordinators
      PROVE  coord'[v].op # "application" /\ ~Busy(coord'[v])
    <2>1. CASE v = u BY <1>6, <2>1 DEF Busy
    <2>2. CASE v # u /\ coord'[v] = coord[v] BY <1>4, <2>2 DEF Linked
    <2>3. CASE coord'[v] = Checked(Fresh) BY <2>3, CheckedFresh DEF Busy
    <2>. QED BY <1>7, <2>1, <2>2, <2>3
<1>9. Handover' BY <1>8, NothingCarried DEF Busy
<1>10. OneRuntime'
    BY <1>1, <1>4 DEF OneRuntime, Recomposed, SInv, Types, RuntimeTypes
<1>11. Linked'
    <2>1. CASE updates' = NextNumber /\ page' = NextNumber /\ Recomposed(u, NextNumber)
        <3>1. updates' # 0 BY <2>1, Numbers DEF Recomposed
        <3>. QED BY <1>2, <1>5, <1>8, <2>1, <3>1 DEF Linked
    <2>2. CASE UNCHANGED <<updates, page, phase>>
        <3>1. updates' = 0 => page' = 0 \/ coord'[page].shut
            BY <1>3, <1>4, <1>6, <2>2 DEF Linked
        <3>. QED BY <1>2, <1>5, <1>8, <2>2, <3>1 DEF Linked
    <2>. QED BY <1>1, <2>1, <2>2
<1>12. Locks'
    <2>1. Sane(c) BY <1>3 DEF Locks
    <2>2. Sane(d) BY <1>4, <1>6, <2>1 DEF Sane
    <2>3. Sane(Checked(Fresh)) BY CheckedFresh DEF Sane
    <2>4. \A v \in Coordinators : Sane(coord'[v]) BY <1>6, <1>7, <2>2, <2>3 DEF Locks
    <2>5. ASSUME NEW v \in Coordinators, loop' = "running", coord'[v].shut
          PROVE  AtRest(coord'[v])
        BY <1>2, <1>3, <1>4, <1>6, <1>7, <2>5, CheckedFresh DEF Locks, AtRest
    <2>6. ASSUME NEW v \in Coordinators, Claims(v)' PROVE lockFile' = v
        <3>1. coord'[v].held /\ v = page' /\ ~coord'[v].shut BY <1>8, <2>6 DEF Claims
        <3>2. coord'[v] # Checked(Fresh) BY <3>1, CheckedFresh
        <3>3. CASE v = u
            <4>1. Claims(u) BY <1>3, <1>4, <1>6, <3>1, <3>3 DEF Claims
            <4>. QED BY <1>2, <3>3, <4>1 DEF Locks
        <3>4. CASE v # u
            <4>1. page' = page \/ (page' = NextNumber /\ coord'[NextNumber] = Checked(Fresh))
                BY <1>1 DEF Replaces
            <4>. QED BY <1>4, <3>1, <3>2, <3>4, <4>1
        <3>. QED BY <3>3, <3>4
    <2>7. other' <=> lockFile' = Other BY <1>2 DEF Locks
    <2>. QED BY <2>4, <2>5, <2>6, <2>7, LocksAre
<1>. QED BY <1>9, <1>10, <1>11, <1>12

\* A coordinator that is shut down gives its claim back, if it has one to
\* give, and waits for nothing more.
LEMMA DismissalHolds ==
    ASSUME IInv, updates # 0, ShutDownUpdates(updates), loop = "running"
    PROVE  /\ AllHumble /\ coord'[updates].shut
           /\ \A v \in Coordinators : Sane(coord'[v])
           /\ \A v \in Coordinators : coord'[v].shut => ~coord'[v].waiting
           /\ \A v \in Coordinators : coord'[v].op = coord[v].op
           /\ \A v \in Coordinators :
                 coord'[v].held /\ (coord'[v].op = "application" \/ (v = page /\ ~coord'[v].shut))
                     => lockFile' = v
           /\ other' <=> lockFile' = Other
<1> USE DEF IInv
<1>1. PICK u \in Coordinators : u = updates /\ u = page
    BY DEF Linked, SInv, Types, RuntimeTypes, Number
<1>2. PICK c \in Coordinator : c = coord[u] BY DEF SInv, Types, UpdateTypes
<1>3. PICK d : d = Dismissed(c) OBVIOUS
<1>4. /\ coord' = [coord EXCEPT ![u] = d] /\ other' = other
      /\ lockFile' = IF c.waiting /\ ~c.handedOff /\ c.held THEN NoOne ELSE lockFile
    BY <1>1, <1>2, <1>3 DEF ShutDownUpdates, LockAfter
<1>5. coord'[u] = d /\ \A v \in Coordinators : v # u => coord'[v] = coord[v]
    BY <1>4 DEF SInv, Types, UpdateTypes
<1>6. /\ d \in Coordinator /\ d.op = c.op
      /\ d.plan = c.plan /\ d.leg = c.leg /\ d.seen = c.seen /\ d.good = c.good
      /\ d.ours = c.ours /\ d.handedOff = c.handedOff /\ d.shut = TRUE
      /\ Halts(c, d) /\ GivesUp(c, d)
    BY <1>3, DismissedDoes
<1>7. Sane(c) BY <1>2 DEF Locks
<1>8. ~d.waiting BY <1>6, <1>7 DEF GivesUp, Sane
<1>9. Sane(d) BY <1>6, <1>7 DEF GivesUp, Halts, Sane
<1>10. AllHumble
    <2>1. Humble(c, d) BY <1>6 DEF Humble, Halts
    <2>. QED BY <1>2, <1>5, <2>1 DEF AllHumble, Humble
<1>11. ASSUME NEW v \in Coordinators, coord'[v].shut PROVE ~coord'[v].waiting
    BY <1>5, <1>8, <1>11 DEF Locks
<1>12. ASSUME c.waiting, ~c.handedOff, c.held PROVE lockFile = u
    <2>1. Claims(u) BY <1>1, <1>2, <1>12 DEF Claims, Locks
    <2>. QED BY <2>1 DEF Locks
<1>13. other' <=> lockFile' = Other
    <2>1. CASE c.waiting /\ ~c.handedOff /\ c.held
        BY <1>4, <1>12, <2>1, Numbers, CoordinatorAssumption DEF Locks
    <2>2. CASE ~(c.waiting /\ ~c.handedOff /\ c.held) BY <1>4, <2>2 DEF Locks
    <2>. QED BY <2>1, <2>2
<1>14. ASSUME NEW v \in Coordinators, coord'[v].held,
              coord'[v].op = "application" \/ (v = page /\ ~coord'[v].shut)
       PROVE  lockFile' = v
    <2>1. CASE v = u
        <3>1. d.op = "application" /\ d.held BY <1>1, <1>5, <1>6, <1>14, <2>1
        <3>2. ~c.waiting /\ c.held BY <1>6, <1>7, <3>1 DEF Sane, GivesUp
        <3>3. Claims(u) BY <1>2, <1>6, <3>1, <3>2 DEF Claims
        <3>. QED BY <1>4, <2>1, <3>2, <3>3 DEF Locks
    <2>2. CASE v # u
        <3>1. Claims(v) BY <1>5, <1>14, <2>2 DEF Claims
        <3>. QED BY <1>1, <2>2, <3>1, OneClaims
    <2>. QED BY <2>1, <2>2
<1>15. coord'[updates].shut BY <1>1, <1>5, <1>6
<1>16. \A v \in Coordinators : Sane(coord'[v]) BY <1>5, <1>9 DEF Locks
<1>17. \A v \in Coordinators : coord'[v].op = coord[v].op BY <1>2, <1>5, <1>6
<1>. QED BY <1>10, <1>11, <1>13, <1>14, <1>15, <1>16, <1>17

\* With no installation and no application at work, and no session open.
LEMMA IdleLinks ==
    ASSUME \A v \in Coordinators : coord'[v].op \notin {"resource", "application"},
           \A m \in Coordinators : sessions'[m] # "open",
           updates' \in {0, page'}, hello',
           page' = 0 \/ coord'[page'].shut
    PROVE  Linked' /\ Handover' /\ OneRuntime'
<1>1. Handover' BY NothingCarried
<1>2. OneRuntime' BY DEF OneRuntime
<1>3. Linked' BY DEF Linked, Busy
<1>. QED BY <1>1, <1>2, <1>3

LEMMA DismissedHolds ==
    ASSUME IInv, loop = "running", loop' = loop, page' = page,
           \A v \in Coordinators : coord[v].op \notin {"resource", "application"},
           (updates # 0 /\ ShutDownUpdates(updates)) \/ (updates = 0 /\ UNCHANGED updateVars)
    PROVE  /\ Locks'
           /\ \A v \in Coordinators : coord'[v].op \notin {"resource", "application"}
           /\ page' = 0 \/ coord'[page'].shut
<1> USE DEF IInv
<1>1. CASE updates # 0 /\ ShutDownUpdates(updates)
    <2>1. /\ coord'[updates].shut
          /\ \A v \in Coordinators : Sane(coord'[v])
          /\ \A v \in Coordinators : coord'[v].shut => ~coord'[v].waiting
          /\ \A v \in Coordinators : coord'[v].op = coord[v].op
          /\ \A v \in Coordinators :
                coord'[v].held /\ (coord'[v].op = "application" \/ (v = page /\ ~coord'[v].shut))
                    => lockFile' = v
          /\ other' <=> lockFile' = Other
        BY <1>1, DismissalHolds
    <2>2. updates = page BY <1>1 DEF Linked
    <2>3. \A v \in Coordinators : Claims(v)' => lockFile' = v BY <2>1 DEF Claims
    <2>4. \A v \in Coordinators : coord'[v].shut => AtRest(coord'[v]) BY <2>1 DEF AtRest
    <2>5. Locks' BY <2>1, <2>3, <2>4, LocksAre
    <2>6. \A v \in Coordinators : coord'[v].op \notin {"resource", "application"} BY <2>1
    <2>. QED BY <2>1, <2>2, <2>5, <2>6
<1>2. CASE updates = 0 /\ UNCHANGED updateVars
    <2>1. Locks' BY <1>2, LocksStay
    <2>. QED BY <1>2, <2>1 DEF Linked, updateVars
<1>. QED BY <1>1, <1>2

\* The three ends of a start.
LEMMA StartHolds ==
    ASSUME IInv, Preparing, RuntimeLoaded, loop = "running", starter' = NoThread, pending' = 0,
           UNCHANGED <<loop, hello, gen>>
    PROVE  Linked' /\ Handover' /\ OneRuntime' /\ Locks'
<1> USE DEF IInv
<1>1. /\ page = 0 \/ coord[page].shut
      /\ \A v \in Coordinators : coord[v].op \notin {"resource", "application"}
      /\ \A m \in Coordinators : sessions[m] # "open"
      /\ hello
    BY DEF Linked
<1>2. ~Preparing' BY DEF Preparing, NoThread
<1>3. CASE NewRuntime(NextNumber)
    <2>1. PICK m \in Coordinators : m = NextNumber /\ NewRuntime(m) BY <1>3 DEF NewRuntime
    <2>2. /\ \A v \in Coordinators : v # m => coord'[v] = coord[v]
          /\ coord'[m] = Checked(Fresh)
        BY <2>1, NewRuntimeIs DEF SInv
    <2>3. \A v \in Coordinators : coord'[v].op \notin {"resource", "application"}
        BY <1>1, <2>2, CheckedFresh
    <2>4. Handover' BY <2>3, NothingCarried
    <2>5. OneRuntime' BY <1>1, <2>1 DEF NewRuntime, OneRuntime, SInv, Types, RuntimeTypes
    <2>6. Linked' BY <1>1, <1>2, <2>1, <2>3, Numbers DEF Linked, NewRuntime, Busy
    <2>7. Locks'
        <3>1. Sane(Checked(Fresh)) BY CheckedFresh DEF Sane
        <3>2. \A v \in Coordinators : Sane(coord'[v]) BY <2>2, <3>1 DEF Locks
        <3>3. \A v \in Coordinators : coord'[v].shut => AtRest(coord'[v])
            BY <2>2, CheckedFresh DEF AtRest, Locks
        <3>4. ASSUME NEW v \in Coordinators, Claims(v)' PROVE FALSE
            <4>1. v = m BY <2>1, <2>3, <3>4 DEF Claims, NewRuntime
            <4>. QED BY <2>2, <3>4, <4>1, CheckedFresh DEF Claims
        <3>5. other' <=> lockFile' = Other BY <2>1 DEF NewRuntime, Locks
        <3>. QED BY <3>2, <3>3, <3>4, <3>5, LocksAre
    <2>. QED BY <2>4, <2>5, <2>6, <2>7
<1>4. CASE /\ GivesUpAll
           /\ \A m \in Coordinators : sessions'[m] # "open"
    <2>1. /\ page' = page /\ updates' = 0
          /\ (updates # 0 /\ ShutDownUpdates(updates)) \/ (updates = 0 /\ UNCHANGED updateVars)
        BY <1>4 DEF GivesUpAll
    <2>2. /\ Locks' /\ (page' = 0 \/ coord'[page'].shut)
          /\ \A v \in Coordinators : coord'[v].op \notin {"resource", "application"}
        BY <1>1, <2>1, DismissedHolds
    <2>. QED BY <1>1, <1>4, <2>1, <2>2, IdleLinks
<1>5. CASE GivesUpAll /\ sessions' = Closing(sessions, manual)
    BY <1>1, <1>4, <1>5, ClosingDoes DEF SInv
<1>6. CASE /\ GivesUpAll /\ NextNumber \in Coordinators
           /\ sessions' = [sessions EXCEPT ![NextNumber] = "closing"]
    <2>1. PICK m \in Coordinators : m = NextNumber BY <1>6
    <2>2. \A v \in Coordinators : sessions'[v] # "open"
        BY <1>1, <1>6, <2>1 DEF SInv, Types, RuntimeTypes
    <2>. QED BY <1>4, <1>6, <2>2
<1>. QED BY <1>3, <1>5, <1>6, LoadedIs DEF SInv

LEMMA LoadedServedHolds ==
    ASSUME IInv, LoadedServed
    PROVE  Linked' /\ Handover' /\ OneRuntime' /\ Locks'
<1>1. /\ queue # <<>> /\ loop = "running" /\ Head(queue).kind \in OwnKinds
      /\ UNCHANGED <<loop, hello, gen>>
    BY DEF LoadedServed, Head1, OwnKinds
<1>2. Head(queue).n = gen => Preparing BY <1>1, OwnHead DEF IInv
<1>3. CASE UNCHANGED <<updateVars, runtimeVars>> /\
           \/ UNCHANGED <<starter, pending>>
           \/ Head(queue).n = gen
    <2>1. Preparing' => Preparing BY <1>1, <1>2, <1>3 DEF Preparing
    <2>. QED BY <1>1, <1>3, <2>1, QuietHolds DEF NoneOpens, runtimeVars
<1>4. CASE Head(queue).n = gen /\ starter' = NoThread /\ pending' = 0 /\ RuntimeLoaded
    BY <1>1, <1>2, <1>4, StartHolds
<1>. QED BY <1>3, <1>4 DEF LoadedServed, Stale

LEMMA FailedServedHolds ==
    ASSUME IInv, FailedServed
    PROVE  Linked' /\ Handover' /\ OneRuntime' /\ Locks'
<1>1. /\ queue # <<>> /\ loop = "running" /\ Head(queue).kind \in OwnKinds
      /\ UNCHANGED <<loop, hello, gen>>
    BY DEF FailedServed, Head1, OwnKinds
<1>2. Head(queue).n = gen => Preparing BY <1>1, OwnHead DEF IInv
<1>3. CASE UNCHANGED <<updateVars, starter, pending, runtimeVars>>
    BY <1>1, <1>3, QuietHolds DEF NoneOpens, Preparing, runtimeVars
<1>4. CASE Head(queue).n = gen /\ starter' = NoThread /\ pending' = 0 /\ StartupFails(0)
    BY <1>1, <1>2, <1>4, StartHolds DEF RuntimeLoaded
<1>. QED BY <1>3, <1>4 DEF FailedServed, Stale

LEMMA RetiredServedHolds ==
    ASSUME IInv, RetiredServed
    PROVE  Linked' /\ Handover' /\ OneRuntime' /\ Locks'
<1>1. /\ queue # <<>> /\ loop = "running" /\ Head(queue).kind \in OwnKinds
      /\ UNCHANGED <<updateVars, loop, hello>>
    BY DEF RetiredServed, Head1, OwnKinds
<1>2. Head(queue).n = gen => Preparing BY <1>1, OwnHead DEF IInv
<1>3. CASE UNCHANGED <<starter, gen, pending, runtimeVars>>
    BY <1>1, <1>3, QuietHolds DEF NoneOpens, Preparing, runtimeVars
<1>4. CASE Head(queue).n = gen /\ FinishRetry /\ UNCHANGED <<runtime, page, sessions>>
    <2>1. /\ page = 0 \/ coord[page].shut
          /\ \A v \in Coordinators : coord[v].op \notin {"resource", "application"}
          /\ \A m \in Coordinators : sessions[m] # "open"
          /\ hello
        BY <1>2, <1>4 DEF IInv, Linked
    <2>2. updates' = 0 BY <1>4 DEF FinishRetry
    <2>3. Locks' BY <1>1, <1>4, LocksStay DEF IInv
    <2>. QED BY <1>1, <1>4, <2>1, <2>2, <2>3, IdleLinks DEF updateVars
<1>. QED BY <1>3, <1>4 DEF RetiredServed, Stale

LEMMA StuckServedHolds ==
    ASSUME IInv, StuckServed
    PROVE  Linked' /\ Handover' /\ OneRuntime' /\ Locks'
<1>1. /\ queue # <<>> /\ loop = "running" /\ Head(queue).kind \in OwnKinds
      /\ UNCHANGED <<updateVars, loop, hello, gen, pending, manual, updates, page, sessions>>
    BY DEF StuckServed, Head1, OwnKinds
<1>2. Head(queue).n = gen => Preparing BY <1>1, OwnHead DEF IInv
<1>3. Preparing' => Preparing
    BY <1>1, <1>2 DEF StuckServed, Stale, Preparing
<1>. QED BY <1>1, <1>3, QuietHolds DEF NoneOpens

LEMMA HelloHolds ==
    ASSUME IInv, Hello
    PROVE  Linked' /\ Handover' /\ OneRuntime' /\ Locks'
<1>1. /\ ~hello /\ hello'
      /\ UNCHANGED <<updateVars, loop, manual, updates, page, sessions>>
    BY DEF Hello
<1>2. /\ page = 0 /\ updates = 0 /\ \A u \in Coordinators : sessions[u] = "none"
    BY <1>1 DEF IInv, Linked
<1>3. \A v \in Coordinators : coord[v].op = "none"
    BY <1>2, FreshDoes DEF IInv, SInv, Named
<1>4. Locks' BY <1>1, LocksStay DEF IInv
<1>. QED BY <1>1, <1>2, <1>3, <1>4, IdleLinks DEF updateVars

LEMMA NativeContextHolds ==
    ASSUME IInv, NativeContext
    PROVE  Linked' /\ Handover' /\ OneRuntime' /\ Locks'
<1>1. loop = "running" /\ pending' = 0 /\ UNCHANGED <<loop, hello, gen>>
    BY DEF NativeContext, Idle
<1>2. CASE pending # 0 /\ ~Stale(pending) /\ starter' = NoThread /\ RuntimeLoaded
    BY <1>1, <1>2, StartHolds DEF Preparing, Stale
<1>3. CASE UNCHANGED <<updateVars, starter, runtimeVars>>
    BY <1>1, <1>3, QuietHolds DEF NoneOpens, Preparing, runtimeVars
<1>. QED BY <1>2, <1>3 DEF NativeContext

\* A retry, with no update at work beside it.
LEMMA RetryHolds ==
    ASSUME IInv, QuietRetry, Unretried \/ Retried, Idle, hello,
           UNCHANGED <<loop, hello>>
    PROVE  Linked' /\ Handover' /\ OneRuntime' /\ Locks'
<1>1. loop = "running" BY DEF Idle
<1>2. CASE Unretried
    BY <1>2, QuietHolds DEF Unretried, NoneOpens, Preparing, runtimeVars
<1>3. CASE Retried
    <2>1. \A v \in Coordinators : coord[v].op \notin {"resource", "application"}
        BY <1>3 DEF Retried, Quiet
    <2>2. /\ Locks' /\ (page' = 0 \/ coord'[page'].shut)
          /\ \A v \in Coordinators : coord'[v].op \notin {"resource", "application"}
        BY <1>1, <1>3, <2>1, DismissedHolds DEF Retried
    <2>3. \A m \in Coordinators : sessions'[m] # "open"
        <3>1. \A m \in Coordinators : sessions[m] = "open" => m = manual
            BY DEF IInv, OneRuntime
        <3>2. CASE manual = 0 /\ sessions' = sessions BY <3>1, <3>2, Numbers
        <3>3. CASE sessions' = Closing(sessions, manual)
            BY <3>1, <3>3, ClosingDoes DEF IInv, SInv
        <3>. QED BY <1>3, <3>2, <3>3 DEF Retried
    <2>4. updates' \in {0, page'} BY <1>3 DEF Retried, IInv, Linked
    <2>. QED BY <2>2, <2>3, <2>4, IdleLinks
<1>. QED BY <1>2, <1>3

LEMMA SettingsHold ==
    ASSUME IInv, QuietRetry, NEW t \in Tokens, CommitSettings(t) \/ AbortSettings(t)
    PROVE  Linked' /\ Handover' /\ OneRuntime' /\ Locks'
<1>1. /\ Idle /\ (Unretried \/ Retried) /\ UNCHANGED <<loop, hello>>
      /\ transaction[t] # NoChanges
    BY CommitIs DEF IInv, SInv, AbortSettings, Unretried, ownVars
<1>2. hello BY <1>1 DEF IInv, Greeted
<1>. QED BY <1>1, <1>2, RetryHolds

LEMMA RequestsHold ==
    ASSUME IInv, QuietRetry,
           \/ Retry
           \/ \E changes \in Changes :
                 UpdateSettings(changes) \/ \E t \in Tokens : PrepareSettings(t, changes)
    PROVE  Linked' /\ Handover' /\ OneRuntime' /\ Locks'
<1>1. CASE Retry
    <2>1. Unretried \/ Retried BY <1>1, RetryIs DEF Retry, IInv, SInv
    <2>. QED BY <1>1, <2>1, RetryHolds DEF Retry, Request
<1>2. ASSUME NEW changes \in Changes, UpdateSettings(changes)
      PROVE  Linked' /\ Handover' /\ OneRuntime' /\ Locks'
    <2>1. Unretried \/ Retried BY <1>2, StoredIs DEF UpdateSettings, IInv, SInv
    <2>. QED BY <1>2, <2>1, RetryHolds DEF UpdateSettings, Request
<1>3. ASSUME NEW changes \in Changes, NEW t \in Tokens, PrepareSettings(t, changes)
      PROVE  Linked' /\ Handover' /\ OneRuntime' /\ Locks'
    BY <1>3, RetryHolds DEF PrepareSettings, Unretried, Request
<1>. QED BY <1>1, <1>2, <1>3

LEMMA AskedHolds ==
    ASSUME IInv, UpdateRequested
    PROVE  Linked' /\ Handover' /\ OneRuntime' /\ Locks'
<1> USE DEF IInv
<1>1. PICK d : Asked(d) BY AskedIs DEF SInv
<1>2. /\ Idle /\ hello /\ UNCHANGED <<ownVars, runtimeVars>>
    BY DEF UpdateRequested, Request
<1>3. PICK c \in Coordinator : c = coord[page] /\ page \in Coordinators
    BY <1>1 DEF Asked, SInv, Types, UpdateTypes
<1>4. coord'[page] = d /\ d \in Coordinator /\ \A v \in Coordinators : v # page => coord'[v] = coord[v]
    BY <1>1 DEF Asked, SInv, Types, UpdateTypes
<1>5. /\ loop = "running" /\ loop' = loop /\ hello' = hello /\ (Preparing' <=> Preparing)
      /\ page' = page /\ updates' = updates /\ manual' = manual /\ sessions' = sessions
      /\ other' = other
    BY <1>1, <1>2 DEF Idle, Preparing, ownVars, runtimeVars, Asked
<1>6. Sane(c) /\ (c.shut => AtRest(c)) BY <1>3, <1>5 DEF Locks, AtRest
<1>7. /\ d.shut = c.shut
      /\ d.op = c.op \/ (c.shut /\ d.op = "none") \/ ~c.shut
      /\ d.op = "resource" => \/ c.op = "resource" /\ d.at = c.at /\ d.leg = c.leg /\ d.seen = c.seen
                              \/ d.at = "queued" /\ d.leg = "before"
      /\ Sane(d) /\ (d.shut => AtRest(d))
      /\ d.held => c.held
      /\ d.op = "application" => c.op = "application" \/ ~c.shut
    <2>1. CASE d = c BY <1>6, <2>1
    <2>2. CASE d = Declined(c) /\ c.waiting
        <3>1. /\ d.op = c.op /\ d.at = c.at /\ d.result = c.result
              /\ d.plan = c.plan /\ d.leg = c.leg /\ d.seen = c.seen
              /\ d.ours = c.ours /\ d.handedOff = c.handedOff /\ d.shut = c.shut
              /\ d.waiting = FALSE /\ d.prepared = FALSE /\ d.held = FALSE
            BY <2>2, DeclinedDoes
        <3>. QED BY <1>6, <2>2, <3>1 DEF Sane, AtRest
    <2>3. CASE d = Checked(c) /\ ~Active(c)
        <3>1. /\ Starts(c, d, "check") /\ d.waiting = FALSE /\ d.ours = FALSE
              /\ d.prepared = c.prepared
            BY <2>3, CheckedDoes
        <3>. QED BY <1>6, <3>1 DEF Starts, Same, Sane, AtRest
    <2>4. CASE d = ResourceAsked(c) /\ ~Active(c)
        <3>1. /\ Starts(c, d, "resource") /\ d.waiting = c.waiting /\ d.ours = FALSE
              /\ d.prepared = c.prepared /\ d.leg = "before"
            BY <2>4, ResourceAskedDoes
        <3>. QED BY <1>6, <3>1 DEF Starts, Same, Sane, AtRest
    <2>5. CASE /\ ~Active(c) /\ c.offered
               /\ \E confirm \in BOOLEAN : d = ApplicationAsked(c, confirm)
        <3>0. PICK confirm \in BOOLEAN : d = ApplicationAsked(c, confirm) BY <2>5
        <3>1. StartsApplication(c, d) BY <2>5, <3>0, ApplicationAskedDoes
        <3>. QED BY <1>6, <3>1 DEF StartsApplication, Starts, Same, Sane, AtRest
    <2>6. Active(c) => Checked(c) = c /\ ResourceAsked(c) = c BY DEF Checked, ResourceAsked
    <2>7. \A confirm \in BOOLEAN :
             ~(~Active(c) /\ c.offered) => ApplicationAsked(c, confirm) = c
        BY DEF ApplicationAsked
    <2>. QED BY <1>1, <1>3, <2>1, <2>2, <2>3, <2>4, <2>5, <2>6, <2>7 DEF Asked, Asks
<1>8. \A v \in Coordinators :
         coord'[v].op = "application" \/ Busy(coord'[v])
             => v = page \/ coord[v].op = "application" \/ Busy(coord[v])
    BY <1>4
<1>9. Preparing => c.shut BY <1>3, Numbers DEF Linked
<1>10. Linked'
    <2>1. \A u \in Coordinators : coord'[u].op = "application" \/ Busy(coord'[u]) => u = page
        BY <1>8 DEF Linked
    <2>2. Preparing => \A v \in Coordinators : coord'[v].op \notin {"resource", "application"}
        BY <1>3, <1>4, <1>7, <1>9 DEF Linked
    <2>3. coord[page].shut => coord'[page].shut BY <1>3, <1>4, <1>7
    <2>. QED BY <1>2, <1>5, <2>1, <2>2, <2>3 DEF Linked
<1>11. Handover'
    <2>1. ASSUME NEW v \in Coordinators PROVE Carries(coord[v])'
        <3>1. Carries(coord[v]) BY DEF Handover
        <3>2. CASE v # page BY <1>4, <1>5, <3>1, <3>2 DEF Carries
        <3>3. CASE v = page BY <1>3, <1>4, <1>5, <1>7, <3>1, <3>3 DEF Carries
        <3>. QED BY <3>2, <3>3
    <2>. QED BY <2>1 DEF Handover
<1>12. OneRuntime' BY <1>5 DEF OneRuntime
<1>13. Locks'
    <2>1. \A v \in Coordinators : Sane(coord'[v]) BY <1>4, <1>7 DEF Locks
    <2>2. \A v \in Coordinators : coord'[v].shut => AtRest(coord'[v])
        BY <1>4, <1>5, <1>7 DEF Locks, AtRest
    <2>3. ASSUME NEW v \in Coordinators, Claims(v)'
          PROVE  v = page /\ d.held /\ Claims(page)
        <3>1. v = page
            <4>1. ASSUME v # page PROVE Claims(v) BY <1>4, <1>5, <2>3, <4>1 DEF Claims
            <4>. QED BY <4>1, OneClaims
        <3>2. d.held /\ (d.op = "application" \/ ~d.shut)
            BY <1>4, <1>5, <2>3, <3>1 DEF Claims
        <3>. QED BY <1>3, <1>7, <3>1, <3>2 DEF Claims
    <2>4. CASE lockFile' = lockFile
        <3>1. \A v \in Coordinators : Claims(v)' => lockFile' = v
            BY <1>3, <2>3, <2>4 DEF Locks
        <3>2. other' <=> lockFile' = Other BY <1>5, <2>4 DEF Locks
        <3>. QED BY <2>1, <2>2, <3>1, <3>2, LocksAre
    <2>5. CASE d = Declined(c) /\ lockFile' = NoOne /\ c.held /\ c.waiting
        <3>1. ~d.held BY <2>5, DeclinedDoes
        <3>2. \A v \in Coordinators : ~Claims(v)' BY <2>3, <3>1
        <3>3. Claims(page) BY <1>3, <1>6, <2>5 DEF Claims, AtRest
        <3>4. lockFile = page BY <1>3, <3>3 DEF Locks
        <3>5. other' <=> lockFile' = Other
            BY <1>3, <1>5, <2>5, <3>4, Numbers, CoordinatorAssumption DEF Locks
        <3>. QED BY <2>1, <2>2, <3>2, <3>5, LocksAre
    <2>. QED BY <1>1, <1>3, <2>4, <2>5 DEF Asked, LockAfter
<1>. QED BY <1>10, <1>11, <1>12, <1>13

LEMMA ShutDownHolds ==
    ASSUME IInv, ShutDown
    PROVE  Linked' /\ Handover' /\ OneRuntime' /\ Locks'
<1> USE DEF IInv
<1>1. /\ loop = "running" /\ loop' = "closed" /\ hello /\ hello' = hello
      /\ gen' = gen + 1 /\ pending' = 0 /\ sessions' = Closing(sessions, manual)
      /\ UNCHANGED <<starter, manual, updates, page>>
      /\ IF updates # 0 THEN ShutDownUpdates(updates) ELSE UNCHANGED updateVars
    BY DEF ShutDown
<1>2. NoneOpens BY <1>1, ClosingDoes DEF NoneOpens, SInv
<1>3. Preparing' => Preparing BY <1>1 DEF Preparing
<1>4. CASE updates # 0 /\ ShutDownUpdates(updates)
    <2>1. /\ AllHumble
          /\ \A v \in Coordinators : Sane(coord'[v])
          /\ \A v \in Coordinators :
                coord'[v].held /\ (coord'[v].op = "application" \/ (v = page /\ ~coord'[v].shut))
                    => lockFile' = v
          /\ other' <=> lockFile' = Other
        BY <1>1, <1>4, DismissalHolds
    <2>2. \A v \in Coordinators : Claims(v)' => lockFile' = v BY <1>1, <2>1 DEF Claims
    <2>3. Locks' BY <1>1, <2>1, <2>2, LocksAre
    <2>. QED BY <1>1, <1>2, <1>3, <2>1, <2>3, LinksStay
<1>5. CASE UNCHANGED updateVars
    <2>1. AllHumble BY <1>5 DEF AllHumble, Humble, updateVars
    <2>2. Locks' BY <1>1, <1>5 DEF Locks, updateVars, Sane, Claims
    <2>. QED BY <1>1, <1>2, <1>3, <2>1, <2>2, LinksStay
<1>. QED BY <1>1, <1>4, <1>5

LEMMA GreetedStays ==
    ASSUME IInv, [Next]_serviceVars
    PROVE  Greeted'
<1>1. CASE transaction' = transaction /\ (hello => hello')
    BY <1>1 DEF IInv, Greeted
<1>2. CASE hello /\ hello' = hello BY <1>2 DEF Greeted
<1>3. Hello => hello' BY DEF Hello
<1>4. ASSUME NEW t \in Tokens,
             CommitSettings(t) \/ AbortSettings(t)
             \/ \E changes \in Changes : PrepareSettings(t, changes)
      PROVE  hello /\ hello' = hello
    BY <1>4
        DEF IInv, Greeted, CommitSettings, AbortSettings, PrepareSettings, Request, ownVars
<1>5. UserStep => (hello /\ hello' = hello) \/ (transaction' = transaction /\ hello' = hello)
    BY <1>4
        DEF UserStep, Retry, UpdateRequested, UpdateSettings, ShutDown, ownVars,
            settingsVars
<1>6. OwnerStep => transaction' = transaction /\ hello' = hello
    BY DEF OwnerStep, LoadedServed, FailedServed, RetiredServed, StuckServed, AskServed,
           PartServed, ReplaceServed, settingsVars
<1>7. \A m \in Coordinators :
         SessionCloses(m) \/ ResourceStep(m) => transaction' = transaction /\ hello' = hello
    BY ResourceTurns DEF IInv, SInv, Types, SessionCloses, WorkerOnly, ownVars, settingsVars
<1>8. NativeContext \/ PreparationEnds \/ RetryWaited => transaction' = transaction /\ hello' = hello
    BY DEF NativeContext, PreparationEnds, RetryWaited, settingsVars
<1>9. UNCHANGED <<ownVars, settingsVars>> => transaction' = transaction /\ hello' = hello
    BY DEF ownVars, settingsVars
<1>10. CASE hello' BY <1>10 DEF Greeted
<1>. QED BY <1>1, <1>2, <1>3, <1>5, <1>6, <1>7, <1>8, <1>9, <1>10 DEF Next, serviceVars

LEMMA InitiallyI == Init => IInv
<1> SUFFICES ASSUME Init PROVE IInv OBVIOUS
<1>1. SInv BY InitiallyS
<1> USE DEF Init, UpdatesInit
<1>2. ~Preparing BY DEF Preparing, NoThread
<1>3. \A u \in Coordinators : coord[u] = Fresh OBVIOUS
<1>4. Linked BY <1>2, <1>3, FreshDoes DEF Linked, Busy
<1>5. Handover BY <1>3, FreshDoes DEF Handover, Carries
<1>6. OneRuntime BY DEF OneRuntime
<1>7. Sane(Fresh) BY FreshDoes DEF Sane
<1>8. Locks BY <1>3, <1>7, FreshDoes, CoordinatorAssumption DEF Locks, Claims
<1>9. Greeted BY DEF Greeted
<1>. QED BY <1>1, <1>4, <1>5, <1>6, <1>8, <1>9 DEF IInv

LEMMA KeepsI ==
    ASSUME QuietRetry
    PROVE  IInv /\ [Next]_serviceVars => IInv'
<1> DEFINE Rest == Linked' /\ Handover' /\ OneRuntime' /\ Locks'
<1> SUFFICES ASSUME IInv, [Next]_serviceVars PROVE IInv' OBVIOUS
<1>1. SInv' /\ Greeted' BY KeepsS, GreetedStays DEF IInv
<1>2. Rest
    <2>1. CASE Hello \/ NativeContext BY <2>1, HelloHolds, NativeContextHolds
    <2>2. CASE UserStep
        <3>1. CASE UpdateRequested \/ ShutDown BY <3>1, AskedHolds, ShutDownHolds
        <3>2. CASE \/ Retry
                   \/ \E changes \in Changes :
                         UpdateSettings(changes) \/ \E t \in Tokens : PrepareSettings(t, changes)
            BY <3>2, RequestsHold
        <3>3. CASE \E t \in Tokens : CommitSettings(t) \/ AbortSettings(t)
            BY <3>3, SettingsHold
        <3>. QED BY <2>2, <3>1, <3>2, <3>3 DEF UserStep
    <2>3. CASE OwnerStep
        BY <2>3, LoadedServedHolds, FailedServedHolds, RetiredServedHolds, StuckServedHolds,
           AskHolds, PartHolds, ReplaceHolds DEF OwnerStep
    <2>4. CASE PreparationEnds \/ RetryWaited BY <2>4, StarterPosts, PostHolds
    <2>5. ASSUME NEW m \in Coordinators, SessionCloses(m) \/ ResourceStep(m) PROVE Rest
        BY <2>5, ClosureHolds, ResourceHolds
    <2>6. CASE UpdatesStep /\ UNCHANGED <<ownVars, runtimeVars, settingsVars, asked>>
        BY <2>6, UpdatesHold
    <2>7. CASE UNCHANGED serviceVars BY <2>7, StutterHolds
    <2>. QED BY <2>1, <2>2, <2>3, <2>4, <2>5, <2>6, <2>7 DEF Next
<1>. QED BY <1>1, <1>2 DEF IInv

\* What the service refers to exists, a callback is answered once, and every
\* runtime that can still be composed was asked for (DesktopService's queue,
\* _startup_thread and _compose_runtime).
THEOREM ServiceHolds == Spec => []SInv
BY InitiallyS, KeepsS, PTL DEF Spec

\* Types, the closed loop that runs nothing more (SerializedEventLoop.stop),
\* and the lock that only a composed coordinator holds.
THEOREM TypesHold == Spec => []TypeOK
<1>1. SInv => TypeOK
    <2> SUFFICES ASSUME SInv PROVE TypeOK OBVIOUS
    <2>1. \A u \in Coordinators : coord[u] \in Coordinator BY DEF SInv, Types, UpdateTypes
    <2>2. \A u \in Coordinators : coord[u].op \in Ops /\ coord[u].status \in Statuses
        BY <2>1 DEF Coordinator
    <2>3. \A u \in Coordinators : coord[u].held => sessions[u] # "none"
        BY FreshDoes DEF SInv, Named
    <2>. QED BY <2>2, <2>3
        DEF SInv, Types, UpdateTypes, OwnTypes, RuntimeTypes, SettingsTypes, Queued, Number,
            TypeOK
<1>. QED BY <1>1, ServiceHolds, PTL

\* What _commit_settings stores is the candidate that was prepared, or nothing.
THEOREM CommitHolds == Spec => CommitsThePrepared
<1>1. ASSUME NEW t \in Tokens, CommitSettings(t), config' # config
      PROVE  config' = transaction[t].candidate
    BY <1>1 DEF CommitSettings, Conflicts, Stored
<1>2. [Next]_serviceVars =>
         [\A t \in Tokens : CommitSettings(t) /\ config' # config
             => config' = transaction[t].candidate]_serviceVars
    BY <1>1
<1>. QED BY <1>2, PTL DEF Spec, CommitsThePrepared

\* As long as the runtime is not retried beside an update at work: the
\* coordinator in use is the one the Control Center asks, nothing is installed
\* while a runtime is prepared (retry_runtime, _replace_runtime), and a claim
\* that may still be given back is on the lock file (TreeUpdateRunner.abandon).
THEOREM InvariantHolds ==
    ASSUME QuietRetry
    PROVE  Spec => []IInv
BY InitiallyI, KeepsI, PTL DEF Spec

\* No session is left with its worker and nobody to close it, whatever end a
\* start, a retry or an installation has (_compose_runtime, _startup_failed,
\* _replace_runtime).
THEOREM OneRuntimeHolds ==
    ASSUME QuietRetry
    PROVE  Spec => []OneRuntime
BY InvariantHolds, PTL DEF IInv

\* Two processes of one installation never work on its update together
\* (TreeUpdateRunner.prepare and the lock file).
THEOREM OneProcessHolds ==
    ASSUME QuietRetry
    PROVE  Spec => []OneProcessUpdates
<1>1. IInv => OneProcessUpdates
    <2> SUFFICES ASSUME IInv, NEW u \in Coordinators, coord[u].op = "application",
                        coord[u].at \in {"reading", "staging", "handing"}
                 PROVE  ~other
        BY DEF OneProcessUpdates
    <2>1. Claims(u) BY DEF IInv, Locks, Sane, Claims
    <2>. QED BY <2>1, Numbers DEF IInv, Locks
<1>. QED BY <1>1, InvariantHolds, PTL

=============================================================================
