-------------------------- MODULE DesktopHostProofs --------------------------
(***************************************************************************)
(* For any number of restarts and any bindings: the host has one service   *)
(* at a time; and a shortcut transaction leaves the desktop, the host and  *)
(* the settings with the same shortcuts, unless it overlapped the start or *)
(* the service denied what it had persisted.                               *)
(***************************************************************************)
EXTENDS DesktopHost, FiniteSetTheorems, TLAPS

Place == Requests \cup {"idle", "queued", "release", "register", "replacing", "ready", "reaping",
                            "stopped"}

Types ==
    /\ channel \in [Service -> [failure : BOOLEAN, stopped : BOOLEAN]]
    /\ process \in [Service -> {"none", "running", "exited", "reaped"}]
    /\ at \in [Thread -> Place]
    /\ call \in [Thread -> {"none", "waiting", "ok", "failed"}]
    /\ handle \in [Thread -> 0..launched]
    /\ launched \in 0..Services /\ current \in 0..launched
    /\ DOMAIN inbox = Service /\ DOMAIN replies = Service
    /\ DOMAIN draft = Thread /\ DOMAIN refused = Thread /\ DOMAIN previous = Thread
    /\ \A s \in Service : \A r \in replies[s] : r[3] \in Answered

\* Which way each thread goes; a thread that waits for an answer has asked for it.
Starting == {"hello", "context", "state", "register", "replacing", "again", "ready"}
Editing == {"prepare", "commit", "abort", "refresh", "release"}
Stopping == {"shutdown", "reaping", "stopped"}

Ways ==
    /\ at["startup"] \in Starting \cup {"idle"}
    /\ at["edit"] \in Editing \cup {"idle", "queued"}
    /\ at["retry"] \in Stopping \cup Starting \cup {"idle", "refresh", "release"}
    /\ at["exit"] \in Stopping \cup {"idle"}
    /\ \A t \in Thread : call[t] # "none" => at[t] \in Requests
    /\ \A t \in Thread : call[t] = "waiting" => handle[t] # 0

\* The lock keeps an edit and a restart apart; nothing keeps them from the start,
\* but one that began during it is known.
Exclusion ==
    /\ lock = "edit" <=> at["edit"] \in Editing
    /\ lock = "retry" <=> at["retry"] # "idle"
    /\ ~overlapped /\ at["startup"] # "idle" => at["edit"] \notin Editing /\ at["retry"] = "idle"

\* The threads that start, stop or edit do so with the current service, or with
\* one that has been stopped since.
Handles ==
    /\ ~overlapped /\ at["startup"] # "idle" => handle["startup"] = current
    /\ at["retry"] \in Starting \cup {"shutdown", "reaping"} => handle["retry"] = current
    /\ at["retry"] \in {"shutdown", "reaping"} => current # 0
    /\ at["exit"] \in {"shutdown", "reaping"} => handle["exit"] # 0
    /\ at["retry"] \in Stopping => launched < Services
    /\ at["retry"] \in {"reaping", "stopped"} /\ current # 0 => channel[current].stopped
    /\ at["edit"] # "idle" =>
          handle["edit"] # 0 /\ (handle["edit"] = current \/ channel[handle["edit"]].stopped)
    /\ at["edit"] = "prepare" /\ call["edit"] \in {"waiting", "ok"} => handle["edit"] = current
    /\ at["edit"] = "commit" => handle["edit"] = current

Live(s) == process[s] \in {"running", "exited"}

\* Only the current service has a process, and none has when the next is launched.
Owned ==
    /\ \A s \in Service : Live(s) => s = current
    /\ at["retry"] = "stopped" => \A s \in Service : ~Live(s)
    /\ \A s \in Service : s > launched =>
          process[s] = "none" /\ inbox[s] = {} /\ replies[s] = {}

Calm == at["exit"] = "idle" /\ Connected(current)

\* On a channel that works a request is in the inbox or answered, not both.
Wire ==
    Calm =>
        /\ \A f \in inbox[current] :
              f[1] \in Waiting(current) /\ f = <<f[1], at[f[1]], draft[f[1]]>>
        /\ \A r \in replies[current] :
              /\ r[1] \in Waiting(current) /\ r[2] = at[r[1]]
              /\ <<r[1], at[r[1]], draft[r[1]]>> \notin inbox[current]
              /\ r[3] = "failed" => r[2] \in {"prepare", "commit"}
        /\ \A r, q \in replies[current] : r[1] = q[1] => r = q

Preparing == {"commit", "replacing"}

\* What the desktop knows is what the host holds, and the candidate as well while
\* one is prepared.
Desktop ==
    at["exit"] = "idle" /\ ~overlapped =>
        /\ \A t \in Thread : at[t] \in Preparing =>
               previous[t] = hotkeys /\ os = hotkeys \cup draft[t]
        /\ (\A t \in Thread : at[t] \notin Preparing) => os = hotkeys

\* The start registers what the service has stored.
Begun(t) ==
    /\ at[t] = "state" => /\ call[t] # "failed" /\ (call[t] = "ok" => draft[t] = stored)
                          /\ \A r \in replies[current] : r[2] = "state" => r[4] = stored
    /\ at[t] \in {"register", "replacing"} => draft[t] = stored
    /\ at[t] \in {"again", "ready"} => refused[t] \/ hotkeys = stored

\* A candidate is stored when its commit was answered so.
Persisted ==
    at["edit"] = "commit" =>
        /\ call["edit"] = "ok" => stored = draft["edit"]
        /\ \A r \in replies[current] : r[2] = "commit" /\ r[3] = "ok" => stored = draft["edit"]

\* Until then, and otherwise, what the host holds is what is stored, unless a
\* commit has been denied.
Undecided ==
    at["edit"] = "commit" =>
        \/ call["edit"] \in {"none", "failed"}
        \/ \E f \in inbox[current] : f[2] = "commit"
        \/ \E r \in replies[current] : r[2] = "commit" /\ r[3] = "failed"

Agreed ==
    /\ status = "ready" /\ ~denied /\ at["startup"] = "idle"
    /\ at["retry"] \in {"idle", "refresh", "release"} /\ Undecided
    => hotkeys = stored

Stored == Calm /\ ~overlapped => Begun("startup") /\ Begun("retry") /\ Persisted /\ Agreed

IInv == Types /\ Ways /\ Exclusion /\ Handles /\ Owned /\ Wire /\ Desktop /\ Stored

-----------------------------------------------------------------------------
(* Steps of one thread *)

\* A thread that does not wait moves on: what is on the wire is not its own.
LEMMA WireKept ==
    ASSUME IInv, NEW t \in Thread, call[t] # "waiting",
           \A u \in Thread \ {t} : at'[u] = at[u] /\ call'[u] = call[u] /\ handle'[u] = handle[u]
                                   /\ draft'[u] = draft[u],
           at'["exit"] = "idle" => at["exit"] = "idle",
           UNCHANGED <<inbox, replies, current>>,
           Connected(current)' => Connected(current)
    PROVE  Wire'
<1>. SUFFICES ASSUME Calm' PROVE Wire' BY DEF Wire
<1>1. Calm BY DEF Calm
<1>2. \A u \in Waiting(current) : u # t /\ u \in Waiting(current)'
                                  /\ at'[u] = at[u] /\ draft'[u] = draft[u]
    BY DEF Waiting
<1>. QED BY <1>1, <1>2 DEF IInv, Wire

\* Nor is the desktop its concern, if it prepares no candidate.
LEMMA DesktopKept ==
    ASSUME IInv, NEW t \in Thread, at[t] \notin Preparing, at'[t] \notin Preparing,
           \A u \in Thread \ {t} : at'[u] = at[u] /\ draft'[u] = draft[u]
                                   /\ previous'[u] = previous[u],
           at'["exit"] = "idle" => at["exit"] = "idle", overlapped => overlapped',
           UNCHANGED <<hotkeys, os>>
    PROVE  Desktop'
<1>. SUFFICES ASSUME at["exit"] = "idle", ~overlapped PROVE Desktop' BY DEF Desktop
<1>1. \A u \in Thread : at'[u] \in Preparing =>
          at[u] \in Preparing /\ draft'[u] = draft[u] /\ previous'[u] = previous[u]
    OBVIOUS
<1>2. \A u \in Thread : at[u] \in Preparing => at'[u] \in Preparing
    OBVIOUS
<1>. QED BY <1>1, <1>2 DEF IInv, Desktop

\* Of the requests that are asked at a start only one thread makes any.
LEMMA OnlyOneStarts ==
    ASSUME IInv, ~overlapped, NEW t \in {"startup", "retry"}, at[t] \in Starting,
           NEW u \in Thread, u # t
    PROVE  at[u] \notin Starting
BY DEF IInv, Ways, Exclusion, Starting, Editing, Stopping, Thread

\* Nor does more than one prepare a candidate.
LEMMA OnlyOnePrepares ==
    ASSUME IInv, ~overlapped, NEW t \in Thread, at[t] \in Preparing \cup {"register", "prepare"},
           NEW u \in Thread, u # t
    PROVE  at[u] \notin Preparing
BY DEF IInv, Ways, Exclusion, Starting, Editing, Stopping, Thread, Preparing

LEMMA NoOtherReply ==
    ASSUME IInv, Calm, ~overlapped, NEW t \in {"startup", "retry"}, at[t] \in Starting,
           call[t] # "waiting"
    PROVE  \A r \in replies[current] : r[2] \notin Starting
<1>1. \A r \in replies[current] : r[1] \in Thread /\ r[1] # t /\ r[2] = at[r[1]]
    BY DEF IInv, Wire, Waiting
<1>. QED BY <1>1, OnlyOneStarts

LEMMA NoOtherCommit ==
    ASSUME IInv, Calm, call["edit"] # "waiting" \/ at["edit"] # "commit"
    PROVE  \A r \in replies[current] : r[2] # "commit"
BY DEF IInv, Wire, Waiting, Ways, Starting, Stopping, Thread

-----------------------------------------------------------------------------
(* Starting a service *)

LEMMA HandshakeInvariant ==
    ASSUME IInv, NEW t \in {"startup", "retry"}, Handshake(t)
    PROVE  IInv'
<1>1. Types' BY DEF IInv, Types, Handshake, Started, Proceed, wire, owner, shortcuts,
            Place, Requests
<1>2. Ways' BY DEF IInv, Types, Ways, Handshake, Started, Proceed, Starting, Thread
<1>3. Exclusion' BY DEF IInv, Types, Exclusion, Handshake, Started, Proceed, owner, Thread
<1>4. Handles'
    BY DEF IInv, Types, Handles, Handshake, Started, Proceed, wire, owner, Ways, Stopping,
            Thread
<1>5. Owned'
    BY DEF IInv, Types, Owned, Handshake, Started, Proceed, wire, owner, Thread, Live
<1>6. Wire'
    BY WireKept
        DEF IInv, Types, Answered, Thread, Connected, Handshake, Proceed, wire, owner
<1>7. Desktop'
    BY DesktopKept
        DEF IInv, Types, Preparing, Thread, Handshake, Started, Proceed, owner, shortcuts
<1>8. Stored'
    <2>. SUFFICES ASSUME Calm', ~overlapped'
                  PROVE  (Begun("startup") /\ Begun("retry") /\ Persisted /\ Agreed)'
        BY DEF Stored
    <2>1. Calm /\ ~overlapped /\ Begun("startup") /\ Begun("retry") /\ Persisted /\ Agreed
        BY DEF IInv, Stored, Types, Calm, Connected, Thread, Handshake, Proceed, wire, owner
    <2>2. Begun("startup")'
        BY <2>1, NoOtherReply
            DEF IInv, Types, Exclusion, Starting, Thread, Begun, Handshake, Started,
                Proceed, wire, owner
    <2>3. Begun("retry")'
        BY <2>1, NoOtherReply
            DEF IInv, Types, Exclusion, Starting, Thread, Begun, Handshake, Started,
                Proceed, wire, owner
    <2>4. Persisted'
        BY <2>1 DEF IInv, Types, Ways, Exclusion, Thread, Persisted, Handshake, Proceed
    <2>5. Agreed'
        BY <2>1 DEF IInv, Types, Agreed, Handshake, Proceed
    <2>. QED BY <2>2, <2>3, <2>4, <2>5
<1>. QED BY <1>1, <1>2, <1>3, <1>4, <1>5, <1>6, <1>7, <1>8 DEF IInv

LEMMA SettledInvariant ==
    ASSUME IInv, NEW t \in Thread, Settled(t)
    PROVE  IInv'
<1>1. Types' BY DEF IInv, Types, Settled, Proceed, wire, owner, shortcuts, Place
<1>2. Ways' BY DEF IInv, Types, Ways, Settled, Proceed, Starting, Editing, Stopping
<1>3. Exclusion' BY DEF IInv, Exclusion, Settled, Proceed, owner, Editing
<1>4. Handles' BY DEF IInv, Handles, Settled, Proceed, wire, owner, Starting, Stopping
<1>5. Owned' BY DEF IInv, Owned, Settled, Proceed, wire, owner, Live
<1>6. Wire'
    BY WireKept DEF Answered, Connected, Settled, Proceed, wire, owner
<1>7. Desktop'
    BY DesktopKept
        DEF IInv, Types, Preparing, Thread, Settled, Proceed, owner, shortcuts
<1>8. Stored'
    <2>. SUFFICES ASSUME Calm', ~overlapped'
                  PROVE  (Begun("startup") /\ Begun("retry") /\ Persisted /\ Agreed)'
        BY DEF Stored
    <2>1. Calm /\ ~overlapped /\ Begun("startup") /\ Begun("retry") /\ Persisted /\ Agreed
        BY DEF IInv, Stored, Calm, Connected, Settled, Proceed, wire, owner
    <2>2. Begun("startup")'
        BY <2>1 DEF IInv, Ways, Exclusion, Stopping, Thread, Begun, Settled, Proceed
    <2>3. Begun("retry")'
        BY <2>1 DEF IInv, Ways, Exclusion, Stopping, Thread, Begun, Settled, Proceed
    <2>4. Persisted'
        BY <2>1 DEF IInv, Ways, Exclusion, Stopping, Thread, Persisted, Settled, Proceed
    <2>5. Agreed'
        BY <2>1
            DEF IInv, Ways, Exclusion, Starting, Stopping, Thread, Agreed, Undecided,
                Settled, shortcuts
    <2>. QED BY <2>2, <2>3, <2>4, <2>5
<1>. QED BY <1>1, <1>2, <1>3, <1>4, <1>5, <1>6, <1>7, <1>8 DEF IInv

LEMMA ConfiguredInvariant ==
    ASSUME IInv, NEW t \in {"startup", "retry"}, Configured(t)
    PROVE  IInv'
<1>1. Types'
    BY DEF IInv, Types, Configured, Proceed, wire, owner, shortcuts, Place, Requests
<1>2. Ways' BY DEF IInv, Types, Ways, Configured, Proceed, Starting
<1>3. Exclusion' BY DEF IInv, Exclusion, Configured, Proceed, owner
<1>4. Handles' BY DEF IInv, Handles, Configured, Proceed, wire, owner, Ways, Stopping
<1>5. Owned' BY DEF IInv, Owned, Configured, Proceed, wire, owner, Live
<1>6. Wire'
    BY WireKept DEF Answered, Thread, Connected, Configured, Proceed, wire, owner
<1>7. Desktop'
    BY DesktopKept
        DEF IInv, Types, Preparing, Thread, Configured, Proceed, owner, shortcuts
<1>8. Stored'
    <2>. SUFFICES ASSUME Calm', ~overlapped'
                  PROVE  (Begun("startup") /\ Begun("retry") /\ Persisted /\ Agreed)'
        BY DEF Stored
    <2>1. Calm /\ ~overlapped /\ Begun("startup") /\ Begun("retry") /\ Persisted /\ Agreed
        BY DEF IInv, Stored, Calm, Connected, Configured, Proceed, wire, owner
    <2>2. Begun("startup")'
        BY <2>1
            DEF IInv, Types, Exclusion, Thread, Begun, Configured, Proceed, shortcuts,
                Answered
    <2>3. Begun("retry")'
        BY <2>1
            DEF IInv, Types, Exclusion, Thread, Begun, Configured, Proceed, shortcuts,
                Answered
    <2>4. Persisted'
        BY <2>1 DEF IInv, Ways, Exclusion, Persisted, Configured, Proceed
    <2>5. Agreed'
        BY <2>1 DEF Agreed, Configured, Proceed
    <2>. QED BY <2>2, <2>3, <2>4, <2>5
<1>. QED BY <1>1, <1>2, <1>3, <1>4, <1>5, <1>6, <1>7, <1>8 DEF IInv

LEMMA ReplacePreparedInvariant ==
    ASSUME IInv, NEW t \in {"startup", "retry"}, ReplacePrepared(t)
    PROVE  IInv'
<1>0. /\ at[t] = "register" /\ call[t] = "none" /\ call' = [call EXCEPT ![t] = "none"]
      /\ \/ at' = [at EXCEPT ![t] = "replacing"] /\ Registers(t) /\ UNCHANGED refused
         \/ /\ at' = [at EXCEPT ![t] = "again"] /\ UNCHANGED <<os, previous>>
            /\ refused' = [refused EXCEPT ![t] = TRUE]
      /\ UNCHANGED <<wire, handle, draft, owner, status, hotkeys, stored, denied>>
    BY DEF IInv, Ways, Requests, Thread, ReplacePrepared, Proceed, Conflicts
<1>1. Types'
    <2>1. DOMAIN previous' = Thread /\ DOMAIN refused' = Thread
        BY <1>0 DEF IInv, Types, Registers
    <2>2. at' \in [Thread -> Place] BY <1>0 DEF IInv, Types, Place, Requests
    <2>3. call' \in [Thread -> {"none", "waiting", "ok", "failed"}] BY <1>0 DEF IInv, Types
    <2>. QED BY <1>0, <2>1, <2>2, <2>3 DEF IInv, Types, wire, owner
<1>2. Ways' BY <1>0 DEF IInv, Types, Ways, Starting, Requests, wire, Thread
<1>3. Exclusion' BY <1>0 DEF IInv, Types, Exclusion, Thread, owner
<1>4. Handles' BY <1>0 DEF IInv, Types, Handles, wire, owner, Thread, Starting, Stopping
<1>5. Owned' BY <1>0 DEF IInv, Types, Owned, wire, owner, Live, Thread
<1>6. Wire'
    BY <1>0, WireKept DEF IInv, Types, Thread, Connected, wire, owner
<1>7. Desktop'
    <2>. SUFFICES ASSUME at["exit"] = "idle", ~overlapped PROVE Desktop'
        BY <1>0 DEF IInv, Types, Desktop, owner, Thread
    <2>1. \A u \in Thread : at[u] \notin Preparing
        BY <1>0, OnlyOnePrepares DEF Preparing, Thread
    <2>2. os = hotkeys /\ \A u \in Thread \ {t} : at'[u] = at[u]
        BY <1>0, <2>1 DEF IInv, Types, Desktop
    <2>3. CASE at' = [at EXCEPT ![t] = "replacing"] /\ Registers(t)
        <3>1. \A u \in Thread : at'[u] \in Preparing => u = t BY <2>1, <2>2
        <3>2. previous'[t] = hotkeys BY <2>3 DEF IInv, Types, Registers, Thread
        <3>3. os' = hotkeys \cup draft[t] BY <2>2, <2>3 DEF Registers, New
        <3>4. t \in Thread /\ at'[t] \in Preparing
            BY <2>3 DEF IInv, Types, Preparing, Thread
        <3>. QED BY <1>0, <3>1, <3>2, <3>3, <3>4 DEF Desktop
    <2>4. CASE at' = [at EXCEPT ![t] = "again"] /\ UNCHANGED <<os, previous>>
        BY <1>0, <2>1, <2>2, <2>4 DEF IInv, Types, Desktop, Thread, Preparing
    <2>. QED BY <1>0, <2>3, <2>4
<1>8. Stored'
    <2>. SUFFICES ASSUME Calm', ~overlapped'
                  PROVE  (Begun("startup") /\ Begun("retry") /\ Persisted /\ Agreed)'
        BY DEF Stored
    <2>1. Calm /\ ~overlapped /\ Begun("startup") /\ Begun("retry") /\ Persisted /\ Agreed
        BY <1>0 DEF IInv, Types, Stored, Calm, Connected, wire, owner, Thread
    <2>2. Begun("startup")' /\ Begun("retry")'
        BY <1>0, <2>1 DEF IInv, Types, Begun, Thread, wire, owner
    <2>3. Persisted'
        BY <1>0, <2>1 DEF IInv, Types, Persisted, Thread, wire, owner
    <2>4. Agreed'
        BY <1>0, <2>1 DEF IInv, Types, Agreed, Undecided, Thread, wire, owner
    <2>. QED BY <2>2, <2>3, <2>4
<1>. QED BY <1>1, <1>2, <1>3, <1>4, <1>5, <1>6, <1>7, <1>8 DEF IInv

LEMMA ReplaceCommittedInvariant ==
    ASSUME IInv, NEW t \in {"startup", "retry"}, ReplaceCommitted(t)
    PROVE  IInv'
<1>1. Types'
    BY DEF IInv, Types, ReplaceCommitted, Commit, Proceed, wire, owner, Place, Requests
<1>2. Ways' BY DEF IInv, Types, Ways, ReplaceCommitted, Proceed, Starting
<1>3. Exclusion' BY DEF IInv, Exclusion, ReplaceCommitted, Proceed, owner
<1>4. Handles' BY DEF IInv, Handles, ReplaceCommitted, Proceed, wire, owner, Ways, Stopping
<1>5. Owned' BY DEF IInv, Owned, ReplaceCommitted, Proceed, wire, owner, Live
<1>6. Wire'
    BY WireKept
        DEF IInv, Ways, Requests, Thread, Connected, ReplaceCommitted, Proceed, wire, owner
<1>7. Desktop'
    <2>. SUFFICES ASSUME at["exit"] = "idle", ~overlapped PROVE Desktop'
        BY DEF IInv, Types, Desktop, ReplaceCommitted, Proceed, owner, Thread
    <2>1. \A u \in Thread : at'[u] \notin Preparing
        BY OnlyOnePrepares DEF IInv, Types, ReplaceCommitted, Proceed, Preparing, Thread
    <2>2. previous[t] = hotkeys /\ os = hotkeys \cup draft[t]
        BY DEF IInv, Desktop, ReplaceCommitted, Preparing, Thread
    <2>. QED BY <2>1, <2>2 DEF Desktop, ReplaceCommitted, Commit, Released
<1>8. Stored'
    <2>. SUFFICES ASSUME Calm', ~overlapped'
                  PROVE  (Begun("startup") /\ Begun("retry") /\ Persisted /\ Agreed)'
        BY DEF Stored
    <2>1. Calm /\ ~overlapped /\ Begun("startup") /\ Begun("retry") /\ Persisted /\ Agreed
        BY DEF IInv, Stored, Calm, Connected, ReplaceCommitted, Proceed, wire, owner
    <2>2. Begun("startup")'
        BY <2>1 DEF IInv, Types, Exclusion, Begun, ReplaceCommitted, Commit, Proceed
    <2>3. Begun("retry")'
        BY <2>1 DEF IInv, Types, Exclusion, Begun, ReplaceCommitted, Commit, Proceed
    <2>4. Persisted'
        BY <2>1 DEF IInv, Ways, Exclusion, Editing, Persisted, ReplaceCommitted, Proceed
    <2>5. Agreed'
        BY <2>1 DEF IInv, Ways, Agreed, Undecided, ReplaceCommitted, Commit, Proceed, wire
    <2>. QED BY <2>2, <2>3, <2>4, <2>5
<1>. QED BY <1>1, <1>2, <1>3, <1>4, <1>5, <1>6, <1>7, <1>8 DEF IInv

LEMMA PresentReadyInvariant ==
    ASSUME IInv, NEW t \in {"startup", "retry"}, PresentReady(t)
    PROVE  IInv'
<1>1. Types'
    BY DEF IInv, Types, PresentReady, Started, Proceed, wire, owner, shortcuts, Place,
            Requests
<1>2. Ways' BY DEF IInv, Types, Ways, PresentReady, Started, Proceed
<1>3. Exclusion' BY DEF IInv, Exclusion, PresentReady, Started, Proceed, owner
<1>4. Handles'
    BY DEF IInv, Handles, PresentReady, Started, Proceed, wire, owner, Ways, Stopping
<1>5. Owned' BY DEF IInv, Owned, PresentReady, Started, Proceed, wire, owner, Live
<1>6. Wire'
    BY WireKept
        DEF IInv, Ways, Requests, Thread, Connected, PresentReady, Proceed, wire, owner
<1>7. Desktop'
    BY DesktopKept
        DEF IInv, Types, Preparing, Thread, PresentReady, Started, Proceed, owner
<1>8. Stored'
    <2>. SUFFICES ASSUME Calm', ~overlapped'
                  PROVE  (Begun("startup") /\ Begun("retry") /\ Persisted /\ Agreed)'
        BY DEF Stored
    <2>1. Calm /\ ~overlapped /\ Begun("startup") /\ Begun("retry") /\ Persisted /\ Agreed
        BY DEF IInv, Stored, Calm, Connected, PresentReady, Proceed, wire, owner
    <2>2. Begun("startup")'
        BY <2>1 DEF IInv, Types, Exclusion, Thread, Begun, PresentReady, Started, Proceed
    <2>3. Begun("retry")'
        BY <2>1 DEF IInv, Types, Exclusion, Thread, Begun, PresentReady, Started, Proceed
    <2>4. Persisted'
        BY <2>1 DEF IInv, Ways, Exclusion, Persisted, PresentReady, Proceed
    <2>5. Agreed'
        BY <2>1 DEF Agreed, PresentReady, shortcuts, Begun
    <2>. QED BY <2>2, <2>3, <2>4, <2>5
<1>. QED BY <1>1, <1>2, <1>3, <1>4, <1>5, <1>6, <1>7, <1>8 DEF IInv

-----------------------------------------------------------------------------
(* Editing the shortcuts *)

LEMMA EditAskedInvariant ==
    ASSUME IInv, NEW t \in Thread, EditAsked(t)
    PROVE  IInv'
<1>1. Types' BY DEF IInv, Types, EditAsked, wire, owner, shortcuts, Place
<1>2. Ways' BY DEF IInv, Types, Ways, EditAsked, shortcuts, Requests
<1>3. Exclusion' BY DEF IInv, Exclusion, EditAsked, owner, Editing
<1>4. Handles' BY DEF IInv, Types, Handles, EditAsked, wire, owner
<1>5. Owned' BY DEF IInv, Owned, EditAsked, wire, owner, Live
<1>6. Wire'
    BY WireKept DEF IInv, Types, Ways, Requests, Connected, EditAsked, wire, owner
<1>7. Desktop'
    BY DesktopKept DEF IInv, Types, Preparing, Thread, EditAsked, owner, shortcuts
<1>8. Stored'
    <2>. SUFFICES ASSUME Calm', ~overlapped'
                  PROVE  (Begun("startup") /\ Begun("retry") /\ Persisted /\ Agreed)'
        BY DEF Stored
    <2>1. Calm /\ ~overlapped /\ Begun("startup") /\ Begun("retry") /\ Persisted /\ Agreed
        BY DEF IInv, Stored, Calm, Connected, EditAsked, wire, owner
    <2>2. Begun("startup")'
        BY <2>1 DEF IInv, Types, Thread, Begun, EditAsked, wire, owner, shortcuts
    <2>3. Begun("retry")'
        BY <2>1 DEF IInv, Types, Thread, Begun, EditAsked, wire, owner, shortcuts
    <2>4. Persisted'
        BY <2>1 DEF Persisted, EditAsked
    <2>5. Agreed'
        BY <2>1 DEF Agreed, Undecided, EditAsked, shortcuts
    <2>. QED BY <2>2, <2>3, <2>4, <2>5
<1>. QED BY <1>1, <1>2, <1>3, <1>4, <1>5, <1>6, <1>7, <1>8 DEF IInv

LEMMA EditBeginsInvariant ==
    ASSUME IInv, NEW t \in Thread, EditBegins(t)
    PROVE  IInv'
<1>0. ~overlapped' => ~overlapped /\ at["startup"] = "idle" BY DEF EditBegins, Overlaps
<1>1. Types' BY DEF IInv, Types, EditBegins, Overlaps, wire, shortcuts, Place, Requests
<1>2. Ways' BY DEF IInv, Ways, EditBegins, Editing, Requests
<1>3. Exclusion' BY <1>0 DEF IInv, Types, Exclusion, EditBegins, Editing
<1>4. Handles' BY <1>0 DEF IInv, Types, Handles, EditBegins, wire, Ways, Requests
<1>5. Owned' BY DEF IInv, Owned, EditBegins, wire, Live
<1>6. Wire'
    BY WireKept DEF IInv, Ways, Requests, Connected, EditBegins, wire
<1>7. Desktop'
    BY DesktopKept DEF IInv, Types, Preparing, Thread, EditBegins, Overlaps, shortcuts
<1>8. Stored'
    <2>. SUFFICES ASSUME Calm', ~overlapped'
                  PROVE  (Begun("startup") /\ Begun("retry") /\ Persisted /\ Agreed)'
        BY DEF Stored
    <2>1. Calm /\ ~overlapped /\ Begun("startup") /\ Begun("retry") /\ Persisted /\ Agreed
        BY <1>0 DEF IInv, Types, Stored, Calm, Connected, EditBegins, wire
    <2>2. Begun("startup")'
        BY <1>0, <2>1 DEF IInv, Types, Thread, Begun, EditBegins, wire, shortcuts
    <2>3. Begun("retry")'
        BY <2>1 DEF IInv, Exclusion, Begun, EditBegins
    <2>4. Persisted'
        BY <2>1 DEF Persisted, EditBegins
    <2>5. Agreed'
        BY <2>1 DEF Agreed, Undecided, EditBegins, shortcuts
    <2>. QED BY <2>2, <2>3, <2>4, <2>5
<1>. QED BY <1>1, <1>2, <1>3, <1>4, <1>5, <1>6, <1>7, <1>8 DEF IInv

LEMMA EditPreparedInvariant ==
    ASSUME IInv, NEW t \in Thread, EditPrepared(t)
    PROVE  IInv'
<1>1. Types' BY DEF IInv, Types, EditPrepared, Proceed, Registers, Conflicts, wire, owner,
            Place, Requests
<1>2. Ways'
    BY DEF IInv, Types, Ways, EditPrepared, Proceed, Starting, Editing, Stopping, Thread
<1>3. Exclusion'
    BY DEF IInv, Types, Exclusion, EditPrepared, Proceed, owner, Editing, Thread
<1>4. Handles'
    BY DEF IInv, Types, Handles, EditPrepared, Proceed, wire, owner, Ways, Starting, Thread
<1>5. Owned' BY DEF IInv, Types, Owned, EditPrepared, Proceed, wire, owner, Thread, Live
<1>6. Wire'
    BY WireKept
        DEF IInv, Types, Answered, Thread, Connected, EditPrepared, Proceed, wire, owner
<1>7. Desktop'
    <2>. SUFFICES ASSUME at["exit"] = "idle", ~overlapped PROVE Desktop'
        BY DEF IInv, Types, Ways, Stopping, Thread, Desktop, EditPrepared, Proceed, owner
    <2>1. \A u \in Thread : at[u] \notin Preparing
        BY OnlyOnePrepares DEF EditPrepared, Preparing, Thread
    <2>2. os = hotkeys /\ \A u \in Thread \ {t} : at'[u] = at[u]
        BY <2>1 DEF IInv, Types, Desktop, EditPrepared, Proceed
    <2>3. CASE at' = [at EXCEPT ![t] = "commit"] /\ Registers(t)
        <3>1. \A u \in Thread : at'[u] \in Preparing => u = t BY <2>1, <2>2
        <3>2. previous'[t] = hotkeys BY <2>3 DEF IInv, Types, Registers
        <3>3. os' = hotkeys \cup draft[t] BY <2>2, <2>3 DEF Registers, New
        <3>4. at'[t] \in Preparing BY <2>3 DEF IInv, Types, Preparing
        <3>. QED BY <3>1, <3>2, <3>3, <3>4 DEF Desktop, EditPrepared
    <2>4. CASE /\ \E x \in {"abort", "release"} : at' = [at EXCEPT ![t] = x]
               /\ UNCHANGED <<os, previous>>
        BY <2>1, <2>2, <2>4 DEF IInv, Types, Desktop, EditPrepared, Thread, Preparing
    <2>. QED BY <2>3, <2>4 DEF EditPrepared, Proceed, Conflicts
<1>8. Stored'
    <2>. SUFFICES ASSUME Calm', ~overlapped'
                  PROVE  (Begun("startup") /\ Begun("retry") /\ Persisted /\ Agreed)'
        BY DEF Stored
    <2>1. Calm /\ ~overlapped /\ Begun("startup") /\ Begun("retry") /\ Persisted /\ Agreed
        BY DEF IInv, Stored, Types, Calm, Connected, Thread, EditPrepared, Proceed, wire,
                owner
    <2>2. Begun("startup")'
        BY <2>1
            DEF IInv, Types, Ways, Exclusion, Stopping, Thread, Begun, EditPrepared, Proceed
    <2>3. Begun("retry")'
        BY <2>1
            DEF IInv, Types, Ways, Exclusion, Stopping, Thread, Begun, EditPrepared, Proceed
    <2>4. Persisted'
        BY <2>1, NoOtherCommit
            DEF IInv, Types, Thread, Persisted, EditPrepared, Proceed, wire, owner
    <2>5. Agreed'
        BY <2>1
            DEF IInv, Ways, Exclusion, Starting, Stopping, Thread, Agreed, Undecided,
                EditPrepared
    <2>. QED BY <2>2, <2>3, <2>4, <2>5
<1>. QED BY <1>1, <1>2, <1>3, <1>4, <1>5, <1>6, <1>7, <1>8 DEF IInv

LEMMA EditCommittedInvariant ==
    ASSUME IInv, NEW t \in Thread, EditCommitted(t)
    PROVE  IInv'
<1>1. Types' BY DEF IInv, Types, EditCommitted, Proceed, wire, owner, Place, Requests
<1>2. Ways'
    BY DEF IInv, Types, Ways, EditCommitted, Proceed, Starting, Editing, Stopping, Thread
<1>3. Exclusion'
    BY DEF IInv, Types, Exclusion, EditCommitted, Proceed, owner, Editing, Thread
<1>4. Handles'
    BY DEF IInv, Types, Handles, EditCommitted, Proceed, wire, owner, Ways, Starting, Thread
<1>5. Owned' BY DEF IInv, Types, Owned, EditCommitted, Proceed, wire, owner, Thread, Live
<1>6. Wire'
    BY WireKept
        DEF IInv, Types, Answered, Thread, Connected, EditCommitted, Proceed, wire, owner
<1>7. Desktop'
    <2>. SUFFICES ASSUME at["exit"] = "idle", ~overlapped PROVE Desktop'
        BY DEF IInv, Types, Ways, Stopping, Thread, Desktop, EditCommitted, Proceed, owner
    <2>1. \A u \in Thread : at'[u] \notin Preparing
        BY OnlyOnePrepares DEF IInv, Types, EditCommitted, Proceed, Preparing, Thread
    <2>2. previous[t] = hotkeys /\ os = hotkeys \cup draft[t]
        BY DEF IInv, Desktop, EditCommitted, Preparing
    <2>. QED BY <2>1, <2>2 DEF Desktop, EditCommitted, Commit, Abort, Added, Released
<1>8. Stored'
    <2>. SUFFICES ASSUME Calm', ~overlapped'
                  PROVE  (Begun("startup") /\ Begun("retry") /\ Persisted /\ Agreed)'
        BY DEF Stored
    <2>1. Calm /\ ~overlapped /\ Begun("startup") /\ Begun("retry") /\ Persisted /\ Agreed
        BY DEF IInv, Stored, Types, Calm, Connected, Thread, EditCommitted, Proceed, wire,
                owner
    <2>2. Begun("startup")'
        BY <2>1
            DEF IInv, Types, Ways, Exclusion, Stopping, Thread, Begun, EditCommitted,
                Proceed
    <2>3. Begun("retry")'
        BY <2>1
            DEF IInv, Types, Ways, Exclusion, Stopping, Thread, Begun, EditCommitted,
                Proceed
    <2>4. Persisted'
        BY <2>1
            DEF IInv, Types, Ways, Exclusion, Stopping, Thread, Persisted, EditCommitted,
                Proceed
    <2>5. Agreed'
        BY <2>1
            DEF IInv, Ways, Exclusion, Starting, Stopping, Thread, Agreed, Undecided,
                EditCommitted, Commit, Abort, Answered, Persisted
    <2>. QED BY <2>2, <2>3, <2>4, <2>5
<1>. QED BY <1>1, <1>2, <1>3, <1>4, <1>5, <1>6, <1>7, <1>8 DEF IInv

LEMMA ReleaseInvariant ==
    ASSUME IInv, NEW t \in Thread, Release(t)
    PROVE  IInv'
<1>1. Types' BY DEF IInv, Types, Release, Proceed, wire, Place
<1>2. Ways' BY DEF IInv, Types, Ways, Release, Proceed
<1>3. Exclusion'
    BY DEF IInv, Types, Exclusion, Release, Proceed, Ways, Editing, Stopping, Starting, Thread
<1>4. Handles' BY DEF IInv, Types, Handles, Release, Proceed, wire, Starting, Stopping
<1>5. Owned' BY DEF IInv, Owned, Release, Proceed, wire, Live
<1>6. Wire'
    BY WireKept DEF IInv, Ways, Requests, Connected, Release, Proceed, wire, Stopping
<1>7. Desktop'
    BY DesktopKept DEF IInv, Types, Preparing, Thread, Release, Proceed, Ways, Stopping
<1>8. Stored'
    <2>. SUFFICES ASSUME Calm', ~overlapped'
                  PROVE  (Begun("startup") /\ Begun("retry") /\ Persisted /\ Agreed)'
        BY DEF Stored
    <2>1. Calm /\ ~overlapped /\ Begun("startup") /\ Begun("retry") /\ Persisted /\ Agreed
        BY DEF IInv, Stored, Calm, Connected, Release, Proceed, wire, Ways, Stopping
    <2>2. Begun("startup")'
        BY <2>1 DEF IInv, Ways, Exclusion, Stopping, Thread, Begun, Release, Proceed
    <2>3. Begun("retry")'
        BY <2>1 DEF IInv, Ways, Exclusion, Stopping, Thread, Begun, Release, Proceed
    <2>4. Persisted'
        BY <2>1 DEF IInv, Ways, Exclusion, Stopping, Thread, Persisted, Release, Proceed
    <2>5. Agreed'
        BY <2>1
            DEF IInv, Ways, Exclusion, Starting, Stopping, Thread, Agreed, Undecided,
                Release, shortcuts
    <2>. QED BY <2>2, <2>3, <2>4, <2>5
<1>. QED BY <1>1, <1>2, <1>3, <1>4, <1>5, <1>6, <1>7, <1>8 DEF IInv

-----------------------------------------------------------------------------
(* Stopping, restarting and leaving *)

LEMMA StopAskedInvariant ==
    ASSUME IInv, NEW t \in Thread, StopAsked(t)
    PROVE  IInv'
<1>1. Types' BY DEF IInv, Types, StopAsked, Proceed, wire, owner, shortcuts, Place, Requests
<1>2. Ways' BY DEF IInv, Types, Ways, StopAsked, Proceed, Starting, Editing, Stopping
<1>3. Exclusion' BY DEF IInv, Exclusion, StopAsked, Proceed, owner, Editing
<1>4. Handles'
    BY HostAssumption
        DEF IInv, Types, Handles, StopAsked, Proceed, owner, Ways, Starting, Service
<1>5. Owned' BY DEF IInv, Owned, StopAsked, Proceed, owner, Live
<1>6. Wire'
    BY WireKept DEF Answered, Connected, StopAsked, Proceed, owner
<1>7. Desktop'
    BY DesktopKept
        DEF IInv, Types, Preparing, Thread, StopAsked, Proceed, owner, shortcuts
<1>8. Stored'
    <2>. SUFFICES ASSUME Calm', ~overlapped'
                  PROVE  (Begun("startup") /\ Begun("retry") /\ Persisted /\ Agreed)'
        BY DEF Stored
    <2>1. Calm /\ ~overlapped /\ Begun("startup") /\ Begun("retry") /\ Persisted /\ Agreed
        BY DEF IInv, Stored, Calm, Connected, StopAsked, Proceed, owner
    <2>2. Begun("startup")'
        BY <2>1 DEF Begun, StopAsked, Proceed, owner, shortcuts
    <2>3. Begun("retry")'
        BY <2>1 DEF Begun, StopAsked, Proceed, owner, shortcuts
    <2>4. Persisted'
        BY <2>1 DEF Persisted, StopAsked, Proceed, owner, shortcuts
    <2>5. Agreed'
        BY <2>1 DEF Agreed, Undecided, StopAsked, Proceed, owner, shortcuts
    <2>. QED BY <2>2, <2>3, <2>4, <2>5
<1>. QED BY <1>1, <1>2, <1>3, <1>4, <1>5, <1>6, <1>7, <1>8 DEF IInv

LEMMA RetryBeginsInvariant ==
    ASSUME IInv, NEW t \in Thread, RetryBegins(t)
    PROVE  IInv'
<1>0. ~overlapped' => ~overlapped /\ at["startup"] = "idle" BY DEF RetryBegins, Overlaps
<1>1. Types' BY DEF IInv, Types, RetryBegins, Overlaps, wire, shortcuts, Place,
            Requests
<1>2. Ways' BY DEF IInv, Ways, RetryBegins, Stopping, Requests
<1>3. Exclusion' BY <1>0 DEF IInv, Types, Exclusion, RetryBegins
<1>4. Handles' BY <1>0 DEF IInv, Types, Handles, RetryBegins, wire
<1>5. Owned' BY HostAssumption DEF IInv, Owned, RetryBegins, wire, Live, Service
<1>6. Wire'
    BY WireKept DEF IInv, Ways, Requests, Connected, RetryBegins, wire
<1>7. Desktop'
    BY DesktopKept DEF IInv, Types, Preparing, Thread, RetryBegins, Overlaps, shortcuts
<1>8. ~Calm' BY DEF Calm, Connected, RetryBegins, wire
<1>9. Stored' BY <1>8 DEF Stored
<1>. QED BY <1>1, <1>2, <1>3, <1>4, <1>5, <1>6, <1>7, <1>9 DEF IInv

LEMMA ExitInvariant ==
    ASSUME IInv, NEW t \in Thread, Exit(t)
    PROVE  IInv'
<1>1. Types' BY DEF IInv, Types, Exit, wire, owner, Place, Requests
<1>2. Ways' BY DEF IInv, Ways, Exit, Stopping, Requests
<1>3. Exclusion' BY DEF IInv, Exclusion, Exit, owner
<1>4. Handles' BY DEF IInv, Types, Handles, Exit, wire, owner
<1>5. Owned' BY DEF IInv, Owned, Exit, wire, owner, Live
<1>6. Wire'
    BY WireKept DEF IInv, Ways, Requests, Connected, Exit, wire, owner
<1>7. Desktop' BY DEF IInv, Types, Desktop, Exit
<1>8. Stored'
    <2>. SUFFICES ASSUME Calm', ~overlapped'
                  PROVE  (Begun("startup") /\ Begun("retry") /\ Persisted /\ Agreed)'
        BY DEF Stored
    <2>1. Calm /\ ~overlapped /\ Begun("startup") /\ Begun("retry") /\ Persisted /\ Agreed
        BY DEF IInv, Types, Calm, Exit
    <2>2. Begun("startup")'
        BY <2>1 DEF Begun, Exit, wire, owner
    <2>3. Begun("retry")'
        BY <2>1 DEF Begun, Exit, wire, owner
    <2>4. Persisted'
        BY <2>1 DEF Persisted, Exit, wire, owner
    <2>5. Agreed'
        BY <2>1 DEF Agreed, Undecided, Exit, wire, owner
    <2>. QED BY <2>2, <2>3, <2>4, <2>5
<1>. QED BY <1>1, <1>2, <1>3, <1>4, <1>5, <1>6, <1>7, <1>8 DEF IInv

-----------------------------------------------------------------------------
(* Channels that fail *)

\* Everybody who waited on the channel is answered, and nothing else changes but
\* what is on it.
LEMMA FailFacts ==
    ASSUME IInv, NEW s \in Service, Fail(s)
    PROVE  /\ channel' \in [Service -> [failure : BOOLEAN, stopped : BOOLEAN]]
           /\ channel'[s].failure
           /\ \A x \in Service : channel'[x].stopped = channel[x].stopped
           /\ \A x \in Service \ {s} : channel'[x] = channel[x]
           /\ DOMAIN inbox' = Service /\ DOMAIN replies' = Service
           /\ inbox'[s] \subseteq inbox[s] /\ replies'[s] = {}
           /\ \A x \in Service \ {s} : inbox'[x] = inbox[x] /\ replies'[x] = replies[x]
           /\ call' \in [Thread -> {"none", "waiting", "ok", "failed"}]
           /\ \A t \in Thread : IF t \in Waiting(s) THEN call[t] = "waiting" /\ call'[t] = "failed"
                                ELSE call'[t] = call[t]
           /\ status' \in {status, "failed"}
<1>1. channel' = [channel EXCEPT ![s].failure = TRUE] BY DEF Fail, Failed
<1>2. call' = [t \in Thread |-> IF t \in Waiting(s) THEN "failed" ELSE call[t]] BY DEF Fail
<1>3. inbox'[s] \subseteq inbox[s] BY DEF Fail, Failed, Commits
<1>4. /\ channel' \in [Service -> [failure : BOOLEAN, stopped : BOOLEAN]]
      /\ channel'[s].failure
      /\ \A x \in Service : channel'[x].stopped = channel[x].stopped
      /\ \A x \in Service \ {s} : channel'[x] = channel[x]
    BY <1>1 DEF IInv, Types
<1>5. /\ DOMAIN inbox' = Service /\ DOMAIN replies' = Service /\ replies'[s] = {}
      /\ \A x \in Service \ {s} : inbox'[x] = inbox[x] /\ replies'[x] = replies[x]
    BY DEF IInv, Types, Fail, Failed
<1>6. status' \in {status, "failed"} BY DEF Fail, Failed
<1>7. /\ call' \in [Thread -> {"none", "waiting", "ok", "failed"}]
      /\ \A t \in Thread : IF t \in Waiting(s) THEN call[t] = "waiting" /\ call'[t] = "failed"
                           ELSE call'[t] = call[t]
    BY <1>2 DEF IInv, Types, Waiting
<1>. QED BY <1>3, <1>4, <1>5, <1>6, <1>7

\* A failure that comes from outside, while the threads are where they are.
LEMMA FailKeeps ==
    ASSUME IInv, NEW s \in Service, Fail(s), s <= launched,
           process' \in [Service -> {"none", "running", "exited", "reaped"}],
           \A x \in Service : process[x] = "none" => process'[x] = "none",
           \A x \in Service : process'[x] \in {"running", "exited"} => Live(x),
           UNCHANGED <<at, handle, draft, refused, owner, shortcuts>>
    PROVE  IInv'
<1>. USE DEF owner, shortcuts
<1>1. Types' BY FailFacts DEF IInv, Types
<1>2. Ways' BY FailFacts DEF IInv, Types, Ways, Waiting
<1>3. Exclusion' BY DEF IInv, Exclusion
<1>4. Handles' BY FailFacts, HostAssumption DEF IInv, Types, Handles, Thread, Service
<1>5. Owned'
    <2>1. \A x \in Service : Live(x)' => Live(x) BY DEF Live
    <2>2. \A x \in Service : x > launched => x # s
        BY HostAssumption DEF IInv, Types, Service
    <2>. QED BY <2>1, <2>2, FailFacts DEF IInv, Owned
<1>6. Calm' => Calm /\ s # current /\ current \in Service
    BY FailFacts, HostAssumption DEF IInv, Types, Calm, Connected, Service
<1>7. Wire' BY <1>6, FailFacts DEF IInv, Wire, Waiting
<1>8. Desktop' BY DEF IInv, Desktop
<1>9. Stored'
    <2>. SUFFICES ASSUME Calm', ~overlapped'
         PROVE (Begun("startup") /\ Begun("retry") /\ Persisted /\ Agreed)'
        BY DEF Stored
    <2>1. Calm /\ ~overlapped /\ s # current /\ current \in Service BY <1>6
    <2>2. UNCHANGED <<inbox[current], replies[current]>> BY <2>1, FailFacts
    <2>3. \A t \in Thread : handle[t] = current => call'[t] = call[t]
        BY <2>1, FailFacts DEF Waiting
    <2>4. Begun("startup")' /\ Begun("retry")'
        BY <2>1, <2>2, <2>3 DEF IInv, Stored, Begun, Handles, Starting, Thread
    <2>5. Persisted'
        BY <2>1, <2>2, <2>3 DEF IInv, Stored, Persisted, Handles, Thread
    <2>6. Agreed'
        BY <2>1, <2>2, <2>3, FailFacts DEF IInv, Stored, Agreed, Undecided, Handles, Thread
    <2>. QED BY <2>4, <2>5, <2>6
<1>. QED BY <1>1, <1>2, <1>3, <1>4, <1>5, <1>7, <1>8, <1>9 DEF IInv

LEMMA TimeOutInvariant ==
    ASSUME IInv, NEW t \in Thread, TimeOut(t)
    PROVE  IInv'
<1>1. handle[t] \in Service /\ handle[t] <= launched
    BY HostAssumption DEF IInv, Types, Ways, TimeOut, Service
<1>2. process' = process BY DEF TimeOut
<1>. QED BY <1>1, <1>2, FailKeeps DEF IInv, Types, TimeOut, Live

LEMMA ReadEndInvariant ==
    ASSUME IInv, NEW s \in Service, ReadEnd(s)
    PROVE  IInv'
<1>1. s <= launched BY HostAssumption DEF IInv, Types, Owned, ReadEnd, Service
<1>2. process' = process BY DEF ReadEnd
<1>. QED BY <1>1, <1>2, FailKeeps DEF IInv, Types, ReadEnd, Live

\* A service that ends takes with it what it has not handled.
LEMMA EndsKeeps ==
    ASSUME IInv, NEW s \in Service, process[s] = "running", Ends(s),
           UNCHANGED <<channel, replies, threads, owner, status, shortcuts>>
    PROVE  IInv'
<1>. USE DEF threads, owner, shortcuts
<1>1. Types' BY DEF IInv, Types, Ends
<1>2. Ways' /\ Exclusion' /\ Handles' /\ Desktop'
    BY DEF IInv, Ways, Exclusion, Handles, Desktop
<1>3. Owned' BY DEF IInv, Owned, Ends, Live
<1>4. inbox'[current] \subseteq inbox[current] \/ current \notin Service
    BY DEF IInv, Types, Ends
<1>5. Calm' => Calm /\ current \in Service
    BY HostAssumption DEF IInv, Types, Calm, Connected, Service
<1>6. Wire' BY <1>4, <1>5 DEF IInv, Wire, Waiting
<1>7. Stored'
    BY <1>4, <1>5 DEF IInv, Stored, Begun, Persisted, Agreed, Undecided
<1>. QED BY <1>1, <1>2, <1>3, <1>6, <1>7 DEF IInv

LEMMA WatchInvariant ==
    ASSUME IInv, NEW s \in Service, Watch(s)
    PROVE  IInv'
<1>1. CASE process[s] = "running" /\ Ends(s) /\ UNCHANGED <<channel, replies, call, status>>
    BY <1>1, EndsKeeps DEF Watch, threads
<1>2. CASE process[s] = "exited" /\ process' = [process EXCEPT ![s] = "reaped"] /\ Fail(s)
    <2>0. ~(s > launched) BY <1>2 DEF IInv, Owned
    <2>1. s <= launched BY <2>0, HostAssumption DEF IInv, Types, Service
    <2>2. /\ process' \in [Service -> {"none", "running", "exited", "reaped"}]
          /\ \A x \in Service : process[x] = "none" => process'[x] = "none"
          /\ \A x \in Service : process'[x] \in {"running", "exited"} => Live(x)
        BY <1>2 DEF IInv, Types, Live
    <2>. QED BY <1>2, <2>1, <2>2, FailKeeps DEF Watch
<1>. QED BY <1>1, <1>2 DEF Watch

LEMMA ServiceDiesInvariant ==
    ASSUME IInv, NEW s \in Service, ServiceDies(s)
    PROVE  IInv'
BY EndsKeeps DEF ServiceDies

LEMMA ReapingInHand ==
    ASSUME IInv, NEW t \in Thread, at[t] = "reaping"
    PROVE  t \in {"retry", "exit"} /\ handle[t] \in Service /\ handle[t] <= launched
<1>1. t \in {"retry", "exit"}
    BY DEF IInv, Ways, Starting, Editing, Thread
<1>2. handle[t] # 0 BY <1>1 DEF IInv, Handles
<1>. QED BY <1>1, <1>2, HostAssumption DEF IInv, Types, Service

LEMMA StopKillsInvariant ==
    ASSUME IInv, NEW t \in Thread, StopKills(t)
    PROVE  IInv'
BY ReapingInHand, EndsKeeps DEF StopKills

\* stop() ends with the service reaped: when a restart did it, nothing is left alive.
LEMMA StopReapsInvariant ==
    ASSUME IInv, NEW t \in Thread, StopReaps(t)
    PROVE  IInv'
<1>. DEFINE s == handle[t]
<1>1. t \in {"retry", "exit"} /\ s \in Service /\ s <= launched /\ call[t] = "none"
    BY ReapingInHand DEF StopReaps, IInv, Ways, Requests
<1>2. Fail(s) BY DEF StopReaps
<1>. HIDE DEF s
<1>3. Types' BY <1>1, <1>2, FailFacts DEF IInv, Types, StopReaps, owner, shortcuts, s, Place
<1>4. Ways' BY <1>1, <1>2, FailFacts DEF IInv, Ways, StopReaps, Stopping
<1>5. Exclusion' BY <1>1 DEF IInv, Exclusion, StopReaps, owner
<1>6. Handles'
    BY <1>1, <1>2, FailFacts, HostAssumption
    DEF IInv, Types, Handles, StopReaps, Thread, Service, owner, Stopping
<1>7. Owned'
    <2>1. process'[s] = "reaped" BY <1>1 DEF IInv, Types, StopReaps, s
    <2>2. \A x \in Service : Live(x)' => Live(x) /\ x # s
        BY <1>1, <2>1 DEF StopReaps, Live
    <2>3. \A x \in Service : x > launched => x # s
        BY <1>1, HostAssumption DEF IInv, Types, Service
    <2>4. t = "retry" => s = current BY DEF IInv, Handles, StopReaps, s
    <2>5. at'["retry"] = "stopped" => at["retry"] = "stopped" \/ t = "retry"
        BY <1>1 DEF IInv, Types, StopReaps, Thread
    <2>6. UNCHANGED <<current, launched>> BY DEF StopReaps, owner
    <2>7. \A x \in Service : Live(x)' => x = current' BY <2>2, <2>6 DEF IInv, Owned
    <2>8. at'["retry"] = "stopped" => \A x \in Service : ~Live(x)'
        BY <2>2, <2>4, <2>5 DEF IInv, Owned
    <2>9. \A x \in Service : x > launched' =>
             process'[x] = "none" /\ inbox'[x] = {} /\ replies'[x] = {}
        <3>. SUFFICES ASSUME NEW x \in Service, x > launched
                      PROVE  process'[x] = "none" /\ inbox'[x] = {} /\ replies'[x] = {}
            BY <2>6
        <3>1. x # s /\ process[x] = "none" /\ inbox[x] = {} /\ replies[x] = {}
            BY <2>3 DEF IInv, Owned
        <3>2. process'[x] = process[x] BY <1>1, <3>1 DEF IInv, Types, StopReaps, s
        <3>. QED BY <1>1, <1>2, <3>1, <3>2, FailFacts
    <2>. QED BY <2>7, <2>8, <2>9 DEF Owned
<1>8. t = "retry" => ~Calm'
    BY <1>1, <1>2, FailFacts DEF IInv, Handles, Calm, Connected, StopReaps, owner, s
<1>9. t = "exit" => ~Calm' BY DEF Calm, StopReaps
<1>10. Wire' /\ Stored' BY <1>1, <1>8, <1>9 DEF Wire, Stored
<1>11. Desktop'
    BY <1>1, DesktopKept DEF IInv, Types, Preparing, Thread, StopReaps, owner, shortcuts
<1>. QED BY <1>3, <1>4, <1>5, <1>6, <1>7, <1>10, <1>11 DEF IInv

\* A restart launches a service that nobody has used, or none.
LEMMA RelaunchInvariant ==
    ASSUME IInv, NEW t \in Thread, Relaunch(t)
    PROVE  IInv'
<1>1. t = "retry" /\ at[t] = "stopped" /\ launched < Services /\ \A s \in Service : ~Live(s)
    BY DEF IInv, Handles, Owned, Relaunch, Stopping
<1>2. Types' BY <1>1, HostAssumption DEF IInv, Types, Relaunch, Place, Requests, shortcuts
<1>3. Ways' BY <1>1 DEF IInv, Ways, Relaunch, Requests, Starting
<1>4. Exclusion' BY <1>1 DEF IInv, Exclusion, Relaunch
<1>5. Handles' BY <1>1 DEF IInv, Types, Ways, Exclusion, Handles, Relaunch, Stopping
<1>6. Owned'
    <2>1. at'["retry"] # "stopped" BY <1>1 DEF IInv, Types, Relaunch, Thread
    <2>2. launched' >= launched BY <1>1, HostAssumption DEF IInv, Types, Relaunch
    <2>3. \A x \in Service : Live(x)' => x = current'
        BY <1>1 DEF IInv, Types, Live, Relaunch
    <2>4. \A x \in Service : x > launched' => x > launched /\ process'[x] = process[x]
        <3>. SUFFICES ASSUME NEW x \in Service, x > launched'
                      PROVE  x > launched /\ process'[x] = process[x]
            OBVIOUS
        <3>1. launched \in Int /\ launched' \in Int /\ x \in Int
            BY <1>1, HostAssumption DEF IInv, Types, Relaunch, Service
        <3>2. x > launched /\ x # launched' BY <2>2, <3>1
        <3>3. process'[x] = process[x] BY <3>2 DEF IInv, Types, Relaunch
        <3>. QED BY <3>2, <3>3
    <2>. QED BY <2>1, <2>3, <2>4 DEF IInv, Owned, Relaunch
<1>7. Calm' => inbox'[current'] = {} /\ replies'[current'] = {}
    BY <1>1, HostAssumption DEF IInv, Types, Owned, Calm, Connected, Relaunch, Service
<1>8. Wire' BY <1>7 DEF Wire
<1>9. Desktop' BY <1>1, DesktopKept DEF IInv, Types, Preparing, Thread, Relaunch
<1>10. Stored'
    BY <1>1 DEF IInv, Exclusion, Editing, Stored, Begun, Persisted, Agreed, Relaunch
<1>. QED BY <1>2, <1>3, <1>4, <1>5, <1>6, <1>8, <1>9, <1>10 DEF IInv

-----------------------------------------------------------------------------
(* Requests and their answers *)

LEMMA RequestInvariant ==
    ASSUME IInv, NEW t \in Thread, Request(t)
    PROVE  IInv'
<1>. DEFINE c == Connected(handle[t])
<1>1. UNCHANGED <<channel, process, replies, at, handle, draft, refused, current, launched,
                  lock, overlapped, status, hotkeys, previous, os, stored, denied>>
    BY DEF Request, owner, shortcuts
<1>2. call[t] = "none" /\ at[t] \in Requests BY DEF Request
<1>3. call' = [call EXCEPT ![t] = IF c THEN "waiting" ELSE "failed"] BY DEF Request
<1>4. \A x \in Service : inbox'[x] =
         IF c /\ x = handle[t] THEN inbox[x] \cup {<<t, at[t], draft[t]>>} ELSE inbox[x]
    <2>. DEFINE frame == <<t, at[t], draft[t]>>
    <2>1. inbox' = IF c THEN [inbox EXCEPT ![handle[t]] = @ \cup {frame}] ELSE inbox
        BY DEF Request
    <2>. HIDE DEF c, frame
    <2>2. \A x \in Service : inbox'[x] =
             IF c /\ x = handle[t] THEN inbox[x] \cup {frame} ELSE inbox[x]
        BY <2>1 DEF IInv, Types
    <2>. QED BY <2>2 DEF frame
<1>5. c => handle[t] \in Service /\ ~channel[handle[t]].stopped
    BY HostAssumption DEF IInv, Types, Connected, Service
<1>6. Calm' => Calm /\ current \in Service
    BY <1>1, HostAssumption DEF IInv, Types, Calm, Connected, Service
<1>7. handle[t] = current /\ Calm => c BY DEF Calm
<1>. HIDE DEF c
<1>8. Types' BY <1>1, <1>3 DEF IInv, Types, Request
<1>9. Ways' BY <1>1, <1>2, <1>3, <1>5, HostAssumption DEF IInv, Types, Ways, Service
<1>10. Exclusion' BY <1>1 DEF IInv, Exclusion
<1>11. Handles' BY <1>1, <1>2, <1>3, <1>5 DEF IInv, Types, Handles, Thread
<1>12. Owned'
    <2>1. c => ~(handle[t] > launched) BY <1>5, HostAssumption DEF IInv, Types, Service
    <2>. QED BY <1>1, <1>4, <2>1 DEF IInv, Types, Owned, Live
<1>13. Wire'
    <2>. SUFFICES ASSUME Calm' PROVE Wire' BY DEF Wire
    <2>1. Calm /\ current \in Service BY <1>6
    <2>2. t \notin Waiting(current) BY <1>2 DEF Waiting
    <2>3. \A u \in Waiting(current) : u # t /\ u \in Waiting(current)'
        BY <1>1, <1>3, <2>2 DEF IInv, Types, Waiting
    <2>4. c /\ handle[t] = current => t \in Waiting(current)'
        BY <1>1, <1>3 DEF IInv, Types, Waiting
    <2>5. \A f \in inbox'[current] : f \in inbox[current]
              \/ (c /\ handle[t] = current /\ f = <<t, at[t], draft[t]>>)
        <3>. inbox'[current] = IF c /\ current = handle[t]
                                 THEN inbox[current] \cup {<<t, at[t], draft[t]>>}
                                 ELSE inbox[current]
            BY <1>4, <2>1
        <3>. QED OBVIOUS
    <2>6. \A f \in inbox'[current] :
              f[1] \in Waiting(current)' /\ f = <<f[1], at[f[1]], draft[f[1]]>>
        BY <2>1, <2>3, <2>4, <2>5 DEF IInv, Wire
    <2>7. \A r \in replies[current] : <<r[1], at[r[1]], draft[r[1]]>> \notin inbox'[current]
        <3>. SUFFICES ASSUME NEW r \in replies[current],
                             <<r[1], at[r[1]], draft[r[1]]>> \in inbox'[current]
                      PROVE  FALSE
            OBVIOUS
        <3>1. r[1] # t /\ <<r[1], at[r[1]], draft[r[1]]>> \notin inbox[current]
            BY <2>1, <2>2 DEF IInv, Wire
        <3>2. <<r[1], at[r[1]], draft[r[1]]>> = <<t, at[t], draft[t]>> BY <2>5, <3>1
        <3>. QED BY <3>1, <3>2
    <2>. QED BY <1>1, <2>1, <2>3, <2>6, <2>7 DEF IInv, Wire
<1>14. Desktop' BY <1>1 DEF IInv, Desktop
<1>15. Stored'
    <2>. SUFFICES ASSUME Calm', ~overlapped'
         PROVE (Begun("startup") /\ Begun("retry") /\ Persisted /\ Agreed)'
        BY DEF Stored
    <2>1. Calm /\ ~overlapped /\ current \in Service /\ Begun("startup") /\ Begun("retry") /\ Persisted /\ Agreed
        BY <1>1, <1>6 DEF IInv, Stored
    <2>2. handle[t] = current => call'[t] = "waiting" BY <1>3, <1>7, <2>1 DEF IInv, Types
    <2>3. Begun("startup")' /\ Begun("retry")'
        BY <1>1, <1>3, <2>1, <2>2 DEF IInv, Handles, Begun, Starting
    <2>4. Persisted'
        BY <1>1, <1>3, <2>1, <2>2 DEF Persisted
    <2>5. Undecided' => Undecided
        <3>1. CASE t = "edit" BY <1>1, <1>2, <3>1 DEF Undecided
        <3>2. CASE t # "edit"
            <4>1. call'["edit"] = call["edit"] BY <1>3, <3>2 DEF IInv, Types, Thread
            <4>2. at[t] # "commit"
                BY <3>2 DEF IInv, Ways, Starting, Stopping, Thread
            <4>3. inbox'[current] = IF c /\ current = handle[t]
                                      THEN inbox[current] \cup {<<t, at[t], draft[t]>>}
                                      ELSE inbox[current]
                BY <1>4, <2>1
            <4>4. \A f \in inbox'[current] : f[2] = "commit" => f \in inbox[current]
                BY <4>2, <4>3
            <4>. QED BY <1>1, <4>1, <4>4 DEF Undecided
        <3>. QED BY <3>1, <3>2
    <2>6. Agreed' BY <1>1, <2>1, <2>5 DEF Agreed
    <2>. QED BY <2>3, <2>4, <2>6
<1>. QED BY <1>8, <1>9, <1>10, <1>11, <1>12, <1>13, <1>14, <1>15 DEF IInv

\* An answer reaches the one who waits for it, and what it says is what the
\* service has done; an answer that nobody waits for ends the session.
LEMMA ReadReplyInvariant ==
    ASSUME IInv, NEW s \in Service, ReadReply(s)
    PROVE  IInv'
<1>. PICK r \in replies[s] :
        LET t == r[1]
        IN  IF t \in Waiting(s) /\ at[t] = r[2]
              THEN /\ replies' = [replies EXCEPT ![s] = @ \ {r}]
                   /\ call' = [call EXCEPT ![t] = r[3]]
                   /\ draft' = IF at[t] = "state" THEN [draft EXCEPT ![t] = r[4]] ELSE draft
                   /\ UNCHANGED <<channel, inbox, status>>
              ELSE Fail(s) /\ UNCHANGED draft
    BY DEF ReadReply
<1>0. UNCHANGED <<process, at, handle, refused, current, launched, lock, overlapped, hotkeys,
                 previous, os, stored, denied>>
    BY DEF ReadReply, owner, shortcuts
<1>1. CASE ~(r[1] \in Waiting(s) /\ at[r[1]] = r[2])
    <2>1. ~(s > launched) BY DEF IInv, Owned
    <2>2. s <= launched BY <2>1, HostAssumption DEF IInv, Types, Service
    <2>3. Fail(s) /\ UNCHANGED draft BY <1>1
    <2>. QED BY <1>0, <2>2, <2>3, FailKeeps DEF IInv, Types, Live, owner, shortcuts
<1>2. CASE r[1] \in Waiting(s) /\ at[r[1]] = r[2]
    <2>. DEFINE t == r[1]
    <2>1. t \in Thread /\ call[t] = "waiting" /\ handle[t] = s /\ at[t] = r[2]
        BY <1>2 DEF Waiting
    <2>2. /\ replies' = [replies EXCEPT ![s] = @ \ {r}]
          /\ call' = [call EXCEPT ![t] = r[3]]
          /\ draft' = IF at[t] = "state" THEN [draft EXCEPT ![t] = r[4]] ELSE draft
          /\ UNCHANGED <<channel, inbox, status>>
        BY <1>2
    <2>. HIDE DEF t
    <2>3. r[3] \in Answered BY DEF IInv, Types
    <2>4. Types' BY <1>0, <2>1, <2>2, <2>3 DEF IInv, Types, Answered
    <2>5. Ways' BY <1>0, <2>1, <2>2, <2>3 DEF IInv, Types, Ways, Answered
    <2>6. Exclusion' BY <1>0 DEF IInv, Exclusion
    <2>7. Handles'
        BY <1>0, <2>1, <2>2 DEF IInv, Types, Handles, Thread
    <2>8. Owned' BY <1>0, <2>2 DEF IInv, Types, Owned, Live
    <2>9. Desktop'
        <3>1. \A u \in Thread : at[u] \in Preparing => draft'[u] = draft[u]
            BY <2>1, <2>2 DEF IInv, Types, Preparing
        <3>. QED BY <1>0, <3>1 DEF IInv, Desktop
    <2>10. Calm' => Calm /\ current \in Service
        BY <1>0, <2>2, HostAssumption DEF IInv, Types, Calm, Connected, Service
    <2>11. replies'[current] \subseteq replies[current] \/ current \notin Service
        BY <2>2 DEF IInv, Types
    <2>12. Wire'
        <3>. SUFFICES ASSUME Calm' PROVE Wire' BY DEF Wire
        <3>1. Calm /\ current \in Service BY <2>10
        <3>2. \A u \in Thread \ {t} : call'[u] = call[u] /\ draft'[u] = draft[u]
            BY <2>1, <2>2 DEF IInv, Types
        <3>3. s = current => replies'[current] = replies[current] \ {r}
            BY <2>2, <3>1 DEF IInv, Types
        <3>4. \A q \in replies'[current] : q \in replies[current] /\ q[1] # t
            <4>1. \A q \in replies'[current] : q \in replies[current] BY <2>11, <3>1
            <4>2. CASE s = current
                BY <3>1, <3>3, <4>1, <4>2 DEF IInv, Wire, t
            <4>3. CASE s # current
                <5>1. \A q \in replies[current] : q[1] \in Waiting(current)
                    BY <3>1 DEF IInv, Wire
                <5>. QED BY <2>1, <4>1, <4>3, <5>1 DEF Waiting
            <4>. QED BY <4>2, <4>3
        <3>5. \A f \in inbox[current] : f[1] # t
            BY <2>1, <3>1 DEF IInv, Wire, Waiting, t
        <3>7. \A u \in Waiting(current) \ {t} : u \in Waiting(current)' /\ at'[u] = at[u]
                                                /\ draft'[u] = draft[u]
            BY <1>0, <3>2 DEF Waiting
        <3>8. \A f \in inbox[current] :
                  f[1] \in Waiting(current)' /\ f = <<f[1], at'[f[1]], draft'[f[1]]>>
            BY <3>1, <3>5, <3>7 DEF IInv, Wire
        <3>9. \A q \in replies'[current] :
                  /\ q[1] \in Waiting(current)' /\ q[2] = at'[q[1]]
                  /\ <<q[1], at'[q[1]], draft'[q[1]]>> \notin inbox[current]
                  /\ q[3] = "failed" => q[2] \in {"prepare", "commit"}
            BY <3>1, <3>4, <3>7 DEF IInv, Wire
        <3>. QED BY <1>0, <2>2, <3>1, <3>4, <3>8, <3>9 DEF IInv, Wire
    <2>13. Stored'
        <3>. SUFFICES ASSUME Calm', ~overlapped'
             PROVE (Begun("startup") /\ Begun("retry") /\ Persisted /\ Agreed)'
            BY DEF Stored
        <3>1. /\ Calm /\ ~overlapped /\ current \in Service
              /\ Begun("startup") /\ Begun("retry") /\ Persisted /\ Agreed
            BY <1>0, <2>10 DEF IInv, Stored
        <3>2. replies'[current] \subseteq replies[current] BY <2>11, <3>1
        <3>3. s = current /\ r[3] = "failed" => r[2] \in {"prepare", "commit"}
            BY <3>1 DEF IInv, Wire
        <3>4. \A u \in Thread \ {t} : call'[u] = call[u] /\ draft'[u] = draft[u]
            BY <2>1, <2>2 DEF IInv, Types
        <3>5. call'[t] = r[3] /\ draft'[t] = IF at[t] = "state" THEN r[4] ELSE draft[t]
            BY <2>1, <2>2 DEF IInv, Types
        <3>6. \A u \in {"startup", "retry"} : Begun(u) => Begun(u)'
            <4>. SUFFICES ASSUME NEW u \in {"startup", "retry"}, Begun(u) PROVE Begun(u)'
                OBVIOUS
            <4>1. CASE u # t
                BY <1>0, <3>2, <3>4, <4>1 DEF Begun, Thread
            <4>2. CASE u = t /\ at[u] = "state"
                <5>1. s = current
                    BY <2>1, <3>1, <4>2 DEF IInv, Handles, Starting
                <5>2. r \in replies[current] /\ r[2] = "state" BY <2>1, <4>2, <5>1
                <5>3. r[3] # "failed" /\ r[4] = stored
                    BY <3>3, <4>2, <5>1, <5>2 DEF Begun
                <5>4. call'[u] # "failed" /\ (call'[u] = "ok" => draft'[u] = stored)
                    BY <3>5, <4>2, <5>3
                <5>5. \A q \in replies'[current] : q[2] = "state" => q[4] = stored
                    BY <3>2, <4>2 DEF Begun
                <5>. QED BY <1>0, <4>2, <5>4, <5>5 DEF Begun
            <4>3. CASE u = t /\ at[u] # "state"
                BY <1>0, <3>2, <3>5, <4>3 DEF Begun
            <4>. QED BY <4>1, <4>2, <4>3
        <3>7. Persisted'
            <4>. SUFFICES ASSUME at["edit"] = "commit" PROVE Persisted'
                BY <1>0 DEF Persisted
            <4>1. draft'["edit"] = draft["edit"] BY <3>4, <3>5 DEF Thread
            <4>2. call'["edit"] = "ok" => stored = draft["edit"]
                <5>1. CASE t = "edit"
                    BY <2>1, <3>1, <3>5, <5>1 DEF IInv, Handles, Persisted
                <5>2. CASE t # "edit" BY <3>1, <3>4, <5>2 DEF Persisted, Thread
                <5>. QED BY <5>1, <5>2
            <4>. QED BY <1>0, <3>1, <3>2, <4>1, <4>2 DEF Persisted
        <3>8. Undecided' => Undecided
            <4>1. CASE t = "edit" /\ at["edit"] = "commit"
                <5>1. s = current BY <2>1, <4>1 DEF IInv, Handles
                <5>2. r \in replies[current] /\ r[2] = "commit" BY <2>1, <4>1, <5>1
                <5>3. \A q \in replies'[current] : q \in replies[current] BY <3>2
                <5>. QED BY <1>0, <2>2, <2>3, <3>5, <4>1, <5>2, <5>3 DEF Undecided, Answered
            <4>2. CASE t # "edit" \/ at["edit"] # "commit"
                BY <1>0, <2>2, <3>2, <3>4, <4>2 DEF Undecided, Thread
            <4>. QED BY <4>1, <4>2
        <3>9. Agreed' BY <1>0, <2>2, <3>1, <3>8 DEF Agreed
        <3>. QED BY <3>1, <3>6, <3>7, <3>9
    <2>. QED BY <2>4, <2>5, <2>6, <2>7, <2>8, <2>9, <2>12, <2>13 DEF IInv
<1>. QED BY <1>1, <1>2

\* What a service answers is what it has done: a commit that it persists is the
\* candidate of the edit that waits for it.
LEMMA ServiceHandlesInvariant ==
    ASSUME IInv, NEW s \in Service, ServiceHandles(s)
    PROVE  IInv'
<1>. PICK f \in inbox[s], answer \in Answered, persists \in BOOLEAN :
        /\ persists => f[2] = "commit"
        /\ answer = "failed" => f[2] \in {"prepare", "commit"}
        /\ answer = "ok" /\ f[2] = "commit" => persists
        /\ replies' = IF channel[s].failure THEN replies
                      ELSE [replies EXCEPT ![s] = @ \cup
                                {<<f[1], f[2], answer, IF f[2] = "state" THEN stored ELSE {}>>}]
        /\ stored' = IF persists THEN f[3] ELSE stored
        /\ denied' = IF persists THEN answer = "failed" /\ (denied \/ stored' # stored)
                     ELSE denied
        /\ IF f[2] = "shutdown" THEN Ends(s)
           ELSE inbox' = [inbox EXCEPT ![s] = @ \ {f}] /\ UNCHANGED process
    BY DEF ServiceHandles
<1>0. /\ process[s] = "running"
      /\ UNCHANGED <<channel, at, call, handle, draft, refused, current, launched, lock,
                     overlapped, status, hotkeys, previous, os>>
    BY DEF ServiceHandles, threads, owner
<1>. DEFINE reply == <<f[1], f[2], answer, IF f[2] = "state" THEN stored ELSE {}>>
<1>1. s = current BY <1>0 DEF IInv, Owned, Live
<1>2. /\ DOMAIN inbox' = Service /\ DOMAIN replies' = Service
      /\ inbox'[s] \subseteq inbox[s] \ {f}
      /\ replies'[s] \subseteq replies[s] \cup {reply}
      /\ \A x \in Service \ {s} : inbox'[x] = inbox[x] /\ replies'[x] = replies[x]
    BY DEF IInv, Types, Ends
<1>3. /\ process' \in [Service -> {"none", "running", "exited", "reaped"}]
      /\ \A x \in Service \ {s} : process'[x] = process[x]
      /\ process'[s] \in {"running", "exited"}
    BY <1>0 DEF IInv, Types, Ends
<1>4. Types'
    <2>1. \A x \in Service : \A r \in replies'[x] : r[3] \in Answered
        BY <1>2 DEF IInv, Types
    <2>. QED BY <1>0, <1>2, <1>3, <2>1 DEF IInv, Types
<1>5. Ways' /\ Exclusion' /\ Handles' /\ Desktop'
    BY <1>0 DEF IInv, Ways, Exclusion, Handles, Desktop
<1>6. Owned'
    <2>1. s <= launched BY <1>1 DEF IInv, Types
    <2>2. ~(s > launched) BY <2>1, HostAssumption DEF IInv, Types, Service
    <2>. QED BY <1>0, <1>1, <1>2, <1>3, <2>2 DEF IInv, Owned, Live
<1>7. Calm' = Calm /\ overlapped' = overlapped BY <1>0 DEF Calm, Connected
<1>8. Calm => f[1] \in Waiting(s) /\ f = <<f[1], at[f[1]], draft[f[1]]>>
    BY <1>1 DEF IInv, Wire
<1>9. Wire'
    <2>. SUFFICES ASSUME Calm PROVE Wire' BY <1>7 DEF Wire
    <2>1. \A g \in inbox'[s] : g \in inbox[s] /\ g # f BY <1>2
    <2>2. \A r \in replies'[s] : r \in replies[s] \/ r = reply BY <1>2
    <2>3. \A g \in inbox[s] : g[1] \in Waiting(s) /\ g = <<g[1], at[g[1]], draft[g[1]]>>
        BY <1>1 DEF IInv, Wire
    <2>4. \A r \in replies[s] : r[1] # f[1] BY <1>1, <1>8 DEF IInv, Wire
    <2>5. reply[1] = f[1] /\ reply[2] = at[f[1]] /\ reply[3] = answer BY <1>8
    <2>. HIDE DEF reply
    <2>6. \A r \in replies'[s] :
              /\ r[1] \in Waiting(s) /\ r[2] = at[r[1]]
              /\ <<r[1], at[r[1]], draft[r[1]]>> \notin inbox'[s]
              /\ r[3] = "failed" => r[2] \in {"prepare", "commit"}
        <3>. SUFFICES ASSUME NEW r \in replies'[s]
                      PROVE  /\ r[1] \in Waiting(s) /\ r[2] = at[r[1]]
                             /\ <<r[1], at[r[1]], draft[r[1]]>> \notin inbox'[s]
                             /\ r[3] = "failed" => r[2] \in {"prepare", "commit"}
            OBVIOUS
        <3>1. CASE r \in replies[s] BY <1>1, <2>1, <3>1 DEF IInv, Wire
        <3>2. CASE r = reply
            <4>1. f[2] = at[f[1]] BY <1>8
            <4>. QED BY <1>8, <2>1, <2>5, <3>2, <4>1
        <3>. QED BY <2>2, <3>1, <3>2
    <2>7. \A r, q \in replies'[s] : r[1] = q[1] => r = q
        BY <1>1, <2>2, <2>4, <2>5 DEF IInv, Wire
    <2>. QED BY <1>0, <1>1, <2>1, <2>3, <2>6, <2>7 DEF Wire, Waiting
<1>10. Stored'
    <2>. SUFFICES ASSUME Calm, ~overlapped
         PROVE (Begun("startup") /\ Begun("retry") /\ Persisted /\ Agreed)'
        BY <1>7 DEF Stored
    <2>1. Begun("startup") /\ Begun("retry") /\ Persisted /\ Agreed BY DEF IInv, Stored
    <2>2. /\ f[1] \in Thread /\ f[2] = at[f[1]] /\ f[3] = draft[f[1]]
        BY <1>8 DEF Waiting
    <2>3. f[2] = "commit" => f[1] = "edit"
        BY <2>2 DEF IInv, Ways, Starting, Stopping, Thread
    <2>4. f[2] = "commit" => at["startup"] = "idle" /\ at["retry"] = "idle"
        BY <2>2, <2>3 DEF IInv, Exclusion, Editing
    <2>5. f[2] # "commit" => UNCHANGED <<stored, denied>> OBVIOUS
    <2>6. \A r \in replies'[current] : r \in replies[current] \/ r = reply BY <1>1, <1>2
    <2>7. f[2] = "commit" => \A r \in replies[current] : r[2] # "commit"
        <3>. SUFFICES ASSUME NEW r \in replies[current], f[2] = "commit", r[2] = "commit"
                      PROVE  FALSE
            OBVIOUS
        <3>1. r[1] \in Thread /\ r[2] = at[r[1]] BY DEF IInv, Wire, Waiting
        <3>2. r[1] = "edit" BY <3>1 DEF IInv, Ways, Starting, Stopping, Thread
        <3>3. <<r[1], at[r[1]], draft[r[1]]>> \in inbox[current] BY <1>1, <1>8, <2>3, <3>2
        <3>. QED BY <3>3 DEF IInv, Wire
    <2>8. \A u \in {"startup", "retry"} : Begun(u) => Begun(u)'
        <3>. SUFFICES ASSUME NEW u \in {"startup", "retry"}, Begun(u) PROVE Begun(u)'
            OBVIOUS
        <3>1. CASE f[2] = "commit" BY <1>0, <2>4, <3>1 DEF Begun
        <3>2. CASE f[2] # "commit" BY <1>0, <2>5, <2>6, <3>2 DEF Begun
        <3>. QED BY <3>1, <3>2
    <2>9. Persisted'
        <3>. SUFFICES ASSUME at["edit"] = "commit" PROVE Persisted' BY <1>0 DEF Persisted
        <3>1. f[2] = "commit" /\ answer = "ok" => stored' = draft["edit"] BY <2>2, <2>3
        <3>2. f[2] = "commit" => call["edit"] = "waiting" BY <1>8, <2>3 DEF Waiting
        <3>3. CASE f[2] = "commit" BY <1>0, <2>6, <2>7, <3>1, <3>2, <3>3 DEF Persisted
        <3>4. CASE f[2] # "commit" BY <1>0, <2>1, <2>5, <2>6, <3>4 DEF Persisted
        <3>. QED BY <3>3, <3>4
    <2>10. Agreed'
        <3>1. CASE f[2] = "commit" /\ answer = "ok"
            <4>1. call["edit"] = "waiting" /\ at["edit"] = "commit"
                BY <1>8, <2>2, <2>3, <3>1 DEF Waiting
            <4>2. \A g \in inbox[current] : g[2] = "commit" => g = f
                <5>1. \A g \in inbox[current] : g[1] \in Thread /\ g[2] = at[g[1]]
                                               /\ g = <<g[1], at[g[1]], draft[g[1]]>>
                    BY DEF IInv, Wire, Waiting
                <5>2. \A g \in inbox[current] : g[2] = "commit" => g[1] = "edit"
                    BY <5>1 DEF IInv, Ways, Starting, Stopping, Thread
                <5>3. f = <<f[1], at[f[1]], draft[f[1]]>> BY <1>8
                <5>. QED BY <2>3, <3>1, <5>1, <5>2, <5>3
            <4>3. \A g \in inbox'[current] : g[2] # "commit" BY <1>1, <1>2, <4>2
            <4>4. \A r \in replies'[current] : ~(r[2] = "commit" /\ r[3] = "failed")
                BY <2>6, <2>7, <3>1
            <4>. QED BY <1>0, <4>1, <4>3, <4>4 DEF Agreed, Undecided
        <3>2. CASE ~(f[2] = "commit" /\ answer = "ok")
            <4>1. ~denied' => ~denied /\ stored' = stored
                <5>1. CASE persists
                    <6>1. answer = "failed" BY <3>2, <5>1 DEF Answered
                    <6>2. denied' = (denied \/ stored' # stored) BY <5>1, <6>1
                    <6>. QED BY <6>2
                <5>2. CASE ~persists
                    <6>1. denied' = denied /\ stored' = stored BY <5>2
                    <6>. QED BY <6>1
                <5>. QED BY <5>1, <5>2
            <4>2. Undecided' => Undecided
                <5>. SUFFICES ASSUME at["edit"] = "commit", Undecided' PROVE Undecided
                    BY DEF Undecided
                <5>1. CASE \E r \in replies'[current] : r[2] = "commit" /\ r[3] = "failed"
                    <6>1. f[2] = "commit" \/ \E r \in replies[current] :
                                                 r[2] = "commit" /\ r[3] = "failed"
                        BY <2>6, <5>1
                    <6>. QED BY <1>1, <6>1 DEF Undecided
                <5>2. CASE \E g \in inbox'[current] : g[2] = "commit"
                    BY <1>1, <1>2, <5>2 DEF Undecided
                <5>. QED BY <1>0, <5>1, <5>2 DEF Undecided
            <4>. QED BY <1>0, <2>1, <4>1, <4>2 DEF Agreed
        <3>. QED BY <3>1, <3>2
    <2>. QED BY <2>1, <2>8, <2>9, <2>10
<1>. QED BY <1>4, <1>5, <1>6, <1>9, <1>10 DEF IInv

-----------------------------------------------------------------------------
(* The theorems *)

LEMMA InitInvariant == Init => IInv
<1>. SUFFICES ASSUME Init PROVE IInv OBVIOUS
<1>1. current \in Service \/ current = 0 BY HostAssumption DEF Init, Service
<1>2. Types BY HostAssumption DEF Init, Types, Place, Requests
<1>3. Ways /\ Exclusion /\ Handles
    BY DEF Init, Ways, Exclusion, Handles, Starting, Editing, Stopping, Thread
<1>4. Owned BY HostAssumption DEF Init, Owned, Live, Thread
<1>5. Wire /\ Desktop
    BY <1>1 DEF Init, Wire, Desktop, Calm, Connected, Thread
<1>6. Stored
    BY <1>1 DEF Init, Stored, Begun, Persisted, Agreed, Thread
<1>. QED BY <1>2, <1>3, <1>4, <1>5, <1>6 DEF IInv

LEMMA UnchangedKeeps == IInv /\ UNCHANGED vars => IInv'
<1>. SUFFICES ASSUME IInv, UNCHANGED vars PROVE IInv' OBVIOUS
<1>. USE DEF vars, wire, threads, owner, shortcuts
<1>1. Types' /\ Ways' /\ Exclusion' /\ Handles' /\ Owned'
    BY DEF IInv, Types, Ways, Exclusion, Handles, Owned, Live
<1>2. Wire' /\ Desktop' BY DEF IInv, Wire, Desktop, Calm, Connected, Waiting
<1>3. Stored'
    BY DEF IInv, Stored, Calm, Connected, Begun, Persisted, Agreed, Undecided
<1>. QED BY <1>1, <1>2, <1>3 DEF IInv

LEMMA NextInvariant == IInv /\ Next => IInv'
<1>. SUFFICES ASSUME IInv, Next PROVE IInv' OBVIOUS
<1>1. CASE \E s \in Service : ServiceHandles(s) \/ ServiceDies(s) \/ ReadEnd(s) \/ Alive(s)
    BY <1>1, ServiceHandlesInvariant, ServiceDiesInvariant, ReadEndInvariant,
       WatchInvariant, ReadReplyInvariant DEF Alive
<1>2. CASE \E t \in Thread : Request(t) \/ TimeOut(t) \/ Stop(t)
    BY <1>2, RequestInvariant, TimeOutInvariant, StopAskedInvariant, StopKillsInvariant,
       StopReapsInvariant DEF Stop
<1>3. CASE \E t \in Thread : Edit(t)
    BY <1>3, EditAskedInvariant, EditBeginsInvariant, EditPreparedInvariant,
       EditCommittedInvariant, SettledInvariant, ReleaseInvariant DEF Edit
<1>4. CASE \E t \in Thread : RetryBegins(t) \/ Relaunch(t) \/ Exit(t)
    BY <1>4, RetryBeginsInvariant, RelaunchInvariant, ExitInvariant
<1>5. CASE \E t \in {"startup", "retry"} : Start(t)
    BY <1>5, HandshakeInvariant, ConfiguredInvariant, ReplacePreparedInvariant,
       ReplaceCommittedInvariant, PresentReadyInvariant DEF Start
<1>. QED BY <1>1, <1>2, <1>3, <1>4, <1>5 DEF Next

\* IInv is the inductive invariant of the host.
THEOREM InvariantHolds == Spec => []IInv
<1>1. Init => IInv BY InitInvariant
<1>2. IInv /\ [Next]_vars => IInv' BY NextInvariant, UnchangedKeeps
<1>. QED BY <1>1, <1>2, PTL DEF Spec

\* The host owns one service: a restart launches the next one only when stop()
\* has reaped the last (retry_service, lib.rs, and Service::stop, lifecycle/mod.rs).
THEOREM OneServiceHolds == Spec => []OneService
<1>1. IInv => OneService
    <2>. SUFFICES ASSUME IInv PROVE OneService OBVIOUS
    <2>. DEFINE S == {s \in Service : process[s] \in {"running", "exited"}}
    <2>1. S \subseteq {current} BY DEF IInv, Owned, Live
    <2>2. IsFiniteSet({current}) /\ Cardinality({current}) = 1 BY FS_Singleton
    <2>3. Cardinality(S) <= 1 BY <2>1, <2>2, FS_Subset
    <2>. QED BY <2>3 DEF OneService
<1>. QED BY <1>1, InvariantHolds, PTL

\* However a start, a restart, an edit, a refused shortcut, a late answer or the
\* death of the service interleave: while the host is ready and nobody edits, the
\* desktop and the settings hold the same shortcuts (update_hotkeys, commands/mod.rs),
\* if nothing began while the host first started, and the service has not answered
\* an error to a commit that it persisted.
THEOREM RegisteredHolds == Spec => []RegisteredIsStored
<1>1. IInv => RegisteredIsStored
    <2>. SUFFICES ASSUME IInv, status = "ready", lock = "none", at["startup"] = "idle",
                         Connected(current), at["exit"] = "idle", ~overlapped, ~denied
                  PROVE  hotkeys = stored /\ os = stored
        BY DEF RegisteredIsStored
    <2>1. at["edit"] # "commit" /\ at["retry"] = "idle" BY DEF IInv, Exclusion, Editing
    <2>2. hotkeys = stored BY <2>1 DEF IInv, Stored, Calm, Agreed, Undecided
    <2>3. os = hotkeys
        BY <2>1 DEF IInv, Ways, Exclusion, Desktop, Preparing, Stopping, Thread
    <2>. QED BY <2>2, <2>3
<1>. QED BY <1>1, InvariantHolds, PTL
=============================================================================
