-------------------------- MODULE PosixUpdateProofs --------------------------
(***************************************************************************)
(* For any number of helpers, failing calls, kills and power cuts: the     *)
(* disk always holds a build that works, and an outcome that was recorded  *)
(* is what the disk holds.                                                 *)
(***************************************************************************)
EXTENDS PosixUpdate, TLAPS

\* What a tree that was put back, or never left, may be found to be.
Final == {"committed", "restored", "abandoned"}

\* The steps of the helper at which it holds the lock; on the way to the exchange,
\* in it, and on the way back.
Onward == {"waiting", "checking", "backing_up"}
Exchange == {"installing", "clearing", "launching", "watching"}
Backward == {"rb_check", "rb_stop", "rb_recheck", "rb_reject", "rb_restore"}
Locked == Onward \cup Exchange \cup Backward \cup {"inspect", "writing", "relaunch"}

\* The helper of the application that started the update, before it has the lock.
Coming(h) == pc[h] \in {"start", "claim"} /\ mode[h] = "apply"

\* What every image of the disk shows.  A build is in its place, or the previous
\* one is beside it, whole; the new one alone has answered; an outcome is true.
Sane(image) ==
    /\ image.install # "old_torn" /\ image.candidate \in {"none", "new", "new_torn"}
    /\ image.install = "old" => image.backup = "none"
    /\ image.install \in {"none", "new_torn"} => image.backup = "old" /\ image.result \notin Final
    /\ image.install = "new_torn" => ~image.ack
    /\ image.install = "new" => image.backup = "old" \/ image.ack
    /\ image.ack => answered
    /\ image.result = "restored" => image.install \in {"old", "other"}
    /\ image.result = "committed" => image.install = "new" /\ image.ack
    /\ image.result = "abandoned" => image.install = "old"

SaneInv == \A image \in images : Sane(image)

\* One process has the lock; a probe of it is the application's or one launch's.
LockInv ==
    /\ \A h \in Helpers : pc[h] \in Locked => lock = h
    /\ shell = "probing" => lock = "probe"
    /\ \A b \in Build : settler[b] = "probing" => lock = "probe"
    /\ \A b, c \in Build : settler[b] = "probing" /\ settler[c] = "probing" => b = c

\* Until the application that started the update is gone, nothing has moved.
ShellInv ==
    shell # "gone" =>
        /\ "old" \in running /\ \A b \in Build : settler[b] = "idle"
        /\ fs.install = "old" /\ ~fs.ack
        /\ \A h \in Helpers :
              /\ pc[h] \in {"idle", "start", "claim", "waiting", "writing"}
              /\ pc[h] \in {"start", "claim"} => mode[h] = "apply"
              /\ pc[h] = "writing" => verdict[h] = "abandoned"
        /\ shell \in {"staged", "recorded"} =>
              fs.result = "none" /\ \A h \in Helpers : pc[h] = "idle"

\* Its helper is alone until it has the lock.
ComingInv ==
    \A h \in Helpers : Coming(h) =>
        /\ \A k \in Helpers \ {h} : pc[k] = "idle"
        /\ \A b \in Build : settler[b] = "idle"
        /\ fs.install = "old" /\ fs.result = "none" /\ ~fs.ack

\* What helper h finds at each of its steps.
StepAt(h) ==
    /\ pc[h] \in Onward => fs.install = "old" /\ fs.result = "none" /\ ~fs.ack
    /\ pc[h] \in Exchange => fs.backup = "old" /\ fs.result = "none"
    /\ pc[h] \in Backward => fs.backup = "old" /\ fs.result \notin Final
    /\ pc[h] \in {"installing", "clearing", "launching"} => ~fs.ack /\ answering = "no"
    /\ pc[h] \in {"installing", "rb_restore"} => fs.install \in {"none", "other"}
    /\ pc[h] = "watching" /\ fs.ack => fs.install = "new"
    /\ pc[h] \in {"rb_recheck", "rb_reject"} => answering = "no"
StepInv == \A h \in Helpers : StepAt(h)

\* The outcome it is about to write is true.
VerdictAt(h) ==
    pc[h] = "writing" =>
        /\ verdict[h] = "restored" => fs.install \in {"old", "other"}
        /\ verdict[h] = "committed" => fs.install = "new" /\ fs.ack
        /\ verdict[h] = "abandoned" => fs.install = "old"
VerdictInv == \A h \in Helpers : VerdictAt(h)

\* The build that answers runs where it was installed.
AnswerInv == answering # "no" => "new" \in running /\ fs.install = "new"

\* What a launch removes, no helper needs any more.
SettleInv ==
    \A b \in Build : settler[b] \in {"removing", "removed"} =>
        /\ fs.install \in {"old", "other"} \/ (fs.install = "new" /\ fs.ack)
        /\ \A h \in Helpers : ~Coming(h) /\ pc[h] \notin Onward \cup Exchange \cup Backward

Sound ==
    /\ SaneInv /\ LockInv /\ ShellInv /\ ComingInv
    /\ StepInv /\ VerdictInv /\ AnswerInv /\ SettleInv

\* Once a launch has discarded what an unresolved transaction left, nothing is
\* promised any more.
IInv == TypeOK /\ (discarded \/ Sound)

-----------------------------------------------------------------------------
(* What the operators of the model do *)

LEMMA IsOld == ASSUME NEW tree PROVE Is(tree, "old") <=> tree \in {"old", "old_torn"}
BY DEF Is, Torn

LEMMA IsNew == ASSUME NEW tree PROVE Is(tree, "new") <=> tree \in {"new", "new_torn"}
BY DEF Is, Torn

\* The fields of the disk that the invariant is about, after a step.
Disk(install, candidate, backup, result, ack) ==
    /\ fs' \in State
    /\ fs'.install = install /\ fs'.candidate = candidate /\ fs'.backup = backup
    /\ fs'.result = result /\ fs'.ack = ack

\* What a step does to the images of the disk.
Imaged == images' \subseteq images \cup {fs'} /\ fs' \in images'

LEMMA ChangeDoes == ASSUME NEW STATE new, Change(new) \/ Durable(new) PROVE fs' = new /\ Imaged
BY DEF Change, Durable, Imaged

LEMMA NoChangeDoes ==
    ASSUME TypeOK, NoChange
    PROVE  Imaged /\ Disk(fs.install, fs.candidate, fs.backup, fs.result, fs.ack)
BY DEF TypeOK, NoChange, Imaged, Disk

LEMMA BackedUp ==
    ASSUME TypeOK, fs.install \in Tree, fs' = Moved("install", "backup")
    PROVE  Disk("none", fs.candidate, fs.install, fs.result, fs.ack)
BY DEF TypeOK, State, Tree, Build, Moved, Disk

LEMMA Installed ==
    ASSUME TypeOK, fs' = Moved("candidate", "install")
    PROVE  Disk(fs.candidate, "none", fs.backup, fs.result, fs.ack)
BY DEF TypeOK, State, Tree, Build, Moved, Disk

LEMMA Rejected ==
    ASSUME TypeOK, fs' = Moved("install", "rejected")
    PROVE  Disk("none", fs.candidate, fs.backup, fs.result, fs.ack)
BY DEF TypeOK, State, Tree, Build, Moved, Disk

LEMMA Restored ==
    ASSUME TypeOK, fs' = Moved("backup", "install")
    PROVE  Disk(fs.backup, fs.candidate, "none", fs.result, fs.ack)
BY DEF TypeOK, State, Tree, Build, Moved, Disk

LEMMA Recorded ==
    ASSUME TypeOK, NEW ack \in BOOLEAN, fs' = [fs EXCEPT !.ack = ack]
    PROVE  Disk(fs.install, fs.candidate, fs.backup, fs.result, ack)
BY DEF TypeOK, State, Disk

LEMMA Reported ==
    ASSUME TypeOK, NEW result \in Outcome, fs' = [fs EXCEPT !.result = result]
    PROVE  Disk(fs.install, fs.candidate, fs.backup, result, fs.ack)
BY DEF TypeOK, State, Disk

LEMMA PartlyGone ==
    ASSUME TypeOK, NEW result \in Outcome, fs' = PartlyRemoved(result)
    PROVE  Disk(fs.install, Torn(fs.candidate), Torn(fs.backup), result, fs.ack)
<1>1. \A tree \in Tree : Torn(tree) \in Tree BY DEF Torn, Tree, Build
<1>2. fs \in State BY DEF TypeOK
<1>3. fs' = [fs EXCEPT !.staging = "partial", !.result = result,
                !.candidate = Torn(fs.candidate), !.backup = Torn(fs.backup),
                !.rejected = Torn(fs.rejected)]
    BY <1>2 DEF PartlyRemoved, State
<1>. QED BY <1>1, <1>2, <1>3 DEF State, Disk

LEMMA AllGone ==
    ASSUME TypeOK, fs' = Removed
    PROVE  Disk(fs.install, "none", "none", "none", fs.ack)
<1>1. fs \in State /\ "none" \in Tree /\ "none" \in Outcome BY DEF TypeOK, Tree, Outcome
<1>. QED BY <1>1 DEF State, Removed, Disk

\* The other helpers stay where they are.
Alone(h) ==
    \A k \in Helpers \ {h} :
        pc'[k] = pc[k] /\ mode'[k] = mode[k] /\ verdict'[k] = verdict[k]
HelperTypes ==
    /\ pc' \in [Helpers -> Step] /\ mode' \in [Helpers -> {"apply", "recover"}]
    /\ verdict' \in [Helpers -> Outcome]

LEMMA GotoDoes ==
    ASSUME TypeOK, NEW h \in Helpers, NEW step \in Step, Goto(h, step)
    PROVE  pc'[h] = step /\ mode'[h] = mode[h] /\ Alone(h) /\ HelperTypes
BY DEF TypeOK, Goto, Alone, HelperTypes

LEMMA ConcludeDoes ==
    ASSUME TypeOK, NEW h \in Helpers, NEW outcome \in Outcome, Conclude(h, outcome)
    PROVE  pc'[h] = "writing" /\ verdict'[h] = outcome /\ Alone(h) /\ HelperTypes
BY DEF TypeOK, Conclude, Alone, HelperTypes, Step

LEMMA ExitDoes ==
    ASSUME TypeOK, NEW h \in Helpers, Exit(h)
    PROVE  /\ pc'[h] = "idle" /\ Alone(h) /\ HelperTypes
           /\ lock' = IF lock = h THEN "none" ELSE lock
BY DEF TypeOK, Exit, Alone, HelperTypes, Step, Outcome

LEMMA SpawnDoes ==
    ASSUME TypeOK, NEW h \in Helpers, NEW how \in {"apply", "recover"}, Spawn(h, how)
    PROVE  pc[h] = "idle" /\ pc'[h] = "start" /\ mode'[h] = how /\ Alone(h) /\ HelperTypes
BY DEF TypeOK, Spawn, Alone, HelperTypes, Step

\* The images of the disk stay sane when the one that is added is.
LEMMA ImagesSane ==
    ASSUME SaneInv, Imaged, answered => answered', Sane(fs)'
    PROVE  SaneInv'
BY DEF SaneInv, Sane, Imaged

-----------------------------------------------------------------------------
(* A helper that has the lock *)

NobodyRemoves == \A b \in Build : settler[b] \notin {"removing", "removed"}

LEMMA OnlyOneLocked ==
    ASSUME Sound, NEW h \in Helpers, pc[h] \in Locked
    PROVE  \A k \in Helpers \ {h} : pc[k] \notin Locked /\ ~Coming(k)
BY DEF Sound, LockInv, ComingInv, Locked, Onward, Exchange, Backward

LEMMA NothingRemoved ==
    ASSUME Sound, NEW h \in Helpers, pc[h] \in Onward \cup Exchange \cup Backward
    PROVE  NobodyRemoves
BY DEF Sound, SettleInv, NobodyRemoves

\* While the application that started the update lives, a helper waits or gives up.
LEMMA ShellGone ==
    ASSUME Sound, NEW h \in Helpers, pc[h] \notin {"idle", "start", "claim", "waiting", "writing"}
    PROVE  shell = "gone"
BY DEF Sound, ShellInv

\* What such a step must show of itself; nothing else can be disturbed by it.
LEMMA LockedStep ==
    ASSUME TypeOK, Sound, NEW h \in Helpers, pc[h] \in Locked, Alone(h), Imaged,
           UNCHANGED <<appVars, answered>>,
           \/ pc'[h] \in Locked /\ lock' = lock
           \/ pc'[h] = "idle" /\ lock' = "none",
           Sane(fs)', StepAt(h)', VerdictAt(h)',
           answering # "no" => fs'.install = "new",
           pc'[h] \in Onward \cup Exchange \cup Backward => NobodyRemoves,
           (fs'.install = fs.install /\ fs'.ack = fs.ack) \/ NobodyRemoves,
           shell # "gone" => /\ fs'.install = "old" /\ ~fs'.ack
                             /\ pc'[h] \in {"idle", "waiting", "writing"}
                             /\ pc'[h] = "writing" => verdict'[h] = "abandoned"
    PROVE  Sound'
<1>1. \A k \in Helpers \ {h} : pc'[k] = pc[k] /\ pc'[k] \notin Locked /\ ~Coming(k)'
    BY OnlyOneLocked DEF Alone, Coming
<1>2. ~Coming(h)' BY DEF Coming, Locked, Onward, Exchange, Backward
<1>3. SaneInv' BY ImagesSane DEF Sound
<1>4. LockInv'
    <2>1. lock = h BY DEF Sound, LockInv
    <2>2. h # "probe" BY UpdateAssumption
    <2>3. shell' # "probing" /\ \A b \in Build : settler'[b] # "probing"
        BY <2>1, <2>2 DEF Sound, LockInv, appVars
    <2>4. "idle" \notin Locked BY DEF Locked, Onward, Exchange, Backward
    <2>. QED BY <1>1, <2>1, <2>3, <2>4 DEF LockInv
<1>5. ShellInv'
    <2>1. "idle" \notin Locked /\ shell' = shell /\ running' = running /\ settler' = settler
        BY DEF Locked, Onward, Exchange, Backward, appVars
    <2>2. SUFFICES ASSUME shell # "gone" PROVE ShellInv' BY <2>1 DEF ShellInv
    <2>3. shell \notin {"staged", "recorded"} BY <2>1, <2>2 DEF Sound, ShellInv
    <2>4. \A k \in Helpers :
              /\ pc'[k] \in {"idle", "start", "claim", "waiting", "writing"}
              /\ pc'[k] \in {"start", "claim"} => mode'[k] = "apply"
              /\ pc'[k] = "writing" => verdict'[k] = "abandoned"
        BY <2>2 DEF Sound, ShellInv, Alone
    <2>. QED BY <2>1, <2>2, <2>3, <2>4 DEF Sound, ShellInv
<1>6. ComingInv' BY <1>1, <1>2 DEF ComingInv
<1>7. StepInv' BY <1>1 DEF StepInv, StepAt, Locked, Onward, Exchange, Backward
<1>8. VerdictInv' BY <1>1 DEF VerdictInv, VerdictAt, Locked
<1>9. AnswerInv' BY DEF Sound, AnswerInv, appVars
<1>10. SettleInv'
    BY <1>1, <1>2 DEF Sound, SettleInv, NobodyRemoves, appVars, Locked
<1>. QED BY <1>3, <1>4, <1>5, <1>6, <1>7, <1>8, <1>9, <1>10 DEF Sound

LEMMA SaneStays ==
    ASSUME TypeOK, Sound, UNCHANGED answered,
           Disk(fs.install, fs.candidate, fs.backup, fs.result, fs.ack)
    PROVE  Sane(fs)'
BY DEF TypeOK, Sound, SaneInv, Disk, Sane

\* A step that leaves the installation as it is.
LEMMA LooksOnly ==
    ASSUME TypeOK, Sound, NEW h \in Helpers, pc[h] \in Locked, Alone(h),
           Imaged, Disk(fs.install, fs.candidate, fs.backup, fs.result, fs.ack),
           UNCHANGED <<lock, appVars, answered>>,
           pc'[h] \in Locked, StepAt(h)', VerdictAt(h)',
           pc'[h] \in Onward \cup Exchange \cup Backward => NobodyRemoves,
           shell # "gone" => /\ pc'[h] \in {"waiting", "writing"}
                             /\ pc'[h] = "writing" => verdict'[h] = "abandoned"
    PROVE  Sound'
<1>1. Sane(fs)' BY SaneStays
<1>2. fs'.install = fs.install /\ fs'.ack = fs.ack BY DEF Disk
<1>3. answering # "no" => fs'.install = "new" BY <1>2 DEF Sound, AnswerInv
<1>4. shell # "gone" => fs'.install = "old" /\ ~fs'.ack BY <1>2 DEF Sound, ShellInv
<1>. QED BY <1>1, <1>2, <1>3, <1>4, LockedStep

LEMMA WaitForExitKeeps ==
    ASSUME TypeOK, Sound, NEW h \in Helpers, WaitForExit(h)
    PROVE  Sound'
<1>1. pc[h] = "waiting" /\ NoChange /\ UNCHANGED <<lock, appVars, answered>>
    BY DEF WaitForExit, historyVars
<1>2. Imaged /\ Disk(fs.install, fs.candidate, fs.backup, fs.result, fs.ack)
    BY <1>1, NoChangeDoes
<1>3. fs.install = "old" /\ fs.result = "none" /\ ~fs.ack
    BY <1>1 DEF Sound, StepInv, StepAt, Onward
<1>4. pc[h] \in Locked /\ pc[h] \in Onward BY <1>1 DEF Locked, Onward
<1>5. NobodyRemoves BY <1>4, NothingRemoved
<1>6. CASE shell = "gone" /\ Goto(h, "checking")
    <2>1. pc'[h] = "checking" /\ Alone(h) BY <1>6, GotoDoes DEF Step
    <2>2. pc'[h] \in Locked BY <2>1 DEF Locked, Onward
    <2>3. StepAt(h)' /\ VerdictAt(h)'
        BY <1>2, <1>3, <2>1 DEF StepAt, VerdictAt, Disk, Onward, Exchange, Backward
    <2>. QED BY <1>1, <1>2, <1>4, <1>5, <1>6, <2>1, <2>2, <2>3, LooksOnly
<1>7. CASE Conclude(h, "abandoned")
    <2>1. pc'[h] = "writing" /\ verdict'[h] = "abandoned" /\ Alone(h)
        BY <1>7, ConcludeDoes DEF Outcome
    <2>2. pc'[h] \in Locked BY <2>1 DEF Locked
    <2>3. StepAt(h)' /\ VerdictAt(h)'
        BY <1>2, <1>3, <2>1 DEF StepAt, VerdictAt, Disk, Onward, Exchange, Backward
    <2>. QED BY <1>1, <1>2, <1>4, <1>5, <2>1, <2>2, <2>3, LooksOnly
<1>. QED BY <1>6, <1>7 DEF WaitForExit

\* The outcome that a helper concludes with is true of the disk as it is.
LEMMA ConcludesTruly ==
    ASSUME TypeOK, Sound, NEW h \in Helpers, pc[h] \in Locked,
           NEW outcome \in Outcome, Conclude(h, outcome),
           Imaged, Disk(fs.install, fs.candidate, fs.backup, fs.result, fs.ack),
           UNCHANGED <<lock, appVars, answered>>,
           outcome = "restored" => fs.install \in {"old", "other"},
           outcome = "committed" => fs.install = "new" /\ fs.ack,
           outcome = "abandoned" => fs.install = "old",
           shell = "gone" \/ outcome = "abandoned"
    PROVE  Sound'
<1>1. pc'[h] = "writing" /\ verdict'[h] = outcome /\ Alone(h) BY ConcludeDoes
<1>2. pc'[h] \in Locked /\ pc'[h] \notin Onward \cup Exchange \cup Backward
    BY <1>1 DEF Locked, Onward, Exchange, Backward
<1>3. StepAt(h)' BY <1>1, <1>2 DEF StepAt
<1>4. VerdictAt(h)' BY <1>1 DEF VerdictAt, Disk
<1>. QED BY <1>1, <1>2, <1>3, <1>4, LooksOnly

\* On the way there and back nobody removes anything, and the application is gone.
LEMMA GoesOn ==
    ASSUME TypeOK, Sound, NEW h \in Helpers, pc[h] \in Onward \cup Exchange \cup Backward,
           pc[h] # "waiting", NEW step \in Locked, Goto(h, step), step # "writing",
           Imaged, UNCHANGED <<lock, appVars, answered>>,
           Sane(fs)', StepAt(h)', answering # "no" => fs'.install = "new"
    PROVE  Sound'
<1>1. pc[h] \in Locked /\ step \in Step
    BY DEF Locked, Onward, Exchange, Backward, Step
<1>2. pc'[h] = step /\ Alone(h) BY <1>1, GotoDoes
<1>3. NobodyRemoves BY NothingRemoved
<1>4. shell = "gone" BY ShellGone DEF Onward, Exchange, Backward
<1>5. VerdictAt(h)' BY <1>2 DEF VerdictAt
<1>. QED BY <1>1, <1>2, <1>3, <1>4, <1>5, LockedStep

LEMMA GivesUp ==
    ASSUME TypeOK, Sound, NEW h \in Helpers, pc[h] \in Onward \cup Exchange \cup Backward,
           pc[h] # "waiting", NEW outcome \in Outcome, Conclude(h, outcome),
           Imaged, UNCHANGED <<lock, appVars, answered>>,
           Sane(fs)', VerdictAt(h)', answering # "no" => fs'.install = "new"
    PROVE  Sound'
<1>1. pc[h] \in Locked BY DEF Locked
<1>2. pc'[h] = "writing" /\ Alone(h) BY ConcludeDoes
<1>3. NobodyRemoves BY NothingRemoved
<1>4. shell = "gone" BY ShellGone DEF Onward, Exchange, Backward
<1>5. pc'[h] \in Locked /\ StepAt(h)'
    BY <1>2 DEF StepAt, Locked, Onward, Exchange, Backward
<1>. QED BY <1>1, <1>2, <1>3, <1>4, <1>5, LockedStep

\* What is known at a step on the way.
LEMMA OnTheWay ==
    ASSUME TypeOK, Sound, NEW h \in Helpers
    PROVE  /\ Sane(fs) /\ StepAt(h) /\ VerdictAt(h)
           /\ answering # "no" => fs.install = "new"
           /\ pc[h] \notin {"idle", "start", "claim", "waiting", "writing"} => shell = "gone"
           /\ fs \in State
BY ShellGone DEF TypeOK, Sound, SaneInv, StepInv, VerdictInv, AnswerInv

LEMMA CheckIdentitiesKeeps ==
    ASSUME TypeOK, Sound, NEW h \in Helpers, CheckIdentities(h)
    PROVE  Sound'
<1>1. pc[h] = "checking" /\ NoChange /\ UNCHANGED <<lock, appVars, answered>>
    BY DEF CheckIdentities, historyVars
<1>2. Imaged /\ Disk(fs.install, fs.candidate, fs.backup, fs.result, fs.ack)
    BY <1>1, NoChangeDoes
<1>3. fs.install = "old" /\ fs.result = "none" /\ ~fs.ack /\ answering = "no" /\ shell = "gone"
    BY <1>1, OnTheWay DEF StepAt, Onward
<1>4. pc[h] \in Locked /\ pc[h] \in Onward /\ "backing_up" \in Locked /\ "backing_up" \in Step
    BY <1>1 DEF Locked, Onward, Step
<1>5. CASE Goto(h, "backing_up")
    <2>1. StepAt(h)'
        BY <1>2, <1>3, <1>4, <1>5, GotoDoes DEF StepAt, Disk, Onward, Exchange, Backward
    <2>. QED BY <1>1, <1>2, <1>3, <1>4, <1>5, <2>1, GoesOn, SaneStays
<1>6. CASE Conclude(h, "abandoned")
    BY <1>1, <1>2, <1>3, <1>4, <1>6, ConcludesTruly DEF Outcome
<1>. QED BY <1>5, <1>6 DEF CheckIdentities

\* The previous build is moved aside, whole.
LEMMA BackUpKeeps ==
    ASSUME TypeOK, Sound, NEW h \in Helpers, BackUp(h)
    PROVE  Sound'
<1>1. pc[h] = "backing_up" /\ UNCHANGED <<lock, appVars, answered>>
    BY DEF BackUp, historyVars
<1>2. fs.install = "old" /\ fs.result = "none" /\ ~fs.ack /\ answering = "no" /\ shell = "gone"
    BY <1>1, OnTheWay DEF StepAt, Onward
<1>3. pc[h] \in Locked /\ pc[h] \in Onward BY <1>1 DEF Locked, Onward
<1>4. "installing" \in Locked \cap Step BY DEF Locked, Exchange, Step
<1>5. {"recovery-required", "abandoned"} \subseteq Outcome BY DEF Outcome
<1>6. fs.candidate \in {"none", "new", "new_torn"} BY OnTheWay DEF Sane
<1>7. ASSUME fs' = Moved("install", "backup"), Imaged
      PROVE  /\ Sane(fs)' /\ Imaged
             /\ Disk("none", fs.candidate, "old", "none", FALSE)
    <2>1. Disk("none", fs.candidate, "old", "none", FALSE)
        BY <1>2, <1>7, BackedUp, OnTheWay DEF State
    <2>. QED BY <1>6, <1>7, <2>1 DEF Disk, Sane, Final
<1>8. CASE Durable(Moved("install", "backup")) /\ Goto(h, "installing")
    <2>1. Sane(fs)' /\ Imaged /\ Disk("none", fs.candidate, "old", "none", FALSE)
        BY <1>7, <1>8, ChangeDoes
    <2>2. StepAt(h)'
        BY <1>1, <1>2, <1>4, <1>8, <2>1, GotoDoes
        DEF StepAt, Disk, Onward, Exchange, Backward, appVars
    <2>. QED BY <1>1, <1>2, <1>3, <1>4, <1>8, <2>1, <2>2, GoesOn
<1>9. CASE Change(Moved("install", "backup")) /\ Conclude(h, "recovery-required")
    <2>1. Sane(fs)' /\ Imaged BY <1>7, <1>9, ChangeDoes
    <2>2. VerdictAt(h)' BY <1>5, <1>9, ConcludeDoes DEF VerdictAt
    <2>. QED BY <1>1, <1>2, <1>3, <1>5, <1>9, <2>1, <2>2, GivesUp
<1>10. CASE NoChange /\ Conclude(h, "abandoned")
    BY <1>1, <1>2, <1>3, <1>5, <1>10, NoChangeDoes, ConcludesTruly
<1>. QED BY <1>8, <1>9, <1>10 DEF BackUp, Move

\* A step of the exchange fails: the helper turns back.
LEMMA TurnsBack ==
    ASSUME TypeOK, Sound, NEW h \in Helpers, pc[h] \in Exchange, Goto(h, "rb_check"),
           Imaged, UNCHANGED <<lock, appVars, answered>>,
           Sane(fs)', fs'.backup = "old", fs'.result = "none",
           answering # "no" => fs'.install = "new"
    PROVE  Sound'
<1>1. pc[h] # "waiting" /\ "rb_check" \in Locked \cap Step
    BY DEF Exchange, Locked, Backward, Step
<1>2. pc'[h] = "rb_check" BY <1>1, GotoDoes
<1>3. StepAt(h)' BY <1>2 DEF StepAt, Onward, Exchange, Backward, Final
<1>. QED BY <1>1, <1>3, GoesOn

LEMMA InstallKeeps ==
    ASSUME TypeOK, Sound, NEW h \in Helpers, Install(h)
    PROVE  Sound'
<1>1. pc[h] = "installing" /\ UNCHANGED <<lock, appVars, answered>>
    BY DEF Install, historyVars
<1>2. pc[h] \in Exchange /\ pc[h] # "waiting" /\ "clearing" \in Locked \cap Step
    BY <1>1 DEF Exchange, Locked, Step
<1>3. fs.install \in {"none", "other"} /\ fs.backup = "old" /\ fs.result = "none" /\ ~fs.ack
      /\ answering = "no"
    BY <1>1, OnTheWay DEF StepAt, Exchange
<1>4. fs.candidate \in {"none", "new", "new_torn"} BY OnTheWay DEF Sane
<1>5. ASSUME CanMove("candidate", "install"), fs' = Moved("candidate", "install"), Imaged
      PROVE  Sane(fs)' /\ Disk(fs.candidate, "none", "old", "none", FALSE)
    <2>1. Disk(fs.candidate, "none", "old", "none", FALSE)
        BY <1>3, <1>5, Installed, OnTheWay DEF State
    <2>2. fs.candidate # "none" BY <1>5 DEF CanMove
    <2>. QED BY <1>4, <2>1, <2>2 DEF Disk, Sane, Final
<1>6. CASE CanMove("candidate", "install") /\ Durable(Moved("candidate", "install"))
           /\ Goto(h, "clearing")
    <2>1. Sane(fs)' /\ Imaged /\ Disk(fs.candidate, "none", "old", "none", FALSE)
        BY <1>5, <1>6, ChangeDoes
    <2>2. StepAt(h)'
        BY <1>1, <1>2, <1>3, <1>6, <2>1, GotoDoes
        DEF StepAt, Disk, Onward, Exchange, Backward, appVars
    <2>. QED BY <1>1, <1>2, <1>3, <1>6, <2>1, <2>2, GoesOn
<1>7. CASE CanMove("candidate", "install") /\ Change(Moved("candidate", "install"))
           /\ Goto(h, "rb_check")
    <2>1. Sane(fs)' /\ Imaged /\ Disk(fs.candidate, "none", "old", "none", FALSE)
        BY <1>5, <1>7, ChangeDoes
    <2>. QED BY <1>1, <1>2, <1>3, <1>7, <2>1, TurnsBack DEF Disk
<1>8. CASE NoChange /\ Goto(h, "rb_check")
    BY <1>1, <1>2, <1>3, <1>8, NoChangeDoes, SaneStays, TurnsBack DEF Disk
<1>. QED BY <1>6, <1>7, <1>8 DEF Install, Move

LEMMA ClearAcknowledgementKeeps ==
    ASSUME TypeOK, Sound, NEW h \in Helpers, ClearAcknowledgement(h)
    PROVE  Sound'
<1>1. pc[h] = "clearing" /\ UNCHANGED <<lock, appVars, answered>>
    BY DEF ClearAcknowledgement, historyVars
<1>2. pc[h] \in Exchange /\ pc[h] # "waiting" /\ "launching" \in Locked \cap Step
    BY <1>1 DEF Exchange, Locked, Step
<1>3. fs.backup = "old" /\ fs.result = "none" /\ ~fs.ack /\ answering = "no"
    BY <1>1, OnTheWay DEF StepAt, Exchange
<1>4. CASE Change([fs EXCEPT !.ack = FALSE]) /\ Goto(h, "launching")
    <2>1. Imaged /\ fs' = [fs EXCEPT !.ack = FALSE] BY <1>4, ChangeDoes
    <2>2. Disk(fs.install, fs.candidate, fs.backup, fs.result, fs.ack)
        <3>1. Disk(fs.install, fs.candidate, fs.backup, fs.result, FALSE) BY <2>1, Recorded
        <3>2. fs.ack = FALSE BY <1>3, OnTheWay DEF State
        <3>. QED BY <3>1, <3>2
    <2>3. StepAt(h)'
        BY <1>1, <1>2, <1>3, <1>4, <2>2, GotoDoes
        DEF StepAt, Disk, Onward, Exchange, Backward, appVars
    <2>. QED BY <1>1, <1>2, <1>3, <1>4, <2>1, <2>2, <2>3, SaneStays, GoesOn
<1>5. CASE NoChange /\ Goto(h, "rb_check")
    BY <1>1, <1>2, <1>3, <1>5, NoChangeDoes, SaneStays, TurnsBack DEF Disk
<1>. QED BY <1>4, <1>5 DEF ClearAcknowledgement

\* The answer decides, and it is the new build's.
LEMMA WaitForStartupKeeps ==
    ASSUME TypeOK, Sound, NEW h \in Helpers, WaitForStartup(h)
    PROVE  Sound'
<1>1. pc[h] = "watching" /\ NoChange /\ UNCHANGED <<lock, appVars, answered>>
    BY DEF WaitForStartup, historyVars
<1>2. Imaged /\ Disk(fs.install, fs.candidate, fs.backup, fs.result, fs.ack)
    BY <1>1, NoChangeDoes
<1>3. fs.backup = "old" /\ fs.result = "none" /\ (fs.ack => fs.install = "new")
      /\ shell = "gone" /\ (answering # "no" => fs.install = "new")
    BY <1>1, OnTheWay DEF StepAt, Exchange
<1>4. pc[h] \in Exchange /\ pc[h] \in Locked BY <1>1 DEF Exchange, Locked
<1>5. CASE fs.ack /\ Conclude(h, "committed")
    BY <1>1, <1>2, <1>3, <1>4, <1>5, ConcludesTruly DEF Outcome
<1>6. CASE Goto(h, "rb_check")
    BY <1>1, <1>2, <1>3, <1>4, <1>6, SaneStays, TurnsBack DEF Disk
<1>. QED BY <1>5, <1>6 DEF WaitForStartup

-----------------------------------------------------------------------------
(* The way back *)

\* A helper that stops trying says so: its outcome claims nothing.
LEMMA RequiresRecovery ==
    ASSUME TypeOK, Sound, NEW h \in Helpers, pc[h] \in Locked, shell = "gone",
           NoChange, Conclude(h, "recovery-required"), UNCHANGED <<lock, appVars, answered>>
    PROVE  Sound'
BY NoChangeDoes, ConcludesTruly DEF Outcome

LEMMA CheckRollbackKeeps ==
    ASSUME TypeOK, Sound, NEW h \in Helpers, CheckRollback(h) \/ RecheckRollback(h)
    PROVE  Sound'
<1>1. pc[h] \in {"rb_check", "rb_recheck"} /\ NoChange /\ UNCHANGED <<lock, appVars, answered>>
    BY DEF CheckRollback, RecheckRollback, historyVars
<1>2. Imaged /\ Disk(fs.install, fs.candidate, fs.backup, fs.result, fs.ack)
    BY <1>1, NoChangeDoes
<1>3. fs.backup = "old" /\ fs.result \notin Final /\ shell = "gone"
      /\ (answering # "no" => fs.install = "new")
      /\ (pc[h] = "rb_recheck" => answering = "no")
    BY <1>1, OnTheWay DEF StepAt, Backward
<1>4. pc[h] \in Backward /\ pc[h] \in Locked BY <1>1 DEF Backward, Locked
<1>5. CASE Conclude(h, "recovery-required")
    BY <1>1, <1>3, <1>4, <1>5, RequiresRecovery
<1>6. ASSUME NEW step \in {"rb_stop", "rb_recheck", "rb_reject"}, Goto(h, step),
             step # "rb_stop" => answering = "no"
      PROVE  Sound'
    <2>1. step \in Locked \cap Step BY DEF Locked, Backward, Step
    <2>2. StepAt(h)'
        BY <1>1, <1>2, <1>3, <1>6, <2>1, GotoDoes
        DEF StepAt, Disk, Onward, Exchange, Backward, appVars
    <2>3. answering # "no" => fs'.install = "new" BY <1>2, <1>3 DEF Disk
    <2>. QED BY <1>1, <1>2, <1>3, <1>4, <1>6, <2>1, <2>2, <2>3, SaneStays, GoesOn
<1>7. CASE CheckRollback(h)
    BY <1>3, <1>5, <1>6, <1>7 DEF CheckRollback
<1>8. CASE RecheckRollback(h)
    BY <1>1, <1>3, <1>5, <1>6, <1>8 DEF RecheckRollback
<1>. QED BY <1>7, <1>8

LEMMA RejectKeeps ==
    ASSUME TypeOK, Sound, NEW h \in Helpers, Reject(h)
    PROVE  Sound'
<1>1. pc[h] = "rb_reject" /\ UNCHANGED <<lock, appVars, answered>>
    BY DEF Reject, historyVars
<1>2. fs.backup = "old" /\ fs.result \notin Final /\ shell = "gone" /\ answering = "no"
    BY <1>1, OnTheWay DEF StepAt, Backward
<1>3. pc[h] \in Backward /\ pc[h] \in Locked /\ "rb_restore" \in Locked \cap Step
    BY <1>1 DEF Backward, Locked, Step
<1>4. ASSUME Imaged, Goto(h, "rb_restore"), Sane(fs)',
             fs'.install = "none", fs'.backup = "old", fs'.result \notin Final
      PROVE  Sound'
    <2>1. StepAt(h)'
        BY <1>3, <1>4, GotoDoes DEF StepAt, Onward, Exchange, Backward
    <2>. QED BY <1>1, <1>2, <1>3, <1>4, <2>1, GoesOn
<1>5. CASE fs.install = "none" /\ NoChange /\ Goto(h, "rb_restore")
    BY <1>1, <1>2, <1>4, <1>5, NoChangeDoes, SaneStays DEF Disk
<1>6. ASSUME fs' = Moved("install", "rejected")
      PROVE  Sane(fs)' /\ fs'.install = "none" /\ fs'.backup = "old" /\ fs'.result \notin Final
    <2>1. Disk("none", fs.candidate, fs.backup, fs.result, fs.ack) BY <1>6, Rejected
    <2>. QED BY <1>1, <1>2, <2>1, OnTheWay DEF Disk, Sane, Final
<1>7. CASE Durable(Moved("install", "rejected")) /\ Goto(h, "rb_restore")
    BY <1>4, <1>6, <1>7, ChangeDoes
<1>8. CASE Change(Moved("install", "rejected")) /\ Conclude(h, "recovery-required")
    <2>1. Imaged /\ Sane(fs)' BY <1>6, <1>8, ChangeDoes
    <2>2. "recovery-required" \in Outcome BY DEF Outcome
    <2>3. VerdictAt(h)' BY <1>8, <2>2, ConcludeDoes DEF VerdictAt
    <2>. QED BY <1>1, <1>2, <1>3, <1>8, <2>1, <2>2, <2>3, GivesUp
<1>9. CASE NoChange /\ Conclude(h, "recovery-required")
    BY <1>1, <1>2, <1>3, <1>9, RequiresRecovery
<1>. QED BY <1>5, <1>7, <1>8, <1>9 DEF Reject, Move

\* The previous build is put back where it was.
LEMMA PutBackKeeps ==
    ASSUME TypeOK, Sound, NEW h \in Helpers, pc[h] \in {"rb_restore", "inspect"},
           fs.install = "none", PutBack(h), UNCHANGED <<lock, appVars, answered>>
    PROVE  Sound'
<1>1. fs.backup = "old" /\ fs.result \notin Final /\ answering = "no" /\ shell = "gone"
    BY OnTheWay DEF Sane
<1>2. pc[h] \in Locked /\ {"restored", "recovery-required"} \subseteq Outcome
    BY DEF Locked, Backward, Outcome
<1>3. NobodyRemoves
    BY <1>1 DEF Sound, SettleInv, NobodyRemoves
<1>4. ASSUME fs' = Moved("backup", "install"), Imaged,
             NEW outcome \in {"restored", "recovery-required"}, Conclude(h, outcome)
      PROVE  Sound'
    <2>1. Disk("old", fs.candidate, "none", fs.result, fs.ack) BY <1>1, <1>4, Restored
    <2>2. Sane(fs)' BY <1>1, <2>1, OnTheWay DEF Disk, Sane, Final
    <2>3. pc'[h] = "writing" /\ verdict'[h] = outcome /\ Alone(h)
        BY <1>2, <1>4, ConcludeDoes
    <2>4. StepAt(h)' /\ VerdictAt(h)' /\ pc'[h] \in Locked
        BY <2>1, <2>3 DEF StepAt, VerdictAt, Disk, Onward, Exchange, Backward, Locked
    <2>. QED BY <1>1, <1>2, <1>3, <1>4, <2>2, <2>3, <2>4, LockedStep
<1>5. CASE NoChange /\ Conclude(h, "recovery-required")
    BY <1>1, <1>2, <1>5, RequiresRecovery
<1>. QED BY <1>4, <1>5, ChangeDoes DEF PutBack, Move

LEMMA RestoreKeeps ==
    ASSUME TypeOK, Sound, NEW h \in Helpers, Restore(h)
    PROVE  Sound'
<1>1. pc[h] = "rb_restore" /\ UNCHANGED <<lock, appVars, answered>>
    BY DEF Restore, historyVars
<1>2. CASE fs.install = "none" /\ PutBack(h) BY <1>1, <1>2, PutBackKeeps
<1>3. CASE fs.install # "none" /\ NoChange /\ Conclude(h, "restored")
    <2>1. fs.install = "other" /\ shell = "gone" BY <1>1, <1>3, OnTheWay DEF StepAt
    <2>2. pc[h] \in Locked BY <1>1 DEF Locked, Backward
    <2>. QED BY <1>1, <1>3, <2>1, <2>2, NoChangeDoes, ConcludesTruly DEF Outcome
<1>. QED BY <1>2, <1>3 DEF Restore

-----------------------------------------------------------------------------
(* A recovery: what is there decides *)

LEMMA InspectKeeps ==
    ASSUME TypeOK, Sound, NEW h \in Helpers, Inspect(h)
    PROVE  Sound'
<1>1. pc[h] = "inspect" /\ UNCHANGED <<lock, appVars, answered>>
    BY DEF Inspect, historyVars
<1>2. pc[h] \in Locked /\ shell = "gone" /\ Sane(fs) BY <1>1, OnTheWay DEF Locked
<1>3. CASE NoChange /\ Conclude(h, "recovery-required")
    BY <1>1, <1>2, <1>3, RequiresRecovery
<1>4. CASE InspectInstalled(h)
    <2>1. CASE Is(fs.install, "old") /\ Durable(fs) /\ Conclude(h, "restored")
        <3>1. fs.install = "old" BY <1>2, <2>1, IsOld DEF Sane
        <3>2. Imaged /\ fs' = fs BY <2>1, ChangeDoes
        <3>3. Disk(fs.install, fs.candidate, fs.backup, fs.result, fs.ack)
            BY <3>2, OnTheWay DEF Disk
        <3>. QED BY <1>1, <1>2, <2>1, <3>1, <3>2, <3>3, ConcludesTruly DEF Outcome
    <2>2. CASE Is(fs.install, "old") /\ NoChange /\ Conclude(h, "abandoned")
        <3>1. fs.install = "old" BY <1>2, <2>2, IsOld DEF Sane
        <3>. QED BY <1>1, <1>2, <2>2, <3>1, NoChangeDoes, ConcludesTruly DEF Outcome
    <2>. QED BY <1>3, <1>4, <2>1, <2>2 DEF InspectInstalled
<1>5. CASE fs.install = "none" /\ InspectBackedUp(h)
    BY <1>1, <1>3, <1>5, PutBackKeeps DEF InspectBackedUp
<1>6. CASE fs.install # "none" /\ InspectBoth(h)
    <2>1. CASE Exchanged /\ fs.ack /\ NoChange /\ Conclude(h, "committed")
        <3>1. fs.install = "new" BY <1>2, <1>6, <2>1, IsNew DEF Exchanged, Sane
        <3>. QED BY <1>1, <1>2, <2>1, <3>1, NoChangeDoes, ConcludesTruly DEF Outcome
    <2>2. CASE Exchanged /\ ~fs.ack /\ NoChange /\ Goto(h, "rb_check")
        <3>1. fs.install \in {"new", "new_torn"} BY <1>6, <2>2, IsNew DEF Exchanged
        <3>2. fs.backup = "old" /\ fs.result \notin Final
            BY <1>2, <2>2, <3>1 DEF Sane, Final
        <3>3. NobodyRemoves
            BY <2>2, <3>1 DEF Sound, SettleInv, NobodyRemoves
        <3>4. Imaged /\ Disk(fs.install, fs.candidate, fs.backup, fs.result, fs.ack)
            BY <2>2, NoChangeDoes
        <3>5. "rb_check" \in Locked \cap Step BY DEF Locked, Backward, Step
        <3>6. pc'[h] = "rb_check" /\ Alone(h) BY <2>2, <3>5, GotoDoes
        <3>7. StepAt(h)' /\ VerdictAt(h)'
            BY <3>2, <3>4, <3>6 DEF StepAt, VerdictAt, Disk, Onward, Exchange, Backward
        <3>. QED BY <1>1, <1>2, <3>3, <3>4, <3>5, <3>6, <3>7, LooksOnly
    <2>. QED BY <1>3, <1>6, <2>1, <2>2 DEF InspectBoth
<1>. QED BY <1>3, <1>4, <1>5, <1>6 DEF Inspect

\* write_result: what the outcome says is true by then.
LEMMA WriteResultKeeps ==
    ASSUME TypeOK, Sound, NEW h \in Helpers, WriteResult(h)
    PROVE  Sound'
<1>1. pc[h] = "writing" /\ UNCHANGED <<appVars, answered>> /\ pc[h] \in Locked
    BY DEF WriteResult, historyVars, Locked
<1>2. lock = h /\ Sane(fs) /\ VerdictAt(h) /\ verdict[h] \in Outcome
    BY <1>1, OnTheWay DEF Sound, LockInv, TypeOK
<1>3. Imaged /\ \E result \in {fs.result, verdict[h]} :
          Disk(fs.install, fs.candidate, fs.backup, result, fs.ack)
    <2>1. CASE NoChange BY <2>1, NoChangeDoes
    <2>2. CASE \/ Durable([fs EXCEPT !.result = verdict[h]])
               \/ Change([fs EXCEPT !.result = verdict[h]])
        <3>1. Imaged /\ fs' = [fs EXCEPT !.result = verdict[h]] BY <2>2, ChangeDoes
        <3>. QED BY <1>2, <3>1, Reported
    <2>. QED BY <2>1, <2>2 DEF WriteResult
<1>4. fs'.install = fs.install /\ fs'.ack = fs.ack BY <1>3 DEF Disk
<1>5. Sane(fs)' BY <1>1, <1>2, <1>3 DEF Disk, Sane, VerdictAt, Final
<1>6. /\ Alone(h)
      /\ \/ pc'[h] = "relaunch" /\ verdict[h] = "restored" /\ lock' = lock
         \/ pc'[h] = "idle" /\ lock' = "none"
    <2>1. CASE verdict[h] = "restored" /\ Goto(h, "relaunch") /\ UNCHANGED lock
        BY <2>1, GotoDoes DEF Step
    <2>2. CASE Exit(h) BY <1>2, <2>2, ExitDoes
    <2>. QED BY <2>1, <2>2 DEF WriteResult
<1>7. StepAt(h)' /\ VerdictAt(h)' /\ pc'[h] \notin Onward \cup Exchange \cup Backward
    BY <1>6 DEF StepAt, VerdictAt, Onward, Exchange, Backward
<1>8. pc'[h] = "relaunch" => pc'[h] \in Locked BY DEF Locked
<1>9. shell # "gone" => fs'.install = "old" /\ ~fs'.ack /\ pc'[h] = "idle"
    BY <1>1, <1>4, <1>6 DEF Sound, ShellInv
<1>10. answering # "no" => fs'.install = "new" BY <1>4, OnTheWay
<1>. QED BY <1>1, <1>4, <1>3, <1>5, <1>6, <1>7, <1>8, <1>9, <1>10, LockedStep

\* A helper starts or stops the application.
LEMMA LockedProcess ==
    ASSUME TypeOK, Sound, NEW h \in Helpers, pc[h] \in Locked, Alone(h),
           NoChange, UNCHANGED answered, shell = "gone", shell' = "gone",
           \/ pc'[h] \in Locked /\ lock' = lock
           \/ pc'[h] = "idle" /\ lock' = "none",
           StepAt(h)', pc'[h] # "writing", AnswerInv',
           \A b \in Build : settler'[b] \in {"idle", "reading", settler[b]},
           pc'[h] \in Onward \cup Exchange \cup Backward => NobodyRemoves
    PROVE  Sound'
<1>1. \A k \in Helpers \ {h} : pc'[k] = pc[k] /\ pc'[k] \notin Locked /\ ~Coming(k)'
    BY OnlyOneLocked DEF Alone, Coming
<1>2. ~Coming(h)' BY DEF Coming, Locked, Onward, Exchange, Backward
<1>3. Imaged /\ Disk(fs.install, fs.candidate, fs.backup, fs.result, fs.ack) BY NoChangeDoes
<1>4. SaneInv' BY <1>3, SaneStays, ImagesSane DEF Sound
<1>5. LockInv'
    <2>1. lock = h /\ h # "probe" BY UpdateAssumption DEF Sound, LockInv
    <2>2. \A b \in Build : settler'[b] # "probing" BY <2>1 DEF Sound, LockInv
    <2>3. "idle" \notin Locked BY DEF Locked, Onward, Exchange, Backward
    <2>. QED BY <1>1, <2>1, <2>2, <2>3 DEF LockInv
<1>6. ShellInv' BY DEF ShellInv
<1>7. ComingInv' BY <1>1, <1>2 DEF ComingInv
<1>8. StepInv' BY <1>1 DEF StepInv, StepAt, Locked, Onward, Exchange, Backward
<1>9. VerdictInv' BY <1>1 DEF VerdictInv, VerdictAt, Locked
<1>10. SettleInv'
    BY <1>1, <1>2, <1>3 DEF Sound, SettleInv, NobodyRemoves, Disk, Locked
<1>. QED BY <1>4, <1>5, <1>6, <1>7, <1>8, <1>9, <1>10 DEF Sound

LEMMA LaunchCandidateKeeps ==
    ASSUME TypeOK, Sound, NEW h \in Helpers, LaunchCandidate(h)
    PROVE  Sound'
<1>1. pc[h] = "launching" /\ NoChange /\ UNCHANGED <<lock, shell, answered>>
    BY DEF LaunchCandidate, historyVars
<1>2. pc[h] \in Exchange /\ pc[h] \in Locked /\ {"watching", "rb_check"} \subseteq Locked \cap Step
    BY <1>1 DEF Exchange, Locked, Backward, Step
<1>3. fs.backup = "old" /\ fs.result = "none" /\ ~fs.ack /\ answering = "no" /\ shell = "gone"
    BY <1>1, OnTheWay DEF StepAt, Exchange
<1>4. Imaged /\ Disk(fs.install, fs.candidate, fs.backup, fs.result, fs.ack)
    BY <1>1, NoChangeDoes
<1>5. CASE /\ fs.install \in Build /\ Launched(fs.install)
           /\ answering' = IF fs.install = "new" THEN "asked" ELSE answering
           /\ Goto(h, "watching")
    <2>1. pc'[h] = "watching" /\ Alone(h) BY <1>2, <1>5, GotoDoes
    <2>2. StepAt(h)' BY <1>3, <1>4, <2>1 DEF StepAt, Disk, Onward, Exchange, Backward
    <2>3. AnswerInv' BY <1>3, <1>4, <1>5 DEF AnswerInv, Disk, Launched
    <2>4. \A b \in Build : settler'[b] \in {"idle", "reading", settler[b]}
        BY <1>5 DEF TypeOK, Launched
    <2>5. NobodyRemoves BY <1>2, NothingRemoved
    <2>. QED BY <1>1, <1>2, <1>3, <2>1, <2>2, <2>3, <2>4, <2>5, LockedProcess
<1>6. CASE Goto(h, "rb_check") /\ UNCHANGED <<running, settler, answering>>
    BY <1>1, <1>2, <1>3, <1>4, <1>6, SaneStays, TurnsBack DEF appVars, Disk
<1>. QED BY <1>5, <1>6 DEF LaunchCandidate

LEMMA StopProcessesKeeps ==
    ASSUME TypeOK, Sound, NEW h \in Helpers, StopProcesses(h)
    PROVE  Sound'
<1>1. pc[h] = "rb_stop" /\ NoChange /\ UNCHANGED answered
    BY DEF StopProcesses, historyVars
<1>2. pc[h] \in Backward /\ pc[h] \in Locked /\ "rb_recheck" \in Locked \cap Step
    BY <1>1 DEF Backward, Locked, Step
<1>3. fs.backup = "old" /\ fs.result \notin Final /\ shell = "gone"
      /\ (answering # "no" => "new" \in running /\ fs.install = "new")
    BY <1>1, OnTheWay DEF StepAt, Backward, Sound, AnswerInv
<1>4. Imaged /\ Disk(fs.install, fs.candidate, fs.backup, fs.result, fs.ack)
    BY <1>1, NoChangeDoes
<1>5. CASE Gone(running \cap {fs.install}) /\ Goto(h, "rb_recheck")
    <2>1. pc'[h] = "rb_recheck" /\ Alone(h) BY <1>2, <1>5, GotoDoes
    <2>2. answering' = "no" /\ shell' = "gone" BY <1>3, <1>5 DEF Gone
    <2>3. lock' = lock
        <3>1. lock = h /\ h # "probe" BY <1>2, UpdateAssumption DEF Sound, LockInv
        <3>. QED BY <1>5, <3>1 DEF Gone
    <2>4. StepAt(h)' BY <1>3, <1>4, <2>1, <2>2 DEF StepAt, Disk, Onward, Exchange, Backward
    <2>5. AnswerInv' BY <2>2 DEF AnswerInv
    <2>6. \A b \in Build : settler'[b] \in {"idle", "reading", settler[b]}
        BY <1>5 DEF Gone
    <2>7. NobodyRemoves BY <1>2, NothingRemoved
    <2>. QED BY <1>1, <1>2, <1>3, <2>1, <2>2, <2>3, <2>4, <2>5, <2>6, <2>7, LockedProcess
<1>6. CASE Conclude(h, "recovery-required") /\ UNCHANGED <<lock, appVars>>
    BY <1>1, <1>2, <1>3, <1>6, RequiresRecovery
<1>. QED BY <1>5, <1>6 DEF StopProcesses

LEMMA LaunchRestoredKeeps ==
    ASSUME TypeOK, Sound, NEW h \in Helpers, LaunchRestored(h)
    PROVE  Sound'
<1>1. pc[h] = "relaunch" /\ NoChange /\ Exit(h) /\ UNCHANGED <<shell, answering, answered>>
    BY DEF LaunchRestored, historyVars
<1>2. pc[h] \in Locked /\ shell = "gone" BY <1>1, OnTheWay DEF Locked
<1>3. pc'[h] = "idle" /\ Alone(h) /\ lock' = "none"
    BY <1>1, <1>2, ExitDoes DEF Sound, LockInv
<1>4. StepAt(h)' /\ pc'[h] \notin Onward \cup Exchange \cup Backward
    BY <1>3 DEF StepAt, Onward, Exchange, Backward
<1>5. AnswerInv'
    BY <1>1 DEF Sound, AnswerInv, NoChange, LaunchRestored, Launched
<1>6. \A b \in Build : settler'[b] \in {"idle", "reading", settler[b]}
    BY DEF LaunchRestored, Launched, TypeOK
<1>. QED BY <1>1, <1>2, <1>3, <1>4, <1>5, <1>6, LockedProcess

-----------------------------------------------------------------------------
(* A helper that has no lock yet *)

\* It goes on to claim it, or is no more; so is one that is killed.
LEMMA ComesOrGoes ==
    ASSUME TypeOK, Sound, NEW h \in Helpers, Alone(h), NoChange,
           UNCHANGED <<appVars, answered>>,
           \/ pc[h] = "start" /\ pc'[h] = "claim" /\ mode'[h] = mode[h] /\ lock' = lock
           \/ pc'[h] = "idle" /\ lock' = IF lock = h THEN "none" ELSE lock
    PROVE  Sound'
<1>1. Imaged /\ Disk(fs.install, fs.candidate, fs.backup, fs.result, fs.ack)
    BY NoChangeDoes
<1>2. \A k \in Helpers :
          /\ pc'[k] \in {pc[k], "idle"} \/ (pc[k] = "start" /\ pc'[k] = "claim")
          /\ pc'[k] # "idle" => mode'[k] = mode[k]
          /\ pc'[k] \notin {"idle", "claim"} => verdict'[k] = verdict[k]
    BY DEF Alone
<1>3. \A k \in Helpers : pc'[k] \in Locked => pc'[k] = pc[k] /\ k # h
    BY DEF Alone, Locked, Onward, Exchange, Backward
<1>4. SaneInv' BY <1>1, SaneStays, ImagesSane DEF Sound
<1>5. LockInv'
    <2>1. h # "probe" BY UpdateAssumption
    <2>. QED BY <1>3, <2>1 DEF Sound, LockInv, appVars
<1>6. ShellInv' BY <1>1, <1>2 DEF Sound, ShellInv, appVars, Disk
<1>7. ComingInv'
    <2>1. \A k \in Helpers : Coming(k)' => Coming(k) BY <1>2 DEF Coming
    <2>. QED BY <1>1, <1>2, <2>1 DEF Sound, ComingInv, Disk, appVars
<1>8. StepInv' /\ VerdictInv'
    <2>1. ASSUME NEW k \in Helpers, pc'[k] \in Locked PROVE StepAt(k)' /\ VerdictAt(k)'
        <3>1. pc'[k] = pc[k] /\ verdict'[k] = verdict[k] BY <1>3, <2>1 DEF Alone
        <3>. QED BY <1>1, <3>1, OnTheWay DEF StepAt, VerdictAt, Disk, appVars
    <2>2. ASSUME NEW k \in Helpers, pc'[k] \notin Locked PROVE StepAt(k)' /\ VerdictAt(k)'
        BY <2>2 DEF StepAt, VerdictAt, Locked, Onward, Exchange, Backward
    <2>. QED BY <2>1, <2>2 DEF StepInv, VerdictInv
<1>9. AnswerInv' BY <1>1 DEF Sound, AnswerInv, Disk, appVars
<1>10. SettleInv'
    <2>1. \A k \in Helpers : Coming(k)' => Coming(k) BY <1>2 DEF Coming
    <2>2. \A k \in Helpers : pc'[k] \in Onward \cup Exchange \cup Backward => pc'[k] = pc[k]
        BY <1>3 DEF Locked
    <2>. QED BY <1>1, <2>1, <2>2 DEF Sound, SettleInv, Disk, appVars
<1>. QED BY <1>4, <1>5, <1>6, <1>7, <1>8, <1>9, <1>10 DEF Sound

LEMMA ReadDescriptorKeeps ==
    ASSUME TypeOK, Sound, NEW h \in Helpers, ReadDescriptor(h)
    PROVE  Sound'
<1>1. pc[h] = "start" /\ NoChange /\ UNCHANGED <<appVars, answered>>
    BY DEF ReadDescriptor, historyVars
<1>2. CASE Goto(h, "claim") /\ UNCHANGED lock
    BY <1>1, <1>2, GotoDoes, ComesOrGoes DEF Step
<1>3. CASE Exit(h) BY <1>1, <1>3, ExitDoes, ComesOrGoes
<1>. QED BY <1>2, <1>3 DEF ReadDescriptor

LEMMA KillKeeps ==
    ASSUME TypeOK, Sound, NEW h \in Helpers, Kill(h)
    PROVE  Sound'
BY ExitDoes, ComesOrGoes DEF Kill

LEMMA ClaimLockKeeps ==
    ASSUME TypeOK, Sound, NEW h \in Helpers, ClaimLock(h)
    PROVE  Sound'
<1>1. pc[h] = "claim" /\ NoChange /\ UNCHANGED <<appVars, answered>>
    BY DEF ClaimLock, historyVars
<1>2. CASE Exit(h) BY <1>1, <1>2, ExitDoes, ComesOrGoes
<1>3. CASE /\ lock = "none" /\ lock' = h
           /\ Goto(h, IF mode[h] = "apply" THEN "waiting" ELSE "inspect")
    <2>1. Alone(h) /\ pc'[h] = IF mode[h] = "apply" THEN "waiting" ELSE "inspect"
        BY <1>3, GotoDoes DEF Step
    <2>2. Imaged /\ Disk(fs.install, fs.candidate, fs.backup, fs.result, fs.ack)
        BY <1>1, NoChangeDoes
    <2>3. \A k \in Helpers \ {h} : pc'[k] = pc[k] /\ pc'[k] \notin Locked
        BY <1>3, <2>1, UpdateAssumption DEF Sound, LockInv, Alone
    <2>4. \A k \in Helpers : Coming(k)' => Coming(k) /\ k # h
        BY <2>1 DEF Coming, Alone
    <2>5. SaneInv' BY <1>1, <2>2, SaneStays, ImagesSane DEF Sound
    <2>6. LockInv' BY <1>1, <1>3, <2>3 DEF Sound, LockInv, appVars
    <2>7. ShellInv'
        BY <1>1, <2>1, <2>2 DEF Sound, ShellInv, Alone, appVars, Disk
    <2>8. ComingInv' BY <1>1, <2>4 DEF Sound, ComingInv, Coming
    <2>9. mode[h] = "apply" =>
              fs.install = "old" /\ fs.result = "none" /\ ~fs.ack /\ NobodyRemoves
        BY <1>1 DEF Sound, ComingInv, Coming, NobodyRemoves
    <2>10. StepAt(h)' /\ VerdictAt(h)'
        BY <2>1, <2>2, <2>9 DEF StepAt, VerdictAt, Disk, Onward, Exchange, Backward
    <2>11. StepInv' /\ VerdictInv'
        BY <2>3, <2>10
        DEF StepInv, VerdictInv, StepAt, VerdictAt, Locked, Onward, Exchange, Backward
    <2>12. AnswerInv' BY <1>1, <2>2 DEF Sound, AnswerInv, Disk, appVars
    <2>13. SettleInv'
        <3>1. pc'[h] \in Onward \cup Exchange \cup Backward => NobodyRemoves
            BY <2>1, <2>9 DEF Onward, Exchange, Backward
        <3>. QED
            BY <1>1, <2>2, <2>3, <2>4, <3>1
            DEF Sound, SettleInv, NobodyRemoves, Disk, appVars, Locked
    <2>. QED BY <2>5, <2>6, <2>7, <2>8, <2>11, <2>12, <2>13 DEF Sound
<1>. QED BY <1>2, <1>3 DEF ClaimLock

-----------------------------------------------------------------------------
(* The application, its launches, and people *)

\* A step of the others that changes nothing of the disk the invariant is about.
LEMMA Aside ==
    ASSUME TypeOK, Sound, Imaged,
           Disk(fs.install, fs.candidate, fs.backup, fs.result, fs.ack),
           UNCHANGED <<helperVars, answered>>,
           LockInv', ShellInv', AnswerInv', SettleInv',
           answering' # "no" => answering # "no",
           (\E b \in Build : settler'[b] # "idle") => \A h \in Helpers : ~Coming(h)
    PROVE  Sound'
<1>1. SaneInv' BY SaneStays, ImagesSane DEF Sound
<1>2. ComingInv' BY DEF Sound, ComingInv, Coming, helperVars, Disk
<1>3. StepInv' /\ VerdictInv'
    BY DEF Sound, StepInv, VerdictInv, StepAt, VerdictAt, helperVars, Disk
<1>. QED BY <1>1, <1>2, <1>3 DEF Sound

\* The settlements go on, or end.
LEMMA SettlementsStay ==
    ASSUME Sound, UNCHANGED helperVars, fs'.install = fs.install, fs'.ack = fs.ack,
           \A b \in Build : settler'[b] \in {"removing", "removed"} =>
               settler[b] \in {"removing", "removed"}
    PROVE  SettleInv'
BY DEF Sound, SettleInv, Coming, helperVars

LEMMA RecordPendingKeeps ==
    ASSUME TypeOK, Sound, RecordPending \/ ForgetTransaction
    PROVE  Sound'
<1>1. /\ UNCHANGED <<lock, helperVars, running, answering, settler, answered>>
      /\ shell # "gone" /\ shell' # "probing"
      /\ shell' \in {"staged", "recorded"} => shell \in {"staged", "recorded"}
    BY DEF RecordPending, ForgetTransaction, ShellStep, historyVars
<1>2. Imaged /\ Disk(fs.install, fs.candidate, fs.backup, fs.result, fs.ack)
    <2>1. CASE NoChange BY <2>1, NoChangeDoes
    <2>2. CASE \/ Change([fs EXCEPT !.pending = TRUE])
               \/ Change([fs EXCEPT !.pending = FALSE])
               \/ Change([fs EXCEPT !.staged = FALSE, !.receipt = "old"])
        <3>1. Imaged BY <2>2, ChangeDoes
        <3>2. \/ fs' = [fs EXCEPT !.pending = TRUE] \/ fs' = [fs EXCEPT !.pending = FALSE]
              \/ fs' = [fs EXCEPT !.staged = FALSE, !.receipt = "old"]
            BY <2>2, ChangeDoes
        <3>. QED BY <3>1, <3>2 DEF TypeOK, State, Disk
    <2>. QED BY <2>1, <2>2 DEF RecordPending, ForgetTransaction
<1>3. LockInv' BY <1>1 DEF Sound, LockInv, helperVars
<1>4. ShellInv' BY <1>1, <1>2 DEF Sound, ShellInv, helperVars, Disk
<1>5. AnswerInv' BY <1>1, <1>2 DEF Sound, AnswerInv, Disk
<1>6. SettleInv' BY <1>1, <1>2, SettlementsStay DEF Disk
<1>7. \A b \in Build : settler'[b] = "idle" BY <1>1 DEF Sound, ShellInv
<1>. QED BY <1>1, <1>2, <1>3, <1>4, <1>5, <1>6, <1>7, Aside

LEMMA AwaitClaimKeeps ==
    ASSUME TypeOK, Sound, AwaitClaim
    PROVE  Sound'
<1>1. /\ UNCHANGED <<helperVars, running, answering, settler, answered>> /\ NoChange
      /\ shell \in {"waiting", "probing"}
      /\ shell' \in {"waiting", "probing", "owned", "abandoning"}
      /\ lock' = lock \/ (lock = "none" /\ lock' = "probe") \/ (shell = "probing" /\ lock' = "none")
      /\ shell' = "probing" => lock' = "probe"
    BY DEF AwaitClaim, ShellStep, historyVars
<1>2. Imaged /\ Disk(fs.install, fs.candidate, fs.backup, fs.result, fs.ack)
    BY <1>1, NoChangeDoes
<1>3. \A b \in Build : settler'[b] = "idle" BY <1>1 DEF Sound, ShellInv
<1>4. LockInv' BY <1>1, <1>3, UpdateAssumption DEF Sound, LockInv, helperVars
<1>5. ShellInv' BY <1>1, <1>2 DEF Sound, ShellInv, helperVars, Disk
<1>6. AnswerInv' BY <1>1, <1>2 DEF Sound, AnswerInv, Disk
<1>7. SettleInv' BY <1>1, <1>2, SettlementsStay DEF Disk
<1>. QED BY <1>1, <1>2, <1>3, <1>4, <1>5, <1>6, <1>7, Aside

\* A helper is started.
LEMMA Started ==
    ASSUME TypeOK, Sound, NEW h \in Helpers, NEW how \in {"apply", "recover"}, Spawn(h, how),
           NoChange, UNCHANGED <<lock, running, answering, answered>>,
           how = "apply" => /\ shell = "recorded" /\ shell' = "waiting"
                            /\ \A k \in Helpers : pc[k] = "idle"
                            /\ \A b \in Build : settler[b] = "idle"
                            /\ fs.install = "old" /\ fs.result = "none" /\ ~fs.ack,
           how = "recover" => /\ shell = "gone" /\ shell' = "gone"
                              /\ \A k \in Helpers : ~Coming(k),
           \A b \in Build : settler'[b] \in {settler[b], "idle"}
    PROVE  Sound'
<1>1. pc[h] = "idle" /\ pc'[h] = "start" /\ mode'[h] = how /\ Alone(h) BY SpawnDoes
<1>2. Imaged /\ Disk(fs.install, fs.candidate, fs.backup, fs.result, fs.ack)
    BY NoChangeDoes
<1>3. SaneInv' BY <1>2, SaneStays, ImagesSane DEF Sound
<1>4. \A k \in Helpers : pc'[k] \in Locked => k # h
    BY <1>1 DEF Locked, Onward, Exchange, Backward
<1>5. LockInv' BY <1>1, <1>4 DEF Sound, LockInv, Alone
<1>6. ShellInv' BY <1>1, <1>2 DEF Sound, ShellInv, Alone, Disk
<1>7. ComingInv' BY <1>1, <1>2 DEF ComingInv, Coming, Alone, Disk
<1>8. StepInv' /\ VerdictInv'
    <2>1. StepAt(h)' /\ VerdictAt(h)'
        BY <1>1 DEF StepAt, VerdictAt, Onward, Exchange, Backward
    <2>2. ASSUME NEW k \in Helpers \ {h} PROVE StepAt(k)' /\ VerdictAt(k)'
        BY <1>1, <1>2, OnTheWay DEF Alone, StepAt, VerdictAt, Disk
    <2>. QED BY <2>1, <2>2 DEF StepInv, VerdictInv
<1>9. AnswerInv' BY <1>2 DEF Sound, AnswerInv, Disk
<1>10. SettleInv'
    <2>1. \A k \in Helpers : pc'[k] \in Onward \cup Exchange \cup Backward => pc'[k] = pc[k]
        BY <1>1, <1>4 DEF Alone, Locked
    <2>2. \A k \in Helpers : Coming(k)' => Coming(k) \/ how = "apply"
        BY <1>1 DEF Coming, Alone
    <2>. QED BY <1>2, <2>1, <2>2 DEF Sound, SettleInv, Disk
<1>. QED BY <1>3, <1>5, <1>6, <1>7, <1>8, <1>9, <1>10 DEF Sound

LEMMA StartHelperKeeps ==
    ASSUME TypeOK, Sound, StartHelper
    PROVE  Sound'
<1>1. /\ UNCHANGED <<lock, running, answering, settler, answered>> /\ NoChange
      /\ shell = "recorded" /\ shell' \in {"waiting", "abandoning"}
    BY DEF StartHelper, ShellStep, historyVars
<1>2. /\ \A k \in Helpers : pc[k] = "idle"
      /\ \A b \in Build : settler[b] = "idle"
      /\ fs.install = "old" /\ fs.result = "none" /\ ~fs.ack
    BY <1>1 DEF Sound, ShellInv
<1>3. ASSUME NEW h \in Helpers, Spawn(h, "apply"), shell' = "waiting" PROVE Sound'
    BY <1>1, <1>2, <1>3, Started
<1>4. CASE UNCHANGED helperVars /\ shell' = "abandoning"
    <2>1. Imaged /\ Disk(fs.install, fs.candidate, fs.backup, fs.result, fs.ack)
        BY <1>1, NoChangeDoes
    <2>2. LockInv' BY <1>1, <1>4 DEF Sound, LockInv, helperVars
    <2>3. ShellInv' BY <1>1, <1>4, <2>1 DEF Sound, ShellInv, helperVars, Disk
    <2>4. AnswerInv' BY <1>1, <2>1 DEF Sound, AnswerInv, Disk
    <2>5. SettleInv' BY <1>1, <1>4, <2>1, SettlementsStay DEF Disk
    <2>. QED BY <1>1, <1>2, <1>4, <2>1, <2>2, <2>3, <2>4, <2>5, Aside
<1>. QED BY <1>3, <1>4 DEF StartHelper, ShellStep

\* Removing the transaction takes nothing that the installation needs.
LEMMA Removes ==
    ASSUME TypeOK, Sound, RemovePartly \/ RemoveRest, UNCHANGED answered,
           fs.install \in {"old", "other"} \/ (fs.install = "new" /\ fs.ack)
    PROVE  /\ Imaged /\ Sane(fs)' /\ fs'.install = fs.install /\ fs'.ack = fs.ack
           /\ fs'.result \in {fs.result, "none"}
<1>0. "none" \in Outcome /\ fs.result \in Outcome BY DEF TypeOK, State, Outcome
<1>1. ASSUME NEW result \in {fs.result, "none"}, Change(PartlyRemoved(result))
      PROVE  Imaged /\ Disk(fs.install, Torn(fs.candidate), Torn(fs.backup), result, fs.ack)
    BY <1>0, <1>1, ChangeDoes, PartlyGone
<1>2. ASSUME Change(Removed) PROVE Imaged /\ Disk(fs.install, "none", "none", "none", fs.ack)
    BY <1>2, ChangeDoes, AllGone
<1>3. Imaged /\ \E candidate \in {"none", Torn(fs.candidate), fs.candidate},
                   backup \in {"none", Torn(fs.backup), fs.backup},
                   result \in {fs.result, "none"} :
          Disk(fs.install, candidate, backup, result, fs.ack)
    BY <1>1, <1>2, NoChangeDoes DEF RemovePartly, RemoveRest
<1>4. Torn("none") = "none" /\ Torn("new") = "new_torn" /\ Torn("new_torn") = "new_torn"
    BY DEF Torn
<1>5. Sane(fs) BY DEF TypeOK, Sound, SaneInv
<1>6. PICK candidate \in {"none", Torn(fs.candidate), fs.candidate},
           backup \in {"none", Torn(fs.backup), fs.backup}, result \in {fs.result, "none"} :
          Disk(fs.install, candidate, backup, result, fs.ack)
    BY <1>3
<1>7. candidate \in {"none", "new", "new_torn"} BY <1>4, <1>5, <1>6 DEF Sane
<1>8. fs.install = "old" => backup = "none" BY <1>4, <1>5, <1>6 DEF Sane
<1>9. Sane(fs)' BY <1>5, <1>6, <1>7, <1>8 DEF Disk, Sane, Final
<1>. QED BY <1>3, <1>6, <1>9 DEF Disk

LEMMA DropTransactionKeeps ==
    ASSUME TypeOK, Sound, DropTransaction
    PROVE  Sound'
<1>1. /\ UNCHANGED <<lock, helperVars, running, answering, settler, answered>>
      /\ shell # "gone" /\ shell' \in {"dropping", "forgetting"}
      /\ RemovePartly \/ RemoveRest
    BY DEF DropTransaction, ShellStep, historyVars
<1>2. fs.install = "old" /\ ~fs.ack BY <1>1 DEF Sound, ShellInv
<1>3. Imaged /\ Sane(fs)' /\ fs'.install = fs.install /\ fs'.ack = fs.ack
      /\ fs'.result \in {fs.result, "none"}
    BY <1>1, <1>2, Removes
<1>4. SaneInv' BY <1>1, <1>3, ImagesSane DEF Sound
<1>5. LockInv' BY <1>1 DEF Sound, LockInv, helperVars
<1>6. ShellInv' BY <1>1, <1>3 DEF Sound, ShellInv, helperVars
<1>7. ComingInv' BY <1>1, <1>3 DEF Sound, ComingInv, Coming, helperVars
<1>8. \A h \in Helpers : pc[h] \in {"idle", "start", "claim", "waiting", "writing"}
    BY <1>1 DEF Sound, ShellInv
<1>9. StepInv' /\ VerdictInv'
    BY <1>1, <1>3, <1>8
    DEF Sound, StepInv, VerdictInv, StepAt, VerdictAt, helperVars, Onward, Exchange,
        Backward
<1>10. AnswerInv' BY <1>1, <1>3 DEF Sound, AnswerInv
<1>11. SettleInv' BY <1>1, <1>3, SettlementsStay
<1>. QED BY <1>4, <1>5, <1>6, <1>7, <1>9, <1>10, <1>11 DEF Sound

\* The new build adopts its receipt, then answers.
LEMMA PromoteReceiptKeeps ==
    ASSUME TypeOK, Sound, PromoteReceipt
    PROVE  Sound'
<1>1. UNCHANGED <<lock, helperVars, running, shell, settler, answered>> /\ answering = "asked"
    BY DEF PromoteReceipt, historyVars
<1>2. Imaged /\ Disk(fs.install, fs.candidate, fs.backup, fs.result, fs.ack)
    <2>1. CASE NoChange BY <2>1, NoChangeDoes
    <2>2. CASE Change([fs EXCEPT !.receipt = "new", !.staged = FALSE])
        <3>1. Imaged /\ fs' = [fs EXCEPT !.receipt = "new", !.staged = FALSE]
            BY <2>2, ChangeDoes
        <3>. QED BY <3>1 DEF TypeOK, State, Disk
    <2>. QED BY <2>1, <2>2 DEF PromoteReceipt
<1>3. LockInv' BY <1>1 DEF Sound, LockInv, helperVars
<1>4. ShellInv' BY <1>1, <1>2 DEF Sound, ShellInv, helperVars, Disk
<1>5. AnswerInv' BY <1>1, <1>2 DEF Sound, AnswerInv, Disk
<1>6. SettleInv' BY <1>1, <1>2, SettlementsStay DEF Disk
<1>7. (\E b \in Build : settler'[b] # "idle") => \A h \in Helpers : ~Coming(h)
    BY <1>1 DEF Sound, ComingInv
<1>. QED BY <1>1, <1>2, <1>3, <1>4, <1>5, <1>6, <1>7, Aside

LEMMA AcknowledgeKeeps ==
    ASSUME TypeOK, Sound, Acknowledge
    PROVE  Sound'
<1>1. /\ UNCHANGED <<lock, helperVars, running, shell, settler>>
      /\ answering = "promoted" /\ answering' = "no" /\ answered'
    BY DEF Acknowledge
<1>2. Imaged /\ Disk(fs.install, fs.candidate, fs.backup, fs.result, TRUE)
    BY ChangeDoes, Recorded DEF Acknowledge
<1>3. fs.install = "new" /\ Sane(fs) BY <1>1 DEF TypeOK, Sound, SaneInv, AnswerInv
<1>4. SaneInv'
    <2>1. Sane(fs)' BY <1>1, <1>2, <1>3 DEF Disk, Sane
    <2>. QED BY <1>1, <1>2, <2>1, ImagesSane DEF Sound
<1>5. LockInv' BY <1>1 DEF Sound, LockInv, helperVars
<1>6. ShellInv' BY <1>1, <1>3 DEF Sound, ShellInv
<1>7. ComingInv' BY <1>1, <1>3 DEF Sound, ComingInv, Coming, helperVars
<1>8. StepInv' /\ VerdictInv'
    BY <1>1, <1>2, <1>3
    DEF Sound, StepInv, VerdictInv, StepAt, VerdictAt, helperVars, Disk
<1>9. AnswerInv' BY <1>1 DEF AnswerInv
<1>10. SettleInv' BY <1>1, <1>2, <1>3 DEF Sound, SettleInv, Coming, helperVars, Disk
<1>. QED BY <1>4, <1>5, <1>6, <1>7, <1>8, <1>9, <1>10 DEF Sound

-----------------------------------------------------------------------------
(* Settlements *)

\* A settlement runs only once the application and its helper are out of the way.
LEMMA SettlingIsLate ==
    ASSUME Sound, NEW b \in Build, settler[b] # "idle"
    PROVE  shell = "gone" /\ \A h \in Helpers : ~Coming(h)
BY DEF Sound, ShellInv, ComingInv

LEMMA SettleReadKeeps ==
    ASSUME TypeOK, Sound, NEW b \in Build, SettleRead(b)
    PROVE  Sound'
<1>1. /\ UNCHANGED <<helperVars, running, shell, answering, answered>> /\ NoChange
      /\ settler[b] = "reading"
      /\ settler'[b] \in {"idle", "clearing", "removing", "discarding", "probing"}
      /\ \A c \in Build \ {b} : settler'[c] = settler[c]
      /\ lock' = lock \/ (lock = "none" /\ lock' = "probe")
      /\ settler'[b] = "probing" => lock = "none" /\ lock' = "probe"
      /\ settler'[b] = "removing" => fs.result \notin {"none", "recovery-required"}
    BY DEF SettleRead, SettleStep, historyVars, TypeOK
<1>2. Imaged /\ Disk(fs.install, fs.candidate, fs.backup, fs.result, fs.ack)
    BY <1>1, NoChangeDoes
<1>3. shell = "gone" /\ \A h \in Helpers : ~Coming(h) BY <1>1, SettlingIsLate
<1>4. LockInv'
    <2>1. lock' = "probe" => lock \notin Helpers \/ lock' = lock BY <1>1, UpdateAssumption
    <2>. QED BY <1>1, <1>3, <2>1 DEF Sound, LockInv, helperVars
<1>5. ShellInv' BY <1>1, <1>3 DEF ShellInv
<1>6. AnswerInv' BY <1>1, <1>2 DEF Sound, AnswerInv, Disk
<1>7. SettleInv'
    <2>1. ASSUME settler'[b] = "removing"
          PROVE  /\ fs.install \in {"old", "other"} \/ (fs.install = "new" /\ fs.ack)
                 /\ \A h \in Helpers : pc[h] \notin Onward \cup Exchange \cup Backward
        <3>1. fs.result \in Final BY <1>1, <2>1 DEF TypeOK, State, Outcome, Final
        <3>. QED BY <3>1, OnTheWay DEF Sane, StepAt, Final, Sound, SaneInv, TypeOK
    <2>. QED
        BY <1>1, <1>2, <1>3, <2>1 DEF Sound, SettleInv, Coming, helperVars, Disk
<1>. QED BY <1>1, <1>2, <1>3, <1>4, <1>5, <1>6, <1>7, Aside

LEMMA SettleRecoverKeeps ==
    ASSUME TypeOK, Sound, NEW b \in Build, SettleRecover(b)
    PROVE  Sound'
<1>1. /\ UNCHANGED <<running, shell, answering, answered>> /\ NoChange
      /\ settler[b] \in {"probing", "recovering"} /\ settler'[b] \in {"recovering", "idle"}
      /\ \A c \in Build \ {b} : settler'[c] = settler[c]
    BY DEF SettleRecover, SettleStep, historyVars, TypeOK
<1>2. Imaged /\ Disk(fs.install, fs.candidate, fs.backup, fs.result, fs.ack)
    BY <1>1, NoChangeDoes
<1>3. shell = "gone" /\ \A h \in Helpers : ~Coming(h) BY <1>1, SettlingIsLate
<1>4. ASSUME NEW h \in Helpers, settler'[b] = "idle", UNCHANGED lock, Spawn(h, "recover")
      PROVE  Sound'
    BY <1>1, <1>3, <1>4, Started
<1>5. ASSUME UNCHANGED helperVars,
             lock' = lock \/ (settler[b] = "probing" /\ lock' = "none")
      PROVE  Sound'
    <2>1. LockInv' BY <1>1, <1>3, <1>5, UpdateAssumption DEF Sound, LockInv, helperVars
    <2>2. ShellInv' BY <1>1, <1>3 DEF ShellInv
    <2>3. AnswerInv' BY <1>1, <1>2 DEF Sound, AnswerInv, Disk
    <2>4. SettleInv' BY <1>1, <1>2, <1>5, SettlementsStay DEF Disk
    <2>. QED BY <1>1, <1>2, <1>3, <1>5, <2>1, <2>2, <2>3, <2>4, Aside
<1>. QED BY <1>4, <1>5 DEF SettleRecover, SettleStep, TypeOK

LEMMA SettleRemoveKeeps ==
    ASSUME TypeOK, Sound, NEW b \in Build, SettleRemove(b), ~discarded'
    PROVE  Sound'
<1>1. /\ UNCHANGED <<lock, helperVars, running, shell, answering, answered>>
      /\ settler[b] # "idle"
      /\ settler'[b] # "probing"
      /\ settler'[b] \in {"removing", "removed"} => settler[b] \in {"removing", "removed"}
      /\ \A c \in Build \ {b} : settler'[c] = settler[c]
    BY DEF SettleRemove, SettleStep, TypeOK
<1>2. shell = "gone" /\ \A h \in Helpers : ~Coming(h) BY <1>1, SettlingIsLate
<1>3. LockInv' BY <1>1, <1>2 DEF Sound, LockInv, helperVars
<1>4. ShellInv' BY <1>1, <1>2 DEF ShellInv
<1>5. CASE Change([fs EXCEPT !.pending = FALSE])
    <2>1. Imaged /\ Disk(fs.install, fs.candidate, fs.backup, fs.result, fs.ack)
        <3>1. Imaged /\ fs' = [fs EXCEPT !.pending = FALSE] BY <1>5, ChangeDoes
        <3>. QED BY <3>1 DEF TypeOK, State, Disk
    <2>2. AnswerInv' BY <1>1, <2>1 DEF Sound, AnswerInv, Disk
    <2>3. SettleInv' BY <1>1, <2>1, SettlementsStay DEF Disk
    <2>. QED BY <1>1, <1>2, <1>3, <1>4, <2>1, <2>2, <2>3, Aside
<1>6. CASE settler[b] \in {"removing", "removed"} /\ (RemovePartly \/ RemoveRest)
    <2>1. /\ fs.install \in {"old", "other"} \/ (fs.install = "new" /\ fs.ack)
          /\ \A h \in Helpers : pc[h] \notin Onward \cup Exchange \cup Backward
        BY <1>6 DEF Sound, SettleInv
    <2>2. Imaged /\ Sane(fs)' /\ fs'.install = fs.install /\ fs'.ack = fs.ack
        BY <1>1, <1>6, <2>1, Removes
    <2>3. SaneInv' BY <1>1, <2>2, ImagesSane DEF Sound
    <2>4. ComingInv' BY <1>1, <1>2 DEF ComingInv, Coming, helperVars
    <2>5. StepInv'
        BY <1>1, <2>1
        DEF Sound, StepInv, StepAt, helperVars, Onward, Exchange, Backward
    <2>6. VerdictInv' BY <1>1, <2>2 DEF Sound, VerdictInv, VerdictAt, helperVars
    <2>7. AnswerInv' BY <1>1, <2>2 DEF Sound, AnswerInv
    <2>8. SettleInv' BY <1>1, <2>2, SettlementsStay
    <2>. QED BY <1>3, <1>4, <2>3, <2>4, <2>5, <2>6, <2>7, <2>8 DEF Sound
<1>. QED BY <1>5, <1>6 DEF SettleRemove, SettleStep

-----------------------------------------------------------------------------
(* The person, and the machine *)

LEMMA QuitKeeps ==
    ASSUME TypeOK, Sound, NEW b \in Build, Quit(b)
    PROVE  Sound'
<1>1. Gone({b}) /\ NoChange /\ UNCHANGED <<helperVars, answered>>
    BY DEF Quit, historyVars
<1>2. Imaged /\ Disk(fs.install, fs.candidate, fs.backup, fs.result, fs.ack)
    BY <1>1, NoChangeDoes
<1>3. /\ \A c \in Build : settler'[c] \in {"idle", settler[c]}
      /\ shell' = shell \/ shell' = "gone"
      /\ answering' # "no" => b # "new" /\ answering' = answering
      /\ running' = running \ {b} /\ (b = "old" => shell' = "gone")
      /\ lock' = lock \/ (lock = "probe" /\ lock' = "none" /\ shell' # "probing"
                           /\ \A c \in Build : settler'[c] # "probing")
    BY <1>1 DEF Gone
<1>4. LockInv'
    <2>1. lock = "probe" => \A h \in Helpers : pc[h] \notin Locked
        BY UpdateAssumption DEF Sound, LockInv
    <2>2. CASE lock' = lock BY <1>1, <1>3, <2>2 DEF Sound, LockInv, helperVars
    <2>3. CASE lock = "probe" /\ shell' # "probing" /\ \A c \in Build : settler'[c] # "probing"
        BY <1>1, <2>1, <2>3 DEF LockInv, helperVars
    <2>. QED BY <1>3, <2>2, <2>3
<1>5. ShellInv' BY <1>1, <1>2, <1>3 DEF Sound, ShellInv, helperVars, Disk
<1>6. AnswerInv' BY <1>2, <1>3 DEF Sound, AnswerInv, Disk
<1>7. SettleInv' BY <1>1, <1>2, <1>3, SettlementsStay DEF Disk
<1>8. (\E c \in Build : settler'[c] # "idle") => \A h \in Helpers : ~Coming(h)
    BY <1>3 DEF Sound, ComingInv
<1>. QED BY <1>1, <1>2, <1>3, <1>4, <1>5, <1>6, <1>7, <1>8, Aside

LEMMA LaunchKeeps ==
    ASSUME TypeOK, Sound, Launch
    PROVE  Sound'
<1>1. /\ NoChange /\ UNCHANGED <<lock, helperVars, shell, answering, answered>>
      /\ running = {} /\ fs.install \in Build
      /\ \A h \in Helpers : ~Coming(h)
      /\ \A b \in Build : settler'[b] \in {"reading", settler[b]}
    BY DEF Launch, Launched, historyVars, Coming, TypeOK
<1>2. Imaged /\ Disk(fs.install, fs.candidate, fs.backup, fs.result, fs.ack)
    BY <1>1, NoChangeDoes
<1>3. shell = "gone" /\ answering = "no" BY <1>1 DEF Sound, ShellInv, AnswerInv
<1>4. LockInv' BY <1>1 DEF Sound, LockInv, helperVars
<1>5. ShellInv' BY <1>1, <1>3 DEF ShellInv
<1>6. AnswerInv' BY <1>1, <1>3 DEF AnswerInv
<1>7. SettleInv' BY <1>1, <1>2, SettlementsStay DEF Disk
<1>. QED BY <1>1, <1>2, <1>4, <1>5, <1>6, <1>7, Aside

LEMMA RecoverByHandKeeps ==
    ASSUME TypeOK, Sound, RecoverByHand
    PROVE  Sound'
<1>1. PICK h \in Helpers : Spawn(h, "recover") BY DEF RecoverByHand
<1>2. NoChange /\ UNCHANGED <<lock, appVars, answered>> /\ fs.install \notin Build
      /\ \A k \in Helpers : pc[k] = "idle"
    BY DEF RecoverByHand, historyVars
<1>3. shell = "gone" /\ \A k \in Helpers : ~Coming(k)
    BY <1>2 DEF Sound, ShellInv, Coming, Build
<1>. QED BY <1>1, <1>2, <1>3, Started DEF appVars

LEMMA ReinstallByHandKeeps ==
    ASSUME TypeOK, Sound, ReinstallByHand
    PROVE  Sound'
<1>1. UNCHANGED <<lock, helperVars, appVars, answered>> /\ fs.install \notin Build
    BY DEF ReinstallByHand, historyVars
<1>2. Imaged /\ Disk("other", fs.candidate, fs.backup, fs.result, fs.ack)
    <2>1. Imaged /\ fs' = [fs EXCEPT !.install = "other"] BY ChangeDoes DEF ReinstallByHand
    <2>. QED BY <2>1 DEF TypeOK, State, Tree, Build, Disk
<1>3. fs.install \notin {"old", "new", "other"} /\ Sane(fs)
    BY <1>1 DEF Build, TypeOK, Sound, SaneInv
<1>4. fs.install \in {"none", "new_torn"}
    BY <1>3 DEF TypeOK, State, Tree, Build, Sane
<1>5. shell = "gone" /\ answering = "no" BY <1>3 DEF Sound, ShellInv, AnswerInv
<1>6. SaneInv'
    <2>1. Sane(fs)' BY <1>1, <1>2, <1>3, <1>4 DEF Disk, Sane, Final
    <2>. QED BY <1>1, <1>2, <2>1, ImagesSane DEF Sound
<1>7. LockInv' BY <1>1 DEF Sound, LockInv, helperVars, appVars
<1>8. ShellInv' BY <1>1, <1>5 DEF ShellInv, appVars
<1>9. ComingInv' BY <1>1, <1>3 DEF Sound, ComingInv, Coming, helperVars
<1>10. StepInv' /\ VerdictInv'
    BY <1>1, <1>2, <1>3
    DEF Sound, StepInv, VerdictInv, StepAt, VerdictAt, helperVars, appVars, Disk
<1>11. AnswerInv' BY <1>1, <1>5 DEF AnswerInv, appVars
<1>12. SettleInv' BY <1>1, <1>3 DEF Sound, SettleInv, appVars
<1>. QED BY <1>6, <1>7, <1>8, <1>9, <1>10, <1>11, <1>12 DEF Sound

LEMMA PowerLossKeeps ==
    ASSUME TypeOK, Sound, PowerLoss
    PROVE  Sound'
<1>1. /\ fs' \in images /\ images' = {fs'} /\ answered' = answered
      /\ \A h \in Helpers : pc'[h] = "idle"
      /\ shell' = "gone" /\ answering' = "no" /\ \A b \in Build : settler'[b] = "idle"
    BY DEF PowerLoss
<1>2. SaneInv' BY <1>1 DEF Sound, SaneInv, Sane
<1>3. LockInv' BY <1>1 DEF LockInv, Locked, Onward, Exchange, Backward
<1>4. ShellInv' /\ ComingInv' /\ AnswerInv' /\ SettleInv'
    BY <1>1 DEF ShellInv, ComingInv, Coming, AnswerInv, SettleInv
<1>5. StepInv' /\ VerdictInv'
    BY <1>1 DEF StepInv, StepAt, VerdictInv, VerdictAt, Onward, Exchange, Backward
<1>. QED BY <1>2, <1>3, <1>4, <1>5 DEF Sound

-----------------------------------------------------------------------------
(* The types *)

DiskTypes == fs' \in State /\ Imaged
AppTypes ==
    /\ running' \subseteq Build
    /\ shell' \in {"staged", "recorded", "waiting", "probing", "owned", "abandoning",
                   "dropping", "forgetting", "restoring", "over", "gone"}
    /\ answering' \in {"no", "asked", "promoted"}
    /\ settler' \in [Build -> {"idle", "reading", "probing", "recovering", "removing",
                              "discarding", "removed", "clearing"}]
FaultTypes == faults' \in 0..MaxFaults
HistoryTypes == crashes' \in 0..MaxCrashes /\ answered' \in BOOLEAN /\ discarded' \in BOOLEAN
LockTypes == lock' \in Helpers \cup {"none", "probe"}

LEMMA TypesTogether ==
    ASSUME TypeOK, DiskTypes, HelperTypes, AppTypes, FaultTypes, HistoryTypes, LockTypes
    PROVE  TypeOK'
BY DEF TypeOK, DiskTypes, Imaged, HelperTypes, AppTypes, FaultTypes, HistoryTypes, LockTypes

LEMMA Counted == ASSUME TypeOK, Fault \/ NoFault PROVE FaultTypes
BY UpdateAssumption DEF TypeOK, Fault, NoFault, FaultTypes

LEMMA NothingTyped ==
    ASSUME TypeOK
    PROVE  /\ NoChange => DiskTypes
           /\ UNCHANGED helperVars => HelperTypes
           /\ UNCHANGED appVars => AppTypes
           /\ UNCHANGED historyVars => HistoryTypes
           /\ UNCHANGED lock => LockTypes
<1>1. NoChange => DiskTypes BY DEF TypeOK, NoChange, DiskTypes, Imaged
<1>2. UNCHANGED helperVars => HelperTypes BY DEF TypeOK, helperVars, HelperTypes
<1>3. UNCHANGED appVars => AppTypes BY DEF TypeOK, appVars, AppTypes
<1>4. UNCHANGED historyVars => HistoryTypes BY DEF TypeOK, historyVars, HistoryTypes
<1>5. UNCHANGED lock => LockTypes BY DEF TypeOK, LockTypes
<1>. QED BY <1>1, <1>2, <1>3, <1>4, <1>5

LEMMA ChangeTyped ==
    ASSUME NEW STATE new, new \in State, Change(new) \/ Durable(new)
    PROVE  DiskTypes
BY ChangeDoes DEF DiskTypes

LEMMA RemovalTyped ==
    ASSUME TypeOK, RemovePartly \/ RemoveRest
    PROVE  DiskTypes /\ FaultTypes
<1>1. fs.result \in Outcome /\ "none" \in Outcome BY DEF TypeOK, State, Outcome
<1>2. ASSUME NEW result \in {fs.result, "none"}, Change(PartlyRemoved(result)) PROVE DiskTypes
    BY <1>1, <1>2, ChangeDoes, PartlyGone DEF Disk, DiskTypes
<1>3. ASSUME Change(Removed) PROVE DiskTypes
    BY <1>3, ChangeDoes, AllGone DEF Disk, DiskTypes
<1>. QED BY <1>2, <1>3, NothingTyped, Counted DEF RemovePartly, RemoveRest

LEMMA MoveTyped ==
    ASSUME TypeOK, NEW ACTION durable, NEW ACTION uncertain, NEW ACTION failed,
           \/ Move("install", "backup", durable, uncertain, failed)
           \/ Move("candidate", "install", durable, uncertain, failed)
           \/ Move("install", "rejected", durable, uncertain, failed)
           \/ Move("backup", "install", durable, uncertain, failed)
    PROVE  DiskTypes /\ FaultTypes /\ (durable \/ uncertain \/ failed)
<1>1. fs.install \in Tree BY DEF TypeOK, State
<1>2. \A new \in {Moved("install", "backup"), Moved("candidate", "install"),
                  Moved("install", "rejected"), Moved("backup", "install")} : new \in State
    BY DEF TypeOK, Moved, State, Tree
<1>3. FaultTypes /\ (durable \/ uncertain \/ failed) BY Counted DEF Move
<1>4. DiskTypes BY <1>2, ChangeDoes, NothingTyped DEF Move, DiskTypes
<1>. QED BY <1>3, <1>4

LEMMA MovesOn ==
    ASSUME TypeOK, NEW h \in Helpers,
           (\E step \in Step : Goto(h, step)) \/ (\E outcome \in Outcome : Conclude(h, outcome))
    PROVE  HelperTypes
BY GotoDoes, ConcludeDoes

\* Every step and every outcome a helper goes to.
LEMMA Names ==
    /\ {"idle", "claim", "waiting", "checking", "backing_up", "installing", "clearing", "launching",
        "watching", "rb_check", "rb_stop", "rb_recheck", "rb_reject", "rb_restore", "inspect",
        "writing", "relaunch"} \subseteq Step
    /\ {"none", "committed", "restored", "recovery-required", "abandoned"} \subseteq Outcome
BY DEF Step, Outcome

LEMMA LaunchTyped ==
    ASSUME TypeOK, NEW build \in Build, Launched(build)
    PROVE  /\ running' \subseteq Build
           /\ settler' \in [Build -> {"idle", "reading", "probing", "recovering", "removing",
                                     "discarding", "removed", "clearing"}]
BY DEF TypeOK, Launched

LEMMA GoneTyped ==
    ASSUME TypeOK, NEW builds, Gone(builds)
    PROVE  AppTypes /\ LockTypes
<1>1. settler' \in [Build -> {"idle", "reading", "probing", "recovering", "removing",
                             "discarding", "removed", "clearing"}]
    BY DEF TypeOK, Gone
<1>2. LockTypes BY DEF TypeOK, Gone, LockTypes
<1>. QED BY <1>1, <1>2 DEF TypeOK, Gone, AppTypes

LEMMA ExitTyped == ASSUME TypeOK, NEW h \in Helpers, Exit(h) PROVE HelperTypes /\ LockTypes
BY ExitDoes DEF TypeOK, LockTypes

LEMMA HelperTyped ==
    ASSUME TypeOK, NEW h \in Helpers, HelperStep(h)
    PROVE  TypeOK'
<1>1. CASE ReadDescriptor(h)
    BY <1>1, MovesOn, Names, ExitTyped, NothingTyped, Counted, TypesTogether
        DEF ReadDescriptor
<1>2. CASE ClaimLock(h)
    <2>1. HelperTypes /\ LockTypes
        BY <1>2, MovesOn, Names, ExitTyped DEF ClaimLock, LockTypes
    <2>. QED BY <1>2, <2>1, NothingTyped, Counted, TypesTogether DEF ClaimLock
<1>3. CASE WaitForExit(h)
    BY <1>3, MovesOn, Names, NothingTyped, Counted, TypesTogether DEF WaitForExit
<1>4. CASE CheckIdentities(h)
    BY <1>4, MovesOn, Names, NothingTyped, Counted, TypesTogether DEF CheckIdentities
<1>5. CASE BackUp(h)
    BY <1>5, MoveTyped, MovesOn, Names, NothingTyped, TypesTogether DEF BackUp
<1>6. CASE Install(h)
    BY <1>6, MoveTyped, MovesOn, Names, NothingTyped, TypesTogether DEF Install
<1>7. CASE ClearAcknowledgement(h)
    <2>1. [fs EXCEPT !.ack = FALSE] \in State BY DEF TypeOK, State
    <2>2. DiskTypes /\ HelperTypes /\ FaultTypes
        BY <1>7, <2>1, ChangeTyped, MovesOn, Names, NothingTyped, Counted
            DEF ClearAcknowledgement
    <2>. QED BY <1>7, <2>2, NothingTyped, TypesTogether DEF ClearAcknowledgement
<1>8. CASE LaunchCandidate(h)
    <2>1. AppTypes
        <3>1. CASE UNCHANGED <<running, settler, answering>>
            BY <1>8, <3>1 DEF TypeOK, AppTypes, LaunchCandidate
        <3>2. CASE /\ fs.install \in Build /\ Launched(fs.install)
                   /\ answering' = IF fs.install = "new" THEN "asked" ELSE answering
            BY <1>8, <3>2, LaunchTyped DEF TypeOK, AppTypes, LaunchCandidate
        <3>. QED BY <1>8, <3>1, <3>2 DEF LaunchCandidate
    <2>2. HelperTypes /\ FaultTypes BY <1>8, MovesOn, Names, Counted DEF LaunchCandidate
    <2>. QED BY <1>8, <2>1, <2>2, NothingTyped, TypesTogether DEF LaunchCandidate
<1>9. CASE WaitForStartup(h)
    BY <1>9, MovesOn, Names, NothingTyped, Counted, TypesTogether DEF WaitForStartup
<1>10. CASE CheckRollback(h)
    BY <1>10, MovesOn, Names, NothingTyped, Counted, TypesTogether DEF CheckRollback
<1>11. CASE StopProcesses(h)
    <2>1. AppTypes /\ LockTypes /\ FaultTypes /\ HelperTypes
        BY <1>11, GoneTyped, MovesOn, Names, NothingTyped, Counted DEF StopProcesses
    <2>. QED BY <1>11, <2>1, NothingTyped, TypesTogether DEF StopProcesses
<1>12. CASE RecheckRollback(h)
    BY <1>12, MovesOn, Names, NothingTyped, Counted, TypesTogether DEF RecheckRollback
<1>13. CASE Reject(h)
    BY <1>13, MoveTyped, MovesOn, Names, NothingTyped, Counted, TypesTogether DEF Reject
<1>14. CASE Restore(h)
    BY <1>14, MoveTyped, MovesOn, Names, NothingTyped, Counted, TypesTogether
        DEF Restore, PutBack
<1>15. CASE Inspect(h)
    <2>1. DiskTypes /\ FaultTypes /\ HelperTypes
        <3>1. CASE InspectInstalled(h)
            BY <3>1, ChangeTyped, MovesOn, Names, NothingTyped, Counted
                DEF InspectInstalled, TypeOK
        <3>2. CASE InspectBackedUp(h)
            BY <3>2, MoveTyped, MovesOn, Names, NothingTyped, Counted
                DEF InspectBackedUp, PutBack
        <3>3. CASE InspectBoth(h)
            BY <3>3, MovesOn, Names, NothingTyped, Counted DEF InspectBoth
        <3>4. CASE NoChange /\ NoFault /\ Conclude(h, "recovery-required")
            BY <3>4, MovesOn, Names, NothingTyped, Counted
        <3>. QED BY <1>15, <3>1, <3>2, <3>3, <3>4 DEF Inspect
    <2>. QED BY <1>15, <2>1, NothingTyped, TypesTogether DEF Inspect
<1>16. CASE WriteResult(h)
    <2>1. [fs EXCEPT !.result = verdict[h]] \in State BY DEF TypeOK, State
    <2>2. DiskTypes /\ FaultTypes
        BY <1>16, <2>1, ChangeTyped, NothingTyped, Counted DEF WriteResult
    <2>3. HelperTypes /\ LockTypes
        BY <1>16, MovesOn, Names, ExitTyped, NothingTyped DEF WriteResult
    <2>. QED BY <1>16, <2>2, <2>3, NothingTyped, TypesTogether DEF WriteResult
<1>17. CASE LaunchRestored(h)
    <2>1. AppTypes
        <3>1. CASE UNCHANGED <<running, settler>>
            BY <1>17, <3>1 DEF TypeOK, AppTypes, LaunchRestored
        <3>2. CASE fs.install \in Build /\ Launched(fs.install)
            BY <1>17, <3>2, LaunchTyped DEF TypeOK, AppTypes, LaunchRestored
        <3>. QED BY <1>17, <3>1, <3>2 DEF LaunchRestored
    <2>2. HelperTypes /\ LockTypes /\ FaultTypes
        BY <1>17, ExitTyped, Counted DEF LaunchRestored
    <2>. QED BY <1>17, <2>1, <2>2, NothingTyped, TypesTogether DEF LaunchRestored
<1>. QED BY <1>1, <1>2, <1>3, <1>4, <1>5, <1>6, <1>7, <1>8, <1>9, <1>10, <1>11, <1>12,
            <1>13,
            <1>14, <1>15, <1>16, <1>17 DEF HelperStep

LEMMA ShellTyped ==
    ASSUME TypeOK, Shell
    PROVE  TypeOK'
<1>1. AppTypes /\ HistoryTypes
    BY NothingTyped DEF Shell, RecordPending, StartHelper, AwaitClaim, DropTransaction,
       ForgetTransaction, ShellStep, TypeOK, AppTypes
<1>2. DiskTypes /\ FaultTypes
    <2>1. CASE NoChange
        BY <2>1, NothingTyped, Counted DEF Shell, RecordPending, StartHelper,
                            AwaitClaim, DropTransaction, ForgetTransaction, RemovePartly, RemoveRest
    <2>2. CASE RemovePartly \/ RemoveRest BY <2>2, RemovalTyped
    <2>3. ASSUME NEW new \in {[fs EXCEPT !.pending = TRUE], [fs EXCEPT !.pending = FALSE],
                              [fs EXCEPT !.staged = FALSE, !.receipt = "old"]},
                 Change(new)
          PROVE  DiskTypes
        <3>1. new \in State BY DEF TypeOK, State
        <3>. QED BY <2>3, <3>1, ChangeTyped
    <2>. QED BY <2>1, <2>2, <2>3, Counted DEF Shell, RecordPending, StartHelper, AwaitClaim,
                DropTransaction, ForgetTransaction
<1>3. HelperTypes
    <2>1. UNCHANGED helperVars \/ \E h \in Helpers : Spawn(h, "apply")
        BY DEF Shell, RecordPending, StartHelper, AwaitClaim, DropTransaction,
                ForgetTransaction
    <2>. QED BY <2>1, NothingTyped, SpawnDoes
<1>4. LockTypes
    BY DEF Shell, RecordPending, StartHelper, AwaitClaim, DropTransaction,
            ForgetTransaction,
       TypeOK, LockTypes
<1>. QED BY <1>1, <1>2, <1>3, <1>4, TypesTogether

LEMMA AnswerTyped ==
    ASSUME TypeOK, PromoteReceipt \/ Acknowledge
    PROVE  TypeOK'
<1>1. [fs EXCEPT !.receipt = "new", !.staged = FALSE] \in State /\ [fs EXCEPT !.ack = TRUE] \in State
    BY DEF TypeOK, State
<1>2. DiskTypes BY <1>1, ChangeTyped, NothingTyped DEF PromoteReceipt, Acknowledge
<1>3. AppTypes BY DEF PromoteReceipt, Acknowledge, TypeOK, AppTypes
<1>4. HelperTypes /\ LockTypes /\ FaultTypes
    BY NothingTyped, Counted DEF PromoteReceipt, Acknowledge
<1>5. HistoryTypes BY DEF PromoteReceipt, Acknowledge, TypeOK, HistoryTypes, historyVars
<1>. QED BY <1>2, <1>3, <1>4, <1>5, TypesTogether

LEMMA SettleTyped ==
    ASSUME TypeOK, NEW b \in Build, Settle(b)
    PROVE  TypeOK'
<1>1. AppTypes
    <2>1. settler' \in [Build -> {"idle", "reading", "probing", "recovering", "removing",
                                 "discarding", "removed", "clearing"}]
        BY DEF TypeOK, Settle, SettleRead, SettleRecover, SettleRemove, SettleStep
    <2>. QED BY <2>1
        DEF TypeOK, AppTypes, Settle, SettleRead, SettleRecover, SettleRemove, SettleStep
<1>2. DiskTypes /\ FaultTypes
    <2>1. CASE NoChange
        BY <2>1, NothingTyped, Counted DEF Settle, SettleRead, SettleRecover,
                            SettleRemove, RemovePartly, RemoveRest
    <2>2. CASE RemovePartly \/ RemoveRest BY <2>2, RemovalTyped
    <2>3. CASE Change([fs EXCEPT !.pending = FALSE]) /\ NoFault
        <3>1. [fs EXCEPT !.pending = FALSE] \in State BY DEF TypeOK, State
        <3>. QED BY <2>3, <3>1, ChangeTyped, Counted
    <2>. QED BY <2>1, <2>2, <2>3 DEF Settle, SettleRead, SettleRecover, SettleRemove
<1>3. HelperTypes
    <2>1. UNCHANGED helperVars \/ \E h \in Helpers : Spawn(h, "recover")
        BY DEF Settle, SettleRead, SettleRecover, SettleRemove
    <2>. QED BY <2>1, NothingTyped, SpawnDoes
<1>4. LockTypes BY DEF Settle, SettleRead, SettleRecover, SettleRemove, TypeOK, LockTypes
<1>5. HistoryTypes
    BY DEF Settle, SettleRead, SettleRecover, SettleRemove, TypeOK, HistoryTypes,
            historyVars
<1>. QED BY <1>1, <1>2, <1>3, <1>4, <1>5, TypesTogether

LEMMA PowerLossTyped ==
    ASSUME TypeOK, PowerLoss
    PROVE  TypeOK'
<1>1. DiskTypes BY DEF PowerLoss, TypeOK, DiskTypes, Imaged
<1>2. HelperTypes BY DEF PowerLoss, HelperTypes, Step, Outcome
<1>3. AppTypes BY DEF PowerLoss, AppTypes
<1>4. FaultTypes /\ LockTypes BY Counted DEF PowerLoss, LockTypes
<1>5. HistoryTypes BY UpdateAssumption DEF PowerLoss, Crash, TypeOK, HistoryTypes
<1>. QED BY <1>1, <1>2, <1>3, <1>4, <1>5, TypesTogether

LEMMA StepTyped == TypeOK /\ [Next]_vars => TypeOK'
<1>. SUFFICES ASSUME TypeOK, [Next]_vars PROVE TypeOK' OBVIOUS
<1>1. ASSUME NEW h \in Helpers, Kill(h) PROVE TypeOK'
    <2>1. HistoryTypes BY <1>1, UpdateAssumption DEF Kill, Crash, TypeOK, HistoryTypes
    <2>. QED BY <1>1, <2>1, ExitTyped, NothingTyped, Counted, TypesTogether DEF Kill
<1>2. ASSUME NEW b \in Build, Quit(b) PROVE TypeOK'
    BY <1>2, GoneTyped, NothingTyped, Counted, TypesTogether DEF Quit
<1>3. CASE Launch
    <2>1. AppTypes BY <1>3, LaunchTyped DEF Launch, TypeOK, AppTypes
    <2>. QED BY <1>3, <2>1, NothingTyped, Counted, TypesTogether DEF Launch
<1>4. CASE RecoverByHand
    <2>1. HelperTypes BY <1>4, SpawnDoes DEF RecoverByHand
    <2>. QED BY <1>4, <2>1, NothingTyped, Counted, TypesTogether DEF RecoverByHand
<1>5. CASE ReinstallByHand
    <2>1. [fs EXCEPT !.install = "other"] \in State BY DEF TypeOK, State, Tree, Build
    <2>. QED BY <1>5, <2>1, ChangeTyped, NothingTyped, Counted, TypesTogether
        DEF ReinstallByHand
<1>6. CASE UNCHANGED vars BY <1>6 DEF vars, TypeOK
<1>. QED BY <1>1, <1>2, <1>3, <1>4, <1>5, <1>6, HelperTyped, ShellTyped, AnswerTyped,
            SettleTyped,
            PowerLossTyped DEF Next

-----------------------------------------------------------------------------
(* The theorems *)

LEMMA Initially == Init => IInv
<1>. SUFFICES ASSUME Init PROVE IInv OBVIOUS
<1>1. fs \in State BY DEF Init, State, Tree, Build, Outcome
<1>2. TypeOK
    <2>1. /\ pc \in [Helpers -> Step] /\ mode \in [Helpers -> {"apply", "recover"}]
          /\ verdict \in [Helpers -> Outcome]
        BY DEF Init, Step, Outcome
    <2>2. settler \in [Build -> {"idle", "reading", "probing", "recovering", "removing",
                                "discarding", "removed", "clearing"}]
        BY DEF Init
    <2>3. images \subseteq State /\ fs \in images BY <1>1 DEF Init
    <2>4. faults \in 0..MaxFaults /\ crashes \in 0..MaxCrashes BY UpdateAssumption DEF Init
    <2>. QED BY <1>1, <2>1, <2>2, <2>3, <2>4 DEF Init, TypeOK, Build
<1>3. /\ fs.install = "old" /\ fs.candidate = "new" /\ fs.backup = "none" /\ fs.result = "none"
      /\ ~fs.ack /\ images = {fs}
    BY DEF Init
<1>4. /\ \A h \in Helpers : pc[h] = "idle"
      /\ \A b \in Build : settler[b] = "idle"
      /\ shell = "staged" /\ "old" \in running /\ answering = "no"
    BY DEF Init
<1>5. SaneInv BY <1>3 DEF SaneInv, Sane, Final
<1>6. LockInv /\ ShellInv
    BY <1>3, <1>4 DEF LockInv, ShellInv, Locked, Onward, Exchange, Backward
<1>7. ComingInv /\ StepInv /\ VerdictInv
    BY <1>4
        DEF ComingInv, Coming, StepInv, StepAt, VerdictInv, VerdictAt, Onward, Exchange,
            Backward
<1>8. AnswerInv /\ SettleInv BY <1>4 DEF AnswerInv, SettleInv
<1>. QED BY <1>2, <1>5, <1>6, <1>7, <1>8 DEF IInv, Sound

LEMMA HelperKeeps ==
    ASSUME TypeOK, Sound, NEW h \in Helpers, HelperStep(h)
    PROVE  Sound'
BY ReadDescriptorKeeps, ClaimLockKeeps, WaitForExitKeeps, CheckIdentitiesKeeps, BackUpKeeps,
   InstallKeeps, ClearAcknowledgementKeeps, LaunchCandidateKeeps, WaitForStartupKeeps,
   CheckRollbackKeeps, StopProcessesKeeps, RejectKeeps, RestoreKeeps, InspectKeeps,
   WriteResultKeeps, LaunchRestoredKeeps DEF HelperStep

LEMMA Forever == TypeOK /\ discarded /\ [Next]_vars => discarded'
<1>. SUFFICES ASSUME discarded, [Next]_vars PROVE discarded' OBVIOUS
<1>1. ASSUME NEW h \in Helpers, HelperStep(h) PROVE discarded'
    BY <1>1
        DEF HelperStep, ReadDescriptor, ClaimLock, WaitForExit, CheckIdentities, BackUp,
            Install,
       ClearAcknowledgement, LaunchCandidate, WaitForStartup, CheckRollback, StopProcesses,
       RecheckRollback, Reject, Restore, Inspect, WriteResult, LaunchRestored, historyVars
<1>2. ASSUME NEW b \in Build, Settle(b) PROVE discarded'
    BY <1>2 DEF Settle, SettleRead, SettleRecover, SettleRemove, historyVars
<1>3. CASE Shell
    BY <1>3
        DEF Shell, RecordPending, StartHelper, AwaitClaim, DropTransaction,
            ForgetTransaction,
       historyVars
<1>. QED BY <1>1, <1>2, <1>3 DEF Next, Kill, PromoteReceipt, Acknowledge, Quit, Launch,
            RecoverByHand, ReinstallByHand, PowerLoss, historyVars, vars

LEMMA StepKeeps == TypeOK /\ Sound /\ [Next]_vars /\ ~discarded' => Sound'
<1>. SUFFICES ASSUME TypeOK, Sound, [Next]_vars, ~discarded' PROVE Sound' OBVIOUS
<1>1. CASE UNCHANGED vars
    BY <1>1
        DEF vars, Sound, SaneInv, Sane, LockInv, ShellInv, ComingInv, Coming, StepInv,
            StepAt,
       VerdictInv, VerdictAt, AnswerInv, SettleInv
<1>2. ASSUME NEW b \in Build, Settle(b) \/ Quit(b) PROVE Sound'
    BY <1>2, SettleReadKeeps, SettleRecoverKeeps, SettleRemoveKeeps, QuitKeeps DEF Settle
<1>3. CASE Shell
    BY <1>3, RecordPendingKeeps, StartHelperKeeps, AwaitClaimKeeps, DropTransactionKeeps
        DEF Shell
<1>. QED BY <1>1, <1>2, <1>3, HelperKeeps, KillKeeps, PromoteReceiptKeeps, AcknowledgeKeeps,
            LaunchKeeps, RecoverByHandKeeps, ReinstallByHandKeeps, PowerLossKeeps DEF Next

\* The inductive invariant.
THEOREM InvariantHolds == Spec => []IInv
<1>1. IInv /\ [Next]_vars => IInv' BY StepTyped, Forever, StepKeeps DEF IInv
<1>. QED BY <1>1, Initially, PTL DEF Spec

\* The types, whatever happens.
THEOREM TypesHold == Spec => []TypeOK
<1>1. IInv => TypeOK BY DEF IInv
<1>. QED BY <1>1, InvariantHolds, PTL

\* Whatever fails, dies or loses its power, at any point of an update, of its
\* recovery and of the launches after it, every state the disk may be found in holds
\* a build that works: move_directory renames onto nothing and syncs, roll_back
\* undoes what it finds exchanged, and a settlement deletes what no helper needs.
THEOREM KeptWholeHolds == Spec => []KeptWhole
<1>1. IInv => KeptWhole
    <2>. SUFFICES ASSUME TypeOK, Sound, NEW image \in images PROVE Works(image)
        BY DEF IInv, KeptWhole
    <2>1. Sane(image) /\ image.install \in Tree BY DEF Sound, SaneInv, TypeOK, State
    <2>. QED BY <2>1 DEF Sane, Works, Tree, Build
<1>. QED BY <1>1, InvariantHolds, PTL

\* An outcome that is on the disk, after a power cut too, is what the disk holds:
\* write_result comes after the sync of what it reports.
THEOREM TruthfulResultHolds == Spec => []TruthfulResult
<1>1. IInv => TruthfulResult BY DEF IInv, TruthfulResult, Sound, SaneInv, Sane
<1>. QED BY <1>1, InvariantHolds, PTL
=============================================================================
