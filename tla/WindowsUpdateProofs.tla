------------------------ MODULE WindowsUpdateProofs --------------------------
(***************************************************************************)
(* For any plan and any number of failures and deaths: the previous files  *)
(* are never lost, when no launch settles the transaction while the helper *)
(* is among its files; and the outcome recorded last is true of the        *)
(* installation, whoever launches and recovers when.                       *)
(***************************************************************************)
EXTENDS WindowsUpdate, TLAPS

Working == {"operation", "keeping", "placing", "moving", "applied", "awaiting", "clearing", "launching",
            "watching", "unstarted", "committing", "stopping", "rolling", "undoing",
            "receipt", "restoring", "incomplete"}
Before == {"idle", "start", "waiting"}
Step == Working \cup Before \cup {"applying", "result", "relaunch"}

Disk == [tree : [Op -> File], payload : SUBSET Gets, backup : [Op -> File],
         journal : BOOLEAN, phase : Phase, result : Phase \cup {"none"},
         claim : BOOLEAN, ack : BOOLEAN, pointer : BOOLEAN,
         receipt : {"none", "old", "new"}, staged : BOOLEAN, kept : BOOLEAN]
Helper == [step : Step, at : Nat, recover : BOOLEAN, intact : BOOLEAN]

Types ==
    /\ disk \in Disk /\ helper \in Helper
    /\ running \in SUBSET Build
    /\ answering \in {"no", "asked", "promoted"}
    /\ shell \in {"staged", "waiting", "owned", "abandoning", "forgetting", "over", "gone"}
    /\ settling \in [Build -> {"idle", "reading", "removing", "clearing"}]
    /\ answered \in BOOLEAN

\* As long as the transaction is there, a previous file is in its place or in the
\* backup, and never in both; an addition has no backup.
Held ==
    disk.journal => \A o \in Op :
        IF o \in Had
          THEN \/ disk.tree[o] = "old" /\ disk.backup[o] = "none"
               \/ disk.tree[o] \in (IF o \in Gets THEN {"none", "new"} ELSE {"none"})
                  /\ disk.backup[o] = "old"
          ELSE disk.tree[o] # "old" /\ disk.backup[o] = "none"

\* A new file is staged or placed, never both; one that is neither is lost.
Moved == \A o \in disk.payload : disk.tree[o] # "new"

Untouched ==
    disk.phase = "prepared" /\ disk.journal =>
        disk.payload = Gets /\ AllOld /\ helper.step \in Before \cup {"applying"}

\* A transaction goes when there is nothing left for it to do, and never from
\* under the helper.
Done == AllOld \/ (AllNew /\ answered)
Removal ==
    ~disk.journal =>
        /\ disk.phase = "prepared" /\ disk.result = "none"
        /\ helper.step \notin Working /\ Done

\* The last record of the journal says where the helper is, or was when it died.
Recorded ==
    /\ At("operation") => disk.phase \in {"applying", "applied"}
    /\ helper.step \in {"keeping", "placing", "moving", "applied"} => disk.phase = "operation"
    /\ At("awaiting") => disk.phase = "applied"
    /\ helper.step \in {"clearing", "launching", "watching", "unstarted", "committing", "stopping"}
          => disk.phase = "awaiting-startup"
    /\ At("rolling") => disk.phase \in {"operation", "awaiting-startup"}
    /\ helper.step \in {"undoing", "receipt", "restoring", "incomplete"}
          => disk.phase = "rolling-back"
    /\ disk.phase \in {"committed", "restored"}
          => helper.step \in {"idle", "start", "waiting", "applying", "result", "relaunch"}
    /\ helper.step \in {"result", "relaunch"} => disk.phase \notin {"operation", "applied"}
    /\ shell = "staged" => At("idle") /\ ~disk.pointer /\ disk.phase = "prepared"

\* Unless a launch settles there, none does while the helper is among its files, nor
\* is one that decided to remove the transaction still under way then.
Alone ==
    /\ Amid /\ ~SettlesAmid => \A b \in Build : settling[b] = "idle"
    /\ helper.step \in Working \cup {"applying"} => shell = "gone"
    /\ disk.phase \in {"operation", "applied"} => shell = "gone"
    /\ shell # "gone" => "old" \in running
    /\ \A b \in Build : settling[b] # "idle" => b \in running
    /\ disk.journal /\ ~SettlesAmid => \A b \in Build :
          settling[b] = "removing" => helper.step \notin Working /\ Done

\* How far the files are, by the helper's step.
Made(o) ==
    \/ disk.tree[o] = IF o \in Gets THEN "new" ELSE "none"
    \/ disk.tree[o] = "foreign" /\ o \notin Had \cup disk.payload
Unmade(o) == IF o \in Had THEN disk.tree[o] = "old" ELSE disk.tree[o] # "new"
Progress ==
    /\ helper.step \in {"operation", "keeping", "placing", "moving", "applied", "undoing"}
          => op \in Op
    /\ helper.step \in {"operation", "keeping", "placing", "moving", "applied"} =>
          \A o \in Op : o < op => Made(o)
    /\ At("keeping") => op \in Had
    /\ helper.step \in {"placing", "moving"} =>
          op \in Gets /\ (op \in Had => disk.backup[op] = "old")
    /\ At("moving") => op \in disk.payload
    /\ At("applied") => Made(op)
    /\ helper.step \in {"awaiting", "clearing", "launching", "watching", "unstarted",
                        "committing", "stopping"} => AllNew
    /\ At("undoing") /\ helper.intact => \A o \in Op : o > op => Unmade(o)
    /\ helper.step \in {"receipt", "restoring"} => AllOld

\* Who answers runs out of a whole new installation; the answer outlives only an
\* installation whose executable cannot come back.
Answer ==
    /\ answering # "no" =>
          /\ "new" \in running /\ AllNew
          /\ helper.step \in Before \cup {"watching", "committing", "stopping", "result", "relaunch"}
    /\ answering = "promoted" => disk.receipt = "new"
    /\ disk.ack => answered
    /\ answered => disk.payload = {} /\ (disk.receipt = "new" \/ disk.tree[Program] # "new")

Truth ==
    /\ At("committing") => answered
    /\ At("restoring") => disk.receipt # "new"
    /\ disk.phase = "committed" => AllNew /\ answered /\ disk.receipt = "new"
    /\ disk.phase = "restored" => AllOld /\ disk.receipt # "new"

Sound ==
    /\ Types /\ Held /\ Moved /\ Untouched /\ Removal
    /\ Recorded /\ Alone /\ Progress /\ Answer /\ Truth

Placed == {"operation", "keeping", "placing", "moving", "applied", "undoing"}

\* Where a launch settles there, the transaction may go while the helper is among its
\* files: then nothing is left to record an outcome in.
Undermined ==
    /\ SettlesAmid /\ ~disk.journal /\ disk.phase = "prepared"
    /\ Types
    /\ helper.step \in Placed => op \in Op

IInv == Sound \/ Undermined

-----------------------------------------------------------------------------
(* What the operators of the helper do to the fields of its state *)

Files == <<disk.tree, disk.payload, disk.backup, disk.journal>>

\* Only the records of the transaction change.
Wrote(phase, result) ==
    /\ disk' \in Disk /\ UNCHANGED Files
    /\ disk'.phase = phase /\ disk'.result = result /\ disk'.receipt = disk.receipt
    /\ (disk'.ack => disk.ack) /\ (disk'.pointer => disk.pointer)
Went(step, at, intact) ==
    helper' \in Helper /\ helper'.step = step /\ helper'.at = at /\ helper'.intact = intact

LEMMA RecordDoes ==
    ASSUME Types, NEW phase \in Phase, disk' = [disk EXCEPT !.phase = phase]
    PROVE  Wrote(phase, disk.result)
BY DEF Types, Disk, Wrote, Files

LEMMA RequireDoes ==
    ASSUME Types, disk' = [disk EXCEPT !.phase = "recovery-required", !.result = "recovery-required"]
    PROVE  Wrote("recovery-required", "recovery-required")
BY DEF Types, Disk, Wrote, Files, Phase, Unsettled

LEMMA NothingDoes ==
    ASSUME Types, UNCHANGED disk
    PROVE  Wrote(disk.phase, disk.result)
BY DEF Types, Wrote, Files, Disk

LEMMA GotoDoes ==
    ASSUME Types, NEW step \in Step, Goto(step)
    PROVE  Went(step, helper.at, helper.intact)
BY DEF Types, Helper, Went, Goto

LEMMA ExitDoes ==
    ASSUME Exit
    PROVE  Went("idle", 0, TRUE)
BY DEF Exit, Idle, Helper, Went, Step, Before

LEMMA StandDoes ==
    ASSUME Types, UNCHANGED helper
    PROVE  Went(helper.step, helper.at, helper.intact)
BY DEF Types, Helper, Went

LEMMA SpawnDoes ==
    ASSUME NEW recover \in BOOLEAN, Spawn(recover)
    PROVE  At("idle") /\ Went("start", 0, TRUE)
BY DEF Spawn, Idle, Helper, Went, Step, Before, At

\* As long as no file moves, neither does what is said of the files.
SameFiles ==
    /\ disk'.payload = disk.payload /\ disk'.tree = disk.tree
    /\ disk'.backup = disk.backup /\ disk'.journal = disk.journal
    /\ (AllOld' <=> AllOld) /\ (AllNew' <=> AllNew)
    /\ \A o \in Op : (Made(o)' <=> Made(o)) /\ (Unmade(o)' <=> Unmade(o))

LEMMA FilesStay ==
    ASSUME Held, Moved, UNCHANGED Files
    PROVE  Held' /\ Moved' /\ SameFiles
BY DEF Held, Moved, Files, AllOld, AllNew, Made, Unmade, SameFiles

LEMMA Plan ==
    /\ Len(Kinds) \in Op /\ Op = 1..Len(Kinds) /\ Len(Kinds) \in Nat
    /\ \A o \in Op : o \in Had \/ o \in Gets
    /\ Had \subseteq Op /\ Gets \subseteq Op
    /\ Program \in Op /\ Program \in Had /\ Program \in Gets
BY PlanAssumption DEF Op, Had, Gets

\* All is made when every operation is, and undone likewise.
LEMMA WholeByOperation ==
    /\ AllOld <=> (\A o \in Op : Unmade(o))
    /\ AllNew <=> (\A o \in Op : Made(o))
    /\ AllOld => disk.tree[Program] = "old"
    /\ AllNew => disk.tree[Program] = "new"
BY Plan DEF AllOld, AllNew, Made, Unmade

LEMMA RequireKeeps ==
    ASSUME Sound, disk' = [disk EXCEPT !.phase = "recovery-required", !.result = "recovery-required"], Exit,
           disk.journal, UNCHANGED <<appVars, answered>>,
           helper.step \in Working \cup {"waiting", "applying", "result"}
    PROVE  Sound'
<1>1. Wrote("recovery-required", "recovery-required") /\ Went("idle", 0, TRUE)
  BY RequireDoes, ExitDoes DEF Sound
<1>10. Types'
  BY <1>1 DEF Sound, Types, Wrote, Went, appVars
<1>11. Held' /\ Moved' /\ SameFiles
  BY <1>1, FilesStay DEF Sound, Wrote
<1>12. Untouched'
  BY <1>1, <1>11 DEF Untouched
<1>13. Removal'
  BY <1>1, <1>11 DEF Removal
<1>14. Recorded'
  BY <1>1, <1>11 DEF Sound, Went, At, Working, Recorded, appVars
<1>15. Alone'
  BY <1>1, <1>11 DEF Sound, Went, Done, Amid, Working, SameFiles, Alone, appVars
<1>16. Progress'
  BY <1>1, <1>11 DEF Went, At, Progress
<1>17. Answer'
  BY <1>1, <1>11 DEF Sound, Went, Before, SameFiles, Answer, appVars
<1>18. Truth'
  BY <1>1, <1>11 DEF Went, At, Truth
<1> QED
  BY <1>10, <1>11, <1>12, <1>13, <1>14, <1>15, <1>16, <1>17, <1>18 DEF Sound

LEMMA LeaveKeeps ==
    ASSUME Sound, Exit, NoChange, UNCHANGED <<appVars, answered>>
    PROVE  Sound'
<1>1. Wrote(disk.phase, disk.result) /\ Went("idle", 0, TRUE)
  BY NothingDoes, ExitDoes DEF NoChange, Sound
<1>10. Types'
  BY <1>1 DEF Sound, Types, Wrote, Went, appVars
<1>11. Held' /\ Moved' /\ SameFiles
  BY <1>1, FilesStay DEF Sound, Wrote
<1>12. Untouched'
  BY <1>1, <1>11 DEF Sound, Wrote, Went, Before, SameFiles, Untouched
<1>13. Removal'
  BY <1>1, <1>11 DEF Sound, Wrote, Went, Done, Working, SameFiles, Removal
<1>14. Recorded'
  BY <1>1, <1>11 DEF Sound, Wrote, Went, At, Recorded, appVars
<1>15. Alone'
  BY <1>1, <1>11 DEF Sound, Wrote, Went, Done, Amid, Working, SameFiles, Alone, appVars
<1>16. Progress'
  BY <1>1, <1>11 DEF Went, At, Progress
<1>17. Answer'
  BY <1>1, <1>11 DEF Sound, Wrote, Went, Before, SameFiles, Answer, appVars
<1>18. Truth'
  BY <1>1, <1>11 DEF Sound, Wrote, Went, At, SameFiles, Truth
<1> QED
  BY <1>10, <1>11, <1>12, <1>13, <1>14, <1>15, <1>16, <1>17, <1>18 DEF Sound

LEMMA BeginApplyKeeps ==
    ASSUME Sound, BeginApply
    PROVE  Sound'
<1>1. CASE disk.journal /\ disk' = [disk EXCEPT !.phase = "applying"] /\ helper' = [helper EXCEPT !.step = "operation", !.at = 1]
  <2>1. Wrote("applying", disk.result)
    BY <1>1, RecordDoes DEF Sound, Phase, Unsettled
  <2>2. Went("operation", 1, helper.intact)
    BY <1>1, GotoDoes, Plan
        DEF Sound, Types, Helper, Went, At, op, Step, Working, Before, Goto, BeginApply
  <2>10. Types'
    BY <1>1, <2>1, <2>2 DEF Sound, Types, Wrote, Went, NoKill, appVars, BeginApply
  <2>11. Held' /\ Moved' /\ SameFiles
    BY <1>1, <2>1, <2>2, FilesStay DEF Sound, Wrote
  <2>12. Untouched'
    BY <1>1, <2>1, <2>2, <2>11 DEF Untouched
  <2>13. Removal'
    BY <1>1, <2>1, <2>2, <2>11 DEF Removal
  <2>14. Recorded'
    BY <1>1, <2>1, <2>2, <2>11 DEF Sound, At, Recorded, appVars, BeginApply
  <2>15. Alone'
    BY <1>1, <2>1, <2>2, <2>11 DEF Sound, At, Amid, Alone, appVars, BeginApply
  <2>16. Progress'
    BY <1>1, <2>1, <2>2, <2>11, Plan, WholeByOperation DEF At, op, Progress
  <2>17. Answer'
    BY <1>1, <2>1, <2>2, <2>11 DEF Sound, At, Before, Answer, NoKill, appVars, BeginApply
  <2>18. Truth'
    BY <1>1, <2>1, <2>2, <2>11 DEF Sound, At, Truth, Recorded, BeginApply
  <2> QED
    BY <2>10, <2>11, <2>12, <2>13, <2>14, <2>15, <2>16, <2>17, <2>18 DEF Sound
<1>2. CASE disk.journal /\ Throw
  BY <1>2, RequireKeeps DEF BeginApply, At, Throw, NoKill
<1>3. CASE ~disk.journal /\ NoChange /\ Exit
  BY <1>3, LeaveKeeps DEF BeginApply, NoKill
<1> QED
  BY <1>1, <1>2, <1>3 DEF BeginApply, Record

LEMMA RecordOperationKeeps ==
    ASSUME Sound, RecordOperation
    PROVE  Sound'
<1>1. CASE disk.journal /\ disk' = [disk EXCEPT !.phase = "operation"] /\ Goto(IF op \in Had THEN "keeping" ELSE "placing")
  <2>1. Wrote("operation", disk.result)
    BY <1>1, RecordDoes DEF Sound, Phase, Unsettled
  <2>2. Went(IF op \in Had THEN "keeping" ELSE "placing", helper.at, helper.intact)
    BY <1>1, GotoDoes, Plan DEF Sound, Step, Working
  <2>10. Types'
    BY <1>1, <2>1, <2>2 DEF Sound, Types, Wrote, Went, NoKill, appVars, RecordOperation
  <2>11. Held' /\ Moved' /\ SameFiles
    BY <1>1, <2>1, <2>2, FilesStay DEF Sound, Wrote
  <2>12. Untouched'
    BY <1>1, <2>1, <2>2, <2>11 DEF Untouched
  <2>13. Removal'
    BY <1>1, <2>1, <2>2, <2>11 DEF Removal
  <2>14. Recorded'
    BY <1>1, <2>1, <2>2, <2>11 DEF Sound, Went, At, Recorded, appVars, RecordOperation
  <2>15. Alone'
    <3>1. CASE SettlesAmid
      BY <1>1, <2>1, <2>2, <2>11, <3>1
          DEF Sound, At, Amid, Alone, Working, appVars, RecordOperation
    <3>2. CASE ~SettlesAmid
      <4>1. UNCHANGED <<running, shell, settling>> /\ \A b \in Build : settling[b] = "idle"
        BY <1>1, <2>1, <2>2, <2>11, <3>2 DEF Sound, At, Amid, Alone, appVars, RecordOperation
      <4>2. \A b \in Build : settling'[b] = "idle"
        BY <4>1
      <4> QED
        BY <1>1, <2>1, <2>2, <2>11, <4>1, <4>2 DEF Sound, At, Amid, Alone, Working, appVars, RecordOperation
    <3> QED
      BY <3>1, <3>2
  <2>16. Progress'
    BY <1>1, <2>1, <2>2, <2>11, Plan, WholeByOperation
        DEF Sound, Went, At, op, SameFiles, Progress, RecordOperation
  <2>17. Answer'
    BY <1>1, <2>1, <2>2, <2>11
        DEF Sound, At, Before, Answer, NoKill, appVars, RecordOperation
  <2>18. Truth'
    BY <1>1, <2>1, <2>2, <2>11 DEF Sound, Went, At, Truth, Recorded, RecordOperation
  <2> QED
    BY <2>10, <2>11, <2>12, <2>13, <2>14, <2>15, <2>16, <2>17, <2>18 DEF Sound
<1>2. CASE disk.journal /\ Throw
  BY <1>2, RequireKeeps DEF RecordOperation, At, Working, Throw, NoKill
<1>3. CASE ~disk.journal /\ NoChange /\ Exit
  BY <1>3, LeaveKeeps DEF RecordOperation, NoKill
<1> QED
  BY <1>1, <1>2, <1>3 DEF RecordOperation, Record

LEMMA RecordAppliedKeeps ==
    ASSUME Sound, RecordApplied
    PROVE  Sound'
<1>1. CASE disk.journal /\ disk' = [disk EXCEPT !.phase = "applied"] /\ (IF op = Len(Kinds) THEN Goto("awaiting")
                        ELSE helper' = [helper EXCEPT !.step = "operation", !.at = op + 1])
  <2>1. Wrote("applied", disk.result)
    BY <1>1, RecordDoes DEF Sound, Phase, Unsettled
  <2>2. /\ helper' \in Helper
        /\ op = Len(Kinds) => helper'.step = "awaiting"
        /\ op # Len(Kinds) => helper'.step = "operation" /\ helper'.at = op + 1
    <3>1. op \in Op
      BY DEF Sound, Progress, RecordApplied, At
    <3>2. CASE op = Len(Kinds)
      BY <1>1, <3>2, GotoDoes DEF Sound, Went, Step, Working
    <3>3. CASE op # Len(Kinds)
      <4>1. helper.at + 1 \in Nat
        BY <3>1 DEF op, Op
      <4> QED
        BY <1>1, <3>3, <4>1 DEF Sound, Types, Helper, op, Step, Working
    <3> QED
      BY <3>2, <3>3
  <2>10. Types'
    BY <1>1, <2>1, <2>2 DEF Sound, Types, Wrote, NoKill, appVars, RecordApplied
  <2>11. Held' /\ Moved' /\ SameFiles
    BY <1>1, <2>1, <2>2, FilesStay DEF Sound, Wrote
  <2>12. Untouched'
    BY <1>1, <2>1, <2>2, <2>11 DEF Untouched
  <2>13. Removal'
    BY <1>1, <2>1, <2>2, <2>11 DEF Removal
  <2>14. Recorded'
    BY <1>1, <2>1, <2>2, <2>11 DEF Sound, At, Recorded, appVars, RecordApplied
  <2>15. Alone'
    <3>1. CASE SettlesAmid
      BY <1>1, <2>1, <2>2, <2>11, <3>1
          DEF Sound, At, Amid, Alone, Working, appVars, RecordApplied
    <3>2. CASE ~SettlesAmid
      <4>1. UNCHANGED <<running, shell, settling>> /\ \A b \in Build : settling[b] = "idle"
        BY <1>1, <2>1, <2>2, <2>11, <3>2 DEF Sound, At, Amid, Alone, appVars, RecordApplied
      <4>2. \A b \in Build : settling'[b] = "idle"
        BY <4>1
      <4> QED
        BY <1>1, <2>1, <2>2, <2>11, <4>1, <4>2 DEF Sound, At, Amid, Alone, Working, appVars, RecordApplied
    <3> QED
      BY <3>1, <3>2
  <2>16. Progress'
    BY <1>1, <2>1, <2>2, <2>11, Plan, WholeByOperation
        DEF Sound, At, op, SameFiles, Progress, RecordApplied
  <2>17. Answer'
    BY <1>1, <2>1, <2>2, <2>11 DEF Sound, At, Before, Answer, NoKill, appVars, RecordApplied
  <2>18. Truth'
    BY <1>1, <2>1, <2>2, <2>11 DEF Sound, At, Truth, Recorded, RecordApplied
  <2> QED
    BY <2>10, <2>11, <2>12, <2>13, <2>14, <2>15, <2>16, <2>17, <2>18 DEF Sound
<1>2. CASE disk.journal /\ Throw
  BY <1>2, RequireKeeps DEF RecordApplied, At, Working, Throw, NoKill
<1>3. CASE ~disk.journal /\ NoChange /\ Exit
  BY <1>3, LeaveKeeps DEF RecordApplied, NoKill
<1> QED
  BY <1>1, <1>2, <1>3 DEF RecordApplied, Record

LEMMA BeginStartupKeeps ==
    ASSUME Sound, BeginStartup
    PROVE  Sound'
<1>1. CASE disk.journal /\ disk' = [disk EXCEPT !.phase = "awaiting-startup"] /\ Goto("clearing")
  <2>1. Wrote("awaiting-startup", disk.result)
    BY <1>1, RecordDoes DEF Sound, Phase, Unsettled
  <2>2. Went("clearing", helper.at, helper.intact)
    BY <1>1, GotoDoes, Plan DEF Sound, Step, Working
  <2>10. Types'
    BY <1>1, <2>1, <2>2 DEF Sound, Types, Wrote, Went, NoKill, appVars, BeginStartup
  <2>11. Held' /\ Moved' /\ SameFiles
    BY <1>1, <2>1, <2>2, FilesStay DEF Sound, Wrote
  <2>12. Untouched'
    BY <1>1, <2>1, <2>2, <2>11 DEF Untouched
  <2>13. Removal'
    BY <1>1, <2>1, <2>2, <2>11 DEF Removal
  <2>14. Recorded'
    BY <1>1, <2>1, <2>2, <2>11 DEF Sound, Went, At, Recorded, appVars, BeginStartup
  <2>15. Alone'
    <3>1. CASE SettlesAmid
      BY <1>1, <2>1, <2>2, <2>11, <3>1
          DEF Sound, At, Amid, Alone, Working, appVars, BeginStartup
    <3>2. CASE ~SettlesAmid
      <4>1. UNCHANGED <<running, shell, settling>> /\ \A b \in Build : settling[b] = "idle"
        BY <1>1, <2>1, <2>2, <2>11, <3>2 DEF Sound, At, Amid, Alone, appVars, BeginStartup
      <4>2. \A b \in Build : settling'[b] = "idle"
        BY <4>1
      <4> QED
        BY <1>1, <2>1, <2>2, <2>11, <4>1, <4>2 DEF Sound, At, Amid, Alone, Working, appVars, BeginStartup
    <3> QED
      BY <3>1, <3>2
  <2>16. Progress'
    BY <1>1, <2>1, <2>2, <2>11 DEF Sound, Went, At, SameFiles, Progress, BeginStartup
  <2>17. Answer'
    BY <1>1, <2>1, <2>2, <2>11 DEF Sound, At, Before, Answer, NoKill, appVars, BeginStartup
  <2>18. Truth'
    BY <1>1, <2>1, <2>2, <2>11 DEF Sound, Went, At, Truth, Recorded, BeginStartup
  <2> QED
    BY <2>10, <2>11, <2>12, <2>13, <2>14, <2>15, <2>16, <2>17, <2>18 DEF Sound
<1>2. CASE disk.journal /\ Throw
  BY <1>2, RequireKeeps DEF BeginStartup, At, Working, Throw, NoKill
<1>3. CASE ~disk.journal /\ NoChange /\ Exit
  BY <1>3, LeaveKeeps DEF BeginStartup, NoKill
<1> QED
  BY <1>1, <1>2, <1>3 DEF BeginStartup, Record

LEMMA CommitKeeps ==
    ASSUME Sound, Commit
    PROVE  Sound'
<1>1. CASE disk.journal /\ disk' = [disk EXCEPT !.phase = "committed"] /\ Goto("result")
  <2>1. Wrote("committed", disk.result)
    BY <1>1, RecordDoes DEF Sound, Phase, Unsettled
  <2>2. Went("result", helper.at, helper.intact)
    BY <1>1, GotoDoes, Plan DEF Sound, Step
  <2>10. Types'
    BY <1>1, <2>1, <2>2 DEF Sound, Types, Wrote, Went, NoKill, appVars, Commit
  <2>11. Held' /\ Moved' /\ SameFiles
    BY <1>1, <2>1, <2>2, FilesStay DEF Sound, Wrote
  <2>12. Untouched'
    BY <1>1, <2>1, <2>2, <2>11 DEF Untouched
  <2>13. Removal'
    BY <1>1, <2>1, <2>2, <2>11 DEF Removal
  <2>14. Recorded'
    BY <1>1, <2>1, <2>2, <2>11 DEF Sound, Went, At, Recorded, appVars, Commit
  <2>15. Alone'
    BY <1>1, <2>1, <2>2, <2>11 DEF Sound, Went, At, Amid, Working, Alone, appVars, Commit
  <2>16. Progress'
    BY <1>1, <2>1, <2>2, <2>11 DEF Went, At, Progress
  <2>17. Answer'
    BY <1>1, <2>1, <2>2, <2>11 DEF Sound, Went, SameFiles, Answer, NoKill, appVars, Commit
  <2>18. Truth'
    BY <1>1, <2>1, <2>2, <2>11, Plan, WholeByOperation
        DEF Sound, Went, At, SameFiles, Truth, Progress, Answer, NoKill, Commit
  <2> QED
    BY <2>10, <2>11, <2>12, <2>13, <2>14, <2>15, <2>16, <2>17, <2>18 DEF Sound
<1>2. CASE disk.journal /\ Throw
  BY <1>2, RequireKeeps DEF Commit, At, Working, Throw, NoKill
<1>3. CASE ~disk.journal /\ NoChange /\ Exit
  BY <1>3, LeaveKeeps DEF Commit, NoKill
<1> QED
  BY <1>1, <1>2, <1>3 DEF Commit, Record

LEMMA BeginRollbackKeeps ==
    ASSUME Sound, BeginRollback
    PROVE  Sound'
<1>1. CASE disk.journal /\ disk' = [disk EXCEPT !.phase = "rolling-back"] /\ helper' = [helper EXCEPT !.step = "undoing", !.at = Len(Kinds), !.intact = TRUE]
  <2>1. Wrote("rolling-back", disk.result)
    BY <1>1, RecordDoes DEF Sound, Phase, Unsettled
  <2>2. Went("undoing", Len(Kinds), TRUE)
    BY <1>1, GotoDoes, Plan
        DEF Sound, Types, Helper, Went, At, op, Step, Working, Before, Goto, BeginRollback
  <2>10. Types'
    BY <1>1, <2>1, <2>2 DEF Sound, Types, Wrote, Went, NoKill, appVars, BeginRollback
  <2>11. Held' /\ Moved' /\ SameFiles
    BY <1>1, <2>1, <2>2, FilesStay DEF Sound, Wrote
  <2>12. Untouched'
    BY <1>1, <2>1, <2>2, <2>11 DEF Untouched
  <2>13. Removal'
    BY <1>1, <2>1, <2>2, <2>11 DEF Removal
  <2>14. Recorded'
    BY <1>1, <2>1, <2>2, <2>11 DEF Sound, At, Recorded, appVars, BeginRollback
  <2>15. Alone'
    BY <1>1, <2>1, <2>2, <2>11 DEF Sound, At, Amid, Working, Alone, appVars, BeginRollback
  <2>16. Progress'
    BY <1>1, <2>1, <2>2, <2>11, Plan, WholeByOperation DEF At, op, Progress
  <2>17. Answer'
    BY <1>1, <2>1, <2>2, <2>11 DEF Sound, At, Before, Answer, NoKill, appVars, BeginRollback
  <2>18. Truth'
    BY <1>1, <2>1, <2>2, <2>11 DEF Sound, At, Truth, Recorded, BeginRollback
  <2> QED
    BY <2>10, <2>11, <2>12, <2>13, <2>14, <2>15, <2>16, <2>17, <2>18 DEF Sound
<1>2. CASE disk.journal /\ Throw
  BY <1>2, RequireKeeps DEF BeginRollback, At, Working, Throw, NoKill
<1>3. CASE ~disk.journal /\ NoChange /\ Exit
  BY <1>3, LeaveKeeps DEF BeginRollback, NoKill
<1> QED
  BY <1>1, <1>2, <1>3 DEF BeginRollback, Record

LEMMA EndRestoredKeeps ==
    ASSUME Sound, At("restoring"), Record("restored", Goto("result")), NoKill, UNCHANGED appVars
    PROVE  Sound'
<1>1. CASE disk.journal /\ disk' = [disk EXCEPT !.phase = "restored"] /\ Goto("result")
  <2>1. Wrote("restored", disk.result)
    BY <1>1, RecordDoes DEF Sound, Phase, Unsettled
  <2>2. Went("result", helper.at, helper.intact)
    BY <1>1, GotoDoes, Plan DEF Sound, Step
  <2>10. Types'
    BY <1>1, <2>1, <2>2 DEF Sound, Types, Wrote, Went, NoKill, appVars
  <2>11. Held' /\ Moved' /\ SameFiles
    BY <1>1, <2>1, <2>2, FilesStay DEF Sound, Wrote
  <2>12. Untouched'
    BY <1>1, <2>1, <2>2, <2>11 DEF Untouched
  <2>13. Removal'
    BY <1>1, <2>1, <2>2, <2>11 DEF Removal
  <2>14. Recorded'
    BY <1>1, <2>1, <2>2, <2>11 DEF Sound, Went, At, Recorded, appVars
  <2>15. Alone'
    BY <1>1, <2>1, <2>2, <2>11 DEF Sound, Went, At, Amid, Working, Alone, appVars
  <2>16. Progress'
    BY <1>1, <2>1, <2>2, <2>11 DEF Went, At, Progress
  <2>17. Answer'
    BY <1>1, <2>1, <2>2, <2>11 DEF Sound, At, Before, Answer, NoKill, appVars
  <2>18. Truth'
    BY <1>1, <2>1, <2>2, <2>11 DEF Sound, Went, At, SameFiles, Truth, Progress
  <2> QED
    BY <2>10, <2>11, <2>12, <2>13, <2>14, <2>15, <2>16, <2>17, <2>18 DEF Sound
<1>2. CASE disk.journal /\ Throw
  BY <1>2, RequireKeeps DEF At, Working, Throw, NoKill
<1>3. CASE ~disk.journal /\ NoChange /\ Exit
  BY <1>3, LeaveKeeps DEF NoKill
<1> QED
  BY <1>1, <1>2, <1>3 DEF Record

LEMMA EndIncompleteKeeps ==
    ASSUME Sound, At("incomplete"), Record("recovery-required", Goto("result")), NoKill, UNCHANGED appVars
    PROVE  Sound'
<1>1. CASE disk.journal /\ disk' = [disk EXCEPT !.phase = "recovery-required"] /\ Goto("result")
  <2>1. Wrote("recovery-required", disk.result)
    BY <1>1, RecordDoes DEF Sound, Phase, Unsettled
  <2>2. Went("result", helper.at, helper.intact)
    BY <1>1, GotoDoes, Plan DEF Sound, Step
  <2>10. Types'
    BY <1>1, <2>1, <2>2 DEF Sound, Types, Wrote, Went, NoKill, appVars
  <2>11. Held' /\ Moved' /\ SameFiles
    BY <1>1, <2>1, <2>2, FilesStay DEF Sound, Wrote
  <2>12. Untouched'
    BY <1>1, <2>1, <2>2, <2>11 DEF Untouched
  <2>13. Removal'
    BY <1>1, <2>1, <2>2, <2>11 DEF Removal
  <2>14. Recorded'
    BY <1>1, <2>1, <2>2, <2>11 DEF Sound, Went, At, Recorded, appVars
  <2>15. Alone'
    BY <1>1, <2>1, <2>2, <2>11 DEF Sound, Went, At, Amid, Working, Alone, appVars
  <2>16. Progress'
    BY <1>1, <2>1, <2>2, <2>11 DEF Went, At, Progress
  <2>17. Answer'
    BY <1>1, <2>1, <2>2, <2>11 DEF Sound, At, Before, Answer, NoKill, appVars
  <2>18. Truth'
    BY <1>1, <2>1, <2>2, <2>11 DEF Sound, Went, At, Truth, Recorded
  <2> QED
    BY <2>10, <2>11, <2>12, <2>13, <2>14, <2>15, <2>16, <2>17, <2>18 DEF Sound
<1>2. CASE disk.journal /\ Throw
  BY <1>2, RequireKeeps DEF At, Working, Throw, NoKill
<1>3. CASE ~disk.journal /\ NoChange /\ Exit
  BY <1>3, LeaveKeeps DEF NoKill
<1> QED
  BY <1>1, <1>2, <1>3 DEF Record

LEMMA ClaimKeeps ==
    ASSUME Sound, Claim
    PROVE  Sound'
<1>1. CASE disk.journal
  <2>1. Wrote(disk.phase, disk.result)
    BY <1>1 DEF Sound, Types, Disk, Claim, Wrote, Files
  <2>2. Went("waiting", helper.at, helper.intact)
    BY <1>1, GotoDoes DEF Sound, Claim, Step, Before
  <2>10. Types'
    BY <1>1, <2>1, <2>2 DEF Sound, Types, Wrote, Went, NoKill, appVars, Claim
  <2>11. Held' /\ Moved' /\ SameFiles
    BY <1>1, <2>1, <2>2, FilesStay DEF Sound, Wrote
  <2>12. Untouched'
    BY <1>1, <2>1, <2>2, <2>11 DEF Sound, Wrote, Went, Before, SameFiles, Untouched
  <2>13. Removal'
    BY <1>1, <2>1, <2>2, <2>11 DEF Wrote, Files, Removal
  <2>14. Recorded'
    BY <1>1, <2>1, <2>2, <2>11 DEF Sound, Wrote, Went, At, Recorded, appVars, Claim
  <2>15. Alone'
    BY <1>1, <2>1, <2>2, <2>11
        DEF Sound, Wrote, Went, Done, Amid, Working, SameFiles, Alone, NoKill, appVars, Claim
  <2>16. Progress'
    BY <1>1, <2>1, <2>2, <2>11 DEF Went, At, Progress
  <2>17. Answer'
    BY <1>1, <2>1, <2>2, <2>11
        DEF Sound, Wrote, Went, Before, SameFiles, Answer, NoKill, appVars, Claim
  <2>18. Truth'
    BY <1>1, <2>1, <2>2, <2>11 DEF Sound, Wrote, Went, At, SameFiles, Truth, NoKill, Claim
  <2> QED
    BY <2>10, <2>11, <2>12, <2>13, <2>14, <2>15, <2>16, <2>17, <2>18 DEF Sound
<1>2. CASE ~disk.journal
  BY <1>2, LeaveKeeps DEF Claim, NoKill
<1> QED
  BY <1>1, <1>2

LEMMA WaitForInstallToBeFreeKeeps ==
    ASSUME Sound, WaitForInstallToBeFree
    PROVE  Sound'
<1>1. CASE Goto("applying") /\ NoChange /\ ((UNCHANGED appVars /\ running = {}) \/ Gone(running))
  <2>1. Wrote(disk.phase, disk.result)
    BY <1>1, NothingDoes DEF Sound, NoChange
  <2>2. Went("applying", helper.at, helper.intact)
    BY <1>1, GotoDoes DEF Sound, Step
  <2>3. /\ running' = {} /\ shell' = "gone" /\ answering' = "no"
        /\ settling' = [b \in Build |-> "idle"]
    BY <1>1 DEF Sound, Types, Alone, Answer, Gone, appVars
  <2>10. Types'
    BY <1>1, <2>1, <2>2, <2>3 DEF Sound, Types, Wrote, Went, NoKill, WaitForInstallToBeFree
  <2>11. Held' /\ Moved' /\ SameFiles
    BY <1>1, <2>1, <2>2, <2>3, FilesStay DEF Sound, Wrote
  <2>12. Untouched'
    BY <1>1, <2>1, <2>2, <2>3, <2>11 DEF Sound, Wrote, Went, SameFiles, Untouched
  <2>13. Removal'
    BY <1>1, <2>1, <2>2, <2>3, <2>11
        DEF Sound, Wrote, Went, Done, Working, SameFiles, Removal, NoKill,
            WaitForInstallToBeFree
  <2>14. Recorded'
    BY <1>1, <2>1, <2>2, <2>3, <2>11
        DEF Sound, Wrote, Went, At, Recorded, WaitForInstallToBeFree
  <2>15. Alone'
    BY <1>1, <2>1, <2>2, <2>3, <2>11 DEF Alone
  <2>16. Progress'
    BY <1>1, <2>1, <2>2, <2>3, <2>11 DEF Went, At, Progress
  <2>17. Answer'
    BY <1>1, <2>1, <2>2, <2>3, <2>11
        DEF Sound, Wrote, Files, Answer, NoKill, WaitForInstallToBeFree
  <2>18. Truth'
    BY <1>1, <2>1, <2>2, <2>3, <2>11
        DEF Sound, Wrote, Went, At, SameFiles, Truth, NoKill, WaitForInstallToBeFree
  <2> QED
    BY <2>10, <2>11, <2>12, <2>13, <2>14, <2>15, <2>16, <2>17, <2>18 DEF Sound
<1>2. CASE disk.journal /\ disk' = [disk EXCEPT !.phase = "recovery-required", !.result = "recovery-required"] /\ Exit /\ UNCHANGED appVars
  BY <1>2, RequireKeeps DEF WaitForInstallToBeFree, At, NoKill
<1>3. CASE ~disk.journal /\ Exit /\ UNCHANGED disk /\ UNCHANGED appVars
  BY <1>3, LeaveKeeps DEF WaitForInstallToBeFree, NoKill, NoChange
<1> QED
  BY <1>1, <1>2, <1>3 DEF WaitForInstallToBeFree

LEMMA ClearAcknowledgementKeeps ==
    ASSUME Sound, ClearAcknowledgement
    PROVE  Sound'
<1>1. Wrote(disk.phase, disk.result)
  BY NothingDoes DEF Sound, ClearAcknowledgement, NoChange, Types, Disk, Wrote, Files
<1>2. Went("launching", helper.at, helper.intact)
  BY GotoDoes DEF Sound, ClearAcknowledgement, Step, Working
<1>10. Types'
  BY <1>1, <1>2 DEF Sound, Types, Wrote, Went, NoKill, appVars, ClearAcknowledgement
<1>11. Held' /\ Moved' /\ SameFiles
  BY <1>1, <1>2, FilesStay DEF Sound, Wrote
<1>12. Untouched'
  BY <1>1, <1>2, <1>11 DEF Sound, Wrote, Files, At, Before, Untouched, ClearAcknowledgement
<1>13. Removal'
  BY <1>1, <1>2, <1>11 DEF Sound, Wrote, Files, At, Working, Removal, ClearAcknowledgement
<1>14. Recorded'
  BY <1>1, <1>2, <1>11 DEF Sound, Wrote, Went, At, Recorded, appVars, ClearAcknowledgement
<1>15. Alone'
  BY <1>1, <1>2, <1>11
      DEF Sound, Wrote, Went, Files, At, Amid, Working, Alone, appVars, ClearAcknowledgement
<1>16. Progress'
  BY <1>1, <1>2, <1>11 DEF Sound, Went, At, SameFiles, Progress, ClearAcknowledgement
<1>17. Answer'
  BY <1>1, <1>2, <1>11
      DEF Sound, Wrote, Files, At, Before, Answer, NoKill, appVars, ClearAcknowledgement
<1>18. Truth'
  BY <1>1, <1>2, <1>11 DEF Sound, Wrote, Went, At, Truth, Recorded, ClearAcknowledgement
<1> QED
  BY <1>10, <1>11, <1>12, <1>13, <1>14, <1>15, <1>16, <1>17, <1>18 DEF Sound

LEMMA StartCandidateKeeps ==
    ASSUME Sound, StartCandidate
    PROVE  Sound'
<1>1. Wrote(disk.phase, disk.result)
  BY NothingDoes DEF Sound, StartCandidate, NoChange
<1>2. Went(helper'.step, helper.at, helper.intact) /\ helper'.step \in {"watching", "unstarted"}
  BY GotoDoes DEF Sound, Went, StartCandidate, Step, Working
<1>3. Startable \in Build /\ (AllNew => Startable = "new")
  BY WholeByOperation DEF Startable, Build
<1>4. /\ answering = "no" /\ answering' \in {"no", "asked"}
      /\ answering' # "no" => "new" \in running' /\ helper'.step = "watching" /\ AllNew
  BY <1>2, <1>3
      DEF Sound, Types, Helper, StartCandidate, Starts, Answer, Progress, At, Goto, Before
<1>10. Types'
  BY <1>1, <1>2, <1>3, <1>4 DEF Sound, Types, Wrote, Went, NoKill, StartCandidate, Starts
<1>11. Held' /\ Moved' /\ SameFiles
  BY <1>1, <1>2, <1>3, <1>4, FilesStay DEF Sound, Wrote
<1>12. Untouched'
  BY <1>1, <1>2, <1>3, <1>4, <1>11
      DEF Sound, Wrote, Files, At, Before, Untouched, StartCandidate
<1>13. Removal'
  BY <1>1, <1>2, <1>3, <1>4, <1>11
      DEF Sound, Wrote, Files, At, Working, Removal, StartCandidate
<1>14. Recorded'
  BY <1>1, <1>2, <1>3, <1>4, <1>11 DEF Sound, Wrote, At, Recorded, StartCandidate
<1>15. Alone'
  BY <1>1, <1>2, <1>3, <1>4, <1>11
      DEF Sound, Wrote, Files, At, Amid, Working, Alone, Recorded, StartCandidate, Starts,
          Types
<1>16. Progress'
  BY <1>1, <1>2, <1>3, <1>4, <1>11 DEF Sound, At, SameFiles, Progress, StartCandidate
<1>17. Answer'
  BY <1>1, <1>2, <1>3, <1>4, <1>11
      DEF Sound, Wrote, SameFiles, Answer, NoKill, StartCandidate
<1>18. Truth'
  BY <1>1, <1>2, <1>3, <1>4, <1>11 DEF Sound, Wrote, At, Truth, Recorded, StartCandidate
<1> QED
  BY <1>10, <1>11, <1>12, <1>13, <1>14, <1>15, <1>16, <1>17, <1>18 DEF Sound

LEMMA WaitForStartupKeeps ==
    ASSUME Sound, WaitForStartup
    PROVE  Sound'
<1>1. Wrote(disk.phase, disk.result)
  BY NothingDoes DEF Sound, WaitForStartup, NoChange
<1>2. Went(IF disk.ack THEN "committing" ELSE IF At("watching") THEN "stopping" ELSE "rolling",
          helper.at, helper.intact)
  BY GotoDoes DEF Sound, WaitForStartup, Step, Working
<1>10. Types'
  BY <1>1, <1>2 DEF Sound, Types, Wrote, Went, NoKill, appVars, WaitForStartup
<1>11. Held' /\ Moved' /\ SameFiles
  BY <1>1, <1>2, FilesStay DEF Sound, Wrote
<1>12. Untouched'
  BY <1>1, <1>2, <1>11 DEF Sound, Wrote, Files, Before, Untouched, WaitForStartup
<1>13. Removal'
  BY <1>1, <1>2, <1>11 DEF Sound, Wrote, Files, Working, Removal, WaitForStartup
<1>14. Recorded'
  BY <1>1, <1>2, <1>11 DEF Sound, Wrote, Went, At, Recorded, appVars, WaitForStartup
<1>15. Alone'
  BY <1>1, <1>2, <1>11
      DEF Sound, Wrote, Went, Files, Amid, Working, Alone, appVars, WaitForStartup
<1>16. Progress'
  BY <1>1, <1>2, <1>11 DEF Sound, Went, At, SameFiles, Progress, WaitForStartup
<1>17. Answer'
  BY <1>1, <1>2, <1>11
      DEF Sound, Wrote, Went, At, Before, SameFiles, Answer, NoKill, appVars, WaitForStartup
<1>18. Truth'
  BY <1>1, <1>2, <1>11
      DEF Sound, Wrote, Went, At, SameFiles, Truth, Answer, NoKill, WaitForStartup
<1> QED
  BY <1>10, <1>11, <1>12, <1>13, <1>14, <1>15, <1>16, <1>17, <1>18 DEF Sound

LEMMA StopInstallProcessesKeeps ==
    ASSUME Sound, StopInstallProcesses
    PROVE  Sound'
<1>1. Wrote(disk.phase, disk.result)
  BY NothingDoes DEF Sound, StopInstallProcesses, NoChange
<1>2. Went("rolling", helper.at, helper.intact)
  BY GotoDoes DEF Sound, StopInstallProcesses, Step, Working
<1>10. Types'
  BY <1>1, <1>2 DEF Sound, Types, Wrote, Went, NoKill, StopInstallProcesses, Gone
<1>11. Held' /\ Moved' /\ SameFiles
  BY <1>1, <1>2, FilesStay DEF Sound, Wrote
<1>12. Untouched'
  BY <1>1, <1>2, <1>11 DEF Sound, Wrote, Files, At, Before, Untouched, StopInstallProcesses
<1>13. Removal'
  BY <1>1, <1>2, <1>11 DEF Sound, Wrote, Files, At, Working, Removal, StopInstallProcesses
<1>14. Recorded'
  BY <1>1, <1>2, <1>11 DEF Sound, Wrote, Went, At, Recorded, StopInstallProcesses, Gone
<1>15. Alone'
  BY <1>1, <1>2, <1>11 DEF Sound, Alone, StopInstallProcesses, Gone
<1>16. Progress'
  BY <1>1, <1>2, <1>11 DEF Went, At, Progress
<1>17. Answer'
  BY <1>1, <1>2, <1>11 DEF Sound, Wrote, Files, Answer, NoKill, StopInstallProcesses, Gone
<1>18. Truth'
  BY <1>1, <1>2, <1>11 DEF Sound, Wrote, Went, At, Truth, Recorded, StopInstallProcesses
<1> QED
  BY <1>10, <1>11, <1>12, <1>13, <1>14, <1>15, <1>16, <1>17, <1>18 DEF Sound

LEMMA RestoreReceiptKeeps ==
    ASSUME Sound, RestoreReceipt
    PROVE  Sound'
<1>1. /\ disk' \in Disk /\ UNCHANGED Files /\ disk'.receipt \in {"old", "none"}
      /\ disk'.phase = disk.phase /\ disk'.result = disk.result
      /\ disk'.ack = disk.ack /\ disk'.pointer = disk.pointer
  BY DEF Sound, Types, Disk, RestoreReceipt, Files
<1>2. Went("restoring", helper.at, helper.intact)
  BY GotoDoes DEF Sound, RestoreReceipt, Step, Working
<1>10. Types'
  BY <1>1, <1>2 DEF Sound, Types, Went, NoKill, appVars, RestoreReceipt
<1>11. Held' /\ Moved' /\ SameFiles
  BY <1>1, <1>2, FilesStay DEF Sound, Wrote
<1>12. Untouched'
  BY <1>1, <1>2, <1>11 DEF Sound, At, Before, Untouched, RestoreReceipt
<1>13. Removal'
  BY <1>1, <1>2, <1>11 DEF Sound, At, Working, Removal, RestoreReceipt
<1>14. Recorded'
  BY <1>1, <1>2, <1>11 DEF Sound, Went, At, Recorded, appVars, RestoreReceipt
<1>15. Alone'
  BY <1>1, <1>2, <1>11 DEF Sound, Went, At, Amid, Working, Alone, appVars, RestoreReceipt
<1>16. Progress'
  BY <1>1, <1>2, <1>11 DEF Sound, Went, At, SameFiles, Progress, RestoreReceipt
<1>17. Answer'
  BY <1>1, <1>2, <1>11, Plan, WholeByOperation
      DEF Sound, At, Answer, Progress, NoKill, appVars, RestoreReceipt
<1>18. Truth'
  BY <1>1, <1>2, <1>11 DEF Sound, Went, At, Truth, Recorded, RestoreReceipt
<1> QED
  BY <1>10, <1>11, <1>12, <1>13, <1>14, <1>15, <1>16, <1>17, <1>18 DEF Sound

LEMMA WriteResultKeeps ==
    ASSUME Sound, WriteResult
    PROVE  Sound'
<1>1. CASE /\ disk.journal /\ disk' = [disk EXCEPT !.result = disk.phase]
         /\ IF disk.phase = "restored" THEN Goto("relaunch") ELSE Exit
  <2>1. Wrote(disk.phase, disk.phase)
    BY <1>1 DEF Sound, Types, Disk, Wrote, Files
  <2>2. helper' \in Helper /\ helper'.step = IF disk.phase = "restored" THEN "relaunch" ELSE "idle"
    BY <1>1, GotoDoes, ExitDoes DEF Sound, Went, Step
  <2>10. Types'
    BY <1>1, <2>1, <2>2 DEF Sound, Types, Wrote, NoKill, appVars, WriteResult
  <2>11. Held' /\ Moved' /\ SameFiles
    BY <1>1, <2>1, <2>2, FilesStay DEF Sound, Wrote
  <2>12. Untouched'
    BY <1>1, <2>1, <2>2, <2>11 DEF Sound, Before, SameFiles, Untouched
  <2>13. Removal'
    BY <1>1, <2>1, <2>2, <2>11 DEF Removal
  <2>14. Recorded'
    BY <1>1, <2>1, <2>2, <2>11 DEF Sound, At, Recorded, appVars, WriteResult
  <2>15. Alone'
    BY <1>1, <2>1, <2>2, <2>11
        DEF Sound, Done, Amid, Working, SameFiles, Alone, NoKill, appVars, WriteResult
  <2>16. Progress'
    BY <1>1, <2>1, <2>2, <2>11 DEF At, Progress
  <2>17. Answer'
    BY <1>1, <2>1, <2>2, <2>11
        DEF Sound, Before, SameFiles, Answer, NoKill, appVars, WriteResult
  <2>18. Truth'
    BY <1>1, <2>1, <2>2, <2>11 DEF Sound, At, SameFiles, Truth, NoKill, WriteResult
  <2> QED
    BY <2>10, <2>11, <2>12, <2>13, <2>14, <2>15, <2>16, <2>17, <2>18 DEF Sound
<1>2. CASE disk.journal /\ Throw
  BY <1>2, RequireKeeps DEF WriteResult, At, Throw, NoKill
<1>3. CASE ~disk.journal /\ NoChange /\ Exit
  BY <1>3, LeaveKeeps DEF WriteResult, NoKill
<1> QED
  BY <1>1, <1>2, <1>3 DEF WriteResult

LEMMA StartRestoredKeeps ==
    ASSUME Sound, StartRestored
    PROVE  Sound'
<1>1. Wrote(disk.phase, disk.result)
  BY NothingDoes DEF Sound, StartRestored, NoChange
<1>2. Went("idle", 0, TRUE)
  BY ExitDoes DEF StartRestored
<1>3. Startable \in Build /\ (AllNew => Startable = "new")
  BY WholeByOperation DEF Startable, Build
<1>10. Types'
  BY <1>1, <1>2, <1>3 DEF Sound, Types, Wrote, Went, NoKill, StartRestored, Starts
<1>11. Held' /\ Moved' /\ SameFiles
  BY <1>1, <1>2, <1>3, FilesStay DEF Sound, Wrote
<1>12. Untouched'
  BY <1>1, <1>2, <1>3, <1>11 DEF Sound, Wrote, Went, Before, SameFiles, Untouched
<1>13. Removal'
  BY <1>1, <1>2, <1>3, <1>11
      DEF Sound, Wrote, Went, Done, Working, SameFiles, Removal, NoKill, StartRestored
<1>14. Recorded'
  BY <1>1, <1>2, <1>3, <1>11 DEF Sound, Went, At, Recorded, StartRestored
<1>15. Alone'
  BY <1>1, <1>2, <1>3, <1>11
      DEF Sound, Wrote, Went, At, Done, Amid, Working, SameFiles, Alone, Recorded, NoKill,
          StartRestored, Starts, Types
<1>16. Progress'
  BY <1>1, <1>2, <1>3, <1>11 DEF Went, At, Progress
<1>17. Answer'
  BY <1>1, <1>2, <1>3, <1>11
      DEF Sound, Wrote, Went, Before, SameFiles, Answer, NoKill, StartRestored, Starts
<1>18. Truth'
  BY <1>1, <1>2, <1>3, <1>11
      DEF Sound, Wrote, Went, At, SameFiles, Truth, NoKill, StartRestored
<1> QED
  BY <1>10, <1>11, <1>12, <1>13, <1>14, <1>15, <1>16, <1>17, <1>18 DEF Sound

LEMMA StartHelperKeeps ==
    ASSUME Sound, StartHelper
    PROVE  Sound'
<1>1. /\ disk' \in Disk /\ UNCHANGED Files /\ disk'.receipt = disk.receipt
      /\ disk'.phase = disk.phase /\ disk'.result = disk.result /\ disk'.ack = disk.ack
  BY DEF Sound, Types, Disk, StartHelper, Files
<1>2. helper' \in Helper /\ helper'.step \in {"idle", "start"} /\ At("idle")
  BY SpawnDoes DEF Sound, Types, Recorded, StartHelper, ShellStep, Went, At
<1>10. Types'
  BY <1>1, <1>2 DEF Sound, Types, Wrote, Went, NoKill, appVars, StartHelper, ShellStep
<1>11. Held' /\ Moved' /\ SameFiles
  BY <1>1, <1>2, FilesStay DEF Sound, Wrote
<1>12. Untouched'
  BY <1>1, <1>2, <1>11 DEF Sound, Before, SameFiles, Untouched
<1>13. Removal'
  BY <1>1, <1>2, <1>11 DEF Sound, Done, Working, SameFiles, Removal, NoKill, StartHelper
<1>14. Recorded'
  BY <1>1, <1>2, <1>11
      DEF Sound, Wrote, Went, Files, At, op, Done, Amid, Working, Before, SameFiles,
          Recorded, Removal, Untouched, NoKill, appVars, StartHelper, ShellStep
<1>15. Alone'
  BY <1>1, <1>2, <1>11
      DEF Sound, Wrote, Went, Files, At, op, Done, Amid, Working, Before, SameFiles, Alone,
          Recorded, Removal, Truth, Untouched, NoKill, appVars, StartHelper, ShellStep
<1>16. Progress'
  BY <1>1, <1>2, <1>11 DEF At, Progress
<1>17. Answer'
  BY <1>1, <1>2, <1>11
      DEF Sound, Wrote, Went, Files, At, op, Done, Amid, Working, Before, SameFiles, Answer,
          Recorded, Progress, Removal, Alone, NoKill, appVars, StartHelper, ShellStep
<1>18. Truth'
  BY <1>1, <1>2, <1>11 DEF Sound, At, SameFiles, Truth, NoKill, StartHelper
<1> QED
  BY <1>10, <1>11, <1>12, <1>13, <1>14, <1>15, <1>16, <1>17, <1>18 DEF Sound

LEMMA AwaitClaimKeeps ==
    ASSUME Sound, AwaitClaim
    PROVE  Sound'
<1>1. Wrote(disk.phase, disk.result)
  BY NothingDoes DEF Sound, AwaitClaim, NoChange
<1>2. Went(helper.step, helper.at, helper.intact)
  BY StandDoes DEF Sound, AwaitClaim
<1>10. Types'
  BY <1>1, <1>2 DEF Sound, Types, Wrote, NoKill, AwaitClaim, ShellStep
<1>11. Held' /\ Moved' /\ SameFiles
  BY <1>1, <1>2, FilesStay DEF Sound, Wrote
<1>12. Untouched'
  BY <1>1, <1>2, <1>11 DEF Sound, Wrote, Went, SameFiles, Untouched
<1>13. Removal'
  BY <1>1, <1>2, <1>11 DEF Sound, Wrote, Done, SameFiles, Removal, NoKill, AwaitClaim
<1>14. Recorded'
  BY <1>1, <1>2, <1>11 DEF Sound, Wrote, At, Recorded, AwaitClaim, ShellStep
<1>15. Alone'
  BY <1>1, <1>2, <1>11
      DEF Sound, Wrote, Done, Amid, SameFiles, Alone, NoKill, AwaitClaim, ShellStep
<1>16. Progress'
  BY <1>1, <1>2, <1>11 DEF Sound, Went, At, op, SameFiles, Progress
<1>17. Answer'
  BY <1>1, <1>2, <1>11 DEF Sound, Wrote, SameFiles, Answer, NoKill, AwaitClaim, ShellStep
<1>18. Truth'
  BY <1>1, <1>2, <1>11 DEF Sound, Wrote, At, SameFiles, Truth, NoKill, AwaitClaim
<1> QED
  BY <1>10, <1>11, <1>12, <1>13, <1>14, <1>15, <1>16, <1>17, <1>18 DEF Sound

LEMMA PromoteReceiptKeeps ==
    ASSUME Sound, PromoteReceipt
    PROVE  Sound'
<1>1. /\ disk' \in Disk /\ UNCHANGED Files /\ (disk'.receipt = disk.receipt \/ disk'.receipt = "new")
      /\ disk'.phase = disk.phase /\ disk'.result = disk.result
      /\ disk'.ack = disk.ack /\ disk'.pointer = disk.pointer
      /\ answering' = "promoted" => disk'.receipt = "new"
  BY DEF Sound, Types, Disk, PromoteReceipt, Files
<1>2. Went(helper.step, helper.at, helper.intact)
  BY StandDoes DEF Sound, PromoteReceipt
<1>10. Types'
  BY <1>1, <1>2 DEF Sound, Types, PromoteReceipt
<1>11. Held' /\ Moved' /\ SameFiles
  BY <1>1, <1>2, FilesStay DEF Sound, Wrote
<1>12. Untouched'
  BY <1>1, <1>2, <1>11 DEF Sound, Went, SameFiles, Untouched
<1>13. Removal'
  BY <1>1, <1>2, <1>11 DEF Sound, Done, SameFiles, Removal, PromoteReceipt
<1>14. Recorded'
  BY <1>1, <1>2, <1>11 DEF Sound, At, Recorded, PromoteReceipt
<1>15. Alone'
  BY <1>1, <1>2, <1>11 DEF Sound, Done, Amid, SameFiles, Alone, PromoteReceipt
<1>16. Progress'
  BY <1>1, <1>2, <1>11 DEF Sound, Went, At, op, SameFiles, Progress
<1>17. Answer'
  BY <1>1, <1>2, <1>11 DEF Sound, SameFiles, Answer, PromoteReceipt
<1>18. Truth'
  BY <1>1, <1>2, <1>11, Plan, WholeByOperation
      DEF Sound, At, Before, SameFiles, Truth, Answer, PromoteReceipt
<1> QED
  BY <1>10, <1>11, <1>12, <1>13, <1>14, <1>15, <1>16, <1>17, <1>18 DEF Sound

LEMMA AcknowledgeKeeps ==
    ASSUME Sound, Acknowledge
    PROVE  Sound'
<1>1. /\ disk' \in Disk /\ UNCHANGED Files /\ disk'.receipt = disk.receipt
      /\ disk'.phase = disk.phase /\ disk'.result = disk.result /\ disk'.pointer = disk.pointer
  BY DEF Sound, Types, Disk, Acknowledge, Files
<1>2. Went(helper.step, helper.at, helper.intact)
  BY StandDoes DEF Sound, Acknowledge
<1>3. disk.payload = {}
  BY WholeByOperation, Plan DEF Sound, Types, Disk, Answer, Moved, Acknowledge, Made
<1>10. Types'
  BY <1>1, <1>2, <1>3 DEF Sound, Types, Acknowledge
<1>11. Held' /\ Moved' /\ SameFiles
  BY <1>1, <1>2, <1>3, FilesStay DEF Sound, Wrote
<1>12. Untouched'
  BY <1>1, <1>2, <1>3, <1>11 DEF Sound, Went, SameFiles, Untouched
<1>13. Removal'
  BY <1>1, <1>2, <1>3, <1>11 DEF Sound, Done, SameFiles, Removal, Acknowledge
<1>14. Recorded'
  BY <1>1, <1>2, <1>3, <1>11 DEF Sound, At, Recorded, Acknowledge
<1>15. Alone'
  BY <1>1, <1>2, <1>3, <1>11 DEF Sound, Done, Amid, SameFiles, Alone, Acknowledge
<1>16. Progress'
  BY <1>1, <1>2, <1>3, <1>11 DEF Sound, Went, At, op, SameFiles, Progress
<1>17. Answer'
  BY <1>1, <1>2, <1>3, <1>11, Plan, WholeByOperation DEF Sound, Answer, Acknowledge
<1>18. Truth'
  BY <1>1, <1>2, <1>3, <1>11 DEF Sound, At, SameFiles, Truth, Acknowledge
<1> QED
  BY <1>10, <1>11, <1>12, <1>13, <1>14, <1>15, <1>16, <1>17, <1>18 DEF Sound

LEMMA SettleReadKeeps ==
    ASSUME Sound, NEW b \in Build, SettleRead(b)
    PROVE  Sound'
<1>1. Wrote(disk.phase, disk.result)
  BY NothingDoes DEF Sound, SettleRead, NoChange
<1>4. disk.phase \in Phase /\ b \in Build /\ settling \in [Build -> {"idle", "reading", "removing", "clearing"}]
  BY DEF Sound, Types, Disk
<1>2. CASE UNCHANGED helper
  <2>1. Went(helper.step, helper.at, helper.intact)
    BY <1>2, StandDoes DEF Sound
  <2>10. Types'
    BY <1>1, <1>2, <2>1 DEF Sound, Types, Wrote, NoKill, SettleRead, SettleStep
  <2>11. Held' /\ Moved' /\ SameFiles
    BY <1>1, <1>2, <2>1, FilesStay DEF Sound, Wrote
  <2>12. Untouched'
    BY <1>1, <1>2, <2>1, <2>11 DEF Sound, Wrote, SameFiles, Untouched
  <2>13. Removal'
    BY <1>1, <1>2, <2>1, <2>11 DEF Sound, Wrote, Done, SameFiles, Removal, NoKill, SettleRead
  <2>14. Recorded'
    BY <1>1, <1>2, <2>1, <2>11 DEF Sound, Wrote, At, Recorded, SettleRead, SettleStep
  <2>15. Alone'
    BY <1>1, <1>2, <2>1, <2>11, <1>4
        DEF Sound, Wrote, At, Done, Amid, Working, SameFiles, Alone, Recorded, Truth,
            Untouched, NoKill, SettleRead, SettleStep, IsSettled, Phase
  <2>16. Progress'
    BY <1>1, <1>2, <2>1, <2>11 DEF Sound, At, op, SameFiles, Progress
  <2>17. Answer'
    BY <1>1, <1>2, <2>1, <2>11
        DEF Sound, Wrote, SameFiles, Answer, NoKill, SettleRead, SettleStep
  <2>18. Truth'
    BY <1>1, <1>2, <2>1, <2>11 DEF Sound, Wrote, At, SameFiles, Truth, NoKill, SettleRead
  <2> QED
    BY <2>10, <2>11, <2>12, <2>13, <2>14, <2>15, <2>16, <2>17, <2>18 DEF Sound
<1>3. CASE Spawn(TRUE) /\ disk.journal /\ ~IsSettled /\ disk.pointer
  <2>1. At("idle") /\ Went("start", 0, TRUE)
    BY <1>3, SpawnDoes
  <2>10. Types'
    BY <1>1, <1>3, <2>1 DEF Sound, Types, Wrote, Went, NoKill, SettleRead, SettleStep
  <2>11. Held' /\ Moved' /\ SameFiles
    BY <1>1, <1>3, <2>1, FilesStay DEF Sound, Wrote
  <2>12. Untouched'
    BY <1>1, <1>3, <2>1, <2>11 DEF Sound, Wrote, Went, Before, SameFiles, Untouched
  <2>13. Removal'
    BY <1>1, <1>3, <2>1, <2>11 DEF Wrote, Files, Removal
  <2>14. Recorded'
    BY <1>1, <1>3, <2>1, <2>11
        DEF Sound, Wrote, Went, At, Recorded, SettleRead, SettleStep, IsSettled, Unsettled
  <2>15. Alone'
    BY <1>1, <1>3, <2>1, <2>11, <1>4
        DEF Sound, Wrote, Went, Done, Amid, Working, SameFiles, Alone, NoKill, SettleRead,
            SettleStep
  <2>16. Progress'
    BY <1>1, <1>3, <2>1, <2>11 DEF Went, At, Progress
  <2>17. Answer'
    BY <1>1, <1>3, <2>1, <2>11
        DEF Sound, Wrote, Went, Before, SameFiles, Answer, NoKill, SettleRead, SettleStep
  <2>18. Truth'
    BY <1>1, <1>3, <2>1, <2>11
        DEF Sound, Wrote, Went, At, SameFiles, Truth, NoKill, SettleRead
  <2> QED
    BY <2>10, <2>11, <2>12, <2>13, <2>14, <2>15, <2>16, <2>17, <2>18 DEF Sound
<1> QED
  BY <1>2, <1>3 DEF SettleRead, HandBack

LEMMA QuitKeeps ==
    ASSUME Sound, NEW b \in Build, Quit(b)
    PROVE  Sound'
<1>1. Wrote(disk.phase, disk.result)
  BY NothingDoes DEF Sound, Quit, NoChange
<1>2. Went(helper.step, helper.at, helper.intact)
  BY StandDoes DEF Sound, Quit
<1>10. Types'
  BY <1>1, <1>2 DEF Sound, Types, Wrote, NoKill, Quit, Gone
<1>11. Held' /\ Moved' /\ SameFiles
  BY <1>1, <1>2, FilesStay DEF Sound, Wrote
<1>12. Untouched'
  BY <1>1, <1>2, <1>11 DEF Sound, Wrote, Went, SameFiles, Untouched
<1>13. Removal'
  BY <1>1, <1>2, <1>11 DEF Sound, Wrote, Done, SameFiles, Removal, NoKill, Quit
<1>14. Recorded'
  BY <1>1, <1>2, <1>11 DEF Sound, Wrote, At, Recorded, Quit, Gone
<1>15. Alone'
  BY <1>1, <1>2, <1>11 DEF Sound, Wrote, Done, Amid, SameFiles, Alone, NoKill, Quit, Gone
<1>16. Progress'
  BY <1>1, <1>2, <1>11 DEF Sound, Went, At, op, SameFiles, Progress
<1>17. Answer'
  BY <1>1, <1>2, <1>11 DEF Sound, Wrote, SameFiles, Answer, NoKill, Quit, Gone
<1>18. Truth'
  BY <1>1, <1>2, <1>11 DEF Sound, Wrote, At, SameFiles, Truth, NoKill, Quit
<1> QED
  BY <1>10, <1>11, <1>12, <1>13, <1>14, <1>15, <1>16, <1>17, <1>18 DEF Sound

LEMMA LaunchKeeps ==
    ASSUME Sound, Launch
    PROVE  Sound'
<1>1. Wrote(disk.phase, disk.result)
  BY NothingDoes DEF Sound, Launch, NoChange
<1>2. Went(helper.step, helper.at, helper.intact)
  BY StandDoes DEF Sound, Launch
<1>3. Startable \in Build /\ (AllNew => Startable = "new")
  BY WholeByOperation DEF Startable, Build
<1>10. Types'
  BY <1>1, <1>2, <1>3 DEF Sound, Types, Wrote, NoKill, Launch, Starts
<1>11. Held' /\ Moved' /\ SameFiles
  BY <1>1, <1>2, <1>3, FilesStay DEF Sound, Wrote
<1>12. Untouched'
  BY <1>1, <1>2, <1>3, <1>11 DEF Sound, Wrote, Went, SameFiles, Untouched
<1>13. Removal'
  BY <1>1, <1>2, <1>3, <1>11 DEF Sound, Wrote, Done, SameFiles, Removal, NoKill, Launch
<1>14. Recorded'
  BY <1>1, <1>2, <1>3, <1>11 DEF Sound, Wrote, At, Recorded, Launch
<1>15. Alone'
  <2>1. /\ running = {} /\ shell = "gone" /\ shell' = shell /\ (Amid' <=> Amid)
        /\ disk' = disk /\ helper' = helper /\ (Done' <=> Done)
        /\ \A b \in Build : settling[b] = "idle"
    BY <1>1, <1>2, <1>11 DEF Sound, Amid, Alone, Done, SameFiles, Launch, NoChange, NoKill
  <2>2. CASE (Amid => SettlesAmid) /\ Starts(Startable)
    BY <1>3, <2>1, <2>2 DEF Sound, Types, Alone, Starts
  <2>3. CASE running' = {Startable} /\ UNCHANGED settling
    BY <1>3, <2>1, <2>3 DEF Alone
  <2> QED
    BY <2>2, <2>3 DEF Launch
<1>16. Progress'
  BY <1>1, <1>2, <1>3, <1>11 DEF Sound, Went, At, op, SameFiles, Progress
<1>17. Answer'
  BY <1>1, <1>2, <1>3, <1>11 DEF Sound, Wrote, Files, Answer, NoKill, Launch
<1>18. Truth'
  BY <1>1, <1>2, <1>3, <1>11 DEF Sound, Wrote, At, SameFiles, Truth, NoKill, Launch
<1> QED
  BY <1>10, <1>11, <1>12, <1>13, <1>14, <1>15, <1>16, <1>17, <1>18 DEF Sound

LEMMA RecoverByHandKeeps ==
    ASSUME Sound, RecoverByHand
    PROVE  Sound'
<1>1. Wrote(disk.phase, disk.result)
  BY NothingDoes DEF Sound, RecoverByHand, NoChange
<1>2. At("idle") /\ Went("start", 0, TRUE)
  BY SpawnDoes DEF Sound, RecoverByHand, Step, Working, Before, At
<1>10. Types'
  BY <1>1, <1>2 DEF Sound, Types, Wrote, Went, NoKill, appVars, RecoverByHand
<1>11. Held' /\ Moved' /\ SameFiles
  BY <1>1, <1>2, FilesStay DEF Sound, Wrote
<1>12. Untouched'
  BY <1>1, <1>2, <1>11 DEF Sound, Wrote, Went, Before, SameFiles, Untouched
<1>13. Removal'
  BY <1>1, <1>2, <1>11 DEF Wrote, Files, Removal, RecoverByHand
<1>14. Recorded'
  BY <1>1, <1>2, <1>11
      DEF Sound, Wrote, Went, At, Amid, Recorded, appVars, RecoverByHand, Whole, Truth
<1>15. Alone'
  BY <1>1, <1>2, <1>11
      DEF Sound, Wrote, Went, Done, Amid, Working, SameFiles, Alone, NoKill, appVars,
          RecoverByHand
<1>16. Progress'
  BY <1>1, <1>2, <1>11 DEF Went, At, Progress
<1>17. Answer'
  BY <1>1, <1>2, <1>11
      DEF Sound, Wrote, Went, Before, SameFiles, Answer, NoKill, appVars, RecoverByHand
<1>18. Truth'
  BY <1>1, <1>2, <1>11 DEF Sound, Wrote, Went, At, SameFiles, Truth, NoKill, RecoverByHand
<1> QED
  BY <1>10, <1>11, <1>12, <1>13, <1>14, <1>15, <1>16, <1>17, <1>18 DEF Sound

LEMMA SettleClearKeeps ==
    ASSUME Sound, NEW b \in Build, SettleStep(b, "clearing", "idle"),
           disk' = [disk EXCEPT !.pointer = FALSE], NoKill, UNCHANGED helper
    PROVE  Sound'
<1>1. Wrote(disk.phase, disk.result)
  BY DEF Sound, Types, Disk, Wrote, Files
<1>2. Went(helper.step, helper.at, helper.intact)
  BY StandDoes DEF Sound
<1>10. Types'
  BY <1>1, <1>2 DEF Sound, Types, Wrote, SettleStep, NoKill
<1>11. Held' /\ Moved' /\ SameFiles
  BY <1>1, <1>2, FilesStay DEF Sound, Wrote
<1>12. Untouched'
  BY <1>1, <1>2, <1>11 DEF Sound, SameFiles, Untouched
<1>13. Removal'
  BY <1>1, <1>2, <1>11 DEF Sound, Done, SameFiles, Removal, NoKill
<1>14. Recorded'
  BY <1>1, <1>2, <1>11 DEF Sound, At, Recorded, SettleStep
<1>15. Alone'
  BY <1>1, <1>2, <1>11 DEF Sound, Done, Amid, SameFiles, Alone, SettleStep, NoKill
<1>16. Progress'
  BY <1>1, <1>2, <1>11 DEF Sound, At, op, SameFiles, Progress
<1>17. Answer'
  BY <1>1, <1>2, <1>11 DEF Sound, SameFiles, Answer, SettleStep, NoKill
<1>18. Truth'
  BY <1>1, <1>2, <1>11 DEF Sound, At, SameFiles, Truth, NoKill
<1> QED
  BY <1>10, <1>11, <1>12, <1>13, <1>14, <1>15, <1>16, <1>17, <1>18 DEF Sound

LEMMA ForgetKeeps ==
    ASSUME Sound, ShellStep("forgetting", "over"),
           disk' = [disk EXCEPT !.pointer = FALSE, !.staged = FALSE, !.kept = FALSE],
           NoKill, UNCHANGED helper
    PROVE  Sound'
<1>1. Wrote(disk.phase, disk.result)
  BY DEF Sound, Types, Disk, Wrote, Files
<1>2. Went(helper.step, helper.at, helper.intact)
  BY StandDoes DEF Sound
<1>10. Types'
  BY <1>1, <1>2 DEF Sound, Types, Wrote, ShellStep, NoKill
<1>11. Held' /\ Moved' /\ SameFiles
  BY <1>1, <1>2, FilesStay DEF Sound, Wrote
<1>12. Untouched'
  BY <1>1, <1>2, <1>11 DEF Sound, SameFiles, Untouched
<1>13. Removal'
  BY <1>1, <1>2, <1>11 DEF Sound, Done, SameFiles, Removal, NoKill
<1>14. Recorded'
  BY <1>1, <1>2, <1>11 DEF Sound, At, Recorded, ShellStep
<1>15. Alone'
  BY <1>1, <1>2, <1>11 DEF Sound, Done, Amid, SameFiles, Alone, ShellStep, NoKill
<1>16. Progress'
  BY <1>1, <1>2, <1>11 DEF Sound, At, op, SameFiles, Progress
<1>17. Answer'
  BY <1>1, <1>2, <1>11 DEF Sound, SameFiles, Answer, ShellStep, NoKill
<1>18. Truth'
  BY <1>1, <1>2, <1>11 DEF Sound, At, SameFiles, Truth, NoKill
<1> QED
  BY <1>10, <1>11, <1>12, <1>13, <1>14, <1>15, <1>16, <1>17, <1>18 DEF Sound

LEMMA RemovedDoes ==
    ASSUME Types, disk' \in {Removed, [Removed EXCEPT !.ack = FALSE]}
    PROVE  /\ disk' \in Disk /\ disk'.tree = disk.tree /\ disk'.payload = {} /\ ~disk'.journal
           /\ disk'.phase = "prepared" /\ disk'.result = "none" /\ disk'.receipt = disk.receipt
           /\ (disk'.ack => disk.ack) /\ disk'.pointer = disk.pointer
<1>1. /\ Removed \in Disk /\ Removed.tree = disk.tree /\ Removed.payload = {} /\ ~Removed.journal
      /\ Removed.phase = "prepared" /\ Removed.result = "none" /\ Removed.receipt = disk.receipt
      /\ Removed.ack = disk.ack /\ Removed.pointer = disk.pointer
  <2> DEFINE none == [o \in Op |-> "none"]
  <2>1. none \in [Op -> File]
    BY DEF File
  <2> HIDE DEF none
  <2>2. Removed = [disk EXCEPT !.journal = FALSE, !.payload = {}, !.claim = FALSE, !.backup = none,
                               !.phase = "prepared", !.result = "none"]
    BY DEF Removed, none
  <2> QED
    BY <2>1, <2>2 DEF Types, Disk, Phase
<1>2. CASE disk' = Removed
  BY <1>1, <1>2
<1>3. CASE disk' = [Removed EXCEPT !.ack = FALSE]
  BY <1>1, <1>3 DEF Disk
<1> QED
  BY <1>2, <1>3

LEMMA RemovedKeeps ==
    ASSUME Sound, disk' \in {Removed, [Removed EXCEPT !.ack = FALSE]}, Done,
           helper.step \notin Working, UNCHANGED <<helper, running, answering, answered>>,
           shell' = shell \/ (shell = "abandoning" /\ shell' = "forgetting"),
           settling' \in [Build -> {"idle", "reading", "removing", "clearing"}],
           \A b \in Build : settling'[b] # "idle" => settling[b] # "idle"
    PROVE  Sound'
<1>1. /\ disk' \in Disk /\ disk'.tree = disk.tree /\ disk'.payload = {} /\ ~disk'.journal
      /\ disk'.phase = "prepared" /\ disk'.result = "none" /\ disk'.receipt = disk.receipt
      /\ (disk'.ack => disk.ack) /\ disk'.pointer = disk.pointer
  BY RemovedDoes DEF Sound
<1>2. Went(helper.step, helper.at, helper.intact)
  BY StandDoes DEF Sound
<1>3. (AllOld' <=> AllOld) /\ (AllNew => AllNew')
  BY <1>1 DEF AllOld, AllNew
<1>10. Types'
  BY <1>1, <1>2, <1>3 DEF Sound, Types, Went
<1>11. Held'
  BY <1>1, <1>2, <1>3 DEF Sound, Held, Types, Disk
<1>12. Moved'
  BY <1>1, <1>2, <1>3 DEF Moved
<1>13. Untouched'
  BY <1>1, <1>2, <1>3 DEF Untouched
<1>14. Removal'
  BY <1>1, <1>2, <1>3 DEF Done, Removal
<1>15. Recorded'
  BY <1>1, <1>2, <1>3 DEF Sound, At, Working, Recorded
<1>16. Alone'
  BY <1>1, <1>2, <1>3 DEF Sound, Amid, Alone
<1>17. Progress'
  BY <1>1, <1>2, <1>3 DEF At, Working, Progress
<1>18. Answer'
  BY <1>1, <1>2, <1>3 DEF Sound, Answer
<1>19. Truth'
  BY <1>1, <1>2, <1>3 DEF Sound, At, Truth
<1> QED
  BY <1>10, <1>11, <1>12, <1>13, <1>14, <1>15, <1>16, <1>17, <1>18, <1>19 DEF Sound

\* The transaction goes while the helper may still be among its files.
LEMMA UnderminedBegins ==
    ASSUME Sound, SettlesAmid, disk' \in {Removed, [Removed EXCEPT !.ack = FALSE]},
           UNCHANGED <<helper, running, answering, answered>>,
           shell' = shell \/ (shell = "abandoning" /\ shell' = "forgetting"),
           settling' \in [Build -> {"idle", "reading", "removing", "clearing"}]
    PROVE  IInv'
<1>1. disk' \in Disk /\ ~disk'.journal /\ disk'.phase = "prepared" BY RemovedDoes DEF Sound
<1>2. Types' BY <1>1 DEF Sound, Types
<1>. QED BY <1>1, <1>2 DEF Sound, Progress, op, IInv, Undermined, Placed

LEMMA SettleRemoveKeeps ==
    ASSUME Sound, NEW b \in Build, SettleRemove(b)
    PROVE  IInv'
<1>0. CASE SettlesAmid /\ SettleStep(b, "removing", "clearing")
  BY <1>0, UnderminedBegins DEF SettleRemove, SettleStep, NoKill, Sound, Types
<1>1. CASE /\ ~SettlesAmid /\ SettleStep(b, "removing", "clearing")
         /\ disk' = [Removed EXCEPT !.ack = FALSE]
  <2>1. Done /\ helper.step \notin Working
    BY <1>1 DEF Sound, Alone, Removal, SettleStep
  <2>2. settling' \in [Build -> {"idle", "reading", "removing", "clearing"}]
        /\ \A c \in Build : settling'[c] # "idle" => settling[c] # "idle"
    BY <1>1 DEF Sound, Types, SettleStep
  <2> QED
    BY <1>1, <2>1, <2>2, RemovedKeeps DEF SettleRemove, SettleStep, NoKill, IInv
<1>2. CASE SettleStep(b, "clearing", "idle") /\ disk' = [disk EXCEPT !.pointer = FALSE]
  BY <1>2, SettleClearKeeps DEF SettleRemove, IInv
<1> QED
  BY <1>0, <1>1, <1>2 DEF SettleRemove

LEMMA AbandonKeeps ==
    ASSUME Sound, Abandon
    PROVE  IInv'
<1>0. CASE SettlesAmid /\ ShellStep("abandoning", "forgetting") /\ disk' = Removed
  BY <1>0, UnderminedBegins DEF Abandon, ShellStep, NoKill, Sound, Types
<1>1. CASE /\ ~SettlesAmid /\ ShellStep("abandoning", "forgetting") /\ IsSettled
         /\ disk' = Removed
  <2>1. "old" \in running /\ helper.step \notin Working
    BY <1>1 DEF Sound, Alone, ShellStep
  <2>2. disk.phase \in {"prepared", "committed", "restored"}
    BY <1>1, <2>1 DEF Sound, Alone, ShellStep, IsSettled, Unsettled, Types, Disk, Phase
  <2>3. Done
    BY <2>2 DEF Sound, Untouched, Removal, Truth, Done
  <2> QED
    BY <1>1, <2>1, <2>3, RemovedKeeps DEF Abandon, ShellStep, NoKill, Sound, Types, IInv
<1>2. CASE ShellStep("abandoning", "forgetting") /\ UNCHANGED disk
  <2>1. Wrote(disk.phase, disk.result) /\ Went(helper.step, helper.at, helper.intact)
    BY <1>2, NothingDoes, StandDoes DEF Sound, Abandon
  <2>10. Types'
    BY <1>2, <2>1 DEF Sound, Types, Abandon, ShellStep, NoKill
  <2>11. Held' /\ Moved' /\ SameFiles
    BY <1>2, <2>1, FilesStay DEF Sound, Wrote
  <2>12. Untouched'
    BY <1>2, <2>1, <2>11 DEF Sound, Went, SameFiles, Untouched
  <2>13. Removal'
    BY <1>2, <2>1, <2>11 DEF Sound, Done, SameFiles, Removal, Abandon, NoKill
  <2>14. Recorded'
    BY <1>2, <2>1, <2>11 DEF Sound, Went, At, Recorded, ShellStep
  <2>15. Alone'
    BY <1>2, <2>1, <2>11 DEF Sound, Done, Amid, SameFiles, Alone, Abandon, ShellStep, NoKill
  <2>16. Progress'
    BY <1>2, <2>1, <2>11 DEF Sound, Went, At, op, SameFiles, Progress
  <2>17. Answer'
    BY <1>2, <2>1, <2>11 DEF Sound, SameFiles, Answer, Abandon, ShellStep, NoKill
  <2>18. Truth'
    BY <1>2, <2>1, <2>11 DEF Sound, At, SameFiles, Truth, Abandon, NoKill
  <2> QED
    BY <2>10, <2>11, <2>12, <2>13, <2>14, <2>15, <2>16, <2>17, <2>18 DEF Sound, IInv
<1>3. CASE /\ ShellStep("forgetting", "over")
         /\ disk' = [disk EXCEPT !.pointer = FALSE, !.staged = FALSE, !.kept = FALSE]
  BY <1>3, ForgetKeeps DEF Abandon, IInv
<1> QED
  BY <1>0, <1>1, <1>2, <1>3 DEF Abandon

LEMMA AppearKeeps ==
    ASSUME Sound, Appear
    PROVE  Sound'
<1>1. PICK o \in Op \ Had : disk.tree[o] = "none" /\ disk' = [disk EXCEPT !.tree[o] = "foreign"]
  BY DEF Appear
<1>2. /\ disk' \in Disk /\ disk'.tree = [disk.tree EXCEPT ![o] = "foreign"]
      /\ disk'.payload = disk.payload /\ disk'.backup = disk.backup /\ disk'.journal = disk.journal
      /\ disk'.phase = disk.phase /\ disk'.result = disk.result /\ disk'.receipt = disk.receipt
      /\ disk'.ack = disk.ack /\ disk'.pointer = disk.pointer
  BY <1>1 DEF Sound, Types, Disk, File
<1>3. Went(helper.step, helper.at, helper.intact)
  BY StandDoes DEF Sound, Appear
<1>4. /\ o \in Op /\ o \in Gets /\ o \notin Had /\ o # Program /\ disk.tree[o] = "none"
      /\ disk.tree \in [Op -> File] /\ disk'.tree[Program] = disk.tree[Program]
      /\ ~(Present(disk.tree[o])) /\ ~Made(o) /\ ~AllNew
  BY <1>1, <1>2, Plan DEF Sound, Types, Disk, Present, Made, AllNew
<1>5. /\ \A p \in Op : (Unmade(p)' <=> Unmade(p)) /\ (Made(p) => Made(p)')
      /\ (AllOld' <=> AllOld)
  BY <1>1, <1>2, <1>4 DEF Made, Unmade, AllOld
<1>10. Types'
  BY <1>1, <1>2, <1>3, <1>4 DEF Sound, Types, Went, Appear, NoKill, appVars
<1>11. Held'
  BY <1>1, <1>2, <1>3, <1>4 DEF Sound, Held
<1>12. Moved'
  BY <1>1, <1>2, <1>3, <1>4 DEF Sound, Moved
<1>13. Untouched'
  BY <1>2, <1>3, <1>5 DEF Sound, Went, Untouched
<1>14. Removal'
  BY <1>2, <1>3, <1>4, <1>5 DEF Sound, Went, Done, Removal
<1>15. Recorded'
  BY <1>2, <1>3 DEF Sound, Went, At, Recorded, Appear, appVars
<1>16. Alone'
  BY <1>2, <1>3, <1>4, <1>5 DEF Sound, Went, Amid, Done, Alone, Appear, appVars
<1>17. Progress'
  BY <1>2, <1>3, <1>4, <1>5 DEF Sound, Went, At, op, Progress
<1>18. Answer'
  BY <1>2, <1>3, <1>4, <1>5 DEF Sound, Went, Answer, Appear, NoKill, appVars
<1>19. Truth'
  BY <1>2, <1>3, <1>4, <1>5 DEF Sound, Went, At, Truth, Appear, NoKill
<1> QED
  BY <1>10, <1>11, <1>12, <1>13, <1>14, <1>15, <1>16, <1>17, <1>18, <1>19 DEF Sound

LEMMA KeepKeeps ==
    ASSUME Sound, Keep
    PROVE  Sound'
<1>0. /\ op \in Op /\ op \in Had /\ disk.journal /\ disk.phase = "operation"
      /\ disk.tree \in [Op -> File] /\ disk.backup \in [Op -> File]
      /\ helper.step = "keeping" /\ answering = "no"
      /\ \/ disk.tree[op] = "old" /\ disk.backup[op] = "none"
         \/ disk.tree[op] \in {"none", "new"} /\ (op \notin Gets => disk.tree[op] = "none")
            /\ disk.backup[op] = "old"
  BY DEF Sound, Progress, Recorded, Removal, Held, Answer, Types, Disk, Keep, At, Before
<1>1. CASE /\ disk' = disk
         /\ \/ Goto("rolling")
            \/ (disk.backup[op] = "old" /\ Goto(IF op \in Gets THEN "placing" ELSE "applied"))
  <2>1. Wrote(disk.phase, disk.result)
    BY <1>1, NothingDoes DEF Sound
  <2>2. /\ helper' \in Helper /\ helper'.at = op /\ helper'.step \in {"placing", "applied", "rolling"}
        /\ helper'.step = "placing" => op \in Gets /\ disk.backup[op] = "old"
        /\ helper'.step = "applied" => op \notin Gets /\ disk.backup[op] = "old"
    BY <1>1, GotoDoes DEF Sound, Went, Step, Working, op
  <2>10. Types'
    BY <1>0, <1>1, <2>1, <2>2 DEF Sound, Types, Keep, NoKill, appVars
  <2>11. Held' /\ Moved' /\ SameFiles
    BY <1>0, <1>1, <2>1, <2>2, FilesStay DEF Sound, Wrote
  <2>12. Untouched'
    BY <1>0, <1>1, <2>1, <2>2, <2>11 DEF Untouched
  <2>13. Removal'
    BY <1>0, <1>1, <2>1, <2>2, <2>11 DEF Removal
  <2>14. Recorded'
    BY <1>0, <1>1, <2>1, <2>2, <2>11 DEF Sound, At, Recorded, Keep, appVars
  <2>15. Alone'
    <3>1. CASE SettlesAmid
      BY <1>0, <1>1, <2>1, <2>2, <2>11, <3>1
          DEF Sound, Amid, Alone, Working, Keep, appVars
    <3>2. CASE ~SettlesAmid
      <4>1. UNCHANGED <<running, shell, settling>> /\ \A b \in Build : settling[b] = "idle"
        BY <1>0, <1>1, <2>1, <2>2, <2>11, <3>2 DEF Sound, Amid, Alone, Keep, appVars
      <4>2. \A b \in Build : settling'[b] = "idle"
        BY <4>1
      <4> QED
        BY <1>0, <1>1, <2>1, <2>2, <2>11, <4>1, <4>2 DEF Sound, Amid, Alone, Working, Keep, appVars
    <3> QED
      BY <3>1, <3>2
  <2>16. Progress'
    BY <1>0, <1>1, <2>1, <2>2, <2>11 DEF Sound, At, op, Progress, Made
  <2>17. Answer'
    BY <1>0, <1>1, <2>1, <2>2, <2>11 DEF Sound, Answer, Keep, NoKill, appVars
  <2>18. Truth'
    BY <1>0, <1>1, <2>1, <2>2, <2>11 DEF Sound, At, Truth
  <2> QED
    BY <2>10, <2>11, <2>12, <2>13, <2>14, <2>15, <2>16, <2>17, <2>18 DEF Sound
<1>2. CASE /\ disk.tree[op] = "old" /\ disk.backup[op] = "none"
         /\ disk' = [disk EXCEPT !.backup[op] = disk.tree[op], !.tree[op] = "none"]
         /\ Goto(IF op \in Gets THEN "placing" ELSE "applied")
  <2>1. /\ disk' \in Disk /\ disk'.tree = [disk.tree EXCEPT ![op] = "none"]
        /\ disk'.backup = [disk.backup EXCEPT ![op] = "old"]
        /\ disk'.payload = disk.payload /\ disk'.journal = disk.journal
        /\ disk'.phase = disk.phase /\ disk'.result = disk.result /\ disk'.receipt = disk.receipt
        /\ disk'.ack = disk.ack /\ disk'.pointer = disk.pointer
    BY <1>0, <1>2 DEF Sound, Types, Disk, File
  <2>2. /\ helper' \in Helper /\ helper'.at = op
        /\ helper'.step = IF op \in Gets THEN "placing" ELSE "applied"
    BY <1>2, GotoDoes DEF Sound, Went, Step, Working, op
  <2>10. Types'
    BY <1>0, <1>2, <2>1, <2>2 DEF Sound, Types, Keep, NoKill, appVars
  <2>11. Held'
    BY <1>0, <1>2, <2>1, <2>2 DEF Sound, Held
  <2>12. Moved'
    BY <1>0, <1>2, <2>1, <2>2 DEF Sound, Moved
  <2>13. Untouched'
    BY <1>0, <1>2, <2>1, <2>2 DEF Untouched
  <2>14. Removal'
    BY <1>0, <1>2, <2>1, <2>2 DEF Removal
  <2>15. Recorded'
    BY <1>0, <1>2, <2>1, <2>2 DEF Sound, At, Recorded, Keep, appVars
  <2>16. Alone'
    <3>1. CASE SettlesAmid
      BY <1>0, <1>2, <2>1, <2>2, <3>1
          DEF Sound, Amid, Alone, Working, Keep, appVars
    <3>2. CASE ~SettlesAmid
      <4>1. UNCHANGED <<running, shell, settling>> /\ \A b \in Build : settling[b] = "idle"
        BY <1>0, <1>2, <2>1, <2>2, <3>2 DEF Sound, Amid, Alone, Keep, appVars
      <4>2. \A b \in Build : settling'[b] = "idle"
        BY <4>1
      <4> QED
        BY <1>0, <1>2, <2>1, <2>2, <4>1, <4>2 DEF Sound, Amid, Alone, Working, Keep, appVars
    <3> QED
      BY <3>1, <3>2
  <2>17. Progress'
    BY <1>0, <1>2, <2>1, <2>2 DEF Sound, At, op, Progress, Made
  <2>18. Answer'
    BY <1>0, <1>2, <2>1, <2>2 DEF Sound, Answer, Keep, NoKill, appVars
  <2>19. Truth'
    BY <1>0, <1>2, <2>1, <2>2 DEF Sound, At, Truth
  <2> QED
    BY <2>10, <2>11, <2>12, <2>13, <2>14, <2>15, <2>16, <2>17, <2>18, <2>19 DEF Sound
<1>3. CASE /\ disk.tree[op] = "old" /\ disk.backup[op] = "none"
         /\ disk' = [disk EXCEPT !.backup[op] = "none"] /\ Goto("rolling")
  <2>1. [disk EXCEPT !.backup[op] = "none"] = disk
    BY <1>0, <1>3 DEF Sound, Types, Disk
  <2> QED
    BY <1>1, <1>3, <2>1
<1> QED
  BY <1>0, <1>1, <1>2, <1>3 DEF Keep, Move, Present, NoChange

LEMMA PlaceKeeps ==
    ASSUME Sound, Place
    PROVE  Sound'
<1>0. /\ op \in Op /\ op \in Gets /\ disk.journal /\ disk.phase = "operation"
      /\ helper.step = "placing" /\ answering = "no" /\ UNCHANGED disk
      /\ op \in Had => disk.backup[op] = "old" /\ disk.tree[op] \in {"none", "new"}
      /\ op \notin Had => disk.tree[op] # "old"
      /\ disk.tree[op] \in File
  BY DEF Sound, Progress, Recorded, Removal, Held, Answer, Types, Disk, File, Place, NoChange,
          At, Before
<1>1. /\ helper' \in Helper /\ helper'.at = op /\ helper'.step \in {"moving", "applied", "rolling"}
      /\ helper'.step = "applied" => Made(op)
      /\ helper'.step = "moving" => op \in disk.payload
  <2>1. PICK step \in {"moving", "applied", "rolling"} :
            /\ Goto(step) /\ (step = "applied" => Made(op))
            /\ step = "moving" => op \in disk.payload
    BY <1>0 DEF Place, Present, Made, File
  <2>2. step \in Step
    BY DEF Step, Working
  <2> QED
    BY <2>1, <2>2, GotoDoes DEF Sound, Went, op
<1>2. Wrote(disk.phase, disk.result)
  BY <1>0, NothingDoes DEF Sound
<1>10. Types'
  BY <1>0, <1>1, <1>2 DEF Sound, Types, Place, NoKill, appVars
<1>11. Held' /\ Moved' /\ SameFiles
  BY <1>0, <1>1, <1>2, FilesStay DEF Sound, Wrote
<1>12. Untouched'
  BY <1>0, <1>1, <1>2, <1>11 DEF Untouched
<1>13. Removal'
  BY <1>0, <1>1, <1>2, <1>11 DEF Removal
<1>14. Recorded'
  BY <1>0, <1>1, <1>2, <1>11 DEF Sound, At, Recorded, Place, appVars
<1>15. Alone'
  <2>1. CASE SettlesAmid
    BY <1>0, <1>1, <1>2, <1>11, <2>1
        DEF Sound, Amid, Alone, Working, Place, appVars
  <2>2. CASE ~SettlesAmid
    <3>1. UNCHANGED <<running, shell, settling>> /\ \A b \in Build : settling[b] = "idle"
      BY <1>0, <1>1, <1>2, <1>11, <2>2 DEF Sound, Amid, Alone, Place, appVars
    <3>2. \A b \in Build : settling'[b] = "idle"
      BY <3>1
    <3> QED
      BY <1>0, <1>1, <1>2, <1>11, <3>1, <3>2 DEF Sound, Amid, Alone, Working, Place, appVars
  <2> QED
    BY <2>1, <2>2
<1>16. Progress'
  BY <1>0, <1>1, <1>2, <1>11 DEF Sound, At, op, SameFiles, Progress
<1>17. Answer'
  BY <1>0, <1>1, <1>2, <1>11 DEF Sound, Answer, Place, NoKill, appVars
<1>18. Truth'
  BY <1>0, <1>1, <1>2, <1>11 DEF Sound, At, Truth
<1> QED
  BY <1>10, <1>11, <1>12, <1>13, <1>14, <1>15, <1>16, <1>17, <1>18 DEF Sound

LEMMA MovePlacedKeeps ==
    ASSUME Sound, MovePlaced
    PROVE  Sound'
<1>0. /\ op \in Op /\ op \in Gets /\ disk.journal /\ disk.phase = "operation"
      /\ disk.tree \in [Op -> File] /\ disk.backup \in [Op -> File]
      /\ helper.step = "moving" /\ answering = "no"
      /\ op \in Had => disk.backup[op] = "old" /\ disk.tree[op] \in {"none", "new"}
      /\ op \notin Had => disk.tree[op] # "old"
      /\ op \in disk.payload /\ ~answered
  BY DEF Sound, Progress, Recorded, Removal, Held, Moved, Answer, Types, Disk, File, MovePlaced,
          At, Before
<1>1. CASE /\ disk' = disk
         /\ Goto("rolling")
  <2>1. Wrote(disk.phase, disk.result)
    BY <1>1, NothingDoes DEF Sound
  <2>2. /\ helper' \in Helper /\ helper'.at = op /\ helper'.step = "rolling"
    BY <1>1, GotoDoes DEF Sound, Went, Step, Working, op
  <2>10. Types'
    BY <1>0, <1>1, <2>1, <2>2 DEF Sound, Types, MovePlaced, NoKill, appVars
  <2>11. Held' /\ Moved' /\ SameFiles
    BY <1>0, <1>1, <2>1, <2>2, FilesStay DEF Sound, Wrote
  <2>12. Untouched'
    BY <1>0, <1>1, <2>1, <2>2, <2>11 DEF Untouched
  <2>13. Removal'
    BY <1>0, <1>1, <2>1, <2>2, <2>11 DEF Removal
  <2>14. Recorded'
    BY <1>0, <1>1, <2>1, <2>2, <2>11 DEF Sound, At, Recorded, MovePlaced, appVars
  <2>15. Alone'
    <3>1. CASE SettlesAmid
      BY <1>0, <1>1, <2>1, <2>2, <2>11, <3>1
          DEF Sound, Amid, Alone, Working, MovePlaced, appVars
    <3>2. CASE ~SettlesAmid
      <4>1. UNCHANGED <<running, shell, settling>> /\ \A b \in Build : settling[b] = "idle"
        BY <1>0, <1>1, <2>1, <2>2, <2>11, <3>2 DEF Sound, Amid, Alone, MovePlaced, appVars
      <4>2. \A b \in Build : settling'[b] = "idle"
        BY <4>1
      <4> QED
        BY <1>0, <1>1, <2>1, <2>2, <2>11, <4>1, <4>2 DEF Sound, Amid, Alone, Working, MovePlaced, appVars
    <3> QED
      BY <3>1, <3>2
  <2>16. Progress'
    BY <1>0, <1>1, <2>1, <2>2, <2>11 DEF Sound, At, op, Progress, Made
  <2>17. Answer'
    BY <1>0, <1>1, <2>1, <2>2, <2>11 DEF Sound, Answer, MovePlaced, NoKill, appVars
  <2>18. Truth'
    BY <1>0, <1>1, <2>1, <2>2, <2>11 DEF Sound, At, Truth
  <2> QED
    BY <2>10, <2>11, <2>12, <2>13, <2>14, <2>15, <2>16, <2>17, <2>18 DEF Sound
<1>2. CASE /\ disk' = [disk EXCEPT !.tree[op] = "new", !.payload = @ \ {op}]
         /\ Goto("applied")
  <2>1. /\ disk' \in Disk /\ disk'.tree = [disk.tree EXCEPT ![op] = "new"]
        /\ disk'.backup = disk.backup
        /\ disk'.payload = disk.payload \ {op} /\ disk'.journal = disk.journal
        /\ disk'.phase = disk.phase /\ disk'.result = disk.result /\ disk'.receipt = disk.receipt
        /\ disk'.ack = disk.ack /\ disk'.pointer = disk.pointer
    BY <1>0, <1>2 DEF Sound, Types, Disk, File
  <2>2. Went("applied", helper.at, helper.intact)
    BY <1>2, GotoDoes DEF Sound, Step, Working
  <2>10. Types'
    BY <1>0, <1>2, <2>1, <2>2 DEF Sound, Types, Went, MovePlaced, NoKill, appVars
  <2>11. Held'
    BY <1>0, <1>2, <2>1, <2>2 DEF Sound, Held
  <2>12. Moved'
    BY <1>0, <1>2, <2>1, <2>2 DEF Sound, Moved
  <2>13. Untouched'
    BY <1>0, <1>2, <2>1, <2>2 DEF Untouched
  <2>14. Removal'
    BY <1>0, <1>2, <2>1, <2>2 DEF Removal
  <2>15. Recorded'
    BY <1>0, <1>2, <2>1, <2>2 DEF Sound, Went, At, Recorded, MovePlaced, appVars
  <2>16. Alone'
    <3>1. CASE SettlesAmid
      BY <1>0, <1>2, <2>1, <2>2, <3>1
          DEF Sound, Amid, Alone, Working, MovePlaced, appVars
    <3>2. CASE ~SettlesAmid
      <4>1. UNCHANGED <<running, shell, settling>> /\ \A b \in Build : settling[b] = "idle"
        BY <1>0, <1>2, <2>1, <2>2, <3>2 DEF Sound, Amid, Alone, MovePlaced, appVars
      <4>2. \A b \in Build : settling'[b] = "idle"
        BY <4>1
      <4> QED
        BY <1>0, <1>2, <2>1, <2>2, <4>1, <4>2 DEF Sound, Amid, Alone, Working, MovePlaced, appVars
    <3> QED
      BY <3>1, <3>2
  <2>17. Progress'
    BY <1>0, <1>2, <2>1, <2>2 DEF Sound, Went, At, op, Progress, Made
  <2>18. Answer'
    BY <1>0, <1>2, <2>1, <2>2 DEF Sound, Answer, MovePlaced, NoKill, appVars
  <2>19. Truth'
    BY <1>0, <1>2, <2>1, <2>2 DEF Sound, Went, At, Truth
  <2> QED
    BY <2>10, <2>11, <2>12, <2>13, <2>14, <2>15, <2>16, <2>17, <2>18, <2>19 DEF Sound
<1>3. CASE /\ disk' = [disk EXCEPT !.tree[op] = "none"] /\ Goto("rolling")
  <2>1. /\ disk' \in Disk /\ disk'.tree = [disk.tree EXCEPT ![op] = "none"]
        /\ disk'.backup = disk.backup
        /\ disk'.payload = disk.payload /\ disk'.journal = disk.journal
        /\ disk'.phase = disk.phase /\ disk'.result = disk.result /\ disk'.receipt = disk.receipt
        /\ disk'.ack = disk.ack /\ disk'.pointer = disk.pointer
    BY <1>0, <1>3 DEF Sound, Types, Disk, File
  <2>2. Went("rolling", helper.at, helper.intact)
    BY <1>3, GotoDoes DEF Sound, Step, Working
  <2>10. Types'
    BY <1>0, <1>3, <2>1, <2>2 DEF Sound, Types, Went, MovePlaced, NoKill, appVars
  <2>11. Held'
    BY <1>0, <1>3, <2>1, <2>2 DEF Sound, Held
  <2>12. Moved'
    BY <1>0, <1>3, <2>1, <2>2 DEF Sound, Moved
  <2>13. Untouched'
    BY <1>0, <1>3, <2>1, <2>2 DEF Untouched
  <2>14. Removal'
    BY <1>0, <1>3, <2>1, <2>2 DEF Removal
  <2>15. Recorded'
    BY <1>0, <1>3, <2>1, <2>2 DEF Sound, Went, At, Recorded, MovePlaced, appVars
  <2>16. Alone'
    <3>1. CASE SettlesAmid
      BY <1>0, <1>3, <2>1, <2>2, <3>1
          DEF Sound, Amid, Alone, Working, MovePlaced, appVars
    <3>2. CASE ~SettlesAmid
      <4>1. UNCHANGED <<running, shell, settling>> /\ \A b \in Build : settling[b] = "idle"
        BY <1>0, <1>3, <2>1, <2>2, <3>2 DEF Sound, Amid, Alone, MovePlaced, appVars
      <4>2. \A b \in Build : settling'[b] = "idle"
        BY <4>1
      <4> QED
        BY <1>0, <1>3, <2>1, <2>2, <4>1, <4>2 DEF Sound, Amid, Alone, Working, MovePlaced, appVars
    <3> QED
      BY <3>1, <3>2
  <2>17. Progress'
    BY <1>0, <1>3, <2>1, <2>2 DEF Went, At, Progress
  <2>18. Answer'
    BY <1>0, <1>3, <2>1, <2>2 DEF Sound, Answer, MovePlaced, NoKill, appVars
  <2>19. Truth'
    BY <1>0, <1>3, <2>1, <2>2 DEF Sound, Went, At, Truth
  <2> QED
    BY <2>10, <2>11, <2>12, <2>13, <2>14, <2>15, <2>16, <2>17, <2>18, <2>19 DEF Sound
<1> QED
  BY <1>0, <1>1, <1>2, <1>3 DEF MovePlaced, Move

LEMMA UndoneDoes ==
    ASSUME Types, op \in Op, NEW ok \in BOOLEAN, Undone(ok)
    PROVE  /\ helper' \in Helper /\ helper'.at = op - 1
           /\ helper'.intact => helper.intact /\ ok
           /\ helper'.step \in {"undoing", "receipt", "incomplete"}
           /\ helper'.step = "undoing" => op - 1 \in Op
           /\ helper'.step = "receipt" => op = 1 /\ helper.intact /\ ok
<1>1. op \in Nat /\ op - 1 \in Nat /\ (op > 1 => op - 1 \in Op) /\ (~(op > 1) => op = 1)
  BY Plan
<1>2. helper.intact \in BOOLEAN /\ (helper.intact /\ ok) \in BOOLEAN
  BY DEF Types, Helper
<1>3. helper' \in Helper
  BY <1>1, <1>2 DEF Types, Helper, Undone, Step, Working
<1> QED
  BY <1>1, <1>2, <1>3 DEF Types, Helper, Undone

LEMMA UndoKeeps ==
    ASSUME Sound, Undo
    PROVE  Sound'
<1>0. /\ op \in Op /\ disk.journal /\ disk.phase = "rolling-back"
      /\ disk.tree \in [Op -> File] /\ disk.backup \in [Op -> File]
      /\ helper.step = "undoing" /\ answering = "no"
      /\ IF op \in Had
           THEN \/ disk.tree[op] = "old" /\ disk.backup[op] = "none"
                \/ disk.tree[op] \in {"none", "new"} /\ disk.backup[op] = "old"
           ELSE disk.tree[op] # "old"
      /\ op \in disk.payload => disk.tree[op] # "new"
  BY DEF Sound, Progress, Recorded, Removal, Held, Moved, Answer, Types, Disk, Undo, At,
          Before
<1>1. CASE disk' = disk /\ (Undone(FALSE) \/ (Undone(TRUE) /\ Unmade(op)))
  <2>1. Wrote(disk.phase, disk.result)
    BY <1>1, NothingDoes DEF Sound
  <2>2. /\ helper' \in Helper /\ helper'.at = op - 1
        /\ helper'.step \in {"undoing", "receipt", "incomplete"}
        /\ helper'.step = "undoing" => op - 1 \in Op
        /\ helper'.intact => helper.intact /\ Unmade(op)
        /\ helper'.step = "receipt" => op = 1 /\ helper.intact /\ Unmade(op)
    BY <1>0, <1>1, UndoneDoes DEF Sound
  <2>10. Types'
    BY <1>0, <1>1, <2>1, <2>2 DEF Sound, Types, Undo, NoKill, appVars
  <2>11. Held' /\ Moved' /\ SameFiles
    BY <1>0, <1>1, <2>1, <2>2, FilesStay DEF Sound, Wrote
  <2>12. Untouched'
    BY <1>0, <1>1, <2>1, <2>2, <2>11 DEF Untouched
  <2>13. Removal'
    BY <1>0, <1>1, <2>1, <2>2, <2>11 DEF Removal
  <2>14. Recorded'
    BY <1>0, <1>1, <2>1, <2>2, <2>11 DEF Sound, At, Recorded, Undo, appVars
  <2>15. Alone'
    BY <1>0, <1>1, <2>1, <2>2, <2>11 DEF Sound, Amid, Working, Alone, Undo, appVars
  <2>16. Progress'
    BY <1>0, <1>1, <2>1, <2>2, <2>11, Plan DEF Sound, At, op, Progress, Unmade, AllOld
  <2>17. Answer'
    BY <1>0, <1>1, <2>1, <2>2, <2>11 DEF Sound, Answer, Undo, NoKill, appVars
  <2>18. Truth'
    BY <1>0, <1>1, <2>1, <2>2, <2>11 DEF Sound, At, Truth
  <2> QED
    BY <2>10, <2>11, <2>12, <2>13, <2>14, <2>15, <2>16, <2>17, <2>18 DEF Sound
<1>2. CASE /\ op \notin Had /\ op \notin disk.payload /\ disk.tree[op] # "none"
         /\ disk' = [disk EXCEPT !.tree[op] = "none"] /\ Undone(TRUE)
  <2>1. /\ disk' \in Disk /\ disk'.tree = [disk.tree EXCEPT ![op] = "none"]
        /\ disk'.backup = disk.backup
        /\ disk'.payload = disk.payload /\ disk'.journal = disk.journal
        /\ disk'.phase = disk.phase /\ disk'.result = disk.result /\ disk'.receipt = disk.receipt
        /\ disk'.ack = disk.ack /\ disk'.pointer = disk.pointer
    BY <1>0, <1>2 DEF Sound, Types, Disk, File
  <2>2. /\ helper' \in Helper /\ helper'.at = op - 1
        /\ helper'.step \in {"undoing", "receipt", "incomplete"}
        /\ helper'.step = "undoing" => op - 1 \in Op
        /\ helper'.intact => helper.intact /\ TRUE
        /\ helper'.step = "receipt" => op = 1 /\ helper.intact /\ TRUE
    BY <1>0, <1>2, UndoneDoes DEF Sound
  <2>10. Types'
    BY <1>0, <1>2, <2>1, <2>2 DEF Sound, Types, Undo, NoKill, appVars
  <2>11. Held'
    BY <1>0, <1>2, <2>1, <2>2 DEF Sound, Held
  <2>12. Moved'
    BY <1>0, <1>2, <2>1, <2>2 DEF Sound, Moved
  <2>13. Untouched'
    BY <1>0, <1>2, <2>1, <2>2 DEF Untouched
  <2>14. Removal'
    BY <1>0, <1>2, <2>1, <2>2 DEF Removal
  <2>15. Recorded'
    BY <1>0, <1>2, <2>1, <2>2 DEF Sound, At, Recorded, Undo, appVars
  <2>16. Alone'
    BY <1>0, <1>2, <2>1, <2>2 DEF Sound, Working, Amid, Alone, Undo, appVars
  <2>17. Progress'
    BY <1>0, <1>2, <2>1, <2>2 DEF Sound, At, op, Progress, Unmade, AllOld, Op
  <2>18. Answer'
    BY <1>0, <1>2, <2>1, <2>2 DEF Sound, Answer, Undo, NoKill, appVars
  <2>19. Truth'
    BY <1>0, <1>2, <2>1, <2>2 DEF Sound, At, Truth
  <2> QED
    BY <2>10, <2>11, <2>12, <2>13, <2>14, <2>15, <2>16, <2>17, <2>18, <2>19 DEF Sound
<1>3. CASE /\ op \in Had /\ disk.backup[op] = "old" /\ Undone(TRUE)
         /\ disk' = [disk EXCEPT !.tree[op] = disk.backup[op], !.backup[op] = "none"]
  <2>1. /\ disk' \in Disk /\ disk'.tree = [disk.tree EXCEPT ![op] = "old"]
        /\ disk'.backup = [disk.backup EXCEPT ![op] = "none"]
        /\ disk'.payload = disk.payload /\ disk'.journal = disk.journal
        /\ disk'.phase = disk.phase /\ disk'.result = disk.result /\ disk'.receipt = disk.receipt
        /\ disk'.ack = disk.ack /\ disk'.pointer = disk.pointer
    BY <1>0, <1>3 DEF Sound, Types, Disk, File
  <2>2. /\ helper' \in Helper /\ helper'.at = op - 1
        /\ helper'.step \in {"undoing", "receipt", "incomplete"}
        /\ helper'.step = "undoing" => op - 1 \in Op
        /\ helper'.intact => helper.intact /\ TRUE
        /\ helper'.step = "receipt" => op = 1 /\ helper.intact /\ TRUE
    BY <1>0, <1>3, UndoneDoes DEF Sound
  <2>10. Types'
    BY <1>0, <1>3, <2>1, <2>2 DEF Sound, Types, Undo, NoKill, appVars
  <2>11. Held'
    BY <1>0, <1>3, <2>1, <2>2 DEF Sound, Held
  <2>12. Moved'
    BY <1>0, <1>3, <2>1, <2>2 DEF Sound, Moved
  <2>13. Untouched'
    BY <1>0, <1>3, <2>1, <2>2 DEF Untouched
  <2>14. Removal'
    BY <1>0, <1>3, <2>1, <2>2 DEF Removal
  <2>15. Recorded'
    BY <1>0, <1>3, <2>1, <2>2 DEF Sound, At, Recorded, Undo, appVars
  <2>16. Alone'
    BY <1>0, <1>3, <2>1, <2>2 DEF Sound, Working, Amid, Alone, Undo, appVars
  <2>17. Progress'
    BY <1>0, <1>3, <2>1, <2>2 DEF Sound, At, op, Progress, Unmade, AllOld, Op
  <2>18. Answer'
    BY <1>0, <1>3, <2>1, <2>2 DEF Sound, Answer, Undo, NoKill, appVars
  <2>19. Truth'
    BY <1>0, <1>3, <2>1, <2>2 DEF Sound, At, Truth
  <2> QED
    BY <2>10, <2>11, <2>12, <2>13, <2>14, <2>15, <2>16, <2>17, <2>18, <2>19 DEF Sound
<1>4. CASE /\ op \in Had /\ disk.backup[op] = "old" /\ Undone(FALSE)
         /\ disk' = [disk EXCEPT !.tree[op] = "none"]
  <2>1. /\ disk' \in Disk /\ disk'.tree = [disk.tree EXCEPT ![op] = "none"]
        /\ disk'.backup = disk.backup
        /\ disk'.payload = disk.payload /\ disk'.journal = disk.journal
        /\ disk'.phase = disk.phase /\ disk'.result = disk.result /\ disk'.receipt = disk.receipt
        /\ disk'.ack = disk.ack /\ disk'.pointer = disk.pointer
    BY <1>0, <1>4 DEF Sound, Types, Disk, File
  <2>2. /\ helper' \in Helper /\ helper'.at = op - 1
        /\ helper'.step \in {"undoing", "receipt", "incomplete"}
        /\ helper'.step = "undoing" => op - 1 \in Op
        /\ helper'.intact => helper.intact /\ FALSE
        /\ helper'.step = "receipt" => op = 1 /\ helper.intact /\ FALSE
    BY <1>0, <1>4, UndoneDoes DEF Sound
  <2>10. Types'
    BY <1>0, <1>4, <2>1, <2>2 DEF Sound, Types, Undo, NoKill, appVars
  <2>11. Held'
    BY <1>0, <1>4, <2>1, <2>2 DEF Sound, Held
  <2>12. Moved'
    BY <1>0, <1>4, <2>1, <2>2 DEF Sound, Moved
  <2>13. Untouched'
    BY <1>0, <1>4, <2>1, <2>2 DEF Untouched
  <2>14. Removal'
    BY <1>0, <1>4, <2>1, <2>2 DEF Removal
  <2>15. Recorded'
    BY <1>0, <1>4, <2>1, <2>2 DEF Sound, At, Recorded, Undo, appVars
  <2>16. Alone'
    BY <1>0, <1>4, <2>1, <2>2 DEF Sound, Working, Amid, Alone, Undo, appVars
  <2>17. Progress'
    BY <1>0, <1>4, <2>1, <2>2 DEF At, op, Progress
  <2>18. Answer'
    BY <1>0, <1>4, <2>1, <2>2 DEF Sound, Answer, Undo, NoKill, appVars
  <2>19. Truth'
    BY <1>0, <1>4, <2>1, <2>2 DEF Sound, At, Truth
  <2> QED
    BY <2>10, <2>11, <2>12, <2>13, <2>14, <2>15, <2>16, <2>17, <2>18, <2>19 DEF Sound
<1> QED
  BY <1>0, <1>1, <1>2, <1>3, <1>4 DEF Undo, Move, Present, NoChange, Unmade

-----------------------------------------------------------------------------
(* The invariant and the theorems *)

LEMMA InitInvariant == Init => Sound
<1> SUFFICES ASSUME Init PROVE Sound
  OBVIOUS
<1>1. Types
  <2>1. disk \in Disk
    BY DEF Init, Disk, File, Phase
  <2> QED
    BY <2>1 DEF Init, Types, Helper, Idle, Step, Before, Build
<1>2. Held /\ Moved /\ Untouched /\ AllOld
  BY DEF Init, Held, Moved, Untouched, AllOld, Gets, Idle, Before
<1>3. Removal /\ Recorded /\ Alone
  BY DEF Init, Removal, Recorded, Alone, Amid, At, Idle, Working
<1>4. Progress /\ Answer /\ Truth
  BY DEF Init, Progress, Answer, Truth, At, Idle
<1> QED
  BY <1>1, <1>2, <1>3, <1>4 DEF Sound

LEMMA HelperKeeps ==
    ASSUME Sound, HelperStep
    PROVE  Sound'
<1>1. CASE EndRollback
  BY <1>1, EndRestoredKeeps, EndIncompleteKeeps DEF EndRollback
<1> QED
  BY <1>1, ClaimKeeps, WaitForInstallToBeFreeKeeps, BeginApplyKeeps, RecordOperationKeeps,
     KeepKeeps, PlaceKeeps, MovePlacedKeeps, RecordAppliedKeeps, BeginStartupKeeps, ClearAcknowledgementKeeps,
     StartCandidateKeeps, WaitForStartupKeeps, CommitKeeps, StopInstallProcessesKeeps,
     BeginRollbackKeeps, UndoKeeps, RestoreReceiptKeeps, WriteResultKeeps, StartRestoredKeeps
  DEF HelperStep

LEMMA NextKeeps ==
    ASSUME Sound, Next
    PROVE  IInv'
<1>1. CASE Kill
  BY <1>1, LeaveKeeps DEF Kill, IInv
<1>2. CASE \E b \in Build : Settle(b) \/ Quit(b)
  BY <1>2, SettleReadKeeps, SettleRemoveKeeps, QuitKeeps DEF Settle, IInv
<1> QED
  BY <1>1, <1>2, HelperKeeps, StartHelperKeeps, AwaitClaimKeeps, AbandonKeeps,
     PromoteReceiptKeeps, AcknowledgeKeeps, LaunchKeeps, RecoverByHandKeeps, AppearKeeps
  DEF Next, IInv

\* A file that is moved or deleted leaves a disk of the same kind.
LEMMA MovesDo ==
    ASSUME Types, op \in Op,
           disk' \in {disk, [disk EXCEPT !.backup[op] = "none"], [disk EXCEPT !.tree[op] = "none"],
                     [disk EXCEPT !.backup[op] = disk.tree[op], !.tree[op] = "none"],
                     [disk EXCEPT !.tree[op] = "new", !.payload = @ \ {op}],
                     [disk EXCEPT !.tree[op] = disk.backup[op], !.backup[op] = "none"]}
    PROVE  disk' \in Disk /\ disk'.journal = disk.journal /\ disk'.phase = disk.phase
<1>1. disk \in Disk /\ disk.tree \in [Op -> File] /\ disk.backup \in [Op -> File]
      /\ {"none", "new"} \subseteq File /\ disk.payload \subseteq Gets
  BY DEF Types, Disk, File
<1>2. CASE disk' = disk \/ disk' = [disk EXCEPT !.backup[op] = "none"]
                       \/ disk' = [disk EXCEPT !.tree[op] = "none"]
  BY <1>1, <1>2 DEF Disk
<1>3. CASE disk' = [disk EXCEPT !.backup[op] = disk.tree[op], !.tree[op] = "none"]
  BY <1>1, <1>3 DEF Disk
<1>4. CASE disk' = [disk EXCEPT !.tree[op] = "new", !.payload = @ \ {op}]
  BY <1>1, <1>4 DEF Disk
<1>5. CASE disk' = [disk EXCEPT !.tree[op] = disk.backup[op], !.backup[op] = "none"]
  BY <1>1, <1>5 DEF Disk
<1> QED BY <1>2, <1>3, <1>4, <1>5

\* Without the transaction whatever a helper does, it records nothing.
LEMMA UnderminedKeeps ==
    ASSUME Undermined, Next
    PROVE  Undermined'
<1> USE DEF NoKill, NoFault, NoChange, appVars
<1>0. Types /\ ~disk.journal /\ disk.phase = "prepared" /\ (helper.step \in Placed => op \in Op)
  BY DEF Undermined, Placed
<1> SUFFICES /\ disk' \in Disk /\ ~disk'.journal /\ disk'.phase = "prepared"
             /\ helper' \in Helper /\ (helper'.step \in Placed => helper'.at \in Op)
             /\ running' \in SUBSET Build /\ answering' \in {"no", "asked", "promoted"}
             /\ shell' \in {"staged", "waiting", "owned", "abandoning", "forgetting", "over", "gone"}
             /\ settling' \in [Build -> {"idle", "reading", "removing", "clearing"}]
             /\ answered' \in BOOLEAN
  BY DEF Undermined, Types, op, Placed
<1>4. /\ disk \in Disk /\ helper \in Helper /\ running \in SUBSET Build
      /\ answering \in {"no", "asked", "promoted"} /\ answered \in BOOLEAN
      /\ shell \in {"staged", "waiting", "owned", "abandoning", "forgetting", "over", "gone"}
      /\ settling \in [Build -> {"idle", "reading", "removing", "clearing"}]
  BY <1>0 DEF Types
<1>5. /\ Exit => helper' \in Helper /\ helper'.step = "idle"
      /\ \A step \in Step : Goto(step) =>
             helper' \in Helper /\ helper'.step = step /\ helper'.at = helper.at
      /\ \A r \in BOOLEAN : Spawn(r) => helper' \in Helper /\ helper'.step = "start"
  BY <1>0, GotoDoes, ExitDoes, SpawnDoes DEF Went
<1>6. Startable \in Build
  BY DEF Startable, Build
<1>7. CASE HelperStep
  <2>1. CASE Claim \/ WaitForInstallToBeFree
    BY <1>0, <1>4, <1>5, <2>1
        DEF Claim, WaitForInstallToBeFree, At, Gone, Step, Before, Placed
  <2>2. CASE BeginApply \/ RecordOperation \/ RecordApplied \/ BeginStartup \/ Commit
             \/ BeginRollback \/ EndRollback \/ WriteResult
    BY <1>0, <1>4, <1>5, <2>2
        DEF BeginApply, RecordOperation, RecordApplied, BeginStartup, Commit, BeginRollback,
            EndRollback, WriteResult, Record, Placed
  <2>3. CASE ClearAcknowledgement
    <3>1. disk' \in Disk /\ ~disk'.journal /\ disk'.phase = "prepared"
      BY <1>0, <1>4, <2>3 DEF ClearAcknowledgement, Disk
    <3>2. helper' \in Helper /\ helper'.step = "launching"
      BY <1>0, <2>3, GotoDoes DEF ClearAcknowledgement, Step, Working, Went
    <3> QED BY <1>4, <2>3, <3>1, <3>2 DEF ClearAcknowledgement, Placed
  <2>9. CASE WaitForStartup \/ StopInstallProcesses
    <3>1. helper' \in Helper /\ helper'.step \in {"committing", "stopping", "rolling"}
      BY <1>0, <2>9, GotoDoes DEF WaitForStartup, StopInstallProcesses, Step, Working, Went
    <3> QED BY <1>0, <1>4, <2>9, <3>1 DEF WaitForStartup, StopInstallProcesses, Gone, Placed
  <2>4. CASE StartCandidate \/ StartRestored
    BY <1>0, <1>4, <1>5, <1>6, <2>4
        DEF StartCandidate, StartRestored, Starts, Step, Working, Placed
  <2>5. CASE RestoreReceipt
    <3>1. disk' \in Disk /\ ~disk'.journal /\ disk'.phase = "prepared"
      BY <1>0, <1>4, <2>5 DEF RestoreReceipt, Disk
    <3>2. helper' \in Helper /\ helper'.step = "restoring"
      BY <1>0, <2>5, GotoDoes DEF RestoreReceipt, Step, Working, Went
    <3> QED BY <1>4, <2>5, <3>1, <3>2 DEF RestoreReceipt, Placed
  <2>6. CASE Keep
    <3>1. op \in Op BY <1>0, <2>6 DEF Keep, At, Placed
    <3>2. disk.tree \in [Op -> File] /\ disk.backup \in [Op -> File] /\ "none" \in File
      BY <1>4 DEF Disk, File
    <3>3. disk' \in {disk, [disk EXCEPT !.backup[op] = "none"],
                     [disk EXCEPT !.backup[op] = disk.tree[op], !.tree[op] = "none"]}
      BY <2>6 DEF Keep, Move
    <3>4. disk' \in Disk /\ ~disk'.journal /\ disk'.phase = "prepared"
      BY <1>0, <3>1, <3>2, <3>3, MovesDo
    <3>5. \E step \in {"placing", "applied", "rolling"} : Goto(step)
      BY <2>6 DEF Keep, Move
    <3> QED BY <1>4, <1>5, <2>6, <3>1, <3>4, <3>5 DEF Keep, Step, Working, op
  <2>7. CASE MovePlaced
    <3>1. op \in Op BY <1>0, <2>7 DEF MovePlaced, At, Placed
    <3>2. disk.tree \in [Op -> File] /\ {"none", "new"} \subseteq File /\ disk.backup \in [Op -> File]
      BY <1>4 DEF Disk, File
    <3>3. disk' \in {disk, [disk EXCEPT !.tree[op] = "none"],
                     [disk EXCEPT !.tree[op] = "new", !.payload = @ \ {op}]}
      BY <2>7 DEF MovePlaced, Move
    <3>4. disk' \in Disk /\ ~disk'.journal /\ disk'.phase = "prepared"
      BY <1>0, <3>1, <3>2, <3>3, MovesDo
    <3>5. \E step \in {"applied", "rolling"} : Goto(step)
      BY <2>7 DEF MovePlaced, Move
    <3> QED BY <1>4, <1>5, <2>7, <3>1, <3>4, <3>5 DEF MovePlaced, Step, Working, op
  <2>10. CASE Place
    <3>1. \E step \in {"moving", "applied", "rolling"} : Goto(step)
      BY <2>10 DEF Place
    <3>2. op \in Op BY <1>0, <2>10 DEF Place, At, Placed
    <3> QED BY <1>0, <1>4, <1>5, <2>10, <3>1, <3>2 DEF Place, Step, Working, op
  <2>8. CASE Undo
    <3>1. op \in Op BY <1>0, <2>8 DEF Undo, At, Placed
    <3>2. disk.tree \in [Op -> File] /\ disk.backup \in [Op -> File] /\ "none" \in File
      BY <1>4 DEF Disk, File
    <3>3. disk' \in {disk, [disk EXCEPT !.tree[op] = "none"],
                     [disk EXCEPT !.tree[op] = disk.backup[op], !.backup[op] = "none"]}
      BY <2>8 DEF Undo, Move
    <3>4. disk' \in Disk /\ ~disk'.journal /\ disk'.phase = "prepared"
      BY <1>0, <3>1, <3>2, <3>3, MovesDo
    <3>5. PICK ok \in BOOLEAN : Undone(ok)
      BY <2>8 DEF Undo, Move
    <3>6. helper' \in Helper /\ (helper'.step \in Placed => helper'.at \in Op)
      <4>1. op \in Nat /\ op >= 1 /\ (op > 1 => op - 1 \in Op) /\ op - 1 \in Nat
        BY <3>1, Plan
      <4>2. CASE op > 1 BY <1>4, <3>5, <4>1, <4>2 DEF Undone, Helper, op, Step, Working
      <4>3. CASE ~(op > 1)
        BY <1>4, <3>5, <4>1, <4>3 DEF Undone, Helper, op, Step, Working, Placed
      <4> QED BY <4>2, <4>3
    <3> QED BY <1>4, <2>8, <3>4, <3>6 DEF Undo
  <2> QED
    BY <1>7, <2>1, <2>2, <2>3, <2>4, <2>5, <2>6, <2>7, <2>8, <2>9, <2>10 DEF HelperStep
<1>8. CASE StartHelper \/ AwaitClaim \/ PromoteReceipt \/ Acknowledge \/ Kill \/ RecoverByHand
  <2>1. CASE StartHelper
    <3>1. disk' \in Disk /\ ~disk'.journal /\ disk'.phase = "prepared"
      BY <1>0, <1>4, <2>1 DEF StartHelper, Disk
    <3>2. UNCHANGED helper \/ (helper' \in Helper /\ helper'.step = "start")
      BY <1>0, <2>1, SpawnDoes DEF StartHelper, Went
    <3> QED BY <1>0, <1>4, <2>1, <3>1, <3>2 DEF StartHelper, ShellStep, Placed, op
  <2>2. CASE AwaitClaim
    BY <1>0, <1>4, <2>2 DEF AwaitClaim, ShellStep, op
  <2>3. CASE PromoteReceipt \/ Acknowledge
    <3>1. disk' \in {disk, [disk EXCEPT !.ack = TRUE],
                     [disk EXCEPT !.receipt = "new", !.staged = FALSE, !.kept = FALSE]}
      BY <2>3 DEF PromoteReceipt, Acknowledge
    <3>2. disk' \in Disk /\ ~disk'.journal /\ disk'.phase = "prepared"
      BY <1>0, <1>4, <3>1 DEF Disk
    <3> QED BY <1>0, <1>4, <2>3, <3>2 DEF PromoteReceipt, Acknowledge, op
  <2>4. CASE Kill
    BY <1>0, <1>4, <1>5, <2>4 DEF Kill, Placed
  <2>5. CASE RecoverByHand
    BY <1>0, <2>5 DEF RecoverByHand
  <2> QED BY <1>8, <2>1, <2>2, <2>3, <2>4, <2>5
<1>9. CASE Abandon
  BY <1>0, <1>4, <1>9, RemovedDoes DEF Abandon, ShellStep, Disk, op
<1>10. CASE \E b \in Build : Settle(b) \/ Quit(b)
  <2>1. CASE \E b \in Build : SettleRead(b)
    BY <1>0, <1>4, <2>1 DEF SettleRead, SettleStep, op
  <2>2. CASE \E b \in Build : SettleRemove(b)
    BY <1>0, <1>4, <2>2, RemovedDoes DEF SettleRemove, SettleStep, Disk, op
  <2>3. CASE \E b \in Build : Quit(b)
    BY <1>0, <1>4, <2>3 DEF Quit, Gone, op
  <2> QED BY <1>10, <2>1, <2>2, <2>3 DEF Settle
<1>11. CASE Launch
  <2>1. UNCHANGED <<disk, helper, answering, shell, answered>>
    BY <1>11 DEF Launch
  <2>2. running' \in SUBSET Build
        /\ settling' \in [Build -> {"idle", "reading", "removing", "clearing"}]
    BY <1>4, <1>6, <1>11 DEF Launch, Starts
  <2> QED BY <1>0, <1>4, <2>1, <2>2 DEF op
<1>12. CASE Appear
  <2>1. PICK o \in Op : disk' = [disk EXCEPT !.tree[o] = "foreign"]
    BY <1>12 DEF Appear
  <2>2. disk' \in Disk /\ ~disk'.journal /\ disk'.phase = "prepared"
    BY <1>0, <1>4, <2>1 DEF Disk, File
  <2> QED BY <1>0, <1>4, <1>12, <2>2 DEF Appear, op
<1> QED
  BY <1>7, <1>8, <1>9, <1>10, <1>11, <1>12 DEF Next

LEMMA StandKeeps ==
    ASSUME Sound, UNCHANGED vars
    PROVE  Sound'
<1> USE DEF vars
<1>1. Wrote(disk.phase, disk.result) /\ Went(helper.step, helper.at, helper.intact)
  BY NothingDoes, StandDoes DEF Sound
<1>10. Types'
  BY <1>1 DEF Sound, Types, Wrote, Went
<1>11. Held' /\ Moved' /\ SameFiles
  BY <1>1, FilesStay DEF Sound, Wrote
<1>12. Untouched'
  BY <1>1, <1>11 DEF Sound, SameFiles, Untouched
<1>13. Removal'
  BY <1>1, <1>11 DEF Sound, Done, SameFiles, Removal
<1>14. Recorded'
  BY <1>1, <1>11 DEF Sound, At, Recorded
<1>15. Alone'
  BY <1>1, <1>11 DEF Sound, Done, Amid, SameFiles, Alone
<1>16. Progress'
  BY <1>1, <1>11 DEF Sound, At, op, SameFiles, Progress
<1>17. Answer'
  BY <1>1, <1>11 DEF Sound, SameFiles, Answer
<1>18. Truth'
  BY <1>1, <1>11 DEF Sound, At, SameFiles, Truth
<1> QED
  BY <1>10, <1>11, <1>12, <1>13, <1>14, <1>15, <1>16, <1>17, <1>18 DEF Sound

\* IInv is the inductive invariant of the Windows transaction: Sound as long as no launch
\* settles it while the helper is among its files or after it died there, and also then
\* until the transaction is gone.
THEOREM InvariantHolds == Spec => []IInv
<1>1. Init => IInv
  BY InitInvariant DEF IInv
<1>2. IInv /\ [Next]_vars => IInv'
  BY NextKeeps, UnderminedKeeps, StandKeeps DEF IInv, Undermined, Types, op, vars
<1> QED
  BY <1>1, <1>2, PTL DEF Spec

\* Whatever move, write or start fails, wherever the helper dies, and however often
\* the transaction is replayed or undone, every file of the old build is in its place
\* or in the backup until the new build has answered (Invoke-Apply, Invoke-Rollback,
\* abandon and settle_previous_update between them).
THEOREM OldIsKeptHolds ==
    ASSUME ~SettlesAmid
    PROVE  Spec => []OldIsKept
<1>1. IInv => OldIsKept
  <2> SUFFICES ASSUME IInv, ~answered, NEW o \in Had
               PROVE  "old" \in {disk.tree[o], disk.backup[o]}
    BY DEF OldIsKept
  <2>0. Sound
    BY DEF IInv, Undermined
  <2>1. CASE disk.journal
    BY <2>0, <2>1 DEF Sound, Held, Had
  <2>2. CASE ~disk.journal
    BY <2>0, <2>2 DEF Sound, Removal, Done, AllOld, Had
  <2> QED
    BY <2>1, <2>2
<1> QED
  BY <1>1, InvariantHolds, PTL

\* The outcome that the helper recorded last is what the installation holds: a commit
\* only after an answer, a restoration with the old receipt or none (Invoke-Apply,
\* Invoke-Rollback, Restore-Receipt).  This is so whoever starts Hanly when, and however
\* often a person recovers a transaction that has its outcome.
THEOREM TruthfulOutcomeHolds == Spec => []TruthfulOutcome
<1>1. IInv => TruthfulOutcome
  BY DEF IInv, Undermined, Sound, Truth, TruthfulOutcome
<1> QED
  BY <1>1, InvariantHolds, PTL
=============================================================================
