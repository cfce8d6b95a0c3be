---------------------------- MODULE WindowsUpdate ----------------------------
(***************************************************************************)
(* Replacing a Windows installation file by file: the PowerShell helper    *)
(* (_HELPER in updates/helper.py), the application that hands it the       *)
(* transaction (TreeUpdateRunner), the new build that answers for itself   *)
(* (confirm_started_v2), the launch that settles what an earlier run left  *)
(* (settle_previous_update), and the recovery a person runs.               *)
(*                                                                         *)
(* An operation is one file of the plan; what is abstracted of a file is   *)
(* which build it belongs to.  The helper may die between any two of its   *)
(* steps, and a file that is moved onto another is first deleted.          *)
(***************************************************************************)
EXTENDS Integers, Sequences

CONSTANTS Kinds,        \* the plan: the kind of every operation, in its order
          Program,      \* the operation that replaces the executable
          MaxFaults,    \* bound: moves, writes and starts that fail, files that appear
          MaxKills,     \* bound: helpers that die before they are done
          SettlesAmid   \* whether a launch settles what it finds while the helper is
                        \* among its files, or after it died there

Op == 1..Len(Kinds)
ASSUME PlanAssumption ==
    /\ Kinds \in Seq({"add", "replace", "delete"})
    /\ Program \in Op /\ Kinds[Program] = "replace"
    /\ MaxFaults \in Nat /\ MaxKills \in Nat /\ SettlesAmid \in BOOLEAN

VARIABLES
    disk,      \* the installation, the transaction's directory and the receipts
    helper,    \* the helper process
    running,   \* which builds have a process: "mixed" is made of both
    answering, \* how far the launched candidate is with its answer
    shell,     \* where the application that started the update is
    settling,  \* where the settlement of each build's launch is
    faults, kills,
    answered   \* history: the new build has answered the challenge

vars == <<disk, helper, running, answering, shell, settling, faults, kills, answered>>

Build == {"old", "new", "mixed"}
\* "foreign": a file that appeared after the plan was made
File == {"none", "old", "new", "foreign"}
Unsettled == {"applying", "awaiting-startup", "rolling-back", "recovery-required"}
Idle == [step |-> "idle", at |-> 0, recover |-> FALSE, intact |-> TRUE]

Had == {o \in Op : Kinds[o] # "add"}          \* files the old build has
Gets == {o \in Op : Kinds[o] # "delete"}      \* files the new build has
AllOld == \A o \in Op : IF o \in Had THEN disk.tree[o] = "old" ELSE disk.tree[o] # "new"
\* What stands where an addition is no longer staged is taken for the addition.
AllNew == \A o \in Op : \/ disk.tree[o] = IF o \in Gets THEN "new" ELSE "none"
                        \/ disk.tree[o] = "foreign" /\ o \notin Had \cup disk.payload
Whole == AllOld \/ AllNew

Init ==
    /\ disk = [tree |-> [o \in Op |-> IF o \in Had THEN "old" ELSE "none"],
               payload |-> Gets,
               backup |-> [o \in Op |-> "none"],
               journal |-> TRUE,             \* the directory and its plan
               phase |-> "prepared",         \* of the last progress record
               result |-> "none", claim |-> FALSE, ack |-> FALSE,
               pointer |-> FALSE,            \* pending.json names the transaction
               receipt |-> "old", staged |-> TRUE, kept |-> TRUE]
    /\ helper = Idle
    /\ running = {"old"} /\ answering = "no"
    /\ shell = "staged"
    /\ settling = [b \in Build |-> "idle"]
    /\ faults = 0 /\ kills = 0 /\ answered = FALSE

appVars == <<running, answering, shell, settling>>

Fault == faults < MaxFaults /\ faults' = faults + 1
NoFault == UNCHANGED faults
NoChange == UNCHANGED disk
NoKill == UNCHANGED <<kills, answered>>

-----------------------------------------------------------------------------
(* The helper *)

At(step) == helper.step = step
Goto(step) == helper' = [helper EXCEPT !.step = step]
Exit == helper' = Idle

Spawn(recover) == At("idle") /\ helper' = [Idle EXCEPT !.step = "start", !.recover = recover]

\* The catch clause records, too, and what it meets there is the end of the helper.
Throw ==
    /\ Fault /\ Exit
    /\ disk' = [disk EXCEPT !.phase = "recovery-required", !.result = "recovery-required"]

\* Write-Record: one line appended to a file of the transaction's directory.
Record(phase, next) ==
    \/ disk.journal /\ disk' = [disk EXCEPT !.phase = phase] /\ NoFault /\ next
    \/ disk.journal /\ Throw
    \/ ~disk.journal /\ NoChange /\ NoFault /\ Exit

\* Move-FileWithRetry: onto what may be there, which is deleted first.
Move(moved, deleted, done, failed) ==
    \/ disk' = moved /\ NoFault /\ done
    \/ disk' \in {disk, deleted} /\ Fault /\ failed

\* The plan is read, then the claim written over any other.
Claim ==
    /\ At("start")
    /\ IF disk.journal THEN disk' = [disk EXCEPT !.claim = TRUE] /\ Goto("waiting")
                       ELSE NoChange /\ Exit
    /\ NoFault /\ NoKill /\ UNCHANGED appVars

\* The processes of the installation end, and what they were doing with them.
Gone(builds) ==
    /\ running' = running \ builds
    /\ answering' = IF "new" \in builds THEN "no" ELSE answering
    /\ shell' = IF "old" \in builds THEN "gone" ELSE shell
    /\ settling' = [b \in Build |-> IF b \in builds THEN "idle" ELSE settling[b]]

\* Wait-ForInstallToBeFree: a recovery that waited long enough stops what runs.
WaitForInstallToBeFree ==
    /\ At("waiting")
    /\ \/ running = {} /\ Goto("applying") /\ NoChange /\ NoFault /\ UNCHANGED appVars
       \/ running # {} /\ helper.recover /\ Gone(running) /\ Goto("applying")
          /\ NoChange /\ NoFault
       \/ /\ running # {} /\ UNCHANGED appVars
          /\ IF helper.recover THEN Fault ELSE NoFault
          /\ Exit
          /\ disk' = IF disk.journal THEN [disk EXCEPT !.phase = "recovery-required",
                                                       !.result = "recovery-required"]
                     ELSE disk
    /\ NoKill

(* Invoke-Apply *)

BeginApply ==
    /\ At("applying")
    /\ Record("applying", helper' = [helper EXCEPT !.step = "operation", !.at = 1])
    /\ NoKill /\ UNCHANGED appVars

op == helper.at
Present(file) == file # "none"

RecordOperation ==
    /\ At("operation")
    /\ Record("operation", Goto(IF op \in Had THEN "keeping" ELSE "placing"))
    /\ NoKill /\ UNCHANGED appVars

KeepAgain ==    \* mutant: a replay moves the file aside once more
    /\ At("keeping")
    /\ IF Present(disk.tree[op])
         THEN Move([disk EXCEPT !.backup[op] = disk.tree[op], !.tree[op] = "none"],
                   [disk EXCEPT !.backup[op] = "none"],
                   Goto(IF op \in Gets THEN "placing" ELSE "applied"), Goto("rolling"))
         ELSE Goto(IF op \in Gets THEN "placing" ELSE "applied") /\ NoChange /\ NoFault
    /\ NoKill /\ UNCHANGED appVars

\* The previous file is moved aside: a replacement does so once.
Keep ==
    /\ At("keeping")
    /\ IF Present(disk.tree[op]) /\ (op \in Gets => ~Present(disk.backup[op]))
         THEN Move([disk EXCEPT !.backup[op] = disk.tree[op], !.tree[op] = "none"],
                   [disk EXCEPT !.backup[op] = "none"],
                   Goto(IF op \in Gets THEN "placing" ELSE "applied"), Goto("rolling"))
         ELSE Goto(IF op \in Gets THEN "placing" ELSE "applied") /\ NoChange /\ NoFault
    /\ NoKill /\ UNCHANGED appVars

\* A staged file is about to take its place, unless it is an addition and something
\* stands there; one that is no longer staged has taken it, or there is no going on.
Place ==
    /\ At("placing")
    /\ Goto(CASE op \in disk.payload /\ (op \in Had \/ ~Present(disk.tree[op])) -> "moving"
             [] op \notin disk.payload /\ Present(disk.tree[op]) -> "applied"
             [] OTHER -> "rolling")
    /\ NoChange /\ NoFault /\ NoKill /\ UNCHANGED appVars

MovePlaced ==
    /\ At("moving")
    /\ Move([disk EXCEPT !.tree[op] = "new", !.payload = @ \ {op}],
            [disk EXCEPT !.tree[op] = "none"], Goto("applied"), Goto("rolling"))
    /\ NoKill /\ UNCHANGED appVars

RecordApplied ==
    /\ At("applied")
    /\ Record("applied", IF op = Len(Kinds) THEN Goto("awaiting")
                         ELSE helper' = [helper EXCEPT !.step = "operation", !.at = op + 1])
    /\ NoKill /\ UNCHANGED appVars

(* The new build is started, and answers or does not. *)

BeginStartup ==
    /\ At("awaiting") /\ Record("awaiting-startup", Goto("clearing"))
    /\ NoKill /\ UNCHANGED appVars

ClearAcknowledgement ==
    /\ At("clearing") /\ Goto("launching")
    /\ \/ disk' = [disk EXCEPT !.ack = FALSE] /\ NoFault
       \/ NoChange /\ Fault
    /\ NoKill /\ UNCHANGED appVars

Starts(build) ==
    /\ running' = running \cup {build}
    /\ settling' = [settling EXCEPT ![build] = "reading"]
Executable == disk.tree[Program]
Startable == IF AllOld THEN "old" ELSE IF AllNew THEN "new" ELSE "mixed"

\* Start-Candidate: null when it cannot be started.
StartCandidate ==
    /\ At("launching")
    /\ \/ /\ Present(Executable) /\ NoFault
          /\ Starts(Startable) /\ Goto("watching")
          /\ answering' = IF Startable = "new" THEN "asked" ELSE answering
       \/ /\ IF Present(Executable) THEN Fault ELSE NoFault
          /\ Goto("unstarted") /\ UNCHANGED <<running, answering, settling>>
    /\ NoChange /\ NoKill /\ UNCHANGED shell

CommitUnanswered ==    \* mutant: a candidate that still runs is taken for one that answered
    /\ helper.step \in {"watching", "unstarted"}
    /\ Goto(CASE disk.ack \/ At("watching") -> "committing" [] OTHER -> "rolling")
    /\ NoChange /\ NoFault /\ NoKill /\ UNCHANGED appVars

\* Wait-ForStartup: the answer is there, or time is up or the candidate gone.
WaitForStartup ==
    /\ helper.step \in {"watching", "unstarted"}
    /\ Goto(IF disk.ack THEN "committing" ELSE IF At("watching") THEN "stopping" ELSE "rolling")
    /\ NoChange /\ NoFault /\ NoKill /\ UNCHANGED appVars

Commit ==
    /\ At("committing") /\ Record("committed", Goto("result"))
    /\ NoKill /\ UNCHANGED appVars

StopInstallProcesses ==
    /\ At("stopping") /\ Gone(running) /\ Goto("rolling")
    /\ NoChange /\ NoFault /\ NoKill

(* Invoke-Rollback *)

BeginRollback ==
    /\ At("rolling")
    /\ Record("rolling-back",
              helper' = [helper EXCEPT !.step = "undoing", !.at = Len(Kinds), !.intact = TRUE])
    /\ NoKill /\ UNCHANGED appVars

Undone(ok) ==
    helper' = [helper EXCEPT !.intact = @ /\ ok, !.at = op - 1,
                             !.step = IF op > 1 THEN "undoing"
                                      ELSE IF helper.intact /\ ok THEN "receipt"
                                      ELSE "incomplete"]

UndoPresent ==    \* mutant: only a file that is still there is put back over
    /\ At("undoing")
    /\ \/ /\ op \notin Had /\ Present(disk.tree[op]) /\ op \notin disk.payload
          /\ Move([disk EXCEPT !.tree[op] = "none"], disk, Undone(TRUE), Undone(FALSE))
       \/ /\ op \in Had /\ Present(disk.backup[op]) /\ (op \in Gets => Present(disk.tree[op]))
          /\ Move([disk EXCEPT !.tree[op] = disk.backup[op], !.backup[op] = "none"],
                  [disk EXCEPT !.tree[op] = "none"], Undone(TRUE), Undone(FALSE))
       \/ /\ IF op \in Had THEN ~(Present(disk.backup[op]) /\ (op \in Gets => Present(disk.tree[op])))
             ELSE ~Present(disk.tree[op]) \/ op \in disk.payload
          /\ Undone(op \in Had => ~Present(disk.backup[op])) /\ NoChange /\ NoFault
    /\ NoKill /\ UNCHANGED appVars

\* Backwards: an addition that was made is deleted, a file that was moved aside
\* goes back, and there is nothing to do for the others.
Undo ==
    /\ At("undoing")
    /\ \/ /\ op \notin Had /\ Present(disk.tree[op]) /\ op \notin disk.payload
          /\ Move([disk EXCEPT !.tree[op] = "none"], disk, Undone(TRUE), Undone(FALSE))
       \/ /\ op \in Had /\ Present(disk.backup[op])
          /\ Move([disk EXCEPT !.tree[op] = disk.backup[op], !.backup[op] = "none"],
                  [disk EXCEPT !.tree[op] = "none"], Undone(TRUE), Undone(FALSE))
       \/ /\ IF op \in Had THEN ~Present(disk.backup[op])
             ELSE ~Present(disk.tree[op]) \/ op \in disk.payload
          /\ Undone(TRUE) /\ NoChange /\ NoFault
    /\ NoKill /\ UNCHANGED appVars

RestoreReceipt ==
    /\ At("receipt") /\ Goto("restoring")
    /\ disk' = [disk EXCEPT !.receipt = IF disk.kept THEN "old" ELSE "none",
                            !.kept = FALSE, !.staged = FALSE]
    /\ NoFault /\ NoKill /\ UNCHANGED appVars

EndRollback ==
    /\ \/ At("restoring") /\ Record("restored", Goto("result"))
       \/ At("incomplete") /\ Record("recovery-required", Goto("result"))
    /\ NoKill /\ UNCHANGED appVars

\* Write-Result repeats the phase that was recorded last.
WriteResult ==
    /\ At("result")
    /\ \/ /\ disk.journal /\ disk' = [disk EXCEPT !.result = disk.phase] /\ NoFault
          /\ IF disk.phase = "restored" THEN Goto("relaunch") ELSE Exit
       \/ disk.journal /\ Throw
       \/ ~disk.journal /\ NoChange /\ NoFault /\ Exit
    /\ NoKill /\ UNCHANGED appVars

StartRestored ==
    /\ At("relaunch") /\ Exit
    /\ \/ Present(Executable) /\ Starts(Startable) /\ NoFault
       \/ /\ IF Present(Executable) THEN Fault ELSE NoFault
          /\ UNCHANGED <<running, settling>>
    /\ NoChange /\ NoKill /\ UNCHANGED <<answering, shell>>

HelperStep ==
    \/ Claim \/ WaitForInstallToBeFree
    \/ BeginApply \/ RecordOperation \/ Keep \/ Place \/ MovePlaced \/ RecordApplied
    \/ BeginStartup \/ ClearAcknowledgement \/ StartCandidate \/ WaitForStartup
    \/ Commit \/ StopInstallProcesses
    \/ BeginRollback \/ Undo \/ RestoreReceipt \/ EndRollback
    \/ WriteResult \/ StartRestored

-----------------------------------------------------------------------------
(* The application that hands the transaction over *)

ShellStep(from, to) == shell = from /\ shell' = to /\ UNCHANGED <<running, answering, settling>>

\* start_helper: the recovery copy, then the process.
StartHelper ==
    /\ \/ ShellStep("staged", "waiting") /\ Spawn(FALSE) /\ NoFault
       \/ ShellStep("staged", "abandoning") /\ UNCHANGED helper /\ Fault
    /\ disk' = [disk EXCEPT !.pointer = TRUE]
    /\ NoKill

\* await_claim: the claim is there, or the helper ended or took too long.
AwaitClaim ==
    /\ ShellStep("waiting", IF disk.claim THEN "owned" ELSE "abandoning")
    /\ NoChange /\ NoFault /\ NoKill /\ UNCHANGED helper

Removed == [disk EXCEPT !.journal = FALSE, !.payload = {}, !.claim = FALSE,
                        !.backup = [o \in Op |-> "none"],
                        !.phase = "prepared", !.result = "none"]
IsSettled == disk.phase \notin Unsettled

\* abandon: the transaction, the recovery copy and the staged receipt.
Abandon ==
    /\ \/ /\ ShellStep("abandoning", "forgetting")
          /\ disk' = IF IsSettled THEN Removed ELSE disk
       \/ /\ ShellStep("forgetting", "over")
          /\ disk' = [disk EXCEPT !.pointer = FALSE, !.staged = FALSE, !.kept = FALSE]
    /\ NoFault /\ NoKill /\ UNCHANGED helper

-----------------------------------------------------------------------------
(* confirm_started_v2, in the candidate *)

\* promote_pending, which does nothing twice
PromoteReceipt ==
    /\ answering = "asked" /\ answering' = IF disk.staged THEN "promoted" ELSE "no"
    /\ disk' = IF disk.staged
                 THEN [disk EXCEPT !.receipt = "new", !.staged = FALSE, !.kept = FALSE]
                 ELSE disk
    /\ NoFault /\ UNCHANGED <<helper, running, shell, settling, kills, answered>>

Acknowledge ==
    /\ answering = "promoted" /\ answering' = "no"
    /\ disk' = [disk EXCEPT !.ack = TRUE] /\ answered' = TRUE
    /\ NoFault /\ UNCHANGED <<helper, running, shell, settling, kills>>

-----------------------------------------------------------------------------
(* settle_previous_update, in whatever build is launched *)

SettleStep(b, from, to) ==
    /\ settling[b] = from /\ settling' = [settling EXCEPT ![b] = to]
    /\ UNCHANGED <<running, answering, shell>>

\* _hand_back: a helper that claimed and lives is left alone.
HandBack ==
    IF helper.step \notin {"idle", "start"} \/ ~disk.pointer
      THEN UNCHANGED helper /\ NoFault
      ELSE \/ Spawn(TRUE) /\ NoFault
           \/ UNCHANGED helper /\ Fault

SettleRead(b) ==
    /\ \/ ~disk.journal /\ SettleStep(b, "reading", "clearing") /\ UNCHANGED helper /\ NoFault
       \/ disk.journal /\ IsSettled
          /\ SettleStep(b, "reading", "removing") /\ UNCHANGED helper /\ NoFault
       \/ disk.journal /\ ~IsSettled /\ SettleStep(b, "reading", "idle") /\ HandBack
    /\ NoChange /\ NoKill

SettleRemove(b) ==
    /\ \/ SettleStep(b, "removing", "clearing") /\ disk' = [Removed EXCEPT !.ack = FALSE]
       \/ SettleStep(b, "clearing", "idle") /\ disk' = [disk EXCEPT !.pointer = FALSE]
    /\ NoFault /\ NoKill /\ UNCHANGED helper

Settle(b) == SettleRead(b) \/ SettleRemove(b)

-----------------------------------------------------------------------------
(* The person, and the machine *)

Amid ==
    \/ helper.step \in {"applying", "operation", "keeping", "placing", "moving", "applied",
                       "awaiting"}
    \/ disk.phase \in {"operation", "applied"}

\* bound: a helper that was started claims before somebody starts Hanly again.
\* A launch settles what an earlier run left, or it does not.
Launch ==
    /\ running = {} /\ Present(Executable)
    /\ ~At("start")
    /\ \/ (Amid => SettlesAmid) /\ Starts(Startable)
       \/ running' = {Startable} /\ UNCHANGED settling
    /\ NoChange /\ NoFault /\ NoKill /\ UNCHANGED <<helper, answering, shell>>

Quit(b) ==
    /\ b \in running /\ Gone({b})
    /\ NoChange /\ NoFault /\ NoKill /\ UNCHANGED helper

\* "Finish Hanly update.cmd": the pointer is all it looks at, so it may be run on an
\* update that is committed, too.  bound: not beside another helper.
RecoverByHand ==
    /\ disk.pointer /\ disk.journal /\ Spawn(TRUE)
    /\ NoChange /\ NoFault /\ NoKill /\ UNCHANGED appVars

\* Something puts a file where the plan adds one, at any time.  bound: never where a
\* file of the old build was moved aside.
Appear ==
    /\ Fault
    /\ \E o \in Op \ Had : /\ disk.tree[o] = "none"
                           /\ disk' = [disk EXCEPT !.tree[o] = "foreign"]
    /\ NoKill /\ UNCHANGED <<helper, appVars>>

Kill ==
    /\ kills < MaxKills /\ kills' = kills + 1
    /\ ~At("idle") /\ Exit
    /\ NoChange /\ NoFault /\ UNCHANGED <<appVars, answered>>

Next ==
    \/ HelperStep \/ Kill
    \/ StartHelper \/ AwaitClaim \/ Abandon
    \/ PromoteReceipt \/ Acknowledge
    \/ \E b \in Build : Settle(b) \/ Quit(b)
    \/ Launch \/ RecoverByHand \/ Appear

Fairness ==
    /\ WF_vars(HelperStep) /\ \A b \in Build : WF_vars(Settle(b))
    /\ WF_vars(~Whole /\ RecoverByHand)    \* a person asked to finish it does

Spec == Init /\ [][Next]_vars /\ Fairness

-----------------------------------------------------------------------------
(* Properties *)

Phase == Unsettled \cup {"prepared", "operation", "applied", "committed", "restored"}

\* Until the new build has answered, every file the old one has is in its place
\* or in the transaction's backup, whatever fails, dies, is replayed or is undone.
OldIsKept == answered \/ \A o \in Had : "old" \in {disk.tree[o], disk.backup[o]}

\* The outcome recorded last is what the installation holds, although the recovery may
\* be run on a transaction that has one: a commit, with the new build whole and after
\* it answered; a restoration, with every previous file back and a receipt that does
\* not describe the build that was taken away.
TruthfulOutcome ==
    /\ disk.phase = "committed" => AllNew /\ answered /\ disk.receipt = "new"
    /\ disk.phase = "restored" => AllOld /\ disk.receipt # "new"

\* Invoke-Apply: what "appeared since the plan was made" where a file is added "has no
\* backup, so it is not ours to overwrite".
ForeignIsKept == [][\A o \in Op : disk.tree[o] = "foreign" => disk'.tree[o] = "foreign"]_vars

\* An installation left between two builds becomes one of them, as long as the
\* transaction and the pointer to it are there and a person runs the recovery.
InstallationReturns ==
    ~Whole /\ disk.pointer /\ disk.journal ~> Whole \/ ~disk.pointer \/ ~disk.journal
=============================================================================
