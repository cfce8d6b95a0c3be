----------------------------- MODULE PosixUpdate -----------------------------
(***************************************************************************)
(* Replacing a macOS or Linux installation: the native helper              *)
(* (hanly-update-posix.c), the application that hands it the transaction   *)
(* (TreeUpdateRunner), the new build that answers for itself               *)
(* (confirm_started_v2) and the launch that settles what an earlier run    *)
(* left (settle_native_update).                                            *)
(*                                                                         *)
(* A tree is a directory: which build it is and whether it is whole.       *)
(* Identity is the inode, which a tree keeps when its contents are being   *)
(* deleted.  Crashes kill a helper or cut the power.                       *)
(***************************************************************************)
EXTENDS Integers, FiniteSets

CONSTANTS Helpers,      \* bound: helper processes alive at the same time
          MaxFaults,    \* bound: system calls that fail in one behaviour
          MaxCrashes    \* bound: helpers killed and power cuts in one behaviour

ASSUME UpdateAssumption ==
    /\ Helpers \cap {"none", "probe"} = {}
    /\ MaxFaults \in Nat /\ MaxCrashes \in Nat

VARIABLES
    fs,         \* what the file system shows: trees and small files, below
    images,     \* what a power cut may leave of it
    lock,       \* who holds the installation's flock
    pc,         \* where each helper process is
    mode,       \* whether it applies or recovers
    verdict,    \* the outcome it is about to write
    running,    \* builds with a live process
    shell,      \* where the application that started the update is
    answering,  \* how far the launched candidate is with its answer
    settler,    \* where the settlement of each build's launch is
    faults, crashes,
    answered,   \* history: the candidate has answered the challenge
    discarded   \* history: material of an unresolved transaction was deleted

vars == <<fs, images, lock, pc, mode, verdict, running, shell, answering, settler,
          faults, crashes, answered, discarded>>

Build == {"old", "new", "other"}       \* "other": put there by hand
Tree == Build \cup {"none", "old_torn", "new_torn"}
Torn(tree) == CASE tree = "old" -> "old_torn" [] tree = "new" -> "new_torn" [] OTHER -> tree
Outcome == {"none", "committed", "restored", "recovery-required", "abandoned"}

\* identity_matches
Is(tree, build) == tree \in {build, Torn(build)}

Init ==
    /\ fs = [install |-> "old", candidate |-> "new", backup |-> "none",
             rejected |-> "none",
             staging |-> "whole",     \* the transaction's own directory
             result |-> "none", ack |-> FALSE,
             pending |-> FALSE,       \* pending.json names the transaction
             receipt |-> "old",       \* the build the receipt describes
             staged |-> TRUE]         \* a receipt waits for the new build
    /\ images = {fs}
    /\ lock = "none"
    /\ pc = [h \in Helpers |-> "idle"]
    /\ mode = [h \in Helpers |-> "apply"]
    /\ verdict = [h \in Helpers |-> "none"]
    /\ running = {"old"}
    /\ shell = "staged" /\ answering = "no"
    /\ settler = [b \in Build |-> "idle"]
    /\ faults = 0 /\ crashes = 0
    /\ answered = FALSE /\ discarded = FALSE

helperVars == <<pc, mode, verdict>>
appVars == <<running, shell, answering, settler>>
historyVars == <<crashes, answered, discarded>>

(* A change reaches the disk some time after those made before it, and no      *)
(* later than the next sync.                                                   *)

Change(new) == fs' = new /\ images' = images \cup {new}
DurableUnsynced(new) == fs' = new /\ UNCHANGED images   \* mutant: nothing is flushed
Durable(new) == fs' = new /\ images' = {new}
NoChange == UNCHANGED <<fs, images>>

Fault == faults < MaxFaults /\ faults' = faults + 1
NoFault == UNCHANGED faults

-----------------------------------------------------------------------------
(* The helper *)

Goto(h, step) == pc' = [pc EXCEPT ![h] = step] /\ UNCHANGED <<mode, verdict>>

Conclude(h, outcome) ==
    /\ pc' = [pc EXCEPT ![h] = "writing"]
    /\ verdict' = [verdict EXCEPT ![h] = outcome]
    /\ UNCHANGED mode

Exit(h) ==
    /\ pc' = [pc EXCEPT ![h] = "idle"]
    /\ mode' = [mode EXCEPT ![h] = "apply"]
    /\ verdict' = [verdict EXCEPT ![h] = "none"]
    /\ lock' = IF lock = h THEN "none" ELSE lock

Spawn(h, how) ==
    /\ pc[h] = "idle"
    /\ pc' = [pc EXCEPT ![h] = "start"]
    /\ mode' = [mode EXCEPT ![h] = how]
    /\ UNCHANGED verdict

\* main: the descriptor is read whole, then the lock is tried once.
ReadDescriptor(h) ==
    /\ pc[h] = "start"
    /\ \/ fs.staging # "gone" /\ Goto(h, "claim") /\ UNCHANGED lock
       \/ fs.staging # "whole" /\ Exit(h)
    /\ NoChange /\ NoFault
    /\ UNCHANGED <<appVars, historyVars>>

ClaimLock(h) ==
    /\ pc[h] = "claim"
    /\ IF lock = "none"
         THEN lock' = h /\ Goto(h, IF mode[h] = "apply" THEN "waiting" ELSE "inspect")
         ELSE Exit(h)
    /\ NoChange /\ NoFault
    /\ UNCHANGED <<appVars, historyVars>>

(* apply_update *)

\* wait_for_exit: nothing runs out of the installation, or it took too long.
WaitForExit(h) ==
    /\ pc[h] = "waiting"
    /\ \/ shell = "gone" /\ running = {} /\ Goto(h, "checking")
       \/ Conclude(h, "abandoned")
    /\ NoChange /\ NoFault
    /\ UNCHANGED <<lock, appVars, historyVars>>

CheckIdentities(h) ==
    /\ pc[h] = "checking"
    /\ IF Is(fs.install, "old") /\ Is(fs.candidate, "new")
         THEN Goto(h, "backing_up")
         ELSE Conclude(h, "abandoned")
    /\ NoChange /\ NoFault
    /\ UNCHANGED <<lock, appVars, historyVars>>

\* move_directory: a rename onto nothing, then the sync of both parents.
CanMove(from, to) == fs[from] # "none" /\ fs[to] = "none" /\ fs.staging # "gone"
Moved(from, to) == [fs EXCEPT ![to] = fs[from], ![from] = "none"]

Move(from, to, durable, uncertain, failed) ==
    \/ CanMove(from, to) /\ Durable(Moved(from, to)) /\ NoFault /\ durable
    \/ CanMove(from, to) /\ Change(Moved(from, to)) /\ Fault /\ uncertain
    \/ CanMove(from, to) /\ NoChange /\ Fault /\ failed
    \/ ~CanMove(from, to) /\ NoChange /\ NoFault /\ failed

BackUp(h) ==
    /\ pc[h] = "backing_up"
    /\ Move("install", "backup", Goto(h, "installing"),
            Conclude(h, "recovery-required"), Conclude(h, "abandoned"))
    /\ UNCHANGED <<lock, appVars, historyVars>>

InstallForgetsRollback(h) ==    \* mutant: a failed installation is abandoned
    /\ pc[h] = "installing"
    /\ Move("candidate", "install", Goto(h, "clearing"), Goto(h, "rb_check"),
            Conclude(h, "abandoned"))
    /\ UNCHANGED <<lock, appVars, historyVars>>

Install(h) ==
    /\ pc[h] = "installing"
    /\ Move("candidate", "install", Goto(h, "clearing"), Goto(h, "rb_check"),
            Goto(h, "rb_check"))
    /\ UNCHANGED <<lock, appVars, historyVars>>

ClearAcknowledgement(h) ==
    /\ pc[h] = "clearing"
    /\ \/ Change([fs EXCEPT !.ack = FALSE]) /\ NoFault /\ Goto(h, "launching")
       \/ NoChange /\ Fault /\ Goto(h, "rb_check")
    /\ UNCHANGED <<lock, appVars, historyVars>>

\* A launch settles what an earlier run left, once.
Launched(build) ==
    /\ running' = running \cup {build}
    /\ settler' = [settler EXCEPT ![build] = "reading"]

\* Builds leave: what they were doing ends with them, a probe of the lock included.
Gone(builds) ==
    /\ running' = running \ builds
    /\ answering' = IF "new" \in builds THEN "no" ELSE answering
    /\ shell' = IF "old" \in builds THEN "gone" ELSE shell
    /\ settler' = [b \in Build |-> IF b \in builds THEN "idle" ELSE settler[b]]
    /\ lock' = IF /\ lock = "probe" /\ shell' # "probing"
                   /\ \A b \in Build : settler'[b] # "probing"
                 THEN "none" ELSE lock

LaunchCandidate(h) ==
    /\ pc[h] = "launching"
    /\ \/ /\ fs.install \in Build /\ NoFault
          /\ Launched(fs.install)
          /\ answering' = IF fs.install = "new" THEN "asked" ELSE answering
          /\ Goto(h, "watching")
       \/ /\ IF fs.install \in Build THEN Fault ELSE NoFault
          /\ Goto(h, "rb_check")
          /\ UNCHANGED <<running, settler, answering>>
    /\ NoChange
    /\ UNCHANGED <<lock, shell, historyVars>>

CommitUnanswered(h) ==    \* mutant: the deadline is taken for an answer
    /\ pc[h] = "watching"
    /\ Conclude(h, "committed")
    /\ NoChange /\ NoFault
    /\ UNCHANGED <<lock, appVars, historyVars>>

\* wait_for_startup: the exact answer is there, or it is not and time is up.
WaitForStartup(h) ==
    /\ pc[h] = "watching"
    /\ IF fs.ack THEN Conclude(h, "committed") ELSE Goto(h, "rb_check")
    /\ NoChange /\ NoFault
    /\ UNCHANGED <<lock, appVars, historyVars>>

(* roll_back *)

Exchanged == Is(fs.backup, "old") /\ (fs.install # "none" => Is(fs.install, "new"))

CheckRollback(h) ==
    /\ pc[h] = "rb_check"
    /\ IF Exchanged
         THEN Goto(h, IF fs.install = "none" THEN "rb_recheck" ELSE "rb_stop")
         ELSE Conclude(h, "recovery-required")
    /\ NoChange /\ NoFault
    /\ UNCHANGED <<lock, appVars, historyVars>>

StopProcesses(h) ==
    /\ pc[h] = "rb_stop"
    /\ \/ Gone(running \cap {fs.install}) /\ NoFault /\ Goto(h, "rb_recheck")
       \/ Fault /\ Conclude(h, "recovery-required") /\ UNCHANGED <<lock, appVars>>
    /\ NoChange
    /\ UNCHANGED historyVars

RecheckRollback(h) ==
    /\ pc[h] = "rb_recheck"
    /\ IF Exchanged THEN Goto(h, "rb_reject") ELSE Conclude(h, "recovery-required")
    /\ NoChange /\ NoFault
    /\ UNCHANGED <<lock, appVars, historyVars>>

Reject(h) ==
    /\ pc[h] = "rb_reject"
    /\ IF fs.install = "none"
         THEN NoChange /\ NoFault /\ Goto(h, "rb_restore")
         ELSE Move("install", "rejected", Goto(h, "rb_restore"),
                   Conclude(h, "recovery-required"), Conclude(h, "recovery-required"))
    /\ UNCHANGED <<lock, appVars, historyVars>>

PutBack(h) ==
    Move("backup", "install", Conclude(h, "restored"),
         Conclude(h, "recovery-required"), Conclude(h, "recovery-required"))

Restore(h) ==
    /\ pc[h] = "rb_restore"
    /\ IF fs.install = "none" THEN PutBack(h)
       ELSE NoChange /\ NoFault /\ Conclude(h, "restored")
    /\ UNCHANGED <<lock, appVars, historyVars>>

(* recover_update: what is there decides. *)

InspectInstalled(h) ==
    \/ /\ ~Is(fs.install, "old")
       /\ NoChange /\ NoFault /\ Conclude(h, "recovery-required")
    \/ /\ Is(fs.install, "old") /\ fs.rejected # "none"
       /\ \/ Durable(fs) /\ NoFault /\ Conclude(h, "restored")
          \/ NoChange /\ Fault /\ Conclude(h, "recovery-required")
    \/ /\ Is(fs.install, "old") /\ fs.rejected = "none"
       /\ NoChange /\ NoFault /\ Conclude(h, "abandoned")

LeaveBackedUp(h) ==    \* mutant: a missing installation is left to a person
    NoChange /\ NoFault /\ Conclude(h, "recovery-required")

InspectBackedUp(h) ==
    \/ Is(fs.backup, "old") /\ PutBack(h)
    \/ ~Is(fs.backup, "old") /\ NoChange /\ NoFault /\ Conclude(h, "recovery-required")

InspectBoth(h) ==
    /\ IF ~Exchanged THEN Conclude(h, "recovery-required")
       ELSE IF fs.ack THEN Conclude(h, "committed") ELSE Goto(h, "rb_check")
    /\ NoChange /\ NoFault

Inspect(h) ==
    /\ pc[h] = "inspect"
    /\ \/ fs.install # "none" /\ fs.backup = "none" /\ InspectInstalled(h)
       \/ fs.install = "none" /\ fs.backup # "none" /\ InspectBackedUp(h)
       \/ fs.install # "none" /\ fs.backup # "none" /\ InspectBoth(h)
       \/ /\ fs.install = "none" /\ fs.backup = "none"
          /\ NoChange /\ NoFault /\ Conclude(h, "recovery-required")
    /\ UNCHANGED <<lock, appVars, historyVars>>

\* write_result: a temporary file, flushed, renamed, its directory synced.
WriteResult(h) ==
    /\ pc[h] = "writing"
    /\ LET written == [fs EXCEPT !.result = verdict[h]]
       IN  IF fs.staging = "gone" THEN NoChange /\ NoFault
           ELSE \/ Durable(written) /\ NoFault
                \/ Fault /\ (NoChange \/ Change(written))
    /\ IF verdict[h] = "restored" THEN Goto(h, "relaunch") /\ UNCHANGED lock ELSE Exit(h)
    /\ UNCHANGED <<appVars, historyVars>>

LaunchRestored(h) ==
    /\ pc[h] = "relaunch"
    /\ \/ fs.install \in Build /\ Launched(fs.install) /\ NoFault
       \/ /\ IF fs.install \in Build THEN Fault ELSE NoFault
          /\ UNCHANGED <<running, settler>>
    /\ Exit(h) /\ NoChange
    /\ UNCHANGED <<shell, answering, historyVars>>

HelperStep(h) ==
    \/ ReadDescriptor(h) \/ ClaimLock(h) \/ WaitForExit(h) \/ CheckIdentities(h)
    \/ BackUp(h) \/ Install(h) \/ ClearAcknowledgement(h) \/ LaunchCandidate(h)
    \/ WaitForStartup(h) \/ CheckRollback(h) \/ StopProcesses(h) \/ RecheckRollback(h)
    \/ Reject(h) \/ Restore(h) \/ Inspect(h) \/ WriteResult(h) \/ LaunchRestored(h)

-----------------------------------------------------------------------------
(* The application that hands the transaction over *)

ShellStep(from, to) == shell = from /\ shell' = to /\ UNCHANGED <<running, answering, settler>>

RecordPending ==
    /\ \/ ShellStep("staged", "recorded") /\ Change([fs EXCEPT !.pending = TRUE]) /\ NoFault
       \/ ShellStep("staged", "abandoning") /\ NoChange /\ Fault
    /\ UNCHANGED <<lock, helperVars, historyVars>>

StartHelper ==
    /\ \/ ShellStep("recorded", "waiting") /\ (\E h \in Helpers : Spawn(h, "apply")) /\ NoFault
       \/ ShellStep("recorded", "abandoning") /\ UNCHANGED helperVars /\ Fault
    /\ NoChange
    /\ UNCHANGED <<lock, historyVars>>

\* await_native_claim tries the lock itself, and lets it go.
AwaitClaim ==
    /\ \/ lock = "none" /\ lock' = "probe" /\ ShellStep("waiting", "probing")
       \/ lock' = "none" /\ ShellStep("probing", "waiting")
       \/ lock # "none" /\ UNCHANGED lock /\ ShellStep("waiting", "owned")
       \/ UNCHANGED lock /\ ShellStep("waiting", "abandoning")
    /\ NoChange /\ NoFault
    /\ UNCHANGED <<helperVars, historyVars>>

\* rmtree on the way: any file may be gone, every tree has lost something.
PartlyRemoved(result) ==
    [fs EXCEPT !.staging = "partial", !.result = result,
               !.candidate = Torn(@), !.backup = Torn(@), !.rejected = Torn(@)]
Removed == [fs EXCEPT !.staging = "gone", !.result = "none",
                      !.candidate = "none", !.backup = "none", !.rejected = "none"]

RemovePartly == \E result \in {fs.result, "none"} : Change(PartlyRemoved(result)) /\ NoFault
RemoveRest == \/ Change(Removed) /\ NoFault
              \/ NoChange /\ Fault

\* abandon
DropTransaction ==
    /\ \/ ShellStep("abandoning", "dropping") /\ RemovePartly
       \/ ShellStep("dropping", "forgetting") /\ RemoveRest
    /\ UNCHANGED <<lock, helperVars, historyVars>>

ForgetTransaction ==
    /\ \/ ShellStep("forgetting", "restoring") /\ Change([fs EXCEPT !.pending = FALSE])
       \/ /\ ShellStep("restoring", "over")
          /\ Change([fs EXCEPT !.staged = FALSE, !.receipt = "old"])
    /\ NoFault
    /\ UNCHANGED <<lock, helperVars, historyVars>>

-----------------------------------------------------------------------------
(* The new build answers: confirm_started_v2 *)

\* promote_pending: the receipt is adopted, its predecessor removed.
PromoteReceipt ==
    /\ answering = "asked"
    /\ IF fs.staged
         THEN Change([fs EXCEPT !.receipt = "new", !.staged = FALSE]) /\ answering' = "promoted"
         ELSE NoChange /\ answering' = "no"
    /\ NoFault
    /\ UNCHANGED <<lock, helperVars, running, shell, settler, historyVars>>

Acknowledge ==
    /\ answering = "promoted"
    /\ answering' = "no"
    /\ Change([fs EXCEPT !.ack = TRUE])
    /\ answered' = TRUE
    /\ NoFault
    /\ UNCHANGED <<lock, helperVars, running, shell, settler, crashes, discarded>>

-----------------------------------------------------------------------------
(* A launch settles what an earlier run left: settle_native_update *)

SettleStep(b, from, to) ==
    /\ settler[b] = from /\ settler' = [settler EXCEPT ![b] = to]
    /\ UNCHANGED <<running, shell, answering>>

SettleRead(b) ==
    /\ \/ ~fs.pending /\ NoChange /\ SettleStep(b, "reading", "idle") /\ UNCHANGED lock
       \/ /\ fs.pending /\ fs.staging # "whole" \* the descriptor is gone
          /\ NoChange /\ SettleStep(b, "reading", "clearing") /\ UNCHANGED lock
       \/ /\ fs.pending /\ fs.staging # "gone" /\ fs.result # "none"
          /\ SettleStep(b, "reading",
                        IF fs.result = "recovery-required" THEN "discarding" ELSE "removing")
          /\ NoChange /\ UNCHANGED lock
       \/ /\ fs.pending /\ fs.staging # "gone" /\ fs.result = "none" /\ NoChange
          /\ IF lock = "none"
               THEN lock' = "probe" /\ SettleStep(b, "reading", "probing")
               ELSE UNCHANGED lock /\ SettleStep(b, "reading", "idle")
    /\ NoFault
    /\ UNCHANGED <<helperVars, historyVars>>

\* _recover_native
SettleRecover(b) ==
    /\ \/ lock' = "none" /\ SettleStep(b, "probing", "recovering") /\ NoFault
          /\ UNCHANGED helperVars
       \/ /\ SettleStep(b, "recovering", "idle") /\ UNCHANGED lock
          /\ \/ (\E h \in Helpers : Spawn(h, "recover")) /\ NoFault
             \/ UNCHANGED helperVars /\ Fault
    /\ NoChange
    /\ UNCHANGED historyVars

SettleRemove(b) ==
    /\ \/ SettleStep(b, "removing", "removed") /\ RemovePartly /\ UNCHANGED discarded
       \/ SettleStep(b, "discarding", "removed") /\ RemovePartly /\ discarded' = TRUE
       \/ SettleStep(b, "removed", "clearing") /\ RemoveRest /\ UNCHANGED discarded
       \/ /\ SettleStep(b, "clearing", "idle") /\ NoFault
          /\ Change([fs EXCEPT !.pending = FALSE]) /\ UNCHANGED discarded
    /\ UNCHANGED <<lock, helperVars, crashes, answered>>

Settle(b) == SettleRead(b) \/ SettleRecover(b) \/ SettleRemove(b)

-----------------------------------------------------------------------------
(* The person, and the machine *)

\* bound: a helper claims or gives up before somebody starts Hanly again.
Launch ==
    /\ running = {} /\ fs.install \in Build
    /\ \A h \in Helpers : pc[h] \notin {"start", "claim"}
    /\ Launched(fs.install)
    /\ NoChange /\ NoFault
    /\ UNCHANGED <<lock, helperVars, shell, answering, historyVars>>

Quit(b) ==
    /\ b \in running /\ Gone({b})
    /\ NoChange /\ NoFault
    /\ UNCHANGED <<helperVars, historyVars>>

\* The helper run by hand over pending.json, when Hanly itself will not start.
RecoverByHand ==
    /\ fs.install \notin Build /\ fs.pending
    /\ \A h \in Helpers : pc[h] = "idle"
    /\ \E h \in Helpers : Spawn(h, "recover")
    /\ NoChange /\ NoFault
    /\ UNCHANGED <<lock, appVars, historyVars>>

ReinstallByHand ==
    /\ fs.install \notin Build
    /\ Change([fs EXCEPT !.install = "other"])
    /\ NoFault
    /\ UNCHANGED <<lock, helperVars, appVars, historyVars>>

Crash == crashes < MaxCrashes /\ crashes' = crashes + 1

Kill(h) ==
    /\ pc[h] # "idle" /\ Crash /\ Exit(h)
    /\ NoChange /\ NoFault
    /\ UNCHANGED <<appVars, answered, discarded>>

PowerLoss ==
    /\ Crash
    /\ fs' \in images /\ images' = {fs'}
    /\ lock' = "none"
    /\ pc' = [h \in Helpers |-> "idle"] /\ mode' = [h \in Helpers |-> "apply"]
    /\ verdict' = [h \in Helpers |-> "none"]
    /\ running' = {} /\ shell' = "gone" /\ answering' = "no"
    /\ settler' = [b \in Build |-> "idle"]
    /\ NoFault
    /\ UNCHANGED <<answered, discarded>>

Shell == RecordPending \/ StartHelper \/ AwaitClaim \/ DropTransaction \/ ForgetTransaction

Next ==
    \/ \E h \in Helpers : HelperStep(h) \/ Kill(h)
    \/ Shell
    \/ PromoteReceipt \/ Acknowledge
    \/ \E b \in Build : Settle(b) \/ Quit(b)
    \/ Launch \/ RecoverByHand \/ ReinstallByHand
    \/ PowerLoss

Fairness ==
    /\ \A h \in Helpers : WF_vars(HelperStep(h))
    /\ \A b \in Build : WF_vars(Settle(b))
    /\ WF_vars(AwaitClaim)
    /\ WF_vars(RecoverByHand)

Spec == Init /\ [][Next]_vars /\ Fairness

-----------------------------------------------------------------------------
(* Properties *)

State == [install : Tree, candidate : Tree, backup : Tree, rejected : Tree,
          staging : {"whole", "partial", "gone"}, result : Outcome, ack : BOOLEAN,
          pending : BOOLEAN, receipt : {"old", "new"}, staged : BOOLEAN]
Step == {"idle", "start", "claim", "waiting", "checking", "backing_up", "installing",
         "clearing", "launching", "watching", "rb_check", "rb_stop", "rb_recheck",
         "rb_reject", "rb_restore", "inspect", "writing", "relaunch"}

\* The types, and that an image of the disk as it is now is among those a power
\* cut may leave.
TypeOK ==
    /\ fs \in State /\ images \subseteq State /\ fs \in images
    /\ lock \in Helpers \cup {"none", "probe"}
    /\ pc \in [Helpers -> Step] /\ mode \in [Helpers -> {"apply", "recover"}]
    /\ verdict \in [Helpers -> Outcome]
    /\ running \subseteq Build
    /\ shell \in {"staged", "recorded", "waiting", "probing", "owned", "abandoning",
                  "dropping", "forgetting", "restoring", "over", "gone"}
    /\ answering \in {"no", "asked", "promoted"}
    /\ settler \in [Build -> {"idle", "reading", "probing", "recovering", "removing",
                             "discarding", "removed", "clearing"}]
    /\ faults \in 0..MaxFaults /\ crashes \in 0..MaxCrashes
    /\ answered \in BOOLEAN /\ discarded \in BOOLEAN

\* Whatever fails, dies or loses its power, the disk holds a build that works:
\* the previous one, in its place or beside it, one put there by hand, or the new
\* one once it has answered.  (With the outcome "recovery-required" recorded, a launch
\* may have deleted the previous build: `discarded`.)
Works(image) ==
    \/ image.install \in {"old", "other"} \/ image.backup = "old"
    \/ image.install = "new" /\ answered
KeptWhole == discarded \/ \A image \in images : Works(image)

\* A recorded outcome is what the disk holds, at once and after a power cut:
\* the helper syncs what it reports before it reports it.
TruthfulResult == discarded \/
    \A image \in images :
        /\ image.result = "restored" => image.install \in {"old", "other"}
        /\ image.result = "committed" => image.install = "new" /\ answered
        /\ image.result = "abandoned" => image.install = "old"

\* An installation that is missing or does not start comes back, as long as the
\* pointer and the descriptor it names are there and a person runs the recovery.
Recoverable == fs.pending /\ fs.staging = "whole"
InstallationReturns ==
    fs.install \notin Build /\ Recoverable ~> fs.install \in Build \/ ~Recoverable

=============================================================================
