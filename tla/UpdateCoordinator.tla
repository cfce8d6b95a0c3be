-------------------------- MODULE UpdateCoordinator --------------------------
(***************************************************************************)
(* UpdateCoordinator with its TreeUpdateRunner: one operation at a time on *)
(* a worker thread, whose result is delivered on a thread of its own.      *)
(* Every composed runtime has a coordinator of its own, named by a number; *)
(* all of them share the installation's lock file.                         *)
(*                                                                         *)
(* What an operation of the owner does to a coordinator is an operator on  *)
(* its record; what its worker does is an action.  The worker's steps of a *)
(* resource installation call back into the desktop service, and are in    *)
(* the module DesktopService.                                              *)
(***************************************************************************)
EXTENDS Naturals, Sequences, FiniteSets, TLC

CONSTANTS
    Coordinators,     \* their numbers
    NoOne,            \* the lock file is absent
    Other             \* another Hanly process of the same installation

ASSUME CoordinatorAssumption ==
    /\ Coordinators \subseteq Nat \ {0}
    /\ NoOne \notin Coordinators /\ Other \notin Coordinators /\ NoOne # Other

VARIABLES
    coord,      \* each coordinator's record
    lockFile,   \* whose claim lock.json carries
    other       \* whether another process is at work on an update

updateVars == <<coord, lockFile, other>>

\* `op` and `at` are the operation that owns the coordinator (_future) and how
\* far its worker is; `plan` is the plan it was given, `result` what it made.
\* "downloading" stands for every phase a progress report can name.
Ops == {"none", "check", "resource", "application"}
Statuses == {"idle", "checking", "known", "downloading", "preparing", "confirm",
             "failed", "success", "restart"}
Fresh == [status |-> "idle", op |-> "none", at |-> "done", result |-> "failed",
          plan |-> FALSE, leg |-> "before", seen |-> 0, good |-> FALSE,
          offered |-> FALSE, waiting |-> FALSE, prepared |-> FALSE,
          cancellable |-> FALSE, ours |-> FALSE, handedOff |-> FALSE,
          shut |-> FALSE, held |-> FALSE]

UpdatesInit ==
    /\ coord = [u \in Coordinators |-> Fresh]
    /\ lockFile = NoOne /\ other = FALSE

-----------------------------------------------------------------------------
(* What the owner asks of a coordinator *)

\* _active_locked()
Active(c) == c.handedOff \/ c.op # "none"

\* An executor that was shut down takes no work, and the caller gets an error
\* after the state has been rewritten.
Submitted(c, op) == IF c.shut THEN c ELSE [c EXCEPT !.op = op, !.at = "queued"]

Checked(c) ==
    IF Active(c) THEN c
    ELSE Submitted([c EXCEPT !.status = "checking", !.waiting = FALSE,
                             !.cancellable = FALSE, !.ours = FALSE], "check")

ResourceAsked(c) ==
    IF Active(c) THEN c
    ELSE Submitted([c EXCEPT !.status = "downloading", !.ours = FALSE, !.leg = "before"],
                   "resource")

\* confirm_full takes the plan that was waiting; without it, it is forgotten.
ApplicationAsked(c, confirm) ==
    IF Active(c) \/ ~c.offered THEN c
    ELSE Submitted([c EXCEPT !.status = "preparing", !.ours = TRUE, !.waiting = FALSE,
                             !.cancellable = TRUE, !.prepared = FALSE,
                             !.plan = confirm /\ c.prepared],
                   "application")

\* abandon(): the lock is given back if this runner holds it.
Released(c) == [c EXCEPT !.held = FALSE]
LockAfter(c) == IF c.held THEN NoOne ELSE lockFile
Declined(c) == [Released(c) EXCEPT !.prepared = FALSE, !.waiting = FALSE, !.status = "failed"]

\* cancel_update(): a running preparation is asked to stop, which its worker
\* may see or not; a plan that waits is given up.
CancelUpdate(u) ==
    LET c == coord[u] IN
    IF c.cancellable \/ ~c.waiting
      THEN UNCHANGED updateVars
      ELSE /\ coord' = [coord EXCEPT ![u] = Declined(c)]
           /\ lockFile' = LockAfter(c) /\ UNCHANGED other

\* shutdown(wait=False): work that has not begun is cancelled, work that runs
\* goes on.
Dismissed(c) ==
    LET s == IF c.waiting /\ ~c.handedOff THEN Declined(c) ELSE c IN
    [s EXCEPT !.shut = TRUE, !.cancellable = @ /\ ~c.waiting,
              !.at = IF c.op # "none" /\ @ = "queued" THEN "done" ELSE @,
              !.result = IF c.op # "none" /\ c.at = "queued" THEN "failed" ELSE @]

ShutDownUpdates(u) ==
    LET c == coord[u] IN
    /\ coord' = [coord EXCEPT ![u] = Dismissed(c)]
    /\ IF c.waiting /\ ~c.handedOff
         THEN lockFile' = LockAfter(c)
         ELSE UNCHANGED lockFile
    /\ UNCHANGED other

-----------------------------------------------------------------------------
(* The worker *)

Works(u, op, at) == coord[u].op = op /\ coord[u].at = at

CheckAnswers(u) ==
    /\ Works(u, "check", "queued")
    /\ \E r \in {"offer", "nothing"} :
          coord' = [coord EXCEPT ![u].at = "done", ![u].result = r]
    /\ UNCHANGED lockFile

\* _on_progress(): the phase a report names becomes the status.
Reports(u) ==
    /\ coord[u].op \in {"resource", "application"}
    /\ coord[u].at \in {"fetching", "reading", "staging"}
    /\ coord[u].status # "downloading"
    /\ coord' = [coord EXCEPT ![u].status = "downloading"]
    /\ UNCHANGED lockFile

Ends(u, c, r) == coord' = [coord EXCEPT ![u] = [c EXCEPT !.at = "done", !.result = r]]

TakesAnyClaim == FALSE                \* mutant: a live claim is taken over too
\* The claim of another live process refuses this one; a claim of this
\* process's own is overwritten.
Refused == lockFile = Other

\* prepare(), or install() of the plan that was confirmed.
ApplicationBegins(u) ==
    LET c == coord[u] IN
    /\ Works(u, "application", "queued")
    /\ \/ c.plan
          /\ coord' = [coord EXCEPT ![u].at = "staging"] /\ UNCHANGED lockFile
       \/ ~c.plan /\ Refused
          /\ Ends(u, c, "failed") /\ UNCHANGED lockFile
       \/ ~c.plan /\ ~Refused
          /\ coord' = [coord EXCEPT ![u].at = "reading", ![u].held = TRUE]
          /\ lockFile' = u

\* The installation is read: the plan fits, has grown beyond the offer, or
\* cannot be made.
ApplicationDecides(u) ==
    LET c == coord[u] IN
    /\ Works(u, "application", "reading")
    /\ \/ coord' = [coord EXCEPT ![u].at = "staging"] /\ UNCHANGED lockFile
       \/ Ends(u, c, "grown") /\ UNCHANGED lockFile
       \/ Ends(u, Released(c), "failed") /\ lockFile' = LockAfter(c)

Abandons(u) ==
    /\ Ends(u, Released(coord[u]), "failed")
    /\ lockFile' = LockAfter(coord[u])

\* stage(), then the helper is started.
ApplicationStages(u) ==
    /\ Works(u, "application", "staging")
    /\ \/ /\ coord' = [coord EXCEPT ![u].at = "handing"]
          /\ UNCHANGED lockFile
       \/ Abandons(u)

\* await_native_claim(): the helper takes the transaction, or does not answer.
HelperAnswers(u) ==
    /\ Works(u, "application", "handing")
    /\ \/ Ends(u, coord[u], "staged") /\ UNCHANGED lockFile
       \/ Abandons(u)

-----------------------------------------------------------------------------
(* _deliver(): the result's callback *)

Delivered(u, c) == coord' = [coord EXCEPT ![u] = [c EXCEPT !.op = "none"]]

\* _finish_error(): an application's transaction is abandoned first.
FinishError(u) ==
    LET c == coord[u]
        forgotten == [c EXCEPT !.status = "failed", !.prepared = FALSE,
                               !.waiting = FALSE, !.cancellable = FALSE] IN
    IF c.ours
      THEN /\ Delivered(u, Released(forgotten))
           /\ lockFile' = LockAfter(c)
      ELSE Delivered(u, forgotten) /\ UNCHANGED lockFile

Deliver(u) ==
    LET c == coord[u] IN
    /\ c.op # "none" /\ c.at = "done"
    /\ \/ c.result = "failed" /\ FinishError(u)
       \/ /\ c.result \in {"offer", "nothing"}     \* _finish_check()
          /\ Delivered(u, [c EXCEPT !.status = "known", !.offered = c.result = "offer",
                                    !.ours = FALSE])
          /\ UNCHANGED lockFile
       \/ /\ c.result = "installed"                \* _finish_install()
          /\ \/ Delivered(u, [c EXCEPT !.status = "success"])
                /\ UNCHANGED lockFile
             \/ FinishError(u)
       \/ /\ c.result = "grown"                    \* _await_confirmation()
          /\ Delivered(u, [c EXCEPT !.status = "confirm", !.prepared = TRUE,
                                    !.waiting = TRUE, !.cancellable = FALSE])
          /\ UNCHANGED lockFile
       \/ /\ c.result = "staged"                   \* _finish_application_install()
          /\ Delivered(u, [c EXCEPT !.status = "restart", !.handedOff = TRUE,
                                    !.waiting = FALSE, !.cancellable = FALSE])
          /\ UNCHANGED lockFile

\* Another process of the installation begins an update, and ends it.
OtherClaims ==
    /\ lockFile = NoOne /\ lockFile' = Other /\ other' = TRUE
    /\ UNCHANGED coord
OtherReleases ==
    /\ other /\ other' = FALSE /\ lockFile' = NoOne
    /\ UNCHANGED coord

WorkerStep(u) ==
    \/ CheckAnswers(u) \/ ApplicationBegins(u) \/ ApplicationDecides(u)
    \/ ApplicationStages(u) \/ HelperAnswers(u) \/ Deliver(u)

UpdatesStep ==
    \/ \E u \in Coordinators : (WorkerStep(u) \/ Reports(u)) /\ UNCHANGED other
    \/ OtherClaims \/ OtherReleases
=============================================================================
