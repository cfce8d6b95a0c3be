------------------------------ MODULE OneAnswer ------------------------------
(***************************************************************************)
(* What a caller of an asynchronous reader is promised: a request is       *)
(* decided at most once and told of at most once, and what is decided of a *)
(* request that a newer one has replaced says no more than that.           *)
(***************************************************************************)
EXTENDS Naturals, Sequences, FiniteSets

CONSTANTS
    MaxReads,     \* requests in a behaviour
    None

Outcomes == {"direct", "not_korean", "refused", "superseded", "timed_out"}

ASSUME OneAnswerAssumption == MaxReads \in Nat /\ None \notin Nat \cup Outcomes

VARIABLES
    asked,        \* how many requests were made
    answer,       \* what was decided of each, or None
    told          \* how often the caller of each has been called back

readVars == <<asked, answer, told>>

Requests == 1..MaxReads

ReadInit == asked = 0 /\ answer = [r \in Requests |-> None] /\ told = [r \in Requests |-> 0]

Ask ==
    /\ asked < MaxReads
    /\ asked' = asked + 1
    /\ UNCHANGED <<answer, told>>

Answer(r, o) ==
    /\ r <= asked /\ answer[r] = None
    /\ r < asked => o = "superseded"
    /\ answer' = [answer EXCEPT ![r] = o]
    /\ UNCHANGED <<asked, told>>

Tell(r) ==
    /\ answer[r] # None /\ told[r] = 0
    /\ told' = [told EXCEPT ![r] = 1]
    /\ UNCHANGED <<asked, answer>>

ReadStep ==
    \/ Ask
    \/ \E r \in Requests, o \in Outcomes : Answer(r, o)
    \/ \E r \in Requests : Tell(r)

ReadSpec == ReadInit /\ [][ReadStep]_readVars
=============================================================================
