---------------------------- MODULE LatestAnswer ----------------------------
(***************************************************************************)
(* What a client of LookupController is promised, with no threads in it:   *)
(* requests are numbered in the order they are asked, at most one of them  *)
(* is current, and only the current one is ever answered, once.            *)
(***************************************************************************)
EXTENDS Naturals

CONSTANT Request   \* the ids that can be asked, a set of positive numbers

VARIABLES asked,     \* the number of requests asked so far; also the latest id
          current,   \* the request that may still be answered, 0 for none
          answers    \* how often the answer of each request was presented

vars == <<asked, current, answers>>

Init == asked = 0 /\ current = 0 /\ answers = [r \in Request |-> 0]

\* A new request replaces whatever was current.
Ask == /\ asked + 1 \in Request
       /\ asked' = asked + 1
       /\ current' = asked + 1
       /\ UNCHANGED answers

\* The current request is given up: invalidated, refused or stopped.
Withdraw == /\ current # 0
            /\ current' = 0
            /\ UNCHANGED <<asked, answers>>

\* The answer of the current request reaches the user.
Answer == /\ current \in Request
          /\ answers[current] = 0
          /\ answers' = [answers EXCEPT ![current] = 1]
          /\ UNCHANGED <<asked, current>>

Next == Ask \/ Withdraw \/ Answer

Spec == Init /\ [][Next]_vars
=============================================================================
