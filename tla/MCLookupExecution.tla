------------------------- MODULE MCLookupExecution -------------------------
(***************************************************************************)
(* LookupExecution on a small instance: three requests, so that one can    *)
(* run, one wait and one supersede both, and a callback queue of two, so   *)
(* that one foreign callback and one answer already fill it.               *)
(***************************************************************************)
EXTENDS LookupExecution

ThreeRequests == 3
TwoCallbacks == 2
=============================================================================
