--------------------------- MODULE MCLookupSession ---------------------------
(* A small LookupSession: the owner's thread and two more for preparations,   *)
(* recoveries and stops.                                                      *)
EXTENDS LookupSession

CONSTANTS h1, h2, owner, exec

MCHelpers == {h1, h2, owner}
=============================================================================
