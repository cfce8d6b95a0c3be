---------------------------- MODULE MCLookupEngine ----------------------------
(* A small LookupEngine: two helper threads beside the executor thread, so that *)
(* a preparation, a recovery or a stop can meet one another and a lookup.       *)
EXTENDS LookupEngine

CONSTANTS h1, h2, exec

MCHelpers == {h1, h2}
=============================================================================
