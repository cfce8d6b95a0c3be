--------------------------- MODULE MCPosixUpdate ---------------------------
(* A bounded instance of the POSIX update for TLC: one helper that is under *)
(* way, or late, and one that a launch or a person starts.                  *)
EXTENDS PosixUpdate

CONSTANTS h1, h2
=============================================================================
