--------------------------- MODULE MCWindowsUpdate ---------------------------
(* Bounds for WindowsUpdate: a plan with every kind of operation and two replacements, in the *)
(* order operations_for gives them.                                         *)
EXTENDS WindowsUpdate

MCKinds == <<"add", "replace", "replace", "delete">>
MCProgram == 2
=============================================================================
