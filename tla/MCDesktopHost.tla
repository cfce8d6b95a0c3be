---------------------------- MODULE MCDesktopHost ----------------------------
(* Instances of DesktopHost: two settings that share one shortcut, of which the *)
(* others are alike; and one, for the properties of threads and processes.      *)
EXTENDS DesktopHost, TLC

CONSTANTS F8, F9, F10

MCBindings == {{F8, F9}, {F9, F10}}
MCOneBinding == {{F8}}
MCSymmetry == Permutations({F8, F10})
=============================================================================
