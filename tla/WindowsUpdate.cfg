SPECIFICATION Spec
CONSTANTS
    Kinds <- MCKinds
    Program <- MCProgram
    MaxFaults = 3
    MaxKills = 2
    SettlesAmid = FALSE
INVARIANTS
    OldIsKept
    
PROPERTIES
    InstallationReturns
\* An installation whose executable is gone and that no pointer names is at an end.
CHECK_DEADLOCK FALSE
