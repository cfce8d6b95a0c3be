SPECIFICATION Spec
CONSTANTS
    Kinds <- MCKinds
    Program <- MCProgram
    MaxFaults = 1
    MaxKills = 0
    SettlesAmid = FALSE
PROPERTY
    ForeignIsKept
