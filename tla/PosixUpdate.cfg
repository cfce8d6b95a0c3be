SPECIFICATION Spec
CONSTANTS
    h1 = h1
    h2 = h2
    Helpers = {h1, h2}
    MaxFaults = 1
    MaxCrashes = 2
INVARIANTS
    TypeOK
    KeptWhole
    TruthfulResult
PROPERTIES
    InstallationReturns
