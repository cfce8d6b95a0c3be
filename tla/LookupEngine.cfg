SPECIFICATION Spec
CONSTANTS
    h1 = h1
    h2 = h2
    exec = exec
    Helpers <- MCHelpers
    Exec <- exec
    MaxGeneration = 4
    RecoveryBudget = 1
    Faulty = {1, 2, 3, 4}
INVARIANTS
    TypeOK
    NoOrphanChild
    ResidentIsCurrent
    AllowanceHolds
PROPERTIES
    LookupReleased
    StartLockReleased
