SPECIFICATION SessionSpec
CONSTANTS
    h1 = h1
    h2 = h2
    owner = owner
    exec = exec
    Helpers <- MCHelpers
    Owner <- owner
    Exec <- exec
    MaxGeneration = 3
    RecoveryBudget = 1
    Faulty = {1, 2, 3}
CHECK_DEADLOCK FALSE
INVARIANTS
    StopReleases
PROPERTIES
    NothingLoadsAfterStop
    StopCompletes
