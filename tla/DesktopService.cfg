SPECIFICATION Spec
CONSTANTS
    Coordinators <- MCCoordinators
    NoOne = NoOne
    Other = Other
    MaxRequests = 2
    Backends = {"easyocr", "vision"}
    Keys = {"k1", "k2"}
    Tokens = {"t1"}
    QuietRetry = TRUE
CHECK_DEADLOCK FALSE
INVARIANTS
    TypeOK
    OneRuntime
    OneProcessUpdates
PROPERTIES
    CommitsThePrepared
    PreparationSettles
