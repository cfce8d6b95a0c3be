SPECIFICATION Spec
CONSTANTS
    Coordinators <- MCCoordinators
    NoOne = NoOne
    Other = Other
    MaxRequests = 2
    Backends = {"easyocr"}
    Keys = {"k1"}
    Tokens = {}
    QuietRetry = FALSE
CHECK_DEADLOCK FALSE
INVARIANTS
    OneRuntime
