SPECIFICATION Spec
CONSTANTS
    MaxReads = 3
    None = None
    Readings <- MCReadings
PROPERTIES
    OneOutcome
    NewestIsTold
CHECK_DEADLOCK FALSE
