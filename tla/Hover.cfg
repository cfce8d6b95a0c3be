SPECIFICATION HoverSpec
CONSTANTS
    MaxReads = 3
    MaxLookups = 3
    MaxEvents = 3
    None = None
    Card = "card"
    Points <- MCPoints
    Words <- MCWords
    Corridor <- MCCorridor
    Distance <- MCDistance
    Readable = {"w1", "w2"}
INVARIANTS ProtectedIsShown
PROPERTIES RaisedWhereSeen ObservedWhileNeeded RestIsRead
CHECK_DEADLOCK FALSE
