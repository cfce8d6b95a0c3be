SPECIFICATION Spec
CONSTANTS
    MaxRequests <- ThreeRequests
    QueueCapacity <- TwoCallbacks
INVARIANTS
    TypeOK
    CurrentIsTracked
    CloseErrorChargesNobody
    SlotHoldsTheNewest
PROPERTIES
    PresentsOnlyTheLatest
    ImplementsPromise
    CurrentIsSettled
    WaitersAreWoken
    StopEndsThread
