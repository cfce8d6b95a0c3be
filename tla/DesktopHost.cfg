SPECIFICATION Spec
CONSTANTS
    Services = 2
    F8 = F8
    F9 = F9
    F10 = F10
    Bindings <- MCBindings
SYMMETRY MCSymmetry
INVARIANTS
    OneService
    RegisteredIsStored
\* The host stops when its last thread has.
CHECK_DEADLOCK FALSE
