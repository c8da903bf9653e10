\* A stream of up to four events, two callbacks.
SPECIFICATION FairSpec
CONSTANTS
    Bodies <- FewBodies
    Callbacks = 2
    Capacity = 2
    MaxSent = 4
CHECK_DEADLOCK FALSE
INVARIANTS
    OnlyStatusesOvertake
    CleanupIsTold
    SuccessHeardAll
PROPERTIES
    CancelReturns
