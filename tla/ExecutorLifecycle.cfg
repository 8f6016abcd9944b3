CONSTANTS
    Requests = {q1, q2}
SPECIFICATION Spec
INVARIANTS
    LifecycleTypeOK
    StoreClosesLast
PROPERTIES
    NothingNewAfterSignal
    ShutdownEnds
CHECK_DEADLOCK FALSE
