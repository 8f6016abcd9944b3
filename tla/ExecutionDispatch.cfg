SPECIFICATION Spec
CONSTANTS
    Callers = {c1, c2}
    Orders = {b1, b2}
    Reducing = {b2}
    Reconciling = {}
    Emergency = {}
    Reads = {}
    MaxPermits = 2
    MaxTombstones = 0
    Active <- ActiveRoom
    Keys <- KeyRoom
    MaxRevision = 2
    MaxLocal = 2
    None = None
SYMMETRY Symmetry
INVARIANTS
    DispatchTypeOK
    DispatchedOnce
PROPERTIES
    NoStaleDispatch
CHECK_DEADLOCK FALSE
