CONSTANTS
    Jobs = {j1, j2}
    Exact = {j1}
    Second = {}
    OwnerOf <- MCOwnerOf
    KeyOf <- MCKeyOf
    ContentOf <- MCContentOf
    Owners = {"alice"}
    Keys = {k1}
    Contents = {x1}
    Workers = {w1, w2}
    Lanes = {l1}
    None = None
    MaxAttempts = 2
    MaxActive = 2
    MaxStops = 0
SPECIFICATION Spec
SYMMETRY Symmetry
INVARIANT
    OneRunningPerOwner
CHECK_DEADLOCK FALSE
