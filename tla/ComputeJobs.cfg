CONSTANTS
    Jobs = {j1}
    Exact = {j1}
    Second = {}
    OwnerOf <- MCOwnerOf
    KeyOf <- MCKeyOf
    ContentOf <- MCContentOf
    Owners = {"alice"}
    Keys = {k1}
    Contents = {x1}
    Workers = {w1, w2}
    Lanes = {l1}
    None = None
    MaxAttempts = 3
    MaxActive = 2
    MaxStops = 1
SPECIFICATION LiveSpec
INVARIANTS
    JobsTypeOK
    CancellationWins
    NoneStranded
    DrainedLeavesNothing
PROPERTIES
    OnlyHolderDecides
    JobsSettle
CHECK_DEADLOCK FALSE
