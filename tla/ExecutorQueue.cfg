CONSTANTS
    Commands = {c1, c2, c3}
    Owners = {alice}
    Keys = {k1, k2}
    Hashes = {h1}
    Receipts = {r1, r2}
    Workers = {w1, w2}
    None = None
    MaxAttempts = 2
    MaxActive = 2
    MaxTerminal = 1
    RecoverBatch = 1
SPECIFICATION QueueSpec
SYMMETRY Symmetry
INVARIANTS
    QueueTypeOK
    OneApplyingPerOwner
    RepliesTruthful
PROPERTIES
    OnlyLatestClaimDecides
    TerminalIsFinal
