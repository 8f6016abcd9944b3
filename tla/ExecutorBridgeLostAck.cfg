CONSTANTS
    Commands = {c1, c2}
    Owners = {alice}
    Keys = {k1, k2}
    Hashes = {h1}
    Reads = {}
    Telegram = {}
    Receipts = {r1}
    None = None
    MaxAttempts = 2
    MaxActive = 2
    MaxTerminal = 1
    RecoverBatch = 1
    MaxReceipts = 2
    MaxEpoch = 1
    MaxCrashes = 1
SPECIFICATION Spec
INVARIANT
    LostAcknowledgementReconciled
