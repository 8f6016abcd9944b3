SPECIFICATION Spec
CONSTANTS
    Commands = {c1, c2}
    Owners = {alice}
    Keys = {k1, k2}
    Hashes = {h1, h2}
    Reads = {h2}
    Telegram = {h1}
    Receipts = {r1}
    None = None
    MaxAttempts = 2
    MaxActive = 2
    MaxTerminal = 0
    RecoverBatch = 1
    MaxReceipts = 1
    MaxEpoch = 0
    MaxCrashes = 2
PROPERTIES
    KeepsPromise
    Answered
