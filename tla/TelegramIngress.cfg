SPECIFICATION FairSpec
CONSTANTS
    Workers = {w1, w2}
    Nobody = Nobody
    Gone = Gone
    MaxUpdates = 3
    MaxFaults = 2
INVARIANTS
    IngressTypeOK
    CursorIsTheJournal
PROPERTIES
    IsFeed
    UpdatesSettle
CHECK_DEADLOCK FALSE
