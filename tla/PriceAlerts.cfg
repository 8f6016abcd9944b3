SPECIFICATION Spec
CONSTANTS
    Rules = {r1, r2}
    Owners = {alice}
    OwnerOf <- MCOwnerOf
    Definitions = {d1, d2}
    Enabled = {d1}
    ScopeOf <- MCScopeOf
    Lanes = {l1, l2}
    MaxActive = 2
    MaxBar = 2
    MaxChanges = 2
    Elsewhere = {d2}
    None = None
    Nobody = Nobody
INVARIANT AlertsTypeOK
PROPERTIES
    KeepsWatch
    BarsEvaluated
CHECK_DEADLOCK FALSE
