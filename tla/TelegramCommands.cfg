SPECIFICATION Spec
CONSTANTS
    Lanes = {l1, l2}
    Owners = {o1, o2}
    Chats = {c1, c2}
    Codes = {k1}
    FirstOwner = o1
    FirstChat = c1
    None = None
    l1 = l1
    l2 = l2
    o1 = o1
    o2 = o2
    c1 = c1
    c2 = c2
    MaxUpdates = 3
    OUTSTANDING = 1
    Changing = {o1}
    MaxAuth = 2
SYMMETRY LaneSymmetry
INVARIANTS
    CommandsTypeOK
    OneActionPerConfirmation
    ConfirmedWhereAsked
    AnsweredOnceWhereAsked
CHECK_DEADLOCK FALSE
