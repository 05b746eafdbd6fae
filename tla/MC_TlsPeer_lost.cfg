\* Two endpoints, one slot, so a freed server peer's slot is reused by a client peer while its write event is still queued.
SPECIFICATION Spec
CONSTANTS
    e1 = e1
    e2 = e2
    e3 = e3
    s2 = s2
    s1 = s1
    m1 = m1
    m2 = m2
    NONE = NONE
    Endpoints <- MCEndpoints
    Slots <- MCSlots
    Msgs <- MCMsgs
    Dest <- MCDest
    HsRecords = 1
    MaxRecords = 3
    MaxSends = 1
    OxmSel = "JW"
    ClientDefault = "psk"
    ClientSelect <- MCSelectNone
INVARIANT MessagesAccounted
CHECK_DEADLOCK FALSE
