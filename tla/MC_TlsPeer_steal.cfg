\* One slot; the application selects the anon-ECDH list for its next
\* connection while a record from another endpoint is on its way.
SPECIFICATION Spec
CONSTANTS
    e1 = e1
    e2 = e2
    e3 = e3
    s1 = s1
    s2 = s2
    m1 = m1
    m2 = m2
    NONE = NONE
    Endpoints <- MCEndpoints
    Slots <- MCSlots
    Msgs <- MCMsgs
    Dest <- MCDest
    HsRecords = 1
    MaxRecords = 1
    MaxSends = 1
    OxmSel = "JW"
    ClientDefault = "psk"
    ClientSelect <- MCSelectAnon
INVARIANT ServerSuitesAsSpecified
CHECK_DEADLOCK FALSE
