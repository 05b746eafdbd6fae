\* Three endpoints and two peer slots; handshakes of two records, three
\* records in all, two messages both to e1, each sent once.
SPECIFICATION FairSpec
CONSTANTS
    e1 = e1
    e2 = e2
    e3 = e3
    s1 = s1
    s2 = s2
    m1 = m1
    m2 = m2
    NONE = NONE
    Endpoints <- MCEndpoints3
    Slots <- MCSlots2
    Msgs <- MCMsgs
    Dest <- MCDestOne
    HsRecords = 2
    MaxRecords = 3
    MaxSends = 1
    OxmSel = "JW"
    ClientDefault = "psk"
    ClientSelect <- MCSelectAnon
SYMMETRY MCSymmetry
INVARIANT TypeOK
INVARIANT OnePeerPerEndpoint
INVARIANT TimersMatchPeers
 
CHECK_DEADLOCK FALSE
