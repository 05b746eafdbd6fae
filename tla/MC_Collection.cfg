CONSTANTS
    r1 = r1
    r2 = r2
    c1 = c1
    c2 = c2
    l1 = l1
    l2 = l2
    AppRes <- MCAppRes
    CollSlots <- MCCollSlots
    LinkSlots <- MCLinkSlots
    Href <- MCHref
    DefaultIf <- MCDefaultIf
    MaxNumLinks = 2
SPECIFICATION Spec
SYMMETRY MCSymmetry
INVARIANT TypeOK
INVARIANT LinksOrdered
INVARIANT NumLinksAccounted
INVARIANT BatchErrorReported
