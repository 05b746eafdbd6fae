------------------------------ MODULE MC_TlsPeer ------------------------------
EXTENDS TlsPeer

CONSTANTS e1, e2, e3, s1, s2, m1, m2

MCEndpoints == {e1, e2}
MCSlots == {s1}
\* A third endpoint that only sends records, so that two peers can fill
\* both slots while a message waits for a third.
MCEndpoints3 == {e1, e2, e3}
MCSlots2 == {s1, s2}
MCMsgs == {m1, m2}
MCDest == (m1 :> e1) @@ (m2 :> e2)
MCDestOne == (m1 :> e1) @@ (m2 :> e1)
\* The application selects nothing, or the anon-ECDH list (as an OBT does
\* before a JustWorks transfer).
MCSelectNone == {}
\* Pool slots are interchangeable, and so are the endpoints no message is
\* addressed to.
MCSymmetry == Permutations(MCSlots2) \cup Permutations({e2, e3})
MCSelectAnon == {"anon"}
=============================================================================
