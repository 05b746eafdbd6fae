CONSTANTS
  e1 = e1
  e2 = e2
  a1 = a1
  m1 = m1
  m2 = m2
  NONE = NONE
  Dialled <- MCDialled
  Accepted <- MCAccepted
  Msgs <- MCMsgs
  MaxPeers = 2
  MaxCount = 1
  MaxIds = 3
SPECIFICATION Spec
INVARIANT TypeOK
INVARIANT OneSessionPerEndpoint
INVARIANT OwnedSocketsOpen
INVARIANT AcceptedOrder
INVARIANT ConnectOutcomeOnce
