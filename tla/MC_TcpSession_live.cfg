CONSTANTS
  e1 = e1
  e2 = e2
  a1 = a1
  m1 = m1
  m2 = m2
  NONE = NONE
  Dialled <- MCDialled
  Accepted <- MCNoAccepted
  Msgs <- MCOneMsg
  MaxPeers = 2
  MaxCount = 2
  MaxIds = 3
SPECIFICATION Spec
PROPERTY WaitingReleased
PROPERTY AsyncFreed
