CONSTANTS
  ca1 = ca1
  ca2 = ca2
  i1 = i1
  i2 = i2
  i3 = i3
  A1 = A1
  A2 = A2
  L1 = L1
  L2 = L2
  I1 = I1
  NumDevices = 2
  CaCreds <- MCCaCreds
  IdCreds <- MCIdCreds
  DevOf <- MCDevOf
  Data <- MCData
  MaxCaCerts = 2
  MaxIdCerts = 4
  MaxChain = 2
  ParseMayFail = FALSE
SPECIFICATION Spec
INVARIANT TypeOK
INVARIANT TrustedOnlyProvisioned
INVARIANT TrustAnchorsInSync
PROPERTY IdentityChainsResolved
