\* The known ciphersuites, a 16-byte owner PSK, every combination of the
\* function's early-return conditions and every mbedtls_md failure point.
SPECIFICATION Spec
CONSTANTS
    Suites <- MCSuites
    KeyLen = 16
INVARIANT TypeOK
INVARIANT PrfMatchesReference
INVARIANT OwnerPskAsSpecified
