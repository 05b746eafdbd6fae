\* A device registered before (stored status SIGNED_UP or PUBLISHED) signs in.
SPECIFICATION Spec
CONSTANTS
    StoredStatus <- MCRegistered
    MaxOut = 1
    MaxDisconnects = 1
    MaxRejects = 1
INVARIANT PingArmed
PROPERTY Progress
CHECK_DEADLOCK FALSE
