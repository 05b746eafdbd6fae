\* CoAP over a blocking socket, frames of at least DEFAULT_RECEIVE_SIZE bytes.
SPECIFICATION Spec
CONSTANTS
    Frames <- MCCoapLong
    MaxFrames = 2
    StaleBytes = {0, 255}
    MaxPdu = 7
    Secured = FALSE
    Blocking = TRUE
INVARIANT TypeOK
INVARIANT FramesIntact
INVARIANT ErrorOnlyOnBadFrame
CHECK_DEADLOCK FALSE
