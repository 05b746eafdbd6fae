\* A 2-byte CoAP Ping followed by another message on a blocking socket.
SPECIFICATION Spec
CONSTANTS
    Frames <- MCCoapShort
    MaxFrames = 2
    StaleBytes = {0}
    MaxPdu = 7
    Secured = FALSE
    Blocking = TRUE
INVARIANT FramesIntact
CHECK_DEADLOCK FALSE
