\* st_cloud_manager_stop before FINISH leaves delayed callbacks on the freed context.
SPECIFICATION Spec
CONSTANTS
    StoredStatus <- MCRegistered
    MaxOut = 1
    MaxDisconnects = 1
    MaxRejects = 1
INVARIANT TimersReleased
CHECK_DEADLOCK FALSE
