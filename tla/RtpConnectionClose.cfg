CONSTANTS
    MaxLocal = 1
    MaxRemote = 1
    MaxCalls = 1
    MaxEvents = 4
SPECIFICATION Spec
INVARIANT ClosedFreesSocket
CHECK_DEADLOCK FALSE
