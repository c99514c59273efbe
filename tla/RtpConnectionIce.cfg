CONSTANTS
    MaxLocal = 1
    MaxRemote = 1
    MaxCalls = 0
    MaxEvents = 4
SPECIFICATION Spec
INVARIANT CachedEndIsApplied
CHECK_DEADLOCK FALSE
