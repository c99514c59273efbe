CONSTANTS
    Broadcast = {1, 2}
    MaxTracks = 2
    MaxTargets = 3
    Capacity = 1
SPECIFICATION Spec
INVARIANTS
    TypeOK
    HandlersAreSubscriptions
PROPERTY KeyFrameRequestEnds
CHECK_DEADLOCK FALSE
