CONSTANTS
    Stream = {"a", "b"}
    MaxTracks = 2
    MaxSources = 2
    Capacity = 1
SPECIFICATION Spec
INVARIANTS
    TypeOK
    EndIsOwed
PROPERTIES
    InstalledStays
    EndIsHeard
CHECK_DEADLOCK FALSE
