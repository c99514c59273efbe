CONSTANTS
    Modulus = 32
    MaxGap = 7
    Late = 3
    MaxTop = 15
SPECIFICATION PatcherSpec
INVARIANTS
    PatcherTypeOK
    FreshAcrossSequences
PROPERTY OffsetKept
