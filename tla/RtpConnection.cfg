CONSTANTS
    MaxLocal = 2
    MaxRemote = 2
    MaxCalls = 2
    MaxEvents = 4
SPECIFICATION Spec
INVARIANTS
    TypeOK
    CandidatesConserved
    SubscriptionsAgree
PROPERTIES
    NeverBackUp
    ConnectSettles
CHECK_DEADLOCK FALSE
