CONSTANTS
    IdSpace = 3
    MaxRequests = 5
SPECIFICATION Spec
INVARIANTS
    TypeOK
    AnswersOwn
    PendingIsTracked
    NothingLeftBehind
PROPERTY EverySettles
