CONSTANTS
    MaxRequests = 3
    MaxNotifies = 2
SPECIFICATION Spec
INVARIANTS
    TypeOK
    CallbacksMatchState
    AnswersInOrder
    CloseIsLast
PROPERTY LoopsEnd
CHECK_DEADLOCK FALSE
