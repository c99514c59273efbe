CONSTANTS
    MaxClients = 2
    Rooms = {7, 8}
    t1 = t1
    t2 = t2
    Token = {t1, t2}
SPECIFICATION Spec
INVARIANTS
    TypeOK
    AdmittedByToken
    OpenSessionIsWhole
PROPERTIES
    TokenSpentOnce
    CloseCleansUp
CHECK_DEADLOCK FALSE
