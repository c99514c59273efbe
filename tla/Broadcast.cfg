CONSTANTS
    c1 = c1
    c2 = c2
    ClientId = {c1, c2}
SPECIFICATION Spec
INVARIANT NoLostWakeup
PROPERTIES
    TargetsAreRead
    ImplementsTask
