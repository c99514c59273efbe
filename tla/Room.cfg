CONSTANTS
    c1 = c1
    c2 = c2
    b1 = b1
    b2 = b2
    l1 = l1
    l2 = l2
    ClientId = {c1, c2}
    BroadcastId = {b1, b2}
    Label = {l1, l2}
    MaxListed = 2
SPECIFICATION Spec
INVARIANTS
    TypeOK
    MembersKnowMembers
    MembersKnowBroadcasts
    NoOrphanBroadcast
    OneBroadcastPerLabel
PROPERTY
    ShutdownCompletes
