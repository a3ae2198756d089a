SPECIFICATION GuestSpec
CONSTANTS
    g1 = g1
    g2 = g2
    p1 = p1
    p2 = p2
    b1 = b1
    Guest = {g1, g2}
    Off = {g2}
    Block = {b1}
    BlockOf <- SameBlock
    Pipe = {p1, p2}
    MaxDeletions = 1
    Bounds <- GuestBounds
INVARIANTS
    GuestTypeOK
    OutageIsTold
PROPERTIES
    GreenIsDeployed
    LossNeedsFailures
    SyncDeletesFew
    MirrorsHosts
    GitFollowsHosts
