SPECIFICATION ZigbeeSpec
CONSTANTS
    n1 = n1
    n2 = n2
    Node = {n1, n2}
    Cooldown = 4
    Bounds <- ZigbeeBounds
INVARIANT
    OneCutPerCooldown
