CONSTANTS
    m1 = m1
    m2 = m2
    None = None
    Ways = 2
    Levels = 2
    MaxRank = 2
    Meta <- OneMeta
    ZeroMeta = m1
    MaxLoad = 7
SPECIFICATION Spec
INVARIANT EveryHeadHeld
