CONSTANTS
    m1 = m1
    m2 = m2
    m3 = m3
    None = None
    Ways = 2
    Levels = 2
    MaxRank = 8
    HostRanks = 2
    TsMod = 4
    Meta <- ThreeMetas
    ZeroMeta = m1
    MaxLoad = 3
SPECIFICATION TieSpec
PROPERTY RankThenEntry
