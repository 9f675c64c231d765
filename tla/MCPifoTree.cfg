CONSTANTS
    m1 = m1
    m2 = m2
    None = None
    Ways = 2
    Levels = 2
    MaxRank = 2
    Meta <- TwoMetas
    ZeroMeta = m1
    MaxLoad = 6
SPECIFICATION Spec
INVARIANTS
    NothingOverrun
    EmptyFlagExact
    HeapExact
PROPERTY ImplementsPifo
