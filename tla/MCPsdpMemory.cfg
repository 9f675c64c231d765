CONSTANTS
    SegCount = 2
    SegBytes = 2
    Words = 2
    Transfers <- FewTransfers
    ResetBusy = TRUE
    None = None
    MaxWrites = 2
    MaxReads = 2
    MaxCalls = 3
    OnePause = FALSE
SPECIFICATION FairSpec
INVARIANTS
    WritesLand
    ReadsSeeWrites
    NoAnswerOverrun
PROPERTY CallsReturn
CHECK_DEADLOCK FALSE
