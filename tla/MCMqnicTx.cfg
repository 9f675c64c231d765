CONSTANTS
    r1 = r1
    s1 = s1
    s2 = s2
    None = None
    Ring <- OneRing
    Sender <- TwoSenders
    TxSize = 4
    CqSize = 4
    EqSize = 8
    BellDepth = 2
    PointerFirst = TRUE
    PostedDepth = 3
    MaxXmit = 6
SPECIFICATION FairSpec
INVARIANTS
    TypeOK
    BuffersConserved
    InFlightIntact
    NobodySleepsWithSpace
    CompletionsAnnounced
    AssertsHold
    CompletionsKept
    DoorbellsMatch
PROPERTIES
    ImplementsPacketRing
    SendersReturn
    BuffersReturn
CHECK_DEADLOCK FALSE
