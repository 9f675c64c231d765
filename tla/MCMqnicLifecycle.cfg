CONSTANTS
    None = None
    NRx = 1
    NTx = 2
    PostedDepth = 2
    MaxPackets = 3
    MaxCloses = 3
SPECIFICATION FairSpec
INVARIANTS
    QueuesOwned
    NoCrash
PROPERTY
    CompletionsHandled
CHECK_DEADLOCK FALSE
