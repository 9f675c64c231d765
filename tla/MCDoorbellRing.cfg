CONSTANTS
    q1 = q1
    q2 = q2
    low = low
    high = high
    None = None
    ZeroWord = low
    Queue <- TwoQueues
    Doorbell <- TwoDoorbells
    DoorbellDepth = 2
    FifoDepth = 2
    Pipeline = 2
SPECIFICATION MCFairSpec
INVARIANTS
    TypeOK
    OneToken
    TokenIsHead
    RingWithinDepth
PROPERTIES
    ImplementsDoorbellQueue
    RingsDrain
