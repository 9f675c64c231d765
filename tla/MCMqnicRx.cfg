CONSTANTS
    v1 = v1
    None = None
    Receiver <- OneReceiver
    RxSize = 4
    RefillMin = 2
    CqSize = 3
    MaxPackets = 12
SPECIFICATION FairSpec
INVARIANTS
    PacketsInOrder
    BuffersConserved
    RecvReturnsPacket
PROPERTIES
    RingRefilled
    PacketsReceived
CHECK_DEADLOCK FALSE
