CONSTANTS
    v1 = v1
    None = None
    Receiver <- OneReceiver
    RxSize = 8
    RefillMin = 2
    CqSize = 4
    MaxPackets = 8
SPECIFICATION FairSpec
PROPERTIES
    EveryPacketReceived
CHECK_DEADLOCK FALSE
