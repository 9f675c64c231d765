CONSTANTS
    q1 = q1
    q2 = q2
    None = None
    Queue <- TwoQueues
    Wqe = {2}
    RingSize = 4
    PtrMod = 8
    OpTableSize = 2
    DescTableSize = 2
    Pipeline = 2
SPECIFICATION MCFairSpec
INVARIANTS
    TableIsQueue
    CommitsStayHome
PROPERTIES
    ImplementsDescriptorRow
    SlotsReturn
