CONSTANTS
    Devices <- SmallDevices
    CsrOffset = 4
    Needed <- NeededTypes
    None = None
SPECIFICATION Spec
INVARIANTS
    ListsExact
    PortsComplete
CHECK_DEADLOCK FALSE
