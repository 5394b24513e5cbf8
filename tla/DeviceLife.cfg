SPECIFICATION Spec
CONSTANTS
    MaxDevices = 3
    BusCapacity = 1
    MaxClients = 2
INVARIANTS DeviceInv LinkedIsKept RejectedStaysOut SignedKeyServes
PROPERTIES PairsTheConnected
CHECK_DEADLOCK FALSE
