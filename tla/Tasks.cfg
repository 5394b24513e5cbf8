SPECIFICATION FairSpec
CONSTANTS
    Stream = stream
    Calls = {c1}
    Histories = {h1}
    Routers = {r1}
    None = none
    BusCapacity = 1
    MaxMessages = 1
    MaxConnects = 1
INVARIANTS GuardInv BuiltUnderOneDevice
PROPERTIES WaitsEnd
CHECK_DEADLOCK FALSE
