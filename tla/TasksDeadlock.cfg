SPECIFICATION FairSpec
CONSTANTS
    Stream = stream
    Calls = {c1}
    Histories = {}
    Routers = {r1}
    None = none
    BusCapacity = 1
    MaxMessages = 3
    MaxConnects = 0
PROPERTIES LoopKeepsReading
CHECK_DEADLOCK FALSE
