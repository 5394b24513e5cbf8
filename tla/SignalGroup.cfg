SPECIFICATION Spec
CONSTANTS
    Sends = {}
    Peer = peer
    Stream = stream
    None = none
    FlushEvery = 2
    MaxMessages = 3
    MaxEvents = 1
    MaxFaults = 0
INVARIANTS EachDecrypted
CHECK_DEADLOCK FALSE
