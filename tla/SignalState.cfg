SPECIFICATION Spec
CONSTANTS
    Sends = {s1, s2}
    Peer = peer
    Stream = stream
    None = none
    FlushEvery = 2
    MaxMessages = 3
    MaxEvents = 4
    MaxFaults = 1
SYMMETRY SendSymmetry
INVARIANTS SessionInv KeyReuseExplained OneTimeKeyLeavesSession ShownOnce NothingLost
PROPERTIES StoredNeverGoesBack
CHECK_DEADLOCK FALSE
