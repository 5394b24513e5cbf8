SPECIFICATION Spec
CONSTANTS
    p1 = p1  p2 = p2
    Callers = {p1, p2}
    Keys <- TwoKeys
    DeviceKey <- FirstKey
    NoRow = none
    NoKey = nokey
    NoRequest = norequest
    Nobody = nobody
    Used = {"sync_keys", "sent_messages", "device", "sender_key_devices", "prekeys"}
    MaxRequests = 3
    MaxCrashes = 1
SYMMETRY CallerSymmetry
INVARIANTS StoreInv TakenOnce
PROPERTIES ImplementsAtomic
CHECK_DEADLOCK FALSE
