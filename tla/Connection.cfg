SPECIFICATION FairSpec
CONSTANTS
    IqCalls = {c1}
    NodeCalls = {n1}
    NoCall = none
    Disconnect = disconnect
    ServerKinds = {"failure", "garbage"}
    AutoReconnect = TRUE
    BusCapacity = 1
    InboxCapacity = 1
    AttemptBound = 1
INVARIANTS CallInv NoStrandedCall LoggedOutStops
PROPERTIES ImplementsPromise CallsFailFast DisconnectStops
