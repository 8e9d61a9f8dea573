SPECIFICATION FairSpec
CONSTANTS
    Units = {u1, u2}
    UnitIDs = {u1}
    Malformed = {}
    NoConn = NoConn
    NoAddr = NoAddr
    NoFrame = NoFrame
    Conns = {c1, c2}
    Addrs = {a1, a2}
    MaxClients = 1
    MaxInbox = 1
    AddressReuse = FALSE
    AcceptErrors = TRUE
INVARIANTS
    LimitHolds
    ServedIsListed
PROPERTIES
    KeepsPromise
    CancelStops
    QueueIsServed
    AnsweredOrCutOff
    SilentPlaceIsFreed
