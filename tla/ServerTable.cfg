SPECIFICATION TrafficSpec
CONSTANTS
    Units = {u1, u2}
    UnitIDs = {u1}
    Malformed = {bad}
    NoConn = NoConn
    NoAddr = NoAddr
    NoFrame = NoFrame
    NoSnapshot = NoSnapshot
    Conns = {c1, c2}
    Addrs = {a1, a2}
    MaxClients = 2
    MaxInbox = 1
    MaxMessages = 2
    AddressReuse = TRUE
    AcceptErrors = TRUE
SYMMETRY Interchangeable
INVARIANTS
    TypeOK
    NoStaleEntry
    OwnCounts
    WindowsAddUp
