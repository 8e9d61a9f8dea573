SPECIFICATION FairSpec
CONSTANTS
    h1 = h1
    h2 = h2
    screen = screen
    command = command
    status = status
    Handlers <- TwoHandlers
    Operators <- Screen
    Holding <- HoldingPlaces
    Coils = {}
    Inputs <- InputPlaces
    Reports <- ReportPlaces
    Values <- Bits
    Derive <- Repeat
    Requests <- OneRequest
    Outside = Outside
    Nobody = Nobody
    NoCall = NoCall
    NoAnswer = NoAnswer
    Refused = Refused
INVARIANTS
    TypeOK
    ReportsAgree
PROPERTIES
    IsAtomicBank
    EveryCallReturns
