SPECIFICATION FairSpec
CONSTANTS
    Configs = {1}
    File <- OneFile
    Port <- SamePort
    Values = {0}
    Failures = {"listen", "accept"}
    MaxStarts = 2
    NoPath = NoPath
    BitRows = {}
    NoRow = NoRow
PROPERTIES
    ErrorsAreShownOnce
    StopReturns
    ServersTakeTurns
