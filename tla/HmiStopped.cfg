SPECIFICATION FairSpec
CONSTANTS
    Configs = {1}
    File <- OneFile
    Port <- SamePort
    Values = {0, 1}
    Failures = {}
    MaxStarts = 1
    NoPath = NoPath
    BitRows = {}
    NoRow = NoRow
PROPERTIES
    StoppedServesNobody
