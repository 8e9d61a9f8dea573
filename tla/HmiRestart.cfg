SPECIFICATION Spec
CONSTANTS
    Configs = {1}
    File <- OneFile
    Port <- SamePort
    Values = {0}
    Failures = {"accept"}
    MaxStarts = 2
    NoPath = NoPath
    BitRows = {}
    NoRow = NoRow
INVARIANTS
    RestartFindsPortFree
