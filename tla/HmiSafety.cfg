SPECIFICATION Spec
CONSTANTS
    Configs = {1, 2}
    File <- TwoFiles
    Port <- SamePort
    Values = {0, 1}
    Failures = {"listen"}
    MaxStarts = 2
    NoPath = NoPath
    BitRows = {"b"}
    NoRow = NoRow
INVARIANTS
    TypeOK
    RestartFindsPortFree
    StartIsClean
    EditsAreKept
PROPERTIES
    RefusedEditsChangeNothing
