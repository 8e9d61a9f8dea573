SPECIFICATION FairSpec
CONSTANTS
    Procs = {p1, p2}
    Files = {1}
    DefaultFile = 1
    Folders <- OneFile
    Flags = {1}
    Edits <- PortEdits
    NoPath = NoPath
INVARIANTS
    TypeOK
    WrittenLoadsBack
    ServedIsValid
    NoticedAtNextLine
PROPERTIES
    ExitEnds
