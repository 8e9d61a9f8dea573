SPECIFICATION Spec
CONSTANTS
    Drives = {"ms300", "abb", "danfoss", "invertek", "schneider", "siemens"}
    CommandValues <- Values
    OverrideValue = 9999
    MaxOverrides = 1
INVARIANTS
    TypeOK
    CommandsKept
    StatusFollowsCommand
    EchoesAgree
    StoppedIsStill
    NumbersFit
