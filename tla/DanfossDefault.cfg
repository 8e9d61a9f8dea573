SPECIFICATION Spec
CONSTANTS
    Drives = {"danfossDefault"}
    CommandValues <- Values
    OverrideValue = 9999
    MaxOverrides = 1
INVARIANTS
    StatusFollowsCommand
