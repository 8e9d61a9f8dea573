SPECIFICATION Spec
CONSTANTS
    Start <- Device
    PDUs <- Requests
INVARIANTS TypeOK RepliesFit RefusedIffOutside ReadBack MapShowsWhatIsRead
PROPERTY ChangesAreNamed
