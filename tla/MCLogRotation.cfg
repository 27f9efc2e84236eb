SPECIFICATION RotationSpec
CONSTANTS
    Callers = {t, u}
    Handlers = {}
    MaxLogFileNum = 3
    MaxMade = 6
    MaxFailed = 1
SYMMETRY Symmetry
INVARIANTS
    RotationTypeOK
    NewestKept
    PlainBounded
PROPERTY KeepsNewest
CHECK_DEADLOCK FALSE
