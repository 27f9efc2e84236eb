SPECIFICATION Spec
CONSTANTS
    Threads = {t1, t2}
    Entries = {e1, e2}
    MaxDay = 3
    MaxReserved = 1
    MaxFaults = 1
INVARIANTS
    TypeOK
    DamageBounded
PROPERTIES
    KeepsRetention
    CallsReturn
CHECK_DEADLOCK FALSE
