SPECIFICATION SystemSpec
CONSTANTS
    Room = room
    Self = self
    Others = {o1, o2}
    Cands = {}
    DcLabels = {}
    MaxVisits = 1
INVARIANTS
    SystemTypeOK
    RoomAskedOnce
PROPERTY RosterFollowsRoom
CHECK_DEADLOCK FALSE
