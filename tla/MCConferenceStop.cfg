SPECIFICATION Spec
CONSTANTS
    Room = room
    Self = self
    Others = {o1}
    Cands = {}
    DcLabels = {room}
PROPERTY StopReturns
CHECK_DEADLOCK FALSE
