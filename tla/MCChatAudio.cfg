SPECIFICATION Spec
CONSTANTS
    Room = room
    Self = self
    Speakers = {s}
    Labels = {room, s, l}
    MaxChannels = 4
INVARIANTS
    HeardIsKept
    RoomEntryCurrent
CHECK_DEADLOCK FALSE
