SPECIFICATION Spec
CONSTANTS
    Room = room
    Self = self
    Speakers = {s}
    Labels = {l}
    MaxChannels = 1
PROPERTY MutedIsSilent
CHECK_DEADLOCK FALSE
