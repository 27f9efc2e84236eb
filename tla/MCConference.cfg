SPECIFICATION Spec
CONSTANTS
    Room = room
    Self = self
    Others = {o1}
    Cands = {c1}
    DcLabels = {room}
INVARIANTS
    TypeOK
    PublisherReady
    MarksMatchRequests
    NoStrandedCandidates
    OnlyRoomMarkSurvives
PROPERTIES
    KeepsContract
CHECK_DEADLOCK FALSE
