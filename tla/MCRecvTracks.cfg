SPECIFICATION Spec
CONSTANTS
    Types = {"audio", "video", "application"}
    Directions = {"sendonly", "recvonly"}
    Codecs = {"H264", "opus", "VP8"}
    Payloads <- MCPayloads
    Offers <- MCOffers
INVARIANTS
    TracksAsOffered
CHECK_DEADLOCK FALSE
