SPECIFICATION FairSpec
CONSTANTS
    Clients = {b1, b2}
    SessionIds = {s1, s2}
    Messages = {m1, m2, m3}
    HistoryTurnLimit = 1
    None = None
INVARIANTS
    TypeOK
    TurnsSawTheirHistory
    FailureLeavesNoTurn
PROPERTIES
    ImplementsSerialChat
    RequestsEnd
CHECK_DEADLOCK FALSE
