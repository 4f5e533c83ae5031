SPECIFICATION FairSpec
CONSTANTS
    Clients = {b1}
    SessionIds = {s1}
    Messages = {m1, m2}
    HistoryTurnLimit = 1
    None = None
PROPERTY RetryReachesSession
CHECK_DEADLOCK FALSE
