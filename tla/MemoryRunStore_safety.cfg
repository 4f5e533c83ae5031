SPECIFICATION MemorySpec
CONSTANTS
    MAX_AGENT_STEPS = 2
    Workspaces = {"", "home", "other"}
    AuthorizedWorkspaces = {"home"}
    Tools <- MCTools
    RegisteredRisk <- MCRegisteredRisk
    UnknownTool = "shell.run"
    RunIds = {r1}
    CallIds = {c1, c2}
    Requests = {q1, q2}
    CallRequests <- MCCallRequests
    MaxVersion = 7
    Faults = TRUE
    None = None
SYMMETRY Symmetry
INVARIANTS
    ActiveProposalFits
    ResultsAreAuthorised
PROPERTIES
    AuditIsFinal
    StoreImplementsPostgres
CHECK_DEADLOCK FALSE
