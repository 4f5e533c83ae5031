SPECIFICATION Spec
CONSTANTS
    MAX_AGENT_STEPS = 2
    Workspaces = {"", "home", "other"}
    AuthorizedWorkspaces = {"home"}
    Tools <- MCTools
    RegisteredRisk <- MCRegisteredRisk
    UnknownTool = "shell.run"
    RunIds = {r1}
    CallIds = {c1, c2}
    Requests = {q1, q2}
    CallRequests <- MCCallRequests
    MaxVersion = 7
    Faults = TRUE
    None = None
SYMMETRY Symmetry
INVARIANTS
    TypeOK
    PendingWritesAreCurrent
    OpenProposalFollowsStatus
    ResultsAreAuthorised
    StepsAreAudited
    MailIsTruthful
PROPERTIES
    TerminalIsFinal
    AuditIsFinal
    TerminalOutcomeReported
    ImplementsLifecycle
CHECK_DEADLOCK FALSE
