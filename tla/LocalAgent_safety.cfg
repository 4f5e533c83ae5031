SPECIFICATION LocalSpec
CONSTANTS
    MAX_AGENT_STEPS = 2
    Workspaces = {"", "home"}
    AuthorizedWorkspaces = {"home"}
    Tools <- MCTools
    RegisteredRisk <- MCRegisteredRisk
    UnknownTool = "shell.run"
    RunIds = {r1}
    CallIds = {c1, c2}
    Requests = {"main", "cancel", "web"}
    CallRequests <- MCClientCalls
    MaxVersion = 30
    Faults = TRUE
    None = None
    Run = r1
    ClientWorkspace = "home"
    DEFAULT_MAX_AGENT_STEPS = 2
    Interrupts = TRUE
    WebUser = TRUE
    MAX_TOOL_OUTPUT_LENGTH = 6
    Outputs <- MCOutputs
    ResultLimits <- MCResultLimits
INVARIANTS
    LocalTypeOK
    ExecutionIsAuthorised
    ResultsWereExecuted
    OutcomeIsTrue
    NoChildOutlivesItsTool
    OutputIsHonest
PROPERTIES
    ClientTerminates
    ClientProgresses
CHECK_DEADLOCK FALSE
