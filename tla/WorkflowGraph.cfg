SPECIFICATION FairSpec
CONSTANTS
    a = a
    b = b
    c = c
    None = None
    Nodes = {a, b, c}
    Seeded = {a, b}
    Deps <- MCDeps
    Explorable = TRUE
    Plannable <- MCPlannable
    FrontierTarget = 1
    MaxPlannerRuns = 1
    MaxConcurrent = 2
    MaxErrors = 1
    Lives = 1
    MaxFaults = 1
INVARIANTS
    CompletionIsReal
PROPERTIES
    OneJob
    DependenciesFirst
    Returns
CHECK_DEADLOCK FALSE
