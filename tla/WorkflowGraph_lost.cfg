SPECIFICATION Spec
CONSTANTS
    a = a
    b = b
    c = c
    None = None
    Nodes = {a, b}
    Seeded = {a, b}
    Deps <- MCFree
    Explorable = FALSE
    Plannable = {}
    FrontierTarget = 3
    MaxPlannerRuns = 1
    MaxConcurrent = 2
    MaxErrors = 3
    Lives = 0
    MaxFaults = 0
INVARIANTS
    PausedIsBlocked
CHECK_DEADLOCK FALSE
