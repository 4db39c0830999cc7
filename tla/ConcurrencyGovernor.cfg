SPECIFICATION Spec
CONSTANTS
    None = None
    MainAgent = MainAgent
    a1 = a1
    a2 = a2
    b1 = b1
    runA = runA
    runB = runB
    Clients = {a1, a2, b1}
    Observers = {m1}
    Runs = {runA, runB}
    RunOf <- MCRunOf
    Abortable = {a1, b1}
    Ceiling = 2
    IncreaseAfter = 1
    IdleWindow = 1
    RetryAfters = {2}
PROPERTIES
    ImplementsGate
    FifoWithinRun
    RunsAlternate
    WaiterLeavesQueue
