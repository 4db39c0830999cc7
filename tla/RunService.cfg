SPECIFICATION FairSpec
CONSTANTS
    r1 = r1
    r2 = r2
    v1 = v1
    None = None
    Minted = {r1, r2}
    Revised = {v1}
    RevisionOf <- MCRevisionOf
    Launches <- MCLaunches
    Leases = {1, 2}
    Services = {s1}
    Callers = {c1}
    Endings = {"close", "crash"}
    StartsFail = TRUE
INVARIANTS
    Owned
    RunningIsTrue
PROPERTIES
    AfterSettlement
    ImplementsRows
    CloseEnds
    OperationsEnd
