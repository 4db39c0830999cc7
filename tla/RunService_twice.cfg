SPECIFICATION Spec
CONSTANTS
    r1 = r1
    r2 = r2
    v1 = v1
    None = None
    Minted = {r1, r2}
    Revised = {v1}
    RevisionOf <- MCRevisionOf
    Launches <- MCFourLaunches
    Leases = {}
    Services = {s1}
    Callers = {c1, c2}
    Endings = {}
    StartsFail = FALSE
INVARIANT OneEngine
