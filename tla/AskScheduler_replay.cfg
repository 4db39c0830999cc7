SPECIFICATION FairSpec
CONSTANTS
    None = None
    x1 = x1
    x2 = x2
    y1 = y1
    y2 = y2
    a1 = a1
    a2 = a2
    b = b
    p1 = p1
    p2 = p2
    q1 = q1
    q2 = q2
    w1 = w1
    w2 = w2
    r1 = r1
    r2 = r2
    Calls <- CrossedCalls
    Script <- CrossedScript
    After <- CrossedAfter
    Returns <- CrossedCalls
    Actors <- CrossedActors
    ActorOf <- CrossedActorOf
    SiteOf <- OneSiteEach
    TextOf <- OneSiteEach
    Typed = {y2}
    Controllable = {x1, y1}
    MaxConcurrency = 1
    RepairAttempts = 1
    NudgeAttempts = 1
    MaxAttempt = 2
    MaxLives = 3
INVARIANTS
    Placement
    WorkConserving
    LateReportsDropped
PROPERTIES
    InOrder
    KeepsLedger
    NoHang
