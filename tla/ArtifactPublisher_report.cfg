SPECIFICATION FairSpec
CONSTANTS
    None = None
    x1 = x1
    x2 = x2
    x3 = x3
    y1 = y1
    y2 = y2
    z1 = z1
    z2 = z2
    w1 = w1
    Calls <- ReportCalls
    Script <- ReportScript
    After <- ReportAfter
    Returns <- ReportReturns
    IdOf <- ReportIds
    KindOf <- ReportKinds
    SpecOf <- ReportSpecs
    Presets = {"chart"}
    Primary = {x1, y1}
    MaxIds = 3
    MaxVersions = 2
    LateFailures = FALSE
    MaxLives = 3
INVARIANTS
    OnePrimary
    SameAfterCrash
PROPERTIES
    KeepsLedger
    Ends
