SPECIFICATION FairSpec
CONSTANTS
    h1 = h1
    h2 = h2
    q1 = q1
    q2 = q2
    q3 = q3
    None = None
    Handles = {h1, h2}
    Refused = {h2}
    Requests = {q1, q2, q3}
    HandleOf <- MCHandleOf
    Reasons = {"user", "interrupted"}
INVARIANTS
    CompleteIsHeard
    PendingIsSomewhere
PROPERTIES
    Ends
