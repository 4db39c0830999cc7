SPECIFICATION FairSpec
CONSTANTS
    c1 = c1
    c2 = c2
    k1 = k1
    k2 = k2
    None = None
    Commands = {c1, c2}
    Goals = {c2}
    Calls = {k1, k2}
    TableSize = 1
    Faults = {"execute", "turn", "resume"}
INVARIANTS
    OnceEach
    WrittenIsKnown
PROPERTIES
    Answered
