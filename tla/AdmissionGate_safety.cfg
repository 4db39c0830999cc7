SPECIFICATION Spec
CONSTANTS
    None = None
    Clients = {c1, c2, c3}
    Observers = {m1}
    Abortable = {c1, c2, c3}
    Ceiling = 4
    IncreaseAfter = 2
    IdleWindow = 2
    RetryAfters = {1, 3}
SYMMETRY Symmetry
INVARIANTS
    TicketAccounting
    ProbeIsOneStep
PROPERTIES
    BurstCutsOnce
    StrandedOnlyByAbort
