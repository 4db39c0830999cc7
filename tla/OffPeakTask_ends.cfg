SPECIFICATION FairSpec
CONSTANTS
    t1 = t1
    t2 = t2
    t3 = t3
    h1 = h1
    h2 = h2
    None = None
    Tickets = {t1, t2}
    Segments = 1
    Hosts = {h1}
    Faults = {"restart"}
PROPERTIES
    ClaimEnds
    Settles
    TicketHeals
