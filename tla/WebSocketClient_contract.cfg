SPECIFICATION FairSpec
CONSTANTS
    Sockets = {s1, s2}
    Calls = {c1, c2}
    None = None
    MaxReconnects = 1
    MaxTimers = 1
    Disciplined = FALSE
INVARIANTS
    TypeOK
    OwnAnswer
    NoCallOutlivesDisconnect
PROPERTIES
    ImplementsCallContract
