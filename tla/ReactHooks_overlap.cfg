SPECIFICATION Spec
CONSTANTS
    Options = {o1, o2}
    Wallets = {o1}
    Manual = {o2}
    Models = {m1, m2}
    None = None
    MaxConnects = 3
    MaxCalls = 3
CHECK_DEADLOCK FALSE
INVARIANTS
    ConnectionIsWhole
    LatestIsShown
    SpinnersStop
