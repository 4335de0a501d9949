SPECIFICATION LiveSpec
CONSTANTS
    Sockets = {s1, s2}
    Calls = {c1}
    None = None
    MaxReconnects = 2
    MaxTimers = 2
    Disciplined = FALSE
PROPERTIES
    ConnectSettles
