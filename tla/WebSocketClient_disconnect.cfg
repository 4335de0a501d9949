SPECIFICATION Spec
CONSTANTS
    Sockets = {s1, s2}
    Calls = {c1}
    None = None
    MaxReconnects = 1
    MaxTimers = 1
    Disciplined = FALSE
PROPERTIES
    DisconnectIsFinal
