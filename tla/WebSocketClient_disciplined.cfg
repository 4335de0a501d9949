SPECIFICATION LiveSpec
CONSTANTS
    Sockets = {s1, s2, s3}
    Calls = {c1}
    None = None
    MaxReconnects = 3
    MaxTimers = 2
    Disciplined = TRUE
INVARIANTS
    OneSocket
    PingFollowsConnection
    RetryIsAhead
PROPERTIES
    Recovers
