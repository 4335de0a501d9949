SPECIFICATION Spec
CONSTANTS
    o1 = o1
    h1 = h1
    h2 = h2
    h3 = h3
    m1 = m1
    m2 = m2
    Parties = {o1, h1, h2, h3}
    Models = {m1, m2}
    Owner <- MCOwner
    Configs <- MCConfigs
    Keys <- MCKeys
    Random <- MCRandom
    MaxCollected = 3
    None = None
    Error = Error
    Refused = Refused
CHECK_DEADLOCK FALSE
INVARIANTS
    QuorumRecovers
    VerifiedIsUnambiguous
    OneShareSaysNothing
    NobodyAlone
    ReadersAreNamed
