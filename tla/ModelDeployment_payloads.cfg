SPECIFICATION Spec
CONSTANTS
    n1 = n1
    n2 = n2
    n3 = n3
    n4 = n4
    MaxDepth = 3
    Deploys = {d1, d2}
    Configs <- MCConfigs
    Objects = {o1}
    Contents <- MCContents
    Providers <- MCProviders
    Root = n1
    MaxNesting = 2
    Endpoint = Endpoint
    Mute = Mute
    Limits <- MCLimits
    Refused = Refused
    None = None
CHECK_DEADLOCK FALSE
INVARIANTS
    NoShareIsPublished
    MetadataFitData
    SentToVerified
