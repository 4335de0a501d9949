SPECIFICATION FairSpec
CONSTANTS
    d1 = d1
    i1 = i1
    i2 = i2
    i3 = i3
    Callers = {d1, i1, i2, i3}
    Deploys = {d1}
    Batch <- Batch3
    BatchSize = 2
    MaxInvalid = 1
    Endpoints = {e1, e2}
    Checked = TRUE
    ReadTimeout = TRUE
INVARIANTS
    NothingSentUnverified
    ConfidentialIsSealed
    BatchAccounts
    ProgressIsSettled
PROPERTIES
    FailureIsNotCached
    BatchEnds
