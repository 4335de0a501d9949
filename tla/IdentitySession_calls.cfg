\* Two overlapping calls of any kind; the clocks apart by up to the tolerance.
CONSTANTS
    Calls = {c1, c2}
    Subjects = {alice, bob}
    Restored = Restored
    NoSession = NoSession
    NoSubject = NoSubject
    NoToken = NoToken
    NoTime = NoTime
    NoKid = NoKid
    NoNonce = NoNonce
    Tolerance = 1
    Skews <- MCSkews
    Lifetime = 1
    AllowInsecure = FALSE
    MaxKey = 2
    MaxClock = 1
    Claims <- MCClaims
    NoClaim = NoClaim
    Overrides <- MCOverrides
    RoleTables <- MCRoleTables
    MaxTime = 3
SPECIFICATION Spec
CONSTRAINT Explored
SYMMETRY Symmetry
INVARIANTS CredentialsFollowIssuer SessionKeepsSubject SpentOnlyByRefresh EntitlementsFailSafe
PROPERTY RefusedForCause
