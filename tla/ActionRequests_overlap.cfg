\* Two updates at a time on one token.
SPECIFICATION Spec
CONSTANTS
    None = None
    Actors = {owner, operator}
    OwnerId = owner
    Tokens = {t1}
    Handlers = {h1, h2}
    ActionTypes = {"docker"}
    Administered = {operator}
    GrantableRoles = {"OPERATOR", "VIEWER"}
    TTLs = {1}
    MaxTime = 1
    MaxFaults = 1
    MaxCrashes = 0
SYMMETRY Interchangeable
INVARIANTS
    VerdictsAreAudited
PROPERTIES
    AnswersAreFinal
    OnlyTheRequesterMovesAToken
    LapsedStaysLapsed
    RevocationHolds
