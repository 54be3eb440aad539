\* Two updates on one token, nothing failing: is the token single-use?
SPECIFICATION Spec
CONSTANTS
    None = None
    Actors = {owner, operator}
    OwnerId = owner
    Tokens = {t1}
    Handlers = {h1, h2}
    ActionTypes = {"docker"}
    Administered = {}
    GrantableRoles = {"OPERATOR", "VIEWER"}
    TTLs = {1}
    MaxTime = 1
    MaxFaults = 0
    MaxCrashes = 0
INVARIANTS
    SingleUse
