\* One update at a time, one token, an effect without a time limit and one with.
SPECIFICATION FairSpec
CONSTANTS
    None = None
    Actors = {owner, operator}
    OwnerId = owner
    Tokens = {t1}
    Handlers = {h1}
    ActionTypes = {"docker", "deploy"}
    Administered = {operator}
    GrantableRoles = {"OPERATOR", "VIEWER"}
    TTLs = {1}
    MaxTime = 2
    MaxFaults = 2
    MaxCrashes = 1
INVARIANTS
    TypeOK
    StatusTellsEffect
PROPERTIES
    ImplementsApproval
    EveryApprovalIsSettled
