\* The owner and another user, two updates at a time.
SPECIFICATION Spec
CONSTANTS
    Ids = {u1, u2}
    Handlers = {h1, h2}
    AssignedRoles = {"ADMIN", "VIEWER"}
    MaxAsks = 2
    MaxFailures = 1
    None = None
SYMMETRY Interchangeable
INVARIANTS
    TypeOK
    OneOwner
PROPERTIES
    FollowsBook
    OnlyManagersChangeAccounts
