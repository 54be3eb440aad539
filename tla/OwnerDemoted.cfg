\* One update at a time: /adduser with the owner's own id, confirmed.
SPECIFICATION Spec
CONSTANTS
    Ids = {u1, u2}
    Handlers = {h1}
    AssignedRoles = {"VIEWER"}
    MaxAsks = 1
    MaxFailures = 0
    None = None
INVARIANT OwnerKeepsRole
