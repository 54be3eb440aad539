\* Two updates at a time, one container, two requests, two failed calls or restarts.  The
\* bounds let it stop.
SPECIFICATION Spec
CONSTANTS
    Handlers = {h1, h2}
    Containers = {c1}
    Allowlists <- SomeLists
    MaxAsks = 2
    MaxFailures = 2
    None = None
SYMMETRY Interchangeable
CHECK_DEADLOCK FALSE
INVARIANTS
    TypeOK
    SwitchedOffHolds
    OnlyListedAreTouched
PROPERTIES
    RemovedWasStopped
