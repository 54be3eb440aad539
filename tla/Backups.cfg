\* Two updates at a time, two backups, two failures, retention of one tick.
SPECIFICATION Spec
CONSTANTS
    Handlers = {h1, h2}
    Retention = 1
    MaxTime = 2
    MaxBackups = 2
    MaxFailures = 2
    None = None
SYMMETRY Interchangeable
INVARIANTS
    TypeOK
    LosingASuccessTakesTwo
    NothingIsLeftBehind
    DeliveriesAreWhole
PROPERTIES
    RetentionSparesTheYoung
