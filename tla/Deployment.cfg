\* Two handlers that overlap while the table has fewer than two rows, and three runs one
\* after the other: deploy, deploy and a rollback, or a rollback of a rollback.
SPECIFICATION FairSpec
CONSTANTS
    Handlers = {h1, h2}
    MaxCommit = 2
    MaxRuns = 3
    MaxOverlapped = 2
    MaxFaults = 1
    MaxCrashes = 1
    None = None
INVARIANTS
    TypeOK
    TwoRunsTakeARace
    RecordTellsLive
    RollbackRestoresLive
PROPERTIES
    OrphanBlocksForGood
    EveryRunIsSettled
