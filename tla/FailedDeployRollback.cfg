\* A rollback after a failed deployment.
SPECIFICATION Spec
CONSTANTS
    Handlers = {h1}
    MaxCommit = 2
    MaxRuns = 4
    MaxOverlapped = 1
    MaxFaults = 0
    MaxCrashes = 0
    None = None
INVARIANT RollbackUndoesFailure
