\* The runner and a visit to the monitoring screen, one rule.
SPECIFICATION Spec
CONSTANTS
    None = None
    NumRules = 1
    Cooldown = 1
    Runners = {r1, r2}
    Screens = {s1}
    MaxTime = 0
    MaxChanges = 2
    MaxFaults = 1
    MaxCrashes = 1
SYMMETRY Interchangeable
INVARIANTS
    RunnersTakeTurns
    OneOpenPerEvaluator
    RecoveryIsTold
PROPERTIES
    ResolvedStaysResolved
    SwitchedOffIsFrozen
