\* The runner alone, two rules.
SPECIFICATION FairSpec
CONSTANTS
    None = None
    NumRules = 2
    Cooldown = 2
    Runners = {r1}
    Screens = {}
    MaxTime = 3
    MaxChanges = 3
    MaxFaults = 1
    MaxCrashes = 1
INVARIANTS
    TypeOK
    EarlyRepeatsArePaid
PROPERTIES
    EventsFollowTargets
