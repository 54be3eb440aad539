\* Two users, two actions in a window of three seconds of two ticks.
SPECIFICATION Spec
CONSTANTS
    Users = {u1, u2}
    Limit = 2
    Second = 2
    Window = 6
    MaxTime = 11
    MaxCalls = 5
SYMMETRY Interchangeable
INVARIANTS
    TypeOK
    NeverOverLimit
    RefusalIsDeserved
    RetryIsExact
