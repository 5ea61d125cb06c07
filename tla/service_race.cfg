\* Two concurrent password requests for one username.
CONSTANTS
    Users = {u1}
    Slots = {s1, s2}
    Workers = 2
    InUse = {"password", "bootstrap"}
    Faults = {"child"}
    MaxAttempts = 2
    Window = 2
    Lockout = 2
    MaxTime = 4
    MaxRejected = 6
    MaxStrays = 0
    MaxCrashes = 0
    None = None
SPECIFICATION Spec
SYMMETRY Symmetry
INVARIANTS
    TypeOK
    UnlockedBelowLimit
    AttemptBudget
    OverrunBounded
    RejectionBudget
PROPERTIES
    LockoutKept
    NoResurrection
