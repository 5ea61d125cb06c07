\* One request at a time, timeouts, late rejections and a restart.
CONSTANTS
    Users = {u1}
    Slots = {s1}
    Workers = 1
    InUse = {"password"}
    Faults = {"timeout"}
    MaxAttempts = 2
    Window = 3
    Lockout = 2
    MaxTime = 4
    MaxRejected = 4
    MaxStrays = 1
    MaxCrashes = 1
    None = None
SPECIFICATION Spec
INVARIANTS
    RejectionBudget
