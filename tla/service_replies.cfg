\* Every mode, verdict and failure, two requests, two usernames.
CONSTANTS
    Users = {u1, u2}
    Slots = {s1, s2}
    Workers = 1
    InUse = {"password", "keytab", "renew", "bootstrap"}
    Faults = {"jwks", "realm", "mkdir", "stage", "spawn", "timeout", "child", "output"}
    MaxAttempts = 2
    Window = 1
    Lockout = 1
    MaxTime = 1
    MaxRejected = 0
    MaxStrays = 0
    MaxCrashes = 0
    None = None
SPECIFICATION Spec
SYMMETRY Symmetry
INVARIANTS
    AuditMatchesAnswer
    BufferReleased
    QueueMatchesPc
PROPERTIES
    FailureCounted
    LimiterIsolation
