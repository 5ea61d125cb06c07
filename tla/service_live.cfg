\* Three requests, one worker, a KDC that may never answer.
CONSTANTS
    Users = {u1}
    Slots = {s1, s2, s3}
    Workers = 1
    InUse = {"password", "renew"}
    Faults = {"timeout"}
    MaxAttempts = 1
    Window = 1
    Lockout = 1
    MaxTime = 0
    MaxRejected = 0
    MaxStrays = 0
    MaxCrashes = 0
    None = None
SPECIFICATION FairSpec
PROPERTIES
    EveryRequestAnswered
