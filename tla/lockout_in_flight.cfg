\* Two concurrent password requests, one worker.
CONSTANTS
    Users = {u1}
    Slots = {s1, s2}
    Workers = 1
    InUse = {"password", "bootstrap"}
    Faults = {}
    MaxAttempts = 2
    Window = 2
    Lockout = 2
    MaxTime = 2
    MaxRejected = 0
    MaxStrays = 0
    MaxCrashes = 0
    None = None
SPECIFICATION Spec
PROPERTIES
    NoKinitWhileLocked
