\* A mint or a renewal that meets what its handler does not expect.
CONSTANTS
    Users = {u1}
    Slots = {s1}
    Workers = 1
    InUse = {"password", "renew"}
    Faults = {"jwks", "realm", "mkdir", "stage", "output"}
    MaxAttempts = 2
    Window = 2
    Lockout = 2
    MaxTime = 0
    MaxRejected = 0
    MaxStrays = 0
    MaxCrashes = 0
    None = None
SPECIFICATION Spec
PROPERTY
    EveryAnswerAudited
