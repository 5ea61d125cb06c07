\* One bootstrap whose msktutil outlives the timeout.
CONSTANTS
    Slots = {s1}
    MaxAttempts = 1
    None = None
SPECIFICATION Spec
INVARIANT
    KeytabNeverPersisted
