\* The limiter alone, one username: a lockout shorter than the window, and time
\* for two of them.
CONSTANTS
    Users = {u1}
    MaxAttempts = 3
    Window = 3
    Lockout = 2
    MaxTime = 7
    MaxLog = 6
    None = None
SPECIFICATION Spec
INVARIANTS
    TypeOK
    PruneIsFilter
PROPERTIES
    ImplementsPolicy
