\* Two limiters that overlap or follow each other, two requests at a time in each, a
\* lockout shorter than the window, and one rejection that no limiter hears of.  The
\* budget of a limiter is reached.
CONSTANTS
    Users = {p1, p2}
    MaxRequests = 2
    MaxAttempts = 2
    Window = 2
    Lockout = 1
    MaxTime = 2
    MaxHidden = 1
    None = None
SPECIFICATION Spec
SYMMETRY Symmetry
INVARIANTS
    TypeOK
    BudgetOfLimiter
    BudgetAtCern
