\* Two requests of any kind at once, three in all, timeouts that leave orphans behind.
CONSTANTS
    Slots = {s1, s2}
    MaxAttempts = 3
    None = None
SPECIFICATION Spec
INVARIANTS
    TypeOK
    AnswersOwnOutput
    NothingLeftBehind
