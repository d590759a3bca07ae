SPECIFICATION DedupSpec
CONSTANTS
    Ids = {a, b, c}
    Callers = {m1, m2}
    TTL = 2
    Limit = 1
    MaxTime = 4
INVARIANTS
    SweepIsExact
PROPERTIES
    NoEarlyRepeat
