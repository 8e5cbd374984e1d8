SPECIFICATION FairSpec
CONSTANTS
    t1 = t1
    t2 = t2
    t3 = t3
    Thread = {t1, t2, t3}
    LOGIN_MAX_ATTEMPTS = 2
    LOGIN_WINDOW_SECONDS = 3
    MaxStall = 2
INVARIANTS
    TypeOK
    LimitHolds
PROPERTIES
    LockoutEnds
