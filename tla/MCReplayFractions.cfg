SPECIFICATION Spec
CONSTANTS
    p1 = p1
    p2 = p2
    t1 = t1
    t2 = t2
    k1 = k1
    Keys = {k1}
    Procs = {p1, p2}
    Threads = {t1, t2}
    Instants = {1, 2, 3}
    Resolution = 2
    MaxCounter = 6
    ExpiresAt <- MCExpiresAt
    Host <- MCHost
CONSTRAINT Noticed
PROPERTIES ActiveClaimExclusive
CHECK_DEADLOCK FALSE
