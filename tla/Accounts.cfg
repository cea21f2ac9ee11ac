SPECIFICATION Spec
CONSTANTS
    Emails = {e1}
    Links = {l1, l2}
    Keys = {k1, k2, k3}
    Tokens = {t1, t2, t3}
    Requests = {r1, r2}
    PoolSize = 2
    MaxFaults = 2
INVARIANTS KeyPerAccount
PROPERTIES OldAccessEnds KeepsLink Answered
CHECK_DEADLOCK FALSE
