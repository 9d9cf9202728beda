\* The lock with Redis at work, no failure and no TTL running out: a hit refused by
\* Redis takes the lock of the table.
SPECIFICATION Spec
CONSTANTS
    Workers = {w1, w2}
    m1 = m1
    m2 = m2
    b1 = b1
    b2 = b2
    Messages = {m1, m2}
    Bodies = {b1, b2}
    BodyOf <- DistinctTexts
    Deployments <- OnlyPostgresRedis
    LockAttempts = 2
    MaxHits = 2
    MaxCrashes = 0
    MaxOutages = 0
    TtlExpires = FALSE
    None = None
INVARIANT LockExclusive
CHECK_DEADLOCK FALSE
