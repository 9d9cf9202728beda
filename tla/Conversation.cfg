\* Two server processes, two messages and a retry in every deployment, with a crash, a
\* Redis outage, and dedup keys and locks that expire at any moment.
SPECIFICATION Spec
CONSTANTS
    Workers = {w1, w2}
    m1 = m1
    m2 = m2
    b1 = b1
    b2 = b2
    Messages = {m1, m2}
    Bodies = {b1, b2}
    BodyOf <- DistinctTexts
    Deployments <- AllDeployments
    LockAttempts = 2
    MaxHits = 3
    MaxCrashes = 1
    MaxOutages = 1
    TtlExpires = TRUE
    None = None
SYMMETRY Sym
INVARIANTS TypeOK AnsweredOnce BookedAsTold
PROPERTIES NothingForgotten
CHECK_DEADLOCK FALSE
