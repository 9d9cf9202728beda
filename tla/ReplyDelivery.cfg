\* Two processes, three hits, every deployment and one fault.
SPECIFICATION Spec
CONSTANTS
    Procs = {p1, p2}
    Deployments <- AllDeployments
    Threads = 2
    SendRetries = 2
    MaxHits = 3
    MaxFaults = 1
    None = None
SYMMETRY Sym
INVARIANTS TypeOK SentWasAccepted SentOncePerHit OneFlush RepliesSettle
CHECK_DEADLOCK FALSE
