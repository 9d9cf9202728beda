\* Book and cancel by two workers interleaved at every statement: the abstract
\* calendar, and the end of every request.
SPECIFICATION FairSpec
CONSTANTS
    Workers = {w1, w2}
    Ids = {i1, i2, i3}
    Barbers = {b1}
    Services = {"C", "CB"}
    SlotsPerDay = 2
    NumDays = 2
    MaxClock = 0
    Open <- FutureOpen
    HaircutOnly <- NoneRestricted
    ClosedDays = {}
    Ops = {"book", "cancel"}
    Patches <- ConfirmOnly
    MoveContinuation = FALSE
    WriteBack = TRUE
    AwareTimestamps = TRUE
    NoRow = NoRow
    NoCall = NoCall
INVARIANT HalvesInSync
PROPERTIES ImplementsCalendar EveryRequestEnds
CHECK_DEADLOCK FALSE
