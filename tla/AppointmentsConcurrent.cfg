\* Book, cancel and reschedule by two workers interleaved at every statement, with
\* crashes, deadlocks and moves of continuation rows.
SPECIFICATION Spec
CONSTANTS
    Workers = {w1, w2}
    Ids = {i1, i2, i3}
    Barbers = {b1}
    Services = {"C", "CB"}
    SlotsPerDay = 3
    NumDays = 2
    MaxClock = 0
    Open <- FutureOpen
    HaircutOnly <- NoneRestricted
    ClosedDays = {}
    Ops = {"book", "cancel", "reschedule"}
    Patches <- ConfirmOnly
    MoveContinuation = TRUE
    WriteBack = FALSE
    AwareTimestamps = TRUE
    NoRow = NoRow
    NoCall = NoCall
SYMMETRY SymAll
INVARIANTS TypeOK UniqueSlot PairsBornWhole
PROPERTIES CancelledIsFinal 
CHECK_DEADLOCK FALSE
