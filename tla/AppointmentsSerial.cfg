\* One request at a time, two days with midnight in between, the clock ticks.
SPECIFICATION Spec
CONSTANTS
    Workers = {w1}
    Ids = {i1, i2, i3}
    Barbers = {b1}
    Services = {"C", "CB"}
    SlotsPerDay = 3
    NumDays = 2
    MaxClock = 3
    Open <- AllOpen
    HaircutOnly <- FirstRestricted
    ClosedDays = {}
    Ops = {"book", "cancel", "reschedule", "patch"}
    Patches <- AllPatches
    MoveContinuation = FALSE
    WriteBack = FALSE
    AwareTimestamps = FALSE
    NoRow = NoRow
    NoCall = NoCall
SYMMETRY Sym
INVARIANTS HalvesAdjacent DateAgreesWithStart
PROPERTIES CancelTakesBoth ImplementsCalendar
CHECK_DEADLOCK FALSE
