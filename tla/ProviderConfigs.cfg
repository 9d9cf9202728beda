\* Two overlapping requests of any route on up to two rows.
SPECIFICATION Spec
CONSTANTS
    Requests = {r1, r2}
    MaxRows = 3
    MaxInitial = 2
    None = None
    Gone = Gone
INVARIANTS TypeOK OneActive
PROPERTIES SwitchTakesEffect RequestsEnd
