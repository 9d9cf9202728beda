\* Two requests of any route, on a tenant whose sections may exist already.
SPECIFICATION Spec
CONSTANTS
    Requests = {r1, r2}
    InitialRows <- Rows
    None = None
PROPERTIES AcknowledgedStored
