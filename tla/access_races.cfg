\* Three clients for two places, answers always in time.
SPECIFICATION Spec
CONSTANTS
    Host = {h1}
    Conn = {c1, c2, c3}
    None = None
    MaxTransports = 2
    MaxServices = 1
    Timeouts = FALSE
    MaxCalls = 2
    MaxEdits = 2
SYMMETRY ConnSymmetry
INVARIANTS TransportsAuthorized AdmissionNeverStarves
CHECK_DEADLOCK FALSE
