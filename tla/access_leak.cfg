\* More clients than places, answers may be late.
SPECIFICATION Spec
CONSTANTS
    Host = {h1}
    Conn = {c1, c2, c3}
    None = None
    MaxTransports = 2
    MaxServices = 1
    Timeouts = TRUE
    MaxCalls = 1
    MaxEdits = 2
SYMMETRY ConnSymmetry
INVARIANTS AdmissionNeverStarves
CHECK_DEADLOCK FALSE
