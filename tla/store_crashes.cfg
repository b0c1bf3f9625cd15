\* Any call may fail, the undoing of a rename as well, and any crash may happen.
SPECIFICATION Spec
CONSTANTS
    Value = {absent, v1, v2}
    Absent = absent
    None = None
INVARIANTS NeverTorn FileMatchesMemory
PROPERTIES KeepsPromise SuccessSettles
CHECK_DEADLOCK FALSE
