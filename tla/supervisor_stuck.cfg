\* One port setting; a start may fail after a permission change.
SPECIFICATION Spec
CONSTANTS
    Net = {n1, n2}
    Port = {p1}
    None = None
    MaxFailures = 1
    FailingStarts = {"configure"}
    MaxEvents = 2
INVARIANTS RunningHasWorker
CHECK_DEADLOCK FALSE
