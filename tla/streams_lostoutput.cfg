\* A service exits while its client still writes.
SPECIFICATION Spec
CONSTANTS
    Remote = {1}
    MaxLocal = 1
    MaxStreams = 1
    PendingLimit = 2
    TotalLimit = 3
    OutLimit = 2
    SocketSize = 3
    MaxWrites = 3
    MaxOutputs = 2
    EmptyWrites = FALSE
    Hasty = TRUE
    MaxReverse = 0
    Deadlines = FALSE
PROPERTIES OutputBeforeClose
CHECK_DEADLOCK FALSE
