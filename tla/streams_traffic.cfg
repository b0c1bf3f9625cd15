\* Streams of both directions, a hasty client, deadlines, under fairness; services may
\* never read, and the peers of a reverse listener may end their output first.
SPECIFICATION LiveSpec
CONSTANTS
    Remote = {1}
    MaxLocal = 2
    MaxStreams = 2
    PendingLimit = 2
    TotalLimit = 3
    OutLimit = 1
    SocketSize = 2
    MaxWrites = 3
    MaxOutputs = 1
    EmptyWrites = TRUE
    Hasty = TRUE
    MaxReverse = 1
    Deadlines = TRUE
INVARIANTS InOrder
PROPERTIES EndsOnlyPastLimits AcknowledgedWhenDrained DrainedBeforeClose WritesAnswered ClosedStreamsGo
CHECK_DEADLOCK FALSE
