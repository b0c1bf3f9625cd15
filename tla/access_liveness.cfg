\* One connection, any call may time out, under fairness.
SPECIFICATION LiveSpec
CONSTANTS
    Host = {h1}
    Conn = {c1}
    None = None
    MaxTransports = 1
    MaxServices = 2
    Timeouts = TRUE
    MaxCalls = 3
    MaxEdits = 2
INVARIANTS ServicesAuthorized DroppedSessionsAreTold
PROPERTIES DroppedSessionsEnd HandshakesEnd OrphansEnd
CHECK_DEADLOCK FALSE
