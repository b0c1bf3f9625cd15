\* A shell that starts a descendant which ignores SIGHUP and writes nothing.
SPECIFICATION Spec
CONSTANTS
    p1 = p1
    p2 = p2
    tcp = tcp
    path = path
    Any = Any
    None = None
    Proc = {p1, p2}
    Solo = p1
    InboxSize = 1
    Commands <- Daemons
    PipeSize = 1
    SocketSize = 1
    Address = {tcp, path}
    Paths = {path}
    ReverseLimit = 2
    MaxLate = 1
INVARIANTS GroupCleaned
CHECK_DEADLOCK FALSE
