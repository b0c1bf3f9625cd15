\* One shell, or one file transfer, or reverse listeners on two addresses.
SPECIFICATION LiveSpec
CONSTANTS
    p1 = p1
    p2 = p2
    tcp = tcp
    path = path
    Any = Any
    None = None
    Proc = {p1, p2}
    Solo = p1
    InboxSize = 1
    Commands <- FewCommands
    PipeSize = 1
    SocketSize = 1
    Address = {tcp, path}
    Paths = {path}
    ReverseLimit = 2
    MaxLate = 1
INVARIANTS TargetWhole NoLeftovers EntriesServed NoStrays
PROPERTIES FramesWhole ExitCodeLast ServicesEnd OverShellsEnd
CHECK_DEADLOCK FALSE
