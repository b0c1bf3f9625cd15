\* Two networks, two port settings, starts that fail except after a permission
\* change, under fairness.
SPECIFICATION LiveSpec
CONSTANTS
    Net = {n1, n2}
    Port = {p1, p2}
    None = None
    MaxFailures = 2
    FailingStarts = {"rotate", "network"}
    MaxEvents = 8
INVARIANTS ServicePolicy ModesSettle ListenersMatchConfig StateIsBacked
PROPERTIES Converges
CHECK_DEADLOCK FALSE
