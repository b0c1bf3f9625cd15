\* Anything may change and the thread may be late or stuck, or only the provider
\* changes and the thread is prompt.
SPECIFICATION Spec
CONSTANTS
    Interval = 3
    Timeout = 2
    Stale = 6
    Grace = 14
    Poll = 1
    Late = 1
    MaxChanges = 2
    None = None
INVARIANTS ConflictEndsService GraceIsBounded
PROPERTIES StartsAreConfirmed NoNeedlessPause
