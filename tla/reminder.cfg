CONSTANTS
    Orders = {o1, o2}
    PendingAfter = 2
    RenotifyAfter = 3
    Interval = 2
    Never = Never
SPECIFICATION FairSpec
INVARIANTS
    CooldownRespected
    RecordedWasNudged
PROPERTIES
    NudgedUntilResolved
