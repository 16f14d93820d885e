CONSTANTS
    MaxTime = 7
    Time <- Times
    Switch = 4
    TTD = 3
    MaxLength = 7
SPECIFICATION Spec
INVARIANTS
    TypeOK
    TypesFollowFork
    PendingMineable
