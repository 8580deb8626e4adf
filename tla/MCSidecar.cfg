CONSTANTS
    Worker = {w1, w2}
    Key = {k1}
    Revision = {r1, r2}
    NoRevision = NoRevision
    Uri = {u1, u2}
    ForeignUri = ForeignUri
    NoUri = NoUri
    LeaseTicks = 1
    MaxClock = 2
    MaxClaims = 3
    MaxRollbacks = 1
SPECIFICATION Spec
CHECK_DEADLOCK FALSE
INVARIANTS
    RunningOnlyWhileActive
    LiveLeaseIsExclusive
PROPERTIES
    OnlyOwnerEndsRun
    ImplementsContinuity
