\* Two starts: one that has the Home and one that wants it. No symmetry, for the liveness.
SPECIFICATION FairSpec
CONSTANTS
    Start = {s1, s2}
    None = None
INVARIANTS OneManager ServingIsReachable StoppedIsGone FailedReapsManager
PROPERTIES OrphansEnd StartReturns
CHECK_DEADLOCK FALSE
