SPECIFICATION FairSpec
CONSTANTS
    Start = {s1}
    None = None
PROPERTY OrphansAlwaysEnd
CHECK_DEADLOCK FALSE
