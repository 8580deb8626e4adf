SPECIFICATION Spec
CONSTANTS
    Process = {p1, p2}
    Op = {o1, o2}
    Prepared = {ready}
    RolledBack = {back}
    None = None
    Torn = Torn
    MaxRevision = 4
SYMMETRY Interchangeable
INVARIANT SuspendedStaysFrozen
CHECK_DEADLOCK FALSE
