SPECIFICATION Spec
CONSTANTS
    Process = {p1, p2}
    Op = {o1, o2}
    Prepared = {ready}
    RolledBack = {back}
    None = None
    Torn = Torn
    MaxRevision = 6
SYMMETRY Interchangeable
INVARIANTS LawfulChain AssignedAwayIsFrozen ThawRetries
PROPERTIES JournalOnlyGrows MarkerLeavesAReceipt ImplementsFence
CHECK_DEADLOCK FALSE
