SPECIFICATION Spec
CONSTANTS
    NUnits = 2
    search = search
    read = read
    wiki = wiki
    Capability <- MCCapability
    UnitOf <- MCUnitOf
    Revision = {r1, r2}
    None = None
SYMMETRY Interchangeable
INVARIANT RollbackTakesLaterUnits
CHECK_DEADLOCK FALSE
