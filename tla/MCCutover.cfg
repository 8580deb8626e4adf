SPECIFICATION Spec
CONSTANTS
    NUnits = 2
    search = search
    read = read
    wiki = wiki
    Capability <- MCCapability
    UnitOf <- MCUnitOf
    Revision = {r1, r2}
    None = None
SYMMETRY Interchangeable
INVARIANTS PoliciesAgree OrderedUnits RollbackHolds
PROPERTY ImplementsPin
CHECK_DEADLOCK FALSE
