\* Three places, two moves and three faults. No symmetry, for the liveness.
SPECIFICATION FairSpec
CONSTANTS
    Place = {origin, p1, p2}
    Origin = origin
    None = None
    Torn = Torn
    Foreign = Foreign
    MaxMoves = 2
    MaxFaults = 3
INVARIANTS EveryCatalogHasItsProof ReturnIsComplete DriftIsNeverCertified
PROPERTY RetryRebinds
