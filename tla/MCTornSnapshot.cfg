SPECIFICATION Spec
CONSTANTS
    Deployer = {p1}
    Installer = {i1}
    Digest = {d1, d2}
    None = None
    Stale = Stale
SYMMETRY Interchangeable
INVARIANTS SnapshotHasItsRelease
