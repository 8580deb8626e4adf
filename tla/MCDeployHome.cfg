SPECIFICATION Spec
CONSTANTS
    Deployer = {p1, p2}
    Installer = {i1, i2}
    Digest = {d1, d2}
    None = None
    Stale = Stale
SYMMETRY Interchangeable
INVARIANTS DeploymentHasItsRelease InstallationIsWhole
