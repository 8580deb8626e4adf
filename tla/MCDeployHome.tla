---------------------------- MODULE MCDeployHome ----------------------------
EXTENDS DeployHome, TLC

Interchangeable == Permutations(Deployer) \cup Permutations(Installer) \cup Permutations(Digest)
=============================================================================
