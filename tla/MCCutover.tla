------------------------------ MODULE MCCutover ------------------------------
EXTENDS Cutover, TLC

CONSTANTS search, read, wiki

MCCapability == {search, read, wiki}
\* The first unit has two capabilities, so that its promotion can stop
\* half-way.
MCUnitOf == (search :> 1) @@ (read :> 1) @@ (wiki :> 2)

Interchangeable == Permutations({search, read}) \cup Permutations(Revision)
=============================================================================
