------------------------- MODULE MCWriterAuthority -------------------------
EXTENDS WriterAuthority, TLC

Interchangeable == Permutations(Process) \cup Permutations(Op)
=============================================================================
