----------------------------- MODULE MCSidecar -----------------------------
(* Instance of Sidecar for TLC: two concurrent calls, one key that both may *)
(* use, two revisions and two possible results.                             *)
EXTENDS Sidecar, TLC

Symmetry == Permutations(Worker) \cup Permutations(Uri)
=============================================================================
