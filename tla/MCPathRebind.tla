---------------------------- MODULE MCPathRebind ----------------------------
(* Instance of PathRebind for TLC: the origin and two other places. *)
EXTENDS PathRebind
=============================================================================
