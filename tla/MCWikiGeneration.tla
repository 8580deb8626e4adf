-------------------------- MODULE MCWikiGeneration --------------------------
(* Instance of WikiGeneration for TLC: a queue worker and a direct caller,  *)
(* two principals, and requests for either of two workspace revisions.      *)
EXTENDS WikiGeneration, TLC
=============================================================================
