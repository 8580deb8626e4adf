-------------------------- MODULE MCDeploymentFence --------------------------
(***************************************************************************)
(* Two processes and three bundles, two of which share their revision; the *)
(* proposals change the revision and, prepared in turn, its content.        *)
(***************************************************************************)
EXTENDS DeploymentFence, TLC

CONSTANTS server, rehearsal, old, first, second, r1, r2

MCRevisionOf == (old :> r1) @@ (first :> r2) @@ (second :> r2)

MCProposal == {<<first, old>>, <<second, old>>}
=============================================================================
