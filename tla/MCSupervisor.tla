---------------------------- MODULE MCSupervisor ----------------------------
(* Instance of Supervisor for TLC: safety and liveness of two starts. *)
EXTENDS Supervisor
=============================================================================
